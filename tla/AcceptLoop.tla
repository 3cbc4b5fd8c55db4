----------------------------- MODULE AcceptLoop -----------------------------
(***************************************************************************)
(* SocketIPv4::Run: a server process that accepts connections and forks    *)
(* one process per connection.  The state is what decides whether clients  *)
(* get an answer and see the connection end: which process holds which     *)
(* open descriptor, where every process is in Run, and how many tasks      *)
(* (processes, zombies, threads) the user's limit still allows.            *)
(*                                                                         *)
(* The bytes HandleRead reads are the subject of module HandleRead; here   *)
(* it returns once the client has sent a request or gone away.  The data   *)
(* handler is any function that returns a message, returns an empty one or *)
(* throws.                                                                 *)
(***************************************************************************)
EXTENDS Integers, Sequences, FiniteSets

CONSTANTS
  Conns,            \* TCP connections, each opened by one client once
  Readers,          \* those whose client goes on reading while it is there
  sockfd,           \* the listening socket, Socket::_sockfd
  NoConn,           \* connfd before the first accept
  Backlog,          \* numListeners of Listen
  MaxTasks,         \* RLIMIT_NPROC of the server's user
  MaxFds,           \* RLIMIT_NOFILE of a process
  HasDataHandler,   \* whether OnDataReceive was called
  HandlerOutcomes,  \* what the data handler may do
  AcceptMayFail     \* whether accept can fail for want of kernel memory

ASSUME ConstantsAssumption ==
  /\ sockfd \notin Conns
  /\ NoConn \notin Conns
  /\ Readers \subseteq Conns
  /\ Backlog \in Nat \ {0}
  /\ MaxTasks \in Nat \ {0}
  /\ MaxFds \in Nat
  /\ HasDataHandler \in BOOLEAN
  /\ HandlerOutcomes \subseteq {"message", "empty", "throws"}
  /\ AcceptMayFail \in BOOLEAN

VARIABLES
  queue,       \* connections the kernel completed and accept has not returned
  serverPc,    \* where the server process is in Run
  connfd,      \* the server's variable connfd
  serverFds,   \* sockets the server process has a descriptor of
  childPc,     \* where the process forked for a connection is
  childFds,    \* sockets that process has a descriptor of
  client,      \* what the client at the other end has done
  responded    \* connections whose client was sent a response

serverVars == <<serverPc, connfd, serverFds>>
childVars == <<childPc, childFds>>
vars == <<queue, serverPc, connfd, serverFds, childPc, childFds, client,
          responded>>

ServerPcs == {"accept", "fork", "close", "exited"}
ChildPcs == {"none", "start", "spawn", "read", "handle", "write", "close",
             "exit", "zombie", "reaped"}
AtWork == {"start", "spawn", "read", "handle", "write", "close"}
ClientStates == {"idle", "open", "sent", "left", "reset"}

TypeOK ==
  /\ queue \in Seq(Conns)
  /\ serverPc \in ServerPcs
  /\ connfd \in Conns \cup {NoConn}
  /\ serverFds \subseteq Conns \cup {sockfd}
  /\ childPc \in [Conns -> ChildPcs]
  /\ childFds \in [Conns -> SUBSET (Conns \cup {sockfd})]
  /\ client \in [Conns -> ClientStates]
  /\ responded \subseteq Conns

Init ==
  /\ queue = <<>>
  /\ serverPc = "accept"
  /\ connfd = NoConn
  /\ serverFds = {sockfd}
  /\ childPc = [c \in Conns |-> "none"]
  /\ childFds = [c \in Conns |-> {}]
  /\ client = [c \in Conns |-> "idle"]
  /\ responded = {}
-----------------------------------------------------------------------------
(* The kernel's side: open sockets and the task limit.                     *)

Queued(c) == \E i \in 1..Len(queue) : queue[i] = c

\* A socket is open while some process has a descriptor of it.
Open(s) == s \in serverFds \/ \E d \in Conns : s \in childFds[d]

\* The connection has ended for the client: nothing holds its server end.
Ended(c) == client[c] # "idle" /\ ~Queued(c) /\ ~Open(c)

\* Every unreaped process counts against RLIMIT_NPROC, a zombie included, and
\* so does the thread std::async runs HandleRead in.
Tasks ==
  (IF serverPc = "exited" THEN 0 ELSE 1)
  + Cardinality({c \in Conns : childPc[c] \notin {"none", "reaped"}})
  + Cardinality({c \in Conns : childPc[c] = "read"})

\* When the listening socket loses its last descriptor the kernel resets the
\* connections accept never returned.
ReleaseListener ==
  IF Open(sockfd)'
  THEN UNCHANGED <<queue, client>>
  ELSE /\ queue' = <<>>
       /\ client' = [c \in Conns |->
                       IF Queued(c) THEN "reset" ELSE client[c]]
-----------------------------------------------------------------------------
(* Clients.                                                                *)

Connect(c) ==
  /\ client[c] = "idle"
  /\ Open(sockfd)
  /\ Len(queue) < Backlog
  /\ client' = [client EXCEPT ![c] = "open"]
  /\ queue' = Append(queue, c)
  /\ UNCHANGED <<serverVars, childVars, responded>>

\* A whole request, up to the terminator: it may come before accept returns.
SendRequest(c) ==
  /\ client[c] = "open"
  /\ ~Ended(c)
  /\ client' = [client EXCEPT ![c] = "sent"]
  /\ UNCHANGED <<queue, serverVars, childVars, responded>>

\* The client closes its end, with or without having sent a request.
Leave(c) ==
  /\ client[c] \in {"open", "sent"}
  /\ client' = [client EXCEPT ![c] = "left"]
  /\ UNCHANGED <<queue, serverVars, childVars, responded>>
-----------------------------------------------------------------------------
(* The server process.                                                     *)

Accept ==
  /\ serverPc = "accept"
  /\ queue # <<>>
  /\ Cardinality(serverFds) < MaxFds
  /\ connfd' = Head(queue)
  /\ queue' = Tail(queue)
  /\ serverFds' = serverFds \cup {Head(queue)}
  /\ serverPc' = "fork"
  /\ UNCHANGED <<childVars, client, responded>>

\* Any error of accept makes Run return, and main with it.  The children
\* that are left to init are reaped there.
AcceptFails ==
  /\ serverPc = "accept"
  /\ AcceptMayFail \/ Cardinality(serverFds) >= MaxFds
  /\ serverPc' = "exited"
  /\ serverFds' = {}
  /\ childPc' = [c \in Conns |->
                   IF childPc[c] = "zombie" THEN "reaped" ELSE childPc[c]]
  /\ UNCHANGED <<connfd, childFds, responded>>
  /\ ReleaseListener

Fork ==
  /\ serverPc = "fork"
  /\ Tasks < MaxTasks
  /\ childPc' = [childPc EXCEPT ![connfd] = "start"]
  /\ childFds' = [childFds EXCEPT ![connfd] = serverFds]
  /\ serverPc' = "close"
  /\ UNCHANGED <<queue, connfd, serverFds, client, responded>>

\* fork returns -1: Run takes the parent's path and closes the connection.
ForkFails ==
  /\ serverPc = "fork"
  /\ Tasks >= MaxTasks
  /\ serverPc' = "close"
  /\ UNCHANGED <<queue, connfd, serverFds, childVars, client, responded>>

\* Mutant: the parent does not close the connection it handed over.
ServerClosesNothing ==
  /\ serverPc = "close"
  /\ serverPc' = "accept"
  /\ UNCHANGED <<queue, connfd, serverFds, childVars, client, responded>>

\* Mutant: the parent closes the listening socket in connfd's place.
ServerClosesListener ==
  /\ serverPc = "close"
  /\ serverFds' = serverFds \ {sockfd}
  /\ serverPc' = "accept"
  /\ UNCHANGED <<connfd, childVars, responded>>
  /\ ReleaseListener

ServerCloses ==
  /\ serverPc = "close"
  /\ serverFds' = serverFds \ {connfd}
  /\ serverPc' = "accept"
  /\ UNCHANGED <<queue, connfd, childVars, client, responded>>
-----------------------------------------------------------------------------
(* The process forked for connection c.                                    *)

\* A process that ends stays a zombie as long as the server lives: Run never
\* waits for its children.
Dead == IF serverPc = "exited" THEN "reaped" ELSE "zombie"

ChildStep(c, from, to) ==
  /\ childPc[c] = from
  /\ childPc' = [childPc EXCEPT ![c] = to]

\* Mutant: the child keeps the listening socket.
ChildKeepsListener(c) ==
  /\ ChildStep(c, "start", "spawn")
  /\ UNCHANGED <<queue, serverVars, childFds, client, responded>>

ChildClosesListener(c) ==
  /\ ChildStep(c, "start", "spawn")
  /\ childFds' = [childFds EXCEPT ![c] = @ \ {sockfd}]
  /\ UNCHANGED <<serverVars, responded>>
  /\ ReleaseListener

SpawnReader(c) ==
  /\ Tasks < MaxTasks
  /\ ChildStep(c, "spawn", "read")
  /\ UNCHANGED <<queue, serverVars, childFds, client, responded>>

\* An exception nothing catches, or SIGPIPE: the process ends where it is.
ChildDies(c, from) ==
  /\ ChildStep(c, from, Dead)
  /\ childFds' = [childFds EXCEPT ![c] = {}]
  /\ UNCHANGED <<serverVars, responded>>
  /\ ReleaseListener

\* std::async cannot start its thread and throws std::system_error.
SpawnReaderThrows(c) ==
  /\ Tasks >= MaxTasks
  /\ ChildDies(c, "spawn")

ReadReturns(c) ==
  /\ client[c] \in {"sent", "left"}
  /\ ChildStep(c, "read", IF HasDataHandler THEN "handle" ELSE "close")
  /\ UNCHANGED <<queue, serverVars, childFds, client, responded>>

\* Mutant: the connection is closed before the message is written.
HandleDataCloses(c) ==
  /\ "message" \in HandlerOutcomes
  /\ ChildStep(c, "handle", "write")
  /\ childFds' = [childFds EXCEPT ![c] = @ \ {c}]
  /\ UNCHANGED <<queue, serverVars, client, responded>>

\* Mutant: what the handler returns is not written.
HandleDataDiscards(c) ==
  /\ ChildStep(c, "handle", "close")
  /\ UNCHANGED <<queue, serverVars, childFds, client, responded>>

\* An empty message makes write a call without effect.
HandleData(c) ==
  /\ \/ /\ "message" \in HandlerOutcomes
        /\ ChildStep(c, "handle", "write")
     \/ /\ "empty" \in HandlerOutcomes
        /\ ChildStep(c, "handle", "close")
  /\ UNCHANGED <<queue, serverVars, childFds, client, responded>>

HandlerThrows(c) ==
  /\ "throws" \in HandlerOutcomes
  /\ ChildDies(c, "handle")

\* What is written to a client that has gone is lost.  A client that does not
\* read may take the whole message or hold the write up: see Fairness.
Write(c) ==
  /\ ChildStep(c, "write", "close")
  /\ responded' = responded \cup (IF client[c] = "left" THEN {} ELSE {c})
  /\ UNCHANGED <<queue, serverVars, childFds, client>>

\* If the client's reset has already arrived, write raises SIGPIPE.
WriteBreaks(c) ==
  /\ client[c] = "left"
  /\ ChildDies(c, "write")

ChildCloses(c) ==
  /\ ChildStep(c, "close", "exit")
  /\ childFds' = [childFds EXCEPT ![c] = @ \ {c}]
  /\ UNCHANGED <<queue, serverVars, client, responded>>

\* Mutant: without exit(0) the child goes on as a second server.
ChildGoesOn(c) ==
  /\ ChildStep(c, "exit", "accept")
  /\ UNCHANGED <<queue, serverVars, childFds, client, responded>>

ChildExits(c) ==
  /\ ChildStep(c, "exit", Dead)
  /\ childFds' = [childFds EXCEPT ![c] = {}]
  /\ UNCHANGED <<serverVars, responded>>
  /\ ReleaseListener
-----------------------------------------------------------------------------
ClientAction(c) == Connect(c) \/ SendRequest(c) \/ Leave(c)

ServerProgress == Accept \/ Fork \/ ForkFails \/ ServerCloses

ChildAction(c) ==
  \/ ChildClosesListener(c) \/ SpawnReader(c) \/ SpawnReaderThrows(c)
  \/ ReadReturns(c) \/ HandleData(c) \/ HandlerThrows(c)
  \/ Write(c) \/ WriteBreaks(c) \/ ChildCloses(c) \/ ChildExits(c)

Next ==
  \/ ServerProgress
  \/ AcceptFails
  \/ \E c \in Conns : ClientAction(c) \/ ChildAction(c)

Spec == Init /\ [][Next]_vars

\* write has no timeout: while the client is connected and reads nothing, what
\* exceeds the socket buffers keeps the child in it (SocketIPv4.cpp:81).
MayBlock(c) == childPc[c] = "write" /\ client[c] # "left" /\ c \notin Readers

\* The kernel runs every runnable process, and a child in a write that cannot
\* block is one.  No client need send, leave or, outside Readers, read, and
\* accept need not fail because it may.
Fairness ==
  /\ WF_vars(ServerProgress)
  /\ \A c \in Conns : WF_vars(ChildAction(c) /\ ~MayBlock(c))

FairSpec == Spec /\ Fairness
-----------------------------------------------------------------------------
(* Safety.                                                                 *)

\* A process holds the connection it is there for, and no other: the server
\* while it hands connfd over, a child from fork to its close.  With one more
\* descriptor anywhere the client of a finished child would never see its
\* connection end; with one less it would be cut off before its answer (Run
\* closes connfd in both processes, on every path, SocketIPv4.cpp:68-87).
OnlyItsOwnConnection ==
  /\ serverFds \cap Conns =
       IF serverPc \in {"fork", "close"} THEN {connfd} ELSE {}
  /\ \A c \in Conns :
       childFds[c] \cap Conns = IF childPc[c] \in AtWork THEN {c} ELSE {}

\* The kernel turns a waiting connection away only when the server is gone:
\* neither a child that closes its copy of the listening socket nor one that
\* dies with it takes the queue down while the parent is in Run.
ResetOnlyByExit ==
  \A c \in Conns : client[c] = "reset" => serverPc = "exited"

\* The descriptors of each process follow from where it is in Run.
ServerInStep ==
  /\ serverFds = CASE serverPc = "accept" -> {sockfd}
                   [] serverPc \in {"fork", "close"} -> {sockfd, connfd}
                   [] serverPc = "exited" -> {}
  /\ serverPc \in {"fork", "close"} =>
       /\ connfd \in Conns
       /\ client[connfd] \in {"open", "sent", "left"}
  /\ serverPc = "fork" => childPc[connfd] = "none"

ChildInStep(c) ==
  /\ childFds[c] = CASE childPc[c] = "start" -> {sockfd, c}
                     [] childPc[c] \in AtWork \ {"start"} -> {c}
                     [] OTHER -> {}
  /\ childPc[c] # "none" => client[c] \in {"open", "sent", "left"}

\* A connection in the queue is known to no process yet, and the queue lives
\* as long as the listening socket.
QueueInStep ==
  /\ \A i, j \in 1..Len(queue) : queue[i] = queue[j] => i = j
  /\ \A c \in Conns : Queued(c) =>
       /\ client[c] \in {"open", "sent", "left"}
       /\ childPc[c] = "none"
       /\ c \notin serverFds
  /\ queue # <<>> => Open(sockfd)

\* Every connection is in one place at a time, from the kernel's queue through
\* the server to its child, and is answered only by that child before it
\* closes: what Run relies on without ever checking it.
ProcessesInStep ==
  /\ ServerInStep
  /\ \A c \in Conns : ChildInStep(c)
  /\ QueueInStep
  /\ \A c \in responded : childPc[c] \in {"close", "exit", "zombie", "reaped"}
  /\ ResetOnlyByExit

\* Run keeps the library's promise: seen through the descriptors, every
\* connection goes through the stages of ConnectionService, in order.
Status(c) ==
  CASE client[c] = "idle" -> "idle"
    [] Queued(c) -> "waiting"
    [] Open(c) /\ c \notin responded -> "open"
    [] Open(c) /\ c \in responded -> "answered"
    [] Ended(c) /\ c \in responded -> "done"
    [] Ended(c) /\ c \notin responded -> "dropped"

Service == INSTANCE ConnectionService
             WITH waiting <- queue, status <- [c \in Conns |-> Status(c)]

ImplementsService == Service!Spec

\* A server that serves nobody at the moment can fork for the connection it
\* has just accepted: the server spawns a new process on client connection
\* (cool_ideas.txt:1).
IdleServerForks ==
  serverPc = "fork" /\ (\A c \in Conns : childPc[c] \notin AtWork \cup {"exit"})
    => Tasks < MaxTasks
-----------------------------------------------------------------------------
(* Liveness.                                                               *)

\* A client that left, or that sent its request and reads what it is sent, sees
\* the connection end, whatever the other clients do, one that never reads its
\* answer included, and whatever fails on the server's side: fork, the reader
\* thread, the handler, write, or accept itself.
EveryRequestEnds ==
  \A c \in Conns :
    client[c] = "left" \/ (client[c] = "sent" /\ c \in Readers) ~> Ended(c)

\* With tasks to spare and a handler that returns a message, a client that
\* reads gets its answer, even while other clients stay silent or leave theirs
\* unread for ever.
EveryRequestAnswered ==
  \A c \in Readers :
    client[c] = "sent" ~> c \in responded \/ client[c] = "left"

\* Once Run has returned nothing keeps the listening socket, however long the
\* children that are left go on.
PortReleased == serverPc = "exited" ~> ~Open(sockfd)
=============================================================================
