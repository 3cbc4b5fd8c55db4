------------------------------ MODULE Sessions ------------------------------
(***************************************************************************)
(* One of the repository's servers and one client program, from their      *)
(* start to the end of the connection between them: what each says and     *)
(* waits for, which processes and threads serve the connection, and what   *)
(* TCP makes of a close on either side.  AcceptLoop has many clients and   *)
(* one kind of server, Sessions one client and every kind of both.         *)
(***************************************************************************)
EXTENDS Startup, Sequences, FiniteSets

CONSTANTS
  Byte, NUL, BUFSIZE,  \* as in HandleRead
  WebTerminator,       \* WebServer.cpp:49; the daytime server sets none
  BrowserStreams,      \* what a browser may send
  Hello,               \* what client.c sends
  MaxLines             \* lines on the standard input of TcpServer

Streams == BrowserStreams \cup {Hello, <<>>}

ASSUME SessionAssumption ==
  /\ WebTerminator \in Seq(Byte) \ {<<>>}
  /\ BUFSIZE \in Nat
  /\ Streams \subseteq Seq(Byte)
  /\ MaxLines \in Nat

VARIABLES
  stream, delivered, eof, fBytesRead, fBufferData, \* as in HandleRead
  childPc,   \* where the server's child is, "read" while in HandleRead
  holders,   \* the server's processes that have the connection's descriptor
  toClient,  \* what the client has not read: answers, then an end
  readerPc,  \* where doRead of TcpServer is
  writerPc,  \* and doWrite
  lines      \* what is left of its standard input

conversation == <<stream, delivered, eof, fBytesRead, fBufferData>>
threads == <<readerPc, writerPc, lines>>

vars == <<input, startup, serverPc, clientPc, link,
          conversation, childPc, holders, toClient, threads>>

Web == INSTANCE HandleRead WITH Terminator <- WebTerminator, pc <- childPc
Daytime == INSTANCE HandleRead WITH Terminator <- <<>>, pc <- childPc

TypeOK ==
  /\ server \in Servers /\ client \in Clients
  /\ told \in PortArgs /\ asked \in 0..(PortMod - 1) /\ taken \in BOOLEAN
  /\ valid \in BOOLEAN /\ listening \in BOOLEAN
  /\ bound \in 0..(PortMod - 1) \cup Ephemeral
  /\ serverPc \in {"create", "bind", "listen", "accept", "fork", "close",
                   "read", "send", "join", "exited"}
  /\ clientPc \in {"connect", "send", "read", "spin", "left"}
  /\ link \in {"none", "queued", "accepted", "gone"}
  /\ stream \in Streams
  /\ delivered \in 0..Len(stream)
  /\ eof \in {"no", "fin", "reset"}
  /\ fBytesRead \in 0..delivered
  /\ fBufferData \in Seq(Byte)
  /\ childPc \in {"none", "start", "read", "returned", "close", "failed",
                  "done"}
  /\ holders \subseteq {"server", "child"}
  /\ toClient \in Seq({"answer", "fin", "rst"})
  /\ readerPc \in {"none", "read", "erred", "done"}
  /\ writerPc \in {"none", "getline", "done"}
  /\ lines \in 0..MaxLines

Init ==
  /\ StartupInit
  /\ \/ client = "browser" /\ stream \in BrowserStreams
     \/ client = "client" /\ stream = Hello
     \/ client \in {"daytimetcpcli", "daytimeclient"} /\ stream = <<>>
  /\ delivered = 0
  /\ eof = "no"
  /\ fBytesRead = 0
  /\ fBufferData = <<>>
  /\ childPc = "none"
  /\ holders = {}
  /\ toClient = <<>>
  /\ readerPc = "none"
  /\ writerPc = "none"
  /\ lines \in 0..MaxLines
-----------------------------------------------------------------------------
(* The kernel's side.                                                      *)

Ended == \E i \in 1..Len(toClient) : toClient[i] # "answer"

\* The last descriptor goes: the connection ends for the client.  Bytes nobody
\* has read turn the end into a reset, which may overtake the answers.
Release(h) ==
  /\ holders' = holders \ {h}
  /\ \/ holders # {h} /\ UNCHANGED toClient
     \/ /\ holders = {h} /\ fBytesRead < delivered
        /\ toClient' \in {Append(toClient, "rst"), <<"rst">>}
     \/ /\ holders = {h} /\ fBytesRead = delivered
        /\ toClient' = Append(toClient, "fin")

Deliver ==
  /\ clientPc \in {"read", "spin", "left"}
  /\ link = "queued" \/ holders # {}
  /\ \E n \in 1..(Len(stream) - delivered) : Web!Deliver(n)
  /\ UNCHANGED <<input, startup, serverPc, clientPc, link, holders, toClient,
                 threads>>

\* The end of a client that has gone: a reset if it had not read everything.
DeliverEnd ==
  /\ clientPc = "left"
  /\ link = "queued" \/ holders # {}
  /\ eof = "no"
  /\ \/ eof' = "fin" /\ delivered = Len(stream)
     \/ eof' = "reset" /\ toClient # <<>>
  /\ UNCHANGED <<input, startup, serverPc, clientPc, link, stream, delivered,
                 fBytesRead, fBufferData, childPc, holders, toClient, threads>>

\* Bytes that arrive for a connection the server has closed.
Bounce ==
  /\ clientPc = "read"
  /\ link = "gone" \/ (link = "accepted" /\ holders = {})
  /\ delivered < Len(stream)
  /\ \A i \in 1..Len(toClient) : toClient[i] # "rst"
  /\ toClient' \in {Append(toClient, "rst"), <<"rst">>}
  /\ UNCHANGED <<input, startup, serverPc, clientPc, link, conversation,
                 childPc, holders, threads>>

\* What the server writes next raises SIGPIPE: surely after a reset, perhaps
\* after an earlier write to a client that had gone.
MustBreak == eof = "reset"
MayBreak == MustBreak \/ (clientPc = "left" /\ toClient # <<>>)
-----------------------------------------------------------------------------
(* SocketIPv4::Run in both copies of the library.                          *)

Forking == server \in {"web", "daytime"}

\* accept gives the connection to the server's process, which goes on at pc.
Accepts(pc) ==
  /\ serverPc = "accept" /\ link = "queued"
  /\ link' = "accepted"
  /\ holders' = {"server"}
  /\ serverPc' = pc
  /\ UNCHANGED <<input, startup, clientPc, conversation, childPc, toClient>>

\* The server's process ends while no connection is its own: the queue goes
\* with the listening socket.
ExitsAtAccept ==
  /\ serverPc' = "exited"
  /\ listening' = FALSE
  /\ IF link = "queued"
     THEN link' = "gone" /\ toClient' \in {<<"rst">>, <<"fin">>}
     ELSE UNCHANGED <<link, toClient>>
  /\ UNCHANGED <<input, valid, bound, clientPc, conversation, childPc,
                 holders, threads>>

\* An invalid _sockfd, no descriptor left; in the Wrappers copy also a length
\* nobody has set (SocketIPv4.cpp:58 there).
AcceptFails ==
  Forking /\ serverPc = "accept" /\ ExitsAtAccept

Run ==
  \/ Forking /\ Accepts("fork") /\ UNCHANGED threads
  \/ /\ serverPc = "fork"
     /\ \/ childPc' = "start" /\ holders' = {"server", "child"}
        \/ UNCHANGED <<childPc, holders>>  \* no process: -1
     /\ serverPc' = "close"
     /\ UNCHANGED <<input, startup, clientPc, link, conversation, toClient,
                    threads>>
  \/ /\ serverPc = "close"
     /\ Release("server")
     /\ serverPc' = "accept"
     /\ UNCHANGED <<input, startup, clientPc, link, conversation, childPc,
                    threads>>

\* The child goes on at pc and keeps the connection.
Child(pc) ==
  /\ childPc' = pc
  /\ UNCHANGED <<input, startup, serverPc, clientPc, link, conversation,
                 holders, threads>>

\* The child ends, the connection with it unless the parent still has it.
ChildEnds(pc) ==
  /\ Release("child")
  /\ childPc' = pc
  /\ UNCHANGED <<input, startup, serverPc, clientPc, link, conversation,
                 threads>>

\* The listening socket is closed, the callback called - what the daytime
\* server's callback returns is dropped - and the reader thread started, if
\* there is one to be had.
ChildStarts ==
  /\ childPc = "start"
  /\ \/ Child("read") /\ UNCHANGED toClient
     \/ ChildEnds("failed")

\* Mutant: the first piece that arrives is taken for the request.
HandleReadOnce ==
  /\ childPc = "read"
  /\ IF delivered > fBytesRead
     THEN /\ fBytesRead' = fBytesRead + 1
          /\ fBufferData' = Append(fBufferData, stream[fBytesRead + 1])
          /\ UNCHANGED <<stream, delivered, eof>>
     ELSE eof # "no" /\ UNCHANGED conversation
  /\ childPc' = "returned"
  /\ UNCHANGED <<input, startup, serverPc, clientPc, link, holders, toClient,
                 threads>>

\* Mutant: the daytime server, too, waits for the end of a request.
HandleReadAlike ==
  /\ Web!Read
  /\ UNCHANGED <<input, startup, serverPc, clientPc, link, holders, toClient,
                 threads>>

HandleRead ==
  /\ \/ server = "web" /\ Web!Read
     \/ server = "daytime" /\ Daytime!Read
  /\ UNCHANGED <<input, startup, serverPc, clientPc, link, holders, toClient,
                 threads>>

\* WebServer.cpp's handler answers, has nothing to say, or throws; a write
\* that breaks ends the child.
WebResponds ==
  /\ server = "web" /\ childPc = "returned"
  /\ \/ ~MustBreak /\ toClient' = Append(toClient, "answer") /\ Child("close")
     \/ UNCHANGED toClient /\ Child("close")
     \/ ChildEnds("done")

\* The daytime server has no data handler.
DaytimeSaysNothing ==
  /\ server = "daytime" /\ childPc = "returned"
  /\ UNCHANGED toClient /\ Child("close")

ChildCloses == childPc = "close" /\ ChildEnds("done")

ChildStep ==
  ChildStarts \/ HandleRead \/ WebResponds \/ DaytimeSaysNothing \/ ChildCloses
-----------------------------------------------------------------------------
(* TcpServer.cpp.                                                          *)

TwoWayAccepts ==
  /\ server = "twoway" /\ Accepts("join")
  /\ readerPc' = "read" /\ writerPc' = "getline"
  /\ UNCHANGED lines

\* The result of accept is not looked at: the threads get -1 for connfd.
TwoWayAcceptFails ==
  /\ server = "twoway" /\ serverPc = "accept"
  /\ serverPc' = "join"
  /\ readerPc' = "read" /\ writerPc' = "getline"
  /\ UNCHANGED <<input, startup, clientPc, link, conversation, childPc,
                 holders, toClient, lines>>

Connected == link = "accepted"

\* Mutant: an error of read never ends the loop.
ReaderSticks ==
  /\ serverPc = "join" /\ readerPc \in {"read", "erred"} /\ Connected
  /\ \/ /\ fBytesRead < delivered
        /\ \E n \in 1..(delivered - fBytesRead) : fBytesRead' = fBytesRead + n
        /\ UNCHANGED readerPc
     \/ /\ fBytesRead = delivered /\ eof # "no"
        /\ readerPc' = IF eof = "reset" THEN "erred" ELSE "done"
        /\ UNCHANGED fBytesRead
  /\ UNCHANGED <<input, startup, serverPc, clientPc, link, stream,
                 delivered, eof, fBufferData, childPc, holders, toClient,
                 writerPc, lines>>

\* doRead: what is read is printed.  A reset makes read return -1, which is
\* positive in a uint32_t, and 0 the next time; on connfd -1 it is -1 for ever
\* and nothing changes.
ReaderReads ==
  /\ serverPc = "join" /\ readerPc \in {"read", "erred"} /\ Connected
  /\ \/ /\ fBytesRead < delivered
        /\ \E n \in 1..(delivered - fBytesRead) : fBytesRead' = fBytesRead + n
        /\ UNCHANGED readerPc
     \/ /\ fBytesRead = delivered /\ eof # "no"
        /\ readerPc' =
             IF eof = "reset" /\ readerPc = "read" THEN "erred" ELSE "done"
        /\ UNCHANGED fBytesRead
  /\ UNCHANGED <<input, startup, serverPc, clientPc, link, stream,
                 delivered, eof, fBufferData, childPc, holders, toClient,
                 writerPc, lines>>

\* The end of the process, by exit or by SIGPIPE.
TwoWayEnds ==
  /\ Release("server")
  /\ serverPc' = "exited"
  /\ listening' = FALSE
  /\ readerPc' = "done" /\ writerPc' = "done"
  /\ UNCHANGED <<input, valid, bound, clientPc, link, conversation, childPc,
                 lines>>

\* doWrite: a line is written, or the input ends.
WriterWrites ==
  /\ serverPc = "join" /\ writerPc = "getline" /\ lines > 0
  /\ \/ /\ ~(Connected /\ MustBreak)
        /\ toClient' = IF Connected THEN Append(toClient, "answer")
                                    ELSE toClient
        /\ lines' = lines - 1
        /\ UNCHANGED <<input, startup, serverPc, clientPc, link, conversation,
                       childPc, holders, readerPc, writerPc>>
     \/ Connected /\ MayBreak /\ TwoWayEnds

InputEnds ==
  /\ serverPc = "join" /\ writerPc = "getline" /\ lines = 0
  /\ writerPc' = "done"
  /\ UNCHANGED <<input, startup, serverPc, clientPc, link, conversation,
                 childPc, holders, toClient, readerPc, lines>>

TwoWayExits ==
  /\ serverPc = "join" /\ readerPc = "done" /\ writerPc = "done"
  /\ TwoWayEnds
-----------------------------------------------------------------------------
(* server.c: one read, one answer.                                         *)

SingleAccepts == server = "single" /\ Accepts("read") /\ UNCHANGED threads

SingleAcceptFails == server = "single" /\ serverPc = "accept" /\ ExitsAtAccept

SingleReads ==
  /\ serverPc = "read"
  /\ \/ \E n \in 1..(delivered - fBytesRead) : fBytesRead' = fBytesRead + n
     \/ fBytesRead = delivered /\ eof # "no" /\ UNCHANGED fBytesRead
  /\ serverPc' = "send"
  /\ UNCHANGED <<input, startup, clientPc, link, stream, delivered, eof,
                 fBufferData, childPc, holders, toClient, threads>>

\* send, which SIGPIPE may interrupt, and the end of the process.
SingleSends ==
  /\ serverPc = "send"
  /\ serverPc' = "exited"
  /\ listening' = FALSE
  /\ holders' = {}
  /\ \E said \in {toClient} \cup
                 IF MustBreak THEN {} ELSE {Append(toClient, "answer")} :
       IF fBytesRead < delivered
       THEN toClient' \in {Append(said, "rst"), <<"rst">>}
       ELSE toClient' = Append(said, "fin")
  /\ UNCHANGED <<input, valid, bound, clientPc, link, conversation, childPc,
                 threads>>
-----------------------------------------------------------------------------
(* The clients.                                                            *)

ClientGoes(pc, rest) ==
  /\ clientPc' = pc
  /\ toClient' = rest
  /\ UNCHANGED <<input, startup, serverPc, link, conversation, childPc,
                 holders, threads>>

\* A send after a reset raises SIGPIPE.
Sends ==
  /\ client \in {"client", "browser"} /\ clientPc = "send"
  /\ IF \E i \in 1..Len(toClient) : toClient[i] = "rst"
     THEN ClientGoes("left", toClient)
     ELSE ClientGoes("read", toClient)

\* The loops of the daytime clients: read and print until there is nothing
\* more, or no connection.
DaytimeReads ==
  /\ client \in {"daytimetcpcli", "daytimeclient"} /\ clientPc = "read"
  /\ \/ link = "none" /\ ClientGoes("left", <<>>)
     \/ /\ toClient # <<>>
        /\ ClientGoes(IF Head(toClient) = "answer" THEN "read" ELSE "left",
                      Tail(toClient))

\* client.c reads on after the end, for ever.
ClientReads ==
  /\ client = "client" /\ clientPc = "read" /\ toClient # <<>>
  /\ ClientGoes(IF Head(toClient) = "answer" THEN "read" ELSE "spin",
                Tail(toClient))

BrowserReads ==
  /\ client = "browser" /\ clientPc = "read" /\ toClient # <<>>
  /\ ClientGoes(IF Head(toClient) = "answer" THEN "read" ELSE "left",
                Tail(toClient))

\* A browser's user, or that of the other programs, loses patience.
Leaves == clientPc \in {"read", "spin"} /\ ClientGoes("left", toClient)
-----------------------------------------------------------------------------
Start ==
  /\ Starts
  /\ UNCHANGED <<conversation, childPc, holders, toClient, threads>>

Reach ==
  /\ Connecting
  /\ UNCHANGED <<conversation, childPc, holders, toClient, threads>>

Server ==
  \/ Start \/ Run \/ TwoWayAccepts \/ TwoWayExits
  \/ SingleAccepts \/ SingleReads \/ SingleSends

Client == Reach \/ Sends \/ DaytimeReads \/ ClientReads \/ BrowserReads

Kernel == Deliver \/ DeliverEnd \/ Bounce

Next ==
  \/ Server \/ AcceptFails \/ TwoWayAcceptFails \/ SingleAcceptFails
  \/ ChildStep \/ ReaderReads \/ WriterWrites \/ InputEnds
  \/ Client \/ Leaves \/ Kernel

Spec == Init /\ [][Next]_vars

\* Processes and threads are scheduled and TCP delivers; nobody leaves or
\* fails of necessity, and TcpServer's user may never say a word.
Fairness ==
  /\ WF_vars(Server)
  /\ WF_vars(ChildStep)
  /\ WF_vars(ReaderReads)
  /\ WF_vars(Client)
  /\ WF_vars(Kernel)

FairSpec == Spec /\ Fairness
-----------------------------------------------------------------------------
\* What a server's HandleRead takes for a request.
OneRequest(s) ==
  IF server = "web" THEN Web!OneRequest(s) ELSE Daytime!OneRequest(s)

\* Nobody has anything left to read.
ServerWaits ==
  /\ childPc = "read" \/ serverPc = "read" \/ (readerPc = "read" /\ Connected)
  /\ delivered = Len(stream) /\ fBytesRead = delivered /\ eof = "no"

ClientWaits == clientPc = "read" /\ toClient = <<>>

\* Server and client wait for each other only if the client has not said what
\* the server reads for.  A web server's client has then sent something that
\* does not end as a request does (SocketIPv4.cpp:104), every other server's
\* has sent nothing, as the daytime clients do: the daytime server reads
\* before it closes (daytimetcpsrv.cpp:31) and they wait for the close.
WaitsOnlyForMore ==
  ServerWaits /\ ClientWaits /\ server # "twoway" /\ Web!NulFree(stream) =>
    IF server = "web" THEN ~Web!EndsWith(stream, WebTerminator)
                      ELSE stream = <<>>

\* A client that sends one request, no more, to a child that reads it is not
\* cut off by a reset (SocketIPv4.cpp:83 closes without reading on): its
\* answer, and the end of it, arrive whatever the handler does.
CleanEnd ==
  childPc \notin {"none", "failed"} /\ OneRequest(stream) /\ eof = "no" =>
    \A i \in 1..Len(toClient) : toClient[i] # "rst"

\* A child reads its connection as HandleRead does, whatever the server's and
\* the client's programs do at the same time and at whatever point of it the
\* connection ends: module HandleRead speaks of these servers.
Reading ==
  IF childPc \in {"none", "start", "read", "failed"} THEN "read"
                                                     ELSE "returned"

WebRequest ==
  INSTANCE HandleRead WITH Terminator <- WebTerminator, pc <- Reading
DaytimeRequest ==
  INSTANCE HandleRead WITH Terminator <- <<>>, pc <- Reading

ImplementsHandleRead ==
  /\ server = "web" => WebRequest!Init
  /\ server = "daytime" => DaytimeRequest!Init
  /\ [][/\ server = "web" => [WebRequest!Next]_(WebRequest!vars)
        /\ server = "daytime" => [DaytimeRequest!Next]_(DaytimeRequest!vars)
       ]_vars

\* A connection that was accepted comes to an end on the server's side when
\* the client leaves or has said all the server waits for; TcpServer's reader
\* notices the first, although it takes an error for data (TcpServer.cpp:20),
\* while its writer waits for the user.
SessionEnds ==
  /\ Connected /\ server # "twoway"
       /\ \/ clientPc = "left"
          \/ OneRequest(stream) /\ stream # <<>>
          \/ server # "web" /\ stream # <<>>
     ~> holders = {}
  /\ Connected /\ server = "twoway" /\ clientPc = "left" ~> readerPc = "done"

\* daytimetcpcli.cpp:55 of the client's loop: "Stream read is ended by closing
\* the connection".  So a client of the daytime server that was connected comes
\* to the end of its read.  The code has it otherwise: the server reads first.
DaytimeReadEnds ==
  client = "daytimetcpcli" /\ Connected ~> clientPc # "read"
=============================================================================
