-------------------------- MODULE AcceptLoopProofs --------------------------
(***************************************************************************)
(* Proofs about AcceptLoop for any number of connections, any backlog and  *)
(* any limit on tasks and descriptors.  The invariant ProcessesInStep is   *)
(* inductive together with TypeOK; what the descriptors show of it,        *)
(* OnlyItsOwnConnection and ResetOnlyByExit, follows.                      *)
(***************************************************************************)
EXTENDS AcceptLoop, SequenceTheorems, TLAPS

LEMMA InitTypeOK == Init => TypeOK
BY ConstantsAssumption, EmptySeq
DEF Init, TypeOK, ServerPcs, ChildPcs, ClientStates

LEMMA ReleaseTypeOK ==
  ASSUME TypeOK, ReleaseListener
  PROVE  queue' \in Seq(Conns) /\ client' \in [Conns -> ClientStates]
<1>1. CASE UNCHANGED <<queue, client>>
  BY <1>1 DEF TypeOK
<1>2. CASE /\ queue' = <<>>
           /\ client' = [c \in Conns |->
                           IF Queued(c) THEN "reset" ELSE client[c]]
  BY <1>2, EmptySeq DEF TypeOK, ClientStates
<1> QED
  BY <1>1, <1>2 DEF ReleaseListener

LEMMA NextTypeOK == TypeOK /\ [Next]_vars => TypeOK'
<1> SUFFICES ASSUME TypeOK, [Next]_vars
             PROVE  TypeOK'
  OBVIOUS
<1> USE DEF TypeOK, ServerPcs, ChildPcs, ClientStates, serverVars, childVars
<1>1. ASSUME NEW c \in Conns, Connect(c) PROVE TypeOK'
  BY <1>1, AppendProperties DEF Connect
<1>2. ASSUME NEW c \in Conns, SendRequest(c) \/ Leave(c) PROVE TypeOK'
  BY <1>2 DEF SendRequest, Leave
<1>3. CASE Accept
  BY <1>3, HeadTailProperties DEF Accept
<1>4. CASE AcceptFails
  BY <1>4, ReleaseTypeOK DEF AcceptFails
<1>5. CASE Fork
  BY <1>5 DEF Fork
<1>6. CASE ForkFails \/ ServerCloses
  BY <1>6 DEF ForkFails, ServerCloses
<1>7. ASSUME NEW c \in Conns, ChildClosesListener(c) PROVE TypeOK'
  BY <1>7, ReleaseTypeOK DEF ChildClosesListener, ChildStep
<1>8. ASSUME NEW c \in Conns, NEW from, ChildDies(c, from) PROVE TypeOK'
  BY <1>8, ReleaseTypeOK DEF ChildDies, ChildStep, Dead
<1>9. ASSUME NEW c \in Conns, ChildExits(c) PROVE TypeOK'
  BY <1>9, ReleaseTypeOK DEF ChildExits, ChildStep, Dead
<1>10. ASSUME NEW c \in Conns,
              SpawnReader(c) \/ ReadReturns(c) \/ HandleData(c) \/ Write(c)
       PROVE  TypeOK'
  BY <1>10 DEF SpawnReader, ReadReturns, HandleData, Write, ChildStep
<1>11. ASSUME NEW c \in Conns, ChildCloses(c) PROVE TypeOK'
  BY <1>11 DEF ChildCloses, ChildStep
<1>12. CASE UNCHANGED vars
  BY <1>12 DEF vars
<1> QED
  BY <1>1, <1>2, <1>3, <1>4, <1>5, <1>6, <1>7, <1>8, <1>9, <1>10, <1>11, <1>12
  DEF Next, ServerProgress, ClientAction, ChildAction, SpawnReaderThrows,
      HandlerThrows, WriteBreaks

(* Processes, descriptors and clients keep to the values they have.        *)
THEOREM TypeCorrect == Spec => []TypeOK
BY InitTypeOK, NextTypeOK, PTL DEF Spec
-----------------------------------------------------------------------------
(* The queue.                                                              *)

LEMMA QueuedAppend ==
  ASSUME TypeOK, NEW c \in Conns, queue' = Append(queue, c)
  PROVE  \A d \in Conns : Queued(d)' <=> Queued(d) \/ d = c
<1>1. /\ Len(queue) \in Nat
      /\ Len(queue') = Len(queue) + 1
      /\ \A i \in 1..Len(queue) : queue'[i] = queue[i]
      /\ queue'[Len(queue) + 1] = c
  BY AppendProperties, LenProperties DEF TypeOK
<1> QED
  BY <1>1 DEF Queued

LEMMA QueuedTail ==
  ASSUME TypeOK, QueueInStep, queue # <<>>, queue' = Tail(queue)
  PROVE  /\ Queued(Head(queue))
         /\ \A d \in Conns : Queued(d)' <=> Queued(d) /\ d # Head(queue)
         /\ \A i, j \in 1..Len(queue') : queue'[i] = queue'[j] => i = j
<1>1. /\ Len(queue) \in Nat \ {0}
      /\ Len(queue') = Len(queue) - 1
      /\ \A i \in 1..Len(queue') : queue'[i] = queue[i + 1]
      /\ Head(queue) = queue[1]
  BY HeadTailProperties, EmptySeq DEF TypeOK
<1>2. \A i, j \in 1..Len(queue) : queue[i] = queue[j] => i = j
  BY DEF QueueInStep
<1>3. Queued(Head(queue))
  BY <1>1 DEF Queued
<1>4. ASSUME NEW d \in Conns, Queued(d)' PROVE Queued(d) /\ d # Head(queue)
  <2>1. PICK i \in 1..Len(queue') : queue'[i] = d
    BY <1>4 DEF Queued
  <2>2. i + 1 \in 1..Len(queue) /\ queue[i + 1] = d /\ i + 1 # 1
    BY <1>1, <2>1
  <2> QED
    BY <1>1, <1>2, <2>2 DEF Queued
<1>5. ASSUME NEW d \in Conns, Queued(d), d # Head(queue) PROVE Queued(d)'
  <2>1. PICK i \in 1..Len(queue) : queue[i] = d
    BY <1>5 DEF Queued
  <2>2. i - 1 \in 1..Len(queue') /\ queue'[i - 1] = d
    BY <1>1, <1>5, <2>1
  <2> QED
    BY <2>2 DEF Queued
<1>6. ASSUME NEW i \in 1..Len(queue'), NEW j \in 1..Len(queue'),
             queue'[i] = queue'[j]
      PROVE  i = j
  BY <1>1, <1>2, <1>6
<1> QED
  BY <1>3, <1>4, <1>5, <1>6

(* A step that leaves the listening socket as open as it was leaves the    *)
(* queue alone.                                                            *)
LEMMA ReleaseNothing ==
  ASSUME TypeOK, QueueInStep, ReleaseListener, Open(sockfd) => Open(sockfd)'
  PROVE  UNCHANGED <<queue, client>>
<1>1. CASE Open(sockfd)'
  BY <1>1 DEF ReleaseListener
<1>2. CASE ~Open(sockfd)'
  <2>1. queue = <<>>
    BY <1>2 DEF QueueInStep
  <2>2. \A c \in Conns : ~Queued(c)
    BY <2>1 DEF Queued
  <2>3. client' = client
    BY <1>2, <2>2 DEF ReleaseListener, TypeOK
  <2> QED
    BY <1>2, <2>1, <2>3 DEF ReleaseListener
<1> QED
  BY <1>1, <1>2
-----------------------------------------------------------------------------
(* ProcessesInStep, action by action.                                      *)

Inv == TypeOK /\ ProcessesInStep

LEMMA InitInv == Init => ProcessesInStep
BY ConstantsAssumption DEF Init, ProcessesInStep, ServerInStep, ChildInStep,
   QueueInStep, ResetOnlyByExit, Queued, AtWork

LEMMA ConnectInv ==
  ASSUME Inv, NEW c \in Conns, Connect(c)
  PROVE  ProcessesInStep'
<1> USE DEF Inv
<1>1. \A d \in Conns : Queued(d)' <=> Queued(d) \/ d = c
  BY QueuedAppend DEF Connect
<1>2. /\ client[c] = "idle"
      /\ childPc[c] = "none"
      /\ ~Queued(c)
      /\ serverPc \in {"fork", "close"} => c # connfd
  BY DEF Connect, ProcessesInStep, ServerInStep, ChildInStep, QueueInStep
<1>3. c \notin serverFds
  BY <1>2, ConstantsAssumption
  DEF TypeOK, ServerPcs, ProcessesInStep, ServerInStep
<1>4. ServerInStep'
  BY <1>2 DEF Connect, serverVars, childVars, TypeOK, ProcessesInStep,
              ServerInStep
<1>5. \A d \in Conns : ChildInStep(d)'
  BY <1>2 DEF Connect, childVars, TypeOK, ProcessesInStep, ChildInStep
<1>6. \A i, j \in 1..Len(queue') : queue'[i] = queue'[j] => i = j
  <2>1. /\ Len(queue) \in Nat
        /\ Len(queue') = Len(queue) + 1
        /\ \A i \in 1..Len(queue) : queue'[i] = queue[i]
        /\ queue'[Len(queue) + 1] = c
    BY AppendProperties, LenProperties DEF TypeOK, Connect
  <2>2. \A i \in 1..Len(queue) : queue[i] # c
    BY <1>2 DEF Queued
  <2>3. \A i, j \in 1..Len(queue) : queue[i] = queue[j] => i = j
    BY DEF ProcessesInStep, QueueInStep
  <2> QED
    BY <2>1, <2>2, <2>3
<1>7. \A d \in Conns : Queued(d)' =>
        /\ client'[d] \in {"open", "sent", "left"}
        /\ childPc'[d] = "none"
        /\ d \notin serverFds'
  BY <1>1, <1>2, <1>3 DEF Connect, serverVars, childVars, TypeOK,
                          ProcessesInStep, QueueInStep
<1>8. Open(sockfd)'
  BY DEF Connect, serverVars, childVars, Open
<1>9. QueueInStep'
  BY <1>6, <1>7, <1>8 DEF QueueInStep
<1>10. ResetOnlyByExit'
  BY DEF Connect, serverVars, TypeOK, ProcessesInStep, ResetOnlyByExit
<1> QED
  BY <1>4, <1>5, <1>9, <1>10 DEF Connect, childVars, ProcessesInStep

LEMMA ClientInv ==
  ASSUME Inv, NEW c \in Conns, SendRequest(c) \/ Leave(c)
  PROVE  ProcessesInStep'
<1> USE DEF Inv, SendRequest, Leave, serverVars, childVars, TypeOK
<1>1. /\ UNCHANGED <<queue, serverPc, connfd, serverFds, childPc, childFds,
                     responded>>
      /\ \A d \in Conns :
           /\ client[d] \in {"open", "sent", "left"}
                => client'[d] \in {"open", "sent", "left"}
           /\ client'[d] = "reset" => client[d] = "reset"
  OBVIOUS
<1>2. \A d \in Conns \cup {sockfd} :
        (Queued(d)' <=> Queued(d)) /\ (Open(d)' <=> Open(d))
  BY <1>1 DEF Queued, Open
<1>3. ServerInStep'
  BY <1>1 DEF ProcessesInStep, ServerInStep
<1>4. \A d \in Conns : ChildInStep(d)'
  BY <1>1 DEF ProcessesInStep, ChildInStep
<1>5. QueueInStep'
  BY <1>1, <1>2 DEF ProcessesInStep, QueueInStep
<1>6. ResetOnlyByExit'
  BY <1>1 DEF ProcessesInStep, ResetOnlyByExit
<1> QED
  BY <1>1, <1>3, <1>4, <1>5, <1>6 DEF ProcessesInStep

LEMMA AcceptInv == ASSUME Inv, Accept PROVE ProcessesInStep'
<1> USE DEF Inv
<1> DEFINE c == Head(queue)
<1>1. c \in Conns
  BY HeadTailProperties DEF Accept, TypeOK
<1>2. /\ Queued(c)
      /\ \A d \in Conns : Queued(d)' <=> Queued(d) /\ d # c
      /\ \A i, j \in 1..Len(queue') : queue'[i] = queue'[j] => i = j
  BY QueuedTail DEF Accept, ProcessesInStep
<1> HIDE DEF c
<1>3. /\ client[c] \in {"open", "sent", "left"}
      /\ childPc[c] = "none"
  BY <1>1, <1>2 DEF ProcessesInStep, QueueInStep
<1>4. /\ serverPc = "accept" /\ serverPc' = "fork"
      /\ connfd' = c
      /\ serverFds = {sockfd} /\ serverFds' = {sockfd, c}
      /\ UNCHANGED <<childPc, childFds, client, responded>>
  BY DEF Accept, childVars, c, ProcessesInStep, ServerInStep
<1>5. ServerInStep'
  BY <1>1, <1>3, <1>4 DEF ServerInStep
<1>6. \A d \in Conns : ChildInStep(d)'
  BY <1>4 DEF ProcessesInStep, ChildInStep
<1>7. QueueInStep'
  BY <1>2, <1>4, ConstantsAssumption DEF ProcessesInStep, QueueInStep, Open
<1>8. ResetOnlyByExit'
  BY <1>4 DEF ProcessesInStep, ResetOnlyByExit
<1> QED
  BY <1>4, <1>5, <1>6, <1>7, <1>8 DEF ProcessesInStep

(* What ReleaseListener does spares every connection that was accepted.    *)
LEMMA ReleaseSpares ==
  ASSUME Inv, ReleaseListener, serverFds' \subseteq serverFds,
         \A c \in Conns : childPc[c] = "none" => childPc'[c] = "none"
  PROVE  /\ QueueInStep'
         /\ Open(sockfd)' => client' = client
         /\ \A c \in Conns :
              \/ client'[c] = client[c]
              \/ childPc[c] = "none" /\ c \notin serverFds
<1> USE DEF Inv
<1>1. CASE Open(sockfd)'
  <2>1. UNCHANGED <<queue, client>>
    BY <1>1 DEF ReleaseListener
  <2>2. \A c \in Conns : Queued(c)' <=> Queued(c)
    BY <2>1 DEF Queued
  <2> QED
    BY <1>1, <2>1, <2>2 DEF ProcessesInStep, QueueInStep
<1>2. CASE ~Open(sockfd)'
  <2>1. queue' = <<>>
    BY <1>2 DEF ReleaseListener
  <2>2. QueueInStep'
    BY <2>1 DEF QueueInStep, Queued
  <2>3. \A c \in Conns :
          client'[c] = IF Queued(c) THEN "reset" ELSE client[c]
    BY <1>2 DEF ReleaseListener
  <2> QED
    BY <1>2, <2>2, <2>3 DEF ProcessesInStep, QueueInStep
<1> QED
  BY <1>1, <1>2

LEMMA AcceptFailsInv == ASSUME Inv, AcceptFails PROVE ProcessesInStep'
<1> USE DEF Inv
<1>1. /\ serverPc = "accept" /\ serverPc' = "exited"
      /\ serverFds = {sockfd} /\ serverFds' = {}
      /\ UNCHANGED <<childFds, responded>>
      /\ ReleaseListener
  BY DEF AcceptFails, ProcessesInStep, ServerInStep
<1>2. \A c \in Conns :
        childPc'[c] = IF childPc[c] = "zombie" THEN "reaped" ELSE childPc[c]
  BY DEF AcceptFails
<1>3. /\ QueueInStep'
      /\ \A c \in Conns : client'[c] = client[c] \/ childPc[c] = "none"
  BY <1>1, <1>2, ReleaseSpares
<1>4. ServerInStep'
  BY <1>1 DEF ServerInStep
<1>5. \A c \in Conns : ChildInStep(c)'
  BY <1>1, <1>2, <1>3 DEF ProcessesInStep, ChildInStep, AtWork
<1>6. ResetOnlyByExit'
  BY <1>1 DEF ResetOnlyByExit
<1>7. \A c \in responded : childPc'[c] \in {"close", "exit", "zombie", "reaped"}
  BY <1>2 DEF ProcessesInStep, TypeOK
<1> QED
  BY <1>1, <1>3, <1>4, <1>5, <1>6, <1>7 DEF ProcessesInStep

LEMMA ForkInv == ASSUME Inv, Fork PROVE ProcessesInStep'
<1> USE DEF Inv
<1>1. /\ serverPc = "fork" /\ serverPc' = "close"
      /\ connfd \in Conns
      /\ client[connfd] \in {"open", "sent", "left"}
      /\ childPc[connfd] = "none"
      /\ serverFds = {sockfd, connfd}
      /\ childPc' = [childPc EXCEPT ![connfd] = "start"]
      /\ childFds' = [childFds EXCEPT ![connfd] = {sockfd, connfd}]
      /\ UNCHANGED <<queue, connfd, serverFds, client, responded>>
  BY DEF Fork, ProcessesInStep, ServerInStep
<1>2. \A c \in Conns : Queued(c)' <=> Queued(c)
  BY <1>1 DEF Queued
<1>3. ServerInStep'
  BY <1>1 DEF ServerInStep
<1>4. \A c \in Conns : ChildInStep(c)'
  BY <1>1 DEF ProcessesInStep, ChildInStep, TypeOK, AtWork
<1>5. QueueInStep'
  BY <1>1, <1>2 DEF ProcessesInStep, QueueInStep, TypeOK, Open
<1>6. ResetOnlyByExit'
  BY <1>1 DEF ProcessesInStep, ResetOnlyByExit
<1>7. \A c \in responded' :
        childPc'[c] \in {"close", "exit", "zombie", "reaped"}
  BY <1>1 DEF ProcessesInStep, TypeOK
<1> QED
  BY <1>3, <1>4, <1>5, <1>6, <1>7 DEF ProcessesInStep

LEMMA ServerClosesInv ==
  ASSUME Inv, ForkFails \/ ServerCloses
  PROVE  ProcessesInStep'
<1> USE DEF Inv
<1>1. /\ UNCHANGED <<queue, connfd, childPc, childFds, client, responded>>
      /\ serverPc' \in {"close", "accept"}
      /\ serverFds' \subseteq serverFds
      /\ sockfd \in serverFds'
  BY ConstantsAssumption
  DEF ForkFails, ServerCloses, childVars, ProcessesInStep, ServerInStep
<1>2. \A c \in Conns : Queued(c)' <=> Queued(c)
  BY <1>1 DEF Queued
<1>3. ServerInStep'
  BY ConstantsAssumption
  DEF ForkFails, ServerCloses, childVars, ProcessesInStep, ServerInStep
<1>4. \A c \in Conns : ChildInStep(c)'
  BY <1>1 DEF ProcessesInStep, ChildInStep
<1>5. QueueInStep'
  BY <1>1, <1>2 DEF ProcessesInStep, QueueInStep, Open
<1>6. ResetOnlyByExit'
  BY <1>1 DEF ForkFails, ServerCloses, ProcessesInStep, ResetOnlyByExit
<1> QED
  BY <1>1, <1>3, <1>4, <1>5, <1>6 DEF ProcessesInStep

(* A step of one child that leaves the listening socket alone.             *)
LEMMA ChildInv ==
  ASSUME Inv, NEW c \in Conns, NEW to,
         childPc[c] # "none", to # "none",
         childPc' = [childPc EXCEPT ![c] = to], ChildInStep(c)',
         UNCHANGED <<queue, client, serverVars>>,
         \A d \in Conns \ {c} : childFds'[d] = childFds[d],
         Open(sockfd) => Open(sockfd)',
         responded' \subseteq responded \cup {c},
         c \in responded' => to \in {"close", "exit", "zombie", "reaped"}
  PROVE  ProcessesInStep'
<1> USE DEF Inv, serverVars
<1>1. \A d \in Conns : Queued(d)' <=> Queued(d)
  BY DEF Queued
<1>2. \A d \in Conns \ {c} : childPc'[d] = childPc[d]
  BY DEF TypeOK
<1>3. childPc'[c] = to
  BY DEF TypeOK
<1>4. ServerInStep'
  BY <1>2 DEF ProcessesInStep, ServerInStep
<1>5. \A d \in Conns : ChildInStep(d)'
  BY <1>2 DEF ProcessesInStep, ChildInStep
<1>6. QueueInStep'
  BY <1>1, <1>2 DEF ProcessesInStep, QueueInStep
<1>7. ResetOnlyByExit'
  BY DEF ProcessesInStep, ResetOnlyByExit
<1>8. \A d \in responded' :
        childPc'[d] \in {"close", "exit", "zombie", "reaped"}
  BY <1>2, <1>3 DEF ProcessesInStep, TypeOK
<1> QED
  BY <1>4, <1>5, <1>6, <1>7, <1>8 DEF ProcessesInStep

LEMMA ChildClosesListenerInv ==
  ASSUME Inv, NEW c \in Conns, ChildClosesListener(c)
  PROVE  ProcessesInStep'
<1> USE DEF Inv
<1>1. /\ childPc[c] = "start" /\ childFds[c] = {sockfd, c}
      /\ childPc' = [childPc EXCEPT ![c] = "spawn"]
      /\ childFds' = [childFds EXCEPT ![c] = {c}]
      /\ UNCHANGED <<serverPc, connfd, serverFds, responded>>
      /\ ReleaseListener
  BY ConstantsAssumption DEF ChildClosesListener, ChildStep, serverVars,
     ProcessesInStep, ChildInStep, TypeOK
<1>2. \A d \in Conns : childPc[d] = "none" <=> childPc'[d] = "none"
  BY <1>1 DEF TypeOK
<1>3. /\ QueueInStep'
      /\ Open(sockfd)' => client' = client
      /\ \A d \in Conns :
           \/ client'[d] = client[d]
           \/ childPc[d] = "none" /\ d \notin serverFds
  BY <1>1, <1>2, ReleaseSpares
<1>4. ServerInStep'
  BY <1>1, <1>2, <1>3 DEF ProcessesInStep, ServerInStep
<1>5. \A d \in Conns : ChildInStep(d)'
  BY <1>1, <1>3 DEF ProcessesInStep, ChildInStep, TypeOK, AtWork
<1>6. ResetOnlyByExit'
  <2>1. serverPc # "exited" => sockfd \in serverFds'
    BY <1>1 DEF ProcessesInStep, ServerInStep, TypeOK, ServerPcs
  <2> QED
    BY <1>1, <1>3, <2>1 DEF ProcessesInStep, ResetOnlyByExit, Open
<1>7. \A d \in responded' :
        childPc'[d] \in {"close", "exit", "zombie", "reaped"}
  BY <1>1 DEF ProcessesInStep, TypeOK
<1> QED
  BY <1>3, <1>4, <1>5, <1>6, <1>7 DEF ProcessesInStep

(* The end of a process past its first statement, wherever it comes.       *)
ChildEnds(c) ==
  /\ childPc[c] \in {"spawn", "handle", "write", "exit"}
  /\ childPc' = [childPc EXCEPT ![c] = Dead]
  /\ childFds' = [childFds EXCEPT ![c] = {}]
  /\ UNCHANGED <<serverVars, responded>>
  /\ ReleaseListener

LEMMA ChildEndsQuietly ==
  ASSUME Inv, NEW c \in Conns, ChildEnds(c)
  PROVE  /\ Open(sockfd) => Open(sockfd)'
         /\ UNCHANGED <<queue, client>>
<1>1. sockfd \notin childFds[c]
  BY ConstantsAssumption DEF Inv, ProcessesInStep, ChildInStep, AtWork,
     ChildEnds
<1>2. Open(sockfd) => Open(sockfd)'
  BY <1>1 DEF Open, Inv, TypeOK, serverVars, ChildEnds
<1> QED
  BY <1>2, ReleaseNothing DEF Inv, ProcessesInStep, ChildEnds

LEMMA ChildEndsInv ==
  ASSUME Inv, NEW c \in Conns, ChildEnds(c)
  PROVE  ProcessesInStep'
<1> USE DEF Inv, ChildEnds
<1>2. Open(sockfd) => Open(sockfd)'
  BY ChildEndsQuietly
<1>3. UNCHANGED <<queue, client>>
  BY ChildEndsQuietly
<1>4. Dead \in {"zombie", "reaped"}
  BY DEF Dead
<1>5. childPc' = [childPc EXCEPT ![c] = Dead]
  OBVIOUS
<1>6. ChildInStep(c)'
  <2>1. childPc'[c] = Dead /\ childFds'[c] = {}
    BY <1>5 DEF TypeOK
  <2>2. client'[c] \in {"open", "sent", "left"}
    BY <1>3 DEF ProcessesInStep, ChildInStep
  <2> QED
    BY <1>4, <2>1, <2>2 DEF ChildInStep, AtWork
<1> HIDE DEF Inv
<1> QED
  BY <1>2, <1>3, <1>4, <1>5, <1>6, ChildInv DEF Inv, TypeOK

LEMMA ChildWorksInv ==
  ASSUME Inv, NEW c \in Conns,
         SpawnReader(c) \/ ReadReturns(c) \/ HandleData(c) \/ Write(c)
  PROVE  ProcessesInStep'
<1> USE DEF Inv
<1>1. PICK to \in {"read", "handle", "write", "close"} :
        /\ childPc' = [childPc EXCEPT ![c] = to]
        /\ childPc[c] \in {"spawn", "read", "handle", "write"}
        /\ c \in responded' => to = "close"
        /\ responded' \subseteq responded \cup {c}
        /\ UNCHANGED <<queue, serverVars, childFds, client>>
  BY DEF SpawnReader, ReadReturns, HandleData, Write, ChildStep,
         ProcessesInStep
<1>2. Open(sockfd) => Open(sockfd)'
  BY <1>1 DEF Open, serverVars
<1>3. ChildInStep(c)'
  BY <1>1 DEF ProcessesInStep, ChildInStep, AtWork, TypeOK
<1> QED
  BY <1>1, <1>2, <1>3, ChildInv

LEMMA ChildClosesInv ==
  ASSUME Inv, NEW c \in Conns, ChildCloses(c)
  PROVE  ProcessesInStep'
<1> USE DEF Inv
<1>1. /\ childPc[c] = "close" /\ childFds[c] = {c}
      /\ childPc' = [childPc EXCEPT ![c] = "exit"]
      /\ childFds' = [childFds EXCEPT ![c] = {}]
      /\ UNCHANGED <<queue, serverVars, client, responded>>
  BY DEF ChildCloses, ChildStep, ProcessesInStep, ChildInStep, AtWork, TypeOK
<1>2. Open(sockfd) => Open(sockfd)'
  BY <1>1, ConstantsAssumption DEF Open, serverVars, TypeOK
<1>3. ChildInStep(c)'
  BY <1>1 DEF ProcessesInStep, ChildInStep, AtWork, TypeOK
<1> QED
  BY <1>1, <1>2, <1>3, ChildInv DEF TypeOK

LEMMA NextInv == Inv /\ [Next]_vars => ProcessesInStep'
<1> SUFFICES ASSUME Inv, [Next]_vars
             PROVE  ProcessesInStep'
  OBVIOUS
<1>1. CASE ServerProgress \/ AcceptFails
  BY <1>1, AcceptInv, AcceptFailsInv, ForkInv, ServerClosesInv
  DEF ServerProgress
<1>2. ASSUME NEW c \in Conns, ClientAction(c) PROVE ProcessesInStep'
  BY <1>2, ConnectInv, ClientInv DEF ClientAction
<1>3. ASSUME NEW c \in Conns, ChildAction(c) PROVE ProcessesInStep'
  <2>1. CASE ChildClosesListener(c)
    BY <2>1, ChildClosesListenerInv
  <2>2. CASE SpawnReader(c) \/ ReadReturns(c) \/ HandleData(c) \/ Write(c)
    BY <2>2, ChildWorksInv
  <2>3. CASE SpawnReaderThrows(c) \/ HandlerThrows(c) \/ WriteBreaks(c)
             \/ ChildExits(c)
    BY <2>3, ChildEndsInv DEF SpawnReaderThrows, HandlerThrows, WriteBreaks,
       ChildDies, ChildExits, ChildStep, ChildEnds
  <2>4. CASE ChildCloses(c)
    BY <2>4, ChildClosesInv
  <2> QED
    BY <1>3, <2>1, <2>2, <2>3, <2>4 DEF ChildAction
<1>4. CASE UNCHANGED vars
  <2> USE <1>4 DEF vars
  <2>1. ServerInStep' /\ \A c \in Conns : ChildInStep(c)'
    BY DEF Inv, ProcessesInStep, ServerInStep, ChildInStep
  <2>2. \A c \in Conns : Queued(c)' <=> Queued(c)
    BY DEF Queued
  <2>3. Open(sockfd)' <=> Open(sockfd)
    BY DEF Open
  <2>4. QueueInStep'
    BY <2>2, <2>3 DEF Inv, ProcessesInStep, QueueInStep
  <2> QED
    BY <2>1, <2>4 DEF Inv, ProcessesInStep, ResetOnlyByExit
<1> QED
  BY <1>1, <1>2, <1>3, <1>4 DEF Next

(* Every connection is in one place at a time, for any number of them.     *)
THEOREM StaysInStep == Spec => []ProcessesInStep
<1>1. Inv /\ [Next]_vars => Inv'
  BY NextTypeOK, NextInv DEF Inv
<1>2. Init => Inv
  BY InitTypeOK, InitInv DEF Inv
<1>3. Inv => ProcessesInStep
  BY DEF Inv
<1> QED
  BY <1>1, <1>2, <1>3, PTL DEF Spec

(* No process ever holds a connection that is another's, and none lets go  *)
(* of its own too early.                                                   *)
THEOREM DescriptorsMatch == Spec => []OnlyItsOwnConnection
<1>1. TypeOK /\ ProcessesInStep => OnlyItsOwnConnection
  BY ConstantsAssumption DEF TypeOK, ServerPcs, ChildPcs, ProcessesInStep,
     ServerInStep, ChildInStep, OnlyItsOwnConnection, AtWork
<1> QED
  BY <1>1, TypeCorrect, StaysInStep, PTL

(* While Run goes on no waiting client is turned away.                     *)
THEOREM NoResetWhileUp == Spec => []ResetOnlyByExit
<1>1. ProcessesInStep => ResetOnlyByExit
  BY DEF ProcessesInStep
<1> QED
  BY <1>1, StaysInStep, PTL
-----------------------------------------------------------------------------
(* Why every connection ends.                                              *)

Served(c) ==
  \/ Queued(c) /\ (serverPc # "exited" \/ \E d \in Conns : childPc[d] = "start")
  \/ connfd = c /\ serverPc \in {"fork", "close"}
  \/ childPc[c] \in AtWork

\* A connection that has not ended for its client is somebody's business: the
\* server's, its own child's or, after the server's exit, that of a child yet
\* to close the listening socket, which ends it.
NobodyForgotten ==
  \A c \in Conns : client[c] # "idle" /\ ~Ended(c) => Served(c)

LEMMA ChildHolds ==
  ASSUME Inv, NEW d \in Conns, NEW s \in childFds[d]
  PROVE  \/ childPc[d] = "start" /\ s \in {sockfd, d}
         \/ childPc[d] \in AtWork /\ s = d
<1>1. ChildInStep(d)
  BY DEF Inv, ProcessesInStep
<1>2. CASE childPc[d] = "start"
  BY <1>1, <1>2 DEF ChildInStep
<1>3. CASE childPc[d] \in AtWork \ {"start"}
  BY <1>1, <1>3 DEF ChildInStep
<1>4. CASE childPc[d] \notin AtWork
  <2>1. childFds[d] = {}
    BY <1>1, <1>4 DEF ChildInStep, AtWork
  <2> QED
    BY <2>1
<1> QED
  BY <1>2, <1>3, <1>4

(* Run drops no connection without closing it, whatever fails.             *)
THEOREM NobodyIsForgotten == Spec => []NobodyForgotten
<1>1. ASSUME Inv, NEW c \in Conns, client[c] # "idle", ~Ended(c)
      PROVE  Served(c)
  <2> USE <1>1
  <2>1. CASE Queued(c)
    <3>1. Open(sockfd)
      BY <2>1 DEF Inv, ProcessesInStep, QueueInStep, Queued, TypeOK
    <3>2. sockfd \in serverFds => serverPc # "exited"
      BY DEF Inv, ProcessesInStep, ServerInStep
    <3>3. \A d \in Conns : sockfd \in childFds[d] => childPc[d] = "start"
      BY ChildHolds, ConstantsAssumption
    <3> QED
      BY <2>1, <3>1, <3>2, <3>3 DEF Open, Served
  <2>2. CASE c \in serverFds
    BY <2>2, ConstantsAssumption
    DEF Inv, TypeOK, ServerPcs, ProcessesInStep, ServerInStep, Served
  <2>3. ASSUME NEW d \in Conns, c \in childFds[d] PROVE Served(c)
    <3>1. c = d /\ childPc[d] \in AtWork
      BY <2>3, ChildHolds, ConstantsAssumption DEF AtWork
    <3> QED
      BY <3>1 DEF Served
  <2> QED
    BY <1>1, <2>1, <2>2, <2>3 DEF Ended, Open
<1>2. Inv => NobodyForgotten
  BY <1>1 DEF NobodyForgotten
<1> QED
  BY <1>2, TypeCorrect, StaysInStep, PTL DEF Inv

\* What is left to do for a connection: of the client, ...
ClientLeft(c) ==
  CASE client[c] = "idle" -> 4
    [] client[c] = "open" -> 3
    [] client[c] = "sent" -> 2
    [] client[c] = "left" -> 1
    [] OTHER -> 0

\* ... of its child ...
ChildLeft(c) ==
  CASE childPc[c] = "none" -> 9
    [] childPc[c] = "start" -> 8
    [] childPc[c] = "spawn" -> 7
    [] childPc[c] = "read" -> 6
    [] childPc[c] = "handle" -> 5
    [] childPc[c] = "write" -> 4
    [] childPc[c] = "close" -> 3
    [] childPc[c] = "exit" -> 2
    [] childPc[c] = "zombie" -> 1
    [] OTHER -> 0

\* ... and of the server in Run.
RunLeft(c) ==
  IF client[c] = "idle" \/ Queued(c) THEN 3
  ELSE IF connfd = c /\ serverPc = "fork" THEN 2
  ELSE IF connfd = c /\ serverPc = "close" THEN 1
  ELSE 0

NothingAgain(c) ==
  /\ ClientLeft(c)' <= ClientLeft(c)
  /\ ChildLeft(c)' <= ChildLeft(c)
  /\ RunLeft(c)' <= RunLeft(c)

Less(c) ==
  \/ ClientLeft(c)' < ClientLeft(c)
  \/ ChildLeft(c)' < ChildLeft(c)
  \/ RunLeft(c)' < RunLeft(c)

\* Every step of anybody leaves less to do for some connection, or is the
\* server's exit, and leaves no more for any: nothing is ever done again.
Onward ==
  /\ \A c \in Conns : NothingAgain(c)
  /\ \/ serverPc # "exited" /\ serverPc' = "exited"
     \/ \E c \in Conns : Less(c)

LEMMA LeftType ==
  ASSUME NEW c \in Conns
  PROVE  /\ ClientLeft(c) \in 0..4 /\ ClientLeft(c)' \in 0..4
         /\ ChildLeft(c) \in 0..9 /\ ChildLeft(c)' \in 0..9
         /\ RunLeft(c) \in 0..3 /\ RunLeft(c)' \in 0..3
BY DEF ClientLeft, ChildLeft, RunLeft

LEMMA SameLeft ==
  ASSUME NEW c \in Conns
  PROVE  /\ client'[c] = client[c] => ClientLeft(c)' = ClientLeft(c)
         /\ childPc'[c] = childPc[c] => ChildLeft(c)' = ChildLeft(c)
         /\ /\ Queued(c)' => Queued(c)
            /\ client'[c] = "idle" => client[c] = "idle"
            /\ UNCHANGED <<connfd, serverPc>>
            => RunLeft(c)' <= RunLeft(c)
<1>1. client'[c] = client[c] => ClientLeft(c)' = ClientLeft(c)
  BY DEF ClientLeft
<1>2. childPc'[c] = childPc[c] => ChildLeft(c)' = ChildLeft(c)
  BY DEF ChildLeft
<1>3. ASSUME Queued(c)' => Queued(c),
             client'[c] = "idle" => client[c] = "idle",
             UNCHANGED <<connfd, serverPc>>
      PROVE  RunLeft(c)' <= RunLeft(c)
  BY <1>3 DEF RunLeft
<1> QED
  BY <1>1, <1>2, <1>3

(* The end of the listening socket leaves nothing more for anybody.        *)
LEMMA ReleaseLess ==
  ASSUME TypeOK, ReleaseListener, NEW c \in Conns
  PROVE  /\ ClientLeft(c)' <= ClientLeft(c)
         /\ Queued(c)' => Queued(c)
         /\ client'[c] = "idle" => client[c] = "idle"
<1>1. CASE UNCHANGED <<queue, client>>
  BY <1>1, LeftType, SameLeft DEF Queued
<1>2. CASE /\ queue' = <<>>
           /\ client' = [d \in Conns |->
                           IF Queued(d) THEN "reset" ELSE client[d]]
  <2>1. client'[c] \in {"reset", client[c]} /\ ~Queued(c)'
    BY <1>2 DEF Queued
  <2>2. client'[c] = "reset" => ClientLeft(c)' = 0
    BY DEF ClientLeft
  <2> QED
    BY <2>1, <2>2, LeftType, SameLeft
<1> QED
  BY <1>1, <1>2 DEF ReleaseListener

LEMMA ClientOnward ==
  ASSUME Inv, NEW c \in Conns, ClientAction(c)
  PROVE  Onward
<1> USE DEF Inv
<1>1. /\ \A d \in Conns \ {c} : client'[d] = client[d]
      /\ UNCHANGED <<connfd, serverPc, childPc>>
  BY DEF ClientAction, Connect, SendRequest, Leave, TypeOK, serverVars,
     childVars
<1>2. ClientLeft(c)' < ClientLeft(c) /\ client'[c] # "idle"
  BY DEF ClientAction, Connect, SendRequest, Leave, TypeOK, ClientLeft
<1>3. \A d \in Conns : Queued(d)' => Queued(d) \/ (d = c /\ client[d] = "idle")
  BY QueuedAppend DEF ClientAction, Connect, SendRequest, Leave, Queued
<1>4. \A d \in Conns : RunLeft(d)' <= RunLeft(d)
  BY <1>1, <1>2, <1>3 DEF RunLeft
<1> QED
  BY <1>1, <1>2, <1>4, LeftType, SameLeft DEF Onward, NothingAgain, Less

LEMMA ServerOnward == Inv /\ ServerProgress => Onward
<1> SUFFICES ASSUME Inv, ServerProgress PROVE Onward
  OBVIOUS
<1> USE DEF Inv
<1>1. ASSUME NEW c \in Conns, RunLeft(c)' < RunLeft(c), UNCHANGED client,
             \A d \in Conns \ {c} : RunLeft(d)' <= RunLeft(d),
             \A d \in Conns : ChildLeft(d)' <= ChildLeft(d)
      PROVE  Onward
  BY <1>1, LeftType, SameLeft DEF Onward, NothingAgain, Less
<1>2. CASE Accept
  <2>1. PICK c \in Conns : c = Head(queue)
    BY <1>2, HeadTailProperties DEF Accept, TypeOK
  <2>2. /\ Queued(c)
        /\ \A d \in Conns : Queued(d)' <=> Queued(d) /\ d # c
    BY <1>2, <2>1, QueuedTail DEF Accept, ProcessesInStep
  <2>3. /\ client[c] # "idle" /\ connfd' = c /\ serverPc' = "fork"
        /\ serverPc = "accept" /\ UNCHANGED <<client, childPc>>
    BY <1>2, <2>1, <2>2 DEF Accept, ProcessesInStep, QueueInStep, childVars
  <2>4. RunLeft(c)' < RunLeft(c)
    BY <2>1, <2>2, <2>3 DEF RunLeft
  <2>5. \A d \in Conns \ {c} : RunLeft(d)' <= RunLeft(d)
    BY <2>2, <2>3 DEF RunLeft
  <2> QED
    BY <1>1, <2>1, <2>3, <2>4, <2>5, LeftType, SameLeft
<1>3. CASE Fork \/ ForkFails \/ ServerCloses
  <2>1. /\ \/ serverPc = "fork" /\ serverPc' = "close"
           \/ serverPc = "close" /\ serverPc' = "accept"
        /\ UNCHANGED <<client, queue, connfd>>
    BY <1>3 DEF Fork, ForkFails, ServerCloses
  <2>2. connfd \in Conns /\ client[connfd] # "idle" /\ ~Queued(connfd)
    BY <2>1 DEF ProcessesInStep, ServerInStep, QueueInStep
  <2>3. \A d \in Conns : Queued(d)' <=> Queued(d)
    BY <2>1 DEF Queued
  <2>4. RunLeft(connfd)' < RunLeft(connfd)
    BY <2>1, <2>2, <2>3 DEF RunLeft
  <2>5. \A d \in Conns \ {connfd} : RunLeft(d)' <= RunLeft(d)
    BY <2>1, <2>3 DEF RunLeft
  <2>6. \A d \in Conns : childPc'[d] = childPc[d] \/ childPc[d] = "none"
    BY <1>3 DEF Fork, ForkFails, ServerCloses, ProcessesInStep, ServerInStep,
       TypeOK, childVars
  <2>7. \A d \in Conns : childPc[d] = "none" => ChildLeft(d) = 9
    BY DEF ChildLeft
  <2>8. \A d \in Conns : ChildLeft(d)' <= ChildLeft(d)
    BY <2>6, <2>7, LeftType, SameLeft
  <2> QED
    BY <1>1, <2>1, <2>2, <2>4, <2>5, <2>8
<1> QED
  BY <1>2, <1>3 DEF ServerProgress

LEMMA ExitOnward == Inv /\ AcceptFails => Onward
<1> SUFFICES ASSUME Inv, AcceptFails PROVE Onward
  OBVIOUS
<1>1. serverPc # "exited" /\ serverPc' = "exited" /\ ReleaseListener
  BY DEF AcceptFails
<1>2. ASSUME NEW c \in Conns PROVE NothingAgain(c)
  <2>1. /\ ClientLeft(c)' <= ClientLeft(c)
        /\ Queued(c)' => Queued(c)
        /\ client'[c] = "idle" => client[c] = "idle"
    BY <1>1, ReleaseLess DEF Inv
  <2>2. RunLeft(c)' <= RunLeft(c)
    BY <1>1, <2>1 DEF RunLeft
  <2>3. childPc'[c] = IF childPc[c] = "zombie" THEN "reaped" ELSE childPc[c]
    BY DEF AcceptFails
  <2>4. ChildLeft(c)' <= ChildLeft(c)
    BY <2>3 DEF ChildLeft
  <2> QED
    BY <2>1, <2>2, <2>4 DEF NothingAgain
<1> QED
  BY <1>1, <1>2 DEF Onward

LEMMA ChildOnward ==
  ASSUME Inv, NEW c \in Conns, ChildAction(c)
  PROVE  Onward
<1>1. /\ UNCHANGED serverVars
      /\ ReleaseListener \/ UNCHANGED <<queue, client>>
  BY DEF ChildAction, ChildClosesListener, SpawnReader, SpawnReaderThrows,
     ReadReturns, HandleData, HandlerThrows, Write, WriteBreaks, ChildCloses,
     ChildExits, ChildDies
<1>2. PICK from, to : /\ ChildStep(c, from, to)
                      /\ <<from, to>> \in
                           {<<"start", "spawn">>, <<"spawn", "read">>,
                            <<"read", "handle">>, <<"read", "close">>,
                            <<"handle", "write">>, <<"handle", "close">>,
                            <<"write", "close">>, <<"close", "exit">>}
                           \cup {"spawn", "handle", "write", "exit"}
                                \X {"zombie", "reaped"}
  BY DEF ChildAction, ChildClosesListener, SpawnReader, SpawnReaderThrows,
     ReadReturns, HandleData, HandlerThrows, Write, WriteBreaks, ChildCloses,
     ChildExits, ChildDies, Dead
<1>3. ChildLeft(c)' < ChildLeft(c)
  BY <1>2 DEF ChildStep, ChildLeft, Inv, TypeOK
<1>4. \A d \in Conns \ {c} : childPc'[d] = childPc[d]
  BY <1>2 DEF ChildStep, Inv, TypeOK
<1>5. ASSUME NEW d \in Conns PROVE NothingAgain(d)
  <2>1. /\ ClientLeft(d)' <= ClientLeft(d)
        /\ Queued(d)' => Queued(d)
        /\ client'[d] = "idle" => client[d] = "idle"
    <3>1. CASE ReleaseListener
      BY <3>1, ReleaseLess DEF Inv
    <3>2. CASE UNCHANGED <<queue, client>>
      BY <3>2, LeftType, SameLeft DEF Queued
    <3> QED
      BY <1>1, <3>1, <3>2
  <2>2. ChildLeft(d)' <= ChildLeft(d)
    BY <1>3, <1>4, LeftType, SameLeft
  <2>3. RunLeft(d)' <= RunLeft(d)
    BY <1>1, <2>1, SameLeft DEF serverVars
  <2> QED
    BY <2>1, <2>2, <2>3 DEF NothingAgain
<1> QED
  BY <1>3, <1>5 DEF Onward, Less

(* A server with n connections, clients and failures included, comes to    *)
(* rest within 16 n + 1 steps.                                             *)
THEOREM GoesOnward == Spec => [][Onward]_vars
<1>1. Inv /\ [Next]_vars => [Onward]_vars
  BY ClientOnward, ServerOnward, ExitOnward, ChildOnward DEF Next
<1> QED
  BY <1>1, TypeCorrect, StaysInStep, PTL DEF Spec, Inv
=============================================================================
