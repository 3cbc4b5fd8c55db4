------------------------ MODULE AcceptLoopRefinement ------------------------
(***************************************************************************)
(* Proof that AcceptLoop implements ConnectionService for every value of   *)
(* the constants: every step of Run, of a child or of a client takes at    *)
(* most one connection one stage further, or ends all waiting ones.        *)
(***************************************************************************)
EXTENDS AcceptLoopProofs

(* Who holds a connection follows from where its processes are.            *)
HeldBy(c) ==
  \/ serverPc \in {"fork", "close"} /\ connfd = c
  \/ childPc[c] \in AtWork

OpenIffHeld == \A c \in Conns : Open(c) <=> HeldBy(c)

LEMMA OpenMatches == Inv => OpenIffHeld
BY ConstantsAssumption
DEF Inv, TypeOK, ServerPcs, ProcessesInStep, ServerInStep, ChildInStep, AtWork,
    Open, HeldBy, OpenIffHeld

(* Under the invariant the cases of Status exclude each other.             *)
StatusFits ==
  \A c \in Conns :
    /\ client[c] = "idle" => Status(c) = "idle" /\ ~Queued(c)
    /\ Queued(c) => Status(c) = "waiting" /\ ~Open(c) /\ c \notin responded
    /\ client[c] # "idle" /\ ~Queued(c) =>
         Status(c) = IF Open(c)
                       THEN IF c \in responded THEN "answered" ELSE "open"
                       ELSE IF c \in responded THEN "done" ELSE "dropped"

LEMMA StatusMatches == Inv => StatusFits
<1> SUFFICES ASSUME Inv, NEW c \in Conns
             PROVE  /\ client[c] = "idle" => ~Queued(c) /\ ~Open(c)
                    /\ Queued(c) => ~Open(c) /\ c \notin responded
  BY DEF StatusFits, Status, Ended
<1> QED
  BY OpenMatches, ConstantsAssumption
  DEF Inv, TypeOK, ServerPcs, ProcessesInStep, ServerInStep, ChildInStep,
      QueueInStep, OpenIffHeld, HeldBy, AtWork

(* The invariant and its consequences before and after a step.             *)
LEMMA InvBothSides ==
  ASSUME Inv, [Next]_vars
  PROVE  /\ Inv' /\ OpenIffHeld /\ OpenIffHeld'
         /\ StatusFits /\ StatusFits'
<1>1. Inv'
  BY NextTypeOK, NextInv DEF Inv
<1>2. Inv' => OpenIffHeld' /\ StatusFits'
  BY OpenMatches, StatusMatches, PTL
<1> QED
  BY <1>1, <1>2, OpenMatches, StatusMatches

(* The stage of a connection depends on these four facts only.             *)
LEMMA SameStatus ==
  ASSUME NEW c \in Conns,
         client'[c] = "idle" <=> client[c] = "idle",
         Queued(c)' <=> Queued(c),
         Open(c)' <=> Open(c),
         c \in responded' <=> c \in responded
  PROVE  Status(c)' = Status(c)
BY DEF Status, Ended

Stages == [c \in Conns |-> Status(c)]
AbstractStep == [Service!Next]_<<queue, Stages>>

(* A step that changes no connection's stage is a stutter.                 *)
LEMMA Stutters ==
  ASSUME UNCHANGED queue, \A c \in Conns : Status(c)' = Status(c)
  PROVE  AbstractStep
BY DEF AbstractStep, Stages

(* One that takes c out of a process's hands finishes it.                  *)
LEMMA Finishes ==
  ASSUME NEW c \in Conns, UNCHANGED queue,
         StatusFits, StatusFits', client[c] # "idle", ~Queued(c),
         Open(c), ~Open(c)', client'[c] = client[c], UNCHANGED responded,
         \A d \in Conns \ {c} : Status(d)' = Status(d)
  PROVE  AbstractStep
<1>1. ~Queued(c)'
  BY DEF Queued
<1>2. \/ Status(c) = "open" /\ Status(c)' = "dropped"
      \/ Status(c) = "answered" /\ Status(c)' = "done"
  BY <1>1 DEF StatusFits
<1>3. Stages' = [Stages EXCEPT ![c] = Status(c)']
  BY DEF Stages
<1>4. Service!Finish(c)
  BY <1>2, <1>3 DEF Service!Finish, Stages
<1> QED
  BY <1>4 DEF AbstractStep, Service!Next
-----------------------------------------------------------------------------
LEMMA ClientRefines ==
  ASSUME Inv, [Next]_vars, NEW c \in Conns, ClientAction(c)
  PROVE  AbstractStep
<1>0. StatusFits /\ StatusFits'
  BY InvBothSides
<1>1. CASE Connect(c)
  <2>1. \A d \in Conns : Queued(d)' <=> Queued(d) \/ d = c
    BY <1>1, QueuedAppend DEF Connect, Inv
  <2>2. \A d \in Conns : Open(d)' <=> Open(d)
    BY <1>1 DEF Connect, serverVars, childVars, Open
  <2>3. Status(c) = "idle" /\ Status(c)' = "waiting"
    BY <1>0, <1>1, <2>1 DEF Connect, StatusFits
  <2>4. \A d \in Conns \ {c} : Status(d)' = Status(d)
    BY <1>1, <2>1, <2>2, SameStatus DEF Connect, Inv, TypeOK
  <2>5. Stages' = [Stages EXCEPT ![c] = "waiting"]
    BY <2>3, <2>4 DEF Stages
  <2>6. Service!Arrive(c)
    BY <1>1, <2>3, <2>5 DEF Connect, Service!Arrive, Stages
  <2> QED
    BY <2>6 DEF AbstractStep, Service!Next
<1>2. CASE SendRequest(c) \/ Leave(c)
  <2>1. \A d \in Conns : client'[d] = "idle" <=> client[d] = "idle"
    BY <1>2 DEF SendRequest, Leave, Inv, TypeOK
  <2>2. \A d \in Conns : (Queued(d)' <=> Queued(d)) /\ (Open(d)' <=> Open(d))
    BY <1>2 DEF SendRequest, Leave, serverVars, childVars, Queued, Open
  <2> QED
    BY <1>2, <2>1, <2>2, SameStatus, Stutters DEF SendRequest, Leave
<1> QED
  BY <1>1, <1>2 DEF ClientAction

LEMMA AcceptRefines ==
  ASSUME Inv, [Next]_vars, Accept
  PROVE  AbstractStep
<1>0. StatusFits /\ StatusFits'
  BY InvBothSides
<1>1. PICK c \in Conns : c = Head(queue) /\ queue # <<>>
  BY HeadTailProperties DEF Accept, Inv, TypeOK
<1>2. /\ Queued(c)
      /\ \A d \in Conns : Queued(d)' <=> Queued(d) /\ d # c
  BY <1>1, QueuedTail DEF Accept, Inv, ProcessesInStep
<1>3. \A d \in Conns : Open(d)' <=> Open(d) \/ d = c
  BY <1>1 DEF Accept, childVars, Open
<1>4. Status(c) = "waiting" /\ Status(c)' = "open"
  BY <1>0, <1>1, <1>2, <1>3 DEF StatusFits, Accept
<1>5. \A d \in Conns \ {c} : Status(d)' = Status(d)
  BY <1>2, <1>3, SameStatus DEF Accept
<1>6. Stages' = [Stages EXCEPT ![c] = "open"]
  BY <1>1, <1>4, <1>5 DEF Stages
<1>7. Service!Take
  BY <1>1, <1>6 DEF Accept, Service!Take, Stages
<1> QED
  BY <1>7 DEF AbstractStep, Service!Next

(* Letting go of the listening socket ends the waiting connections, all or *)
(* none.                                                                   *)
LEMMA ReleaseRefines ==
  ASSUME Inv, [Next]_vars, ReleaseListener, UNCHANGED responded,
         \A c \in Conns : Open(c)' <=> Open(c)
  PROVE  AbstractStep
<1>0. StatusFits /\ StatusFits'
  BY InvBothSides
<1>1. CASE Open(sockfd)'
  <2>1. UNCHANGED <<queue, client>>
    BY <1>1 DEF ReleaseListener
  <2>2. \A c \in Conns : Queued(c)' <=> Queued(c)
    BY <2>1 DEF Queued
  <2> QED
    BY <2>1, <2>2, SameStatus, Stutters
<1>2. CASE ~Open(sockfd)'
  <2>1. /\ queue' = <<>>
        /\ \A c \in Conns :
             client'[c] = IF Queued(c) THEN "reset" ELSE client[c]
    BY <1>2 DEF ReleaseListener
  <2>2. \A c \in Conns : ~Queued(c)'
    BY <2>1 DEF Queued
  <2>3. ASSUME NEW c \in Conns, Queued(c)
        PROVE  Status(c) = "waiting" /\ Status(c)' = "dropped"
    BY <1>0, <2>1, <2>2, <2>3 DEF StatusFits
  <2>4. ASSUME NEW c \in Conns, ~Queued(c)
        PROVE  Status(c) # "waiting" /\ Status(c)' = Status(c)
    <3>1. Status(c)' = Status(c)
      BY <2>1, <2>2, <2>4, SameStatus
    <3> QED
      BY <1>0, <2>4, <3>1 DEF StatusFits
  <2>5. \A c \in Conns :
          Status(c)' = IF Status(c) = "waiting" THEN "dropped" ELSE Status(c)
    BY <2>3, <2>4
  <2>6. Service!Abandon
    BY <2>1, <2>5 DEF Service!Abandon, Stages
  <2> QED
    BY <2>6 DEF AbstractStep, Service!Next
<1> QED
  BY <1>1, <1>2

LEMMA ServerRefines ==
  ASSUME Inv, [Next]_vars, AcceptFails \/ Fork \/ ForkFails \/ ServerCloses
  PROVE  AbstractStep
<1>0. /\ OpenIffHeld /\ OpenIffHeld'
      /\ StatusFits /\ StatusFits'
  BY InvBothSides
<1>1. CASE AcceptFails
  <2>1. \A c \in Conns : HeldBy(c)' <=> HeldBy(c)
    BY <1>1 DEF AcceptFails, HeldBy, AtWork
  <2>2. \A c \in Conns : Open(c)' <=> Open(c)
    BY <1>0, <2>1 DEF OpenIffHeld
  <2> QED
    BY <1>1, <2>2, ReleaseRefines DEF AcceptFails
<1>2. CASE Fork \/ ForkFails
  <2>1. \A c \in Conns : HeldBy(c)' <=> HeldBy(c)
    BY <1>2 DEF Fork, ForkFails, HeldBy, AtWork, childVars, Inv, TypeOK,
       ProcessesInStep, ServerInStep
  <2>2. \A c \in Conns : Open(c)' <=> Open(c)
    BY <1>0, <2>1 DEF OpenIffHeld
  <2>3. \A c \in Conns : Queued(c)' <=> Queued(c)
    BY <1>2 DEF Fork, ForkFails, Queued
  <2> QED
    BY <1>2, <2>2, <2>3, SameStatus, Stutters DEF Fork, ForkFails
<1>3. CASE ServerCloses
  <2>1. PICK c \in Conns : c = connfd
    BY <1>3 DEF ServerCloses, Inv, ProcessesInStep, ServerInStep
  <2>2. client[c] # "idle" /\ UNCHANGED <<queue, client, responded>>
    BY <1>3, <2>1 DEF ServerCloses, Inv, ProcessesInStep, ServerInStep
  <2>3. \A d \in Conns : Queued(d)' <=> Queued(d)
    BY <2>2 DEF Queued
  <2>4. Open(c)
    BY <1>0, <1>3, <2>1 DEF ServerCloses, OpenIffHeld, HeldBy
  <2>5. ~Queued(c)
    BY <1>0, <2>4 DEF StatusFits
  <2>6. \A d \in Conns \ {c} : Open(d)' <=> Open(d)
    <3>1. \A d \in Conns \ {c} : HeldBy(d)' <=> HeldBy(d)
      BY <1>3, <2>1 DEF ServerCloses, HeldBy, childVars
    <3> QED
      BY <1>0, <3>1 DEF OpenIffHeld
  <2>7. \A d \in Conns \ {c} : Status(d)' = Status(d)
    BY <2>2, <2>3, <2>6, SameStatus
  <2>8. CASE Open(c)'
    <3>1. Status(c)' = Status(c)
      BY <2>2, <2>3, <2>4, <2>8, SameStatus
    <3> QED
      BY <2>2, <2>7, <3>1, Stutters
  <2>9. CASE ~Open(c)'
    BY <1>0, <2>2, <2>4, <2>5, <2>7, <2>9, Finishes
  <2> QED
    BY <2>8, <2>9
<1> QED
  BY <1>1, <1>2, <1>3

(* A child that stops holding its connection, or goes on holding it.       *)
LEMMA ChildMoves ==
  ASSUME Inv, [Next]_vars, NEW c \in Conns, NEW to,
         childPc[c] # "none",
         to \in AtWork => childPc[c] \in AtWork,
         childPc' = [childPc EXCEPT ![c] = to],
         UNCHANGED <<queue, serverVars, client, responded>>
  PROVE  AbstractStep
<1>0. /\ OpenIffHeld /\ OpenIffHeld'
      /\ StatusFits /\ StatusFits'
  BY InvBothSides
<1>1. client[c] # "idle"
  BY DEF Inv, ProcessesInStep, ChildInStep
<1>2. \A d \in Conns : Queued(d)' <=> Queued(d)
  BY DEF Queued
<1>3. ~Queued(c)
  BY DEF Inv, ProcessesInStep, QueueInStep
<1>4. \A d \in Conns \ {c} : Open(d)' <=> Open(d)
  <2>1. \A d \in Conns \ {c} : HeldBy(d)' <=> HeldBy(d)
    BY DEF HeldBy, serverVars, Inv, TypeOK
  <2> QED
    BY <1>0, <2>1 DEF OpenIffHeld
<1>5. \A d \in Conns \ {c} : Status(d)' = Status(d)
  BY <1>2, <1>4, SameStatus
<1>6. CASE Open(c)' <=> Open(c)
  <2>1. Status(c)' = Status(c)
    BY <1>2, <1>6, SameStatus
  <2> QED
    BY <1>5, <2>1, Stutters
<1>7. CASE Open(c) /\ ~Open(c)'
  BY <1>0, <1>1, <1>3, <1>5, <1>7, Finishes
<1>8. Open(c)' => Open(c)
  <2>1. HeldBy(c)' => HeldBy(c)
    BY DEF HeldBy, serverVars, Inv, TypeOK
  <2> QED
    BY <1>0, <2>1 DEF OpenIffHeld
<1> QED
  BY <1>6, <1>7, <1>8

LEMMA WriteRefines ==
  ASSUME Inv, [Next]_vars, NEW c \in Conns, Write(c)
  PROVE  AbstractStep
<1>0. /\ OpenIffHeld /\ OpenIffHeld'
      /\ StatusFits /\ StatusFits'
  BY InvBothSides
<1>1. /\ childPc[c] = "write" /\ childPc' = [childPc EXCEPT ![c] = "close"]
      /\ UNCHANGED <<queue, serverVars, client>>
  BY DEF Write, ChildStep
<1>2. CASE client[c] = "left"
  <2>1. UNCHANGED responded
    BY <1>2 DEF Write
  <2> QED
    BY <1>1, <2>1, ChildMoves DEF AtWork
<1>3. CASE client[c] # "left"
  <2>1. responded' = responded \cup {c} /\ c \notin responded
    BY <1>1, <1>3 DEF Write, Inv, ProcessesInStep
  <2>2. client[c] # "idle" /\ ~Queued(c)
    BY <1>1 DEF Inv, ProcessesInStep, ChildInStep, QueueInStep
  <2>3. \A d \in Conns : Queued(d)' <=> Queued(d)
    BY <1>1 DEF Queued
  <2>4. \A d \in Conns : HeldBy(d)' <=> HeldBy(d)
    BY <1>1 DEF HeldBy, serverVars, AtWork, Inv, TypeOK
  <2>5. Open(c) /\ \A d \in Conns : Open(d)' <=> Open(d)
    BY <1>0, <1>1, <2>4 DEF OpenIffHeld, HeldBy, AtWork
  <2>6. Status(c) = "open" /\ Status(c)' = "answered"
    BY <1>0, <1>1, <2>1, <2>2, <2>3, <2>5 DEF StatusFits
  <2>7. \A d \in Conns \ {c} : Status(d)' = Status(d)
    BY <1>1, <2>1, <2>3, <2>5, SameStatus
  <2>8. Stages' = [Stages EXCEPT ![c] = "answered"]
    BY <2>6, <2>7 DEF Stages
  <2>9. Service!Answer(c)
    BY <1>1, <2>6, <2>8 DEF Service!Answer, Stages
  <2> QED
    BY <2>9 DEF AbstractStep, Service!Next
<1> QED
  BY <1>2, <1>3

LEMMA ChildRefines ==
  ASSUME Inv, [Next]_vars, NEW c \in Conns, ChildAction(c)
  PROVE  AbstractStep
<1>1. CASE ChildClosesListener(c)
  <2>0. OpenIffHeld /\ OpenIffHeld'
    BY InvBothSides
  <2>1. \A d \in Conns : HeldBy(d)' <=> HeldBy(d)
    BY <1>1 DEF ChildClosesListener, ChildStep, serverVars, HeldBy, AtWork,
       Inv, TypeOK
  <2>2. \A d \in Conns : Open(d)' <=> Open(d)
    BY <2>0, <2>1 DEF OpenIffHeld
  <2> QED
    BY <1>1, <2>2, ReleaseRefines DEF ChildClosesListener
<1>2. CASE SpawnReader(c) \/ ReadReturns(c) \/ HandleData(c)
  <2>1. PICK to \in AtWork :
          /\ childPc[c] \in AtWork
          /\ childPc' = [childPc EXCEPT ![c] = to]
          /\ UNCHANGED <<queue, serverVars, client, responded>>
    BY <1>2 DEF SpawnReader, ReadReturns, HandleData, ChildStep, AtWork
  <2>2. childPc[c] # "none"
    BY <2>1 DEF AtWork
  <2> QED
    BY <2>1, <2>2, ChildMoves
<1>3. CASE ChildEnds(c)
  <2>1. UNCHANGED <<queue, client>>
    BY <1>3, ChildEndsQuietly
  <2>2. childPc[c] # "none" /\ Dead \notin AtWork
    BY <1>3 DEF ChildEnds, Dead, AtWork
  <2> QED
    BY <1>3, <2>1, <2>2, ChildMoves DEF ChildEnds
<1>4. CASE Write(c)
  BY <1>4, WriteRefines
<1>5. CASE ChildCloses(c)
  <2>1. childPc[c] # "none" /\ "exit" \notin AtWork
    BY <1>5 DEF ChildCloses, ChildStep, AtWork
  <2> QED
    BY <1>5, <2>1, ChildMoves DEF ChildCloses, ChildStep
<1> QED
  BY <1>1, <1>2, <1>3, <1>4, <1>5
  DEF ChildAction, SpawnReaderThrows, HandlerThrows, WriteBreaks, ChildDies,
      ChildExits, ChildStep, ChildEnds

LEMMA NextRefines == Inv /\ [Next]_vars => AbstractStep
<1> SUFFICES ASSUME Inv, [Next]_vars
             PROVE  AbstractStep
  OBVIOUS
<1>1. CASE Next
  BY <1>1, ClientRefines, AcceptRefines, ServerRefines, ChildRefines
  DEF Next, ServerProgress
<1>2. CASE UNCHANGED vars
  <2>1. \A c \in Conns : (Queued(c)' <=> Queued(c)) /\ (Open(c)' <=> Open(c))
    BY <1>2 DEF vars, Queued, Open
  <2> QED
    BY <1>2, <2>1, SameStatus, Stutters DEF vars
<1> QED
  BY <1>1, <1>2

(* Run keeps the promise of ConnectionService, whatever the number of      *)
(* clients, the limits and the failures.                                   *)
THEOREM Refinement == Spec => ImplementsService
<1>1. Init => Service!Init
  <2> SUFFICES ASSUME Init, NEW c \in Conns
               PROVE  Status(c) = "idle"
    BY DEF Init, Service!Init
  <2> QED
    BY InitTypeOK, InitInv, StatusMatches DEF Init, Inv, StatusFits
<1>2. Inv /\ [Next]_vars => [Service!Next]_(Service!vars)
  BY NextRefines DEF AbstractStep, Stages, Service!vars
<1>3. Spec => []Inv
  BY TypeCorrect, StaysInStep, PTL DEF Inv
<1> QED
  BY <1>1, <1>2, <1>3, PTL DEF Spec, ImplementsService, Service!Spec
=============================================================================
