--------------------------- MODULE SessionsProofs ---------------------------
(***************************************************************************)
(* Proofs about Sessions for all ports, streams, terminators, buffer sizes *)
(* and numbers of lines: servers listen where they were told to, a request *)
(* that is read is not answered by a reset, the two sides wait for each    *)
(* other only if the client has not said enough, a child reads the way     *)
(* HandleRead does, and no session goes on for ever.                       *)
(***************************************************************************)
EXTENDS Sessions, SequenceTheorems, TLAPS

WebReads ==
  INSTANCE HandleReadProofs WITH Terminator <- WebTerminator, pc <- childPc
-----------------------------------------------------------------------------
(* The invariant.                                                          *)

\* From listen on the socket is bound as told, or as listen will find it, and
\* one that listens is bound.
BoundAsTold ==
  /\ serverPc \notin {"create", "bind", "exited"} /\ valid =>
       \/ bound = Told
       \/ /\ server # "single" /\ (taken \/ Told = 0)
          /\ bound \in Ephemeral \cup {0}
  /\ listening => bound # 0

\* Which labels belong to which server.
Roles ==
  /\ childPc # "none" => Forking
  /\ serverPc \in {"fork", "close"} => Forking
  /\ serverPc \in {"read", "send"} => server = "single"
  /\ serverPc = "join" \/ readerPc # "none" => server = "twoway"
  /\ listening =>
       valid /\ serverPc \notin {"create", "bind", "listen", "exited"}

\* Who has the connection follows from where the processes are.
Holding ==
  /\ clientPc = "connect" => link = "none"
  /\ \/ serverPc \in {"create", "bind", "listen"}
     \/ server \in {"twoway", "single"} /\ serverPc = "accept"
     => ~Connected
  /\ "child" \in holders <=> childPc \in {"start", "read", "returned", "close"}
  /\ "server" \in holders <=>
       \/ serverPc \in {"fork", "close", "read", "send"}
       \/ serverPc = "join" /\ Connected
  /\ holders # {} => Connected
  /\ ~Connected \/ serverPc \in {"fork", "read"} =>
       childPc = "none" /\ fBytesRead = 0

Only(q, S) == \A i \in 1..Len(q) : q[i] \in S

\* While a process has it nobody ends it.
NotEnded ==
  holders # {} \/ link \in {"none", "queued"} => Only(toClient, {"answer"})

\* What a child has read.
Kept ==
  /\ Forking /\ childPc \in {"none", "start", "failed"} =>
       fBytesRead = 0 /\ fBufferData = <<>>
  /\ server = "daytime" /\ childPc = "read" => fBytesRead = 0
  /\ Forking /\ Web!NulFree(stream) =>
       fBufferData = SubSeq(stream, 1, fBytesRead)
  /\ server = "web" /\ childPc = "read" =>
       ~Web!EndsWith(fBufferData, WebTerminator)
  /\ childPc \in {"returned", "close", "done"} /\ OneRequest(stream)
         /\ eof = "no" =>
       fBytesRead = Len(stream)

NoReset ==
  childPc \notin {"none", "failed"} /\ OneRequest(stream) /\ eof = "no" =>
    Only(toClient, {"answer", "fin"})

IInv ==
  TypeOK /\ BoundAsTold /\ Roles /\ Holding /\ NotEnded /\ Kept /\ NoReset
-----------------------------------------------------------------------------
(* Types.                                                                  *)

Ends == {"answer", "fin", "rst"}

LEMMA WebAssumption == WebReads!ReadAssumption
BY SessionAssumption DEF WebReads!ReadAssumption

LEMMA Appended ==
  ASSUME NEW s \in Seq(Ends), NEW e \in Ends
  PROVE  /\ Append(s, e) \in Seq(Ends)
         /\ <<e>> \in Seq(Ends)
BY AppendProperties, LenProperties

LEMMA StreamType ==
  TypeOK => /\ stream \in Seq(Byte) /\ Len(stream) \in Nat
            /\ delivered \in Nat /\ fBytesRead \in Nat
            /\ delivered <= Len(stream) /\ fBytesRead <= delivered
BY SessionAssumption, LenProperties DEF TypeOK

LEMMA ToClientType ==
  ASSUME TypeOK
  PROVE  /\ toClient \in Seq(Ends)
         /\ <<>> \in Seq(Ends)
         /\ \A e \in Ends : /\ Append(toClient, e) \in Seq(Ends)
                            /\ <<e>> \in Seq(Ends)
         /\ toClient # <<>> => Tail(toClient) \in Seq(Ends)
BY Appended, EmptySeq, HeadTailProperties DEF TypeOK, Ends

LEMMA ReleaseType ==
  ASSUME TypeOK, NEW h, Release(h)
  PROVE  /\ holders' \subseteq {"server", "child"}
         /\ toClient' \in Seq(Ends)
BY ToClientType DEF Release, TypeOK, Ends

LEMMA InitType == Init => TypeOK
<1> SUFFICES ASSUME Init PROVE TypeOK
  OBVIOUS
<1>1. stream \in Streams
  <2>1. stream \in BrowserStreams \/ stream = Hello \/ stream = <<>>
    BY DEF Init
  <2> QED
    BY <2>1 DEF Streams
<1>2. Len(stream) \in Nat
  BY <1>1, SessionAssumption, LenProperties
<1>3. asked \in 0..(PortMod - 1)
  BY StartupAssumption DEF Init, StartupInit, ToPort, DaytimePort, ClientPort
<1>4. bound \in 0..(PortMod - 1) \cup Ephemeral
  BY StartupAssumption DEF Init, StartupInit
<1>5. delivered \in 0..Len(stream) /\ fBytesRead \in 0..delivered
  BY <1>2 DEF Init
<1>6. fBufferData \in Seq(Byte) /\ toClient \in Seq({"answer", "fin", "rst"})
  BY EmptySeq DEF Init
<1>7. /\ server \in Servers /\ client \in Clients /\ told \in PortArgs
      /\ taken \in BOOLEAN /\ valid \in BOOLEAN /\ listening \in BOOLEAN
      /\ serverPc = "create" /\ clientPc = "connect" /\ link = "none"
  BY DEF Init, StartupInit
<1>8. /\ eof = "no" /\ childPc = "none" /\ holders = {} /\ readerPc = "none"
      /\ writerPc = "none" /\ lines \in 0..MaxLines
  BY DEF Init
<1> QED
  BY <1>1, <1>3, <1>4, <1>5, <1>6, <1>7, <1>8 DEF TypeOK

StartupType ==
  /\ valid' \in BOOLEAN /\ listening' \in BOOLEAN
  /\ bound' \in 0..(PortMod - 1) \cup Ephemeral

LEMMA CallsType ==
  ASSUME TypeOK
  PROVE  /\ SocketIPv4 => StartupType
         /\ \A p \in 0..(PortMod - 1) : BindTo(p) => StartupType
         /\ Listen => StartupType
<1>1. SocketIPv4 => StartupType
  BY DEF SocketIPv4, Socket, TypeOK, StartupType
<1>2. ASSUME NEW p \in 0..(PortMod - 1), BindTo(p) PROVE StartupType
  BY <1>2, StartupAssumption DEF BindTo, TypeOK, StartupType
<1>3. Listen => StartupType
  BY DEF Listen, TypeOK, StartupType
<1> QED
  BY <1>1, <1>2, <1>3

LEMMA StartsType == TypeOK /\ Start => TypeOK'
<1> SUFFICES ASSUME TypeOK, Start PROVE TypeOK'
  OBVIOUS
<1>1. ToPort(told) \in 0..(PortMod - 1)
  BY StartupAssumption DEF TypeOK, ToPort
<1>2. TwoWayPort \in 0..(PortMod - 1) /\ SinglePort \in 0..(PortMod - 1)
  BY StartupAssumption DEF TwoWayPort, SinglePort
<1>3. /\ UNCHANGED <<input, clientPc, link, conversation, childPc, holders,
                     toClient, threads>>
      /\ serverPc' \in {"create", "bind", "listen", "accept", "exited"}
  BY DEF Start, Starts, WebStarts, DaytimeStarts, TwoWayStarts, SingleStarts
<1>4. StartupType
  <2>1. CASE WebStarts
    BY <1>1, <2>1, CallsType DEF WebStarts, Bind
  <2>2. CASE DaytimeStarts
    BY <1>1, <2>2, CallsType DEF DaytimeStarts, WrapperSocketIPv4,
       WrapperSocket, SocketIPv4, WrapperBind, WrapperListen
  <2>3. CASE TwoWayStarts
    BY <1>2, <2>3, CallsType DEF TwoWayStarts
  <2>4. CASE SingleStarts
    BY <1>2, <2>4, CallsType DEF SingleStarts
  <2> QED
    BY <2>1, <2>2, <2>3, <2>4 DEF Start, Starts
<1> QED
  BY <1>3, <1>4 DEF StartupType, TypeOK, input, conversation, threads

LEMMA RunType == TypeOK /\ Run => TypeOK'
<1> SUFFICES ASSUME TypeOK, Run PROVE TypeOK'
  OBVIOUS
<1> USE DEF TypeOK, input, startup, conversation, threads
<1>1. CASE Forking /\ Accepts("fork") /\ UNCHANGED threads
  BY <1>1 DEF Accepts
<1>2. CASE serverPc = "fork"
  <2>1. holders' \subseteq {"server", "child"}
    BY <1>2 DEF Run, Accepts
  <2>2. childPc' \in {"start", childPc} /\ serverPc' = "close"
    BY <1>2 DEF Run, Accepts
  <2>3. UNCHANGED <<input, startup, clientPc, link, conversation, toClient,
                    threads>>
    BY <1>2 DEF Run, Accepts
  <2> QED
    BY <2>1, <2>2, <2>3
<1>3. CASE serverPc = "close"
  BY <1>3, ReleaseType DEF Run, Accepts, Ends
<1> QED
  BY <1>1, <1>2, <1>3 DEF Run

LEMMA AcceptsType ==
  ASSUME TypeOK,
         \/ TwoWayAccepts \/ SingleAccepts \/ AcceptFails
         \/ TwoWayAcceptFails \/ SingleAcceptFails
  PROVE  TypeOK'
<1> USE DEF TypeOK, input, startup, conversation, threads
<1>1. CASE TwoWayAccepts
  BY <1>1 DEF TwoWayAccepts, Accepts
<1>2. CASE SingleAccepts
  BY <1>2 DEF SingleAccepts, Accepts
<1>3. CASE TwoWayAcceptFails
  BY <1>3 DEF TwoWayAcceptFails
<1>4. CASE AcceptFails \/ SingleAcceptFails
  <2>1. toClient' \in Seq(Ends)
    BY <1>4, ToClientType DEF AcceptFails, SingleAcceptFails, ExitsAtAccept,
       Ends
  <2>2. link' \in {"none", "queued", "accepted", "gone"}
    BY <1>4 DEF AcceptFails, SingleAcceptFails, ExitsAtAccept
  <2>3. /\ serverPc' = "exited" /\ listening' = FALSE
        /\ UNCHANGED <<input, valid, bound, clientPc, conversation, childPc,
                       holders, threads>>
    BY <1>4 DEF AcceptFails, SingleAcceptFails, ExitsAtAccept
  <2>4. listening' \in BOOLEAN
    BY <2>3
  <2> QED
    BY <2>1, <2>2, <2>3, <2>4 DEF Ends
<1> QED
  BY <1>1, <1>2, <1>3, <1>4

LEMMA TwoWayEndsType == TypeOK /\ TwoWayEnds => TypeOK'
<1> SUFFICES ASSUME TypeOK, TwoWayEnds PROVE TypeOK'
  OBVIOUS
<1>1. toClient' \in Seq(Ends) /\ holders' \subseteq {"server", "child"}
  BY ReleaseType DEF TwoWayEnds
<1>2. listening' \in BOOLEAN
  BY DEF TwoWayEnds
<1> QED
  BY <1>1, <1>2 DEF TwoWayEnds, TypeOK, input, startup, conversation, Ends

LEMMA TwoWayType ==
  TypeOK /\ (ReaderReads \/ WriterWrites \/ InputEnds \/ TwoWayExits) =>
    TypeOK'
<1> SUFFICES ASSUME TypeOK,
                    ReaderReads \/ WriterWrites \/ InputEnds \/ TwoWayExits
             PROVE  TypeOK'
  OBVIOUS
<1> USE DEF TypeOK, input, startup, conversation, threads
<1>1. CASE ReaderReads
  <2>1. fBytesRead' \in 0..delivered
    BY <1>1, StreamType DEF ReaderReads
  <2>2. readerPc' \in {"read", "erred", "done"}
    BY <1>1 DEF ReaderReads
  <2> QED
    BY <1>1, <2>1, <2>2 DEF ReaderReads
<1>2. CASE WriterWrites
  <2>1. CASE TwoWayEnds
    BY <2>1, TwoWayEndsType
  <2>2. CASE ~TwoWayEnds
    <3>1. toClient' \in Seq(Ends)
      BY <1>2, <2>2, ToClientType DEF WriterWrites, Ends
    <3>2. lines' \in 0..MaxLines
      BY <1>2, <2>2, SessionAssumption DEF WriterWrites
    <3> QED
      BY <1>2, <2>2, <3>1, <3>2 DEF WriterWrites, Ends
  <2> QED
    BY <2>1, <2>2
<1>3. CASE InputEnds
  BY <1>3 DEF InputEnds
<1>4. CASE TwoWayExits
  BY <1>4, TwoWayEndsType DEF TwoWayExits
<1> QED
  BY <1>1, <1>2, <1>3, <1>4

LEMMA SingleType == TypeOK /\ (SingleReads \/ SingleSends) => TypeOK'
<1> SUFFICES ASSUME TypeOK, SingleReads \/ SingleSends PROVE TypeOK'
  OBVIOUS
<1> USE DEF TypeOK, input, startup, conversation, threads
<1>1. CASE SingleReads
  <2>1. fBytesRead' \in 0..delivered
    BY <1>1, StreamType DEF SingleReads
  <2> QED
    BY <1>1, <2>1 DEF SingleReads
<1>2. CASE SingleSends
  <2>1. PICK said \in {toClient, Append(toClient, "answer")} :
          \/ toClient' \in {Append(said, "rst"), <<"rst">>}
          \/ toClient' = Append(said, "fin")
    BY <1>2 DEF SingleSends
  <2>2. said \in Seq(Ends)
    BY <2>1, ToClientType DEF Ends
  <2>3. toClient' \in Seq(Ends)
    BY <2>1, <2>2, Appended DEF Ends
  <2>4. listening' \in BOOLEAN
    BY <1>2 DEF SingleSends
  <2> QED
    BY <1>2, <2>3, <2>4 DEF SingleSends, Ends
<1> QED
  BY <1>1, <1>2

LEMMA ClientType == TypeOK /\ (Client \/ Leaves) => TypeOK'
<1> SUFFICES ASSUME TypeOK, Client \/ Leaves PROVE TypeOK'
  OBVIOUS
<1> USE DEF TypeOK, input, startup, conversation, threads
<1>1. CASE Reach
  <2>1. PICK reached \in BOOLEAN, then \in {"read", "send", "left"} :
          ConnectsTo(reached, then)
    BY <1>1 DEF Reach, Connecting, CliConnects, DaytimeClientConnects,
       ClientConnects, BrowserConnects
  <2> QED
    BY <1>1, <2>1 DEF Reach, ConnectsTo
<1>2. ASSUME NEW pc \in {"read", "spin", "left"}, NEW rest \in Seq(Ends),
             ClientGoes(pc, rest)
      PROVE  TypeOK'
  BY <1>2 DEF ClientGoes, Ends
<1>3. CASE Sends
  BY <1>2, <1>3, ToClientType DEF Sends
<1>4. CASE DaytimeReads
  BY <1>2, <1>4, ToClientType DEF DaytimeReads
<1>5. CASE ClientReads
  BY <1>2, <1>5, ToClientType DEF ClientReads
<1>6. CASE BrowserReads
  BY <1>2, <1>6, ToClientType DEF BrowserReads
<1>7. CASE Leaves
  BY <1>2, <1>7, ToClientType DEF Leaves
<1> QED
  BY <1>1, <1>3, <1>4, <1>5, <1>6, <1>7 DEF Client

LEMMA KernelType == TypeOK /\ Kernel => TypeOK'
<1> SUFFICES ASSUME TypeOK, Kernel PROVE TypeOK'
  OBVIOUS
<1> USE DEF TypeOK, input, startup, conversation, threads
<1>1. CASE Deliver
  <2>1. delivered' \in 0..Len(stream) /\ fBytesRead \in 0..delivered'
    BY <1>1, StreamType DEF Deliver, Web!Deliver
  <2> QED
    BY <1>1, <2>1 DEF Deliver, Web!Deliver
<1>2. CASE DeliverEnd
  BY <1>2 DEF DeliverEnd
<1>3. CASE Bounce
  <2>1. toClient' \in Seq(Ends)
    BY <1>3, ToClientType DEF Bounce, Ends
  <2> QED
    BY <1>3, <2>1 DEF Bounce, Ends
<1> QED
  BY <1>1, <1>2, <1>3 DEF Kernel

(* The two instances of HandleRead differ in their terminators alone.      *)
LEMMA SameChunks ==
  /\ \A n : Daytime!Chunk(n) = Web!Chunk(n)
  /\ \A s : Daytime!CString(s) = Web!CString(s)
<1>1. \A n : Daytime!Chunk(n) = Web!Chunk(n)
  BY DEF Daytime!Chunk, Web!Chunk
<1>2. \A s : Daytime!CString(s) = Web!CString(s)
  BY Zenon DEF Daytime!CString, Web!CString, Daytime!CStringLength,
     Web!CStringLength, Daytime!Cardinality, Web!Cardinality
<1> QED
  BY <1>1, <1>2

LEMMA SameReads ==
  /\ \A n : WebReads!Chunk(n) = Web!Chunk(n)
  /\ \A s : WebReads!CString(s) = Web!CString(s)
  /\ \A s : WebReads!NulFree(s) <=> Web!NulFree(s)
<1>1. \A n : WebReads!Chunk(n) = Web!Chunk(n)
  BY DEF WebReads!Chunk, Web!Chunk
<1>2. \A s : WebReads!CString(s) = Web!CString(s)
  BY Zenon DEF WebReads!CString, Web!CString, WebReads!CStringLength,
     Web!CStringLength, WebReads!Cardinality, Web!Cardinality
<1>3. \A s : WebReads!NulFree(s) <=> Web!NulFree(s)
  BY DEF WebReads!NulFree, Web!NulFree
<1> QED
  BY <1>1, <1>2, <1>3

(* What one read adds to the data, whichever server reads.                 *)
LEMMA ChunkKept ==
  ASSUME TypeOK, childPc = "read", NEW n \in 1..(delivered - fBytesRead)
  PROVE  /\ Web!CString(Web!Chunk(n)) \in Seq(Byte)
         /\ fBufferData \o Web!CString(Web!Chunk(n)) \in Seq(Byte)
         /\ Web!NulFree(stream) =>
              SubSeq(stream, 1, fBytesRead) \o Web!CString(Web!Chunk(n))
                = SubSeq(stream, 1, fBytesRead + n)
<1>1. WebReads!TypeOK
  BY DEF TypeOK, WebReads!TypeOK
<1>2. /\ Web!Chunk(n) \in Seq(Byte)
      /\ Web!NulFree(stream) => Web!NulFree(Web!Chunk(n))
      /\ SubSeq(stream, 1, fBytesRead) \o Web!Chunk(n)
           = SubSeq(stream, 1, fBytesRead + n)
  BY <1>1, WebAssumption, WebReads!ChunkProperties, SameReads
<1>3. /\ Web!CString(Web!Chunk(n)) \in Seq(Byte)
      /\ Web!NulFree(Web!Chunk(n)) =>
           Web!CString(Web!Chunk(n)) = Web!Chunk(n)
  BY <1>2, WebAssumption, WebReads!CStringProperties, SameReads
<1>4. fBufferData \o Web!CString(Web!Chunk(n)) \in Seq(Byte)
  BY <1>3, ConcatProperties DEF TypeOK
<1> QED
  BY <1>2, <1>3, <1>4

(* A step of HandleRead, in one form for both servers.                     *)
LEMMA HandleReadStep ==
  ASSUME TypeOK, HandleRead
  PROVE  /\ childPc = "read"
         /\ UNCHANGED <<input, startup, serverPc, clientPc, link, stream,
                        delivered, eof, holders, toClient, threads>>
         /\ \/ /\ fBytesRead = delivered /\ eof # "no"
               /\ childPc' = "returned"
               /\ UNCHANGED <<fBytesRead, fBufferData>>
            \/ \E n \in 1..(delivered - fBytesRead) :
                 /\ fBytesRead' = fBytesRead + n
                 /\ fBufferData' = fBufferData \o Web!CString(Web!Chunk(n))
                 /\ \/ /\ server = "web"
                       /\ childPc' = IF Web!EndsWith(fBufferData',
                                                    WebTerminator)
                                     THEN "returned" ELSE "read"
                    \/ /\ server = "daytime"
                       /\ childPc' = IF Daytime!EndsWith(fBufferData', <<>>)
                                     THEN "returned" ELSE "read"
<1>1. CASE server = "web" /\ Web!Read
  BY <1>1 DEF HandleRead, Web!Read, Web!ReadEnds, Web!ReadChunk, Web!EndRound
<1>2. CASE server = "daytime" /\ Daytime!Read
  BY <1>2, SameChunks DEF HandleRead, Daytime!Read, Daytime!ReadEnds,
     Daytime!ReadChunk, Daytime!EndRound
<1> QED
  BY <1>1, <1>2 DEF HandleRead

LEMMA ChildType == TypeOK /\ ChildStep => TypeOK'
<1> SUFFICES ASSUME TypeOK, ChildStep PROVE TypeOK'
  OBVIOUS
<1> USE DEF TypeOK, input, startup, conversation, threads
<1>1. ASSUME NEW pc \in {"read", "close"}, Child(pc), toClient' \in Seq(Ends)
      PROVE  TypeOK'
  BY <1>1 DEF Child, Ends
<1>2. ASSUME NEW pc \in {"failed", "done"}, ChildEnds(pc)
      PROVE  TypeOK'
  BY <1>2, ReleaseType DEF ChildEnds, Ends
<1>3. CASE ChildStarts
  BY <1>1, <1>2, <1>3, ToClientType DEF ChildStarts
<1>4. CASE HandleRead
  <2>1. fBytesRead' \in 0..delivered
    BY <1>4, HandleReadStep, StreamType
  <2>2. fBufferData' \in Seq(Byte)
    BY <1>4, HandleReadStep, ChunkKept
  <2>3. childPc' \in {"read", "returned"}
    BY <1>4, HandleReadStep
  <2>4. UNCHANGED <<input, startup, serverPc, clientPc, link, stream,
                    delivered, eof, holders, toClient, threads>>
    BY <1>4, HandleReadStep
  <2> QED
    BY <2>1, <2>2, <2>3, <2>4
<1>5. CASE WebResponds
  BY <1>1, <1>2, <1>5, ToClientType DEF WebResponds, Ends
<1>6. CASE DaytimeSaysNothing
  BY <1>1, <1>6, ToClientType DEF DaytimeSaysNothing
<1>7. CASE ChildCloses
  BY <1>2, <1>7 DEF ChildCloses
<1> QED
  BY <1>3, <1>4, <1>5, <1>6, <1>7 DEF ChildStep

LEMMA NextType == TypeOK /\ [Next]_vars => TypeOK'
<1> SUFFICES ASSUME TypeOK, [Next]_vars PROVE TypeOK'
  OBVIOUS
<1>1. CASE UNCHANGED vars
  BY <1>1 DEF vars, TypeOK, input, startup, conversation, threads
<1> QED
  BY <1>1, StartsType, RunType, AcceptsType, TwoWayType, SingleType,
     ClientType, KernelType, ChildType DEF Next, Server

(* The programs keep to their own values: no port but one of 16 bits or    *)
(* the kernel's, no count beyond what TCP delivered.                       *)
THEOREM TypeCorrect == Spec => []TypeOK
BY InitType, NextType, PTL DEF Spec
-----------------------------------------------------------------------------
(* The servers' ports.                                                     *)

LEMMA StartsBound ==
  TypeOK /\ BoundAsTold /\ Roles /\ Start => BoundAsTold' /\ Roles'
<1> SUFFICES ASSUME TypeOK, BoundAsTold, Roles, Start
             PROVE  BoundAsTold' /\ Roles'
  OBVIOUS
<1>2. UNCHANGED <<server, told, taken, childPc, readerPc>>
  BY DEF Start, Starts, WebStarts, DaytimeStarts, TwoWayStarts, SingleStarts,
     input, threads
<1> USE StartupAssumption DEF Start, Told, BoundAsTold, Roles, Forking, Socket,
        WrapperSocket, SocketIPv4, WrapperSocketIPv4, BindTo, Bind,
        WrapperBind, Listen, WrapperListen, TwoWayPort, SinglePort
<1>3. CASE WebStarts
  BY <1>2, <1>3 DEF WebStarts, TypeOK
<1>4. CASE DaytimeStarts
  BY <1>2, <1>4 DEF DaytimeStarts, TypeOK
<1>5. CASE TwoWayStarts
  BY <1>2, <1>5 DEF TwoWayStarts, TypeOK
<1>6. CASE SingleStarts
  BY <1>2, <1>6 DEF SingleStarts, TypeOK
<1> QED
  BY <1>3, <1>4, <1>5, <1>6 DEF Starts

LEMMA StepsBound ==
  TypeOK /\ BoundAsTold /\ Roles /\ [Next]_vars => BoundAsTold' /\ Roles'
<1> SUFFICES ASSUME TypeOK, BoundAsTold, Roles, [Next]_vars
             PROVE  BoundAsTold' /\ Roles'
  OBVIOUS
<1>1. CASE Start
  BY <1>1, StartsBound
<1> USE DEF BoundAsTold, Roles, Told, Forking, input, startup, conversation,
        threads
<1>2. CASE Run
  BY <1>2 DEF Run, Accepts
<1>3. CASE TwoWayAccepts
  BY <1>3 DEF TwoWayAccepts, Accepts
<1>4. CASE TwoWayAcceptFails
  BY <1>4 DEF TwoWayAcceptFails
<1>5. CASE SingleAccepts
  BY <1>5 DEF SingleAccepts, Accepts
<1>6. CASE AcceptFails
  BY <1>6 DEF AcceptFails, ExitsAtAccept
<1>7. CASE SingleAcceptFails
  BY <1>7 DEF SingleAcceptFails, ExitsAtAccept
<1>8. CASE SingleReads \/ SingleSends
  BY <1>8 DEF SingleReads, SingleSends
<1>9. CASE ChildStep
  <2>1. childPc # "none"
    BY <1>9 DEF ChildStep, ChildStarts, HandleRead, Web!Read, Daytime!Read,
       Web!ReadEnds, Web!ReadChunk, Daytime!ReadEnds, Daytime!ReadChunk,
       WebResponds, DaytimeSaysNothing, ChildCloses
  <2>2. UNCHANGED <<input, startup, serverPc, threads>>
    BY <1>9 DEF ChildStep, ChildStarts, HandleRead, WebResponds,
       DaytimeSaysNothing, ChildCloses, Child, ChildEnds
  <2> QED
    BY <2>1, <2>2
<1>10. ASSUME TwoWayEnds, server = "twoway" PROVE BoundAsTold' /\ Roles'
  BY <1>10 DEF TwoWayEnds
<1>11. CASE ReaderReads
  BY <1>11 DEF ReaderReads
<1>12. CASE WriterWrites \/ InputEnds \/ TwoWayExits
  BY <1>10, <1>12 DEF WriterWrites, InputEnds, TwoWayExits
<1>13. CASE Client \/ Leaves
  <2>1. UNCHANGED <<server, told, taken, valid, bound, listening, serverPc,
                    childPc, readerPc>>
    BY <1>13 DEF Client, Reach, Connecting, CliConnects,
       DaytimeClientConnects, ClientConnects, BrowserConnects, ConnectsTo,
       Sends, DaytimeReads, ClientReads, BrowserReads, Leaves, ClientGoes
  <2> QED
    BY <2>1
<1>14. CASE Kernel
  BY <1>14 DEF Kernel, Deliver, Web!Deliver, DeliverEnd, Bounce
<1>15. CASE UNCHANGED vars
  BY <1>15 DEF vars
<1> QED
  BY <1>1, <1>2, <1>3, <1>4, <1>5, <1>6, <1>7, <1>8, <1>9, <1>11, <1>12,
     <1>13, <1>14, <1>15 DEF Next, Server

LEMMA InitBound == Init => BoundAsTold /\ Roles
BY DEF Init, StartupInit, BoundAsTold, Roles

LEMMA ServerBound == Spec => [](BoundAsTold /\ Roles)
<1>1. TypeOK /\ (BoundAsTold /\ Roles) /\ [Next]_vars
        => (BoundAsTold /\ Roles)'
  BY StepsBound
<1> QED
  BY <1>1, InitBound, TypeCorrect, PTL DEF Spec

(* A server that waits for clients waits at the port it was told, for      *)
(* every port and whatever of its calls fail, unless the port was taken    *)
(* and it did not look.                                                    *)
THEOREM ListensTold == Spec => []ListensAsTold
<1>1. BoundAsTold /\ Roles => ListensAsTold
  BY DEF BoundAsTold, Roles, ListensAsTold
<1> QED
  BY <1>1, ServerBound, PTL
-----------------------------------------------------------------------------
(* Who has the connection.                                                 *)

LEMMA InitHolding == Init => Holding
BY DEF Init, StartupInit, Holding, Connected

LEMMA StepsHolding ==
  TypeOK /\ Roles /\ Holding /\ [Next]_vars => Holding'
<1> SUFFICES ASSUME TypeOK, Roles, Holding, [Next]_vars
             PROVE  Holding'
  OBVIOUS
<1> USE DEF Holding, Connected, input, startup, conversation, threads
<1>1. CASE Start
  <2>1. UNCHANGED <<server, clientPc, link, childPc, holders, fBytesRead>>
    BY <1>1 DEF Start, Starts, WebStarts, DaytimeStarts, TwoWayStarts,
       SingleStarts
  <2>2. /\ serverPc \in {"create", "bind", "listen"}
        /\ serverPc' \in {"bind", "listen", "accept", "exited"}
    BY <1>1 DEF Start, Starts, WebStarts, DaytimeStarts, TwoWayStarts,
       SingleStarts
  <2> QED
    BY <2>1, <2>2
<1>2. CASE Forking /\ Accepts("fork") /\ UNCHANGED threads
  BY <1>2 DEF Accepts, Forking
<1>3. CASE serverPc = "fork" /\ Run
  BY <1>3 DEF Run, Accepts, TypeOK, Forking, Roles
<1>4. CASE serverPc = "close" /\ Run
  BY <1>4 DEF Run, Accepts, Release, TypeOK, Forking, Roles
<1>5. CASE TwoWayAccepts
  BY <1>5 DEF TwoWayAccepts, Accepts
<1>6. CASE TwoWayAcceptFails
  BY <1>6 DEF TwoWayAcceptFails
<1>7. CASE SingleAccepts
  BY <1>7 DEF SingleAccepts, Accepts
<1>8. CASE AcceptFails \/ SingleAcceptFails
  BY <1>8 DEF AcceptFails, SingleAcceptFails, ExitsAtAccept
<1>9. CASE SingleReads
  BY <1>9 DEF SingleReads
<1>10. CASE SingleSends
  BY <1>10 DEF SingleSends, Roles, Forking
<1>11. CASE HandleRead
  BY <1>11, HandleReadStep
<1>12. CASE ChildStep /\ ~HandleRead
  BY <1>12 DEF ChildStep, ChildStarts, WebResponds, DaytimeSaysNothing,
     ChildCloses, Child, ChildEnds, Release, TypeOK
<1>13. ASSUME TwoWayEnds, serverPc = "join" PROVE Holding'
  BY <1>13 DEF TwoWayEnds, Release
<1>14. CASE ReaderReads
  BY <1>14, StreamType DEF ReaderReads
<1>15. CASE WriterWrites \/ InputEnds \/ TwoWayExits
  BY <1>13, <1>15 DEF WriterWrites, InputEnds, TwoWayExits
<1>16. CASE Reach
  <2>1. clientPc = "connect"
    BY <1>16 DEF Reach, Connecting, CliConnects, DaytimeClientConnects,
       ClientConnects, BrowserConnects
  <2>2. /\ link' \in {"none", "queued"} /\ clientPc' # "connect"
        /\ UNCHANGED <<server, serverPc, childPc, holders, fBytesRead>>
    BY <1>16 DEF Reach, Connecting, CliConnects, DaytimeClientConnects,
       ClientConnects, BrowserConnects, ConnectsTo
  <2> QED
    BY <2>1, <2>2
<1>17. CASE (Client /\ ~Reach) \/ Leaves
  <2>1. /\ UNCHANGED <<server, link, serverPc, childPc, holders, fBytesRead>>
        /\ clientPc' # "connect"
    BY <1>17 DEF Client, Sends, DaytimeReads, ClientReads, BrowserReads,
       Leaves, ClientGoes
  <2> QED
    BY <2>1
<1>18. CASE Kernel
  BY <1>18 DEF Kernel, Deliver, Web!Deliver, DeliverEnd, Bounce
<1>19. CASE UNCHANGED vars
  BY <1>19 DEF vars
<1> QED
  BY <1>1, <1>2, <1>3, <1>4, <1>5, <1>6, <1>7, <1>8, <1>9, <1>10, <1>11,
     <1>12, <1>14, <1>15, <1>16, <1>17, <1>18, <1>19 DEF Next, Server, Run
-----------------------------------------------------------------------------
(* What the client is sent.                                                *)

LEMMA OnlyKept ==
  ASSUME NEW s \in Seq(Ends), NEW S, Only(s, S)
  PROVE  /\ \A e \in Ends \cap S : Only(Append(s, e), S)
         /\ s # <<>> => Only(Tail(s), S)
<1>1. ASSUME NEW e \in Ends \cap S PROVE Only(Append(s, e), S)
  BY AppendProperties, LenProperties DEF Only
<1>2. ASSUME s # <<>> PROVE Only(Tail(s), S)
  BY <1>2, HeadTailProperties, LenProperties DEF Only
<1> QED
  BY <1>1, <1>2

LEMMA OnlyEmpty == \A S : Only(<<>>, S)
BY DEF Only

(* A client's step takes nothing but the first of what it was sent.        *)
LEMMA ClientTakes ==
  ASSUME TypeOK, Client \/ Leaves
  PROVE  /\ \A S : Only(toClient, S) => Only(toClient', S)
         /\ UNCHANGED <<server, stream, eof, childPc, holders, fBytesRead,
                        delivered, fBufferData>>
<1>1. ASSUME NEW S, Only(toClient, S) PROVE Only(toClient', S)
  <2>1. toClient # <<>> => Only(Tail(toClient), S)
    BY <1>1, OnlyKept, ToClientType
  <2>2. \/ toClient' \in {toClient, <<>>}
        \/ toClient # <<>> /\ toClient' = Tail(toClient)
    BY DEF Client, Reach, Sends, DaytimeReads, ClientReads, BrowserReads,
       Leaves, ClientGoes
  <2> QED
    BY <1>1, <2>1, <2>2, OnlyEmpty
<1>2. UNCHANGED <<server, stream, eof, childPc, holders, fBytesRead,
                  delivered, fBufferData>>
  BY DEF Client, Reach, Connecting, CliConnects, DaytimeClientConnects,
     ClientConnects, BrowserConnects, ConnectsTo, Sends, DaytimeReads,
     ClientReads, BrowserReads, Leaves, ClientGoes, input, conversation
<1> QED
  BY <1>1, <1>2

LEMMA InitNotEnded == Init => NotEnded
BY OnlyEmpty DEF Init, NotEnded

LEMMA StepsNotEnded ==
  TypeOK /\ Roles /\ Holding /\ NotEnded /\ [Next]_vars => NotEnded'
<1> SUFFICES ASSUME TypeOK, Roles, Holding, NotEnded, [Next]_vars
             PROVE  NotEnded'
  OBVIOUS
<1>1. Only(toClient, {"answer"}) =>
        Only(Append(toClient, "answer"), {"answer"})
  BY OnlyKept, ToClientType DEF Ends
<1>2. CASE UNCHANGED <<holders, link, toClient>>
  BY <1>2 DEF NotEnded
<1>3. CASE Client \/ Leaves
  <2>1. holders # {} \/ link' \in {"none", "queued"} =>
          holders # {} \/ link \in {"none", "queued"}
    BY <1>3 DEF Client, Reach, Connecting, CliConnects, DaytimeClientConnects,
       ClientConnects, BrowserConnects, ConnectsTo, Sends, DaytimeReads,
       ClientReads, BrowserReads, Leaves, ClientGoes, Holding
  <2> QED
    BY <1>3, <2>1, ClientTakes DEF NotEnded
<1>4. ASSUME NEW h, Release(h), UNCHANGED link PROVE NotEnded'
  BY <1>4 DEF Release, NotEnded, Holding, Connected
<1>5. CASE Run
  <2>1. ASSUME Accepts("fork") PROVE NotEnded'
    BY <2>1 DEF Accepts, NotEnded
  <2>2. CASE serverPc = "fork"
    BY <1>5, <2>2 DEF Run, Accepts, NotEnded, Holding
  <2>3. CASE serverPc = "close"
    BY <1>4, <1>5, <2>3 DEF Run, Accepts
  <2> QED
    BY <1>5, <2>1, <2>2, <2>3 DEF Run
<1>6. CASE TwoWayAccepts \/ SingleAccepts
  BY <1>6 DEF TwoWayAccepts, SingleAccepts, Accepts, NotEnded
<1>7. CASE AcceptFails \/ SingleAcceptFails
  BY <1>7 DEF AcceptFails, SingleAcceptFails, ExitsAtAccept, NotEnded, Holding,
     Connected
<1>8. CASE SingleSends
  BY <1>8 DEF SingleSends, NotEnded, Holding, Connected
<1>9. CASE ChildStep /\ ~HandleRead
  <2>1. ASSUME NEW pc, ChildEnds(pc) PROVE NotEnded'
    BY <1>4, <2>1 DEF ChildEnds
  <2>2. ASSUME childPc = "returned", toClient' = Append(toClient, "answer"),
               UNCHANGED <<holders, link>>
        PROVE  NotEnded'
    BY <1>1, <2>2 DEF NotEnded, Holding
  <2> QED
    BY <1>2, <1>9, <2>1, <2>2 DEF ChildStep, ChildStarts, WebResponds,
       DaytimeSaysNothing, ChildCloses, Child
<1>10. CASE WriterWrites \/ TwoWayExits
  <2>1. ASSUME TwoWayEnds PROVE NotEnded'
    BY <1>4, <2>1 DEF TwoWayEnds
  <2>2. ASSUME toClient' \in {toClient, Append(toClient, "answer")},
               UNCHANGED <<holders, link>>
        PROVE  NotEnded'
    BY <1>1, <2>2 DEF NotEnded
  <2> QED
    BY <1>10, <2>1, <2>2 DEF WriterWrites, TwoWayExits
<1>11. CASE Bounce
  BY <1>11 DEF Bounce, NotEnded, Holding, Connected
<1>12. CASE \/ Start \/ TwoWayAcceptFails \/ SingleReads \/ HandleRead
            \/ ReaderReads \/ InputEnds \/ Deliver \/ DeliverEnd
            \/ UNCHANGED vars
  <2>1. HandleRead => UNCHANGED <<holders, link, toClient>>
    BY DEF HandleRead
  <2>2. Start => UNCHANGED <<holders, link, toClient>>
    BY DEF Start, Starts, WebStarts, DaytimeStarts, TwoWayStarts, SingleStarts
  <2>3. (\/ TwoWayAcceptFails \/ SingleReads \/ ReaderReads \/ InputEnds
         \/ Deliver \/ DeliverEnd \/ UNCHANGED vars)
        => UNCHANGED <<holders, link, toClient>>
    BY DEF TwoWayAcceptFails, SingleReads, ReaderReads, InputEnds, Deliver,
       DeliverEnd, vars
  <2> QED
    BY <1>2, <1>12, <2>1, <2>2, <2>3
<1> QED
  BY <1>3, <1>5, <1>6, <1>7, <1>8, <1>9, <1>10, <1>11, <1>12
     DEF Next, Server, Kernel
-----------------------------------------------------------------------------
(* What a child has read.                                                  *)

LEMMA Terminators ==
  /\ ~Web!EndsWith(<<>>, WebTerminator)
  /\ \A s \in Seq(Byte) : Daytime!EndsWith(s, <<>>)
<1>1. Len(WebTerminator) \in Nat \ {0} /\ Len(<<>>) = 0
  BY SessionAssumption, EmptySeq
<1>2. ASSUME NEW s \in Seq(Byte) PROVE Daytime!EndsWith(s, <<>>)
  <2>1. Len(s) \in Nat
    BY LenProperties
  <2>2. SubSeq(s, Len(s) - Len(<<>>) + 1, Len(s)) = <<>>
    BY <1>1, <2>1, SubSeqEmpty
  <2> QED
    BY <1>1, <2>1, <2>2 DEF Daytime!EndsWith
<1> QED
  BY <1>1, <1>2 DEF Web!EndsWith

(* The first part of a request that ends as the server reads for is all of *)
(* it.                                                                     *)
LEMMA RequestRead ==
  ASSUME TypeOK, OneRequest(stream), NEW k \in 0..Len(stream),
         IF server = "web"
         THEN Web!EndsWith(SubSeq(stream, 1, k), WebTerminator)
         ELSE Daytime!EndsWith(SubSeq(stream, 1, k), <<>>)
  PROVE  k = Len(stream)
<1>1. Len(stream) \in Nat
  BY StreamType
<1>2. CASE server = "web"
  BY <1>1, <1>2 DEF OneRequest, Web!OneRequest
<1>3. CASE server # "web"
  BY <1>1, <1>3 DEF OneRequest, Daytime!OneRequest
<1> QED
  BY <1>2, <1>3

LEMMA RequestIsText == \A s : OneRequest(s) => Web!NulFree(s)
BY DEF OneRequest, Web!OneRequest, Daytime!OneRequest, Web!NulFree,
   Daytime!NulFree

LEMMA InitKept == Init => Kept
<1> SUFFICES ASSUME Init PROVE Kept
  OBVIOUS
<1>1. SubSeq(stream, 1, 0) = <<>>
  BY SubSeqEmpty
<1> QED
  BY <1>1 DEF Init, Kept

LEMMA ReadKept == TypeOK /\ Roles /\ Kept /\ HandleRead => Kept'
<1> SUFFICES ASSUME TypeOK, Roles, Kept, HandleRead PROVE Kept'
  OBVIOUS
<1>1. /\ childPc = "read" /\ Forking
      /\ UNCHANGED <<server, stream, eof, delivered>>
  BY HandleReadStep DEF Roles, input
<1>2. CASE /\ eof # "no" /\ childPc' = "returned"
           /\ UNCHANGED <<fBytesRead, fBufferData>>
  BY <1>1, <1>2 DEF Kept, Forking
<1>3. ASSUME NEW n \in 1..(delivered - fBytesRead),
             fBytesRead' = fBytesRead + n,
             fBufferData' = fBufferData \o Web!CString(Web!Chunk(n)),
             \/ /\ server = "web"
                /\ childPc' = IF Web!EndsWith(fBufferData', WebTerminator)
                              THEN "returned" ELSE "read"
             \/ /\ server = "daytime"
                /\ childPc' = IF Daytime!EndsWith(fBufferData', <<>>)
                              THEN "returned" ELSE "read"
      PROVE  Kept'
  <2>1. fBufferData' \in Seq(Byte)
    BY <1>1, <1>3, ChunkKept
  <2>2. server = "daytime" => childPc' = "returned"
    BY <1>3, <2>1, Terminators
  <2>3. Web!NulFree(stream) => fBufferData' = SubSeq(stream, 1, fBytesRead')
    BY <1>1, <1>3, ChunkKept DEF Kept
  <2>4. fBytesRead' \in 0..Len(stream)
    BY <1>3, StreamType
  <2>5. OneRequest(stream) /\ childPc' = "returned" =>
          fBytesRead' = Len(stream)
    BY <1>3, <2>3, <2>4, RequestRead, RequestIsText
  <2>6. childPc' \in {"read", "returned"}
    BY <1>3
  <2>7. server = "web" /\ childPc' = "read" =>
          ~Web!EndsWith(fBufferData', WebTerminator)
    BY <1>3
  <2> QED
    BY <1>1, <2>2, <2>3, <2>5, <2>6, <2>7 DEF Kept, Forking, OneRequest
<1> QED
  BY <1>2, <1>3, HandleReadStep

LEMMA StepsKept ==
  TypeOK /\ Roles /\ Holding /\ Kept /\ [Next]_vars => Kept'
<1> SUFFICES ASSUME TypeOK, Roles, Holding, Kept, [Next]_vars
             PROVE  Kept'
  OBVIOUS
<1>1. CASE UNCHANGED <<server, stream, eof, childPc, fBytesRead, fBufferData>>
  BY <1>1 DEF Kept, OneRequest, Forking
<1>2. CASE Client \/ Leaves
  BY <1>1, <1>2, ClientTakes
<1>3. CASE HandleRead
  BY <1>3, ReadKept
<1>4. CASE ChildStarts
  BY <1>4, Terminators DEF ChildStarts, Child, ChildEnds, Roles, Kept,
     OneRequest, Forking, input, conversation
<1>5. CASE WebResponds \/ DaytimeSaysNothing \/ ChildCloses
  BY <1>5 DEF WebResponds, DaytimeSaysNothing, ChildCloses, Child, ChildEnds,
     Roles, Kept, OneRequest, Forking, input, conversation
<1>6. CASE Run
  <2>1. CASE Accepts("fork") \/ serverPc = "close"
    BY <1>1, <1>6, <2>1 DEF Run, Accepts, input, conversation
  <2>2. CASE serverPc = "fork"
    <3>1. /\ UNCHANGED <<server, stream, eof, fBytesRead, fBufferData>>
          /\ childPc' \in {childPc, "start"} /\ childPc = "none"
      BY <1>6, <2>2 DEF Run, Accepts, input, conversation, Holding
    <3> QED
      BY <3>1 DEF Kept, OneRequest, Forking
  <2> QED
    BY <1>6, <2>1, <2>2 DEF Run
<1>7. CASE SingleReads \/ ReaderReads
  <2>1. /\ UNCHANGED <<server, childPc>> /\ ~Forking /\ childPc = "none"
    BY <1>7 DEF SingleReads, ReaderReads, Roles, Forking, input
  <2> QED
    BY <2>1 DEF Kept, Forking
<1>8. CASE DeliverEnd
  BY <1>8 DEF DeliverEnd, Kept, Forking, input
<1>9. CASE \/ Start \/ TwoWayAccepts \/ TwoWayAcceptFails \/ SingleAccepts
           \/ SingleAcceptFails \/ AcceptFails \/ SingleSends
           \/ WriterWrites \/ InputEnds \/ TwoWayExits \/ Deliver \/ Bounce
           \/ UNCHANGED vars
  <2>1. Start =>
          UNCHANGED <<server, stream, eof, childPc, fBytesRead, fBufferData>>
    BY DEF Start, Starts, WebStarts, DaytimeStarts, TwoWayStarts, SingleStarts,
       input, conversation
  <2>2. (\/ TwoWayAccepts \/ TwoWayAcceptFails \/ SingleAccepts
         \/ SingleAcceptFails \/ AcceptFails \/ SingleSends) =>
          UNCHANGED <<server, stream, eof, childPc, fBytesRead, fBufferData>>
    BY DEF TwoWayAccepts, TwoWayAcceptFails, SingleAccepts, SingleAcceptFails,
       AcceptFails, SingleSends, Accepts, ExitsAtAccept, input, conversation
  <2>3. (\/ WriterWrites \/ InputEnds \/ TwoWayExits \/ Deliver \/ Bounce
         \/ UNCHANGED vars) =>
          UNCHANGED <<server, stream, eof, childPc, fBytesRead, fBufferData>>
    BY DEF WriterWrites, InputEnds, TwoWayExits, TwoWayEnds, Deliver,
       Web!Deliver, Bounce, vars, input, conversation
  <2> QED
    BY <1>1, <1>9, <2>1, <2>2, <2>3
<1> QED
  BY <1>2, <1>3, <1>4, <1>5, <1>6, <1>7, <1>8, <1>9
     DEF Next, Server, Kernel, ChildStep
-----------------------------------------------------------------------------
(* Resets.                                                                 *)

LEMMA InitNoReset == Init => NoReset
BY DEF Init, NoReset

(* A request that was read leaves nothing behind to make the end a reset.  *)
LEMMA StepsNoReset ==
  /\ TypeOK /\ Roles /\ Holding /\ NotEnded /\ Kept /\ NoReset
  /\ [Next]_vars
  => NoReset'
<1> SUFFICES ASSUME TypeOK, Roles, Holding, NotEnded, Kept, NoReset,
                    [Next]_vars
             PROVE  NoReset'
  OBVIOUS
<1> DEFINE Quiet == {"answer", "fin"}
<1>1. \A e \in Quiet :
        Only(toClient, Quiet) => Only(Append(toClient, e), Quiet)
  BY OnlyKept, ToClientType DEF Ends
<1>2. Only(toClient, {"answer"}) => Only(toClient, Quiet)
  BY DEF Only
<1> HIDE DEF Quiet
<1>3. NoReset <=> (childPc \notin {"none", "failed"} /\ OneRequest(stream)
                     /\ eof = "no" => Only(toClient, Quiet))
  BY DEF NoReset, Quiet
<1>4. NoReset' <=> (childPc' \notin {"none", "failed"} /\ OneRequest(stream)'
                      /\ eof' = "no" => Only(toClient', Quiet))
  BY DEF NoReset, Quiet
<1>5. UNCHANGED <<server, stream>> =>
        (OneRequest(stream)' <=> OneRequest(stream))
  BY DEF OneRequest
<1>6. CASE UNCHANGED <<server, stream, eof, childPc, toClient>>
  BY <1>3, <1>4, <1>5, <1>6
<1>7. CASE Client \/ Leaves
  BY <1>3, <1>4, <1>5, <1>7, ClientTakes
<1>8. ASSUME childPc' \in {"none", "failed"} PROVE NoReset'
  BY <1>4, <1>8
<1>9. ASSUME Release("server"), UNCHANGED <<server, stream, eof, childPc>>
      PROVE  NoReset'
  <2> SUFFICES ASSUME childPc \notin {"none", "failed"}, OneRequest(stream),
                      eof = "no"
               PROVE  Only(toClient', Quiet)
    BY <1>4, <1>5, <1>9
  <2>1. Only(toClient, Quiet) /\ "fin" \in Quiet
    BY <1>3 DEF Quiet
  <2>2. ASSUME holders = {"server"} PROVE fBytesRead >= delivered
    <3>1. childPc = "done"
      BY <2>2 DEF Holding, TypeOK
    <3> QED
      BY <3>1, StreamType DEF Kept
  <2>3. toClient' \in {toClient, Append(toClient, "fin")}
    BY <1>9, <2>2, StreamType DEF Release
  <2> QED
    BY <1>1, <2>1, <2>3
<1>10. ASSUME ChildEnds("done"), childPc \in {"returned", "close"}
       PROVE  NoReset'
  <2> SUFFICES ASSUME OneRequest(stream), eof = "no"
               PROVE  Only(toClient', Quiet)
    BY <1>4, <1>5, <1>10 DEF ChildEnds, input, conversation
  <2>1. Only(toClient, Quiet) /\ "fin" \in Quiet
    BY <1>3, <1>10 DEF Quiet
  <2>2. fBytesRead >= delivered
    BY <1>10, StreamType DEF Kept
  <2>3. toClient' \in {toClient, Append(toClient, "fin")}
    BY <1>10, <2>2, StreamType DEF ChildEnds, Release
  <2> QED
    BY <1>1, <2>1, <2>3
<1>11. CASE Run
  <2>1. CASE Accepts("fork")
    BY <1>6, <2>1 DEF Accepts, input, conversation
  <2>2. CASE serverPc = "fork"
    <3>1. Only(toClient', Quiet)
      BY <1>2, <1>11, <2>2 DEF Run, Accepts, Holding, NotEnded
    <3> QED
      BY <1>4, <3>1
  <2>3. CASE serverPc = "close"
    BY <1>9, <1>11, <2>3 DEF Run, Accepts, input, conversation
  <2> QED
    BY <1>11, <2>1, <2>2, <2>3 DEF Run
<1>12. CASE AcceptFails \/ SingleAcceptFails
  <2>1. CASE link = "queued"
    BY <1>8, <1>12, <2>1 DEF AcceptFails, SingleAcceptFails, ExitsAtAccept,
       Holding, Connected
  <2>2. CASE link # "queued"
    BY <1>6, <1>12, <2>2 DEF AcceptFails, SingleAcceptFails, ExitsAtAccept,
       input, conversation
  <2> QED
    BY <2>1, <2>2
<1>13. CASE SingleSends \/ WriterWrites \/ TwoWayExits
  <2>1. childPc = "none"
    BY <1>13 DEF SingleSends, WriterWrites, TwoWayExits, Roles, Forking
  <2>2. UNCHANGED childPc
    BY <1>13 DEF SingleSends, WriterWrites, TwoWayExits, TwoWayEnds
  <2> QED
    BY <1>8, <2>1, <2>2
<1>14. CASE HandleRead
  <2>1. /\ childPc \notin {"none", "failed"}
        /\ UNCHANGED <<server, stream, eof, toClient>>
    BY <1>14, HandleReadStep DEF input
  <2> QED
    BY <1>3, <1>4, <1>5, <2>1
<1>15. CASE ChildStarts
  <2>1. CASE Child("read") /\ UNCHANGED toClient
    BY <1>3, <1>4, <1>5, <1>15, <2>1 DEF ChildStarts, Child, input,
       conversation
  <2>2. CASE ChildEnds("failed")
    BY <1>8, <2>2 DEF ChildEnds
  <2> QED
    BY <1>15, <2>1, <2>2 DEF ChildStarts
<1>16. CASE WebResponds \/ DaytimeSaysNothing \/ ChildCloses
  <2>1. ASSUME Child("close"), childPc = "returned",
               toClient' \in {toClient, Append(toClient, "answer")}
        PROVE  NoReset'
    <3>1. "answer" \in Quiet
      BY DEF Quiet
    <3> QED
      BY <1>1, <1>3, <1>4, <1>5, <2>1, <3>1 DEF Child, input, conversation
  <2> QED
    BY <1>10, <1>16, <2>1 DEF WebResponds, DaytimeSaysNothing, ChildCloses
<1>17. CASE Bounce
  <2>1. childPc \in {"none", "failed"} \/ ~OneRequest(stream) \/ eof # "no"
    BY <1>17, StreamType DEF Bounce, Holding, Kept, Connected, TypeOK
  <2> QED
    BY <1>4, <1>5, <1>17, <2>1 DEF Bounce, input, conversation
<1>18. CASE DeliverEnd
  BY <1>4, <1>18 DEF DeliverEnd
<1>19. CASE \/ Start \/ TwoWayAccepts \/ TwoWayAcceptFails \/ SingleAccepts
            \/ SingleReads \/ ReaderReads \/ InputEnds \/ Deliver
            \/ UNCHANGED vars
  <2>1. Start => UNCHANGED <<server, stream, eof, childPc, toClient>>
    BY DEF Start, Starts, WebStarts, DaytimeStarts, TwoWayStarts, SingleStarts,
       input, conversation
  <2>2. (\/ TwoWayAccepts \/ TwoWayAcceptFails \/ SingleAccepts
         \/ SingleReads \/ ReaderReads) =>
          UNCHANGED <<server, stream, eof, childPc, toClient>>
    BY DEF TwoWayAccepts, TwoWayAcceptFails, SingleAccepts, SingleReads,
       ReaderReads, Accepts, input, conversation
  <2>3. (InputEnds \/ Deliver \/ UNCHANGED vars) =>
          UNCHANGED <<server, stream, eof, childPc, toClient>>
    BY DEF InputEnds, Deliver, Web!Deliver, vars, input, conversation
  <2> QED
    BY <1>6, <1>19, <2>1, <2>2, <2>3
<1> QED
  BY <1>7, <1>11, <1>12, <1>13, <1>14, <1>15, <1>16, <1>17, <1>18, <1>19
     DEF Next, Server, Kernel, ChildStep
-----------------------------------------------------------------------------
LEMMA Invariant == Spec => []IInv
<1>1. Init => Holding /\ NotEnded /\ Kept /\ NoReset
  BY InitHolding, InitNotEnded, InitKept, InitNoReset
<1>2. /\ TypeOK /\ (BoundAsTold /\ Roles)
      /\ (Holding /\ NotEnded /\ Kept /\ NoReset) /\ [Next]_vars
      => (Holding /\ NotEnded /\ Kept /\ NoReset)'
  BY StepsHolding, StepsNotEnded, StepsKept, StepsNoReset
<1>3. /\ TypeOK /\ (BoundAsTold /\ Roles)
      /\ (Holding /\ NotEnded /\ Kept /\ NoReset)
      => IInv
  BY DEF IInv
<1> QED
  BY <1>1, <1>2, <1>3, TypeCorrect, ServerBound, PTL DEF Spec

(* A request that a child reads is answered, or not, and the connection    *)
(* ended without a reset, though close comes with no further read.         *)
THEOREM CleanlyEnded == Spec => []CleanEnd
<1>1. NoReset => CleanEnd
  BY DEF NoReset, CleanEnd, Only
<1>2. IInv => NoReset
  BY DEF IInv
<1> QED
  BY <1>1, <1>2, Invariant, PTL

(* The client is never sent an answer after an end: what has it read as an *)
(* end, whichever process or thread brings it about, is the last thing.    *)
AnswersFirst ==
  \A i, j \in 1..Len(toClient) :
    i < j /\ toClient[j] = "answer" => toClient[i] = "answer"

Ordered(s) ==
  \A i, j \in 1..Len(s) : i < j /\ s[j] = "answer" => s[i] = "answer"

LEMMA OrderKept ==
  ASSUME NEW s \in Seq(Ends)
  PROVE  /\ Ordered(s) => \A e \in Ends \ {"answer"} : Ordered(Append(s, e))
         /\ Only(s, {"answer"}) => \A e \in Ends : Ordered(Append(s, e))
         /\ Ordered(s) /\ s # <<>> => Ordered(Tail(s))
         /\ Ordered(<<>>) /\ \A e \in Ends : Ordered(<<e>>)
<1>1. ASSUME NEW e \in Ends PROVE
        /\ Len(Append(s, e)) = Len(s) + 1 /\ Len(s) \in Nat
        /\ \A k \in 1..Len(s) : Append(s, e)[k] = s[k]
        /\ Append(s, e)[Len(s) + 1] = e
  BY AppendProperties, LenProperties
<1>2. ASSUME Ordered(s), NEW e \in Ends \ {"answer"}
      PROVE  Ordered(Append(s, e))
  BY <1>1, <1>2 DEF Ordered
<1>3. ASSUME Only(s, {"answer"}), NEW e \in Ends
      PROVE  Ordered(Append(s, e))
  BY <1>1, <1>3 DEF Ordered, Only
<1>4. ASSUME Ordered(s), s # <<>> PROVE Ordered(Tail(s))
  <2>1. /\ Len(s) \in Nat /\ Len(Tail(s)) = Len(s) - 1
        /\ \A k \in 1..Len(Tail(s)) : Tail(s)[k] = s[k + 1]
    BY <1>4, HeadTailProperties, LenProperties
  <2> QED
    BY <1>4, <2>1 DEF Ordered
<1>5. Ordered(<<>>) /\ \A e \in Ends : Ordered(<<e>>)
  BY DEF Ordered
<1> QED
  BY <1>2, <1>3, <1>4, <1>5

\* What a step of anybody does to it.
Said ==
  \/ toClient' \in {toClient, <<>>}
  \/ toClient # <<>> /\ toClient' = Tail(toClient)
  \/ \E e \in {"fin", "rst"} : toClient' \in {<<e>>, Append(toClient, e)}
  \/ /\ Only(toClient, {"answer"})
     /\ \/ toClient' = Append(toClient, "answer")
        \/ \E e \in {"fin", "rst"} :
             toClient' = Append(Append(toClient, "answer"), e)

LEMMA Says ==
  TypeOK /\ Roles /\ Holding /\ NotEnded /\ [Next]_vars => Said
<1> SUFFICES ASSUME TypeOK, Roles, Holding, NotEnded, [Next]_vars
             PROVE  Said
  OBVIOUS
<1>1. ASSUME NEW h, Release(h) PROVE Said
  BY <1>1 DEF Release, Said
<1>2. ASSUME holders # {}, toClient' = Append(toClient, "answer") PROVE Said
  BY <1>2 DEF Said, NotEnded
<1>3. UNCHANGED toClient => Said
  BY DEF Said
<1>4. CASE Client \/ Leaves
  BY <1>4 DEF Client, Reach, Sends, DaytimeReads, ClientReads, BrowserReads,
     Leaves, ClientGoes, Said
<1>5. CASE Run \/ TwoWayAccepts \/ SingleAccepts
  BY <1>1, <1>3, <1>5 DEF Run, TwoWayAccepts, SingleAccepts, Accepts
<1>6. CASE AcceptFails \/ SingleAcceptFails
  BY <1>6 DEF AcceptFails, SingleAcceptFails, ExitsAtAccept, Said
<1>7. CASE SingleSends
  <2>1. Only(toClient, {"answer"})
    BY <1>7 DEF SingleSends, NotEnded, Holding
  <2> QED
    BY <1>7, <2>1 DEF SingleSends, Said
<1>8. CASE ChildStep /\ ~HandleRead
  <2>1. childPc = "returned" => holders # {}
    BY DEF Holding
  <2> QED
    BY <1>1, <1>2, <1>3, <1>8, <2>1 DEF ChildStep, ChildStarts, WebResponds,
       DaytimeSaysNothing, ChildCloses, ChildEnds
<1>9. CASE WriterWrites \/ TwoWayExits
  <2>1. serverPc = "join" /\ Connected => holders # {}
    BY DEF Holding
  <2> QED
    BY <1>1, <1>2, <1>3, <1>9, <2>1 DEF WriterWrites, TwoWayExits, TwoWayEnds
<1>10. CASE Bounce
  BY <1>10 DEF Bounce, Said
<1>11. CASE \/ Start \/ TwoWayAcceptFails \/ SingleReads \/ HandleRead
            \/ ReaderReads \/ InputEnds \/ Deliver \/ DeliverEnd
            \/ UNCHANGED vars
  BY <1>3, <1>11 DEF Start, TwoWayAcceptFails, SingleReads, HandleRead,
     ReaderReads, InputEnds, Deliver, DeliverEnd, vars
<1> QED
  BY <1>4, <1>5, <1>6, <1>7, <1>8, <1>9, <1>10, <1>11
     DEF Next, Server, Kernel

(* Nobody answers into a connection that has been ended.                   *)
THEOREM AnswersComeFirst == Spec => []AnswersFirst
<1>1. AnswersFirst <=> Ordered(toClient)
  BY DEF AnswersFirst, Ordered
<1>2. Init => Ordered(toClient)
  BY DEF Init, Ordered
<1>3. TypeOK /\ Ordered(toClient) /\ Said => Ordered(toClient')
  <2> SUFFICES ASSUME TypeOK, Ordered(toClient), Said
               PROVE  Ordered(toClient')
    OBVIOUS
  <2>1. /\ toClient \in Seq(Ends)
        /\ \A e \in Ends : Append(toClient, e) \in Seq(Ends)
    BY ToClientType
  <2>2. CASE Only(toClient, {"answer"})
    <3>1. Only(Append(toClient, "answer"), {"answer"})
      BY <2>1, <2>2, OnlyKept DEF Ends
    <3>2. \A e \in Ends : Ordered(Append(Append(toClient, "answer"), e))
      BY <2>1, <3>1, OrderKept DEF Ends
    <3>3. Ordered(Append(toClient, "answer"))
      BY <2>1, <2>2, OrderKept DEF Ends
    <3> QED
      BY <2>1, <3>2, <3>3, OrderKept DEF Said, Ends
  <2>3. CASE ~Only(toClient, {"answer"})
    BY <2>1, <2>3, OrderKept DEF Said, Ends
  <2> QED
    BY <2>2, <2>3
<1>4. IInv /\ AnswersFirst /\ [Next]_vars => AnswersFirst'
  <2> SUFFICES ASSUME IInv, AnswersFirst, [Next]_vars PROVE AnswersFirst'
    OBVIOUS
  <2>1. Ordered(toClient')
    BY <1>1, <1>3, Says DEF IInv
  <2> QED
    BY <2>1 DEF AnswersFirst, Ordered
<1>5. Init => AnswersFirst
  BY <1>1, <1>2
<1> QED
  BY <1>4, <1>5, Invariant, PTL DEF Spec

(* Server and client never wait for each other unless the client stopped   *)
(* short of what that server reads for.                                    *)
THEOREM WaitsForMore == Spec => []WaitsOnlyForMore
<1>1. IInv => WaitsOnlyForMore
  <2> SUFFICES ASSUME IInv, ServerWaits, server # "twoway",
                      Web!NulFree(stream)
               PROVE  IF server = "web"
                      THEN ~Web!EndsWith(stream, WebTerminator)
                      ELSE stream = <<>>
    BY DEF WaitsOnlyForMore
  <2>1. stream \in Seq(Byte) /\ (Len(stream) = 0 => stream = <<>>)
    BY StreamType, EmptySeq DEF IInv
  <2>2. fBytesRead = Len(stream)
    BY DEF ServerWaits
  <2>3. CASE childPc = "read" /\ server = "web"
    <3>1. fBufferData = stream
      BY <2>1, <2>2, <2>3, SubSeqFull DEF IInv, Kept, Forking
    <3> QED
      BY <2>3, <3>1 DEF IInv, Kept
  <2>4. CASE childPc = "read" /\ server = "daytime"
    BY <2>1, <2>2, <2>4 DEF IInv, Kept
  <2>5. CASE serverPc = "read"
    BY <2>1, <2>2, <2>5 DEF IInv, Holding, Roles
  <2>6. /\ childPc = "read" => server \in {"web", "daytime"}
        /\ readerPc # "read"
    BY DEF IInv, Roles, Forking
  <2> QED
    BY <2>3, <2>4, <2>5, <2>6 DEF ServerWaits
<1> QED
  BY <1>1, Invariant, PTL
-----------------------------------------------------------------------------
(* Sessions implements HandleRead.                                         *)

(* The instances of HandleRead differ in the name of their pc alone.       *)
LEMMA SameRequests ==
  /\ \A n : WebRequest!Chunk(n) = Web!Chunk(n)
  /\ \A n : DaytimeRequest!Chunk(n) = Web!Chunk(n)
  /\ \A s : WebRequest!CString(s) = Web!CString(s)
  /\ \A s : DaytimeRequest!CString(s) = Web!CString(s)
  /\ \A s, t : WebRequest!EndsWith(s, t) <=> Web!EndsWith(s, t)
  /\ \A s, t : DaytimeRequest!EndsWith(s, t) <=> Daytime!EndsWith(s, t)
<1>1. /\ \A n : WebRequest!Chunk(n) = Web!Chunk(n)
      /\ \A n : DaytimeRequest!Chunk(n) = Web!Chunk(n)
  BY DEF WebRequest!Chunk, DaytimeRequest!Chunk, Web!Chunk
<1>2. \A s : WebRequest!CString(s) = Web!CString(s)
  BY Zenon DEF WebRequest!CString, Web!CString, WebRequest!CStringLength,
     Web!CStringLength, WebRequest!Cardinality, Web!Cardinality
<1>3. \A s : DaytimeRequest!CString(s) = Web!CString(s)
  BY Zenon DEF DaytimeRequest!CString, Web!CString,
     DaytimeRequest!CStringLength, Web!CStringLength,
     DaytimeRequest!Cardinality, Web!Cardinality
<1>4. /\ \A s, t : WebRequest!EndsWith(s, t) <=> Web!EndsWith(s, t)
      /\ \A s, t : DaytimeRequest!EndsWith(s, t) <=> Daytime!EndsWith(s, t)
  BY DEF WebRequest!EndsWith, DaytimeRequest!EndsWith, Web!EndsWith,
     Daytime!EndsWith
<1> QED
  BY <1>1, <1>2, <1>3, <1>4

LEMMA InitReads ==
  Init => WebRequest!Init /\ DaytimeRequest!Init
<1> SUFFICES ASSUME Init PROVE WebRequest!Init /\ DaytimeRequest!Init
  OBVIOUS
<1>1. stream \in Streams
  <2>1. stream \in BrowserStreams \/ stream = Hello \/ stream = <<>>
    BY DEF Init
  <2> QED
    BY <2>1 DEF Streams
<1> QED
  BY <1>1 DEF Init, WebRequest!Init, DaytimeRequest!Init, Reading

(* A step of one server's HandleRead is one of the abstract one.           *)
LEMMA ReadReads ==
  ASSUME TypeOK, HandleRead
  PROVE  /\ server = "web" => WebRequest!Read
         /\ server = "daytime" => DaytimeRequest!Read
<1>1. /\ childPc = "read" /\ UNCHANGED <<stream, delivered, eof>>
      /\ Reading = "read"
  BY HandleReadStep DEF Reading
<1>2. CASE /\ fBytesRead = delivered /\ eof # "no"
           /\ childPc' = "returned"
           /\ UNCHANGED <<fBytesRead, fBufferData>>
  BY <1>1, <1>2 DEF WebRequest!Read, WebRequest!ReadEnds,
     DaytimeRequest!Read, DaytimeRequest!ReadEnds, Reading
<1>3. CASE server = "web" /\ \E n \in 1..(delivered - fBytesRead) :
                              Web!ReadChunk(n)
  <2>1. PICK n \in 1..(delivered - fBytesRead) : Web!ReadChunk(n)
    BY <1>3
  <2> DEFINE data == fBufferData \o WebRequest!CString(WebRequest!Chunk(n))
  <2>2. data = fBufferData \o Web!CString(Web!Chunk(n))
    BY SameRequests
  <2>3. /\ n <= BUFSIZE + 1
        /\ fBufferData' = data
        /\ fBytesRead' = fBytesRead + n
        /\ childPc' = IF Web!EndsWith(data, WebTerminator)
                      THEN "returned" ELSE "read"
    BY <2>1, <2>2 DEF Web!ReadChunk, Web!EndRound
  <2>4. Reading' = IF WebRequest!EndsWith(data, WebTerminator)
                   THEN "returned" ELSE "read"
    BY <2>3, SameRequests DEF Reading
  <2>5. WebRequest!EndRound(data, n, WebRequest!EndsWith(data, WebTerminator))
    BY <1>1, <2>3, <2>4 DEF WebRequest!EndRound
  <2>6. WebRequest!ReadChunk(n)
    BY <1>1, <2>3, <2>5 DEF WebRequest!ReadChunk
  <2> QED
    BY <1>3, <2>6 DEF WebRequest!Read
<1>4. CASE server = "daytime" /\ \E n \in 1..(delivered - fBytesRead) :
                              Daytime!ReadChunk(n)
  <2>1. PICK n \in 1..(delivered - fBytesRead) : Daytime!ReadChunk(n)
    BY <1>4
  <2> DEFINE data == fBufferData \o DaytimeRequest!CString(DaytimeRequest!Chunk(n))
  <2>2. data = fBufferData \o Daytime!CString(Daytime!Chunk(n))
    BY SameRequests, SameChunks
  <2>3. /\ n <= BUFSIZE + 1
        /\ fBufferData' = data
        /\ fBytesRead' = fBytesRead + n
        /\ childPc' = IF Daytime!EndsWith(data, <<>>)
                      THEN "returned" ELSE "read"
    BY <2>1, <2>2 DEF Daytime!ReadChunk, Daytime!EndRound
  <2>4. Reading' = IF DaytimeRequest!EndsWith(data, <<>>)
                   THEN "returned" ELSE "read"
    BY <2>3, SameRequests DEF Reading
  <2>5. DaytimeRequest!EndRound(data, n, DaytimeRequest!EndsWith(data, <<>>))
    BY <1>1, <2>3, <2>4 DEF DaytimeRequest!EndRound
  <2>6. DaytimeRequest!ReadChunk(n)
    BY <1>1, <2>3, <2>5 DEF DaytimeRequest!ReadChunk
  <2> QED
    BY <1>4, <2>6 DEF DaytimeRequest!Read
<1> QED
  <2>1. \/ server = "web" /\ Web!Read
        \/ server = "daytime" /\ Daytime!Read
    BY DEF HandleRead
  <2>2. CASE server = "web" /\ Web!ReadEnds
    BY <1>2, <2>2 DEF Web!ReadEnds
  <2>3. CASE server = "daytime" /\ Daytime!ReadEnds
    BY <1>2, <2>3 DEF Daytime!ReadEnds
  <2> QED
    BY <1>3, <1>4, <2>1, <2>2, <2>3 DEF Web!Read, Daytime!Read

LEMMA StepReads ==
  TypeOK /\ Roles /\ Holding /\ [Next]_vars =>
    /\ server = "web" => [WebRequest!Next]_(WebRequest!vars)
    /\ server = "daytime" => [DaytimeRequest!Next]_(DaytimeRequest!vars)
<1> SUFFICES ASSUME TypeOK, Roles, Holding, [Next]_vars, Forking
             PROVE  /\ server = "web" => [WebRequest!Next]_(WebRequest!vars)
                    /\ server = "daytime" =>
                         [DaytimeRequest!Next]_(DaytimeRequest!vars)
  BY DEF Forking
<1> DEFINE Same == /\ UNCHANGED conversation
                   /\ Reading' = Reading
<1>1. CASE Same
  BY <1>1 DEF conversation, WebRequest!vars, DaytimeRequest!vars
<1>2. UNCHANGED <<conversation, childPc>> => Same
  BY DEF Reading
<1> HIDE DEF Same
<1>3. CASE Client \/ Leaves
  <2>1. UNCHANGED <<conversation, childPc>>
    BY <1>3 DEF Client, Reach, Connecting, CliConnects, DaytimeClientConnects,
       ClientConnects, BrowserConnects, ConnectsTo, Sends, DaytimeReads,
       ClientReads, BrowserReads, Leaves, ClientGoes
  <2> QED
    BY <1>1, <1>2, <2>1
<1>4. CASE HandleRead
  BY <1>4, ReadReads DEF WebRequest!Next, DaytimeRequest!Next
<1>5. CASE ChildStarts \/ WebResponds \/ DaytimeSaysNothing \/ ChildCloses
  <2>1. UNCHANGED conversation /\ Reading' = Reading
    BY <1>5 DEF ChildStarts, WebResponds, DaytimeSaysNothing, ChildCloses,
       Child, ChildEnds, Reading
  <2> QED
    BY <1>1, <2>1 DEF Same
<1>6. CASE Run
  <2>1. UNCHANGED conversation
    BY <1>6 DEF Run, Accepts
  <2>2. Reading' = Reading
    BY <1>6 DEF Run, Accepts, Holding, Reading
  <2> QED
    BY <1>1, <2>1, <2>2 DEF Same
<1>7. CASE Deliver
  <2>1. PICK n \in 1..(Len(stream) - delivered) : Web!Deliver(n)
    BY <1>7 DEF Deliver
  <2>2. WebRequest!Deliver(n) /\ DaytimeRequest!Deliver(n)
    BY <2>1 DEF Web!Deliver, WebRequest!Deliver, DaytimeRequest!Deliver,
       Reading
  <2> QED
    BY <2>1, <2>2 DEF WebRequest!Next, DaytimeRequest!Next
<1>8. CASE DeliverEnd
  <2>1. WebRequest!EndStream /\ DaytimeRequest!EndStream
    BY <1>8 DEF DeliverEnd, WebRequest!EndStream, DaytimeRequest!EndStream,
       Reading
  <2> QED
    BY <2>1 DEF WebRequest!Next, DaytimeRequest!Next
<1>9. CASE Start \/ AcceptFails \/ Bounce \/ UNCHANGED vars
  <2>1. UNCHANGED <<conversation, childPc>>
    BY <1>9 DEF Start, AcceptFails, ExitsAtAccept, Bounce, vars
  <2> QED
    BY <1>1, <1>2, <2>1
<1>10. ~(\/ TwoWayAccepts \/ TwoWayExits \/ SingleAccepts \/ SingleReads
         \/ SingleSends \/ TwoWayAcceptFails \/ SingleAcceptFails
         \/ ReaderReads \/ WriterWrites \/ InputEnds)
  BY DEF Forking, Roles, TwoWayAccepts, TwoWayExits, SingleAccepts,
     SingleReads, SingleSends, TwoWayAcceptFails, SingleAcceptFails,
     ReaderReads, WriterWrites, InputEnds
<1> QED
  BY <1>3, <1>4, <1>5, <1>6, <1>7, <1>8, <1>9, <1>10
     DEF Next, Server, Kernel, ChildStep

(* What a child of either library's server does with its connection is     *)
(* what module HandleRead describes, in the middle of everything else.     *)
THEOREM ReadsAsHandleRead == Spec => ImplementsHandleRead
<1>1. Init => /\ server = "web" => WebRequest!Init
              /\ server = "daytime" => DaytimeRequest!Init
  BY InitReads
<1>2. IInv /\ [Next]_vars =>
        [/\ server = "web" => [WebRequest!Next]_(WebRequest!vars)
         /\ server = "daytime" => [DaytimeRequest!Next]_(DaytimeRequest!vars)
        ]_vars
  BY StepReads DEF IInv
<1> QED
  BY <1>1, <1>2, Invariant, PTL DEF Spec, ImplementsHandleRead

(* Nobody becomes another server, or speaks to another client.             *)
LEMMA SameInput == [Next]_vars => UNCHANGED input
<1> SUFFICES ASSUME [Next]_vars PROVE UNCHANGED input
  OBVIOUS
<1>1. CASE Client \/ Leaves
  BY <1>1 DEF Client, Reach, Connecting, CliConnects, DaytimeClientConnects,
     ClientConnects, BrowserConnects, ConnectsTo, Sends, DaytimeReads,
     ClientReads, BrowserReads, Leaves, ClientGoes
<1>2. CASE Start
  BY <1>2 DEF Start, Starts, WebStarts, DaytimeStarts, TwoWayStarts,
     SingleStarts
<1>3. CASE Run \/ TwoWayAccepts \/ SingleAccepts
  BY <1>3 DEF Run, TwoWayAccepts, SingleAccepts, Accepts
<1>4. CASE AcceptFails \/ TwoWayAcceptFails \/ SingleAcceptFails
  BY <1>4 DEF AcceptFails, TwoWayAcceptFails, SingleAcceptFails, ExitsAtAccept
<1>5. CASE SingleReads \/ SingleSends
  BY <1>5 DEF SingleReads, SingleSends
<1>6. CASE ChildStep
  BY <1>6 DEF ChildStep, ChildStarts, HandleRead, WebResponds,
     DaytimeSaysNothing, ChildCloses, Child, ChildEnds
<1>7. CASE ReaderReads \/ WriterWrites \/ InputEnds \/ TwoWayExits
  BY <1>7 DEF ReaderReads, WriterWrites, InputEnds, TwoWayExits, TwoWayEnds
<1>8. CASE Kernel \/ UNCHANGED vars
  BY <1>8 DEF Kernel, Deliver, DeliverEnd, Bounce, vars
<1> QED
  BY <1>1, <1>2, <1>3, <1>4, <1>5, <1>6, <1>7, <1>8 DEF Next, Server

(* So every theorem of HandleRead holds of a child of either server.       *)
THEOREM ReadsAsSpecified ==
  /\ Spec /\ server = "web" => WebRequest!Spec
  /\ Spec /\ server = "daytime" => DaytimeRequest!Spec
<1>1. /\ server = "web" /\ [Next]_vars => (server = "web")'
      /\ server = "daytime" /\ [Next]_vars => (server = "daytime")'
  BY SameInput DEF input
<1>2. UNCHANGED vars => UNCHANGED WebRequest!vars
  BY DEF vars, WebRequest!vars, Reading, conversation
<1>3. UNCHANGED vars => UNCHANGED DaytimeRequest!vars
  BY DEF vars, DaytimeRequest!vars, Reading, conversation
<1> QED
  BY <1>1, <1>2, <1>3, ReadsAsHandleRead, PTL
     DEF Spec, ImplementsHandleRead, WebRequest!Spec, DaytimeRequest!Spec
-----------------------------------------------------------------------------
(* Why a session comes to rest.                                            *)

\* How many labels there may be before the end of the server's process (its
\* accept is one label before the connection and another after it) ...
ServerLeft ==
  CASE serverPc = "create" -> 8  [] serverPc = "bind" -> 7
    [] serverPc = "listen" -> 6
    [] serverPc = "accept" -> IF link \in {"none", "queued"} THEN 5 ELSE 2
    [] serverPc \in {"fork", "read"} -> 4
    [] serverPc \in {"close", "send"} -> 3
    [] serverPc = "join" -> 1
    [] OTHER -> 0

\* ... of its child ...
ChildLeft ==
  CASE childPc = "none" -> 5    [] childPc = "start" -> 4
    [] childPc = "read" -> 3    [] childPc = "returned" -> 2
    [] childPc = "close" -> 1   [] OTHER -> 0

\* ... of the threads of TcpServer ...
ReaderLeft ==
  CASE readerPc = "none" -> 3   [] readerPc = "read" -> 2
    [] readerPc = "erred" -> 1  [] OTHER -> 0

WriterLeft ==
  CASE writerPc = "none" -> 2   [] writerPc = "getline" -> 1  [] OTHER -> 0

\* ... and of the client, whose end reaches the server once.
ClientLeft ==
  CASE clientPc = "connect" -> 4  [] clientPc = "send" -> 3
    [] clientPc = "read" -> 2     [] clientPc = "spin" -> 1
    [] OTHER -> 0

EndLeft == IF eof = "no" THEN 1 ELSE 0

NothingAgain ==
  /\ ServerLeft' <= ServerLeft /\ ChildLeft' <= ChildLeft
  /\ ReaderLeft' <= ReaderLeft /\ WriterLeft' <= WriterLeft
  /\ ClientLeft' <= ClientLeft /\ EndLeft' <= EndLeft
  /\ delivered <= delivered' /\ fBytesRead <= fBytesRead' /\ lines' <= lines

Less ==
  \/ ServerLeft' < ServerLeft \/ ChildLeft' < ChildLeft
  \/ ReaderLeft' < ReaderLeft \/ WriterLeft' < WriterLeft
  \/ ClientLeft' < ClientLeft \/ EndLeft' < EndLeft
  \/ delivered < delivered' \/ fBytesRead < fBytesRead' \/ lines' < lines

\* The client reads an answer.
TakesAnswer ==
  /\ toClient # <<>> /\ Head(toClient) = "answer"
  /\ toClient' = Tail(toClient)

\* The client's bytes find nobody and it is sent a reset, its first.
GetsReset ==
  /\ \A k \in 1..Len(toClient) : toClient[k] # "rst"
  /\ toClient' \in {Append(toClient, "rst"), <<"rst">>}

\* Every step takes something forward that no step takes back, or is the
\* client reading one of the answers on their way to it, or its first reset.
Onward == NothingAgain /\ (Less \/ TakesAnswer \/ GetsReset)

\* TcpServer starts its threads after its accept.
ThreadsLater ==
  serverPc \notin {"join", "exited"} => readerPc = "none" /\ writerPc = "none"

LEMMA InitLater == Init => ThreadsLater
BY DEF Init, ThreadsLater

LEMMA StepsLater == ThreadsLater /\ [Next]_vars => ThreadsLater'
<1> SUFFICES ASSUME ThreadsLater, [Next]_vars PROVE ThreadsLater'
  OBVIOUS
<1> USE DEF ThreadsLater, threads
<1>1. CASE Start
  BY <1>1 DEF Start, Starts, WebStarts, DaytimeStarts, TwoWayStarts,
     SingleStarts
<1>2. CASE Run \/ SingleAccepts \/ SingleReads \/ SingleSends
  BY <1>2 DEF Run, SingleAccepts, Accepts, SingleReads, SingleSends
<1>3. CASE TwoWayAccepts \/ TwoWayAcceptFails
  BY <1>3 DEF TwoWayAccepts, Accepts, TwoWayAcceptFails
<1>4. CASE AcceptFails \/ SingleAcceptFails
  BY <1>4 DEF AcceptFails, SingleAcceptFails, ExitsAtAccept
<1>5. CASE ReaderReads \/ WriterWrites \/ InputEnds \/ TwoWayExits
  BY <1>5 DEF ReaderReads, WriterWrites, InputEnds, TwoWayExits, TwoWayEnds
<1>6. CASE ChildStep
  BY <1>6 DEF ChildStep, ChildStarts, HandleRead, WebResponds,
     DaytimeSaysNothing, ChildCloses, Child, ChildEnds
<1>7. CASE Client \/ Leaves
  BY <1>7 DEF Client, Reach, Connecting, CliConnects, DaytimeClientConnects,
     ClientConnects, BrowserConnects, ConnectsTo, Sends, DaytimeReads,
     ClientReads, BrowserReads, Leaves, ClientGoes
<1>8. CASE Kernel \/ UNCHANGED vars
  BY <1>8 DEF Kernel, Deliver, DeliverEnd, Bounce, vars
<1> QED
  BY <1>1, <1>2, <1>3, <1>4, <1>5, <1>6, <1>7, <1>8 DEF Next, Server

LEMMA Counts ==
  ASSUME TypeOK, TypeOK'
  PROVE  /\ delivered \in Nat /\ delivered' \in Nat
         /\ fBytesRead \in Nat /\ fBytesRead' \in Nat
         /\ lines \in Nat /\ lines' \in Nat
         /\ Len(stream) \in Nat
BY StreamType, SessionAssumption DEF TypeOK

LEMMA LeftTypes ==
  /\ ServerLeft \in 0..8 /\ ServerLeft' \in 0..8
  /\ ChildLeft \in 0..5 /\ ChildLeft' \in 0..5
  /\ ReaderLeft \in 0..3 /\ ReaderLeft' \in 0..3
  /\ WriterLeft \in 0..2 /\ WriterLeft' \in 0..2
  /\ ClientLeft \in 0..4 /\ ClientLeft' \in 0..4
  /\ EndLeft \in 0..1 /\ EndLeft' \in 0..1
BY DEF ServerLeft, ChildLeft, ReaderLeft, WriterLeft, ClientLeft, EndLeft

LEMMA SameLeft ==
  /\ UNCHANGED <<serverPc, link>> => ServerLeft' = ServerLeft
  /\ UNCHANGED childPc => ChildLeft' = ChildLeft
  /\ UNCHANGED readerPc => ReaderLeft' = ReaderLeft
  /\ UNCHANGED writerPc => WriterLeft' = WriterLeft
  /\ UNCHANGED clientPc => ClientLeft' = ClientLeft
  /\ UNCHANGED eof => EndLeft' = EndLeft
BY DEF ServerLeft, ChildLeft, ReaderLeft, WriterLeft, ClientLeft, EndLeft

LEMMA StepOnward ==
  ASSUME TypeOK, TypeOK', Roles, Holding, ThreadsLater, Next
  PROVE  Onward
<1> USE Counts, LeftTypes, SameLeft
    DEF Onward, NothingAgain, Less, input, startup, conversation, threads
<1>1. CASE Start
  BY <1>1 DEF Start, Starts, WebStarts, DaytimeStarts, TwoWayStarts,
     SingleStarts, ServerLeft
<1>2. CASE (Forking /\ Accepts("fork") /\ UNCHANGED threads) \/ SingleAccepts
  BY <1>2 DEF SingleAccepts, Accepts, ServerLeft
<1>3. CASE TwoWayAccepts \/ TwoWayAcceptFails
  BY <1>3 DEF TwoWayAccepts, TwoWayAcceptFails, Accepts, ThreadsLater,
     ServerLeft, ReaderLeft, WriterLeft
<1>4. CASE serverPc = "fork" /\ Run
  BY <1>4 DEF Run, Accepts, ServerLeft, ChildLeft, Holding
<1>5. CASE serverPc = "close" /\ Run
  BY <1>5 DEF Run, Accepts, ServerLeft, Holding, Connected
<1>6. CASE AcceptFails \/ SingleAcceptFails
  BY <1>6 DEF AcceptFails, SingleAcceptFails, ExitsAtAccept, ServerLeft
<1>7. CASE SingleReads
  BY <1>7 DEF SingleReads, ServerLeft
<1>8. CASE SingleSends
  BY <1>8 DEF SingleSends, ServerLeft
<1>9. CASE HandleRead
  BY <1>9, HandleReadStep DEF ChildLeft
<1>10. CASE ChildStep /\ ~HandleRead
  BY <1>10 DEF ChildStep, ChildStarts, WebResponds, DaytimeSaysNothing,
     ChildCloses, Child, ChildEnds, ChildLeft
<1>11. CASE ReaderReads
  <2>1. /\ UNCHANGED <<serverPc, childPc, writerPc, clientPc, link, eof, lines,
                     delivered>>
        /\ readerPc \in {"read", "erred"}
        /\ fBytesRead <= fBytesRead'
    BY <1>11 DEF ReaderReads
  <2>2. \/ readerPc' = readerPc /\ fBytesRead < fBytesRead'
        \/ readerPc = "read" /\ readerPc' = "erred"
        \/ readerPc' = "done"
    BY <1>11 DEF ReaderReads
  <2>3. ReaderLeft' <= ReaderLeft
    BY <2>1, <2>2 DEF ReaderLeft
  <2>4. ReaderLeft' < ReaderLeft \/ fBytesRead < fBytesRead'
    BY <2>1, <2>2 DEF ReaderLeft
  <2> QED
    BY <2>1, <2>3, <2>4
<1>12. CASE InputEnds
  BY <1>12 DEF InputEnds, WriterLeft
<1>13. ASSUME TwoWayEnds, serverPc = "join" PROVE Onward
  BY <1>13 DEF TwoWayEnds, ServerLeft, ReaderLeft, WriterLeft
<1>14. CASE WriterWrites \/ TwoWayExits
  BY <1>13, <1>14 DEF WriterWrites, TwoWayExits
<1>15. CASE Reach
  <2>1. /\ clientPc = "connect" /\ clientPc' # "connect"
        /\ clientPc' \in {"send", "read", "spin", "left"}
        /\ link = "none" /\ link' \in {"none", "queued"}
        /\ UNCHANGED <<serverPc, childPc, threads, conversation>>
    BY <1>15 DEF Reach, Connecting, CliConnects, DaytimeClientConnects,
       ClientConnects, BrowserConnects, ConnectsTo, Holding, TypeOK
  <2> QED
    BY <2>1 DEF ServerLeft, ClientLeft
<1>16. CASE (Client /\ ~Reach) \/ Leaves
  BY <1>16 DEF Client, Sends, DaytimeReads, ClientReads, BrowserReads,
     Leaves, ClientGoes, ClientLeft, TakesAnswer
<1>17. CASE Deliver
  BY <1>17 DEF Deliver, Web!Deliver
<1>18. CASE DeliverEnd
  BY <1>18 DEF DeliverEnd, EndLeft
<1>19. CASE Bounce
  BY <1>19 DEF Bounce, GetsReset
<1> QED
  BY <1>1, <1>2, <1>3, <1>4, <1>5, <1>6, <1>7, <1>8, <1>9, <1>10, <1>11,
     <1>12, <1>14, <1>15, <1>16, <1>17, <1>18, <1>19
     DEF Next, Server, Kernel, Run

(* No session goes on for ever: between two steps that take something      *)
(* forward there are only the reading of what is on its way to the client  *)
(* and one reset, and each of those two steps adds two messages at most.   *)
THEOREM GoesOnward == Spec => [][Onward]_vars
<1>1. IInv /\ ThreadsLater /\ [Next]_vars => [Onward]_vars
  <2> SUFFICES ASSUME IInv, ThreadsLater, Next PROVE Onward
    OBVIOUS
  <2>1. TypeOK'
    BY NextType DEF IInv
  <2> QED
    BY <2>1, StepOnward DEF IInv
<1> QED
  BY <1>1, InitLater, StepsLater, Invariant, PTL DEF Spec
=============================================================================
