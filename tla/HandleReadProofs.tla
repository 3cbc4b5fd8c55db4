-------------------------- MODULE HandleReadProofs --------------------------
(***************************************************************************)
(* Proofs about HandleRead for every alphabet, terminator, buffer size and *)
(* set of streams: the data kept is a prefix of the stream, a request is   *)
(* handed on whole, and the loop stops as soon as the terminator is there. *)
(***************************************************************************)
EXTENDS HandleRead, SequenceTheorems, FiniteSetTheorems, TLAPS

(* What << keeps is a prefix of the char array, and all of it when the     *)
(* array holds no NUL.                                                     *)
LEMMA CStringLengthBounds ==
  ASSUME NEW s \in Seq(Byte)
  PROVE  /\ CStringLength(s) \in 0..Len(s)
         /\ NulFree(s) => CStringLength(s) = Len(s)
<1> DEFINE K == {k \in 1..Len(s) : \A i \in 1..k : s[i] # NUL}
<1>1. Len(s) \in Nat
  BY LenProperties
<1>2. IsFiniteSet(1..Len(s)) /\ Cardinality(1..Len(s)) = Len(s)
  BY <1>1, FS_Interval
<1>3. K \in SUBSET (1..Len(s))
  OBVIOUS
<1>4. IsFiniteSet(K) /\ Cardinality(K) <= Len(s)
  BY <1>2, <1>3, FS_Subset
<1>5. Cardinality(K) \in Nat
  BY <1>4, FS_CardinalityType
<1>6. ASSUME NulFree(s) PROVE K = 1..Len(s)
  BY <1>1, <1>6 DEF NulFree
<1> HIDE DEF K
<1>7. CStringLength(s) = Cardinality(K)
  BY DEF CStringLength, K
<1> QED
  BY <1>1, <1>2, <1>4, <1>5, <1>6, <1>7

LEMMA CStringProperties ==
  ASSUME NEW s \in Seq(Byte)
  PROVE  /\ CString(s) \in Seq(Byte)
         /\ NulFree(s) => CString(s) = s
<1>1. CStringLength(s) \in 0..Len(s) /\ Len(s) \in Nat
  BY CStringLengthBounds, LenProperties
<1>2. \A i \in 1..CStringLength(s) : s[i] \in Byte
  BY <1>1, ElementOfSeq
<1>3. SubSeq(s, 1, CStringLength(s)) \in Seq(Byte)
  BY <1>1, <1>2, SubSeqProperties
<1>4. ASSUME NulFree(s) PROVE CString(s) = s
  BY <1>4, CStringLengthBounds, SubSeqFull DEF CString
<1> QED
  BY <1>3, <1>4 DEF CString

(* A read returns the bytes of the stream after those already read.        *)
LEMMA ChunkProperties ==
  ASSUME TypeOK, NEW n \in 1..(delivered - fBytesRead)
  PROVE  /\ Chunk(n) \in Seq(Byte)
         /\ NulFree(stream) => NulFree(Chunk(n))
         /\ SubSeq(stream, 1, fBytesRead) \o Chunk(n)
              = SubSeq(stream, 1, fBytesRead + n)
<1>1. stream \in Seq(Byte)
  BY ReadAssumption DEF TypeOK
<1>2. /\ Len(stream) \in Nat
      /\ fBytesRead \in Nat
      /\ n \in Nat \ {0}
      /\ fBytesRead + n <= Len(stream)
  BY <1>1, LenProperties DEF TypeOK
<1>3. \A i \in (fBytesRead + 1)..(fBytesRead + n) : stream[i] \in Byte
  BY <1>1, <1>2, ElementOfSeq
<1>4. /\ Chunk(n) \in Seq(Byte)
      /\ Len(Chunk(n)) = n
      /\ \A i \in 1..n : Chunk(n)[i] = stream[fBytesRead + i]
  <2>1. /\ SubSeq(stream, fBytesRead + 1, fBytesRead + n) \in Seq(Byte)
        /\ Len(SubSeq(stream, fBytesRead + 1, fBytesRead + n)) =
             IF fBytesRead + 1 <= fBytesRead + n
               THEN (fBytesRead + n) - (fBytesRead + 1) + 1 ELSE 0
        /\ \A i \in 1..((fBytesRead + n) - (fBytesRead + 1) + 1) :
             SubSeq(stream, fBytesRead + 1, fBytesRead + n)[i]
               = stream[(fBytesRead + 1) + i - 1]
    BY <1>2, <1>3, SubSeqProperties
  <2> QED
    BY <1>2, <2>1 DEF Chunk
<1>5. ASSUME NulFree(stream) PROVE NulFree(Chunk(n))
  <2>1. \A i \in 1..n : fBytesRead + i \in 1..Len(stream)
    BY <1>2
  <2> QED
    BY <1>4, <1>5, <2>1 DEF NulFree
<1>6. SubSeq(stream, 1, fBytesRead) \o Chunk(n)
        = SubSeq(stream, 1, fBytesRead + n)
  <2>1. /\ 1 \in 1..(Len(stream) + 1)
        /\ fBytesRead \in (1 - 1)..Len(stream)
        /\ fBytesRead + n \in fBytesRead..Len(stream)
    BY <1>2
  <2> QED
    BY <1>1, <2>1, ConcatAdjacentSubSeq DEF Chunk
<1> QED
  BY <1>4, <1>5, <1>6
-----------------------------------------------------------------------------
LEMMA InitTypeOK == Init => TypeOK
<1>1. ASSUME NEW s \in Streams PROVE Len(s) \in Nat
  BY ReadAssumption, LenProperties
<1> QED
  BY <1>1, EmptySeq DEF Init, TypeOK

LEMMA NextTypeOK == TypeOK /\ [Next]_vars => TypeOK'
<1> SUFFICES ASSUME TypeOK, [Next]_vars
             PROVE  TypeOK'
  OBVIOUS
<1>0. Len(stream) \in Nat
  BY ReadAssumption, LenProperties DEF TypeOK
<1>1. ASSUME NEW n \in 1..(Len(stream) - delivered), Deliver(n)
      PROVE  TypeOK'
  BY <1>0, <1>1 DEF Deliver, TypeOK
<1>2. CASE EndStream
  BY <1>2 DEF EndStream, TypeOK
<1>3. CASE ReadEnds
  BY <1>3 DEF ReadEnds, TypeOK
<1>4. ASSUME NEW n \in 1..(delivered - fBytesRead), ReadChunk(n)
      PROVE  TypeOK'
  <2>1. CString(Chunk(n)) \in Seq(Byte)
    BY ChunkProperties, CStringProperties
  <2>2. fBufferData' \in Seq(Byte)
    BY <1>4, <2>1, ConcatProperties DEF ReadChunk, EndRound, TypeOK
  <2> QED
    BY <1>0, <1>4, <2>2 DEF ReadChunk, EndRound, TypeOK
<1>5. CASE UNCHANGED vars
  BY <1>5 DEF vars, TypeOK
<1> QED
  BY <1>1, <1>2, <1>3, <1>4, <1>5 DEF Next, Read

(* HandleRead counts no byte it was not given and keeps nothing but bytes. *)
THEOREM TypeCorrect == Spec => []TypeOK
BY InitTypeOK, NextTypeOK, PTL DEF Spec
-----------------------------------------------------------------------------
LEMMA InitPrefix == Init => BufferIsPrefix
BY SubSeqEmpty DEF Init, BufferIsPrefix

LEMMA NextPrefix ==
  TypeOK /\ BufferIsPrefix /\ [Next]_vars => BufferIsPrefix'
<1> SUFFICES ASSUME TypeOK, BufferIsPrefix, [Next]_vars
             PROVE  BufferIsPrefix'
  OBVIOUS
<1>1. ASSUME NEW n \in 1..(delivered - fBytesRead), ReadChunk(n)
      PROVE  BufferIsPrefix'
  <2> SUFFICES ASSUME NulFree(stream)
               PROVE  fBufferData' = SubSeq(stream, 1, fBytesRead + n)
    BY <1>1 DEF BufferIsPrefix, ReadChunk, EndRound
  <2>1. CString(Chunk(n)) = Chunk(n)
    BY ChunkProperties, CStringProperties
  <2>2. fBufferData' = SubSeq(stream, 1, fBytesRead) \o Chunk(n)
    BY <1>1, <2>1 DEF BufferIsPrefix, ReadChunk, EndRound
  <2> QED
    BY <2>2, ChunkProperties
<1>2. CASE UNCHANGED <<stream, fBytesRead, fBufferData>>
  BY <1>2 DEF BufferIsPrefix
<1> QED
  BY <1>1, <1>2 DEF Next, Read, Deliver, EndStream, ReadEnds, vars

(* Whatever pieces TCP makes of it, a text request is put together from    *)
(* its reads without gap, repeat or remains of an earlier read.            *)
THEOREM PrefixKept == Spec => []BufferIsPrefix
<1>1. TypeOK /\ BufferIsPrefix /\ [Next]_vars => BufferIsPrefix'
  BY NextPrefix
<1> QED
  BY <1>1, InitPrefix, TypeCorrect, PTL DEF Spec
-----------------------------------------------------------------------------
LEMMA NextWhole ==
  TypeOK /\ BufferIsPrefix' /\ WholeRequest /\ [Next]_vars => WholeRequest'
<1> SUFFICES ASSUME TypeOK, BufferIsPrefix', WholeRequest, [Next]_vars
             PROVE  WholeRequest'
  OBVIOUS
<1>0. stream \in Seq(Byte) /\ Len(stream) \in Nat
  BY ReadAssumption, LenProperties DEF TypeOK
<1>1. ASSUME NEW n \in 1..(delivered - fBytesRead), ReadChunk(n)
      PROVE  WholeRequest'
  <2> SUFFICES ASSUME OneRequest(stream), pc' = "returned"
               PROVE  fBufferData' = stream
    BY <1>1 DEF WholeRequest, ReadChunk, EndRound
  <2> DEFINE k == fBytesRead + n
  <2>1. k \in 0..Len(stream)
    BY <1>0 DEF TypeOK
  <2>2. fBufferData' = SubSeq(stream, 1, k)
    BY <1>1 DEF BufferIsPrefix, OneRequest, ReadChunk, EndRound
  <2>3. EndsWith(SubSeq(stream, 1, k), Terminator)
    BY <1>1, <2>2 DEF ReadChunk, EndRound
  <2>4. k = Len(stream)
    BY <1>0, <2>1, <2>3 DEF OneRequest
  <2> QED
    BY <1>0, <2>2, <2>4, SubSeqFull
<1>2. CASE ReadEnds
  BY <1>2 DEF ReadEnds, WholeRequest
<1>3. CASE EndStream
  BY <1>3 DEF EndStream, WholeRequest
<1>4. CASE UNCHANGED <<stream, eof, fBufferData, pc>>
  BY <1>4 DEF WholeRequest
<1> QED
  BY <1>1, <1>2, <1>3, <1>4 DEF Next, Read, Deliver, vars

(* A request is handed on whole, or its client broke it off.               *)
THEOREM WholeRequestHandedOn == Spec => []WholeRequest
<1>1. Init => WholeRequest
  BY DEF Init, WholeRequest
<1>2. TypeOK /\ BufferIsPrefix' /\ WholeRequest /\ [Next]_vars => WholeRequest'
  BY NextWhole
<1> QED
  BY <1>1, <1>2, TypeCorrect, PrefixKept, PTL DEF Spec
-----------------------------------------------------------------------------
(* The loop never goes back to read with the terminator at the end of what *)
(* it has.                                                                 *)
THEOREM StopsAtTerminator == Spec => []NeverReadsPastTerminator
<1>1. Init => NeverReadsPastTerminator
  <2> SUFFICES ASSUME Terminator # <<>> PROVE ~EndsWith(<<>>, Terminator)
    BY DEF Init, NeverReadsPastTerminator
  <2>1. Len(Terminator) \in Nat \ {0} /\ Len(<<>>) = 0
    BY ReadAssumption, EmptySeq
  <2> QED
    BY <2>1 DEF EndsWith
<1>2. NeverReadsPastTerminator /\ [Next]_vars => NeverReadsPastTerminator'
  BY DEF NeverReadsPastTerminator, Next, Read, Deliver, EndStream, ReadEnds,
         ReadChunk, EndRound, vars
<1> QED
  BY <1>1, <1>2, PTL DEF Spec
-----------------------------------------------------------------------------
(* Why the loop ends.                                                      *)

\* With the whole of a request read the loop is over: it never waits for a
\* client that has said all it has to say and waits for its answer.
WaitsForARest ==
  pc = "read" /\ Terminator # <<>> /\ OneRequest(stream) =>
    fBytesRead < Len(stream)

(* A loop that goes on has something left to wait for.                     *)
THEOREM NeverWaitsForNothing == Spec => []WaitsForARest
<1>1. TypeOK /\ BufferIsPrefix /\ NeverReadsPastTerminator => WaitsForARest
  <2> SUFFICES ASSUME TypeOK, BufferIsPrefix, NeverReadsPastTerminator,
                      pc = "read", Terminator # <<>>, OneRequest(stream)
               PROVE  fBytesRead < Len(stream)
    BY DEF WaitsForARest
  <2>1. /\ stream \in Seq(Byte) /\ Len(stream) \in Nat
        /\ fBytesRead \in Nat /\ fBytesRead <= Len(stream)
    BY ReadAssumption, LenProperties DEF TypeOK
  <2>2. fBytesRead = Len(stream) => fBufferData = stream
    BY <2>1, SubSeqFull DEF BufferIsPrefix, OneRequest
  <2>3. fBufferData # stream
    BY DEF NeverReadsPastTerminator, OneRequest
  <2> QED
    BY <2>1, <2>2, <2>3
<1> QED
  BY <1>1, TypeCorrect, PrefixKept, StopsAtTerminator, PTL

Open == IF eof = "no" THEN 1 ELSE 0
Looping == IF pc = "read" THEN 1 ELSE 0

\* Every step delivers, reads, ends the connection or ends the loop, and none
\* takes anything of that back: a read is never repeated.
Onward ==
  /\ UNCHANGED stream
  /\ delivered' >= delivered /\ fBytesRead' >= fBytesRead
  /\ Open' <= Open /\ Looping' <= Looping
  /\ \/ delivered' > delivered \/ fBytesRead' > fBytesRead
     \/ Open' < Open \/ Looping' < Looping

(* With TypeOK, which bounds what is delivered and read by the stream's    *)
(* length, no stream takes more than twice its length and 2 steps.         *)
THEOREM GoesOnward == Spec => [][Onward]_vars
<1>1. ASSUME TypeOK, [Next]_vars, ~UNCHANGED vars PROVE Onward
  <2> USE <1>1
  <2>1. delivered \in Nat /\ fBytesRead \in Nat
    BY ReadAssumption, LenProperties DEF TypeOK
  <2>2. CASE \E n \in 1..(Len(stream) - delivered) : Deliver(n)
    BY <2>1, <2>2 DEF Deliver, Onward, Open, Looping
  <2>3. CASE EndStream
    BY <2>1, <2>3 DEF EndStream, Onward, Open, Looping
  <2>4. CASE ReadEnds
    BY <2>1, <2>4 DEF ReadEnds, Onward, Open, Looping
  <2>5. ASSUME NEW n \in 1..(delivered - fBytesRead), ReadChunk(n)
        PROVE  Onward
    BY <2>1, <2>5 DEF ReadChunk, EndRound, Onward, Open, Looping
  <2> QED
    BY <2>2, <2>3, <2>4, <2>5 DEF Next, Read
<1>2. TypeOK /\ [Next]_vars => [Onward]_vars
  BY <1>1
<1> QED
  BY <1>2, TypeCorrect, PTL DEF Spec
=============================================================================
