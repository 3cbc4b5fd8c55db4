----------------------------- MODULE HandleRead -----------------------------
(***************************************************************************)
(* SocketIPv4::HandleRead: read from the connection into a buffer, append  *)
(* what was read to the data kept so far, and stop when that data ends     *)
(* with the terminator or the client has no more to say.                   *)
(*                                                                         *)
(* TCP delivers the client's stream in pieces of any size: the stream is   *)
(* fixed at the start and two counters say how much of it has reached the  *)
(* server and how much HandleRead has read (fBytesRead).                   *)
(***************************************************************************)
EXTENDS Integers, Sequences, FiniteSets

CONSTANTS
  Byte,        \* what a stream is made of; CR LF counts as one
  NUL,         \* the byte that ends a C string
  Terminator,  \* _terminator, set by OnDataReceive
  BUFSIZE,
  Streams      \* what a client may have to send

ASSUME ReadAssumption ==
  /\ Terminator \in Seq(Byte)
  /\ BUFSIZE \in Nat
  /\ Streams \subseteq Seq(Byte)

VARIABLES
  stream,       \* what this client has to send
  delivered,    \* how many bytes of it the kernel has received
  eof,          \* whether the client ended the connection, and how
  fBytesRead,   \* how many of these bytes read() has returned
  fBufferData,  \* the data kept
  pc            \* "read" in the loop, "returned" after it

vars == <<stream, delivered, eof, fBytesRead, fBufferData, pc>>

TypeOK ==
  /\ stream \in Streams
  /\ delivered \in 0..Len(stream)
  /\ eof \in {"no", "fin", "reset"}
  /\ fBytesRead \in 0..delivered
  /\ fBufferData \in Seq(Byte)
  /\ pc \in {"read", "returned"}

Init ==
  /\ stream \in Streams
  /\ delivered = 0
  /\ eof = "no"
  /\ fBytesRead = 0
  /\ fBufferData = <<>>
  /\ pc = "read"
-----------------------------------------------------------------------------
EndsWith(str, suffix) ==
  /\ Len(str) >= Len(suffix)
  /\ SubSeq(str, Len(str) - Len(suffix) + 1, Len(str)) = suffix

\* What << makes of a char array: it stops at the first NUL.
CStringLength(s) ==
  Cardinality({k \in 1..Len(s) : \A i \in 1..k : s[i] # NUL})

CString(s) == SubSeq(s, 1, CStringLength(s))
-----------------------------------------------------------------------------
Deliver(n) ==
  /\ eof = "no"
  /\ delivered' = delivered + n
  /\ UNCHANGED <<stream, eof, fBytesRead, fBufferData, pc>>

\* The client shuts its side down (a read returns 0) or resets the
\* connection (a read returns -1), perhaps before it has sent everything.
EndStream ==
  /\ eof = "no"
  /\ eof' \in {"fin", "reset"}
  /\ UNCHANGED <<stream, delivered, fBytesRead, fBufferData, pc>>

\* The n bytes that read returns next.
Chunk(n) == SubSeq(stream, fBytesRead + 1, fBytesRead + n)

\* Keep data and count read bytes more; the loop ends if done.
EndRound(data, read, done) ==
  /\ fBufferData' = data
  /\ fBytesRead' = fBytesRead + read
  /\ pc' = IF done THEN "returned" ELSE "read"
  /\ UNCHANGED <<stream, delivered, eof>>

\* Mutant: the terminator is looked for in this round's bytes only.
ReadChunkTestsChunk(n) ==
  /\ pc = "read" /\ n <= BUFSIZE + 1
  /\ EndRound(fBufferData \o CString(Chunk(n)), n,
              EndsWith(CString(Chunk(n)), Terminator))

\* Mutant: every round starts the data anew.
ReadChunkOverwrites(n) ==
  /\ pc = "read" /\ n <= BUFSIZE + 1
  /\ EndRound(CString(Chunk(n)), n, EndsWith(CString(Chunk(n)), Terminator))

\* Mutant: one read is taken for the whole request.
ReadChunkOnce(n) ==
  /\ pc = "read" /\ n <= BUFSIZE + 1
  /\ EndRound(fBufferData \o CString(Chunk(n)), n, TRUE)

\* Mutant: every read is counted as a full buffer.
ReadChunkCountsBuffer(n) ==
  /\ pc = "read" /\ n <= BUFSIZE + 1
  /\ LET data == fBufferData \o CString(Chunk(n))
     IN  EndRound(data, BUFSIZE + 1, EndsWith(data, Terminator))

\* One round of the loop: read returns n bytes, which are NUL-terminated and
\* streamed into fBufferData.  The NUL after a full buffer is stored at
\* buffer[BUFSIZE + 1], one past the array.  BUFSIZE + 1 is odd and the array
\* is aligned: on the ABIs this code builds for the stray byte is padding,
\* which << reads back as the end of the string.
ReadChunk(n) ==
  /\ pc = "read"
  /\ n <= BUFSIZE + 1
  /\ LET data == fBufferData \o CString(Chunk(n))
     IN  EndRound(data, n, EndsWith(data, Terminator))

\* read returns 0 or -1: the loop ends with what there is.
ReadEnds ==
  /\ pc = "read"
  /\ fBytesRead = delivered
  /\ eof # "no"
  /\ pc' = "returned"
  /\ UNCHANGED <<stream, delivered, eof, fBytesRead, fBufferData>>

Read == ReadEnds \/ \E n \in 1..(delivered - fBytesRead) : ReadChunk(n)

Next ==
  \/ \E n \in 1..(Len(stream) - delivered) : Deliver(n)
  \/ EndStream
  \/ Read

Spec == Init /\ [][Next]_vars

\* The reader thread runs when a read can return; the client owes nothing.
FairSpec == Spec /\ WF_vars(Read)
-----------------------------------------------------------------------------
NulFree(s) == \A i \in 1..Len(s) : s[i] # NUL

\* A stream that is one request: text that ends with the terminator and does
\* not contain it earlier.
OneRequest(s) ==
  /\ NulFree(s)
  /\ EndsWith(s, Terminator)
  /\ \A k \in 0..(Len(s) - 1) : ~EndsWith(SubSeq(s, 1, k), Terminator)

\* However the stream is cut into reads, the data kept is what was read, in
\* order and without gaps or repeats (buffer is reused by every round).
BufferIsPrefix ==
  NulFree(stream) => fBufferData = SubSeq(stream, 1, fBytesRead)

\* A request is handed on whole or the client broke it off: the loop neither
\* stops at a piece of it nor reads past its end.
WholeRequest ==
  pc = "returned" /\ OneRequest(stream)
    => fBufferData = stream \/ eof # "no"

\* The loop never goes back to read with the terminator at the end of the
\* data, also when the terminator came in two pieces.
NeverReadsPastTerminator ==
  pc = "read" /\ Terminator # <<>> => ~EndsWith(fBufferData, Terminator)

\* A request that has arrived is handed on though the client keeps the
\* connection open for the answer.
RequestReturns ==
  (OneRequest(stream) /\ delivered = Len(stream)) ~> pc = "returned"

\* So is whatever else a client sent completely: a POST request with its body
\* after the empty line (the example in HttpParser.cpp:25-30).
MessageReturns == delivered = Len(stream) ~> pc = "returned"
=============================================================================
