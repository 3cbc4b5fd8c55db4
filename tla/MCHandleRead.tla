---------------------------- MODULE MCHandleRead ----------------------------
(* Streams and bytes for the runs of HandleRead. *)
EXTENDS HandleRead, SequencesExt

\* "e" is CR LF, the terminator two of them in a row.
Bytes == {"c", "e", "nul"}
EmptyLine == <<"e", "e">>

AllStreams == BoundedSeq(Bytes, 5)
NoTerminator == <<>>

\* POST /test, a header, the empty line and field1=value1&field2=value2.
PostWithBody == {<<"c", "e", "c", "e", "e", "c", "c">>}
=============================================================================
