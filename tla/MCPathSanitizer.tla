-------------------------- MODULE MCPathSanitizer --------------------------
(* Requests for the run of PathSanitizer. *)
EXTENDS PathSanitizer, SequencesExt

Chars == {Method, Space, HTTP, Slash, Dot, EndOfLine, "x"}

\* Anything short after the method, and every path of dots, slashes and one
\* letter in a proper request line.
AnyLine == {<<Method>> \o s : s \in BoundedSeq(Chars, 4)}
AnyPath ==
  {<<Method, Space>> \o s \o <<Space, HTTP, EndOfLine>> :
     s \in BoundedSeq({Slash, Dot, "x"}, 7)}
AllRequests == AnyLine \cup AnyPath
=============================================================================
