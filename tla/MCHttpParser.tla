---------------------------- MODULE MCHttpParser ----------------------------
(* Symmetric values for the runs of HttpParser. *)
EXTENDS HttpParser, TLC
CONSTANTS b1, b2
Blocks == {b1, b2}

\* An empty file and two versions of one that takes two reads.
Versions == {<<>>, <<b1, b1>>, <<b2, b2>>}

SymBlock == Permutations(Blocks)
=============================================================================
