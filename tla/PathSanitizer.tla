--------------------------- MODULE PathSanitizer ---------------------------
(***************************************************************************)
(* HttpParser::DetermineResourceRequest: cut the path out of the request   *)
(* line, drop its beginning until no "../" follows, drop one leading       *)
(* slash.  Positions count from 0, as in the code; those kept in an        *)
(* unsigned int wrap at UIntMod.                                           *)
(*                                                                         *)
(* A request is a sequence of characters in which the method's name, the   *)
(* word HTTP and an end of line count as one each.                         *)
(***************************************************************************)
EXTENDS Integers, Sequences, FiniteSetsExt

CONSTANTS Char, Method, Space, HTTP, Slash, Dot, EndOfLine,
          UIntMod,   \* 2^32 for unsigned int
          Requests

ASSUME SanitizerAssumption ==
  /\ {Method, Space, HTTP, Slash, Dot, EndOfLine} \subseteq Char
  /\ UIntMod \in Nat \ {0}
  /\ Requests \subseteq Seq(Char)
  /\ \A r \in Requests : Len(r) + 1 < UIntMod /\ r # <<>> /\ r[1] = Method

VARIABLES
  inRequest,     \* what HandleRead returned; it begins with the method
  aResource,
  aEndPosition,  \* how much of aResource RemoveTraversalSequences drops
  pc

vars == <<inRequest, aResource, aEndPosition, pc>>

TypeOK ==
  /\ inRequest \in Requests
  /\ aResource \in Seq(Char)
  /\ aEndPosition \in 0..Len(aResource)
  /\ pc \in {"extract", "skip", "erase", "done", "threw"}

Init ==
  /\ inRequest \in Requests
  /\ aResource = <<>>
  /\ aEndPosition = 0
  /\ pc = "extract"
-----------------------------------------------------------------------------
(* std::string.                                                            *)

Matches(s, pattern, p) ==
  /\ p + Len(pattern) <= Len(s)
  /\ \A i \in 1..Len(pattern) : s[p + i] = pattern[i]

Occurrences(s, pattern, from) ==
  {p \in from..Len(s) : Matches(s, pattern, p)}

npos == -1

Find(s, pattern) ==
  IF Occurrences(s, pattern, 0) = {} THEN npos
  ELSE Min(Occurrences(s, pattern, 0))

\* Up to count characters from position pos on.
Substr(s, pos, count) ==
  SubSeq(s, pos + 1, IF pos + count < Len(s) THEN pos + count ELSE Len(s))

ToUInt(n) == n % UIntMod
-----------------------------------------------------------------------------
Mark == <<Space, HTTP>>
Traversal == <<Dot, Dot, Slash>>

\* The characters between positions first and last, unless first lies past the
\* end: then substr throws out_of_range.
ExtractFrom(first, last) ==
  /\ pc = "extract"
  /\ IF first > Len(inRequest)
     THEN pc' = "threw" /\ UNCHANGED aResource
     ELSE /\ pc' = "skip"
          /\ aResource' = Substr(inRequest, first, ToUInt(last - first))
  /\ UNCHANGED <<inRequest, aEndPosition>>

\* Mutant: the space after the method stays.
ExtractWithSpace ==
  ExtractFrom(ToUInt(Find(inRequest, <<Method>>) + 1),
              ToUInt(Find(inRequest, Mark)))

Extract ==
  ExtractFrom(ToUInt(Find(inRequest, <<Method>>) + 1 + 1),
              ToUInt(Find(inRequest, Mark)))

\* One round of the loop of RemoveTraversalSequences.
SkipBy(n) ==
  /\ pc = "skip"
  /\ Occurrences(aResource, Traversal, aEndPosition) # {}
  /\ aEndPosition' = aEndPosition + n
  /\ UNCHANGED <<inRequest, aResource, pc>>

\* Mutant: the length of the sequence is taken with its final NUL.
SkipOneMore == SkipBy(4)

\* Mutant: the search is not moved on.
SkipNothing == SkipBy(0)

Skip == SkipBy(3)

DropSkipped ==
  /\ aResource' = Substr(aResource, aEndPosition, Len(aResource))
  /\ aEndPosition' = 0
  /\ pc' = "erase"
  /\ UNCHANGED inRequest

\* Mutant: the loop is left after one round.
CutAfterOneRound ==
  /\ pc = "skip"
  /\ Occurrences(aResource, Traversal, aEndPosition) = {} \/ aEndPosition > 0
  /\ DropSkipped

Cut ==
  /\ pc = "skip"
  /\ Occurrences(aResource, Traversal, aEndPosition) = {}
  /\ DropSkipped

WithoutSlash(s) == IF s # <<>> /\ s[1] = Slash THEN Tail(s) ELSE s

EraseSlash ==
  /\ pc = "erase"
  /\ aResource' = WithoutSlash(aResource)
  /\ pc' = "done"
  /\ UNCHANGED <<inRequest, aEndPosition>>

Next == Extract \/ Skip \/ Cut \/ EraseSlash

Spec == Init /\ [][Next]_vars

\* One thread runs this from beginning to end.
FairSpec == Spec /\ WF_vars(Next)
-----------------------------------------------------------------------------
\* What a handler opens has no traversal sequence left in it, though the loop
\* moves on by three from where it searched and not from what it found.
NoTraversalLeft ==
  pc \in {"erase", "done"} => Occurrences(aResource, Traversal, 0) = {}

\* What the client wrote between the method's space and the first " HTTP", or
\* up to the request's end if there is none or it begins with that space.
Path ==
  LET last == Find(inRequest, Mark) IN
  SubSeq(inRequest, 3, IF last >= 2 THEN last ELSE Len(inRequest))

\* The first multiple of three from which on path has no traversal sequence.
FirstClear(path, d) ==
  /\ d % 3 = 0 /\ Occurrences(path, Traversal, d) = {}
  /\ \A e \in 0..(d - 1) :
       e % 3 = 0 => Occurrences(path, Traversal, e) # {}

\* The handlers get the client's path from FirstClear on, less one slash: no
\* position that wraps or is cut to 32 bits costs it a character at either
\* end, a path without a traversal sequence is whole, and of what follows the
\* last one nothing goes.  What precedes a sequence does go with it, though the
\* function is only named for the sequences: /abc/../x becomes ./x.
CutAtFirstClear ==
  pc = "done" =>
    \E d \in 0..Len(Path) :
      /\ FirstClear(Path, d)
      /\ aResource = WithoutSlash(Substr(Path, d, Len(Path)))

\* Only a request that ends right after its method makes substr throw, which
\* nothing catches: no position that wraps does.
ThrowsOnBareMethod == pc = "threw" <=> inRequest = <<Method>> /\ pc # "extract"

\* The loop comes to an end whatever the path holds.
Returns == <>(pc \in {"done", "threw"})
=============================================================================
