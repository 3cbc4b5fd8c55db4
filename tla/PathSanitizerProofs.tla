------------------------ MODULE PathSanitizerProofs ------------------------
(***************************************************************************)
(* Proofs about PathSanitizer for every request and every path: no         *)
(* position runs past its end, nothing but the bare method makes substr    *)
(* throw, no traversal sequence is left, the path is cut at one place that *)
(* depends on it alone, and the loop comes to an end.                      *)
(***************************************************************************)
EXTENDS PathSanitizer, SequenceTheorems, WellFoundedInduction, TLAPS

(* The arithmetic of unsigned int.                                         *)
LEMMA ToUIntProperties ==
  ASSUME NEW n \in Int
  PROVE  /\ ToUInt(n) \in 0..(UIntMod - 1)
         /\ n \in 0..(UIntMod - 1) => ToUInt(n) = n
         /\ n \in (-UIntMod)..(-1) => ToUInt(n) = n + UIntMod
BY SanitizerAssumption DEF ToUInt

LEMMA RequestProperties ==
  ASSUME NEW r \in Requests
  PROVE  /\ r \in Seq(Char)
         /\ Len(r) \in Nat \ {0}
         /\ Len(r) + 1 < UIntMod
         /\ r[1] = Method
BY SanitizerAssumption, EmptySeq

(* A set of positions has a least one.                                     *)
LEMMA LeastPosition ==
  ASSUME NEW T, T \subseteq Nat, T # {}
  PROVE  \E low \in T : \A q \in T : low <= q
<1> DEFINE Less == {ss \in Nat \X Nat : ss[1] < ss[2]}
<1>1. IsWellFoundedOn(Less, Nat)
  BY NatLessThanWellFounded DEF OpToRel
<1>2. PICK low \in T : \A q \in T : ~(<<q, low>> \in Less)
  <2> HIDE DEF Less
  <2> QED
    BY <1>1, WFMin
<1>3. ASSUME NEW q \in T PROVE low <= q
  <2>1. <<q, low>> \in Nat \X Nat /\ <<q, low>>[1] = q /\ <<q, low>>[2] = low
    OBVIOUS
  <2>2. ~(q < low)
    BY <1>2, <2>1, Zenon
  <2> QED
    BY <2>2
<1> QED
  BY <1>3

(* find returns a position within the string or npos, and the first one.   *)
LEMMA FindProperties ==
  ASSUME NEW S, NEW s \in Seq(S), NEW pattern
  PROVE  /\ Find(s, pattern) \in -1..Len(s)
         /\ \A p \in 0..Len(s) :
              /\ Matches(s, pattern, p)
              /\ \A q \in 0..(p - 1) : ~Matches(s, pattern, q)
              => Find(s, pattern) = p
<1> DEFINE Occ == Occurrences(s, pattern, 0)
<1>1. Len(s) \in Nat
  BY LenProperties
<1>2. Occ \subseteq 0..Len(s)
  BY DEF Occurrences
<1>3. ASSUME NEW p \in 0..Len(s), Matches(s, pattern, p),
             \A q \in 0..(p - 1) : ~Matches(s, pattern, q)
      PROVE  Find(s, pattern) = p
  <2>1. p \in Occ /\ \A q \in Occ : p <= q
    BY <1>1, <1>3 DEF Occurrences
  <2>2. Min(Occ) \in Occ /\ \A q \in Occ : Min(Occ) <= q
    <3> HIDE DEF Occ
    <3> QED
      BY <2>1 DEF Min
  <2>3. Min(Occ) = p
    BY <1>1, <1>2, <2>1, <2>2
  <2> QED
    BY <2>1, <2>3 DEF Find
<1>4. Find(s, pattern) \in -1..Len(s)
  <2>1. CASE Occ = {}
    BY <1>1, <2>1 DEF Find, npos
  <2>2. CASE Occ # {}
    <3>1. PICK low \in Occ : \A q \in Occ : low <= q
      <4>1. Occ \subseteq Nat
        BY <1>1, <1>2
      <4> HIDE DEF Occ
      <4> QED
        BY <2>2, <4>1, LeastPosition
    <3>2. Min(Occ) \in Occ
      <4> HIDE DEF Occ
      <4> QED
        BY <3>1 DEF Min
    <3> QED
      BY <1>1, <1>2, <2>2, <3>2 DEF Find
  <2> QED
    BY <2>1, <2>2
<1> QED
  BY <1>3, <1>4

(* A part of a string is a string.                                         *)
LEMMA SubstrProperties ==
  ASSUME NEW s \in Seq(Char), NEW pos \in 0..Len(s), NEW count \in Nat
  PROVE  /\ Substr(s, pos, count) \in Seq(Char)
         /\ pos + count <= Len(s) =>
              Substr(s, pos, count) = SubSeq(s, pos + 1, pos + count)
<1> DEFINE last == IF pos + count < Len(s) THEN pos + count ELSE Len(s)
<1>1. Len(s) \in Nat /\ last \in pos..Len(s)
  BY LenProperties
<1>2. \A i \in (pos + 1)..last : s[i] \in Char
  BY <1>1, ElementOfSeq
<1>3. SubSeq(s, pos + 1, last) \in Seq(Char)
  BY <1>1, <1>2, SubSeqProperties
<1> QED
  BY <1>1, <1>3 DEF Substr

(* The end of a string, element by element.                                *)
LEMMA SuffixProperties ==
  ASSUME NEW s \in Seq(Char), NEW pos \in 0..Len(s)
  PROVE  /\ Substr(s, pos, Len(s)) \in Seq(Char)
         /\ Len(Substr(s, pos, Len(s))) = Len(s) - pos
         /\ \A i \in 1..(Len(s) - pos) : Substr(s, pos, Len(s))[i] = s[pos + i]
         /\ pos = 0 => Substr(s, pos, Len(s)) = s
<1>1. Len(s) \in Nat
  BY LenProperties
<1>2. Substr(s, pos, Len(s)) = SubSeq(s, pos + 1, Len(s))
  BY <1>1 DEF Substr
<1>3. \A i \in (pos + 1)..Len(s) : s[i] \in Char
  BY <1>1, ElementOfSeq
<1>4. /\ SubSeq(s, pos + 1, Len(s)) \in Seq(Char)
      /\ Len(SubSeq(s, pos + 1, Len(s))) =
           IF pos + 1 <= Len(s) THEN Len(s) - (pos + 1) + 1 ELSE 0
      /\ \A i \in 1..(Len(s) - (pos + 1) + 1) :
           SubSeq(s, pos + 1, Len(s))[i] = s[(pos + 1) + i - 1]
  BY <1>1, <1>3, SubSeqProperties
<1>5. \A i \in 1..(Len(s) - pos) :
        SubSeq(s, pos + 1, Len(s))[i] = s[pos + i]
  <2> TAKE i \in 1..(Len(s) - pos)
  <2>1. i \in 1..(Len(s) - (pos + 1) + 1) /\ (pos + 1) + i - 1 = pos + i
    BY <1>1
  <2> QED
    BY <1>4, <2>1
<1>6. pos = 0 => SubSeq(s, pos + 1, Len(s)) = s
  BY SubSeqFull
<1> QED
  BY <1>1, <1>2, <1>4, <1>5, <1>6

(* A sequence in the end of a string is one in the string.                 *)
LEMMA NoneInSuffix ==
  ASSUME NEW s \in Seq(Char), NEW t \in Seq(Char), NEW pos \in 0..Len(s),
         Len(t) = Len(s) - pos,
         \A i \in 1..(Len(s) - pos) : t[i] = s[pos + i],
         Occurrences(s, Traversal, pos) = {}
  PROVE  Occurrences(t, Traversal, 0) = {}
<1>1. Len(s) \in Nat /\ Len(t) \in Nat
  BY LenProperties
<1>2. Len(Traversal) = 3
  BY DEF Traversal
<1> SUFFICES ASSUME NEW p \in 0..Len(t), Matches(t, Traversal, p)
             PROVE  FALSE
  BY DEF Occurrences
<1>3. p + 3 <= Len(t) /\ \A i \in 1..3 : t[p + i] = Traversal[i]
  BY <1>2 DEF Matches
<1>4. pos + p \in pos..Len(s) /\ pos + p + 3 <= Len(s)
  BY <1>1, <1>3
<1>5. ASSUME NEW i \in 1..3 PROVE s[pos + p + i] = Traversal[i]
  <2>1. p + i \in 1..(Len(s) - pos) /\ pos + (p + i) = pos + p + i
    BY <1>1, <1>3
  <2>2. t[p + i] = s[pos + (p + i)]
    BY <2>1
  <2> QED
    BY <1>3, <2>1, <2>2
<1>6. Matches(s, Traversal, pos + p)
  BY <1>2, <1>4, <1>5 DEF Matches
<1> QED
  BY <1>4, <1>6 DEF Occurrences

LEMMA WithoutSlashProperties ==
  ASSUME NEW s \in Seq(Char)
  PROVE  /\ WithoutSlash(s) \in Seq(Char)
         /\ Occurrences(s, Traversal, 0) = {} =>
              Occurrences(WithoutSlash(s), Traversal, 0) = {}
<1>1. CASE s # <<>> /\ s[1] = Slash
  <2>1. WithoutSlash(s) = Tail(s)
    BY <1>1 DEF WithoutSlash
  <2>2. Len(s) \in Nat \ {0}
    BY <1>1, EmptySeq
  <2>3. /\ Tail(s) \in Seq(Char)
        /\ Len(Tail(s)) = Len(s) - 1
        /\ \A i \in 1..(Len(s) - 1) : Tail(s)[i] = s[i + 1]
    BY <1>1, <2>2, HeadTailProperties
  <2>4. \A i \in 1..(Len(s) - 1) : Tail(s)[i] = s[1 + i]
    BY <2>3
  <2>5. ASSUME Occurrences(s, Traversal, 0) = {}
        PROVE  Occurrences(s, Traversal, 1) = {}
    BY <2>5, <2>2 DEF Occurrences
  <2>6. 1 \in 0..Len(s)
    BY <2>2
  <2>7. ASSUME Occurrences(s, Traversal, 0) = {}
        PROVE  Occurrences(Tail(s), Traversal, 0) = {}
    BY <2>3, <2>4, <2>5, <2>6, <2>7, NoneInSuffix
  <2> QED
    BY <2>1, <2>3, <2>7
<1>2. CASE ~(s # <<>> /\ s[1] = Slash)
  BY <1>2 DEF WithoutSlash
<1> QED
  BY <1>1, <1>2
-----------------------------------------------------------------------------
(* The invariant.  The position is only used while sequences are skipped,  *)
(* and what it has passed by then had a sequence after it each time.       *)
Passed(path, d) ==
  /\ d % 3 = 0
  /\ \A e \in 0..(d - 1) :
       e % 3 = 0 => Occurrences(path, Traversal, e) # {}

PathIntact ==
  /\ pc = "skip" => aResource = Path /\ Passed(Path, aEndPosition)
  /\ pc = "erase" =>
       \E d \in 0..Len(Path) :
         FirstClear(Path, d) /\ aResource = Substr(Path, d, Len(Path))
  /\ CutAtFirstClear

PathInv ==
  /\ TypeOK
  /\ NoTraversalLeft
  /\ ThrowsOnBareMethod
  /\ PathIntact
  /\ pc # "skip" => aEndPosition = 0

LEMMA PathInvInit == Init => PathInv
<1> SUFFICES ASSUME Init PROVE PathInv
  OBVIOUS
<1>1. TypeOK
  BY EmptySeq DEF Init, TypeOK
<1> QED
  BY <1>1 DEF Init, PathInv, NoTraversalLeft, ThrowsOnBareMethod, PathIntact,
              CutAtFirstClear

(* The path starts after the method and its space, and substr takes the    *)
(* whole of it: where " HTTP" does not follow, the difference of the       *)
(* positions wraps to a number that no request is as long as.              *)
LEMMA ExtractPositions ==
  ASSUME inRequest \in Requests
  PROVE  /\ ToUInt(Find(inRequest, <<Method>>) + 1 + 1) = 2
         /\ 2 <= Len(inRequest) =>
              Substr(inRequest, 2, ToUInt(ToUInt(Find(inRequest, Mark)) - 2))
                = Path
<1> DEFINE last == Find(inRequest, Mark)
           count == ToUInt(ToUInt(last) - 2)
<1>1. /\ inRequest \in Seq(Char)
      /\ Len(inRequest) \in Nat \ {0}
      /\ Len(inRequest) + 1 < UIntMod
      /\ inRequest[1] = Method
      /\ UIntMod \in Nat
  BY RequestProperties, SanitizerAssumption
<1>2. Matches(inRequest, <<Method>>, 0)
  BY <1>1 DEF Matches
<1>3. Find(inRequest, <<Method>>) = 0
  BY <1>1, <1>2, FindProperties
<1>4. 2 \in 0..(UIntMod - 1)
  BY <1>1
<1>5. last \in -1..Len(inRequest)
  BY <1>1, FindProperties
<1>6. Path = SubSeq(inRequest, 3, IF last >= 2 THEN last ELSE Len(inRequest))
  BY DEF Path
<1> HIDE DEF last
<1>7. ASSUME 2 <= Len(inRequest) PROVE Substr(inRequest, 2, count) = Path
  <2>1. CASE last >= 2
    <3>1. last \in 0..(UIntMod - 1) /\ last - 2 \in 0..(UIntMod - 1)
      BY <1>1, <1>5, <2>1
    <3>2. count = last - 2
      BY <1>5, <3>1, ToUIntProperties
    <3> QED
      BY <1>1, <1>5, <1>6, <2>1, <3>2 DEF Substr
  <2>2. CASE last < 2
    <3>1. count \in Int /\ 2 + count > Len(inRequest)
      <4>1. CASE last = -1
        <5>1. ToUInt(last) = UIntMod - 1
          BY <1>1, <4>1, ToUIntProperties
        <5>2. UIntMod - 1 - 2 \in 0..(UIntMod - 1)
          BY <1>1, <1>7
        <5>3. count = UIntMod - 1 - 2
          BY <1>1, <5>1, <5>2, ToUIntProperties
        <5> QED
          BY <1>1, <5>3
      <4>2. CASE last \in {0, 1}
        <5>1. ToUInt(last) = last
          BY <1>1, <4>2, ToUIntProperties
        <5>2. last - 2 \in (-UIntMod)..(-1)
          BY <1>1, <1>7, <4>2
        <5>3. count = last - 2 + UIntMod
          BY <1>1, <4>2, <5>1, <5>2, ToUIntProperties
        <5> QED
          BY <1>1, <4>2, <5>3
      <4> QED
        BY <1>1, <1>5, <2>2, <4>1, <4>2
    <3> QED
      BY <1>1, <1>5, <1>6, <2>2, <3>1 DEF Substr
  <2> QED
    BY <1>1, <1>5, <2>1, <2>2
<1> QED
  BY <1>3, <1>4, <1>7, ToUIntProperties DEF last

LEMMA PathInvExtract == PathInv /\ Extract => PathInv'
<1> SUFFICES ASSUME PathInv, Extract PROVE PathInv'
  OBVIOUS
<1> DEFINE last == ToUInt(Find(inRequest, Mark))
           count == ToUInt(last - 2)
<1>1. /\ inRequest \in Requests /\ aResource \in Seq(Char)
      /\ aEndPosition = 0
      /\ pc = "extract"
      /\ inRequest' = inRequest /\ aEndPosition' = aEndPosition
  BY DEF PathInv, TypeOK, Extract, ExtractFrom
<1>2. /\ inRequest \in Seq(Char)
      /\ Len(inRequest) \in Nat \ {0}
      /\ inRequest[1] = Method
  BY <1>1, RequestProperties
<1>3. IF 2 > Len(inRequest)
      THEN pc' = "threw" /\ aResource' = aResource
      ELSE pc' = "skip" /\ aResource' = Substr(inRequest, 2, count)
  BY <1>1, ExtractPositions DEF Extract, ExtractFrom
<1>4. last \in Int /\ count \in Nat
  <2>1. Find(inRequest, Mark) \in Int
    BY <1>2, FindProperties
  <2>2. last \in Nat
    BY <2>1, ToUIntProperties
  <2>3. last - 2 \in Int
    BY <2>2
  <2> QED
    BY <2>2, <2>3, ToUIntProperties
<1> HIDE DEF last, count
<1>5. CASE 2 > Len(inRequest)
  <2>1. Len(inRequest) = 1
    <3>1. \A n \in Nat \ {0} : 2 > n => n = 1
      OBVIOUS
    <3> QED
      BY <1>2, <1>5, <3>1
  <2>2. inRequest = <<Method>>
    BY <1>2, <2>1
  <2>3. pc' = "threw" /\ aResource' = aResource
    BY <1>3, <1>5
  <2>4. TypeOK'
    BY <1>1, <2>3, LenProperties DEF TypeOK
  <2> QED
    BY <1>1, <2>1, <2>2, <2>3, <2>4
    DEF PathInv, NoTraversalLeft, ThrowsOnBareMethod, PathIntact,
        CutAtFirstClear
<1>6. CASE 2 <= Len(inRequest)
  <2>1. pc' = "skip" /\ aResource' = Substr(inRequest, 2, count)
    BY <1>2, <1>3, <1>6
  <2>2. aResource' \in Seq(Char)
    BY <1>2, <1>4, <1>6, <2>1, SubstrProperties
  <2>3. TypeOK'
    BY <1>1, <2>1, <2>2, LenProperties DEF TypeOK
  <2>4. inRequest # <<Method>>
    <3>1. Len(<<Method>>) = 1
      OBVIOUS
    <3>2. ~(2 <= Len(<<Method>>))
      BY <3>1
    <3> QED
      BY <1>6, <3>2
  <2>5. aResource' = Path
    BY <1>1, <1>6, <2>1, ExtractPositions DEF last, count
  <2>6. PathIntact'
    BY <1>1, <2>1, <2>5 DEF PathIntact, CutAtFirstClear, Passed, Path
  <2> QED
    BY <1>1, <2>1, <2>3, <2>4, <2>6
    DEF PathInv, NoTraversalLeft, ThrowsOnBareMethod
<1> QED
  BY <1>2, <1>5, <1>6

(* A sequence found from the position on has three characters, so the      *)
(* position stays within the path.                                         *)
LEMMA PathInvSkip == PathInv /\ Skip => PathInv'
<1> SUFFICES ASSUME PathInv, Skip PROVE PathInv'
  OBVIOUS
<1>1. /\ inRequest \in Requests /\ aResource \in Seq(Char)
      /\ aEndPosition \in 0..Len(aResource)
      /\ pc = "skip" /\ pc' = pc
      /\ inRequest' = inRequest /\ aResource' = aResource
      /\ aEndPosition' = aEndPosition + 3
  BY DEF PathInv, TypeOK, Skip, SkipBy
<1>2. Len(aResource) \in Nat
  BY <1>1, LenProperties
<1>3. PICK p \in aEndPosition..Len(aResource) : Matches(aResource, Traversal, p)
  BY DEF Skip, SkipBy, Occurrences
<1>4. p + 3 <= Len(aResource)
  <2>1. Len(Traversal) = 3
    BY DEF Traversal
  <2> QED
    BY <1>3, <2>1 DEF Matches
<1>5. aEndPosition' \in 0..Len(aResource')
  BY <1>1, <1>2, <1>3, <1>4
<1>6. TypeOK'
  BY <1>1, <1>5 DEF PathInv, TypeOK
<1>7. PathIntact'
  <2>1. aResource = Path /\ Passed(Path, aEndPosition)
    BY <1>1 DEF PathInv, PathIntact
  <2>2. Occurrences(Path, Traversal, aEndPosition) # {}
    BY <1>3, <2>1 DEF Occurrences
  <2>3. aEndPosition' % 3 = 0
    BY <1>1, <2>1 DEF Passed
  <2>4. ASSUME NEW e \in 0..(aEndPosition' - 1), e % 3 = 0
        PROVE  Occurrences(Path, Traversal, e) # {}
    <3>1. e < aEndPosition \/ e = aEndPosition
      BY <1>1, <2>1, <2>4 DEF Passed
    <3> QED
      BY <1>1, <2>1, <2>2, <2>4, <3>1 DEF Passed
  <2>5. Passed(Path, aEndPosition')
    BY <2>3, <2>4 DEF Passed
  <2> QED
    BY <1>1, <2>1, <2>5 DEF PathIntact, CutAtFirstClear, Path
<1> QED
  BY <1>1, <1>6, <1>7 DEF PathInv, NoTraversalLeft, ThrowsOnBareMethod

LEMMA PathInvCut == PathInv /\ Cut => PathInv'
<1> SUFFICES ASSUME PathInv, Cut PROVE PathInv'
  OBVIOUS
<1>1. /\ inRequest \in Requests /\ aResource \in Seq(Char)
      /\ aEndPosition \in 0..Len(aResource)
      /\ pc = "skip" /\ pc' = "erase"
      /\ inRequest' = inRequest
      /\ aResource' = Substr(aResource, aEndPosition, Len(aResource))
      /\ aEndPosition' = 0
      /\ Occurrences(aResource, Traversal, aEndPosition) = {}
  BY DEF PathInv, TypeOK, Cut, DropSkipped
<1>2. /\ aResource' \in Seq(Char)
      /\ Len(aResource') = Len(aResource) - aEndPosition
      /\ \A i \in 1..(Len(aResource) - aEndPosition) :
           aResource'[i] = aResource[aEndPosition + i]
      /\ aEndPosition = 0 => aResource' = aResource
  BY <1>1, SuffixProperties
<1>3. TypeOK'
  BY <1>1, <1>2, LenProperties DEF PathInv, TypeOK
<1>4. Occurrences(aResource', Traversal, 0) = {}
  BY <1>1, <1>2, NoneInSuffix
<1>5. NoTraversalLeft'
  BY <1>1, <1>4 DEF NoTraversalLeft, Occurrences, Matches, Traversal
<1>6. PathIntact'
  <2>1. aResource = Path /\ Passed(Path, aEndPosition)
    BY <1>1 DEF PathInv, PathIntact
  <2>2. FirstClear(Path, aEndPosition)
    BY <1>1, <2>1 DEF FirstClear, Passed
  <2>3. Path' = Path
    BY <1>1 DEF Path
  <2>4. \E d \in 0..Len(Path) :
          FirstClear(Path, d) /\ aResource' = Substr(Path, d, Len(Path))
    BY <1>1, <2>1, <2>2
  <2> QED
    BY <1>1, <2>3, <2>4 DEF PathIntact, CutAtFirstClear
<1> QED
  BY <1>1, <1>3, <1>5, <1>6 DEF PathInv, ThrowsOnBareMethod

LEMMA PathInvEraseSlash == PathInv /\ EraseSlash => PathInv'
<1> SUFFICES ASSUME PathInv, EraseSlash PROVE PathInv'
  OBVIOUS
<1>1. /\ inRequest \in Requests /\ aResource \in Seq(Char)
      /\ aEndPosition = 0 /\ aEndPosition' = aEndPosition
      /\ pc = "erase" /\ pc' = "done"
      /\ inRequest' = inRequest
      /\ aResource' = WithoutSlash(aResource)
      /\ Occurrences(aResource, Traversal, 0) = {}
  BY DEF PathInv, TypeOK, NoTraversalLeft, EraseSlash
<1>2. /\ aResource' \in Seq(Char)
      /\ Occurrences(aResource', Traversal, 0) = {}
  BY <1>1, WithoutSlashProperties
<1>3. TypeOK'
  BY <1>1, <1>2, LenProperties DEF TypeOK
<1>4. NoTraversalLeft'
  BY <1>1, <1>2 DEF NoTraversalLeft, Occurrences, Matches, Traversal
<1>5. PathIntact'
  <2>1. PICK d \in 0..Len(Path) :
          FirstClear(Path, d) /\ aResource = Substr(Path, d, Len(Path))
    BY <1>1 DEF PathInv, PathIntact
  <2>2. Path' = Path
    BY <1>1 DEF Path
  <2>3. CutAtFirstClear'
    BY <1>1, <2>1, <2>2 DEF CutAtFirstClear
  <2> QED
    BY <1>1, <2>3 DEF PathIntact
<1> QED
  BY <1>1, <1>3, <1>4, <1>5 DEF PathInv, ThrowsOnBareMethod

LEMMA PathInvNext == PathInv /\ [Next]_vars => PathInv'
<1> SUFFICES ASSUME PathInv, [Next]_vars PROVE PathInv'
  OBVIOUS
<1>1. CASE UNCHANGED vars
  BY <1>1 DEF PathInv, TypeOK, NoTraversalLeft, ThrowsOnBareMethod, PathIntact,
              CutAtFirstClear, Path, vars
<1> QED
  BY <1>1, PathInvExtract, PathInvSkip, PathInvCut, PathInvEraseSlash DEF Next

(* The strengthening that the theorems below follow from.                  *)
THEOREM Invariance == Spec => []PathInv
BY PathInvInit, PathInvNext, PTL DEF Spec
-----------------------------------------------------------------------------
(* The state keeps its types; above all, the position at which the path is *)
(* cut never lies past its end, so that substr does not throw there.       *)
THEOREM TypeCorrect == Spec => []TypeOK
<1>1. PathInv => TypeOK
  BY DEF PathInv
<1> QED
  BY <1>1, Invariance, PTL

(* No handler is given a path with a traversal sequence in it.             *)
THEOREM CleanPaths == Spec => []NoTraversalLeft
<1>1. PathInv => NoTraversalLeft
  BY DEF PathInv
<1> QED
  BY <1>1, Invariance, PTL

(* substr throws for a request that ends after its method, and no other.   *)
THEOREM ThrowsOnlyThere == Spec => []ThrowsOnBareMethod
<1>1. PathInv => ThrowsOnBareMethod
  BY DEF PathInv
<1> QED
  BY <1>1, Invariance, PTL

(* For every request, with a version or without, the handlers get the      *)
(* client's path from the first multiple of three on after which it has no *)
(* traversal sequence, less one slash.                                     *)
THEOREM CutThere == Spec => []CutAtFirstClear
<1>1. PathInv => CutAtFirstClear
  BY DEF PathInv, PathIntact
<1> QED
  BY <1>1, Invariance, PTL
-----------------------------------------------------------------------------
Stage ==
  CASE pc = "extract" -> 3 [] pc = "skip" -> 2 [] pc = "erase" -> 1
    [] OTHER -> 0

(* Every step comes closer to the end: to a later stage or, in the loop of *)
(* RemoveTraversalSequences, to a position further on in a path that stays *)
(* the same.  So no path keeps the loop going for more rounds than it has  *)
(* characters.                                                             *)
ComesCloser ==
  \/ Stage' < Stage
  \/ /\ Stage' = Stage /\ aResource' = aResource
     /\ aEndPosition < aEndPosition' /\ aEndPosition' <= Len(aResource)

(* The clean-up ends for every path.                                       *)
THEOREM Terminates == Spec => [][ComesCloser]_vars
<1>1. PathInv /\ PathInv' /\ [Next]_vars => [ComesCloser]_vars
  <2> SUFFICES ASSUME PathInv, PathInv', Next PROVE ComesCloser
    OBVIOUS
  <2> USE DEF ComesCloser, Stage
  <2>1. CASE Extract
    BY <2>1 DEF Extract, ExtractFrom
  <2>2. CASE Skip
    <3>1. /\ aResource \in Seq(Char) /\ aEndPosition \in 0..Len(aResource)
          /\ aEndPosition' \in 0..Len(aResource')
      BY DEF PathInv, TypeOK
    <3> QED
      BY <2>2, <3>1, LenProperties DEF Skip, SkipBy
  <2>3. CASE Cut
    BY <2>3 DEF Cut, DropSkipped
  <2>4. CASE EraseSlash
    BY <2>4 DEF EraseSlash
  <2> QED
    BY <2>1, <2>2, <2>3, <2>4 DEF Next
<1> QED
  BY <1>1, Invariance, PTL DEF Spec
=============================================================================
