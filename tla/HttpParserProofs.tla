-------------------------- MODULE HttpParserProofs --------------------------
(***************************************************************************)
(* Proofs about HttpParser for all names, files, requests and ways in      *)
(* which other programs change the files meanwhile: what a GET is told was *)
(* true while it was handled, a file left alone is served whole, and      *)
(* OnData has the outcomes that the accept loop is modelled with.          *)
(***************************************************************************)
EXTENDS HttpParser, SequenceTheorems, TLAPS

(* Since the look-up, named holds what the page leads to.                  *)
LookedUp ==
  /\ pc \in {"exists", "open", "read"} =>
       page \in Resource /\ request.type = "GET"
  /\ pc \in {"open", "read"} =>
       entry[page] \in named /\ named \cap Inode # {}

(* Every block read so far is from a version of the open file, in place.   *)
BlocksFit ==
  \A k \in 1..Len(response.data) :
    \E v \in versions : k <= Len(v) /\ response.data[k] = v[k]

(* The open file is one the page led to, or the only one, if it led to one *)
(* alone that can be opened; without one, open has failed with reason.     *)
StreamFits ==
  /\ response.code = 200
  /\ response.type = ContentType(page)
  /\ named \cap Inode # {}
  /\ stream = None =>
       response.data = <<>> /\ \E i \in named : ~Openable(page, i)
  /\ stream # None =>
       stream \in named /\ contents[stream] \in versions /\ BlocksFit
  /\ \A i \in Inode : named = {i} /\ Openable(page, i) => stream = i

Complete ==
  stream # None => \E v \in versions : Len(v) <= Len(response.data)

GetAnswer ==
  \/ response = NotFound /\ named = {None}
  \/ StreamFits /\ Complete

ParserInv ==
  /\ TypeOK
  /\ LookedUp
  /\ pc = "read" => StreamFits
  /\ pc = "post" => request.type = "POST"
  /\ pc = "craft" /\ request.type = "GET" => GetAnswer
  /\ pc = "returned" /\ request.type = "GET" =>
       GetAnswer /\ message = <<_httpVersion, response>>

LEMMA TypeInit == Init => TypeOK
<1> USE ParserAssumption
<1> SUFFICES ASSUME Init PROVE TypeOK
  OBVIOUS
<1>1. \A code \in Code : Blank(code) \in Response
  BY EmptySeq DEF Blank, Response
<1> QED
  BY <1>1 DEF Init, TypeOK

LEMMA ParserInvInit == Init => ParserInv
<1> SUFFICES ASSUME Init PROVE ParserInv
  OBVIOUS
<1>1. pc = "setup"
  BY DEF Init
<1> QED
  BY <1>1, TypeInit DEF ParserInv, LookedUp

LEMMA FixedResponses ==
  /\ NotFound \in Response
  /\ TestHandler \in Response
  /\ \A name : [code |-> 200, type |-> ContentType(name), data |-> <<>>]
                 \in Response
BY ParserAssumption DEF NotFound, TestHandler, Response, ContentType

LEMMA ReadTypes ==
  ASSUME TypeOK, NEW inode \in Inode, Len(response.data) < Len(contents[inode])
  PROVE  /\ [response EXCEPT !.data =
              Append(@, contents[inode][Len(response.data) + 1])] \in Response
         /\ Len(response.data) \in Nat
         /\ contents[inode] \in Seq(Block)
<1>1. response.data \in Seq(Block \cup {Text}) /\ contents[inode] \in Seq(Block)
  BY ParserAssumption DEF TypeOK, Response
<1>2. Len(response.data) \in Nat /\ Len(contents[inode]) \in Nat
  BY <1>1, LenProperties
<1>3. Len(response.data) + 1 \in 1..Len(contents[inode])
  BY <1>2
<1>4. contents[inode][Len(response.data) + 1] \in Block \cup {Text}
  BY <1>1, <1>3, ElementOfSeq
<1>5. Append(response.data, contents[inode][Len(response.data) + 1])
        \in Seq(Block \cup {Text})
  BY <1>1, <1>4, AppendProperties
<1> QED
  BY <1>1, <1>2, <1>5 DEF TypeOK, Response

LEMMA TypeNext == TypeOK /\ LookedUp /\ [Next]_vars => TypeOK'
<1> SUFFICES ASSUME TypeOK, LookedUp, [Next]_vars PROVE TypeOK'
  OBVIOUS
<1> USE ParserAssumption DEF TypeOK, files, history
<1>1. ASSUME NEW name \in HandlerNames, SetPostRequestHandler(name) PROVE TypeOK'
  BY <1>1 DEF SetPostRequestHandler
<1>2. CASE OnData
  BY <1>2 DEF OnData
<1>3. CASE DispatchUnknown \/ ResourceThrows
  BY <1>3 DEF DispatchUnknown, ResourceThrows
<1>4. CASE DispatchGet
  BY <1>4 DEF DispatchGet
<1>5. CASE DispatchPost
  BY <1>5 DEF DispatchPost
<1>6. CASE ExistsThrows
  BY <1>6 DEF ExistsThrows
<1>7. CASE Exists
  BY <1>7, FixedResponses DEF Exists, LookedUp
<1>8. CASE Open
  <2>1. /\ pc = "open" /\ page \in Resource /\ entry[page] \in Inode \cup {None}
        /\ Openable(page, entry[page]) => entry[page] \in Inode
    BY <1>8 DEF Open, OpenIf, LookedUp, Openable
  <2>2. stream' \in Inode \cup {None} /\ versions' \subseteq Contents
    BY <1>8, <2>1 DEF Open, OpenIf
  <2> QED
    BY <1>8, <2>2, FixedResponses DEF Open, OpenIf
<1>9. CASE Read
  BY <1>9, ReadTypes DEF Read, ReadFrom, More
<1>10. CASE ReadEnd
  BY <1>10 DEF ReadEnd
<1>11. CASE Post
  BY <1>11, FixedResponses DEF Post
<1>12. CASE CraftResponseMessage
  BY <1>12 DEF CraftResponseMessage, Craft
<1>13. ASSUME NEW inode \in Inode \cup {None}, Link(inode) PROVE TypeOK'
  BY <1>13 DEF Link, parser
<1>14. ASSUME NEW inode \in Inode, NEW c \in Contents, Write(inode, c)
       PROVE TypeOK'
  BY <1>14 DEF Write, parser
<1>15. CASE UNCHANGED vars
  BY <1>15 DEF vars, parser
<1> QED
  BY <1>1, <1>2, <1>3, <1>4, <1>5, <1>6, <1>7, <1>8, <1>9, <1>10, <1>11, <1>12,
     <1>13, <1>14, <1>15 DEF Next, Environment
-----------------------------------------------------------------------------
LEMMA OpenFits == ParserInv /\ Open => StreamFits'
<1> SUFFICES ASSUME ParserInv, Open PROVE StreamFits'
  OBVIOUS
<1>1. /\ pc = "open" /\ page' = page /\ named' = named /\ entry' = entry
      /\ contents' = contents
      /\ stream' = IF Openable(page, entry[page]) THEN entry[page] ELSE None
      /\ versions' = IF Openable(page, entry[page])
                     THEN {contents[entry[page]]} ELSE {}
      /\ response' = [code |-> 200, type |-> ContentType(page), data |-> <<>>]
  BY DEF Open, OpenIf, files
<1>2. entry[page] \in named /\ named \cap Inode # {}
  BY <1>1 DEF ParserInv, LookedUp
<1>3. response'.data = <<>> /\ Len(response'.data) = 0
  BY <1>1
<1>4. BlocksFit'
  BY <1>3 DEF BlocksFit
<1>5. stream' # None =>
        Openable(page, entry[page]) /\ contents'[stream'] \in versions'
  BY <1>1
<1>6. \A i \in Inode : named = {i} /\ Openable(page, i) => stream' = i
  BY <1>1, <1>2
<1>7. stream' = None => \E i \in named : ~Openable(page, i)
  BY <1>1, <1>2 DEF Openable
<1>8. /\ response'.code = 200
      /\ response'.type = ContentType(page)
  BY <1>1
<1>9. ContentType(page)' = ContentType(page)
  BY <1>1 DEF ContentType
<1>10. \A i : Openable(page, i)' = Openable(page, i)
  BY <1>1 DEF Openable
<1> QED
  BY <1>1, <1>2, <1>3, <1>4, <1>5, <1>6, <1>7, <1>8, <1>9, <1>10
  DEF StreamFits, ContentType, Openable

LEMMA ReadFits == ParserInv /\ Read => StreamFits'
<1> SUFFICES ASSUME ParserInv, Read PROVE StreamFits'
  OBVIOUS
<1> DEFINE n == Len(response.data)
           next == contents[stream][n + 1]
<1>1. /\ pc = "read" /\ page' = page /\ named' = named
      /\ contents' = contents /\ versions' = versions /\ stream' = stream
      /\ stream # None /\ n < Len(contents[stream])
      /\ response' = [response EXCEPT !.data = Append(@, next)]
  BY DEF Read, ReadFrom, More, files, history
<1>2. /\ TypeOK /\ StreamFits /\ stream \in Inode
  BY <1>1 DEF ParserInv, TypeOK
<1>3. /\ response \in Response
      /\ response.data \in Seq(Block \cup {Text})
      /\ contents[stream] \in Seq(Block)
      /\ n \in Nat
      /\ Len(contents[stream]) \in Nat
  BY <1>1, <1>2, ReadTypes, LenProperties DEF TypeOK, Response
<1>4. n + 1 \in 1..Len(contents[stream])
  BY <1>1, <1>3
<1>5. next \in Block \cup {Text}
  BY <1>3, <1>4, ElementOfSeq
<1>6. /\ response'.data = Append(response.data, next)
      /\ response'.code = response.code
      /\ response'.type = response.type
  BY <1>1, <1>3 DEF Response
<1>7. /\ Len(response'.data) = n + 1
      /\ \A k \in 1..n : response'.data[k] = response.data[k]
      /\ response'.data[n + 1] = next
  BY <1>3, <1>5, <1>6, AppendProperties
<1>8. BlocksFit'
  <2>1. \A k \in 1..n :
          \E v \in versions : k <= Len(v) /\ response.data[k] = v[k]
    BY <1>1, <1>2 DEF StreamFits, BlocksFit
  <2>2. contents[stream] \in versions /\ n + 1 <= Len(contents[stream])
    BY <1>1, <1>2, <1>4 DEF StreamFits
  <2>3. \A k \in 1..(n + 1) : k \in 1..n \/ k = n + 1
    BY <1>3
  <2> HIDE DEF n
  <2>4. ASSUME NEW k \in 1..(n + 1)
        PROVE  \E v \in versions : k <= Len(v) /\ response'.data[k] = v[k]
    <3>1. CASE k \in 1..n
      BY <1>7, <2>1, <3>1
    <3>2. CASE k = n + 1
      BY <1>7, <2>2, <3>2
    <3> QED
      BY <2>3, <3>1, <3>2
  <2> QED
    BY <1>1, <1>7, <2>4 DEF BlocksFit
<1> HIDE DEF n, next
<1> QED
  BY <1>1, <1>2, <1>6, <1>8 DEF StreamFits, ContentType, Openable

(* Other programs move the name or rewrite a file, never what was read.    *)
LEMMA LinkFits ==
  ASSUME ParserInv, pc = "read", NEW inode \in Inode \cup {None}, Link(inode)
  PROVE  StreamFits'
<1>1. /\ page' = page /\ stream' = stream /\ response' = response
      /\ contents' = contents /\ versions' = versions
      /\ named' = named \cup {inode}
  BY DEF Link, parser
<1>2. StreamFits /\ named # {}
  BY DEF ParserInv, LookedUp
<1>3. \A i \in Inode : named' = {i} => named = {i}
  BY <1>1, <1>2
<1> QED
  BY <1>1, <1>2, <1>3 DEF StreamFits, BlocksFit, ContentType, Openable

LEMMA WriteFits ==
  ASSUME ParserInv, pc = "read", NEW inode \in Inode, NEW c \in Contents,
         Write(inode, c)
  PROVE  StreamFits'
<1>1. /\ page' = page /\ stream' = stream /\ response' = response
      /\ contents' = [contents EXCEPT ![inode] = c]
      /\ versions' = IF inode = stream THEN versions \cup {c} ELSE versions
      /\ named' = named
  BY DEF Write, parser
<1>2. StreamFits /\ stream \in Inode \cup {None}
      /\ contents \in [Inode -> Contents]
  BY DEF ParserInv, TypeOK
<1>3. versions \subseteq versions'
  BY <1>1
<1>4. stream # None => contents'[stream] \in versions' /\ BlocksFit'
  <2>1. stream # None => contents'[stream] \in versions'
    BY <1>1, <1>2 DEF StreamFits
  <2>2. BlocksFit => BlocksFit'
    BY <1>1, <1>3 DEF BlocksFit
  <2> QED
    BY <1>2, <2>1, <2>2 DEF StreamFits
<1> QED
  BY <1>1, <1>2, <1>4 DEF StreamFits, ContentType, Openable

(* The end is noticed at the end of the file only.                         *)
LEMMA EndCompletes == ParserInv /\ ReadEnd => StreamFits' /\ Complete'
<1> SUFFICES ASSUME ParserInv, ReadEnd PROVE StreamFits' /\ Complete'
  OBVIOUS
<1>1. /\ pc = "read" /\ page' = page /\ named' = named
      /\ contents' = contents /\ versions' = versions /\ stream' = stream
      /\ response' = response
      /\ stream # None => ~(Len(response.data) < Len(contents[stream]))
  BY DEF ReadEnd, More, files, history
<1>2. StreamFits /\ TypeOK
  BY <1>1 DEF ParserInv
<1>3. ASSUME stream # None
      PROVE  \E v \in versions : Len(v) <= Len(response.data)
  <2>1. /\ response.data \in Seq(Block \cup {Text})
        /\ contents[stream] \in Seq(Block)
    BY <1>2, <1>3, ParserAssumption DEF TypeOK, Response
  <2>2. Len(response.data) \in Nat /\ Len(contents[stream]) \in Nat
    BY <2>1, LenProperties
  <2> QED
    BY <1>1, <1>2, <1>3, <2>2 DEF StreamFits
<1> QED
  BY <1>1, <1>2, <1>3 DEF StreamFits, BlocksFit, Complete, ContentType,
     Openable
-----------------------------------------------------------------------------
(* Steps that leave alone what an answer is judged by.                     *)
LEMMA AnswerKept ==
  ASSUME UNCHANGED <<page, stream, response, named, versions, contents>>
  PROVE  /\ StreamFits => StreamFits'
         /\ GetAnswer => GetAnswer'
BY DEF StreamFits, BlocksFit, GetAnswer, Complete, ContentType, Openable,
       NotFound

LEMMA ParserInvNext == ParserInv /\ [Next]_vars => ParserInv'
<1> SUFFICES ASSUME ParserInv, [Next]_vars PROVE ParserInv'
  OBVIOUS
<1>1. TypeOK'
  BY TypeNext DEF ParserInv
<1>2. ASSUME NEW name \in HandlerNames, SetPostRequestHandler(name)
      PROVE  ParserInv'
  BY <1>1, <1>2 DEF SetPostRequestHandler, ParserInv, LookedUp, files, history
<1>3. CASE OnData
  BY <1>1, <1>3 DEF OnData, ParserInv, LookedUp, files, history
<1>4. CASE DispatchUnknown \/ ResourceThrows
  BY <1>1, <1>4 DEF DispatchUnknown, ResourceThrows, ParserInv, LookedUp, files, history
<1>5. CASE DispatchGet
  BY <1>1, <1>5, ParserAssumption
  DEF DispatchGet, ParserInv, LookedUp, TypeOK, files, history
<1>6. CASE DispatchPost
  BY <1>1, <1>6 DEF DispatchPost, ParserInv, LookedUp, files, history
<1>7. CASE ExistsThrows
  BY <1>1, <1>7 DEF ExistsThrows, ParserInv, LookedUp, files, history
<1>8. CASE Exists
  <2>1. /\ pc = "exists" /\ page \in Resource /\ request.type = "GET"
        /\ entry[page] \in Inode \cup {None}
        /\ entry' = entry /\ page' = page /\ request' = request
        /\ named' = {entry[page]}
        /\ IF entry[page] = None
           THEN response' = NotFound /\ pc' = "craft"
           ELSE pc' = "open"
    BY <1>8 DEF Exists, ParserInv, LookedUp, TypeOK, files
  <2>2. entry[page] = None => GetAnswer'
    BY <2>1 DEF GetAnswer, NotFound
  <2>3. entry[page] # None => named' \cap Inode # {}
    BY <2>1
  <2>4. entry'[page'] \in named'
    BY <2>1
  <2>5. CASE entry[page] = None
    BY <1>1, <2>1, <2>2, <2>5 DEF ParserInv, LookedUp
  <2>6. CASE entry[page] # None
    <3>1. pc' = "open"
      BY <2>1, <2>6
    <3> QED
      BY <1>1, <2>1, <2>3, <2>4, <2>6, <3>1 DEF ParserInv, LookedUp
  <2> QED
    BY <2>5, <2>6
<1>9. CASE Open
  <2>1. StreamFits'
    BY <1>9, OpenFits
  <2> QED
    BY <1>1, <1>9, <2>1
    DEF Open, OpenIf, ParserInv, LookedUp, files, history
<1>10. CASE Read
  <2>1. StreamFits'
    BY <1>10, ReadFits
  <2> QED
    BY <1>1, <1>10, <2>1
    DEF Read, ReadFrom, ParserInv, LookedUp, files, history
<1>11. CASE ReadEnd
  <2>1. StreamFits' /\ Complete'
    BY <1>11, EndCompletes
  <2> QED
    BY <1>1, <1>11, <2>1
    DEF ReadEnd, ParserInv, LookedUp, GetAnswer, files, history
<1>12. CASE Post
  BY <1>1, <1>12 DEF Post, ParserInv, LookedUp, files, history
<1>13. CASE CraftResponseMessage
  <2>1. GetAnswer => GetAnswer'
    BY <1>13, AnswerKept DEF CraftResponseMessage, Craft, files, history
  <2> QED
    BY <1>1, <1>13, <2>1
    DEF CraftResponseMessage, Craft, ParserInv, LookedUp, files, history
<1>14. ASSUME NEW inode \in Inode \cup {None}, Link(inode)
       PROVE  ParserInv'
  <2>1. pc = "read" => StreamFits'
    BY <1>14, LinkFits
  <2>2. /\ pc \in {"open", "read"} /\ pc' = pc /\ page' = page
        /\ request' = request
        /\ entry' = [entry EXCEPT ![page] = inode]
        /\ named' = named \cup {inode}
        /\ entry \in [Resource -> Inode \cup {None}] /\ page \in Resource
    BY <1>14 DEF Link, Running, parser, ParserInv, LookedUp, TypeOK
  <2>3. entry'[page] = inode
    BY <2>2
  <2> QED
    BY <1>1, <2>1, <2>2, <2>3 DEF ParserInv, LookedUp
<1>15. ASSUME NEW inode \in Inode, NEW c \in Contents, Write(inode, c)
       PROVE  ParserInv'
  <2>1. pc = "read" => StreamFits'
    BY <1>15, WriteFits
  <2> QED
    BY <1>1, <1>15, <2>1 DEF Write, Running, parser, ParserInv, LookedUp
<1>16. CASE UNCHANGED vars
  <2>1. (StreamFits => StreamFits') /\ (GetAnswer => GetAnswer')
    BY <1>16, AnswerKept DEF vars, parser, files, history
  <2> QED
    BY <1>1, <1>16, <2>1 DEF vars, parser, files, history, ParserInv, LookedUp
<1> QED
  BY <1>2, <1>3, <1>4, <1>5, <1>6, <1>7, <1>8, <1>9, <1>10, <1>11, <1>12, <1>13,
     <1>14, <1>15, <1>16 DEF Next, Environment

(* The strengthening that the theorems below follow from.                  *)
THEOREM Invariance == Spec => []ParserInv
BY ParserInvInit, ParserInvNext, PTL DEF Spec
-----------------------------------------------------------------------------
LEMMA AnswerImplied == ParserInv => AnswerWasTrue
<1> SUFFICES ASSUME ParserInv, Answered, request.type = "GET"
             PROVE  AnswerWasTrue
  BY DEF AnswerWasTrue
<1>1. GetAnswer /\ message[2] = response /\ stream \in Inode \cup {None}
  BY DEF Answered, ParserInv, TypeOK
<1>2. CASE response = NotFound /\ named = {None}
  BY <1>1, <1>2 DEF AnswerWasTrue
<1>3. CASE StreamFits /\ Complete
  <2>1. /\ response.code = 200 /\ response.type = ContentType(page)
        /\ named \cap Inode # {}
    BY <1>3 DEF StreamFits
  <2>2. CASE stream = None
    <3>1. response.data = <<>> /\ \E i \in named : ~Openable(page, i)
      BY <1>3, <2>2 DEF StreamFits
    <3> QED
      BY <1>1, <2>1, <2>2, <3>1 DEF AnswerWasTrue
  <2>3. CASE stream # None
    <3>1. stream \in named \cap Inode
      BY <1>1, <1>3, <2>3 DEF StreamFits
    <3>2. ReadThrough(response.data)
      BY <1>3, <2>3 DEF StreamFits, BlocksFit, Complete, ReadThrough
    <3> QED
      BY <1>1, <2>1, <3>1, <3>2 DEF AnswerWasTrue
  <2> QED
    BY <2>2, <2>3
<1> QED
  BY <1>1, <1>2, <1>3 DEF GetAnswer

(* What is read through a file that has one version is that version.       *)
LEMMA OneVersion ==
  ASSUME NEW v \in Seq(Block \cup {Text}), versions \subseteq {v},
         NEW data \in Seq(Block \cup {Text}), ReadThrough(data)
  PROVE  data = v
<1>1. Len(data) \in Nat /\ Len(v) \in Nat
  BY LenProperties
<1>2. Len(v) <= Len(data)
  BY DEF ReadThrough
<1>3. \A k \in 1..Len(data) : k <= Len(v) /\ data[k] = v[k]
  BY DEF ReadThrough
<1>4. Len(data) <= Len(v)
  BY <1>1, <1>3
<1> QED
  BY <1>1, <1>2, <1>3, <1>4, SeqEqual

LEMMA StableImplied == ParserInv => StableFileServed
<1> SUFFICES ASSUME ParserInv, Answered, request.type = "GET",
                    NEW i \in Inode \ Directories,
                    named = {i}, Openable(page, i),
                    versions \subseteq {contents[i]}
             PROVE  message[2] = [code |-> 200, type |-> ContentType(page),
                                  data |-> contents[i]]
  BY DEF StableFileServed
<1>1. /\ GetAnswer /\ message[2] = response /\ response \in Response
      /\ response.data \in Seq(Block \cup {Text})
  <2>1. GetAnswer /\ message[2] = response /\ response \in Response
    BY DEF Answered, ParserInv, TypeOK
  <2> QED
    BY <2>1 DEF Response
<1>2. i # None
  BY ParserAssumption
<1>3. StreamFits /\ Complete
  BY <1>1, <1>2 DEF GetAnswer
<1>4. stream = i
  BY <1>3 DEF StreamFits
<1>5. ReadThrough(response.data)
  BY <1>2, <1>3, <1>4 DEF StreamFits, BlocksFit, Complete, ReadThrough
<1>6. contents[i] \in Seq(Block \cup {Text})
  <2>1. contents[i] \in Seq(Block)
    BY ParserAssumption DEF ParserInv, TypeOK
  <2> QED
    BY <2>1, SeqMonotonic
<1>7. response.data = contents[i]
  BY <1>1, <1>5, <1>6, OneVersion
<1>8. /\ response.code = 200
      /\ response.type = ContentType(page)
  BY <1>3 DEF StreamFits
<1> QED
  BY <1>1, <1>7, <1>8 DEF Response

(* The parser's state keeps its types, whatever other programs do.         *)
THEOREM TypeCorrect == Spec => []TypeOK
<1>1. ParserInv => TypeOK
  BY DEF ParserInv
<1> QED
  BY <1>1, Invariance, PTL

(* A GET is told what was so while it was handled, and a body that is sent *)
(* is that of one file, read through its versions from the first block to  *)
(* the last; or it is empty after an open that failed with reason.         *)
THEOREM AnswersTrue == Spec => []AnswerWasTrue
BY AnswerImplied, Invariance, PTL

(* A file that may be opened and that other programs leave alone while it  *)
(* is read is served whole.                                                *)
THEOREM StableServed == Spec => []StableFileServed
BY StableImplied, Invariance, PTL
-----------------------------------------------------------------------------
(* What the accept loop can get from the parser.                           *)

Handled == request.type \in {"GET", "POST"}

\* The answer of a POST: its handler's, or the response as it was declared.
PostResponse ==
  IF page \in _postCallbacks THEN response = TestHandler
  ELSE \E code \in Code : response = Blank(code)

\* Of the three outcomes that the accept loop knows, a message is what a GET
\* and a POST get, and nothing else; its version is that of the request.  An
\* exception leaves OnData in two places only.
Outcomes ==
  /\ pc = "returned" /\ ~Handled => message = EmptyMessage
  /\ pc = "returned" /\ Handled => message = <<request.version, response>>
  /\ pc = "returned" /\ request.type = "POST" => PostResponse
  /\ pc = "threw" =>
       Handled /\ (request.resource = NotCut \/ page \in Unreachable)

OutcomeInv ==
  /\ Outcomes
  /\ pc # "setup" => _httpVersion = request.version
  /\ pc # "returned" => message = EmptyMessage
  /\ pc \in {"exists", "open", "read", "post", "craft"} => Handled
  /\ pc \in {"exists", "open", "read"} => request.type = "GET"
  /\ pc \in {"setup", "dispatch", "post"} =>
       \E code \in Code : response = Blank(code)
  /\ pc = "craft" /\ request.type = "POST" => PostResponse

LEMMA OutcomeInit == Init => OutcomeInv
BY DEF Init, OutcomeInv, Outcomes

LEMMA OutcomeNext == OutcomeInv /\ [Next]_vars => OutcomeInv'
<1> SUFFICES ASSUME OutcomeInv, [Next]_vars PROVE OutcomeInv'
  OBVIOUS
<1> USE DEF OutcomeInv, Outcomes, Handled, PostResponse, files, history
<1>1. ASSUME NEW name \in HandlerNames, SetPostRequestHandler(name)
      PROVE  OutcomeInv'
  BY <1>1 DEF SetPostRequestHandler
<1>2. CASE OnData
  BY <1>2 DEF OnData
<1>3. CASE DispatchUnknown
  BY <1>3 DEF DispatchUnknown
<1>4. CASE ResourceThrows
  BY <1>4 DEF ResourceThrows
<1>5. CASE DispatchGet
  BY <1>5 DEF DispatchGet
<1>6. CASE DispatchPost
  BY <1>6 DEF DispatchPost
<1>7. CASE ExistsThrows
  BY <1>7 DEF ExistsThrows
<1>8. CASE Exists
  BY <1>8 DEF Exists
<1>9. CASE Open
  BY <1>9 DEF Open, OpenIf
<1>10. CASE Read
  BY <1>10 DEF Read, ReadFrom
<1>11. CASE ReadEnd
  BY <1>11 DEF ReadEnd
<1>12. CASE Post
  BY <1>12 DEF Post
<1>13. CASE CraftResponseMessage
  BY <1>13 DEF CraftResponseMessage, Craft
<1>14. CASE Environment
  BY <1>14 DEF Environment, Link, Write, parser
<1>15. CASE UNCHANGED vars
  BY <1>15 DEF vars, parser
<1> QED
  BY <1>1, <1>2, <1>3, <1>4, <1>5, <1>6, <1>7, <1>8, <1>9, <1>10, <1>11,
     <1>12, <1>13, <1>14, <1>15 DEF Next

(* The parser has the outcomes that AcceptLoop takes for granted, each for *)
(* the requests that the code has it for.                                  *)
THEOREM OutcomesKnown == Spec => []Outcomes
<1>1. OutcomeInv => Outcomes
  BY DEF OutcomeInv
<1> QED
  BY <1>1, OutcomeInit, OutcomeNext, PTL DEF Spec
-----------------------------------------------------------------------------
(* Why an answer comes.                                                    *)

Stage ==
  CASE pc = "setup" -> 6   [] pc = "dispatch" -> 5  [] pc = "exists" -> 4
    [] pc = "open" -> 3    [] pc \in {"read", "post"} -> 2
    [] pc = "craft" -> 1   [] OTHER -> 0

\* One block more of the file that is open, as long as it is now.
ReadsOn ==
  /\ pc = "read" /\ pc' = "read"
  /\ stream' = stream /\ stream # None
  /\ Len(response'.data) = Len(response.data) + 1
  /\ Len(response'.data) <= Len(contents[stream])

\* Every step is the main program's that sets a handler, other programs', one
\* to a later stage, or one in the loop that reads the file.
Onward ==
  \/ pc = "setup" /\ UNCHANGED <<pc, page, stream, response, message>>
  \/ UNCHANGED parser
  \/ Stage' < Stage
  \/ ReadsOn

(* An answer is held up by nothing but other programs that make a file     *)
(* longer while it is read, for any names and files.                       *)
THEOREM GoesOnward == Spec => [][Onward]_vars
<1>1. ParserInv /\ [Next]_vars => [Onward]_vars
  <2> SUFFICES ASSUME TypeOK, Next PROVE Onward
    BY DEF ParserInv
  <2> USE DEF Onward, Stage
  <2>1. ASSUME NEW name \in HandlerNames, SetPostRequestHandler(name)
        PROVE  Onward
    BY <2>1 DEF SetPostRequestHandler
  <2>2. CASE OnData \/ DispatchUnknown \/ ResourceThrows \/ DispatchGet
    BY <2>2 DEF OnData, DispatchUnknown, ResourceThrows, DispatchGet
  <2>3. CASE DispatchPost \/ ExistsThrows \/ Exists \/ Open
    BY <2>3 DEF DispatchPost, ExistsThrows, Exists, Open, OpenIf
  <2>4. CASE ReadEnd \/ Post \/ CraftResponseMessage
    BY <2>4 DEF ReadEnd, Post, CraftResponseMessage, Craft
  <2>5. CASE Read
    <3>1. /\ pc = "read" /\ pc' = "read" /\ stream' = stream
          /\ stream \in Inode /\ stream # None
          /\ Len(response.data) < Len(contents[stream])
          /\ response' = [response EXCEPT !.data =
               Append(@, contents[stream][Len(response.data) + 1])]
      BY <2>5 DEF Read, ReadFrom, More, TypeOK
    <3>2. response \in Response /\ response.data \in Seq(Block \cup {Text})
      BY DEF TypeOK, Response
    <3>3. response'.data =
            Append(response.data, contents[stream][Len(response.data) + 1])
      BY <3>1, <3>2 DEF Response
    <3>4. Len(response.data) \in Nat /\ Len(contents[stream]) \in Nat
      BY <3>1, <3>2, ReadTypes, LenProperties
    <3>5. Len(response'.data) = Len(response.data) + 1
      BY <3>2, <3>3
    <3> QED
      BY <3>1, <3>4, <3>5 DEF ReadsOn
  <2>6. CASE Environment
    BY <2>6 DEF Environment, Link, Write
  <2> QED
    BY <2>1, <2>2, <2>3, <2>4, <2>5, <2>6 DEF Next
<1> QED
  BY <1>1, Invariance, PTL DEF Spec
=============================================================================
