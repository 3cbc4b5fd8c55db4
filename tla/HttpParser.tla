----------------------------- MODULE HttpParser -----------------------------
(***************************************************************************)
(* HttpParser::OnData for one request, step by step, while other programs  *)
(* change the files it looks at.                                           *)
(*                                                                         *)
(* A request is reduced to its type, its version and the resource that     *)
(* DetermineResourceRequest finds in it (module PathSanitizer), a message  *)
(* to the response and the version it is made of.  A name leads to an      *)
(* inode, and an open stream keeps its inode wherever the name leads later.*)
(***************************************************************************)
EXTENDS Naturals, Sequences

CONSTANTS
  RequestType,  \* fRequestTypes, and NoType for what begins with none of them
  Version,      \* what the regex finds in a request
  NoVersion,    \* the empty match
  Resource,     \* names of files and of POST handlers
  NoResource,   \* the empty name: the root
  NotCut,       \* a request of which substr throws, see PathSanitizer
  IndexPage,    \* "index.html"
  HtmlPages, IcoPages,  \* names that end so
  HandlerNames, \* names the program sets a POST handler for
  Unreachable,  \* names that exists throws for
  Inode, None,
  Directories, Unreadable, ReadOnly,  \* inodes
  Block,
  Contents,     \* what a file may hold, as sequences of blocks
  Text,         \* a body that the program has ready
  Code          \* the values of a uint16_t

ASSUME ParserAssumption ==
  /\ {"GET", "POST"} \subseteq RequestType
  /\ NoVersion \in Version
  /\ NoResource \notin Resource
  /\ NotCut \notin Resource \cup {NoResource}
  /\ IndexPage \in Resource
  /\ HandlerNames \subseteq Resource
  /\ None \notin Inode
  /\ Contents \subseteq Seq(Block)
  /\ <<>> \in Contents
  /\ {200, 404} \subseteq Code

VARIABLES
  request,      \* [type, version, resource]
  _httpVersion,
  _postCallbacks,  \* the names with a POST handler
  page,         \* aRequestPage
  stream,       \* aFileStream: its inode, None when open failed
  response,     \* aResponse
  message,      \* what OnData returns
  pc,
  entry,        \* what each name leads to, None if there is no such file
  contents,     \* the blocks of each inode
  named,        \* history: all that page has led to since it was looked up
  versions      \* history: all that the open stream's inode has held since

parser == <<request, _httpVersion, _postCallbacks, page, stream, response,
            message, pc>>
files == <<entry, contents>>
history == <<named, versions>>
vars == <<parser, files, history>>

Response ==
  [code : Code, type : {"text/html", "image/x-icon", "text/plain", ""},
   data : Seq(Block \cup {Text})]

\* The response as a local variable finds it: its code was never assigned.
Blank(code) == [code |-> code, type |-> "", data |-> <<>>]

EmptyMessage == <<>>

TypeOK ==
  /\ request \in [type : RequestType, version : Version,
                  resource : Resource \cup {NoResource, NotCut}]
  /\ _httpVersion \in Version
  /\ _postCallbacks \subseteq Resource
  /\ page \in Resource \cup {NoResource}
  /\ stream \in Inode \cup {None}
  /\ response \in Response
  /\ message \in {EmptyMessage} \cup (Version \X Response)
  /\ pc \in {"setup", "dispatch", "exists", "open", "read", "post", "craft",
             "returned", "threw"}
  /\ entry \in [Resource -> Inode \cup {None}]
  /\ contents \in [Inode -> Contents]
  /\ named \subseteq Inode \cup {None}
  /\ versions \subseteq Contents

Init ==
  /\ request \in [type : RequestType, version : Version,
                  resource : Resource \cup {NoResource, NotCut}]
  /\ _httpVersion = NoVersion
  /\ _postCallbacks = {}
  /\ page = NoResource
  /\ stream = None
  /\ \E code \in Code : response = Blank(code)
  /\ message = EmptyMessage
  /\ pc = "setup"
  /\ entry \in [Resource -> Inode \cup {None}]
  /\ contents \in [Inode -> Contents]
  /\ \A i \in Directories : contents[i] = <<>>
  /\ named = {}
  /\ versions = {}
-----------------------------------------------------------------------------
(* The parser.                                                             *)

\* A second handler for a name is not kept.
SetPostRequestHandler(name) ==
  /\ pc = "setup"
  /\ _postCallbacks' = _postCallbacks \cup {name}
  /\ UNCHANGED <<request, _httpVersion, page, stream, response, message, pc,
                 files, history>>

OnData ==
  /\ pc = "setup"
  /\ _httpVersion' = request.version
  /\ pc' = "dispatch"
  /\ UNCHANGED <<request, _postCallbacks, page, stream, response, message,
                 files, history>>

\* Only GET and POST have a handler.
DispatchUnknown ==
  /\ pc = "dispatch"
  /\ request.type \notin {"GET", "POST"}
  /\ pc' = "returned"
  /\ UNCHANGED <<request, _httpVersion, _postCallbacks, page, stream, response,
                 message, files, history>>

ResourceThrows ==
  /\ pc = "dispatch"
  /\ request.type \in {"GET", "POST"}
  /\ request.resource = NotCut
  /\ pc' = "threw"
  /\ UNCHANGED <<request, _httpVersion, _postCallbacks, page, stream, response,
                 message, files, history>>

DispatchGet ==
  /\ pc = "dispatch"
  /\ request.type = "GET"
  /\ request.resource # NotCut
  /\ page' = IF request.resource = NoResource THEN IndexPage
             ELSE request.resource
  /\ pc' = "exists"
  /\ UNCHANGED <<request, _httpVersion, _postCallbacks, stream, response,
                 message, files, history>>

DispatchPost ==
  /\ pc = "dispatch"
  /\ request.type = "POST"
  /\ request.resource # NotCut
  /\ page' = request.resource
  /\ pc' = "post"
  /\ UNCHANGED <<request, _httpVersion, _postCallbacks, stream, response,
                 message, files, history>>

ExistsThrows ==
  /\ pc = "exists"
  /\ page \in Unreachable
  /\ pc' = "threw"
  /\ UNCHANGED <<request, _httpVersion, _postCallbacks, page, stream, response,
                 message, files, history>>

NotFound == [code |-> 404, type |-> "text/plain", data |-> <<Text>>]

Exists ==
  /\ pc = "exists"
  /\ page \notin Unreachable
  /\ IF entry[page] = None
     THEN response' = NotFound /\ pc' = "craft"
     ELSE pc' = "open" /\ UNCHANGED response
  /\ named' = {entry[page]}
  /\ UNCHANGED <<request, _httpVersion, _postCallbacks, page, stream, message,
                 files, versions>>

\* The stream of an icon asks for write permission too.
Openable(name, inode) ==
  /\ inode # None
  /\ inode \notin Unreadable
  /\ name \in IcoPages => inode \notin Directories \cup ReadOnly

ContentType(name) ==
  IF name \in HtmlPages THEN "text/html"
  ELSE IF name \in IcoPages THEN "image/x-icon"
  ELSE "text/plain"

\* That open fails is not looked at.
OpenIf(opened) ==
  /\ pc = "open"
  /\ stream' = IF opened THEN entry[page] ELSE None
  /\ response' = [code |-> 200, type |-> ContentType(page), data |-> <<>>]
  /\ pc' = "read"
  /\ versions' = IF opened THEN {contents[entry[page]]} ELSE {}
  /\ UNCHANGED <<request, _httpVersion, _postCallbacks, page, message, files,
                 named>>

\* Mutant: every file is opened the way icons are.
OpenForUpdate ==
  OpenIf(Openable(page, entry[page]) /\ entry[page] \notin ReadOnly)

Open == OpenIf(Openable(page, entry[page]))

\* There is a next block.  A directory opens, but read fails at once.
More(inode) ==
  /\ inode # None
  /\ Len(response.data) < Len(contents[inode])

ReadFrom(inode) ==
  /\ pc = "read"
  /\ More(inode)
  /\ response' = [response EXCEPT
       !.data = Append(@, contents[inode][Len(response.data) + 1])]
  /\ UNCHANGED <<request, _httpVersion, _postCallbacks, page, stream, message,
                 pc, files, history>>

\* Mutant: the file is looked up by its name for every block.
ReadByName == ReadFrom(entry[page])

Read == ReadFrom(stream)

ReadEnd ==
  /\ pc = "read"
  /\ ~More(stream)
  /\ pc' = "craft"
  /\ UNCHANGED <<request, _httpVersion, _postCallbacks, page, stream, response,
                 message, files, history>>

\* The handler that main sets.
TestHandler == [code |-> 200, type |-> "text/plain", data |-> <<Text>>]

\* Without a handler the response stays as it is.
Post ==
  /\ pc = "post"
  /\ response' = IF page \in _postCallbacks THEN TestHandler ELSE response
  /\ pc' = "craft"
  /\ UNCHANGED <<request, _httpVersion, _postCallbacks, page, stream, message,
                 files, history>>

Craft(parts) ==
  /\ pc = "craft"
  /\ message' = parts
  /\ pc' = "returned"
  /\ UNCHANGED <<request, _httpVersion, _postCallbacks, page, stream, response,
                 files, history>>

\* Mutant: the status line begins with the code.
CraftWithoutVersion == Craft(<<response>>)

CraftResponseMessage == Craft(<<_httpVersion, response>>)
-----------------------------------------------------------------------------
(* Other programs.                                                         *)

Running == pc \in {"open", "read"}

\* The name is taken away or leads to another file; rename does it in one
\* step.  Nobody looks at other names.
Link(inode) ==
  /\ Running
  /\ entry' = [entry EXCEPT ![page] = inode]
  /\ named' = named \cup {inode}
  /\ UNCHANGED <<parser, contents, versions>>

Write(inode, c) ==
  /\ Running
  /\ contents' = [contents EXCEPT ![inode] = c]
  /\ versions' = IF pc = "read" /\ inode = stream THEN versions \cup {c}
                 ELSE versions
  /\ UNCHANGED <<parser, entry, named>>

Environment ==
  \/ \E inode \in Inode \cup {None} : Link(inode)
  \/ \E inode \in Inode \ Directories, c \in Contents : Write(inode, c)

Next ==
  \/ \E name \in HandlerNames : SetPostRequestHandler(name)
  \/ OnData
  \/ DispatchUnknown \/ ResourceThrows \/ DispatchGet \/ DispatchPost
  \/ ExistsThrows \/ Exists \/ Open \/ Read \/ ReadEnd \/ Post
  \/ CraftResponseMessage
  \/ Environment

Spec == Init /\ [][Next]_vars
-----------------------------------------------------------------------------
Answered == pc = "returned" /\ message # EmptyMessage

\* data is what a reader gets of a file that has held these versions while it
\* was read: every block is that of one of them in its place, and the last one
\* the end of one of them.  Of one version alone that is the whole of it.
ReadThrough(data) ==
  /\ \A k \in 1..Len(data) :
       \E v \in versions : k <= Len(v) /\ data[k] = v[k]
  /\ \E v \in versions : Len(v) <= Len(data)

\* What a GET is told was so while the request was handled: 404 only if there
\* was no such file, 200 only if there was one.  The body of a 200 is read
\* through one of the files the name has led to, with no block of another, even
\* if the name led to several; only that file itself may have changed under
\* the reader.  A body may also be empty because open failed, which the answer
\* does not tell, but then the name did lead to what the program cannot open:
\* nothing any more, no permission, an icon it may not write to.
AnswerWasTrue ==
  Answered /\ request.type = "GET" =>
    LET answer == message[2] IN
    \/ answer = NotFound /\ None \in named
    \/ /\ answer.code = 200 /\ answer.type = ContentType(page)
       /\ named \cap Inode # {}
       /\ \/ stream \in named \cap Inode /\ ReadThrough(answer.data)
          \/ /\ stream = None /\ answer.data = <<>>
             /\ \E i \in named : ~Openable(page, i)

\* A file that its name always led to, that the program may open (an icon for
\* writing too) and that stays as it is while it is read, is served whole and
\* under its own type.
StableFileServed ==
  Answered /\ request.type = "GET" =>
    \A i \in Inode \ Directories :
      named = {i} /\ Openable(page, i) /\ versions \subseteq {contents[i]} =>
        message[2] = [code |-> 200, type |-> ContentType(page),
                      data |-> contents[i]]
=============================================================================
