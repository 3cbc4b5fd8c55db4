# A verification project for CppWebserver

TLA+ models of the programs in this repository, TLC runs that check them on
small instances, and TLAPS proofs of what matters most for every instance.

## 1. The system and its parts

The repository is a web server written to learn socket programming: a small
socket library, an HTTP handler and the program that joins them, and around
them exercises with sockets and threads.

| Part | Sources | State it keeps | Operations | Interaction |
|---|---|---|---|---|
| Accept loop | `libs/Networking/Sockets/SocketIPv4.cpp` `Run` | the listening socket `_sockfd`, `connfd`, the callbacks; the kernel keeps descriptors, the accept queue and the process table | accept, fork, close in parent and child, start the reader thread, call the handler, write, exit | forks one process per connection; the child calls `HandleRead` in a `std::async` thread, then the data handler |
| Request reading | same file, `HandleRead`, `endsWith` | `buffer`, `fBytesRead`, `fBufferData`, `_terminator` | read, append, test for the terminator | reads what TCP delivers from the client |
| Socket set-up | `Socket.cpp`, `SocketIPv4.cpp` `CreateTcpSocket`, `Bind`, `Connect` | `_sockfd`, options | socket, setsockopt, bind, listen, connect | results are returned and mostly ignored by callers |
| HTTP handler | `SimpleWebServer/HttpParser.cpp` | `_httpVersion`, `_callbacks`, `_postCallbacks` | `OnData`, GET from the file system, POST by callback, path clean-up, response text | called by the child with the request; reads files other programs may change |
| Web server | `SimpleWebServer/WebServer.cpp` | - | parse the port, bind, listen, register handlers, `Run` | joins library and handler |
| Wrappers | `UNP_Exercises/libs/Wrappers` | a copy of the socket library | the same | used by the daytime programs |
| Daytime | `UNP_Exercises/intro/daytimetcp{srv,cli}.cpp` | - | server: accept loop without data handler; client: read until the end | each waits for the other |
| Two-way test server | `TestCode/TcpServer.cpp` | `connfd` shared by two threads | read loop, write loop | one thread per direction |
| Single-shot pair | `server.c`, `client.c` | - | one request, one answer; the client reads for ever | |
| Parallel sum | `Concurrency/thread_number.cpp` | `results`, `threads` | partition, spawn, join, sum | threads write disjoint slots |
| Thread lifetime | `Concurrency/thread_wait.cpp`, `thread_ownership.cpp`, `thread_exception.cpp`, `thread_args.cpp`, `hello_world.cpp` | `std::thread` objects, the variables their threads write to | join, detach, move, guard destructors | threads use variables of functions that may have returned |
| Demonstrations | the files of `Concurrency/C++11_Features`, `LinuxSpecific/`, `TestCode/inheritance.cpp`, `byteorder.c`, `UNP_Exercises/unp.cpp`, `Chapter3` | none that outlives a statement | | not modelled: one language feature or system call each |
| Code generator, `unp.h` | `Concurrency/CodeGenerator`, `unp.h` | none | | not modelled: text output; a third-party header |

What is hard here is written down as `hazards` in `PROJECT.json`, each at its
line.  In short: parent and child run at once and share sockets through their
descriptors; every system call may fail and most results are not looked at;
nobody waits for the children; TCP cuts messages anywhere; a message's end is
found by its last bytes; no read has a timeout; files change between a test
and a use; unsigned positions wrap; detached threads outlive what they use; what
one of these programs waits for another may never say.

What makes each part correct:

- accept loop: every connection is served by one process, in the order of
  arrival, is answered at most once and while it is open, ends for its client
  whatever fails, does not wait for other clients, and leaves the port free;
- request reading: the request is put together exactly as sent, is handed on
  whole and as soon as it is complete;
- HTTP handler: a response was true at some moment of the request and its body
  is that of one file; what is opened has no traversal sequence in its name (an
  absolute name is not prevented: `//etc/passwd` leaves `/etc/passwd`); every
  request gets a response;
- set-up: a server listens at the port it was told, or it is known when not;
- sessions of a server with a client: they wait for each other only where one
  has not said what the other reads for (the daytime programs always do), a
  client that sends one request is not cut off by the way a server closes, and
  a server notices the end;
- parallel sum: every element is added exactly once, results are read after
  the joins;
- thread lifetime: a thread has one owner at a time, is joined or detached
  once, uses no variable that is gone, and is waited for on every path.

## 2. Modules

| Module | What it is |
|---|---|
| `ConnectionService` | abstract specification: what the library promises about a connection |
| `AcceptLoop` | `SocketIPv4::Run`: server process, children, descriptors, limits, clients |
| `AcceptLoopProofs` | inductive invariant of `AcceptLoop` and its consequences, proved |
| `AcceptLoopRefinement` | proof that `AcceptLoop` implements `ConnectionService` |
| `HandleRead` | `SocketIPv4::HandleRead` and `endsWith` |
| `HandleReadProofs` | its safety properties, proved |
| `PathSanitizer` | `DetermineResourceRequest` and `RemoveTraversalSequences` |
| `PathSanitizerProofs` | its safety properties, proved |
| `HttpParser` | `HttpParser::OnData` and its handlers, against files that change |
| `HttpParserProofs` | its safety properties, proved |
| `ParallelAccumulate` | `parallel_accumulate` with its threads |
| `ParallelAccumulateProofs` | its safety properties, proved |
| `ThreadLifetime` | the other programs that start threads, over one model of `std::thread` |
| `ThreadLifetimeProofs` | its safety properties, proved |
| `Startup` | how the four servers come to listen and the four clients to be connected |
| `Sessions` | one of the servers and one of the clients from start to end; extends `Startup` and takes `HandleRead` twice, with and without a terminator |
| `SessionsProofs` | its safety properties, proved with lemmas of `HandleReadProofs` |
| `MC*` | constants and symmetry for TLC |

`AcceptLoop` leaves out what `HandleRead` and `HttpParser` do: it takes when
the first returns and which of three outcomes the second has (a message, an
empty one, an exception).  `HandleRead` and `HttpParser` say when and with what
that happens; `HttpParser` in turn takes the resource, or the exception, that
`PathSanitizer` computes.  `Sessions` puts the accept loop and `HandleRead`
together for one client, and adds what `AcceptLoop` abstracts from: the bytes
on the way, and the kind of end that TCP makes of a close.

### AcceptLoop

One action per step of `Run` that another process can see.

| Code (`SocketIPv4.cpp`) | Action |
|---|---|
| 62 `accept` returns a connection | `Accept` |
| 62-65 `accept` fails, `Run` returns, `main` returns | `AcceptFails` |
| 68 `fork` | `Fork`, `ForkFails` (-1 takes the parent's path) |
| 87 `close(connfd)` in the parent | `ServerCloses` |
| 69-72 `close(_sockfd)` and the accept callback in the child | `ChildClosesListener` |
| 74-75 `std::async` | `SpawnReader`, `SpawnReaderThrows` |
| 76 `get` | `ReadReturns` |
| 78-80 data handler | `HandleData`, `HandlerThrows` |
| 81 `write` | `Write`, `WriteBreaks` (SIGPIPE) |
| 83, 84 `close(connfd)`, `exit(0)` | `ChildCloses`, `ChildExits` |

The kernel is part of the model as far as the code depends on it: a socket lives
as long as a process has a descriptor of it (`Open`); the listening socket's
last close resets the connections in its queue (`ReleaseListener`); zombies and
threads count against `RLIMIT_NPROC` (`Tasks`); children of a dead server are
reaped by init. Clients connect, send a whole request, or leave, when they like.
A client that stays connected need not read: what exceeds the socket buffers
then holds its child in `write` for as long as it likes (`MayBlock`). Those in
`Readers` read what they are sent. `HandleRead` is reduced to when it returns,
and the handler to what it may do: return a message, return an empty one, or
throw. The accept callback only prints and is not a step of its own. A child
that dies while its reader thread runs is not modelled: nothing in `HandleRead`
throws short of exhausted memory.

`ConnectionService` knows neither processes nor descriptors: connections
arrive, are taken in order, are answered, finish, or are all abandoned.
`AcceptLoop!Status` is the refinement mapping: the stage of a connection is
read off the queue, the descriptors and the answers.

### HandleRead

The client's stream is fixed at the start; `delivered` counts what has
arrived, `fBytesRead` what `read` has returned, so a read returns any part of
what is there up to `BUFSIZE + 1` bytes.  `ReadChunk` is one round of the loop
and `ReadEnds` the read that returns 0 or -1.  `<<` on a `char` array stops at
the first NUL, and `CString` does.  The NUL that a full read stores one past
the array (line 101) hits padding: the array has an odd number of bytes and an
aligned start.

### PathSanitizer

| Code (`HttpParser.cpp`) | Action |
|---|---|
| 155-158 positions, `substr` | `Extract` |
| 176-177 one round of the loop | `Skip` |
| 178 `substr` | `Cut` |
| 162 leading slash | `EraseSlash` |

Positions are those of the code, `npos` included, and wrap where they are kept
in an `unsigned`.  The method's name, the word HTTP and an end of line count as
one character each, since nothing looks inside them.

### HttpParser

| Code (`HttpParser.cpp`) | Action |
|---|---|
| 55-58 | `SetPostRequestHandler` |
| 43-48 version, type | `OnData` |
| 48-52 | `DispatchGet`, `DispatchPost`, `DispatchUnknown` |
| 158 `substr` throws | `ResourceThrows` |
| 71 `exists` | `Exists`, `ExistsThrows` |
| 77-91 `open`, unchecked | `Open` |
| 95 `<< rdbuf()`, piece by piece | `Read`, `ReadEnd` |
| 118-128 | `Post` |
| 131-141 | `CraftResponseMessage` |

Other programs (`Link`, `Write`) may give the name to another file, take it away
or rewrite a file in place between any two of these steps. They are only let
loose while the parser is between `exists` and the end of the file: before that
their doings are covered by the choice of the initial files, after it nobody
looks. `named` and `versions` are history variables: what the name has led to
since it was looked up, and what the open file has held since then. The layout
of the message is left out; what the text of `CraftResponseMessage` lacks (no
line end between `Content-Type` and `Connection`, no `Content-Length`) is not
modelled. `fResponseCode` is not initialised by the constructor, so `Init` takes
any value.

### ParallelAccumulate

`Spawn`, `SpawnThrows`, `OwnBlock`, `Join`, `JoinedAll` and `Sum` are lines 34
to 43 of `thread_number.cpp`, `Accumulate` is the thread's body. Elements are
their positions and a sum is the set of what was added, so that an element lost
or added twice shows whatever its value.

### ThreadLifetime

`Launch`, `Join`, `Detach`, `Move` and `Leave` are what `std::thread` does; the
programs are sequences of them.  An object owns a thread or none; if it is
destroyed while it owns one the process ends as `joinable`.

| Program | Actions |
|---|---|
| `thread_wait.cpp` | `Wait*` (main), `Oops*`, `Valid*`; `CountSome`, `CountRest` (the two counting threads) |
| `thread_ownership.cpp` main | `CreateStarts`, `CreateReturns`, `LordTakes`, `TestMoved`, `LordDestroyed`; `PrintLine` |
| a user of its `thread_guard` | `UserCalls`, `GuardTakes`, `GuardChecks` |
| `thread_exception.cpp` | `FStarts`, `Divide`, `GuardJoins`, `FReturns`, `FPrints`; `FuncSome`, `FuncRest` |
| `thread_args.cpp` | `Widget*`, `Member*`, `Unique*`; `UpdateSome`, `UpdateRest` |
| `hello_world.cpp` | `HelloStarts(k)`, `HelloJoins(k)`; `Greet` |

A thread's work is stored in two parts, so that "some of it" can be seen.  A
store into a variable that is gone is undefined: `Store` lets it do nothing,
overwrite a variable that is alive, or end the process.  `thread_guard` (line 7
of `thread_ownership.cpp`) tests the parameter it has just moved from; its
constructor therefore throws whatever it is given, and its destructor never
runs: the class has no user in the repository, `UserCalls` stands for one.  In
`thread_exception.cpp` a division by zero is either dropped by the compiler or
raises SIGFPE, whose handler throws; no `catch` gets that exception, because the
faulting instruction has no handler table.  `Divide` takes both outcomes.  That
a thread cannot be started (`ThreadsLimited`) ends every one of these programs.

### Startup and Sessions

| Code | Action or operator |
|---|---|
| `Socket.cpp` 19, `SocketIPv4.cpp` 12 | `Socket`, `SocketIPv4` |
| `SocketIPv4.cpp` 22, `Socket.cpp` 34, 58 | `Bind`, `Listen`, `Connect` |
| the same lines of `libs/Wrappers` | `WrapperSocket`, ... `WrapperConnect` |
| `WebServer.cpp` 7-20, `daytimetcpsrv.cpp` 8-27, `TcpServer.cpp` 26-46, `server.c` 15-45 | `WebStarts`, `DaytimeStarts`, `TwoWayStarts`, `SingleStarts` |
| `daytimetcpcli.cpp`, `test_daytimeclient.c`, `client.c` up to `connect` | `CliConnects`, `DaytimeClientConnects`, `ClientConnects` |
| `SocketIPv4.cpp` `Run`, both copies | `Run`, `AcceptFails`, `ChildStarts`, `HandleRead`, `WebResponds`, `DaytimeSaysNothing`, `ChildCloses` |
| `TcpServer.cpp` 48, `doRead`, `doWrite`, 53-60 | `TwoWayAccepts`, `TwoWayAcceptFails`, `ReaderReads`, `WriterWrites`, `InputEnds`, `TwoWayExits` |
| `server.c` 47-58 | `SingleAccepts`, `SingleAcceptFails`, `SingleReads`, `SingleSends` |
| the clients' loops | `Sends`, `DaytimeReads`, `ClientReads`, `BrowserReads` |

The servers differ in which results they look at: the web server in none,
`daytimetcpsrv.cpp` in that of the constructor, `TcpServer.cpp` in that of
`setsockopt`, `server.c` in all.  `listen` on a socket that `bind` failed for
binds it to a port of the kernel's choice, and may fail itself; `server.c` exits
then, the others go on to an `accept` that fails.  The port argument is cut to
16 bits.

In `Sessions` the kernel keeps, for the one connection, who holds a descriptor
(`holders`), what the client has still to read (`toClient`: answers, then an
end) and what the server has (`delivered`, `eof`).  `Release` is the close: the
last one ends the connection, with a reset if bytes are left that nobody has
read, and the reset may overtake the answers.  Bytes that come after it are
answered by a reset (`Bounce`).  A write after a reset raises SIGPIPE, which
none of the programs handles.  `client.c` reads on after the end for ever
(`"spin"`); its user may stop it, as that of every client may (`Leaves`).

A browser stands for any other client: it sends one of `BrowserStreams`, then
reads.  Clients send everything they have to say before they read, and none
closes one direction only: none of the programs does.

## 3. Runs

All runs are listed in `PROJECT.json`; `expect: violation` marks the ones that
exhibit a disagreement between the code and what the repository says of it.

| Run | Checks | Bounds |
|---|---|---|
| `accept_all` | `TypeOK`, `OnlyItsOwnConnection`, `ResetOnlyByExit`, `ProcessesInStep`, `ImplementsService`, `EveryRequestEnds`, `PortReleased` | 3 clients, 2 of which read, backlog 2, 3 tasks |
| `accept_answers` | `EveryRequestAnswered` | 3 clients, 2 of which read, 7 tasks |
| `accept_zombies` | `IdleServerForks` (violated) | 3 clients, 3 tasks |
| `read_all` | `TypeOK`, `BufferIsPrefix`, `WholeRequest`, `RequestReturns` | every stream of up to 5 bytes over 3, reads of up to 3 bytes |
| `read_post_body` | `MessageReturns` (violated) | one stream of 7 bytes |
| `path_all` | `TypeOK`, `NoTraversalLeft`, `CutAtFirstClear`, `ThrowsOnBareMethod`, `Returns` | every request of up to 4 characters after the method, every path of up to 7 of `/`, `.` and a letter; positions wrap at 16 |
| `http_get` | `TypeOK`, `AnswerWasTrue`, `StableFileServed` | 3 names, 2 files (one read-only) and a directory, files of 0 or 2 pieces in two versions |
| `threads_all` | `TypeOK`, `OneOwner`, `OnlyDetachedDangles`, `EndsAsWritten`, `PrintedWhole`, `Returns` | every program, threads that may not be to be had |
| `threads_guard` | `GuardAlwaysJoins` (violated) | the same |
| `sessions_all` | `TypeOK`, `ListensAsTold`, `WaitsOnlyForMore`, `CleanEnd`, `ImplementsHandleRead`, `SessionEnds` | 4 servers and 4 clients in every pair; port arguments 0, 3456, 7000, 65001, 65549; one port of the kernel's; a request, one with more after it, one that stops short; 2 lines of input |
| `sessions_daytime` | `DaytimeReadEnds` (violated) | the daytime server and `daytimetcpcli`, the rest as above |
| `parallel_all` | `TypeOK`, `EveryElementOnce`, `NoThreadLeft`, `Returns` | 0 to 17 elements, at least 3 per thread, 0 to 6 hardware threads |

Why these bounds are enough. With three clients one can be served, one handed
over and one waiting at the same time, with a backlog of two the queue can be
full, and three tasks (the server, and two children or one with its reader) make
both `fork` and `std::async` fail in some states and succeed in others.
`Readers` holds two of the three, so the third may keep its child in `write`
while two others are served. With seven tasks three children with their readers
and the server fit, so that `EveryRequestAnswered` is about waiting and not
about limits. `MaxFds = 2` lets the server hold the listening socket and one
connection: enough for the code, and one too few for a server that forgets to
close. A terminator of two bytes and reads of up to three put the terminator
inside one read, across two, and at the end of a full buffer. Seven characters
hold two traversal sequences that do not lie at multiples of three, or overlap
with other dots; 16 is larger than every request and small enough for positions
to wrap. Two pieces are what a mixture of two files needs. Ranges of up to 17
elements with up to six threads give every remainder of the division, a single
thread, and no thread number known.

The programs of `threads_all` are finite as they are; nothing is bounded but the
parts of a thread's work, of which two are enough to see an unfinished one.  In
`sessions_all` the port arguments are none, the three that a server or client
has built in, and 65549, which does not fit and becomes 13, the port of
`test_daytimeclient.c`: so every client can meet every server that has a port
of its own to choose.  A request of three bytes with a terminator of two can be
read in one, two or three pieces; one byte more after it is what makes a close
leave something unread; one byte alone is what `client.c` sends.

The deadlock check is off where the system may rest: all clients may be done
or silent, the server waits in `accept`.

Fairness. `FairSpec` asks weak fairness of the server's and of every child's
next step but a `write` to a connected client outside `Readers`, which may
block: the kernel schedules runnable processes, and each of these steps stays
enabled until it is taken. Clients need not send or leave; those in `Readers`
are asked to read what they are sent, and `EveryRequestEnds` and
`EveryRequestAnswered` speak of them (and of clients that left) only. Nothing is
asked of `AcceptFails`. In `HandleRead` only the reader is fair, in
`PathSanitizer` its one thread, in `ParallelAccumulate` the caller and the
threads it has started. `ThreadLifetime` asks it of main and of every thread; a
thread that has ended or not begun has no step to take. `Sessions` asks it of
the server's process, its child, the reader of `TcpServer`, the client's
program, which reads its answer, and TCP's delivery, but of no failure, of
nobody's patience, and not of `TcpServer`'s writer, whose user may never type a
line. `SessionEnds` therefore says that the reader of `TcpServer` ends, not that
the program does.

### What the violated properties show

- `accept_zombies`: `Run` never calls `wait`.  After two served clients the
  limit of three is used up by the server and two zombies, `fork` fails, and
  the third client is turned away though no child is running; with the real
  limit it takes more clients, and never gets better.  `cool_ideas.txt:1` says
  the server "spawns a new process on client connection".
- `read_post_body`: a POST whose body arrives together with its headers
  (the example of `HttpParser.cpp:25-30`) does not end with the terminator, so
  `HandleRead` goes on waiting while the client waits for the answer.
- `threads_guard`: a user hands a thread to `thread_guard`; the constructor has
  moved it when it asks whether there is one, throws, and the process ends with
  the thread unjoined, where `thread_ownership.cpp:13-14` says the guard "will
  always safely join the thread when destroyed".
- `sessions_daytime`: `daytimetcpsrv.cpp:31` sets an accept callback that
  returns the time; `Run` drops what it returns and reads first, while the
  client sends nothing and waits for the close ("Stream read is ended by closing
  the connection", `daytimetcpcli.cpp:55`).  Both wait for ever.

### What the passing properties say of known weaknesses

- A server and a client wait for each other only where `WaitsOnlyForMore`
  says: for every server but the web server that is when the client has sent
  nothing, as both daytime clients do (`sessions_daytime`); for the web server,
  when the request does not end as one.
- `ListensAsTold` says what the results nobody looks at may do: a port that is 0
  or taken makes three of the four servers listen somewhere else without a word
  (`WebServer.cpp:19`), and an argument that does not fit in 16 bits is cut
  (`WebServer.cpp:16`).  It says that nothing else does.
- `CutAtFirstClear` says what the clean-up of a path takes.  What precedes a
  traversal sequence goes with it: `/abc/../x` becomes `./x`.  The path itself
  ends at the first " HTTP" of the whole request, so that of `GET /index.html`
  without a version (`HttpParser.cpp:20`) is all that follows.  An absolute path
  is none of its business: `//etc/passwd` becomes `/etc/passwd`.
- `AnswerWasTrue` lets the body of a 200 be empty where `open` failed
  (`HttpParser.cpp:77-91` does not look): the file was removed after `exists`,
  may not be read, or is an icon that may not be written.  `StableFileServed` is
  about files that the program may open.
- A client that never reads keeps its child in `write` for ever
  (`SocketIPv4.cpp:81`); `EveryRequestEnds` says that no other client is
  affected.
- A POST without a handler is answered with a code that was never assigned
  (`HttpParser.cpp:110`); the branch in the comment at line 120 is the intended
  404.  `OutcomesKnown` states it; no run is spent on it.
- `CleanEnd` is about clients that send one request and no more: bytes after it
  stay unread and make the close a reset (`SocketIPv4.cpp:83`).
- `OnlyDetachedDangles`, `EndsAsWritten` and `PrintedWhole` name the one thread
  that outlives what it writes to, that of `oops` in `thread_wait.cpp:35`.  All
  other programs of the repository join their threads, also on the path of the
  exception.  `EndsAsWritten` does not speak of users of `thread_guard`, whom
  `threads_guard` is about.
- `TcpServer.cpp:20` keeps the result of `read` in a `uint32_t`: -1 is taken for
  data.  The reader still ends after a reset, because the next `read` returns 0
  (`SessionEnds`); after an `accept` that failed it never does
  (`TwoWayAcceptFails`).

A HEAD request is recognised as a type but has no callback, and is answered by
closing the connection (`DispatchUnknown`), although lines 22-23 describe it;
no run is spent on this.

## 4. Proofs

`AcceptLoopProofs`.  The invariant is `TypeOK /\ ProcessesInStep`.  What one
wants to know, `OnlyItsOwnConnection`, speaks of descriptors; it is not
inductive, because whether a close is the right one depends on where the
process is.  `ProcessesInStep` adds that: the descriptors of a process follow
from its position (`ServerInStep`, `ChildInStep`), queued connections are
distinct and known to nobody (`QueueInStep`), the queue is empty once the
listening socket is gone, and an answered connection's child is past its
write.  There is one lemma per action; `ReleaseNothing` and `ReleaseSpares` deal
with the kernel's side of a close, `ChildInv` with every step of a child that
leaves the listening socket alone.  `StaysInStep`, `DescriptorsMatch` and
`NoResetWhileUp` follow.

`AcceptLoopRefinement`.  `OpenIffHeld` turns descriptors into positions and
`StatusFits` makes the cases of the mapping exclusive; then every action is
shown to be a stutter or one of `Arrive`, `Take`, `Answer`, `Finish`,
`Abandon`.

`HandleReadProofs`.  `CStringProperties` and `ChunkProperties` are about the two
conversions; `BufferIsPrefix` is inductive with `TypeOK`, and `WholeRequest`
follows from it after each read, since only at its end does a request end with
the terminator.

`PathSanitizerProofs`.  The invariant says what each stage has left of a
path (`PathIntact`) and that a position is in use only while
sequences are skipped.  `NoneInSuffix` carries an occurrence in a suffix back to
the whole; with the loop's exit condition that gives `NoTraversalLeft`.  A found
sequence has three characters, so moving on by three stays within the path.
`LeastPosition` (a set of naturals has a least element) makes `find` the first
occurrence, and `ExtractPositions` shows that the path is taken whole, where
" HTTP" follows and where it does not and the difference wraps.  `CutThere` says
what the clean-up takes: the handlers get the path from the first multiple of
three after which it has no traversal sequence (`FirstClear`), less one slash.
The invariant behind it, `Passed`, is that every multiple of three the loop has
gone by had one after it.

`HttpParserProofs`. `BlocksFit` ties every block that was read to the versions
which the open file has had, and `OneVersion` is the case that it had one; the
file is one that the name led to. When the end is noticed the last version seen
is no longer than what was read. The steps of other programs preserve this
because they add a version or a name to the histories and take none away. The
case of an open that failed keeps the file the name led to when it did.
`OutcomesKnown` connects the parser to the accept loop: `AcceptLoop` takes a
message, an empty message or an exception for the handler's outcome, and the
theorem says which requests have which: GET and POST a message with their own
version, everything else an empty one, and an exception only where `substr` or
`exists` throws.

`ParallelAccumulateProofs`.  `BlocksFit`: the blocks handed out cut the range up
to `block_start` into disjoint pieces; `ResultsFit`: a result is its block once
its thread is through.  `Blocks` and `Multiples` are the arithmetic: as many
blocks as threads fit into the range.

`ThreadLifetimeProofs`. The properties are not inductive: they do not say where
main is when a thread is owned. The invariant has one conjunct per program, each
with the same three parts: which objects own which thread at which of main's
labels (`Owns`), where the threads can be then (`Lives`), and what is stored
once a thread is done (`Stored`); `EndInv` says the same of a process that has
ended, where objects are no longer looked at. Each action touches one program,
and the other conjuncts hold because `program` never changes. `JoinsTheStarted`
reads off the same invariant that a join which no `joinable` guards finds a
thread, one that was started and is not the one that waits.

`SessionsProofs`.  The invariant has five parts besides the types.
`BoundAsTold` with `Roles` follows a server through its calls and gives
`ListensAsTold`; that a port in range is not changed by the cut is the only
arithmetic.  `Holding` says that the descriptors follow from where the processes
are; `NotEnded`, that a client is told of no end while one is left.  `Kept` is
about the bytes: a child's data is a prefix of the stream (from
`HandleReadProofs`, instantiated with the session's variables), a web server's
child in the loop has no terminator at the end of it, and one that has left the
loop has read the whole request.  From this `NoReset`, and `CleanEnd`: when the
last descriptor goes nothing is unread.  `WaitsOnlyForMore` is a consequence of
`Kept` and `Holding`.  `AnswersComeFirst` adds the order of what is on the way
to the client.  `ReadsAsHandleRead` is the refinement of `HandleRead`: under the
mapping `Reading` every step of a session is one of the child's reading or a
stutter, once with the web server's terminator and once with none;
`ReadsAsSpecified` concludes that `HandleRead!Spec` holds in the session, and so
do the theorems about it.

### Why everything comes to an end

What the liveness properties say needs fairness and `ENABLED`, which the prover
does not have.  Their two safe halves are proved instead, for instances of every
size.  First, no behaviour goes on for ever: each step brings something forward
that nothing takes back.

| Theorem | What each step brings forward | So there are at most |
|---|---|---|
| `AcceptLoopProofs!GoesOnward` | a client, a child or `Run`'s hold of a connection, or the server's exit | 16 n + 1 steps for n connections |
| `HandleReadProofs!GoesOnward` | bytes delivered, bytes read, the stream's end or the loop's | twice the stream's length and 2 |
| `PathSanitizerProofs!Terminates` | the stage, or the position in a path that stays the same | as many rounds as characters, and 3 |
| `ParallelAccumulateProofs!GoesOnward` | the caller or a thread | 4 + 3 (n - 1) for n threads |
| `ThreadLifetimeProofs!GoesOnward` | an actor's label, or the process ends | 14 actors of at most 21 labels each, and an end |
| `SessionsProofs!GoesOnward` | a label, a byte, a line or an end; or the client reads an answer, or is sent its first reset | two messages to read, and one reset, for each step of the first kind |
| `HttpParserProofs!GoesOnward` | the stage, or a block of the open file within its length | as many blocks as the file has, and 6, if nobody makes it longer |

The bound itself is the sum of the measures in the theorem's definitions, which
is arithmetic on paper: the theorem states that each measure falls or stays.

Second, nobody waits in vain. `NobodyForgotten`: a connection that has not ended
for its client waits at a listening socket, or is held by the server or by its
own child at a label from which it goes on to the close, unless a write blocks.
`WaitsForARest`: `HandleRead` in its loop has bytes of the request to come.
`NoVainWait`, `NoVainJoin`: whoever is joined was started and not joined before.
`WaitsOnlyForMore` says it of a session with any server but `TcpServer`, whose
writer waits for its user. What is left to TLC is that a process which can take
a step takes one (`EveryRequestEnds`, `RequestReturns`, `Returns`,
`SessionEnds`). Two loops are outside of this: `client.c` reads on after the end
and `TcpServer` reads from -1 for ever, and neither changes anything any more.

The proofs assume the named `ASSUME`s of the modules (`ConstantsAssumption`,
`ReadAssumption`, `SanitizerAssumption`, `ParserAssumption`,
`AccumulateAssumption`, `ThreadAssumption`, `StartupAssumption`,
`SessionAssumption`) and nothing else; numbers of clients, limits, requests,
files, lengths, threads, ports and streams are arbitrary. Only model-checked,
not proved: the liveness properties (`EveryRequestEnds`, `EveryRequestAnswered`,
`PortReleased`, `RequestReturns`, `SessionEnds`, `Returns`), which need
fairness.

## 5. Not modelled

- The demonstrations: straight-line programs that show one language feature or
  one system call; they have no state that outlives a statement, and their
  output is their purpose.  The code generator writes text.  `unp.h` declares.
- `SocketIPv4::Bind` with an address in text (line 34, both copies).  Nothing
  calls it; it hands a value that may be uninitialised and is in network order
  to a function that swaps it again.
- Memory next to arrays: the NUL of line 101 and the 4097th byte of
  `TcpServer.cpp:20`.  What they hit depends on the compiler's layout.
- Two of the servers on one port: both set `SO_REUSEPORT`, so the kernel may
  give a client to either.  `Sessions` has one server; `taken` is a port that
  some other program has without that option.
- `getsockname` and the printing in `daytimetcpcli.cpp`, and the layout of the
  responses: no control depends on them.
- `HttpParser` within `Sessions`: a child that has read a request answers, says
  nothing or ends (`WebResponds`), which is all that a connection can tell of
  it. When it does which is the matter of `HttpParser`.

What one could add: many clients in `Sessions`, which `AcceptLoop` has for one
kind of server only.
