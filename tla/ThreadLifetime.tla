--------------------------- MODULE ThreadLifetime ---------------------------
(***************************************************************************)
(* The programs of Concurrency/ that start threads and hand them on:       *)
(* thread_wait, thread_ownership (with its class thread_guard),            *)
(* thread_exception, thread_args and hello_world.                          *)
(*                                                                         *)
(* What they share is std::thread: an object owns a thread or none, is     *)
(* moved from, joined or detached, and ends the process if it is destroyed *)
(* or assigned to while it owns one.  Threads write to variables of other  *)
(* functions, which may have returned.  An actor is main or a thread, and  *)
(* pc says where it is.                                                    *)
(***************************************************************************)
EXTENDS Integers

CONSTANTS
  Programs,      \* which of the programs below are looked at
  ThreadsLimited \* whether a thread may not be to be had

ASSUME ThreadAssumption ==
  /\ Programs \subseteq
       {"wait", "ownership", "guard", "exception", "args", "hello"}
  /\ ThreadsLimited \in BOOLEAN

VARIABLES
  program,
  pc,       \* pc[a]: where main or a thread is
  owner,    \* owner[o]: the thread a std::thread object owns
  alive,    \* the variables whose function has not returned
  counted,  \* counted[v]: how much of its thread's work is stored in v
  printed,  \* what main found in the variables it prints
  dangled,  \* whether a thread has written to a variable that was gone
  status    \* of the process

vars == <<program, pc, owner, alive, counted, printed, dangled, status>>

Thread == {"oops", "counter", "valid", "adder",              \* thread_wait
           "line",                                           \* _ownership
           "func",                                           \* _exception
           "ref", "member", "unique",                        \* _args
           "hello", "lambda", "task", "last"}                \* hello_world
Actor == Thread \cup {"main"}
NoThread == "none"

\* The std::thread objects, a function's own after its name.
Object == {"aThread", "aSecondThread", "oops.aThread", "valid.aThread",
           "aNewThread", "inThread", "fThread", "oops_widget.aThread",
           "aAnotherThread", "aBackgroundTaskThread", "aLastThread"}

Variable == {"aGoodInt", "aValue", "i", "local", "aWidget", "aUniqueWidget"}

\* What a thread writes to.
Target == [t \in {"counter", "adder", "func", "ref", "member", "unique"} |->
             CASE t = "counter" -> "aValue"
               [] t = "adder" -> "aGoodInt"
               [] t = "func" -> "i"
               [] t = "ref" -> "local"
               [] t = "member" -> "aWidget"
               [] t = "unique" -> "aUniqueWidget"]
Writer == DOMAIN Target

Amount == {"none", "some", "all"}
Label == {"none", "start", "working", "done", "second", "third", "fourth",
          "join", "join2", "join3", "join4", "detach", "sleep", "move",
          "lord", "test", "destroy", "build", "check", "divide", "unguard",
          "print", "leave", "return"}
Statuses == {"running", "exited", "threw", "joinable", "crashed"}

TypeOK ==
  /\ program \in Programs
  /\ pc \in [Actor -> Label]
  /\ owner \in [Object -> Thread \cup {NoThread}]
  /\ alive \subseteq Variable
  /\ counted \in [Variable -> Amount]
  /\ printed \subseteq Amount
  /\ dangled \in BOOLEAN
  /\ status \in Statuses

Init ==
  /\ program \in Programs
  /\ pc = [a \in Actor |-> IF a = "main" THEN "start" ELSE "none"]
  /\ owner = [o \in Object |-> NoThread]
  /\ alive = {"aGoodInt", "i", "aWidget", "aUniqueWidget"}
  /\ counted = [v \in Variable |-> "none"]
  /\ printed = {}
  /\ dangled = FALSE
  /\ status = "running"
-----------------------------------------------------------------------------
(* std::thread.                                                            *)

At(p, a, label) == status = "running" /\ program = p /\ pc[a] = label

Joinable(o) == owner[o] # NoThread

\* The process ends with all its threads.
Ends(how) ==
  /\ status' = how
  /\ UNCHANGED <<program, pc, owner, alive, counted, printed, dangled>>

\* std::thread o(t), or an exception that nothing catches if there is no
\* thread to be had.  The variables in fresh are declared just before it.
LaunchWith(a, to, o, t, fresh) ==
  \/ /\ ~Joinable(o)
     /\ owner' = [owner EXCEPT ![o] = t]
     /\ pc' = [pc EXCEPT ![a] = to, ![t] = "start"]
     /\ alive' = alive \cup fresh
     /\ UNCHANGED <<program, counted, printed, dangled, status>>
  \/ ThreadsLimited /\ Ends("threw")

Launch(a, to, o, t) == LaunchWith(a, to, o, t, {})

Join(a, to, o) ==
  /\ Joinable(o)
  /\ pc[owner[o]] = "done"
  /\ owner' = [owner EXCEPT ![o] = NoThread]
  /\ pc' = [pc EXCEPT ![a] = to]
  /\ UNCHANGED <<program, alive, counted, printed, dangled, status>>

\* Mutant: a detached object is not empty.
DetachMarks(a, to, o) ==
  /\ Joinable(o)
  /\ owner' = [owner EXCEPT ![o] = "detached"]
  /\ pc' = [pc EXCEPT ![a] = to]
  /\ UNCHANGED <<program, alive, counted, printed, dangled, status>>

Detach(a, to, o) ==
  /\ Joinable(o)
  /\ owner' = [owner EXCEPT ![o] = NoThread]
  /\ pc' = [pc EXCEPT ![a] = to]
  /\ UNCHANGED <<program, alive, counted, printed, dangled, status>>

\* Mutant: the source keeps the thread.
MoveCopies(a, to, src, dst) ==
  /\ owner' = [owner EXCEPT ![dst] = owner[src]]
  /\ pc' = [pc EXCEPT ![a] = to]
  /\ UNCHANGED <<program, alive, counted, printed, dangled, status>>

\* dst(std::move(src)) of an object that owns a thread or none.
Move(a, to, src, dst) ==
  /\ owner' = [owner EXCEPT ![dst] = owner[src], ![src] = NoThread]
  /\ pc' = [pc EXCEPT ![a] = to]
  /\ UNCHANGED <<program, alive, counted, printed, dangled, status>>

\* A function returns: its objects are destroyed, its variables gone.
Leave(a, to, o, gone) ==
  IF Joinable(o)
  THEN Ends("joinable")
  ELSE /\ alive' = alive \ gone
       /\ pc' = [pc EXCEPT ![a] = to]
       /\ UNCHANGED <<program, owner, counted, printed, dangled, status>>

Goto(a, to) ==
  /\ pc' = [pc EXCEPT ![a] = to]
  /\ UNCHANGED <<program, owner, alive, counted, printed, dangled, status>>

\* main returns; the objects left are its own.
Exit == Ends(IF \E o \in Object : Joinable(o) THEN "joinable" ELSE "exited")

PrintVariable(a, to, v) ==
  /\ printed' = printed \cup {counted[v]}
  /\ pc' = [pc EXCEPT ![a] = to]
  /\ UNCHANGED <<program, owner, alive, counted, dangled, status>>

\* Thread t stores a part of its work in its target.  If that is gone the
\* store is undefined: it does no harm, hits a variable that now lies there,
\* or ends the process.
Store(t, to, amount) ==
  /\ pc' = [pc EXCEPT ![t] = to]
  /\ \/ /\ Target[t] \in alive
        /\ counted' = [counted EXCEPT ![Target[t]] = amount]
        /\ UNCHANGED <<dangled, status>>
     \/ /\ Target[t] \notin alive
        /\ dangled' = TRUE
        /\ \/ UNCHANGED <<counted, status>>
           \/ /\ status' = "crashed"
              /\ UNCHANGED counted
           \/ /\ \E v \in alive, x \in Amount :
                   counted' = [counted EXCEPT ![v] = x]
              /\ UNCHANGED status
  /\ UNCHANGED <<program, owner, alive, printed>>
-----------------------------------------------------------------------------
(* What the threads run.                                                   *)

\* func::operator(): a hundred million increments through the reference, some
\* of them done before the others.
CountSome(t) ==
  /\ status = "running" /\ pc[t] = "start" /\ t \in {"counter", "adder"}
  /\ Store(t, "working", "some")

CountRest(t) ==
  /\ status = "running" /\ pc[t] = "working" /\ t \in {"counter", "adder"}
  /\ Store(t, "done", "all")

\* The same function object in thread_exception.cpp, with doSomething after it.
FuncSome ==
  /\ status = "running" /\ pc["func"] = "start"
  /\ Store("func", "working", "some")

FuncRest ==
  /\ status = "running" /\ pc["func"] = "working"
  /\ Store("func", "done", "all")

\* update_widget_data and widget::update_data, one assignment at a time.
UpdateSome(t) ==
  /\ status = "running" /\ pc[t] = "start"
  /\ t \in {"ref", "member", "unique"}
  /\ Store(t, "working", "some")

UpdateRest(t) ==
  /\ status = "running" /\ pc[t] = "working"
  /\ t \in {"ref", "member", "unique"}
  /\ Store(t, "done", "all")

\* Threads that only print.
PrintLine ==
  /\ status = "running" /\ pc["line"] = "start"
  /\ Goto("line", "done")

Greet(t) ==
  /\ status = "running" /\ pc[t] = "start"
  /\ t \in {"hello", "lambda", "task", "last"}
  /\ Goto(t, "done")
-----------------------------------------------------------------------------
(* thread_wait.cpp.                                                        *)

WaitStarts ==
  At("wait", "main", "start") /\ Launch("main", "join", "aThread", "oops")
WaitJoins == At("wait", "main", "join") /\ Join("main", "second", "aThread")
WaitStartsSecond ==
  /\ At("wait", "main", "second")
  /\ Launch("main", "join2", "aSecondThread", "valid")
WaitJoinsSecond ==
  At("wait", "main", "join2") /\ Join("main", "print", "aSecondThread")
WaitPrints ==
  At("wait", "main", "print") /\ PrintVariable("main", "leave", "aGoodInt")

OopsStarts ==
  /\ At("wait", "oops", "start")
  /\ LaunchWith("oops", "detach", "oops.aThread", "counter", {"aValue"})
OopsDetaches ==
  At("wait", "oops", "detach") /\ Detach("oops", "sleep", "oops.aThread")

\* A tenth of a second, then aValue is printed as it is: nobody waits for the
\* counting thread.
OopsSleeps == At("wait", "oops", "sleep") /\ Goto("oops", "return")
OopsReturns ==
  /\ At("wait", "oops", "return")
  /\ Leave("oops", "done", "oops.aThread", {"aValue"})

ValidStarts ==
  /\ At("wait", "valid", "start")
  /\ Launch("valid", "join", "valid.aThread", "adder")
\* Mutant: valid lets its thread go, as oops does.
ValidDetaches ==
  At("wait", "valid", "join") /\ Detach("valid", "return", "valid.aThread")

ValidJoins ==
  At("wait", "valid", "join") /\ Join("valid", "return", "valid.aThread")
ValidReturns ==
  At("wait", "valid", "return") /\ Leave("valid", "done", "valid.aThread", {})
-----------------------------------------------------------------------------
(* thread_ownership.cpp: main, and a user of the class thread_guard, which  *)
(* hands it a thread or an empty object.                                   *)

CreateStarts ==
  /\ At("ownership", "main", "start")
  /\ Launch("main", "move", "aNewThread", "line")
CreateReturns ==
  /\ At("ownership", "main", "move")
  /\ Move("main", "lord", "aNewThread", "aThread")
LordTakes ==
  /\ At("ownership", "main", "lord")
  /\ Move("main", "test", "aThread", "fThread")
TestMoved ==
  /\ At("ownership", "main", "test")
  /\ IF Joinable("aThread") THEN Join("main", "destroy", "aThread")
                            ELSE Goto("main", "destroy")
LordDestroyed ==
  /\ At("ownership", "main", "destroy")
  /\ IF Joinable("fThread") THEN Join("main", "leave", "fThread")
                            ELSE Goto("main", "leave")

UserCalls ==
  /\ At("guard", "main", "start")
  /\ Launch("main", "build", "inThread", "line") \/ Goto("main", "build")
GuardTakes ==
  At("guard", "main", "build") /\ Move("main", "check", "inThread", "fThread")

\* The test is made on the parameter that was moved from, so the constructor
\* always throws; fThread is destroyed on the way out and ends the process if
\* there was a thread.  The destructor of the class never runs.
GuardChecks ==
  /\ At("guard", "main", "check")
  /\ IF Joinable("inThread") THEN Goto("main", "destroy")
     ELSE Ends(IF Joinable("fThread") THEN "joinable" ELSE "threw")
-----------------------------------------------------------------------------
(* thread_exception.cpp.                                                   *)

FStarts ==
  /\ At("exception", "main", "start")
  /\ Launch("main", "divide", "aThread", "func")

\* The division by zero is undefined.  An optimised build drops it; otherwise
\* it raises SIGFPE, and the exception the handler throws finds no handler
\* table for the faulting instruction, so the catch does not get it.
Divide ==
  /\ At("exception", "main", "divide")
  /\ Goto("main", "unguard") \/ Ends("threw")
\* Mutant: the guard's destructor does not join.
GuardForgets ==
  At("exception", "main", "unguard") /\ Goto("main", "return")

GuardJoins ==
  /\ At("exception", "main", "unguard")
  /\ IF Joinable("aThread") THEN Join("main", "return", "aThread")
                            ELSE Goto("main", "return")
FReturns ==
  At("exception", "main", "return") /\ Leave("main", "print", "aThread", {})
FPrints ==
  At("exception", "main", "print") /\ PrintVariable("main", "leave", "i")
-----------------------------------------------------------------------------
(* thread_args.cpp.                                                        *)

WidgetStarts ==
  /\ At("args", "main", "start")
  /\ LaunchWith("main", "join", "oops_widget.aThread", "ref", {"local"})
\* Mutant: oops_widget returns without waiting.
WidgetDetaches ==
  /\ At("args", "main", "join")
  /\ Detach("main", "return", "oops_widget.aThread")

WidgetJoins ==
  At("args", "main", "join") /\ Join("main", "return", "oops_widget.aThread")

\* oops_widget returns a copy, which main prints.
WidgetReturns ==
  /\ At("args", "main", "return")
  /\ ~Joinable("oops_widget.aThread")
  /\ alive' = alive \ {"local"}
  /\ printed' = printed \cup {counted["local"]}
  /\ pc' = [pc EXCEPT !["main"] = "second"]
  /\ UNCHANGED <<program, owner, counted, dangled, status>>

\* After a call of update_data by main itself.
MemberStarts ==
  At("args", "main", "second") /\ Launch("main", "join2", "aThread", "member")
MemberJoins == At("args", "main", "join2") /\ Join("main", "print", "aThread")
MemberPrints ==
  At("args", "main", "print") /\ PrintVariable("main", "third", "aWidget")

\* The widget goes with its unique_ptr to the thread, which deletes it.
UniqueStarts ==
  /\ At("args", "main", "third")
  /\ Launch("main", "join3", "aAnotherThread", "unique")
UniqueJoins ==
  At("args", "main", "join3") /\ Join("main", "leave", "aAnotherThread")
-----------------------------------------------------------------------------
(* hello_world.cpp: four threads are started, then joined, in order.       *)

HelloThread == <<"hello", "lambda", "task", "last">>
HelloObject ==
  <<"aThread", "aAnotherThread", "aBackgroundTaskThread", "aLastThread">>
HelloStart == <<"start", "second", "third", "fourth", "join">>
HelloJoin == <<"join", "join2", "join3", "join4", "leave">>

HelloStarts(k) ==
  /\ At("hello", "main", HelloStart[k])
  /\ Launch("main", HelloStart[k + 1], HelloObject[k], HelloThread[k])
\* Mutant: the same thread is joined four times.
HelloJoinsFirst(k) ==
  /\ At("hello", "main", HelloJoin[k])
  /\ Join("main", HelloJoin[k + 1], HelloObject[1])
HelloJoins(k) ==
  /\ At("hello", "main", HelloJoin[k])
  /\ Join("main", HelloJoin[k + 1], HelloObject[k])
-----------------------------------------------------------------------------
\* The end of main, in every program that gets there.
MainReturns == status = "running" /\ pc["main"] = "leave" /\ Exit

Main ==
  \/ WaitStarts \/ WaitJoins \/ WaitStartsSecond \/ WaitJoinsSecond
  \/ WaitPrints
  \/ CreateStarts \/ CreateReturns \/ LordTakes \/ TestMoved \/ LordDestroyed
  \/ UserCalls \/ GuardTakes \/ GuardChecks
  \/ FStarts \/ Divide \/ GuardJoins \/ FReturns \/ FPrints
  \/ WidgetStarts \/ WidgetJoins \/ WidgetReturns
  \/ MemberStarts \/ MemberJoins \/ MemberPrints \/ UniqueStarts \/ UniqueJoins
  \/ \E k \in 1..4 : HelloStarts(k) \/ HelloJoins(k)
  \/ MainReturns

Oops == OopsStarts \/ OopsDetaches \/ OopsSleeps \/ OopsReturns

Valid == ValidStarts \/ ValidJoins \/ ValidReturns

Work(t) ==
  \/ CountSome(t) \/ CountRest(t) \/ UpdateSome(t) \/ UpdateRest(t)
  \/ t = "func" /\ (FuncSome \/ FuncRest)
  \/ t = "line" /\ PrintLine
  \/ Greet(t)

Next == Main \/ Oops \/ Valid \/ \E t \in Thread : Work(t)

Spec == Init /\ [][Next]_vars

\* Every thread is scheduled.
Fairness ==
  /\ WF_vars(Main)
  /\ WF_vars(Oops)
  /\ WF_vars(Valid)
  /\ \A t \in Thread : WF_vars(Work(t))

FairSpec == Spec /\ Fairness
-----------------------------------------------------------------------------
Unfinished(t) == pc[t] \notin {"none", "done"}

\* A thread has at most one owner, however it was moved about, and one that
\* still runs has one, unless it is the thread oops detached
\* (thread_wait.cpp:35): nothing else gets lost or is joined twice.
OneOwner ==
  /\ \A o1, o2 \in Object :
       Joinable(o1) /\ owner[o1] = owner[o2] => o1 = o2
  /\ \A t \in Thread :
       status = "running" /\ Unfinished(t) /\ t # "counter" =>
         \E o \in Object : owner[o] = t

\* The only thread that may write to a variable of a function that has returned
\* is the detached one: everywhere else a join on every path, behind a guard
\* or a thread_lord, keeps the variable alive for as long as the thread needs.
OnlyDetachedDangles ==
  /\ \A t \in Writer \ {"counter"} :
       status = "running" /\ Unfinished(t) => Target[t] \in alive
  /\ dangled => program = "wait"

\* No program that the repository runs is ended by a thread object destroyed or
\* assigned to while it owns a thread, with or without an exception
\* (thread_exception.cpp:27 joins on both paths); only thread_wait may come to
\* harm by a store, and only its detached thread may be at work when main
\* returns.  What becomes of users of thread_guard is asked by GuardAlwaysJoins.
EndsAsWritten ==
  program # "guard" =>
    /\ status # "joinable"
    /\ status = "crashed" => program = "wait"
    /\ status = "exited" => \A t \in Thread : Unfinished(t) => t = "counter"

\* thread_ownership.cpp:13 of a guard: "it will always safely join the thread
\* when destroyed".  So no process ends because a guard was destroyed while it
\* owned the thread it was handed.  The code has it otherwise.
GuardAlwaysJoins == program = "guard" => status # "joinable"

\* What main prints is the whole of its threads' work, never a part that they
\* still write, unless the detached thread has spoilt it.
PrintedWhole == printed \subseteq {"all"} \/ dangled

\* Every program comes to an end: no join waits for ever.
Returns == <>(status # "running")
=============================================================================
