------------------------ MODULE ThreadLifetimeProofs ------------------------
(***************************************************************************)
(* Proofs about ThreadLifetime: in every program, whatever the order of    *)
(* its threads, a thread has one owner that waits for it, save the one     *)
(* that is detached, and variables outlive those who write to them.        *)
(***************************************************************************)
EXTENDS ThreadLifetime, TLAPS

-----------------------------------------------------------------------------
(* One conjunct of the invariant per program: where main is says who owns  *)
(* which thread, and how far the threads can be.                           *)

\* The threads in ts and the objects in os are the only ones there are.
Only(ts, os) ==
  /\ \A t \in Thread \ ts : pc[t] = "none"
  /\ \A o \in Object \ os : owner[o] = NoThread

\* Object o owns thread t, which was started, while a is at one of the labels.
Owns(o, t, a, labels) ==
  /\ owner[o] = IF pc[a] \in labels THEN t ELSE NoThread
  /\ pc[a] \in labels => pc[t] # "none"

\* Thread t is not there before a comes to one of the labels in at, and is
\* done after.
Lives(t, a, before, at) ==
  /\ pc[a] \in before => pc[t] = "none"
  /\ pc[a] \notin before \cup at => pc[t] = "done"

Stored(t, v) == pc[t] = "done" => counted[v] = "all"

WaitInv == program = "wait" =>
  /\ Only({"oops", "counter", "valid", "adder"},
          {"aThread", "aSecondThread", "oops.aThread", "valid.aThread"})
  /\ pc["main"] \in {"start", "join", "second", "join2", "print", "leave"}
  /\ pc["oops"] \in {"none", "start", "detach", "sleep", "return", "done"}
  /\ pc["valid"] \in {"none", "start", "join", "return", "done"}
  /\ pc["counter"] \in {"none", "start", "working", "done"}
  /\ pc["adder"] \in {"none", "start", "working", "done"}
  /\ Owns("aThread", "oops", "main", {"join"})
  /\ Owns("aSecondThread", "valid", "main", {"join2"})
  /\ Owns("oops.aThread", "counter", "oops", {"detach"})
  /\ Owns("valid.aThread", "adder", "valid", {"join"})
  /\ Lives("oops", "main", {"start"}, {"join"})
  /\ Lives("valid", "main", {"start", "join", "second"}, {"join2"})
  /\ Lives("adder", "valid", {"none", "start"}, {"join"})
  /\ pc["oops"] \in {"none", "start"} => pc["counter"] = "none"
  /\ "aGoodInt" \in alive
  /\ ~dangled => Stored("adder", "aGoodInt") /\ printed \subseteq {"all"}

OwnershipInv == program = "ownership" =>
  /\ Only({"line"}, {"aNewThread", "aThread", "fThread"})
  /\ pc["main"] \in {"start", "move", "lord", "test", "destroy", "leave"}
  /\ pc["line"] \in {"none", "start", "done"}
  /\ Owns("aNewThread", "line", "main", {"move"})
  /\ Owns("aThread", "line", "main", {"lord"})
  /\ Owns("fThread", "line", "main", {"test", "destroy"})
  /\ Lives("line", "main", {"start"}, {"move", "lord", "test", "destroy"})
  /\ printed = {} /\ ~dangled

GuardInv == program = "guard" =>
  /\ Only({"line"}, {"inThread", "fThread"})
  /\ pc["main"] \in {"start", "build", "check"}
  /\ pc["line"] \in {"none", "start", "done"}
  /\ pc["main"] = "start" => pc["line"] = "none"
  /\ pc["main"] # "build" => owner["inThread"] = NoThread
  /\ pc["main"] # "check" => owner["fThread"] = NoThread
  /\ pc["main"] = "build" =>
       owner["inThread"] = IF pc["line"] = "none" THEN NoThread ELSE "line"
  /\ pc["main"] = "check" =>
       owner["fThread"] = IF pc["line"] = "none" THEN NoThread ELSE "line"
  /\ printed = {} /\ ~dangled

ExceptionInv == program = "exception" =>
  /\ Only({"func"}, {"aThread"})
  /\ pc["main"] \in {"start", "divide", "unguard", "return", "print", "leave"}
  /\ pc["func"] \in {"none", "start", "working", "done"}
  /\ Owns("aThread", "func", "main", {"divide", "unguard"})
  /\ Lives("func", "main", {"start"}, {"divide", "unguard"})
  /\ Stored("func", "i")
  /\ "i" \in alive /\ printed \subseteq {"all"} /\ ~dangled

ArgsInv == program = "args" =>
  /\ Only({"ref", "member", "unique"},
          {"oops_widget.aThread", "aThread", "aAnotherThread"})
  /\ pc["main"] \in {"start", "join", "return", "second", "join2", "print",
                     "third", "join3", "leave"}
  /\ pc["ref"] \in {"none", "start", "working", "done"}
  /\ pc["member"] \in {"none", "start", "working", "done"}
  /\ pc["unique"] \in {"none", "start", "working", "done"}
  /\ Owns("oops_widget.aThread", "ref", "main", {"join"})
  /\ Owns("aThread", "member", "main", {"join2"})
  /\ Owns("aAnotherThread", "unique", "main", {"join3"})
  /\ Lives("ref", "main", {"start"}, {"join"})
  /\ Lives("member", "main", {"start", "join", "return", "second"}, {"join2"})
  /\ pc["main"] \notin {"join3", "leave"} => pc["unique"] = "none"
  /\ pc["main"] = "leave" => pc["unique"] = "done"
  /\ Stored("ref", "local") /\ Stored("member", "aWidget")
  /\ pc["main"] \in {"join", "return"} => "local" \in alive
  /\ {"aWidget", "aUniqueWidget"} \subseteq alive
  /\ printed \subseteq {"all"} /\ ~dangled

HelloInv == program = "hello" =>
  /\ Only({"hello", "lambda", "task", "last"},
          {"aThread", "aAnotherThread", "aBackgroundTaskThread",
           "aLastThread"})
  /\ pc["main"] \in {"start", "second", "third", "fourth", "join", "join2",
                     "join3", "join4", "leave"}
  /\ \A t \in {"hello", "lambda", "task", "last"} :
       pc[t] \in {"none", "start", "done"}
  /\ Owns("aThread", "hello", "main", {"second", "third", "fourth", "join"})
  /\ Owns("aAnotherThread", "lambda", "main",
          {"third", "fourth", "join", "join2"})
  /\ Owns("aBackgroundTaskThread", "task", "main",
          {"fourth", "join", "join2", "join3"})
  /\ Owns("aLastThread", "last", "main", {"join", "join2", "join3", "join4"})
  /\ Lives("hello", "main", {"start"}, {"second", "third", "fourth", "join"})
  /\ Lives("lambda", "main", {"start", "second"},
           {"third", "fourth", "join", "join2"})
  /\ Lives("task", "main", {"start", "second", "third"},
           {"fourth", "join", "join2", "join3"})
  /\ Lives("last", "main", {"start", "second", "third", "fourth"},
           {"join", "join2", "join3", "join4"})
  /\ printed = {} /\ ~dangled

\* How the process ends follows from the rest.
EndInv ==
  /\ program \in {"wait", "ownership", "guard", "exception", "args", "hello"}
  /\ status = "joinable" => program = "guard"
  /\ status = "crashed" => program = "wait"
  /\ status = "exited" => pc["main"] = "leave"

ProgramInv ==
  /\ WaitInv /\ OwnershipInv /\ GuardInv /\ ExceptionInv /\ ArgsInv
  /\ HelloInv

IInv == TypeOK /\ ProgramInv /\ EndInv
-----------------------------------------------------------------------------
(* Types.                                                                  *)

LEMMA Targets ==
  /\ Target["counter"] = "aValue" /\ Target["adder"] = "aGoodInt"
  /\ Target["func"] = "i"
  /\ Target["ref"] = "local" /\ Target["member"] = "aWidget"
  /\ Target["unique"] = "aUniqueWidget"
BY DEF Target

LEMMA StoreTypes ==
  ASSUME TypeOK, NEW t, NEW to, NEW amount \in Amount, Store(t, to, amount)
  PROVE  counted' \in [Variable -> Amount] /\ dangled' \in BOOLEAN
<1>1. counted \in [Variable -> Amount] /\ alive \subseteq Variable
      /\ dangled \in BOOLEAN
  BY DEF TypeOK
<1>2. CASE /\ counted' = [counted EXCEPT ![Target[t]] = amount]
           /\ UNCHANGED dangled
  BY <1>1, <1>2
<1>3. CASE dangled' = TRUE /\ UNCHANGED counted
  BY <1>1, <1>3
<1>4. CASE /\ dangled' = TRUE
           /\ \E v \in alive, x \in Amount :
                counted' = [counted EXCEPT ![v] = x]
  BY <1>1, <1>4
<1> QED
  BY <1>2, <1>3, <1>4 DEF Store

-----------------------------------------------------------------------------
(* Which actions a program has; the others' are not enabled.               *)

LEMMA WaitActions ==
  ASSUME TypeOK, WaitInv, program = "wait", Next
  PROVE  \/ WaitStarts \/ WaitJoins \/ WaitStartsSecond \/ WaitJoinsSecond
         \/ WaitPrints \/ OopsStarts \/ OopsDetaches \/ OopsSleeps
         \/ OopsReturns \/ ValidStarts \/ ValidJoins \/ ValidReturns
         \/ MainReturns \/ CountSome("counter") \/ CountRest("counter")
         \/ CountSome("adder") \/ CountRest("adder")
<1>1. \A t \in Thread : Work(t) =>
        \/ CountSome("counter") \/ CountRest("counter")
        \/ CountSome("adder") \/ CountRest("adder")
  BY DEF WaitInv, Only, Work, Thread, CountSome, CountRest, FuncSome,
         FuncRest, UpdateSome, UpdateRest, PrintLine, Greet
<1>2. Main =>
        \/ WaitStarts \/ WaitJoins \/ WaitStartsSecond \/ WaitJoinsSecond
        \/ WaitPrints \/ MainReturns
  BY DEF Main, At, CreateStarts, CreateReturns, LordTakes, TestMoved,
         LordDestroyed, UserCalls, GuardTakes, GuardChecks, FStarts, Divide,
         GuardJoins, FReturns, FPrints, WidgetStarts, WidgetJoins,
         WidgetReturns, MemberStarts, MemberJoins, MemberPrints,
         UniqueStarts, UniqueJoins, HelloStarts, HelloJoins
<1> QED
  BY <1>1, <1>2 DEF Next, Oops, Valid

LEMMA OwnershipActions ==
  ASSUME TypeOK, OwnershipInv, program = "ownership", Next
  PROVE  \/ CreateStarts \/ CreateReturns \/ LordTakes \/ TestMoved
         \/ LordDestroyed \/ MainReturns \/ PrintLine
<1>1. \A t \in Thread : Work(t) => PrintLine
  BY DEF OwnershipInv, Only, Work, Thread, CountSome, CountRest, FuncSome,
         FuncRest, UpdateSome, UpdateRest, PrintLine, Greet
<1>2. Main =>
        \/ CreateStarts \/ CreateReturns \/ LordTakes \/ TestMoved
        \/ LordDestroyed \/ MainReturns
  BY DEF Main, At, WaitStarts, WaitJoins, WaitStartsSecond, WaitJoinsSecond,
         WaitPrints, UserCalls, GuardTakes, GuardChecks, FStarts, Divide,
         GuardJoins, FReturns, FPrints, WidgetStarts, WidgetJoins,
         WidgetReturns, MemberStarts, MemberJoins, MemberPrints,
         UniqueStarts, UniqueJoins, HelloStarts, HelloJoins
<1>3. ~Oops /\ ~Valid
  BY DEF Oops, Valid, At, OopsStarts, OopsDetaches, OopsSleeps, OopsReturns,
         ValidStarts, ValidJoins, ValidReturns
<1> QED
  BY <1>1, <1>2, <1>3 DEF Next

LEMMA GuardActions ==
  ASSUME TypeOK, GuardInv, program = "guard", Next
  PROVE  \/ UserCalls \/ GuardTakes \/ GuardChecks \/ MainReturns
         \/ PrintLine
<1>1. \A t \in Thread : Work(t) => PrintLine
  BY DEF GuardInv, Only, Work, Thread, CountSome, CountRest, FuncSome,
         FuncRest, UpdateSome, UpdateRest, PrintLine, Greet
<1>2. Main =>
        \/ UserCalls \/ GuardTakes \/ GuardChecks \/ MainReturns
  BY DEF Main, At, WaitStarts, WaitJoins, WaitStartsSecond, WaitJoinsSecond,
         WaitPrints, CreateStarts, CreateReturns, LordTakes, TestMoved,
         LordDestroyed, FStarts, Divide, GuardJoins, FReturns, FPrints,
         WidgetStarts, WidgetJoins, WidgetReturns, MemberStarts, MemberJoins,
         MemberPrints, UniqueStarts, UniqueJoins, HelloStarts, HelloJoins
<1>3. ~Oops /\ ~Valid
  BY DEF Oops, Valid, At, OopsStarts, OopsDetaches, OopsSleeps, OopsReturns,
         ValidStarts, ValidJoins, ValidReturns
<1> QED
  BY <1>1, <1>2, <1>3 DEF Next

LEMMA ExceptionActions ==
  ASSUME TypeOK, ExceptionInv, program = "exception", Next
  PROVE  \/ FStarts \/ Divide \/ GuardJoins \/ FReturns \/ FPrints
         \/ MainReturns \/ FuncSome \/ FuncRest
<1>1. \A t \in Thread : Work(t) =>
        \/ FuncSome \/ FuncRest
  BY DEF ExceptionInv, Only, Work, Thread, CountSome, CountRest, FuncSome,
         FuncRest, UpdateSome, UpdateRest, PrintLine, Greet
<1>2. Main =>
        \/ FStarts \/ Divide \/ GuardJoins \/ FReturns \/ FPrints
        \/ MainReturns
  BY DEF Main, At, WaitStarts, WaitJoins, WaitStartsSecond, WaitJoinsSecond,
         WaitPrints, CreateStarts, CreateReturns, LordTakes, TestMoved,
         LordDestroyed, UserCalls, GuardTakes, GuardChecks, WidgetStarts,
         WidgetJoins, WidgetReturns, MemberStarts, MemberJoins, MemberPrints,
         UniqueStarts, UniqueJoins, HelloStarts, HelloJoins
<1>3. ~Oops /\ ~Valid
  BY DEF Oops, Valid, At, OopsStarts, OopsDetaches, OopsSleeps, OopsReturns,
         ValidStarts, ValidJoins, ValidReturns
<1> QED
  BY <1>1, <1>2, <1>3 DEF Next

LEMMA ArgsActions ==
  ASSUME TypeOK, ArgsInv, program = "args", Next
  PROVE  \/ WidgetStarts \/ WidgetJoins \/ WidgetReturns \/ MemberStarts
         \/ MemberJoins \/ MemberPrints \/ UniqueStarts \/ UniqueJoins
         \/ MainReturns \/ UpdateSome("ref") \/ UpdateRest("ref")
         \/ UpdateSome("member") \/ UpdateRest("member")
         \/ UpdateSome("unique") \/ UpdateRest("unique")
<1>1. \A t \in Thread : Work(t) =>
        \/ UpdateSome("ref") \/ UpdateRest("ref") \/ UpdateSome("member")
        \/ UpdateRest("member") \/ UpdateSome("unique")
        \/ UpdateRest("unique")
  BY DEF ArgsInv, Only, Work, Thread, CountSome, CountRest, FuncSome,
         FuncRest, UpdateSome, UpdateRest, PrintLine, Greet
<1>2. Main =>
        \/ WidgetStarts \/ WidgetJoins \/ WidgetReturns \/ MemberStarts
        \/ MemberJoins \/ MemberPrints \/ UniqueStarts \/ UniqueJoins
        \/ MainReturns
  BY DEF Main, At, WaitStarts, WaitJoins, WaitStartsSecond, WaitJoinsSecond,
         WaitPrints, CreateStarts, CreateReturns, LordTakes, TestMoved,
         LordDestroyed, UserCalls, GuardTakes, GuardChecks, FStarts, Divide,
         GuardJoins, FReturns, FPrints, HelloStarts, HelloJoins
<1>3. ~Oops /\ ~Valid
  BY DEF Oops, Valid, At, OopsStarts, OopsDetaches, OopsSleeps, OopsReturns,
         ValidStarts, ValidJoins, ValidReturns
<1> QED
  BY <1>1, <1>2, <1>3 DEF Next

LEMMA HelloActions ==
  ASSUME TypeOK, HelloInv, program = "hello", Next
  PROVE  \/ HelloStarts(1) \/ HelloStarts(2) \/ HelloStarts(3)
         \/ HelloStarts(4) \/ HelloJoins(1) \/ HelloJoins(2)
         \/ HelloJoins(3) \/ HelloJoins(4) \/ MainReturns \/ Greet("hello")
         \/ Greet("lambda") \/ Greet("task") \/ Greet("last")
<1>1. \A t \in Thread : Work(t) =>
        \/ Greet("hello") \/ Greet("lambda") \/ Greet("task")
        \/ Greet("last")
  BY DEF HelloInv, Only, Work, Thread, CountSome, CountRest, FuncSome,
         FuncRest, UpdateSome, UpdateRest, PrintLine, Greet
<1>2. Main => \/ MainReturns
              \/ \E k \in 1..4 : HelloStarts(k) \/ HelloJoins(k)
  BY DEF Main, At, WaitStarts, WaitJoins, WaitStartsSecond, WaitJoinsSecond,
         WaitPrints, CreateStarts, CreateReturns, LordTakes, TestMoved,
         LordDestroyed, UserCalls, GuardTakes, GuardChecks, FStarts, Divide,
         GuardJoins, FReturns, FPrints, WidgetStarts, WidgetJoins,
         WidgetReturns, MemberStarts, MemberJoins, MemberPrints,
         UniqueStarts, UniqueJoins
<1>3. \A k \in 1..4 : k = 1 \/ k = 2 \/ k = 3 \/ k = 4
  OBVIOUS
<1>4. ~Oops /\ ~Valid
  BY DEF Oops, Valid, At, OopsStarts, OopsDetaches, OopsSleeps, OopsReturns,
         ValidStarts, ValidJoins, ValidReturns
<1> QED
  BY <1>1, <1>2, <1>3, <1>4 DEF Next

-----------------------------------------------------------------------------
(* The invariant, program by program.                                      *)

LEMMA WaitStep ==
  ASSUME TypeOK, EndInv, WaitInv, program = "wait", Next
  PROVE  TypeOK' /\ WaitInv' /\ EndInv' /\ program' = program
<1> USE DEF TypeOK, WaitInv, EndInv, Only, Owns, Lives, Stored, At,
            Joinable, NoThread, Actor, Thread, Object, Label, Statuses
<1>1. CASE WaitStarts
  BY <1>1 DEF WaitStarts, Launch, LaunchWith, Ends
<1>2. CASE WaitJoins
  BY <1>2 DEF WaitJoins, Join
<1>3. CASE WaitStartsSecond
  BY <1>3 DEF WaitStartsSecond, Launch, LaunchWith, Ends
<1>4. CASE WaitJoinsSecond
  BY <1>4 DEF WaitJoinsSecond, Join
<1>5. CASE WaitPrints
  BY <1>5 DEF WaitPrints, PrintVariable
<1>6. CASE OopsStarts
  <2>1. {"aValue"} \subseteq Variable
    BY DEF Variable
  <2> QED
    BY <1>6, <2>1 DEF OopsStarts, LaunchWith, Ends
<1>7. CASE OopsDetaches
  BY <1>7 DEF OopsDetaches, Detach
<1>8. CASE OopsSleeps
  BY <1>8 DEF OopsSleeps, Goto
<1>9. CASE OopsReturns
  BY <1>9 DEF OopsReturns, Leave, Ends
<1>10. CASE ValidStarts
  BY <1>10 DEF ValidStarts, Launch, LaunchWith, Ends
<1>11. CASE ValidJoins
  BY <1>11 DEF ValidJoins, Join
<1>12. CASE ValidReturns
  BY <1>12 DEF ValidReturns, Leave, Ends
<1>13. CASE MainReturns
  BY <1>13 DEF MainReturns, Exit, Ends
<1>14. CASE CountSome("counter")
  <2>1. /\ pc' = [pc EXCEPT !["counter"] = pc'["counter"]]
        /\ pc["counter"] \in {"start", "working"}
        /\ pc'["counter"] \in {"working", "done"}
        /\ UNCHANGED <<program, owner, alive, printed>>
        /\ status = "running" /\ status' \in {"running", "crashed"}
    BY <1>14 DEF CountSome, Store
  <2>2. counted' \in [Variable -> Amount] /\ dangled' \in BOOLEAN
    BY <1>14, StoreTypes DEF CountSome, Amount
  <2>3. ~dangled' => ~dangled /\ counted'["aGoodInt"] = counted["aGoodInt"]
    BY <1>14, Targets DEF CountSome, Store
  <2> QED
    BY <2>1, <2>2, <2>3
<1>15. CASE CountRest("counter")
  <2>1. /\ pc' = [pc EXCEPT !["counter"] = pc'["counter"]]
        /\ pc["counter"] \in {"start", "working"}
        /\ pc'["counter"] \in {"working", "done"}
        /\ UNCHANGED <<program, owner, alive, printed>>
        /\ status = "running" /\ status' \in {"running", "crashed"}
    BY <1>15 DEF CountRest, Store
  <2>2. counted' \in [Variable -> Amount] /\ dangled' \in BOOLEAN
    BY <1>15, StoreTypes DEF CountRest, Amount
  <2>3. ~dangled' => ~dangled /\ counted'["aGoodInt"] = counted["aGoodInt"]
    BY <1>15, Targets DEF CountRest, Store
  <2> QED
    BY <2>1, <2>2, <2>3
<1>16. CASE CountSome("adder")
  BY <1>16, Targets DEF CountSome, Store, Variable, Amount
<1>17. CASE CountRest("adder")
  BY <1>17, Targets DEF CountRest, Store, Variable, Amount
<1> QED
  BY <1>1, <1>2, <1>3, <1>4, <1>5, <1>6, <1>7, <1>8, <1>9, <1>10,
     <1>11, <1>12, <1>13, <1>14, <1>15, <1>16, <1>17, WaitActions

LEMMA OwnershipStep ==
  ASSUME TypeOK, EndInv, OwnershipInv, program = "ownership", Next
  PROVE  TypeOK' /\ OwnershipInv' /\ EndInv' /\ program' = program
<1> USE DEF TypeOK, OwnershipInv, EndInv, Only, Owns, Lives, Stored, At,
            Joinable, NoThread, Actor, Thread, Object, Label, Statuses
<1>1. CASE CreateStarts
  BY <1>1 DEF CreateStarts, Launch, LaunchWith, Ends
<1>2. CASE CreateReturns
  BY <1>2 DEF CreateReturns, Move
<1>3. CASE LordTakes
  BY <1>3 DEF LordTakes, Move
<1>4. CASE TestMoved
  BY <1>4 DEF TestMoved, Join, Goto
<1>5. CASE LordDestroyed
  BY <1>5 DEF LordDestroyed, Join, Goto
<1>6. CASE MainReturns
  BY <1>6 DEF MainReturns, Exit, Ends
<1>7. CASE PrintLine
  BY <1>7 DEF PrintLine, Goto
<1> QED
  BY <1>1, <1>2, <1>3, <1>4, <1>5, <1>6, <1>7, OwnershipActions

LEMMA GuardStep ==
  ASSUME TypeOK, EndInv, GuardInv, program = "guard", Next
  PROVE  TypeOK' /\ GuardInv' /\ EndInv' /\ program' = program
<1> USE DEF TypeOK, GuardInv, EndInv, Only, Owns, Lives, Stored, At,
            Joinable, NoThread, Actor, Thread, Object, Label, Statuses
<1>1. CASE UserCalls
  BY <1>1 DEF UserCalls, Launch, LaunchWith, Ends, Goto
<1>2. CASE GuardTakes
  BY <1>2 DEF GuardTakes, Move
<1>3. CASE GuardChecks
  BY <1>3 DEF GuardChecks, Goto, Ends
<1>4. CASE MainReturns
  BY <1>4 DEF MainReturns, Exit, Ends
<1>5. CASE PrintLine
  BY <1>5 DEF PrintLine, Goto
<1> QED
  BY <1>1, <1>2, <1>3, <1>4, <1>5, GuardActions

LEMMA ExceptionStep ==
  ASSUME TypeOK, EndInv, ExceptionInv, program = "exception", Next
  PROVE  TypeOK' /\ ExceptionInv' /\ EndInv' /\ program' = program
<1> USE DEF TypeOK, ExceptionInv, EndInv, Only, Owns, Lives, Stored, At,
            Joinable, NoThread, Actor, Thread, Object, Label, Statuses
<1>1. CASE FStarts
  BY <1>1 DEF FStarts, Launch, LaunchWith, Ends
<1>2. CASE Divide
  BY <1>2 DEF Divide, Goto, Ends
<1>3. CASE GuardJoins
  BY <1>3 DEF GuardJoins, Join, Goto
<1>4. CASE FReturns
  BY <1>4 DEF FReturns, Leave, Ends
<1>5. CASE FPrints
  BY <1>5 DEF FPrints, PrintVariable
<1>6. CASE MainReturns
  BY <1>6 DEF MainReturns, Exit, Ends
<1>7. CASE FuncSome
  BY <1>7, Targets DEF FuncSome, Store, Variable, Amount
<1>8. CASE FuncRest
  BY <1>8, Targets DEF FuncRest, Store, Variable, Amount
<1> QED
  BY <1>1, <1>2, <1>3, <1>4, <1>5, <1>6, <1>7, <1>8, ExceptionActions

LEMMA ArgsStep ==
  ASSUME TypeOK, EndInv, ArgsInv, program = "args", Next
  PROVE  TypeOK' /\ ArgsInv' /\ EndInv' /\ program' = program
<1> USE DEF TypeOK, ArgsInv, EndInv, Only, Owns, Lives, Stored, At,
            Joinable, NoThread, Actor, Thread, Object, Label, Statuses
<1>1. CASE WidgetStarts
  <2>1. {"local"} \subseteq Variable
    BY DEF Variable
  <2> QED
    BY <1>1, <2>1 DEF WidgetStarts, LaunchWith, Ends
<1>2. CASE WidgetJoins
  BY <1>2 DEF WidgetJoins, Join
<1>3. CASE WidgetReturns
  BY <1>3 DEF WidgetReturns
<1>4. CASE MemberStarts
  BY <1>4 DEF MemberStarts, Launch, LaunchWith, Ends
<1>5. CASE MemberJoins
  BY <1>5 DEF MemberJoins, Join
<1>6. CASE MemberPrints
  BY <1>6 DEF MemberPrints, PrintVariable
<1>7. CASE UniqueStarts
  BY <1>7 DEF UniqueStarts, Launch, LaunchWith, Ends
<1>8. CASE UniqueJoins
  BY <1>8 DEF UniqueJoins, Join
<1>9. CASE MainReturns
  BY <1>9 DEF MainReturns, Exit, Ends
<1>10. CASE UpdateSome("ref")
  BY <1>10, Targets DEF UpdateSome, Store, Variable, Amount
<1>11. CASE UpdateRest("ref")
  BY <1>11, Targets DEF UpdateRest, Store, Variable, Amount
<1>12. CASE UpdateSome("member")
  BY <1>12, Targets DEF UpdateSome, Store, Variable, Amount
<1>13. CASE UpdateRest("member")
  BY <1>13, Targets DEF UpdateRest, Store, Variable, Amount
<1>14. CASE UpdateSome("unique")
  BY <1>14, Targets DEF UpdateSome, Store, Variable, Amount
<1>15. CASE UpdateRest("unique")
  BY <1>15, Targets DEF UpdateRest, Store, Variable, Amount
<1> QED
  BY <1>1, <1>2, <1>3, <1>4, <1>5, <1>6, <1>7, <1>8, <1>9, <1>10,
     <1>11, <1>12, <1>13, <1>14, <1>15, ArgsActions

LEMMA HelloStep ==
  ASSUME TypeOK, EndInv, HelloInv, program = "hello", Next
  PROVE  TypeOK' /\ HelloInv' /\ EndInv' /\ program' = program
<1> USE DEF TypeOK, HelloInv, EndInv, Only, Owns, Lives, Stored, At,
            Joinable, NoThread, Actor, Thread, Object, Label, Statuses
<1>1. CASE HelloStarts(1)
  BY <1>1 DEF HelloStarts, Launch, LaunchWith, Ends, HelloStart, HelloJoin,
     HelloThread, HelloObject
<1>2. CASE HelloStarts(2)
  BY <1>2 DEF HelloStarts, Launch, LaunchWith, Ends, HelloStart, HelloJoin,
     HelloThread, HelloObject
<1>3. CASE HelloStarts(3)
  BY <1>3 DEF HelloStarts, Launch, LaunchWith, Ends, HelloStart, HelloJoin,
     HelloThread, HelloObject
<1>4. CASE HelloStarts(4)
  BY <1>4 DEF HelloStarts, Launch, LaunchWith, Ends, HelloStart, HelloJoin,
     HelloThread, HelloObject
<1>5. CASE HelloJoins(1)
  BY <1>5 DEF HelloJoins, Join, HelloStart, HelloJoin, HelloThread,
     HelloObject
<1>6. CASE HelloJoins(2)
  BY <1>6 DEF HelloJoins, Join, HelloStart, HelloJoin, HelloThread,
     HelloObject
<1>7. CASE HelloJoins(3)
  BY <1>7 DEF HelloJoins, Join, HelloStart, HelloJoin, HelloThread,
     HelloObject
<1>8. CASE HelloJoins(4)
  BY <1>8 DEF HelloJoins, Join, HelloStart, HelloJoin, HelloThread,
     HelloObject
<1>9. CASE MainReturns
  BY <1>9 DEF MainReturns, Exit, Ends
<1>10. CASE Greet("hello")
  BY <1>10 DEF Greet, Goto
<1>11. CASE Greet("lambda")
  BY <1>11 DEF Greet, Goto
<1>12. CASE Greet("task")
  BY <1>12 DEF Greet, Goto
<1>13. CASE Greet("last")
  BY <1>13 DEF Greet, Goto
<1> QED
  BY <1>1, <1>2, <1>3, <1>4, <1>5, <1>6, <1>7, <1>8, <1>9, <1>10,
     <1>11, <1>12, <1>13, HelloActions

-----------------------------------------------------------------------------
LEMMA Initially == Init => IInv
<1> SUFFICES ASSUME Init PROVE IInv
  OBVIOUS
<1>1. TypeOK
  BY ThreadAssumption
     DEF Init, TypeOK, Actor, Thread, Object, Variable, Label, Amount,
         Statuses, NoThread
<1>2. EndInv
  BY ThreadAssumption DEF Init, EndInv
<1>3. ProgramInv
  BY DEF Init, ProgramInv, WaitInv, OwnershipInv, GuardInv, ExceptionInv,
         ArgsInv, HelloInv, Only, Owns, Lives, Stored, Actor, Thread, Object,
         NoThread
<1> QED
  BY <1>1, <1>2, <1>3 DEF IInv

LEMMA Stays == IInv /\ [Next]_vars => IInv'
<1> SUFFICES ASSUME IInv, [Next]_vars PROVE IInv'
  OBVIOUS
<1> USE DEF IInv, ProgramInv
<1>1. CASE UNCHANGED vars
  BY <1>1 DEF vars, TypeOK, WaitInv, OwnershipInv, GuardInv, ExceptionInv,
              ArgsInv, HelloInv, EndInv, Only, Owns, Lives, Stored
<1>2. CASE Next
  <2>1. CASE program = "wait"
    <3>1. TypeOK' /\ WaitInv' /\ EndInv' /\ program' = program
      BY <1>2, <2>1, WaitStep
    <3> QED
      BY <2>1, <3>1 DEF OwnershipInv, GuardInv, ExceptionInv, ArgsInv,
         HelloInv
  <2>2. CASE program = "ownership"
    <3>1. TypeOK' /\ OwnershipInv' /\ EndInv' /\ program' = program
      BY <1>2, <2>2, OwnershipStep
    <3> QED
      BY <2>2, <3>1 DEF WaitInv, GuardInv, ExceptionInv, ArgsInv, HelloInv
  <2>3. CASE program = "guard"
    <3>1. TypeOK' /\ GuardInv' /\ EndInv' /\ program' = program
      BY <1>2, <2>3, GuardStep
    <3> QED
      BY <2>3, <3>1 DEF WaitInv, OwnershipInv, ExceptionInv, ArgsInv,
         HelloInv
  <2>4. CASE program = "exception"
    <3>1. TypeOK' /\ ExceptionInv' /\ EndInv' /\ program' = program
      BY <1>2, <2>4, ExceptionStep
    <3> QED
      BY <2>4, <3>1 DEF WaitInv, OwnershipInv, GuardInv, ArgsInv, HelloInv
  <2>5. CASE program = "args"
    <3>1. TypeOK' /\ ArgsInv' /\ EndInv' /\ program' = program
      BY <1>2, <2>5, ArgsStep
    <3> QED
      BY <2>5, <3>1 DEF WaitInv, OwnershipInv, GuardInv, ExceptionInv,
         HelloInv
  <2>6. CASE program = "hello"
    <3>1. TypeOK' /\ HelloInv' /\ EndInv' /\ program' = program
      BY <1>2, <2>6, HelloStep
    <3> QED
      BY <2>6, <3>1 DEF WaitInv, OwnershipInv, GuardInv, ExceptionInv,
         ArgsInv
  <2> QED
    BY <2>1, <2>2, <2>3, <2>4, <2>5, <2>6 DEF EndInv
<1> QED
  BY <1>1, <1>2

LEMMA Invariance == Spec => []IInv
  BY Initially, Stays, PTL DEF Spec

\* The variables keep their types.
THEOREM TypeCorrect == Spec => []TypeOK
<1>1. IInv => TypeOK
  BY DEF IInv
<1> QED
  BY <1>1, Invariance, PTL

\* In every program a thread is owned once and, while it runs, by somebody
\* who will join it, the detached one excepted.
THEOREM OwnedOnce == Spec => []OneOwner
<1>1. IInv => OneOwner
  <2> SUFFICES ASSUME IInv PROVE OneOwner
    OBVIOUS
  <2> USE DEF OneOwner, IInv, ProgramInv, TypeOK, Only, Owns, Lives, Stored,
              Joinable, Unfinished, NoThread, Thread, Object
  <2>1. CASE program = "wait"
    BY <2>1 DEF WaitInv, EndInv
  <2>2. CASE program = "ownership"
    BY <2>2 DEF OwnershipInv, EndInv
  <2>3. CASE program = "guard"
    BY <2>3 DEF GuardInv, EndInv
  <2>4. CASE program = "exception"
    BY <2>4 DEF ExceptionInv, EndInv
  <2>5. CASE program = "args"
    BY <2>5 DEF ArgsInv, EndInv
  <2>6. CASE program = "hello"
    BY <2>6 DEF HelloInv, EndInv
  <2> QED
    BY <2>1, <2>2, <2>3, <2>4, <2>5, <2>6 DEF EndInv
<1> QED
  BY <1>1, Invariance, PTL

\* Everything a thread may still write to is alive, save what the detached
\* thread has.
THEOREM OthersNeverDangle == Spec => []OnlyDetachedDangles
<1>1. IInv => OnlyDetachedDangles
  <2> SUFFICES ASSUME IInv PROVE OnlyDetachedDangles
    OBVIOUS
  <2> USE DEF OnlyDetachedDangles, Writer, Target, IInv, ProgramInv, TypeOK,
              Only, Owns, Lives, Stored, Joinable, Unfinished, NoThread,
              Thread, Object
  <2>1. CASE program = "wait"
    BY <2>1, Targets DEF WaitInv, EndInv
  <2>2. CASE program = "ownership"
    BY <2>2, Targets DEF OwnershipInv, EndInv
  <2>3. CASE program = "guard"
    BY <2>3, Targets DEF GuardInv, EndInv
  <2>4. CASE program = "exception"
    BY <2>4, Targets DEF ExceptionInv, EndInv
  <2>5. CASE program = "args"
    BY <2>5, Targets DEF ArgsInv, EndInv
  <2>6. CASE program = "hello"
    BY <2>6, Targets DEF HelloInv, EndInv
  <2> QED
    BY <2>1, <2>2, <2>3, <2>4, <2>5, <2>6 DEF EndInv
<1> QED
  BY <1>1, Invariance, PTL

\* No program of the repository is ended by a thread object, whatever is thrown
\* in it, and none exits with a thread at work but the detached one.
THEOREM EndsCleanly == Spec => []EndsAsWritten
<1>1. IInv => EndsAsWritten
  <2> SUFFICES ASSUME IInv PROVE EndsAsWritten
    OBVIOUS
  <2> USE DEF EndsAsWritten, IInv, ProgramInv, TypeOK, Only, Owns, Lives,
              Stored, Joinable, Unfinished, NoThread, Thread, Object
  <2>1. CASE program = "wait"
    BY <2>1 DEF WaitInv, EndInv
  <2>2. CASE program = "ownership"
    BY <2>2 DEF OwnershipInv, EndInv
  <2>3. CASE program = "guard"
    BY <2>3 DEF GuardInv, EndInv
  <2>4. CASE program = "exception"
    BY <2>4 DEF ExceptionInv, EndInv
  <2>5. CASE program = "args"
    BY <2>5 DEF ArgsInv, EndInv
  <2>6. CASE program = "hello"
    BY <2>6 DEF HelloInv, EndInv
  <2> QED
    BY <2>1, <2>2, <2>3, <2>4, <2>5, <2>6 DEF EndInv
<1> QED
  BY <1>1, Invariance, PTL

\* What is printed is all of the threads' work.
THEOREM PrintsAll == Spec => []PrintedWhole
<1>1. IInv => PrintedWhole
  <2> SUFFICES ASSUME IInv PROVE PrintedWhole
    OBVIOUS
  <2> USE DEF PrintedWhole, IInv, ProgramInv, TypeOK, Only, Owns, Lives,
              Stored, Joinable, Unfinished, NoThread, Thread, Object
  <2>1. CASE program = "wait"
    BY <2>1 DEF WaitInv, EndInv
  <2>2. CASE program = "ownership"
    BY <2>2 DEF OwnershipInv, EndInv
  <2>3. CASE program = "guard"
    BY <2>3 DEF GuardInv, EndInv
  <2>4. CASE program = "exception"
    BY <2>4 DEF ExceptionInv, EndInv
  <2>5. CASE program = "args"
    BY <2>5 DEF ArgsInv, EndInv
  <2>6. CASE program = "hello"
    BY <2>6 DEF HelloInv, EndInv
  <2> QED
    BY <2>1, <2>2, <2>3, <2>4, <2>5, <2>6 DEF EndInv
<1> QED
  BY <1>1, Invariance, PTL
-----------------------------------------------------------------------------
(* Why the programs end.                                                   *)

\* The joins without a test of joinable: actor a waits for the thread of o.
Awaits(a, o) ==
  \/ /\ program = "wait"
     /\ \/ a = "main" /\ pc[a] = "join" /\ o = "aThread"
        \/ a = "main" /\ pc[a] = "join2" /\ o = "aSecondThread"
        \/ a = "valid" /\ pc[a] = "join" /\ o = "valid.aThread"
  \/ /\ program = "args" /\ a = "main"
     /\ \/ pc[a] = "join" /\ o = "oops_widget.aThread"
        \/ pc[a] = "join2" /\ o = "aThread"
        \/ pc[a] = "join3" /\ o = "aAnotherThread"
  \/ /\ program = "hello" /\ a = "main"
     /\ \/ pc[a] = "join" /\ o = "aThread"
        \/ pc[a] = "join2" /\ o = "aAnotherThread"
        \/ pc[a] = "join3" /\ o = "aBackgroundTaskThread"
        \/ pc[a] = "join4" /\ o = "aLastThread"

\* What is joined is a thread that was started, never the empty object, for
\* which join throws, and never the one who waits.
NoVainJoin ==
  \A a \in Actor, o \in Object :
    Awaits(a, o) => Joinable(o) /\ owner[o] # a /\ pc[owner[o]] # "none"

\* How many labels there may be before the end of an actor of program p at l.
\* hello_world starts all its threads before it joins the first.
LabelsLeft(p, l) ==
  IF p = "hello"
  THEN CASE l = "none" -> 10   [] l = "start" -> 9   [] l = "second" -> 8
         [] l = "third" -> 7   [] l = "fourth" -> 6  [] l = "join" -> 5
         [] l = "join2" -> 4   [] l = "join3" -> 3   [] l = "join4" -> 2
         [] l = "leave" -> 1   [] OTHER -> 0
  ELSE CASE l = "none" -> 21     [] l = "start" -> 20    [] l = "working" -> 19
         [] l = "build" -> 18    [] l = "check" -> 17    [] l = "divide" -> 16
         [] l = "unguard" -> 15  [] l = "move" -> 14     [] l = "lord" -> 13
         [] l = "test" -> 12     [] l = "destroy" -> 11  [] l = "detach" -> 10
         [] l = "sleep" -> 9     [] l = "join" -> 8      [] l = "return" -> 7
         [] l = "second" -> 6    [] l = "join2" -> 5     [] l = "print" -> 4
         [] l = "third" -> 3     [] l = "join3" -> 2     [] l = "leave" -> 1
         [] OTHER -> 0

Closer(p, to, from) == LabelsLeft(p, to) < LabelsLeft(p, from)

\* Every step takes the actors that move forward in what they do, never back,
\* or ends the process; no process goes on after its end.
Onward ==
  /\ status = "running" /\ UNCHANGED program
  /\ \A a \in Actor : pc'[a] = pc[a] \/ Closer(program, pc'[a], pc[a])
  /\ \/ status' # "running"
     \/ \E a \in Actor : Closer(program, pc'[a], pc[a])

LEMMA Order ==
  ASSUME NEW p, p # "hello"
  PROVE
    /\ Closer(p, "join", "start") /\ Closer(p, "second", "join")
    /\ Closer(p, "join2", "second") /\ Closer(p, "print", "join2")
    /\ Closer(p, "leave", "print") /\ Closer(p, "start", "none")
    /\ Closer(p, "detach", "start") /\ Closer(p, "sleep", "detach")
    /\ Closer(p, "return", "sleep") /\ Closer(p, "done", "return")
    /\ Closer(p, "return", "join") /\ Closer(p, "working", "start")
    /\ Closer(p, "done", "working") /\ Closer(p, "move", "start")
    /\ Closer(p, "lord", "move") /\ Closer(p, "test", "lord")
    /\ Closer(p, "destroy", "test") /\ Closer(p, "leave", "destroy")
    /\ Closer(p, "done", "start") /\ Closer(p, "build", "start")
    /\ Closer(p, "check", "build") /\ Closer(p, "destroy", "check")
    /\ Closer(p, "divide", "start") /\ Closer(p, "unguard", "divide")
    /\ Closer(p, "return", "unguard") /\ Closer(p, "print", "return")
    /\ Closer(p, "second", "return") /\ Closer(p, "third", "print")
    /\ Closer(p, "join3", "third") /\ Closer(p, "leave", "join3")
BY DEF Closer, LabelsLeft

LEMMA HelloOrder ==
  /\ Closer("hello", "second", "start") /\ Closer("hello", "third", "second")
  /\ Closer("hello", "fourth", "third") /\ Closer("hello", "join", "fourth")
  /\ Closer("hello", "join2", "join") /\ Closer("hello", "join3", "join2")
  /\ Closer("hello", "join4", "join3") /\ Closer("hello", "leave", "join4")
  /\ Closer("hello", "start", "none") /\ Closer("hello", "done", "start")
BY DEF Closer, LabelsLeft

LEMMA Ended ==
  ASSUME status = "running", status' # "running", UNCHANGED <<program, pc>>
  PROVE  Onward
BY DEF Onward

LEMMA WaitOnward ==
  ASSUME TypeOK, WaitInv, program = "wait", Next
  PROVE  Onward
<1> USE Order, Ended DEF TypeOK, WaitInv, Lives, Only, At, Onward, Actor,
   Thread
<1>1. CASE WaitStarts
  BY <1>1 DEF WaitStarts, Launch, LaunchWith, Ends
<1>2. CASE WaitJoins
  BY <1>2 DEF WaitJoins, Join
<1>3. CASE WaitStartsSecond
  BY <1>3 DEF WaitStartsSecond, Launch, LaunchWith, Ends
<1>4. CASE WaitJoinsSecond
  BY <1>4 DEF WaitJoinsSecond, Join
<1>5. CASE WaitPrints
  BY <1>5 DEF WaitPrints, PrintVariable
<1>6. CASE OopsStarts
  BY <1>6 DEF OopsStarts, LaunchWith, Ends
<1>7. CASE OopsDetaches
  BY <1>7 DEF OopsDetaches, Detach
<1>8. CASE OopsSleeps
  BY <1>8 DEF OopsSleeps, Goto
<1>9. CASE OopsReturns
  BY <1>9 DEF OopsReturns, Leave, Ends
<1>10. CASE ValidStarts
  BY <1>10 DEF ValidStarts, Launch, LaunchWith, Ends
<1>11. CASE ValidJoins
  BY <1>11 DEF ValidJoins, Join
<1>12. CASE ValidReturns
  BY <1>12 DEF ValidReturns, Leave, Ends
<1>13. CASE CountSome("counter")
  BY <1>13 DEF CountSome, Store
<1>14. CASE CountRest("counter")
  BY <1>14 DEF CountRest, Store
<1>15. CASE CountSome("adder")
  BY <1>15 DEF CountSome, Store
<1>16. CASE CountRest("adder")
  BY <1>16 DEF CountRest, Store
<1>17. CASE MainReturns
  BY <1>17 DEF MainReturns, Exit, Ends
<1> QED
  BY <1>1, <1>2, <1>3, <1>4, <1>5, <1>6, <1>7, <1>8, <1>9, <1>10, <1>11,
     <1>12, <1>13, <1>14, <1>15, <1>16, <1>17, WaitActions

LEMMA OwnershipOnward ==
  ASSUME TypeOK, OwnershipInv, program = "ownership", Next
  PROVE  Onward
<1> USE Order, Ended DEF TypeOK, OwnershipInv, Lives, Only, At, Onward, Actor,
   Thread
<1>1. CASE CreateStarts
  BY <1>1 DEF CreateStarts, Launch, LaunchWith, Ends
<1>2. CASE CreateReturns
  BY <1>2 DEF CreateReturns, Move
<1>3. CASE LordTakes
  BY <1>3 DEF LordTakes, Move
<1>4. CASE TestMoved
  BY <1>4 DEF TestMoved, Join, Goto
<1>5. CASE LordDestroyed
  BY <1>5 DEF LordDestroyed, Join, Goto
<1>6. CASE PrintLine
  BY <1>6 DEF PrintLine, Goto
<1>7. CASE MainReturns
  BY <1>7 DEF MainReturns, Exit, Ends
<1> QED
  BY <1>1, <1>2, <1>3, <1>4, <1>5, <1>6, <1>7, OwnershipActions

LEMMA GuardOnward ==
  ASSUME TypeOK, GuardInv, program = "guard", Next
  PROVE  Onward
<1> USE Order, Ended DEF TypeOK, GuardInv, Lives, Only, At, Onward, Actor,
   Thread
<1>1. CASE UserCalls
  BY <1>1 DEF UserCalls, Launch, Goto, LaunchWith, Ends
<1>2. CASE GuardTakes
  BY <1>2 DEF GuardTakes, Move
<1>3. CASE GuardChecks
  BY <1>3 DEF GuardChecks, Goto, Ends, Joinable, NoThread
<1>4. CASE PrintLine
  BY <1>4 DEF PrintLine, Goto
<1>5. CASE MainReturns
  BY <1>5 DEF MainReturns, Exit, Ends
<1> QED
  BY <1>1, <1>2, <1>3, <1>4, <1>5, GuardActions

LEMMA ExceptionOnward ==
  ASSUME TypeOK, ExceptionInv, program = "exception", Next
  PROVE  Onward
<1> USE Order, Ended DEF TypeOK, ExceptionInv, Lives, Only, At, Onward, Actor,
   Thread
<1>1. CASE FStarts
  BY <1>1 DEF FStarts, Launch, LaunchWith, Ends
<1>2. CASE Divide
  BY <1>2 DEF Divide, Goto, Ends
<1>3. CASE GuardJoins
  BY <1>3 DEF GuardJoins, Join, Goto
<1>4. CASE FReturns
  BY <1>4 DEF FReturns, Leave, Ends
<1>5. CASE FPrints
  BY <1>5 DEF FPrints, PrintVariable
<1>6. CASE FuncSome
  BY <1>6 DEF FuncSome, Store
<1>7. CASE FuncRest
  BY <1>7 DEF FuncRest, Store
<1>8. CASE MainReturns
  BY <1>8 DEF MainReturns, Exit, Ends
<1> QED
  BY <1>1, <1>2, <1>3, <1>4, <1>5, <1>6, <1>7, <1>8, ExceptionActions

LEMMA ArgsOnward ==
  ASSUME TypeOK, ArgsInv, program = "args", Next
  PROVE  Onward
<1> USE Order, Ended DEF TypeOK, ArgsInv, Lives, Only, At, Onward, Actor,
   Thread
<1>1. CASE WidgetStarts
  BY <1>1 DEF WidgetStarts, LaunchWith, Ends
<1>2. CASE WidgetJoins
  BY <1>2 DEF WidgetJoins, Join
<1>3. CASE WidgetReturns
  BY <1>3 DEF WidgetReturns
<1>4. CASE MemberStarts
  BY <1>4 DEF MemberStarts, Launch, LaunchWith, Ends
<1>5. CASE MemberJoins
  BY <1>5 DEF MemberJoins, Join
<1>6. CASE MemberPrints
  BY <1>6 DEF MemberPrints, PrintVariable
<1>7. CASE UniqueStarts
  BY <1>7 DEF UniqueStarts, Launch, LaunchWith, Ends
<1>8. CASE UniqueJoins
  BY <1>8 DEF UniqueJoins, Join
<1>9. CASE UpdateSome("ref")
  BY <1>9 DEF UpdateSome, Store
<1>10. CASE UpdateRest("ref")
  BY <1>10 DEF UpdateRest, Store
<1>11. CASE UpdateSome("member")
  BY <1>11 DEF UpdateSome, Store
<1>12. CASE UpdateRest("member")
  BY <1>12 DEF UpdateRest, Store
<1>13. CASE UpdateSome("unique")
  BY <1>13 DEF UpdateSome, Store
<1>14. CASE UpdateRest("unique")
  BY <1>14 DEF UpdateRest, Store
<1>15. CASE MainReturns
  BY <1>15 DEF MainReturns, Exit, Ends
<1> QED
  BY <1>1, <1>2, <1>3, <1>4, <1>5, <1>6, <1>7, <1>8, <1>9, <1>10, <1>11,
     <1>12, <1>13, <1>14, <1>15, ArgsActions

LEMMA HelloOnward ==
  ASSUME TypeOK, HelloInv, program = "hello", Next
  PROVE  Onward
<1> USE HelloOrder, Ended DEF TypeOK, HelloInv, Lives, Only, At, Onward,
   Actor, Thread
<1>1. CASE HelloStarts(1)
  BY <1>1 DEF HelloStarts, Launch, LaunchWith, Ends, HelloStart, HelloThread,
     HelloObject
<1>2. CASE HelloStarts(2)
  BY <1>2 DEF HelloStarts, Launch, LaunchWith, Ends, HelloStart, HelloThread,
     HelloObject
<1>3. CASE HelloStarts(3)
  BY <1>3 DEF HelloStarts, Launch, LaunchWith, Ends, HelloStart, HelloThread,
     HelloObject
<1>4. CASE HelloStarts(4)
  BY <1>4 DEF HelloStarts, Launch, LaunchWith, Ends, HelloStart, HelloThread,
     HelloObject
<1>5. CASE HelloJoins(1)
  BY <1>5 DEF HelloJoins, Join, HelloJoin, HelloObject
<1>6. CASE HelloJoins(2)
  BY <1>6 DEF HelloJoins, Join, HelloJoin, HelloObject
<1>7. CASE HelloJoins(3)
  BY <1>7 DEF HelloJoins, Join, HelloJoin, HelloObject
<1>8. CASE HelloJoins(4)
  BY <1>8 DEF HelloJoins, Join, HelloJoin, HelloObject
<1>9. CASE Greet("hello")
  BY <1>9 DEF Greet, Goto
<1>10. CASE Greet("lambda")
  BY <1>10 DEF Greet, Goto
<1>11. CASE Greet("task")
  BY <1>11 DEF Greet, Goto
<1>12. CASE Greet("last")
  BY <1>12 DEF Greet, Goto
<1>13. CASE MainReturns
  BY <1>13 DEF MainReturns, Exit, Ends
<1> QED
  BY <1>1, <1>2, <1>3, <1>4, <1>5, <1>6, <1>7, <1>8, <1>9, <1>10, <1>11,
     <1>12, <1>13, HelloActions

(* No actor goes through a label twice: with its 14 actors, of at most 21  *)
(* labels each, no program takes more than a few hundred steps.            *)
THEOREM GoesOnward == Spec => [][Onward]_vars
<1>1. IInv /\ [Next]_vars => [Onward]_vars
  BY WaitOnward, OwnershipOnward, GuardOnward, ExceptionOnward, ArgsOnward,
     HelloOnward DEF IInv, ProgramInv, EndInv
<1> QED
  BY <1>1, Invariance, PTL DEF Spec

(* No join throws, and none waits for a thread that never started.         *)
THEOREM JoinsTheStarted == Spec => []NoVainJoin
<1>1. ASSUME IInv PROVE NoVainJoin
  <2> USE <1>1 DEF IInv, ProgramInv
  <2> SUFFICES ASSUME NEW a \in Actor, NEW o \in Object, Awaits(a, o)
               PROVE  Joinable(o) /\ owner[o] # a /\ pc[owner[o]] # "none"
    BY DEF NoVainJoin
  <2>1. CASE program = "wait"
    <3>1. \/ a = "main" /\ o = "aThread" /\ owner[o] = "oops"
          \/ a = "main" /\ o = "aSecondThread" /\ owner[o] = "valid"
          \/ a = "valid" /\ o = "valid.aThread" /\ owner[o] = "adder"
      BY <2>1 DEF Awaits, WaitInv, Owns, Lives
    <3> QED
      BY <2>1, <3>1 DEF Awaits, WaitInv, Owns, Lives, Joinable, NoThread
  <2>2. CASE program = "args"
    BY <2>2 DEF Awaits, ArgsInv, Owns, Lives, Joinable, NoThread
  <2>3. CASE program = "hello"
    BY <2>3 DEF Awaits, HelloInv, Owns, Lives, Joinable, NoThread
  <2> QED
    BY <2>1, <2>2, <2>3 DEF Awaits
<1> QED
  BY <1>1, Invariance, PTL
=============================================================================
