----------------------------- MODULE CodeLayout -----------------------------
(***************************************************************************)
(* The code that the compiler lays out for a function and the machine that *)
(* executes it.  A scope is a list of command units; the units of a scope  *)
(* are followed by those of its children, so that blocks, branches and     *)
(* loops lie behind the code they are written in.  Once all addresses are  *)
(* known the update tasks fill in the jumps and the exit commands that     *)
(* break, continue and return execute out of line.  The machine has one    *)
(* command pointer and a stack of the commands to go back to.              *)
(*                                                                         *)
(* ScopeObjects describes the same function by its open scopes and the     *)
(* statement each has reached, without addresses: the machine implements   *)
(* it.  Programs are those of ScopeObjects.                                *)
(***************************************************************************)
EXTENDS Integers, Sequences, FiniteSets, SequencesExt

CONSTANTS Scope, Root, NoScope, Programs, Garbage

VARIABLES
    program,   \* the source: scopes and statements
    code,      \* the plain code; commands are numbered from 1
    current,   \* _currentCommand
    before,    \* _beforeJump
    mode,      \* whether current is to be executed, was, or executes its list
    pending,   \* what is left of the list of a break, continue or return
    by,        \* which of them is under way
    contexts,  \* the context stack, innermost last
    flag,      \* the condition evaluated last, and whether a jump has read it
    phase, result, event    \* as in ScopeObjects

vars == <<program, code, current, before, mode, pending, by, contexts, flag,
          phase, result, event>>
-----------------------------------------------------------------------------
(* The units of a scope, in the order in which the parser puts them. *)

Unit(op, s, at) == [op |-> op, scope |-> s, at |-> at]

Then(scopes) == CHOOSE s \in scopes \ {NoScope} : TRUE
Else(scopes) ==
    IF scopes = {Then(scopes)} THEN NoScope ELSE CHOOSE s \in scopes \ {Then(scopes)} : TRUE

(* A block is jumped to; if and while test their condition in the scope around. *)
StatementUnits(p, s, at) ==
    LET statement == p.body[s][at]
    IN  CASE statement.op = "object" -> <<Unit("construct", s, at)>>
          [] statement.op = "open" ->
                IF Cardinality(statement.scopes) = 1 THEN <<Unit("jump", s, at)>>
                ELSE <<Unit("condition", s, at), Unit("jumpIf", s, at)>>
          [] OTHER -> <<Unit(statement.op, s, at)>>

BodyUnits(p, s) == FlattenSeq([at \in 1..Len(p.body[s]) |-> StatementUnits(p, s, at)])

(* _destructors: each declaration pushes its own to the front. *)
DestructorUnits(p, s) ==
    LET indexOf(at) == Cardinality({i \in 1..(at - 1) : p.body[s][i].op = "object"})
        owned == SelectSeq([at \in 1..Len(p.body[s]) |-> at],
                           LAMBDA at : p.body[s][at].op = "object" /\ p.body[s][at].owned)
    IN  Reverse([i \in 1..Len(owned) |-> Unit("destroy", s, indexOf(owned[i]))])

(* LoopScope::parse puts the condition once more before the exit. *)
LoopUnits(p, s) ==
    IF p.kind[s] = "loop" THEN <<Unit("condition", s, 0), Unit("jumpIf", s, 0)>> ELSE <<>>

ExitUnits(p, s) ==
    <<Unit("exit", s, 0)>>
    \o (IF p.kind[s] = "function" THEN <<Unit("exitFunction", s, 0)>> ELSE <<>>)

CommandUnits(p, s) ==
    <<Unit("enter", s, 0)>> \o BodyUnits(p, s) \o DestructorUnits(p, s)
    \o LoopUnits(p, s) \o ExitUnits(p, s)

(* The scopes that a scope's statements open, in the order they were parsed. *)
Children(p, s) ==
    FlattenSeq([at \in 1..Len(p.body[s]) |->
        IF p.body[s][at].op # "open" THEN <<>>
        ELSE SelectSeq(<<Then(p.body[s][at].scopes), Else(p.body[s][at].scopes)>>,
                       LAMBDA t : t # NoScope)])

(* extractCode: a scope's own units, then those of its children. *)
ExtractCode(p) ==
    LET extract[s \in Scope] ==
            FoldLeft(LAMBDA units, t : units \o extract[t], CommandUnits(p, s), Children(p, s))
    IN  extract[Root]
-----------------------------------------------------------------------------
(* Addresses, once the units lie in plain code. *)

AddressOf(units, unit) == CHOOSE i \in 1..Len(units) : units[i] = unit

CodeBegin(units, s) == AddressOf(units, Unit("enter", s, 0))
CodeEnd(p, units, s) == AddressOf(units, Last(CommandUnits(p, s)))

(* A wrong variant: the update begins behind the exit. *)
BeginExitBehind(p, units, s) ==
    1 + AddressOf(units, IF DestructorUnits(p, s) = <<>> THEN Unit("exit", s, 0)
                         ELSE Head(DestructorUnits(p, s)))

(* _beginExitScopeUnit: the first destructor, or else the exit. *)
BeginExit(p, units, s) ==
    AddressOf(units, IF DestructorUnits(p, s) = <<>> THEN Unit("exit", s, 0)
                     ELSE Head(DestructorUnits(p, s)))

(* buildExitScopeCodeCommands; a loop leaves the test of its condition out. *)
ExitScopeCode(p, units, s) ==
    SelectSeq([i \in 1..(CodeEnd(p, units, s) - BeginExit(p, units, s) + 1) |->
                  BeginExit(p, units, s) + i - 1],
              LAMBDA i : units[i] # Unit("condition", s, 0))

Outward(p, units, s, last) ==
    LET list[t \in Scope] ==
            ExitScopeCode(p, units, t) \o (IF t \in last THEN <<>> ELSE list[p.parent[t]])
    IN  list[s]

AllLoops(p) == {t \in Scope : p.kind[t] = "loop"}
ReturnList(p, units, s) == Outward(p, units, s, {Root})
BreakList(p, units, s) == Outward(p, units, s, AllLoops(p))

ContinueList(p, units, s) ==
    IF p.kind[s] = "loop" THEN <<>>
    ELSE Outward(p, units, s, {t \in Scope : p.parent[t] \in AllLoops(p)})

LoopScope(p, s) ==
    LET loop[t \in Scope] == IF p.kind[t] = "loop" THEN t ELSE loop[p.parent[t]]
    IN  loop[s]

(* A wrong variant: the jump after the test, when the loop has no destructors. *)
LoopCommandAfterTest(p, units, s) ==
    LET test == AddressOf(units, Unit("condition", LoopScope(p, s), 0))
        exit == BeginExit(p, units, LoopScope(p, s))
    IN  IF exit < test THEN exit ELSE test + 1

(* Where continue goes on: the loop's destructors, if it has any, or its test. *)
LoopCommand(p, units, s) ==
    LET test == AddressOf(units, Unit("condition", LoopScope(p, s), 0))
        exit == BeginExit(p, units, LoopScope(p, s))
    IN  IF exit < test THEN exit ELSE test

(* A wrong variant: each turn of a loop enters its scope again. *)
BranchToEnter(p, units, u) ==
    LET scopes == IF u.at = 0 THEN {u.scope} ELSE p.body[u.scope][u.at].scopes
    IN  [then |-> CodeBegin(units, Then(scopes)) - 1,
         else |-> IF Else(scopes) = NoScope THEN 0 ELSE CodeBegin(units, Else(scopes)) - 1]

(* The commands jumped to.  The machine then moves on by one: a scope is     *)
(* entered by a jump before its first command, and a loop taken up again by  *)
(* one onto it, so that it is not entered twice.                             *)
Branch(p, units, u) ==
    LET scopes == p.body[u.scope][u.at].scopes
    IN  IF u.at = 0 THEN [then |-> CodeBegin(units, u.scope), else |-> 0]
        ELSE [then |-> CodeBegin(units, Then(scopes)) - 1,
              else |-> IF Else(scopes) = NoScope THEN 0 ELSE CodeBegin(units, Else(scopes)) - 1]

NoCommand == 0

(* fillParams of each unit's builder. *)
Filled(p, units, u) ==
    LET branch == CASE u.op \in {"jump", "jumpIf"} -> Branch(p, units, u)
                    [] u.op = "continue" ->
                          [then |-> LoopCommand(p, units, u.scope) - 1, else |-> NoCommand]
                    [] OTHER -> [then |-> NoCommand, else |-> NoCommand]
    IN  [unit |-> u, then |-> branch.then, else |-> branch.else,
         list |-> CASE u.op = "break" -> BreakList(p, units, u.scope)
                    [] u.op = "continue" -> ContinueList(p, units, u.scope)
                    [] u.op = "return" -> ReturnList(p, units, u.scope)
                    [] OTHER -> <<>>]

(* convertToPlainCode, and runUpdate once every command has its address. *)
Compile(p) ==
    LET units == ExtractCode(p)
    IN  [i \in 1..Len(units) |-> Filled(p, units, units[i])]
-----------------------------------------------------------------------------
(* What the machine's state says about the scopes: where each has got to. *)

UnitAt(a) == code[a].unit

(* Part of the end of a scope's code: behind its statements. *)
OfEnd(u) ==
    \/ u.op \in {"destroy", "exit", "exitFunction"}
    \/ u.op \in {"condition", "jumpIf"} /\ u.at = 0

Upcoming == IF mode = "advance" THEN current + 1 ELSE current

(* A jump was made to a scope that has not been entered yet. *)
Entering == mode # "list" /\ UnitAt(Upcoming).op = "enter"

AtEnd == mode # "list" /\ ~ Entering /\ (by # NoCommand \/ OfEnd(UnitAt(current)))

(* The statement a command belongs to is left behind once the scope it opens is. *)
Behind(u) == IF u.op \in {"break", "continue", "return"} THEN u.at ELSE u.at + 1

(* The statement that the innermost scope has reached. *)
Reached ==
    LET here == UnitAt(current)
    IN  CASE Entering -> UnitAt(before).at
          [] AtEnd -> IF by = NoCommand THEN Len(program.body[here.scope]) + 1
                      ELSE Behind(UnitAt(before))
          [] mode = "list" -> Behind(UnitAt(IF here.op = "enter" THEN before ELSE current))
          [] OTHER -> IF here.op = "enter" THEN 1
                      ELSE IF mode = "advance" /\ here.op # "condition" THEN here.at + 1
                      ELSE here.at

Frame(context, next) ==
    [scope |-> context.scope, next |-> next,
     marks |-> context.marks, built |-> context.built, live |-> context.live]

(* A scope around another has reached the command that the other goes back to. *)
Frames ==
    IF contexts = <<>> THEN <<>>
    ELSE [i \in 1..(Len(contexts) - 1) |->
             Frame(contexts[i], UnitAt(contexts[i + 1].saved).at + 1)]
         \o <<Frame(Last(contexts), Reached)>>

(* The exits of scopes that a sequence of commands makes.  The exit of the  *)
(* function's scope is complete with the command behind it.                 *)
Exits(commands) ==
    LET units == [i \in 1..Len(commands) |-> UnitAt(commands[i])]
        kept  == SelectSeq(units, LAMBDA u : \/ u.op \in {"destroy", "jumpIf", "exitFunction"}
                                             \/ u.op = "exit" /\ u.scope # Root)
    IN  [i \in 1..Len(kept) |->
            [op |-> IF kept[i].op = "exitFunction" THEN "exit" ELSE kept[i].op,
             scope |-> kept[i].scope, index |-> kept[i].at]]

(* What follows in the code up to the end of the scope. *)
Rest(from) ==
    LET s   == UnitAt(from).scope
        end == CHOOSE a \in 1..Len(code) :
                   UnitAt(a) = Unit(IF s = Root THEN "exitFunction" ELSE "exit", s, 0)
    IN  [i \in 1..(end - from + 1) |-> from + i - 1]

Outstanding ==
    IF contexts = <<>> THEN <<>>
    ELSE IF mode = "list"
    THEN Exits(pending \o (IF UnitAt(by).op = "continue" THEN Rest(code[by].then + 1) ELSE <<>>))
    ELSE IF AtEnd THEN Exits(Rest(Upcoming)) ELSE <<>>

Way ==
    IF Outstanding = <<>> THEN "none"
    ELSE IF mode = "list" THEN UnitAt(by).op
    ELSE IF by # NoCommand THEN "continue" ELSE "end"

Structured == INSTANCE ScopeObjects WITH frames <- Frames, out <- Outstanding, way <- Way
-----------------------------------------------------------------------------
Running == phase = "running"
Executing == Running /\ mode \in {"execute", "list"}

(* The command executed: the current one, or one from a list. *)
Command == IF mode = "list" THEN Head(pending) ELSE current
Is(op) == Executing /\ UnitAt(Command).op = op

(* The command has been executed and has left the command pointer at "at".   *)
(* A continue whose list is done jumps to the end of its loop.               *)
Complete(at, from) ==
    IF mode = "execute"
      THEN /\ mode' = "advance" /\ current' = at /\ before' = from
           /\ by' = IF at = current THEN by ELSE NoCommand
           /\ UNCHANGED pending
      ELSE /\ pending' = Tail(pending)
           /\ mode' = IF pending' = <<>> THEN "advance" ELSE "list"
           /\ IF pending' = <<>> /\ UnitAt(by).op = "continue"
                THEN current' = code[by].then /\ before' = at /\ by' = by
                ELSE /\ current' = at /\ before' = from
                     /\ by' = IF pending' = <<>> THEN NoCommand ELSE by

Context(s, saved, marks) ==
    [scope |-> s, saved |-> saved, marks |-> marks, built |-> {}, live |-> {}]

Inner == Last(contexts)
WithInner(context) == [contexts EXCEPT ![Len(contexts)] = context]

EnterContextScope ==
    /\ Is("enter")
    /\ LET s == UnitAt(Command).scope
       IN  \E marks \in Structured!FreshMarks(Structured!ObjectCount(program, s)) :
              contexts' = Append(contexts, Context(s, before, marks))
    /\ Complete(current, before)
    /\ event' = Structured!NoEvent
    /\ UNCHANGED <<program, code, flag, phase, result>>

(* A declaration: its constructor, and afterCallConstructor. *)
Construct ==
    /\ Is("construct")
    /\ LET u == UnitAt(Command)
           index == Structured!IndexAt(program, u.scope, u.at)
       IN  /\ contexts' = WithInner([Inner EXCEPT
                    !.marks = Structured!MarkConstructorExecuted(@, index),
                    !.built = @ \union {index}, !.live = @ \union {index}])
           /\ event' = [op |-> "construct", scope |-> u.scope, index |-> index]
    /\ Complete(current, before)
    /\ UNCHANGED <<program, code, flag, phase, result>>

Evaluate(holds) ==
    /\ Is("condition")
    /\ flag' = [of |-> UnitAt(Command), holds |-> holds, read |-> FALSE]
    /\ Complete(current, before)
    /\ UNCHANGED <<program, code, contexts, phase, result, event>>

Jump ==
    /\ Is("jump")
    /\ Complete(code[Command].then, current)
    /\ UNCHANGED <<program, code, contexts, flag, phase, result, event>>

ConditionOf(u) == Unit("condition", u.scope, u.at)

(* JumpIf and JumpIfElse read the byte where their condition left its value. *)
JumpIf(holds) ==
    /\ Is("jumpIf")
    /\ LET u == UnitAt(Command)
           to == IF holds THEN code[Command].then ELSE code[Command].else
       IN  /\ flag.of = ConditionOf(u) => holds = flag.holds
           /\ IF to = NoCommand THEN Complete(current, before) ELSE Complete(to, current)
           /\ event' = IF u.at = 0 \/ to = NoCommand THEN Structured!NoEvent ELSE event
    /\ flag' = [flag EXCEPT !.read = TRUE]
    /\ UNCHANGED <<program, code, contexts, phase, result>>

RunDestructor ==
    /\ Is("destroy")
    /\ LET u == UnitAt(Command)
       IN  IF Structured!IsConstructorExecuted(Inner.marks, u.at)
             THEN /\ contexts' = WithInner([Inner EXCEPT !.live = @ \ {u.at}])
                  /\ event' = [op |-> "destroy", scope |-> u.scope, index |-> u.at]
             ELSE UNCHANGED contexts /\ event' = Structured!NoEvent
    /\ Complete(current, before)
    /\ UNCHANGED <<program, code, flag, phase, result>>

(* The scope of the function leaves its context to the exit of the function. *)
ExitContextScope ==
    /\ Is("exit")
    /\ IF UnitAt(Command).scope = Root
         THEN Complete(current, before) /\ UNCHANGED <<contexts, event>>
         ELSE /\ Complete(Inner.saved, before) /\ contexts' = Front(contexts)
              /\ event' = Structured!NoEvent
    /\ UNCHANGED <<program, code, flag, phase, result>>

ExitFunction ==
    /\ Is("exitFunction")
    /\ Complete(Inner.saved, before)
    /\ contexts' = Front(contexts)
    /\ phase' = "returned"
    /\ event' = Structured!NoEvent
    /\ UNCHANGED <<program, code, flag, result>>

(* break, continue and return begin: their commands are executed in place. *)
BeginList ==
    /\ Executing /\ mode = "execute" /\ UnitAt(current).op \in {"break", "continue"}
    /\ by' = current
    /\ pending' = code[current].list
    /\ IF pending' # <<>>
         THEN mode' = "list" /\ UNCHANGED <<current, before>>
         ELSE mode' = "advance" /\ current' = code[current].then /\ before' = current
    /\ event' = Structured!NoEvent
    /\ UNCHANGED <<program, code, contexts, flag, phase, result>>

Return ==
    /\ Is("return")
    /\ LET u == UnitAt(current)
           object == program.body[u.scope][u.at].of
       IN  /\ contexts' = IF Structured!Excluded(program, u.scope, u.at, object)
                            THEN WithInner([Inner EXCEPT !.marks =
                                    Structured!MarkConstructorNotExecuted(@, object.index)])
                            ELSE contexts
           /\ result' = object
    /\ by' = current /\ pending' = code[current].list /\ mode' = "list"
    /\ event' = Structured!NoEvent
    /\ UNCHANGED <<program, code, current, before, flag, phase>>

(* _currentCommand++ in runFunctionScript. *)
Advance ==
    /\ Running /\ mode = "advance"
    /\ mode' = "execute" /\ current' = current + 1
    /\ event' = IF OfEnd(UnitAt(current')) /\ ~ AtEnd THEN Structured!NoEvent ELSE event
    /\ UNCHANGED <<program, code, before, pending, by, contexts, flag, phase, result>>

(* An exception ends the run of the function. *)
Throw ==
    /\ Running
    /\ phase' = "raised"
    /\ event' = Structured!NoEvent
    /\ UNCHANGED <<program, code, current, before, mode, pending, by, contexts, flag, result>>

(* The function has been called: its scope is entered. *)
Init ==
    /\ program \in Programs
    /\ code = Compile(program)
    /\ current = 1 /\ before = NoCommand /\ mode = "advance"
    /\ pending = <<>> /\ by = NoCommand
    /\ \E marks \in Structured!FreshMarks(Structured!ObjectCount(program, Root)) :
          contexts = <<Context(Root, NoCommand, marks)>>
    /\ flag = [of |-> Unit("none", Root, 0), holds |-> FALSE, read |-> TRUE]
    /\ phase = "running"
    /\ result = Structured!NoObject /\ event = Structured!NoEvent

Next ==
    \/ EnterContextScope \/ ExitContextScope \/ ExitFunction
    \/ Construct \/ RunDestructor
    \/ \E holds \in BOOLEAN : Evaluate(holds) \/ JumpIf(holds)
    \/ Jump \/ BeginList \/ Return
    \/ Advance \/ Throw

(* runFunctionScript executes commands until the function has returned. *)
Spec == Init /\ [][Next]_vars /\ WF_vars(Next)
-----------------------------------------------------------------------------
Commands == 1..Len(code)

(* Types; the machine stays inside the code of the function, which it leaves *)
(* by its exit only, and a list is executed for a break, continue or return. *)
TypeOK ==
    /\ mode \in {"execute", "advance", "list"}
    /\ phase \in {"running", "returned", "raised"}
    /\ by \in Commands \union {NoCommand}
    /\ pending \in Seq(Commands)
    /\ mode = "list" <=> pending # <<>>
    /\ pending # <<>> => UnitAt(by).op \in {"break", "continue", "return"}
    /\ Running =>
          /\ current \in Commands
          /\ mode = "advance" => current + 1 \in Commands
          /\ contexts # <<>> /\ contexts[1].scope = Root
    /\ flag.holds \in BOOLEAN /\ flag.read \in BOOLEAN

(* The machine on command addresses implements what ScopeObjects says of the *)
(* scopes and statements: every jump that was filled in leads to the code it *)
(* was meant for, the commands executed out of line leave exactly the scopes *)
(* that a break, continue or return leaves, and the command pointer restored *)
(* by the exits is that of the statement that opened the scope.              *)
Implements == Structured!Spec

(* A jump decides on its own condition, evaluated since the last jump: a     *)
(* conditional jump that takes place in the code, outside the commands that  *)
(* break and return execute out of line, finds the value of its condition in *)
(* the flag, not that of another loop or of an earlier turn.                 *)
DecidesOnItsCondition ==
    Is("jumpIf") /\ mode = "execute" /\ ~ phase' = "raised" =>
        flag.of = ConditionOf(UnitAt(current)) /\ ~ flag.read

JumpsDecideOnTheirCondition == [][DecidesOnItsCondition]_vars
=============================================================================
