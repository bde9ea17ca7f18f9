---------------------------- MODULE ScopeObjects ----------------------------
(***************************************************************************)
(* The lifetime of the objects that a script function declares.  The       *)
(* compiler gives each object of a scope an index, in the order of their   *)
(* declarations, and puts its destructor at the end of the scope; break,   *)
(* continue and return get a copy of the ends of the scopes they leave.    *)
(* At run time each open scope keeps marks (ScopeRuntimeData) that tell    *)
(* which constructors were executed: a destructor runs if its mark is set. *)
(*                                                                         *)
(* A program is the code of one function: a tree of scopes with their      *)
(* statements.  A constructor, a destructor and a condition are a step     *)
(* each: what they call leaves the context as it was (ScriptRun).  Objects *)
(* that live within one expression (DestructorContextScope) are left out.  *)
(***************************************************************************)
EXTENDS Integers, Sequences, FiniteSets

CONSTANTS Scope,       \* the scopes of the function
          Root,        \* the function's own scope
          NoScope,     \* the way past an if or a while
          Programs,    \* the code of the functions to check
          Garbage      \* what the marks of a scope may hold that are not cleared

NoObject == [scope |-> NoScope, index |-> 0]
Object == [scope : Scope, index : Nat]

(* if, while and a block open one of "scopes"; "owned" objects have a destructor. *)
Statement ==
    [op : {"object"}, owned : BOOLEAN]
    \union [op : {"open"}, scopes : SUBSET (Scope \union {NoScope})]
    \union [op : {"break", "continue"}]
    \union [op : {"return"}, of : Object \union {NoObject}]

Program ==
    [kind : [Scope -> {"function", "block", "loop"}], parent : [Scope -> Scope],
     body : [Scope -> Seq(Statement)]]

(* Every scope lies inside the function's. *)
InFunction(p) ==
    \A inside \in SUBSET Scope :
        Root \in inside /\ (\A s \in Scope : p.parent[s] \in inside => s \in inside)
            => inside = Scope

ASSUME ProgramsAssumption ==
    /\ Programs \subseteq Program
    /\ Root \in Scope /\ NoScope \notin Scope
    /\ Garbage \subseteq SUBSET Nat /\ {} \in Garbage
    /\ \A p \in Programs : InFunction(p) /\ \A s \in Scope :
          /\ p.kind[s] = "function" <=> s = Root
          /\ p.parent[s] = s <=> s = Root
          /\ \A i \in 1..Len(p.body[s]) : p.body[s][i].op = "open" =>
                \A t \in p.body[s][i].scopes \ {NoScope} : t # Root /\ p.parent[t] = s

VARIABLES
    program,   \* the code
    frames,    \* the open scopes, innermost last, with their marks
    out,       \* the exit commands still to be executed on the way out
    way,       \* why they are: the way out of the innermost scope
    phase,     \* of the run
    result,    \* the object whose bytes were copied to the result
    event      \* the constructor or destructor that has just run

vars == <<program, frames, out, way, phase, result, event>>
-----------------------------------------------------------------------------
(* The compiled scope. *)

(* _constructorCount when the statement at k is compiled: its object's index. *)
IndexAt(p, s, k) == Cardinality({i \in 1..(k - 1) : p.body[s][i].op = "object"})
ObjectCount(p, s) == IndexAt(p, s, Len(p.body[s]) + 1)

Declares(p, s, k) == p.body[s][k].op = "object" /\ p.body[s][k].owned

(* The object of that index has a destructor. *)
Owned(p, s, index) ==
    \E k \in 1..Len(p.body[s]) : Declares(p, s, k) /\ IndexAt(p, s, k) = index

Destroy(s, index) == [op |-> "destroy", scope |-> s, index |-> index]
JumpIf(s) == [op |-> "jumpIf", scope |-> s, index |-> 0]
Exit(s) == [op |-> "exit", scope |-> s, index |-> 0]

(* A wrong variant: objects are destroyed in the order of their declarations. *)
DestructorsPushedBack(p, s) ==
    LET list[k \in 0..Len(p.body[s])] ==
            IF k = 0 THEN <<>>
            ELSE IF Declares(p, s, k) THEN Append(list[k - 1], Destroy(s, IndexAt(p, s, k)))
            ELSE list[k - 1]
    IN  list[Len(p.body[s])]

(* _destructors: each declaration pushes its own to the front. *)
Destructors(p, s) ==
    LET list[k \in 0..Len(p.body[s])] ==
            IF k = 0 THEN <<>>
            ELSE IF Declares(p, s, k) THEN <<Destroy(s, IndexAt(p, s, k))>> \o list[k - 1]
            ELSE list[k - 1]
    IN  list[Len(p.body[s])]

(* The end of a scope's code.  A loop tests its condition once more before it exits. *)
EndCode(p, s) ==
    Destructors(p, s)
    \o (IF p.kind[s] = "loop" THEN <<JumpIf(s)>> ELSE <<>>)
    \o <<Exit(s)>>

(* buildExitScopeCodeCommands: the part of it that break, continue and return *)
(* copy, from _beginExitScopeCommand; it takes the loop's JumpIf along if it  *)
(* lies behind.                                                               *)
ExitCode(p, s) == IF Destructors(p, s) = <<>> THEN <<Exit(s)>> ELSE EndCode(p, s)

(* The code that leaves a scope and those around it, out of the first that is *)
(* of one of the kinds and is left by "last".                                 *)
WayOut(p, kinds, last) ==
    LET code[t \in Scope] ==
            IF p.kind[t] \in kinds THEN last[t] ELSE ExitCode(p, t) \o code[p.parent[t]]
    IN  code

ExitCodes(p) == [t \in Scope |-> ExitCode(p, t)]
EndCodes(p) == [t \in Scope |-> EndCode(p, t)]

(* A wrong variant: the scope that holds the return is not left. *)
ReturnCodeOfOuterScopes(p, s) == WayOut(p, {"function"}, ExitCodes(p))[p.parent[s]]

ReturnCode(p, s) == WayOut(p, {"function"}, ExitCodes(p))[s]

(* Inside a loop, as InLoop makes sure. *)
BreakCode(p, s) == WayOut(p, {"loop", "function"}, ExitCodes(p))[s]

(* Out of the scopes inside the loop; then a jump to the end of the loop's code. *)
ContinueCode(p, s) == WayOut(p, {"loop", "function"}, EndCodes(p))[s]

(* A loop around the scope, in the function: _loopScope. *)
InLoop(p, s) ==
    LET inside[t \in Scope] ==
            \/ p.kind[t] = "loop"
            \/ p.kind[t] = "block" /\ inside[p.parent[t]]
    IN  inside[s]
-----------------------------------------------------------------------------
(* The marks at run time: the set of the bits that are set, the highest bit *)
(* of the first byte being 0.                                               *)

(* mask_base >> index: four bits, less those that fall out of the byte. *)
Mask(index) == {bit \in index..(index + 3) : bit \div 8 = index \div 8}

IsConstructorExecuted(marks, index) == marks \intersect Mask(index) # {}
MarkConstructorExecuted(marks, index) == marks \union Mask(index)

(* A wrong variant: only the object's own bit is cleared. *)
MarkOwnBitNotExecuted(marks, index) == marks \ {index}

MarkConstructorNotExecuted(marks, index) == marks \ Mask(index)

(* createRuntimeData: only the marks of up to 8 constructors are cleared. *)
FreshMarks(n) == IF n <= 8 THEN {{}} ELSE Garbage
-----------------------------------------------------------------------------
NoEvent == [op |-> "none", scope |-> NoScope, index |-> 0]

Top == frames[Len(frames)]
Running == phase = "running"
Straight == Running /\ way = "none"
AtStatement == Straight /\ Top.next <= Len(program.body[Top.scope])
Current == program.body[Top.scope][Top.next]

Replaced(frame) == [frames EXCEPT ![Len(frames)] = frame]
Advanced == [Top EXCEPT !.next = @ + 1]

Entered(s, marks) == [scope |-> s, next |-> 1, marks |-> marks, built |-> {}, live |-> {}]

(* A declaration: the mark is set once the constructor has returned. *)
Construct ==
    /\ AtStatement /\ Current.op = "object"
    /\ LET index == IndexAt(program, Top.scope, Top.next)
       IN  /\ frames' = Replaced([Advanced EXCEPT
                            !.marks = MarkConstructorExecuted(@, index),
                            !.built = @ \union {index}, !.live = @ \union {index}])
           /\ event' = [op |-> "construct", scope |-> Top.scope, index |-> index]
    /\ UNCHANGED <<program, out, way, phase, result>>

Open(s) ==
    /\ AtStatement /\ Current.op = "open" /\ s \in Current.scopes
    /\ IF s = NoScope THEN frames' = Replaced(Advanced)
       ELSE \E marks \in FreshMarks(ObjectCount(program, s)) :
                frames' = Append(Replaced(Advanced), Entered(s, marks))
    /\ event' = NoEvent
    /\ UNCHANGED <<program, out, way, phase, result>>

Leave(code, by) ==
    /\ out' = code
    /\ way' = by
    /\ event' = NoEvent
    /\ UNCHANGED <<program, phase>>

EndOfScope ==
    /\ Straight /\ Top.next > Len(program.body[Top.scope])
    /\ Leave(EndCode(program, Top.scope), "end")
    /\ UNCHANGED <<frames, result>>

Break ==
    /\ AtStatement /\ Current.op = "break" /\ InLoop(program, Top.scope)
    /\ Leave(BreakCode(program, Top.scope), "break")
    /\ UNCHANGED <<frames, result>>

Continue ==
    /\ AtStatement /\ Current.op = "continue" /\ InLoop(program, Top.scope)
    /\ Leave(ContinueCode(program, Top.scope), "continue")
    /\ UNCHANGED <<frames, result>>

(* A wrong variant: a variable of an outer scope is taken for one of this scope. *)
ExcludedOfAnyScope(p, s, k, object) ==
    object # NoObject /\ object.index < IndexAt(p, s, k)

(* The destructor that the compiler finds for the returned variable: one of  *)
(* the same scope, declared before.                                          *)
Excluded(p, s, k, object) ==
    object.scope = s /\ object.index < IndexAt(p, s, k) /\ Owned(p, s, object.index)

(* The result is copied, the returned object's mark is cleared. *)
Return ==
    /\ AtStatement /\ Current.op = "return"
    /\ frames' = IF Excluded(program, Top.scope, Top.next, Current.of)
                   THEN Replaced([Top EXCEPT !.marks =
                                    MarkConstructorNotExecuted(@, Current.of.index)])
                   ELSE frames
    /\ result' = Current.of
    /\ Leave(ReturnCode(program, Top.scope), "return")

(* A destructor reads the marks of the scope on top. *)
RunDestructor ==
    /\ Running /\ out # <<>> /\ Head(out).op = "destroy"
    /\ LET index == Head(out).index
       IN  IF IsConstructorExecuted(Top.marks, index)
             THEN /\ frames' = Replaced([Top EXCEPT !.live = @ \ {index}])
                  /\ event' = Head(out)
             ELSE frames' = frames /\ event' = NoEvent
    /\ out' = Tail(out)
    /\ UNCHANGED <<program, way, phase, result>>

(* A wrong variant: the jump counts on every way out. *)
TestConditionOnEveryWay(holds) ==
    /\ Running /\ out # <<>> /\ Head(out).op = "jumpIf"
    /\ IF holds
         THEN frames' = Replaced([Top EXCEPT !.next = 1]) /\ out' = <<>> /\ way' = "none"
         ELSE out' = Tail(out) /\ UNCHANGED <<frames, way>>
    /\ event' = NoEvent
    /\ UNCHANGED <<program, phase, result>>

(* JumpIf back to the loop's first command: the scope is not entered again.  *)
(* Inside the copy of a break or return the exit that follows undoes the     *)
(* jump (ScriptRun!ExitScope).                                               *)
TestCondition(holds) ==
    /\ Running /\ out # <<>> /\ Head(out).op = "jumpIf"
    /\ IF holds /\ way \in {"end", "continue"}
         THEN frames' = Replaced([Top EXCEPT !.next = 1]) /\ out' = <<>> /\ way' = "none"
         ELSE out' = Tail(out) /\ UNCHANGED <<frames, way>>
    /\ event' = NoEvent
    /\ UNCHANGED <<program, phase, result>>

(* A wrong variant: the exit of the function is missing. *)
ExitScopeOnly ==
    /\ Running /\ out # <<>> /\ Head(out).op = "exit"
    /\ frames' = SubSeq(frames, 1, Len(frames) - 1)
    /\ out' = Tail(out)
    /\ way' = IF Tail(out) = <<>> THEN "none" ELSE way
    /\ event' = NoEvent
    /\ UNCHANGED <<program, phase, result>>

ExitScope ==
    /\ Running /\ out # <<>> /\ Head(out).op = "exit"
    /\ frames' = SubSeq(frames, 1, Len(frames) - 1)
    /\ out' = Tail(out)
    /\ way' = IF Tail(out) = <<>> THEN "none" ELSE way
    /\ phase' = IF Len(frames) = 1 THEN "returned" ELSE phase
    /\ event' = NoEvent
    /\ UNCHANGED <<program, result>>

(* A constructor, a destructor or any other native function throws: the run *)
(* is over, and the contexts are popped without running their destructors.  *)
Throw ==
    /\ Running
    /\ phase' = "raised"
    /\ event' = NoEvent
    /\ UNCHANGED <<program, frames, out, way, result>>

Init ==
    /\ program \in Programs
    /\ \E marks \in FreshMarks(ObjectCount(program, Root)) :
          frames = <<Entered(Root, marks)>>
    /\ out = <<>> /\ way = "none" /\ phase = "running"
    /\ result = NoObject /\ event = NoEvent

Next ==
    \/ Construct
    \/ \E s \in Scope \union {NoScope} : Open(s)
    \/ EndOfScope \/ Break \/ Continue \/ Return
    \/ RunDestructor
    \/ \E holds \in BOOLEAN : TestCondition(holds)
    \/ ExitScope
    \/ Throw

(* The loop that executes commands goes on until the function has returned. *)
Spec == Init /\ [][Next]_vars /\ WF_vars(Next)
-----------------------------------------------------------------------------
Frame ==
    [scope : Scope, next : Nat \ {0}, marks : SUBSET Nat, built : SUBSET Nat,
     live : SUBSET Nat]

Command == [op : {"destroy", "jumpIf", "exit"}, scope : Scope, index : Nat]

(* Types; what is built is marked or was cleared, live objects were built, *)
(* and commands are executed out of line only on the way out.              *)
TypeOK ==
    /\ program \in Program
    /\ frames \in Seq(Frame)
    /\ out \in Seq(Command)
    /\ way \in {"none", "end", "break", "continue", "return"}
    /\ phase \in {"running", "returned", "raised"}
    /\ result \in Object \union {NoObject}
    /\ Running => frames # <<>> /\ (way = "none" <=> out = <<>>)
    /\ \A i \in 1..Len(frames) : frames[i].live \subseteq frames[i].built

(* The exit commands that break, continue and return were given at compile   *)
(* time are those of the scopes that are open at run time, innermost first:  *)
(* each destructor finds the marks of its own scope on top of the context    *)
(* stack, and each exit pops the scope it was made for.                      *)
ExitsBefore(commands, k) ==
    Cardinality({i \in 1..(k - 1) : commands[i].op = "exit"})

ExitCodeMatchesScopes ==
    /\ \A i \in 1..(Len(frames) - 1) :
          program.parent[frames[i + 1].scope] = frames[i].scope
    /\ \A k \in 1..Len(out) :
          /\ ExitsBefore(out, k) < Len(frames)
          /\ out[k].scope = frames[Len(frames) - ExitsBefore(out, k)].scope

(* break leaves its loop and return the function, whatever the condition of *)
(* the loops on the way: nothing of them is executed again.                 *)
LeavesItsTarget ==
    /\ way = "break" /\ way' # "break" =>
          /\ Len(frames') < Len(frames)
          /\ program.kind[Top.scope] = "loop"
    /\ way = "return" /\ way' # "return" => phase' = "returned"

JumpsLeave == [][LeavesItsTarget]_vars

(* No object is lost: each object that a scope has constructed and that has  *)
(* a destructor is destroyed before it is constructed again and before the   *)
(* scope is left on any way but an exception.  The exceptions are the object *)
(* returned, and those declared after a returned object of the second half   *)
(* of a byte: their marks are cleared along with its mark.                   *)
LosesNoObject ==
    Len(frames') < Len(frames) \/ event'.op = "construct" =>
        \A j \in Top.live :
            /\ Owned(program, Top.scope, j)
            /\ Len(frames') < Len(frames) \/ event'.index = j
            => /\ way = "return"
               /\ result.scope = Top.scope
               /\ \/ j = result.index
                  \/ /\ j > result.index
                     /\ result.index % 8 >= 4
                     /\ j \div 8 = result.index \div 8

NoObjectIsLost == [][LosesNoObject]_vars

(* Within a scope objects are destroyed in the reverse order of their        *)
(* construction: when a destructor runs, no object declared later is alive,  *)
(* in this scope or in one inside it, but for those that return keeps.       *)
DestroysLastFirst ==
    event'.op = "destroy" =>
        /\ Top.scope = event'.scope
        /\ \A j \in Top.live :
              j > event'.index /\ Owned(program, Top.scope, j) =>
                  way = "return" /\ result.scope = Top.scope /\ j >= result.index

ReverseOrder == [][DestroysLastFirst]_vars

(* Every object is declared before anything that may leave its scope, and no *)
(* object of an outer scope is returned.                                     *)
Disciplined(p) ==
    \A s \in Scope : LET body == p.body[s] IN
        \A j \in 1..Len(body) :
            /\ body[j].op = "object" => \A i \in 1..j : body[i].op = "object"
            /\ body[j].op = "return" => body[j].of.scope \in {s, NoScope}

(* In such a program a destructor runs on living objects only: never on one  *)
(* that was not constructed, twice, or on the one returned.                  *)
DestroysOnlyTheLiving ==
    event'.op = "destroy" =>
        event'.index \in Top.live /\ [scope |-> event'.scope, index |-> event'.index] # result

DisciplinedLifetimes == [][Disciplined(program) => DestroysOnlyTheLiving]_vars

(* A function that returns, returns: no loop is taken up again on the way. *)
ReturnEnds == way = "return" ~> ~ Running
=============================================================================
