----------------------------- MODULE ScriptRun -----------------------------
(***************************************************************************)
(* The run of script functions on one Context: a host (a ScriptTask, or    *)
(* ScriptRunner on the context of the global scope) starts a function, the *)
(* function opens and leaves scopes, calls functions, breaks out of loops  *)
(* and returns, and anything on the way may raise.                         *)
(*                                                                         *)
(* The context keeps no list of what is open: it adds and subtracts sizes. *)
(* "pending" is that list, kept beside the code: every function and scope  *)
(* entered and not yet left, the innermost last, each with the context it  *)
(* was entered from.  The invariants compare the context with it.          *)
(***************************************************************************)
EXTENDS Context

CONSTANTS
    Scopes,        \* compiled scopes
    MemberCodes,   \* scratch bytes of the scope that constructs an object's members
    Calls,         \* calls in script code
    HostCalls,     \* functions a host runs: [result, params] in bytes
    Sites,         \* positions of commands in script code
    HostCommand,   \* the position a host calls from, getEndCommand() - 1
    Hosts,         \* the hosts to check, of "task" and "global"
    MaxRuns        \* bound on the runs of one host

ASSUME CodeAssumption ==
    /\ Sites \subseteq Command
    /\ HostCommand \in Command
    /\ Scopes \subseteq ScopeInfo
    /\ Calls \subseteq CallInfo
    /\ HostCalls \subseteq [result : Nat, params : Nat]
    /\ MemberCodes \subseteq Nat
ASSUME HostsAssumption == Hosts \subseteq {"task", "global"} /\ MaxRuns \in Nat

VARIABLES
    ctx,       \* the Context
    pending,   \* what is open, innermost last
    phase,     \* what the host is doing
    run,       \* the locals of ScriptRunner::runFunction
    host,      \* who owns the context
    runs,      \* runs started
    failed     \* a run raised on this context

vars == <<ctx, pending, phase, run, host, runs, failed>>

Leaves == {"none", "break", "continue", "return"}
ScopeKinds == {"function", "block", "loop"}
Kinds == ScopeKinds \union {"call", "members"}
-----------------------------------------------------------------------------
Inner == pending[Len(pending)]

Running == phase = "script"
InScope == Running /\ Inner.kind \in ScopeKinds

(* Code runs straight on, rather than leaving scopes on its way out of them. *)
Straight == InScope /\ Inner.leave = "none"

(* The command being executed: any command of the code that runs straight on; *)
(* a function that leaves, or that constructs members, stays on one command.  *)
At(s) == IF Straight THEN s \in Sites ELSE s = ctx.command

Opened(kind, scope, call, from) ==
    [kind |-> kind, scope |-> scope, call |-> call, leave |-> "none", from |-> from]

NoScope == [first |-> NullCommand, data |-> 0, code |-> 0, ctors |-> 0]
NoCall == [target |-> NullCommand, params |-> 0, captured |-> 0]

(* The scope of a member construction, and the scratch bytes kept below it. *)
Members(ownerCode, code) ==
    [first |-> NullCommand, data |-> ownerCode, code |-> code, ctors |-> 0]

(* What remains pending when the "count" innermost entries are left. *)
Outer(count) == SubSeq(pending, 1, Len(pending) - count)

(* Control leaves "seq" on the given way: its innermost entry knows. *)
Leaving(seq, leave) ==
    IF seq = <<>> THEN seq ELSE [seq EXCEPT ![Len(seq)].leave = leave]

(* A command was executed: the script goes on or, if it raised, unwinds. *)
Proceed(m, entries) ==
    /\ ctx' = m
    /\ pending' = IF m.raised THEN pending ELSE entries
    /\ phase' = IF m.raised THEN "raised" ELSE "script"
    /\ UNCHANGED <<run, host, runs, failed>>
-----------------------------------------------------------------------------
NoRun == [call |-> [result |-> 0, params |-> 0], again |-> FALSE,
          found |-> NewContext, before |-> NewContext, ready |-> NewContext]

(* A wrong variant: the place of the result is not given back. *)
PrepareCallForParamsOnly(m, call) ==
    ScopeAllocate(
        SetCurrentCommand(
            IF call.params > 0 THEN Access(m, call.result, call.params) ELSE m,
            HostCommand),
        call.params, 0)

(* ScriptRunner::runFunction writes the parameters from the bottom of the  *)
(* memory, after the place of the result.                                  *)
PrepareCall(m, call) ==
    ScopeAllocate(
        SetCurrentCommand(
            IF call.params > 0 THEN Access(m, call.result, call.params) ELSE m,
            HostCommand),
        call.result + call.params, 0)

(* ScriptTask::runFunction: a task makes a context at its first run and    *)
(* whenever a larger one is asked for; otherwise it runs again on the one  *)
(* it has, after an unallocate of _allocatedSize, which is always 0.       *)
RunFunction(call, fresh) ==
    LET again  == host = "task" /\ runs > 0 /\ ~ fresh
        found  == IF host = "task" /\ ~ again THEN NewContext ELSE ctx
        before == IF again THEN ScopeUnallocate(found, 0, 0) ELSE found
        ready  == PrepareCall(before, call)
    IN  /\ phase = "idle"
        /\ runs < MaxRuns
        /\ fresh => host = "task" /\ runs > 0
        /\ ctx' = [ready EXCEPT !.raised = FALSE]
        /\ run' = IF ready.raised THEN NoRun
                  ELSE [call |-> call, again |-> again, found |-> found,
                        before |-> before, ready |-> ready]
        /\ phase' = IF ready.raised THEN "idle" ELSE "ready"
        /\ failed' = ((failed /\ ~ fresh) \/ ready.raised)
        /\ runs' = runs + 1
        /\ UNCHANGED <<pending, host>>

(* The invoker of the host, or an instruction of a scope, is at a call. *)
Calling(s, call) ==
    \/ phase = "ready" /\ s = HostCommand /\ call.captured = 0
    \/ InScope /\ At(s)
    \/ Running /\ Inner.kind = "members" /\ At(s)

Call(s, call) ==
    /\ Calling(s, call)
    /\ ~ ControlIsLost(ctx)
    /\ LET from == [ctx EXCEPT !.command = s]
       IN  Proceed(CallScriptFunction(from, call),
                   Append(pending, Opened("call", NoScope, call, from)))

(* pushScope of the call relies on a pointer that was written over: what    *)
(* happens from there on, an overflow reported for no reason or a jump to   *)
(* anywhere, is nothing that the code decides.                              *)
LoseControl(s, call) ==
    /\ Calling(s, call)
    /\ ControlMayBeLost(ctx)
    /\ phase' = "lost"
    /\ UNCHANGED <<ctx, pending, run, host, runs, failed>>

EnterFunction(scope) ==
    /\ Running /\ Inner.kind = "call"
    /\ Proceed(EnterContextScope(ctx, scope),
               Append(pending, Opened("function", scope, NoCall, ctx)))

(* An if, else, while or jump command jumps to the code of a sub scope. *)
OpenScope(s, kind, scope) ==
    /\ Straight /\ At(s)
    /\ LET from == Jump([ctx EXCEPT !.command = s], scope.first)
       IN  Proceed(EnterContextScope(from, scope),
                   Append(pending, Opened(kind, scope, NoCall, from)))

(* BeforeConstructorCall::call, up to the first constructor and after the last. *)
OpenMembers(s, code) ==
    /\ InScope /\ At(s)
    /\ LET from == [ctx EXCEPT !.command = s]
       IN  Proceed(BeginMembers(from, Inner.scope.code, code),
                   Append(pending, Opened("members", Members(Inner.scope.code, code),
                                          NoCall, from)))

CloseMembers ==
    /\ Running /\ Inner.kind = "members"
    /\ Proceed(EndMembers(ctx, Inner.scope.data, Inner.scope.code), Outer(1))

(* The condition at the end of a loop holds: JumpIf to the loop's first command. *)
LoopBack(s) ==
    /\ Straight /\ Inner.kind = "loop" /\ At(s)
    /\ Proceed(Jump([ctx EXCEPT !.command = s], Inner.scope.first), pending)
-----------------------------------------------------------------------------
(* break, continue and return run the exit code of the scopes between them *)
(* and their target one after the other; destructors may be called between.*)
FrameOf(i) ==  \* the scopes of the function that entry i belongs to
    {j \in 1..i : \A k \in j..i : pending[k].kind # "call"}

InLoop == \E j \in FrameOf(Len(pending)) : pending[j].kind = "loop"

Leave(s, leave) ==
    /\ Straight /\ At(s)
    /\ leave \in {"break", "continue"} => InLoop
    /\ Proceed([ctx EXCEPT !.command = s], Leaving(pending, leave))

(* The way out still to go once a scope is left. *)
LeaveAfter(entry) ==
    IF entry.kind = "loop" /\ entry.leave = "break" THEN "none" ELSE entry.leave

(* The last command of a block or a loop.  The exit code of a loop holds   *)
(* its JumpIf when the loop has destructors: the exit that follows undoes  *)
(* the jump.                                                               *)
ExitScope(jumped) ==
    /\ InScope /\ Inner.kind \in {"block", "loop"}
    /\ Inner.leave = "continue" => Inner.kind = "block"
    /\ jumped => Inner.kind = "loop" /\ Inner.leave \in {"break", "return"}
    /\ LET m == IF jumped THEN Jump(ctx, Inner.scope.first) ELSE ctx
       IN  Proceed(ExitContextScope(m, Inner.scope, TRUE),
                   Leaving(Outer(1), LeaveAfter(Inner)))

(* ContinueCommand: in the loop's own scope, on to its destructors and condition. *)
ContinueLoop(condition) ==
    /\ InScope /\ Inner.kind = "loop" /\ Inner.leave = "continue"
    /\ condition \in Sites
    /\ Proceed(Jump(ctx, condition), Leaving(pending, "none"))

(* The exit of the function's scope, which keeps its context, and the exit *)
(* of the function, which drops it; the loop of runFunctionScript then sees*)
(* another number of allocated cells and ends.                             *)
ExitFunction ==
    /\ InScope /\ Inner.kind = "function" /\ Inner.leave \in {"none", "return"}
    /\ LET left == ExitFunctionAtTheEnd(ExitContextScope(ctx, Inner.scope, FALSE))
       IN  /\ ctx' = left
           /\ pending' = Outer(2)
           /\ phase' = IF Outer(2) = <<>> THEN "returned" ELSE "script"
           /\ UNCHANGED <<run, host, runs, failed>>

(* A native function called by the script throws. *)
NativeThrow(s) ==
    /\ Running /\ Inner.kind # "call" /\ At(s)
    /\ Proceed(Raise([ctx EXCEPT !.command = s]), pending)
-----------------------------------------------------------------------------
(* The invoker has come back. *)
FinishRun ==
    /\ phase = "returned"
    /\ ctx' = ScopeUnallocate(ctx, run.call.result + run.call.params, 0)
    /\ phase' = "idle"
    /\ run' = NoRun
    /\ UNCHANGED <<pending, host, runs, failed>>

(* getScopeRuntimeData of the context on top before the call: nullptr when *)
(* that scope keeps no marks.  With no scope at all it reads the words     *)
(* before the array, which are not null and which no scope has.            *)
HasBackup == run.ready.contexts.items = <<>> \/ Top(run.ready.contexts).ctors > 0

(* A wrong variant: one scope of the failed run stays open. *)
PopContextsToOneAbove(m, depth) ==
    IF Len(m.contexts.items) <= depth + 1 THEN m
    ELSE [m EXCEPT !.command = m.contexts.items[depth + 2].command,
                   !.contexts.items = SubSeq(@, 1, depth + 1)]

(* popContext again and again, until "depth" scopes are left. *)
PopContextsTo(m, depth) ==
    IF Len(m.contexts.items) <= depth THEN m
    ELSE [m EXCEPT !.command = m.contexts.items[depth + 1].command,
                   !.contexts.items = SubSeq(@, 1, depth)]

(* The handler of ScriptRunner::runFunction. *)
Catch ==
    /\ phase = "raised"
    /\ LET caught  == [ctx EXCEPT !.raised = FALSE]
           unwound == IF HasBackup
                        THEN PopContextsTo(caught, Len(run.ready.contexts.items))
                        ELSE caught
       IN  ctx' = MoveOffset(unwound, run.ready.offset - unwound.offset)
    /\ pending' = <<>>
    /\ phase' = "idle"
    /\ run' = NoRun
    /\ failed' = TRUE
    /\ UNCHANGED <<host, runs>>
-----------------------------------------------------------------------------
(* A context of a task is new; the one of a program has run the global code, *)
(* whose first command enters the global scope.                              *)
FirstContexts(h) ==
    IF h = "task" THEN {NewContext}
    ELSE {m \in {EnterContextScope(NewContext, scope) : scope \in Scopes} : ~ m.raised}

Init ==
    /\ host \in Hosts
    /\ ctx \in FirstContexts(host)
    /\ pending = <<>>
    /\ phase = "idle"
    /\ run = NoRun
    /\ runs = 0
    /\ failed = FALSE

Next ==
    \/ \E call \in HostCalls, fresh \in BOOLEAN : RunFunction(call, fresh)
    \/ \E s \in Sites \union {HostCommand, NullCommand}, call \in Calls : Call(s, call)
    \/ \E s \in Sites \union {HostCommand, NullCommand}, call \in Calls :
          LoseControl(s, call)
    \/ \E scope \in Scopes : EnterFunction(scope)
    \/ \E s \in Sites, kind \in {"block", "loop"}, scope \in Scopes : OpenScope(s, kind, scope)
    \/ \E s \in Sites, code \in MemberCodes : OpenMembers(s, code)
    \/ CloseMembers
    \/ \E s \in Sites : LoopBack(s)
    \/ \E s \in Sites, leave \in {"break", "continue", "return"} : Leave(s, leave)
    \/ \E jumped \in BOOLEAN : ExitScope(jumped)
    \/ \E condition \in Sites : ContinueLoop(condition)
    \/ ExitFunction
    \/ \E s \in Sites \union {NullCommand} : NativeThrow(s)
    \/ FinishRun
    \/ Catch

Spec == Init /\ [][Next]_vars
-----------------------------------------------------------------------------
Entry ==
    [kind : Kinds, scope : ScopeInfo, call : CallInfo, leave : Leaves, from : Machine]

Run ==
    [call : [result : Nat, params : Nat], again : BOOLEAN,
     found : Machine, before : Machine, ready : Machine]

Phases == {"idle", "ready", "script", "raised", "returned", "lost"}

(* Types, and the phases agree with what is pending and raised. *)
TypeOK ==
    /\ ctx \in Machine
    /\ pending \in Seq(Entry)
    /\ phase \in Phases
    /\ run \in Run
    /\ host \in {"task", "global"}
    /\ runs \in 0..MaxRuns
    /\ failed \in BOOLEAN
    /\ phase = "script" => pending # <<>>
    /\ phase \in {"idle", "ready", "returned"} => pending = <<>>
    /\ ctx.raised <=> phase = "raised"

(* The context right after entry e was entered. *)
Entered(e) ==
    CASE e.kind = "call"    -> CallScriptFunction(e.from, e.call)
      [] e.kind = "members" -> BeginMembers(e.from, e.scope.data, e.scope.code)
      [] OTHER              -> EnterContextScope(e.from, e.scope)

(* The context entry i was entered from; past the last, the current one. *)
Before(entries, m, i) == IF i <= Len(entries) THEN entries[i].from ELSE m

(* m has the stacks that entering the entries one after the other made of *)
(* those of base.                                                         *)
Chained(base, entries, m) ==
    /\ Stacks(Before(entries, m, 1)) = Stacks(base)
    /\ \A i \in 1..Len(entries) :
          Stacks(Before(entries, m, i + 1)) = Stacks(Entered(entries[i]))

(* While a script runs, the offset and the three stacks are exactly what     *)
(* entering the open functions and scopes, one after the other, has made     *)
(* them: everything that was called and left in between took back exactly    *)
(* what it added (pushScope/popScope, scopeAllocate/scopeUnallocate,         *)
(* pushContext/popContext, on every way out of a scope).                     *)
LastInFirstOut ==
    phase \in {"ready", "script", "returned"} => Chained(run.ready, pending, ctx)

IsScope(e) == e.kind # "call"

DataEnd(e) == FreeAt(e.from) + e.scope.data
CodeEnd(e) == DataEnd(e) + e.scope.code

(* A member construction has no variables: its scratch bytes come after the  *)
(* owner's, which it keeps.                                                  *)
Begin(e) == IF e.kind = "members" THEN DataEnd(e) ELSE FreeAt(e.from)

(* The variables of every open scope lie inside the memory and apart from    *)
(* those of every scope entered later, in the same function or in one it     *)
(* calls; so do the scratch bytes of the scope a call is made from (those of *)
(* an outer scope may be reused by its sub scopes: no command of it runs).   *)
MemoryApart ==
    phase = "script" =>
        \A i \in 1..Len(pending) : IsScope(pending[i]) =>
            /\ 0 <= Begin(pending[i])
            /\ CodeEnd(pending[i]) <= Capacity
            /\ \A j \in (i + 1)..Len(pending) : IsScope(pending[j]) =>
                  (IF pending[i + 1].kind \in {"call", "members"}
                     THEN CodeEnd(pending[i]) ELSE DataEnd(pending[i]))
                  <= Begin(pending[j])

(* Whatever is left, a scope, a function or a member construction, by its    *)
(* end, a break, a continue or a return: the caller or the outer scope finds *)
(* its offset and stacks as they were, and goes on after the command that    *)
(* called or jumped (popContext, popScope; CallScriptFuntion3 relies on it). *)
RestoresCaller ==
    Len(pending') < Len(pending) /\ phase' \in {"script", "returned"} =>
        LET left == pending[Len(pending') + 1]
        IN  /\ Stacks(ctx') = Stacks(left.from)
            /\ ctx'.command = IF left.kind \in {"call", "members"}
                                THEN left.from.command ELSE left.from.beforeJump

ReturnRestoresCaller == [][RestoresCaller]_vars

LeavesNoTrace ==
    phase = "returned" /\ phase' = "idle" =>
        /\ ctx'.offset = run.found.offset
        /\ ctx'.allocated = run.found.allocated
        /\ ctx'.contexts = run.found.contexts
        /\ ctx'.codes = IF run.again THEN Pop(run.found.codes) ELSE run.found.codes

Unwinds ==
    phase = "raised" /\ phase' = "idle" =>
        /\ ctx'.offset = run.found.offset
        /\ HasBackup => ctx'.contexts = run.found.contexts

KeepsControl ==
    phase # "lost" /\ phase' = "lost" =>
        /\ run.again
        /\ runs <= PointerCells + 1 => IsFull(ctx.allocated)

(* What a run of a function (ScriptTask::runFunction and                     *)
(* ScriptRunner::runFunction) leaves of the context its host had before it.  *)
(* A run that returns leaves all of it as it was, except that a task that    *)
(* runs again on the same context has one scratch size less.  A run that     *)
(* raises, from any depth, gives back the offset and, if the host's scope    *)
(* keeps marks or there is none, exactly the scopes the host had: no scope   *)
(* of the failed run is left open.  And because of the missing scratch sizes *)
(* control can be lost, but only in a task that runs again, and in the first *)
(* PointerCells + 1 of its runs only where the calls are nested too deep.    *)
RunsGiveBack == [][LeavesNoTrace /\ Unwinds /\ KeepsControl]_vars
-----------------------------------------------------------------------------
(* The refinement mapping to Activations. *)
View(m) == [at |-> m.offset, scopes |-> m.contexts, cells |-> <<m.allocated, m.codes>>]

(* Whoever called goes on after the call, an outer scope after the jump. *)
Back(e) == IF e.kind \in {"call", "members"} THEN e.from.command ELSE e.from.beforeJump

(* The memory of a call is that of the function it enters. *)
FrameAt(e) == FreeAt(e.from) + Top(e.from.codes)

Activation(e) ==
    [kind |-> e.kind, from |-> View(e.from), back |-> Back(e),
     begin   |-> IF IsScope(e) THEN Begin(e) ELSE FrameAt(e),
     end     |-> IF IsScope(e) THEN DataEnd(e) ELSE FrameAt(e),
     scratch |-> IF IsScope(e) THEN CodeEnd(e) ELSE FrameAt(e)]

Activated(entries) == [i \in 1..Len(entries) |-> Activation(entries[i])]

Promised ==
    INSTANCE Activations
      WITH Fresh <- View(NewContext), view <- View(ctx), command <- ctx.command,
           open <- Activated(pending), home <- View(run.found), marked <- HasBackup,
           worn <- run.again

(* The context, which only adds and takes away sizes, does what a machine    *)
(* does that writes down what every caller saw: each exit gives back exactly *)
(* that view and command, memory is given out behind all that is in use, and *)
(* a host gets its own view back, but for the cells and the control that a   *)
(* context wears out when a task runs on it again (the commands of           *)
(* InstructionCommand.cpp, ScriptTask and ScriptRunner::runFunction).        *)
ImplementsActivations == Promised!Spec
=============================================================================
