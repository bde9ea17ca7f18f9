------------------------------ MODULE Context ------------------------------
(***************************************************************************)
(* class Context (Context.h, Context.cpp): the memory and the registers a  *)
(* script runs on.  A context is a record of                               *)
(*   offset      _currentOffset: where the running function's memory begins*)
(*   allocated   _allocatedStack: bytes in use, one cell per running       *)
(*               function (the bottom cell belongs to the host)            *)
(*   codes       _scopeCodeSize: the scratch bytes of each open scope      *)
(*   contexts    _contextStack: for each open scope the command that jumped*)
(*               to it and its constructor marks                           *)
(*   beforeJump  _beforeJump: the command that made the last jump          *)
(*   command     _currentCommand                                           *)
(*   raised      an overflow or native exception is on its way to the host *)
(* Each method is an operator from a context to the context it leaves; a   *)
(* method called on a context that has raised is not reached by the code   *)
(* and changes nothing, so that methods compose in program order.          *)
(***************************************************************************)
EXTENDS FFStack

CONSTANTS Capacity,      \* _dataSize
          Word,          \* sizeof(void*)
          PointerCells,  \* sizeof(void*) / sizeof(unsigned int)
          Command,       \* positions in the code: values of CommandPointer
          NullCommand    \* nullptr

ASSUME MemoryAssumption ==
    /\ Capacity \in Nat
    /\ Word \in Nat \ {0}
    /\ PointerCells \in Nat \ {0}
    /\ NullCommand \in Command

(* A compiled scope: its first command, the bytes of its variables, its      *)
(* scratch bytes and the number of constructor marks it keeps.               *)
ScopeInfo == [first : Command, data : Nat, code : Nat, ctors : Nat]

(* A call of a script function: its first command, the bytes of its          *)
(* parameters and of the data a lambda captured.                             *)
CallInfo == [target : Command, params : Nat, captured : Nat]

ContextInfo == [command : Command, ctors : Nat]

Machine ==
    [offset : Nat, allocated : Stack(Nat), codes : Stack(Nat),
     contexts : Stack(ContextInfo), beforeJump : Command, command : Command,
     raised : BOOLEAN]

NewContext ==
    [offset |-> 0, allocated |-> Push(EmptyStack, 0), codes |-> EmptyStack,
     contexts |-> EmptyStack, beforeJump |-> NullCommand,
     command |-> NullCommand, raised |-> FALSE]

Raise(m) == [m EXCEPT !.raised = TRUE]

(* What entering and leaving must balance. *)
Stacks(m) == <<m.offset, m.allocated, m.codes, m.contexts>>

(* Bytes from the running function's offset that are in use. *)
Used(m) == Top(m.allocated)

(* Where the next scope of the running function, or the next function, begins. *)
FreeAt(m) == m.offset + Used(m)

(* Before the array of _scopeCodeSize lie the pointers of _allocatedStack,  *)
(* the last of its members first: _errorFunc, _end, _p.  Once "codes" has   *)
(* sunk, the size pushed first lands "sunk" cells down and those pushed     *)
(* after it fill up the cells above.  Half a pointer may get the value it   *)
(* had, a whole one does not.  The size at the bottom is a zero, with which *)
(* _end makes the stack look full: pushScope then goes where _errorFunc says.*)
ControlMayBeLost(m) ==
    \/ m.codes.sunk > 0 /\ IsFull(m.allocated)
    \/ m.codes.sunk > PointerCells

ControlIsLost(m) ==
    \/ m.codes.sunk >= PointerCells /\ IsFull(m.allocated)
    \/ m.codes.sunk >= 2 * PointerCells

(* A wrong variant: the check refuses to move back. *)
MoveOffsetForward(m, size) ==
    IF m.raised THEN m
    ELSE IF size < 0 \/ m.offset + size > Capacity THEN Raise(m)
    ELSE [m EXCEPT !.offset = @ + size]

MoveOffset(m, size) ==
    IF m.raised THEN m
    ELSE IF m.offset + size > Capacity THEN Raise(m)
    ELSE [m EXCEPT !.offset = @ + size]

(* A wrong variant: the callee begins in the caller's scratch bytes. *)
PushScopeOverScratch(m) ==
    LET moved == [m EXCEPT !.offset = @ + Used(m)]
    IN  IF m.raised THEN m
        ELSE IF IsFull(m.allocated) THEN Raise(moved)
        ELSE [moved EXCEPT !.allocated = Push(@, 0)]

(* The caller's scratch bytes are counted in while the callee runs. *)
PushScope(m) ==
    LET used == Used(m) + Top(m.codes)
        moved == [m EXCEPT !.allocated = SetTop(@, used), !.offset = @ + used]
    IN  IF m.raised THEN m
        ELSE IF IsFull(m.allocated) THEN Raise(moved)
        ELSE [moved EXCEPT !.allocated = Push(@, 0)]

(* A wrong variant: the caller's scratch bytes stay counted in. *)
PopScopeKeepingScratch(m) ==
    IF m.raised THEN m
    ELSE [m EXCEPT !.allocated = Pop(@), !.offset = @ - Top(Pop(m.allocated))]

PopScope(m) ==
    LET caller == Pop(m.allocated)
    IN  IF m.raised THEN m
        ELSE [m EXCEPT !.allocated = SetTop(caller, Top(caller) - Top(m.codes)),
                       !.offset = @ - Top(caller)]

(* The cell has grown already when the check fails; the scratch bytes are  *)
(* checked but only counted in when a function is called.                  *)
ScopeAllocate(m, data, code) ==
    LET grown == [m EXCEPT !.allocated = SetTop(@, Used(m) + data)]
    IN  IF m.raised THEN m
        ELSE IF FreeAt(grown) + code > Capacity \/ IsFull(m.codes) THEN Raise(grown)
        ELSE [grown EXCEPT !.codes = Push(@, code)]

(* A wrong variant: the scratch size of the scope stays on its stack. *)
ScopeUnallocateKeepingCode(m, data, code) ==
    IF m.raised THEN m
    ELSE [m EXCEPT !.allocated = SetTop(@, IF Used(m) < data THEN 0 ELSE Used(m) - data)]

ScopeUnallocate(m, data, code) ==
    IF m.raised THEN m
    ELSE [m EXCEPT !.allocated = SetTop(@, IF Used(m) < data THEN 0 ELSE Used(m) - data),
                   !.codes = Pop(@)]

PushContext(m, ctors) ==
    IF m.raised THEN m
    ELSE IF IsFull(m.contexts) THEN Raise(m)
    ELSE [m EXCEPT !.contexts = Push(@, [command |-> m.beforeJump, ctors |-> ctors])]

(* A wrong variant: the command that jumped to the scope is forgotten. *)
PopContextOnly(m) ==
    IF m.raised THEN m ELSE [m EXCEPT !.contexts = Pop(@)]

PopContext(m) ==
    IF m.raised THEN m
    ELSE [m EXCEPT !.command = Top(m.contexts).command, !.contexts = Pop(@)]

(* write, read and prepareWrite: the bytes must lie inside the memory. *)
Access(m, at, size) ==
    IF ~ m.raised /\ at + size > Capacity THEN Raise(m) ELSE m

Jump(m, target) ==
    IF m.raised THEN m
    ELSE [m EXCEPT !.beforeJump = m.command, !.command = target]

SetCurrentCommand(m, command) ==
    IF m.raised THEN m
    ELSE [m EXCEPT !.beforeJump = IF @ = NullCommand THEN command ELSE @,
                   !.command = command]
-----------------------------------------------------------------------------
(* The instructions that work on it (InstructionCommand.cpp). *)

EnterContextScope(m, scope) ==
    ScopeAllocate(PushContext(m, scope.ctors), scope.data, scope.code)

ExitContextScope(m, scope, restoreCall) ==
    LET unallocated == ScopeUnallocate(m, scope.data, scope.code)
    IN  IF restoreCall THEN PopContext(unallocated) ELSE unallocated

(* The return address is one word into the new frame, the parameters two. *)
ParamsAt(m) == m.offset + 2 * Word

(* CallScriptFuntion3, and CallLambdaFuntion, which writes the captured    *)
(* data once the jump is made.                                             *)
CallScriptFunction(m, call) ==
    LET framed  == PushScope(m)
        written == Access(framed, ParamsAt(framed), call.params)
        jumped  == Jump(written, call.target)
    IN  Access(jumped, ParamsAt(jumped) + call.params, call.captured)

ExitFunctionAtTheEnd(m) == PopScope(PopContext(m))

(* The members of an object are constructed in a scope of their own, above *)
(* the scratch bytes of the scope that owns the object.                    *)
MembersScope(code) == [first |-> NullCommand, data |-> 0, code |-> code, ctors |-> 0]

BeginMembers(m, ownerCode, code) ==
    LET kept    == ScopeAllocate(m, ownerCode, 0)
        checked == Access(kept, FreeAt(kept), Word)
    IN  EnterContextScope(Jump(checked, NullCommand), MembersScope(code))

EndMembers(m, ownerCode, code) ==
    ScopeUnallocate(ExitContextScope(m, MembersScope(code), TRUE), ownerCode, 0)
=============================================================================
