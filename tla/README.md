# A specification of the Cλ script machine

Cλ (ffscript) is a scripting language that is compiled to a list of command
objects and executed by them: every command changes the registers of a
`Context`, a block of memory with a few fixed stacks. This directory specifies
that machine in TLA+, checks it with TLC and proves part of it with TLAPS.
Source paths are relative to `src/`; `ffscript/` is the core library.

## The system

| Part | State | Operations | Who it works with |
|---|---|---|---|
| `FFStack` | an array and a top pointer | push_front (checked), pop_front (not checked), front | used three times by each context |
| `Context` | offset, allocated bytes per function, scratch bytes per scope, open scopes with their marks, current command, last jump, memory | pushScope/popScope, scopeAllocate/scopeUnallocate, pushContext/popContext, jump, read/write | one is current per thread; commands change it |
| commands (`InstructionCommand`, `CommandTree`, `DefaultCommands`) | none at run time; operands fixed by the compiler | EnterContextScope, ExitContextScope, CallScriptFuntion3, CallLambdaFuntion, Jump, JumpIf, Break, Continue, return, triggers around constructors and destructors | executed in a loop by `Context::runFunctionScript`, in which script calls nest |
| hosts (`ScriptTask`, `ScriptRunner`, `GlobalScope`, `CLamdaProg`) | the context they own, the last function | runFunction, runGlobalCode, cleanupGlobalMemory | make a context current, write parameters, call the first command, catch exceptions |
| `ScopeRuntimeData` | bits: which constructors were executed | mark, unmark, check | one per open scope that has constructors; triggers use it |
| compiled scopes (`ScriptScope`, `ContextScope`, `LoopScope`, `FunctionScope`, command builders) | variables and their offsets, constructor count, list of destructors, code | parse, extractCode, updateCodeForControllerCommands, fillParams | give commands their operands after all code is laid out |
| layout (`Program`, `CodeUpdater`) | commands in one array, executor to code map, tasks to run later | addExecutor, convertToPlainCode, runUpdate | scopes ask it for addresses |
| threads and lambdas (`CreateThreadCommand`, `RuntimeFunctionInfo`) | a C++ thread with a context of its own; captured bytes | createThread, joinThread, closeThread, copy, destroy | read the creator's memory |
| `ExpressionParser`, `ScriptCompiler`, `FuncLibrary`, `TypeManager` | units, candidates, registered functions and types | tokenize, link, choose overloads, register, drop the user library | build the command trees |
| `CompilerSuite`, `DefaultPreprocessor` | the current program, line maps | compileProgram, preprocess, getOriginalPosition | drive all of the above |
| `Logger`, `debugger`, `ffscriptLibrary`, tutorials | sockets, GUI, none | | outside of the machine |

What is hard here is not concurrency but *balance*. A context keeps no list of
what is open; it only adds and subtracts sizes that different commands were
given at compile time. A function can be left by its end, by break, continue
and return through any number of scopes, or by an exception from any of four
resource limits or from native code; on each way the same sizes must be taken
back in the reverse order, and constructed objects be destroyed. Errors show
later and elsewhere, as overlapping frames. Threads come in with
`createThread`, whose new thread reads memory of its creator.

What makes the parts correct: the context after any call or scope is the one
before it; frames that are alive do not overlap; a host gets its context back,
also after a failure; exit code meets the scopes it was made for; every object
that was constructed is destroyed once and no other is; patched addresses
lead where the structure of the source says.

## Modules

| Question | Modules (← is used by) | Proofs |
|---|---|---|
| What do calls and scopes do to a context? | `FFStack` ← `Context` ← `ScriptRun`, which implements `Activations` | `ScriptRunProofs` |
| Which objects does a function construct and destroy? | `ScopeObjects` | `ScopeObjectsProofs` |
| Does the code that is laid out do this? | `CodeLayout`, which instantiates `ScopeObjects` | |
| Which tree is read from an expression? | `ExpressionParser` | `ExpressionParserProofs` |
| Which function does a call lead to? | `OverloadResolution` | `OverloadResolutionProofs` |
| What does the code of an expression compute? | `ExpressionExecutor` | |
| What is registered, and what does a clear leave? | `UserLibrary` | `UserLibraryProofs` |
| What may a host do with programs, and when? | `ProgramLifecycle` | `ProgramLifecycleProofs` |
| Where is an error shown? | `SourcePositions` | `SourcePositionsProofs` |
| What do threads read of function objects? | `ScriptThreads` | `ScriptThreadsProofs` |

A proof module that needs induction begins with the form of it that it uses.

Each module that is checked has an `MC` module with its instance and a `.cfg`.
The modules follow a script on its way: it is preprocessed (`SourcePositions`),
parsed statement by statement into the global scope (`ProgramLifecycle`,
`ExpressionParser`), its calls are linked (`OverloadResolution`) to what is
registered (`UserLibrary`), expressions and scopes become commands
(`ExpressionExecutor`, `CodeLayout`), and these run (`ScriptRun`,
`ScopeObjects`, `ScriptThreads`). They meet in `CodeLayout`, whose programs,
exits and objects are those of `ScopeObjects`; elsewhere one module takes as
given what another shows, as is said below.

**FFStack** is the stack. `sunk` counts the slots that unchecked pops went
below the array. What is pushed there lies in the memory of somebody else, and
`Context` says whose: before the array of scratch sizes are the pointers of the
stack declared before it (`Context.h:48`). `ControlMayBeLost` and
`ControlIsLost` say when a value written over them decides where the next
`pushScope` goes. `PointerCells` is how many sizes fit into one pointer, 2 on a
64 bit system; half a pointer may get the value it had before.

**Context** is the record of registers, and each method an operator on it, in
the order of the code: where a check comes after an assignment (pushScope,
scopeAllocate) the raised context carries the assignment. The instructions that
compose methods (`EnterContextScope`, `CallScriptFunction`, `BeginMembers`, ...)
are compositions of these operators; a context that has raised passes through
unchanged, as the rest of a C++ function is not reached after a throw. Byte
sizes are abstract: `Word` stands for `sizeof(void*)`, and a frame begins with
`2 * Word` bytes. Sizes do not wrap: the code adds unsigned 32 bit numbers and
compares with the capacity; the sums in the model are below 2^32 by far, since
a capacity is at most a few megabytes and a scope's size is known at compile
time.

**ScriptRun** runs functions on it. A *host* is a task (a context of its own,
made at the first run) or the context of the global scope (one open scope,
data in the bottom cell). The compiled code is nondeterministic: at each
command of a scope a script may call a function, open one of the scopes, start
the construction of members, jump back in a loop, leave by break, continue or
return, or throw. `pending` lists what is open; the code has no such list, and
no action reads it to decide what the context becomes, other than which
scope's operands an exit command carries - these were fixed at compile time.

| Action | Code |
|---|---|
| `RunFunction` | `ScriptTask::runFunction`, `ScriptRunner::runFunction` up to the invoker |
| `Call`, `EnterFunction` | `CallScriptFuntion3`, `CallLambdaFuntion`; the first command of a function |
| `OpenScope`, `LoopBack` | `Jump`, `JumpIf`, `JumpIfElse` with the `EnterContextScope` they lead to |
| `OpenMembers`, `CloseMembers` | `BeforeConstructorCall::call` before and after the members' constructors |
| `Leave`, `ExitScope`, `ContinueLoop`, `ExitFunction` | `BreakCommand`, `ContinueCommand`, `ExitScriptFuntionAtReturn` with the exit code they hold |
| `NativeThrow`, `Catch`, `FinishRun` | native functions; the handler and the end of `ScriptRunner::runFunction` |
| `LoseControl` | `pushScope` on a stack whose pointers were written over |

A task whose context is used again takes one scratch size that nobody pushed
(`ScriptTask.cpp:59`), so its stack of scratch sizes sinks by one each time, and
after some runs a push writes over pointers. The phase `lost` stands for what
the process does then, which the code does not decide; nothing is claimed of it.
`RunsGiveBack` compares with the host's context as it was before the run
(`run.found`), the missing size is its stated exception, and it says when control
cannot be lost: in a task that has not run again, and in its first runs where no
call finds the stacks full.

**Activations** is what the machine promises, without a single size. It keeps
what a context does not: for everything that is entered, the *view* its caller
had (where its memory begins, the open scopes, the bytes in use) and the command
to go on after. `Leave` looks these up; `Enter` gives out memory inside the
capacity and behind all that still belongs to what is open, where code that
comes back from a call or a construction uses its scratch bytes again; `EndRun`
and `Unwind` give a host its view, or after an exception its offset and scopes.
A host may say that a run wears its context out (`worn`): then `EndRun` gives
the view back but for the sizes kept in it, and `Lose` may end all promises.
`ScriptRun` maps a context to a view and each entry of `pending` to an
activation with the extents of its memory (`Activation`), so that
`ImplementsActivations` says that adding and taking away sizes comes to the same
as writing everything down.

**ScopeObjects** is one function with its tree of scopes, statement by
statement. The upper half is what the compiler computes from the source:
indexes of objects, lists of destructors, the exit code of break, continue and
return (`fillParams` of the builders, a walk from the scope to its target:
`WayOut`). A program is a tree, that is, every scope lies inside the function's
(`InFunction`), which makes the walks end. The lower half executes it
with the marks, as sets of bits. That calls of constructors and destructors leave
the scopes on the context as they were is what ScriptRun shows, so each is one
step here. `built` and `live` record what
really happened and are read by properties only.

**ExpressionParser** goes from tokens to trees. `Read` is the part of
`readExpression` that tells signs, stars and `++` apart by the unit before; a
token is a kind, a name or number has no text. `PutAnExpUnit` and what it uses
are `putAnExpUnit`, `putFunction` and `makeExpression` on *layers*, the entries
of the code's input list: a pair of stacks for each open bracket and each
parameter. `pushParamFront` is called in the code until the operator is full
or the output empty, so `Apply` takes as many parameters as there are. The
nested calls for `? :` are `activations`, which share `next` as the calls share
an iterator. A clause is over when its function has a parameter (`IsCollected`);
at a closing bracket that fails, the function of an else clause takes what there
is (`MadeFirst`). What else the clause has on its stacks is thrown away:
`LeavesOut` says when, and `dropped`, a history, that it has happened. An error
goes from call to call through the clauses it is inside of (phase `failing`);
an else clause that meets it at `)`, `}` or a comma takes it for its own end
(`RecoverElse`), and what the failed call has read is missing from an accepted
tree. `lost`, a history, has these units, so that `OperandsInOrder` can say that
nothing else is missing. The end of `? :` takes its condition from a stack that
may be empty, and a question mark that is the last unit is read past
(`BeginIfAtEnd`); the phase `undefined` stands for both. `OperandsInOrder` looks into the trees by taking the nodes'
parameters in their places, level by level; `Depth` is the number of levels, and
trees that are deeper are not judged.

| Action | Code |
|---|---|
| `ReadToken` | one turn of `readExpression` |
| `Compile`, `PutUnit`, `FailUnit`, `Finish` | `compile`, its loop and its end |
| `BeginIf`, `BeginIfAtEnd`, `BeginElse` | `putFunction` for `?`, `compileConditionalExpression` |
| `EndElse`, `EndElseAtEnd`, `FailIfAtEnd` | the ends of `pickParamUnitsElseClause` and `pickParamUnitsForFunction` |
| `PassError`, `RecoverElse` | an error returned through `compileConditionalExpression` and `putFunction`; the else clause that makes it a success |

**ScriptThreads** is one script function, the *creator*, and the threads it
starts. A function object (`RuntimeFunctionInfo`) is a record of a function,
whether captured data has a size, and a block of the heap; `object` holds the
bytes of the creator's variables and of the temporary in which an argument is
evaluated. The statements are those that the compiler makes of declarations
and assignments, with what they do to the block: a lambda allocates one, the
copy constructor copies it, `=` copies bytes only, a destructor frees it.
`createThread` passes the address of the function object; the thread reads the
function, the size and the captured data through it in three steps, during
which the creator goes on. The memory of the creator's frame is used again by
later statements and after it has returned (`ReuseMemory`). `given`,
`careful`, `disturbed` and `badFree` are histories: what each variable was
meant to hold, whether each statement so far left every block to one owner,
which threads had their argument changed before a join, and whether a free
block was freed. Only properties and the run's constraint read them.

| Action | Code |
|---|---|
| `DeclareNamed`, `DeclareLambda`, `DeclareCopy` | constructors of function objects in declarations |
| `AssignNamed`, `AssignCopy`, `AssignLambda` | the default `=` of `findApproxiateDefaultOperator`; a lambda is evaluated in its target |
| `DestroyTemporary`, `Leave`, `DestroyLast`, `Return` | the destructors behind a statement and at the end of a function |
| `CreateThread`, `CreateThreadOnLambda` | `CreateThreadCommand::call` on a variable and on a lambda expression |
| `ReadFunction`, `TestCaptures`, `CopyCaptures`, `EndThread` | the function the new thread executes: a native function is called at once, a script's with `CallLambdaFuntion` |
| `JoinThread`, `FinishJoin` | `joinThread`, `closeThread`; a thread joined before is not waited for |

**CodeLayout** is the compiler's last step and the machine. `CommandUnits` and
`ExtractCode` lay the units of a scope, and those of its children behind them,
into one sequence of commands; `Filled` is what the update tasks fill in once
addresses are known: jumps (`Branch`), and the commands that break, continue and
return execute out of line (`ReturnList`, `BreakList`, `ContinueList`). The machine knows `current`,
`before` (the command to come back to) and the context stack with the marks
of each open scope. `Implements` says that it behaves as ScopeObjects does on the
same source: `Structured` is ScopeObjects with the open scopes, the statement
each has reached and the exits under way computed from the machine's registers.
The refinement mapping (`Frames`, `Outstanding`, `Way`) stands before the actions.

**UserLibrary** is what a `ScriptCompiler` looks names up in: the factories by
function id, and seven maps that lead to them (overloads, dynamic functions,
default, copy and other constructors, destructors, and the `operator()` of a
type); the types by id, and the infos of arrays and structs. `BeginUserLib` marks the end of the system's part,
`CompileProgram` clears what is behind the mark. `forgotten` (a history) holds
the entries that a clear leaves behind.

| Action | Code |
|---|---|
| `RegistFunction`, `RegistDynamicFunction` | `registFunction`, `registDynamicFunction`, `FuncLibrary::mapFunction` |
| `RegisterConstructor`, `RegisterDestructor` | `registerConstructor` ..., with the automatic names and the refusal of an unfit object |
| `RegistFunctionOperator` | `registFunctionOperator`: of a dynamic function, or of one whose first parameter is the object |
| `RegisterUserType`, `RegistStruct`, `RegistArrayType`, `RegistFunctionType` | `registType`, `registStruct`, `registArrayType`, `registFunctionType` |
| `BeginUserLib`, `CompileProgram` | `beginUserLib`; the head of `compileProgram` with `clearUserLib` |

**OverloadResolution** links one call of the set `Calls`: `ConsiderPath` is one
turn of `filterCandidate`'s loop over the combinations of the parameters'
candidates, `Decide` the end of it, `FallBack` the search for a dynamic
function, `LinkOuter` and `LinkRoot` the call around it, `SelectConstructor`
and `SelectBinaryConstructor` initialisations. A type is a base and how it is
passed; accuracies are numbers, of which only the order and 0 matter.

**ExpressionExecutor** compiles statements to commands with offsets
(`Lower`..., one operator per kind of expression, on a *layout* of the next free
offset and the code so far) and executes them on a memory of bytes. A byte
knows the value it is part of, so that two values sharing a byte destroy each
other. `env` is the reference: `Evaluate` gives every expression its value
with an environment of variables and calls. `calls` and `destroyed` are what
the commands really did. Static arrays are two integers side by side, which a
subscript and a copy see as values of their own; a semi-reference is an address
in a variable or a result, to an integer or to an array.

| Action | Code |
|---|---|
| `Compile` | `ContextScope::extractCode` for each statement, `ExpUnitExecutor::extractCode` and below, `ScriptScope::allocate` |
| `CopyVariable`, `PutConstant`, `LeaOffset` | `PushParamOffset`; `PushParam`; `PushParamRef`, `PushParamRefOffset` and the four `Lea...To...` commands |
| `CallFunction` | `CallNativeFuntion`, `CallScriptFuntion3`, and `CallDynamicFuntion` with its list of parameters |
| `TestOperand`, `SettleResult` | `LogicAndCommandT`, `LogicOrCommandT` |
| `SelectClause`, `AssignValue` | `ConditionalCommand`; `DefaultAssigmentCommand`, `DefaultAssigmentCommandForSemiRef` |
| `Dereference`, `AccessElement` | `DeRefCommand`; `ElementAccessCommand3`, `ElementAccessForGlobalCommand` |
| `EnterDestructors`, `RunDestructor`, `NextStatement` | the `DestructorContextScope` behind a statement |

**ProgramLifecycle** is one suite and its host in one thread. The suite's global
scope keeps variables, units and destructors over compilations; the static
context keeps the commands and, per global run, what it constructed; `current`
is the thread's current context. A script is a sequence of global statements,
some of which fail.

| Action | Code |
|---|---|
| `Compile`, `Parse...`, `GiveUp`, `ExtractCode` | `compileProgram`: its head, the turns of the global parser's loop, the early return, the rest |
| `CompileLambda` | `compileExpression` of a lambda |
| `DetachScriptProgram`, `DeleteProgram`, `DeleteLamdaProg`, `DestroySuite` | who owns a program and the static context |
| `RunGlobalCode`, `CleanupGlobalMemory` | of `GlobalScope` and `CLamdaProg`, with `StaticContext::runCommands` |
| `RunTask`, `RunFunction`, `DeleteTask` | a `ScriptTask` beside the static context |

**SourcePositions** reads a script character by character as
`DefaultPreprocessor` does (`ReadChar`, `ReadComment`, `FinishText`), then
reports errors in any order at any offset (`ReportChar`, `ReportUnit`) as the
parsers do, and maps the last compiled position back (`OriginalPosition`,
`LastCompiledPosition`).

## Runs

| Run | What it shows | Bounds |
|---|---|---|
| `script_run` | types; stacks are what the open scopes made them (`LastInFirstOut`); open scopes lie apart in memory (`MemoryApart`); every exit restores the caller (`ReturnRestoresCaller`); clean runs leave the context as it was but for a size that a task misses when it runs again, failed ones unwind, and control is lost in no other way (`RunsGiveBack`); the context implements `Activations` | 4 slots, 6 bytes, words of 1 byte, 1 size in a pointer, 2 scopes, 2 calls, 3 host calls, 3 runs |
| `scope_objects` | the exit code meets its scopes, loops are not taken up again on the way out, no object is lost, reverse order; exact lifetimes for disciplined programs; a return ends | 2352 functions: short bodies with up to 3 statements in the loop, and long ones whose function has 9 objects |
| `code_layout` | the machine on addresses implements ScopeObjects (`Implements`); every jump decides on its own fresh condition | functions with a loop, a block and a branch nested in every way |
| `expression_parser` | what is written for a tree is parsed as this tree (`ParsesAsWritten`); operands are neither moved nor doubled, and only those are lost that a clause drops or that belong to an unfinished `? :` inside an else clause (`OperandsInOrder`); the parser ends (`ParserAdvances`, and no deadlock) | trees and arithmetic of 3 operators, all sequences of 4 tokens of 8 kinds, all lists of operands with up to 6 question marks, colons and commas, bare and in brackets, two expressions whose clauses drop an operand; 10 levels |
| `overload_resolution` | each candidate stands for its cheapest combination, candidates are ordered and distinct, arguments arrive as the parameter's type, an exact constructor is chosen | 2 overloads of 1 parameter, 3 of 2; arguments with up to 2 candidates; every conversion has an accuracy |
| `expression_executor` | a statement computes its expression, calls in order with their arguments (`ComputesTheExpression`); no temporary is forgotten, and one is destroyed twice or without an object only in the two stated cases (`TemporariesAreDestroyedOnce`) | all trees of 3 operators, copies between subscripts of 4, alone and before a second statement; declarations of semi-references before a use |
| `user_library` | overloads and operators lead to what was registered; only known leftovers are stale; a clear restores the marked library | 4 functions, 3 types, `operator()` of one of them, 1 compile that clears |
| `program_lifecycle` | no code of a failed compilation runs; the current context is alive; the first program is its script; while there is one program, a cleanup undoes its run | 11 scripts, 2 compiles, 2 global runs |
| `source_positions` | the text parsed is the script's code, each character leads back to its line and column, and the furthest error is shown there; what goes astray is what an open comment leaves and errors below an earlier text's end, and nothing else | scripts of 3 lines, 2 compiles, 2 addresses |
| `script_threads` | function objects of careful scripts keep their captured data, blocks are freed once; a thread that is joined before its argument changes runs what it was given; joins return | 2 variables, 2 threads, 2 blocks, 2 captured values, one function of each kind: of the script, native, lambdas with and without captures |
| `lambda_argument` | *violated*: a thread started with a lambda expression runs it with its captured data | the same |
| `corrected_script` | *violated*: a program that is handed out is its script | 2 scripts, the second the first one corrected |

With 4 slots and 6 bytes every one of the limits is met first by some run: the
memory by two nested scopes with data, the stacks by calls of functions without
data, so exceptions arise at each of their places, at depths 1 to 4. Frames of
two words, scopes with and without data, scratch bytes and marks, a call with
and one without parameters and captured bytes are enough to tell the sizes
apart. Three runs are the fewest in which a task can lose control by its scratch
sizes alone, with pointers of one size each: the second run sinks the stack by
one, the third by a second. A failed run followed by another is among them. In
`scope_objects` marks are four bits wide in bytes of eight, so the nine objects of
the long functions reach across the end of a byte, and three statements around a
block give all orders of declaration and exit.

In `expression_parser` three operators are two neighbours on each side of one,
or three levels of nesting, so each pair of priorities meets in both orders and
inside of every kind of bracket and clause. `MCExpressionParser` writes a tree
with the brackets that the documented levels ask for, and adds some where the
parser is stricter; the header of the module lists them (see *Known
deviations*). Short arbitrary sequences
are the incorrect input: nothing is promised for them but that the parser ends
and that what it accepts has its operands in their order. The lists of question
marks, colons and commas nest up to three conditional operators, each of which
may be unfinished, in each clause of another and in brackets and calls, so that
an error passes through one or more clauses before an else clause takes it.

In `script_threads` two variables and two blocks give a copy and its original,
two threads may read one object or one each, and two captured values tell a
block that was used again from the one that was captured. The constraint
`SmallCarefulScript` looks at careless scripts up to their first careless
statement, since all the safety properties but the first ask for careful ones,
and not at two variables with two threads. It cuts no behaviour between a join
and its return: while the creator waits it declares and assigns nothing and
starts no thread, so `JoinReturns` means what it says.

In `code_layout` four scopes are one more than a jump can skip: a loop with a
block in a branch behind it, a loop in a loop. Each body ends in nothing, break,
continue or return, each condition holds or not, and constructors may throw. In
`expression_executor` the types have 1, 2 and 5 bytes and a word 4, so that any
two offsets that are confused hit different bytes, and the second statement
fills the bytes the first has left. An index is a variable or an answer of a
function that lies in the array, since the code checks no bound. In
`user_library` four functions are the two of the system and two more, so each
map may lead to an id of the other's; a further compile clears nothing, as the
mark is gone. The arguments of `overload_resolution` are all the ways a type can
be passed to a parameter; every conversion of the instance has an accuracy,
which the properties about the order of candidates and about exact matches need.
In `program_lifecycle` five objects reach across the four bits of a mark, and
two compilations are enough for what the scope of a failed one hands to the
next: a declaration of an unknown type and a definition that fails both leave
their variable there. In `source_positions` every kind of line meets every
other, and the second text lies above or below the first.

`CHECK_DEADLOCK FALSE` in all runs but `expression_parser`: hosts may stop,
functions have returned and compilations have ended; a deadlock of the parser
would be a state in which the code can neither go on nor fail.

**Fairness.** ScriptRun assumes none: its properties are safety properties. In
ScopeObjects `WF_vars(Next)` says that the loop of `runFunctionScript` goes on
executing commands while the function has not returned; one thread executes
it, nothing else can disable it. It does not say that a loop of the script
ends. `ReturnEnds` needs it, and CodeLayout states the same fairness, since its
`Implements` includes that of ScopeObjects. In ScriptThreads `WF_vars(ThreadStep(t))` says that
the system runs every thread (they are `std::thread`s, none of which holds a
lock), and `WF_vars(FinishJoin)` that `std::thread::join` returns once the
thread has ended. The body of a thread's function is taken to end, as
`EndThread` is part of `ThreadStep`; the creator's own statements have no
fairness. `JoinReturns` needs both.

**Disciplined programs.** `DisciplinedLifetimes` says what the marks do
guarantee: if each scope declares its objects before anything that may leave
it and no variable of an outer scope is returned, destructors run on living
objects only. Neither condition can be dropped, see below.

## Known deviations

Two are checked as violated runs and listed as findings:

* `lambda_argument`: a lambda passed to createThread is a temporary; its
  destructor may run before the thread has copied the captured data.
* `corrected_script`: after a definition that fails, the corrected script is cut
  off at that variable, which the scope still has, and handed out without an
  error.

The others were met while modelling. The modules have them, as the code does;
the properties above say where they do not hold, so that each is a
precondition and not an omission.

* A task that runs again pops one scratch size more than it pushed
  (`ffscript/ScriptTask.cpp:59`). Its stack of them sinks below its array by one
  each time, and what is pushed there overwrites the last pointers of the stack
  before it, first `_errorFunc`, then `_end` (`ffscript/Context.h:48`). With
  pointers of two sizes the fourth run loses control, an earlier one if its calls
  fill the stack (`LoseControl`).
* The mask of a constructor mark is four bits wide and a mark is never cleared:
  on an early return between declarations, or in a later turn of a loop, a
  destructor runs on an object that is not there. With more than 8 objects the
  marks reach past their block. A returned variable of an outer scope is destroyed.
* A global cleanup destroys objects up to three places from a constructed one. A
  second program of a suite puts the commands and destructors of the first one
  there once more, so the cleanup is exact for one program only (`OneProgram`).
* A declaration whose type is not known leaves its variable in the scope.
* `||` reads its second operand with the type of the first
  (`ffscript/LogicCommands.hpp:94`): `false || 256` is false.
* Temporaries in an operand that `&&`, `||` or `?:` leaves out are destroyed all
  the same; an object chosen by `?:` is destroyed with both clauses' temporaries;
  plain assignment of a function's result leaves two owners.
* The subscript of a global semi-reference to an array uses what it referred to
  when the code was made (`ffscript/ExpUnitExecutor2.cpp:741`), that is, nothing.
* Casts and `++` bind otherwise than in C++, and a cast needs brackets.
* `a ? (b, c) : d` and `a ? b : (c, d), e` are accepted and lose an operand
  (`dropped` in ExpressionParser): brackets that are no call leave two expressions
  side by side, and a clause takes the last (`ffscript/ExpresionParser.cpp:1099`).
* `(a ? b : c ? d)` is accepted without `d`: an else clause takes any error that
  meets `)`, `}` or a comma for its own end (`ffscript/ExpresionParser.cpp:1150`),
  that of a conditional operator inside it too, which is thrown away with all it
  has read (`lost`). The unit behind a last `?` is read past the end of the list.
* A lambda that is assigned to a variable is evaluated in the variable itself,
  and the temporary's destructor then frees the block the variable holds.
* Dynamic functions, constructors of several parameters, the `operator()` of a
  type and the names of arrays and function types outlive the clear of the user library
  (`StaleOnlyWhatIsForgotten` lists them), and only the first compile after
  `beginUserLib` clears.
* Behind a comment on a last line without line feed the text before it is parsed a
  second time, with the comment (`OpenComment`); errors there are shown at the end
  of the script.
* The furthest error is kept as an address: in a text at a lower address the place
  that an earlier text has reached hides those errors that are not of a unit
  (`Furthest`).

## Proofs

For eight of the ten questions above the safety properties that the runs check
are proved, for all values of the constants, and so is the refinement of
`Activations`; the rest is named under *Only model-checked*. The theorems use
the named assumptions of the modules and nothing else, but for one hypothesis on
`OverloadResolution` that is said below. Each proof has an inductive invariant
`IInv`, which TLC checked on the module's run before it was proved, as far as it
can be evaluated. At the head of a proof module stand the inductions it needs:
`Least` derives from the well-foundedness of inclusion between finite sets that
a set of natural numbers has a least element, `Induct` that a set that goes on
from each number to the next has all of them; `Iterates` and `Descends` give
from these that a recursive function of 0..n, or of the nodes of a tree, exists,
without which nothing could be said of the recursive functions of the models.

**The machine.** `ScriptRunProofs` proves, for every memory and stack size, set
of scopes and calls, and number of runs:

| Theorem | Property |
|---|---|
| `TypeCorrect` | `TypeOK` |
| `StacksAreLastInFirstOut` | `LastInFirstOut` |
| `MemoryIsApart` | `MemoryApart` |
| `ReturnsRestore` | `ReturnRestoresCaller` |
| `RunsLeaveTheContext` | `RunsGiveBack` |
| `ContextImplementsActivations` | `ImplementsActivations` |

`LastInFirstOut` alone is not inductive: to leave a scope one must know that
what it adds can be taken back, so `IInv` also says that each pending entry was
entered from a context on which the entry did not raise, with at least one cell
allocated and scratch bytes for each scope; that kinds follow each other as
calls and functions do; and, for a raised context, that the host's scopes are
still at the bottom of its stack. The first part of the module has the algebra:
for each instruction, that its exit undoes its entry on the offset and the three
stacks. Each action has a step lemma; most of them are a push on or a removal
from `pending` (`Entering`, `LeavingMove`), which change one end of the chain.
`MemoryApart` follows from the invariant: each entry's memory ends where the
memory of the next begins or before, by induction along `pending` (`Apart`).

The refinement has one lemma per action of the code, with the action of
`Activations` it is. Entering needs `Apart` after the step, since `Enter` asks
the new memory to lie behind that of every open activation and the code only
looks at the innermost; leaving needs `RestoresCaller`, which names the context
to come back to; the ends of runs need `LeavesNoTrace`, `Unwinds` and `Rested`
(between runs there is no run to remember), the loss of control that the run is
a task's that runs again (`KeepsControl`). How far the sizes have sunk between
runs is a part of `IInv` (`Sunk`): by one at most for each run before. These are
the properties proved before, so the abstract machine is where they come
together. What an activation looks like depends only on the entry's kind, its
scope and the context it was entered from, so nothing below the top of `pending`
changes with the context.

**Objects of scopes.** `ScopeObjectsProofs` proves, for every function, that is,
any tree of scopes, number of objects, way out and value in memory that was not
written:

| Theorem | Property |
|---|---|
| `TypeCorrect` | `TypeOK` |
| `ExitCodeMatches` | `ExitCodeMatchesScopes` |
| `JumpsLeaveTheirTarget` | `JumpsLeave` |
| `NoObjectLost` | `NoObjectIsLost` |
| `LastFirstDestroyed` | `ReverseOrder` |
| `OnlyLivingDestroyed` | `DisciplinedLifetimes` |

The first half is about the compiler: what is on a way out (`WaysOut`, by
induction over the tree) is a segment of code for each scope up to the target,
and a segment has the destructors of its scope in the reverse order
(`DestructorsAre`, by induction over the statements). `WayInv` ties this to the
run: the open scopes are a chain in the tree, and the commands still to be
executed leave its end. `Kept` says that a living object is marked, or excepted
by a return; `Ahead` that on the way out each living object of a scope that is
left has its destructor still to come, which is what "no object is lost" needs
and what no single state of a scope shows; `Whole` is the converse for
disciplined programs, that what is still to be destroyed lives. The marks
overlap, so that some of the cases are about which indexes share a bit
(`MarksApart`).

**Threads.** `ScriptThreadsProofs` proves, for any number of variables, threads,
blocks and captured values, every order of the steps of creator and threads,
and every reuse of memory:

| Theorem | Property |
|---|---|
| `CapturesAreKept` | `CarefulFunctionsKeepTheirCaptures` |
| `BlocksHaveOneOwner` | `BlocksAreFreedOnce` |
| `ThreadsRunTheirArgument` | `ThreadsRunWhatTheyWereGiven` |

While a function has been careful, every place whose destructor has still to run
holds what it was given, no two of them own the same block, and a block is
allocated exactly if one of them owns it (`BlocksAreOwned`); a thread whose
argument was not changed reads from a place that is held (`ArgumentIsThere`)
and has read right so far (`HasRead`). The two need each other: that a copy of
captured data is right needs that nobody freed the block, and who may free it
is known from the owners.

**The library.** `UserLibraryProofs` proves, for all types, names and functions
and any sequence of registrations, refusals, marks and compiles:

| Theorem | Property |
|---|---|
| `OverloadsAreFound` | `OverloadsLeadToTheirFactories` |
| `OperatorsFitTheirType` | `OperatorsAreOfTheirType` |
| `NothingElseIsStale` | `StaleOnlyWhatIsForgotten` |
| `SystemLibraryIsRestored` | `ClearRestores` |

The invariant has three groups of tables, each twice: that its entries are
right (`TypeTables`, `FunctionTables`, `OperatorTables`) and what the part below
the mark has to do with the library that was marked (`SystemTypes` ...); beside
them stands that an `operator()` which is not forgotten leads to a function of
its type (`CallTables`). Ids are
positions and are used again after a clear, so that an entry is right only as
long as what it leads to is below the mark or was registered since; this is why
`StaleOnlyWhatIsForgotten` cannot be proved of one map alone.

**Overloads.** `OverloadResolutionProofs` proves, for every library of overloads,
and calls with any number of parameters and candidates:

| Theorem | Property |
|---|---|
| `CheapestUse` | `CandidatesAreTheCheapest` |
| `ArgumentsAreTaken` | `ArgumentsFit` |
| `CandidatesAreOrdered` | `CandidatesAreInOrder`, if `EveryConversionIsRated` |
| `BestConstructorIsChosen` | `BestMatchIsChosen`, if `EveryConversionIsRated` |

`EveryConversionIsRated` says that each implicit conversion has an accuracy. A
conversion without one has the accuracy -1 in the code
("cannot find accuration of conversion"), which makes it cheaper than an exact
match; the comments of both properties say so, and the run has accuracies for
all its conversions. `Totals`
and `PathsAreChoices` are inductions: a candidate costs the sum over its
arguments, and the loop of `filterCandidate`, which counts through the
combinations like an odometer, meets each combination.

**Expressions.** `ExpressionParserProofs` proves, for all lists of tokens, of any
length, and any depth:

| Theorem | Property |
|---|---|
| `ParserTypeCorrect` | `TypeOK` |
| `OperandsStayInOrder` | `OperandsInOrder` |
| `ParserGoesOn` | `ParserAdvances` |

What a parameter may be is a tree, and a tree has trees as parameters; `Trees`
is a set that is closed under this, built by iteration, so that the stacks have
a type. `Keeps(before, after)` is the relation the proof lives on: if the nodes
`after`, looked into deep enough, are leaves, so are the nodes `before`, with
the same operands in the same order. It holds within any list of nodes if it
holds of a part of it, and is shown for each operation on a layer: an operator
that takes its parameters and becomes output, operators applied down to one that
stays, brackets that become a call, a subscript, a cast or nothing, and the list
at the end. `IInv` is `Types /\ Kept`. `Kept` says that the units put so far, in
their order, are kept by the nodes of all activations laid behind each other
(`AllNodes`): of the outermost first, each question mark's first clause before
the layers of its second. The units in `lost` are left out on both sides; that
they are those from a question mark on needs to know, of each open call, which
units the calls outside of it have kept (`Standing`), since these are what is
left when its error is passed on. A clause begins and ends between these, and
what ends it is merged below it (`Conditional`). `Types` adds to `TypeOK` what
this needs: that no bracket lies on the last layer (`LayersOK`), and that the
function of an else clause lies at the bottom of its first layer (`Bottom`), so
that at the end of the units making the layers up gives it its parameter
(`GotParameter`). `ParserGoesOn` then only needs that the calls are nested and
the position is inside of the units.

**The lifecycle.** `ProgramLifecycleProofs` proves, for every set of scripts and
every bound on compilations and runs:

| Theorem | Property |
|---|---|
| `TypeCorrect` | `TypeOK` |
| `OnlyCompiledCodeIsRun` | `OnlyCompiledCodeRuns` |
| `CurrentStaysAlive` | `CurrentIsAlive` |
| `FirstProgramIsWhole` | `FirstProgramIsItsScript` |
| `CleanupUndoesTheRun` | `CleanupUndoesRun` |

The invariant of the first three is `Types /\ HolderIsThere /\ ContextIsThere /\
CodeIsCompiled`: the context's owner is a program that was detached, or the
scope of a suite that is there; the thread's context is owned; and what is in
the scope's units or the context's commands belongs to a program in the list,
not lost once it is in the context. None of the three properties is inductive
without the owner: `DeleteLamdaProg` deletes a context, and only the owner tells
whether it was the current one. `FirstProgramIsWhole` adds that the units so far
are those of the statements so far (`Laid`), and that a parser that has ended
early has met a variable twice. `CleanupUndoesTheRun` adds `Paired`: each object
of the scope, and of each program in the static context, has one destructor, in
the reverse order, and a frame only has objects of the context's commands. The
theorem is about suites that have made one program.

**Positions.** `SourcePositionsProofs` proves `ErrorsAreShown` (property
`ErrorsAreShownWhereTheyAre`) for all scripts, addresses and numbers of
compilations, open comments and earlier texts at higher addresses included. What the preprocessor has read is described by counting: the text
enumerates the characters that are kept (`Enumerates`), the map of lines has for
each line feed the number of kept characters up to it (`Ends`), and `ReadTo`,
`Parsed` and `Reports` are these for a script that is being read, has been read,
and has errors. The code comes first in the text (`CodeFirst`), whatever an open
comment leaves behind it. `WayBack` takes a position in it back, `BehindTheCode`
one behind it.

**Only model-checked.** Liveness (`ReturnEnds`, `JoinReturns`) is out of the
prover's reach. `Implements` of `CodeLayout` contains a liveness property; its
safety part is not proved either, nor are `TypeOK` and
`JumpsDecideOnTheirCondition` of that module: addresses come from sequences of
sequences that are laid behind each other, filtered and searched with a CHOOSE
for the one unit of a kind, so that a proof must first have the layout of every
tree of scopes. `ExpressionExecutor` (`ComputesTheExpression`,
`TemporariesAreDestroyedOnce`) declares recursive operators on trees, for which
the prover has no SMT backend; so does the reference of `ParsesAsWritten`, the
written form of a tree, in `MCExpressionParser`.

## Not modelled

The instructions that only move bytes or compute, but for those of expressions;
members, composites, initial values of arrays and references to references in
expressions (the offset of a member of a member, `ExpUnitExecutor2.cpp:41`,
and of a member of a global object deserve the next module), and the
order in which the members of an object are constructed; characters of
tokens, the layout of structs, arrays of several dimensions; function objects
that are members, parameters, results or global variables, what a captured
address points to, and the parameters of a thread's function, which the thread
copies from the creator's scratch bytes (`ffscript/DefaultCommands.cpp:518`; all
functions of `ScriptThreads` are `function<void()>`); in the library the map from
a function's id to its overload (`_overloadingIdMap`), which each registration of
the id overwrites, and constructors and destructors whose object parameter is of
another type than the one they are registered for; what a process does that has
lost control; string literals in the preprocessor, which cuts a `//` in
them as any other; destructors that are script functions, whose frames would
meet the bytes they destroy (`README.md:148` has native types only); the
debugger with its spy session, the remote logger, the native libraries and
everything vendored: input and output, operating system calls, or functions
without state. `PROJECT.json` lists each part with the reason.

## Plan

1. *Context and runs*, *objects of scopes*, *expression parser*, *function
   objects and threads*, *program lifecycle*, *code layout*, *overloads*, *user
   library*, *source positions*, *code of expressions* (done).
2. Proofs: the safety properties of ScriptRun, ScopeObjects, ScriptThreads,
   UserLibrary, OverloadResolution, ProgramLifecycle, SourcePositions and
   ExpressionParser, and the abstract machine of activations that ScriptRun
   implements (done); the layout of CodeLayout, as lemmas on where the units of a
   scope lie, and with it its jumps.
3. Members and composites in ExpressionExecutor with the order of member
   constructors; sizes and offsets of structs; conversions built for a
   candidate (`completeFunctionTree`).
