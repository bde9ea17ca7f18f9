-------------------------- MODULE ProgramLifecycle --------------------------
(***************************************************************************)
(* From a script to its global objects: a CompilerSuite compiles scripts    *)
(* into programs, extractCode leaves the commands of the global code in the *)
(* static context of the global scope, the host runs and cleans them up     *)
(* through the scope or, detached, through a CLamdaProg, and runs functions *)
(* in tasks of their own, all in one thread with one current context.       *)
(*                                                                         *)
(* The global scope lives as long as the suite: variables, command units,   *)
(* destructors and functions of one compilation are still there in the      *)
(* next.  A variable is of a type with a constructor and a destructor.  The *)
(* frames of the static context all lie at the same offset.                 *)
(*                                                                         *)
(* What ends the process is a fault: a null context, a null code entry, a   *)
(* stack that is popped empty.  correctAndOptimize and extractCode have     *)
(* failing ways out that no script reaches (extractCode returns whether an  *)
(* offset that begins at 0 is not negative); they are left out.             *)
(***************************************************************************)
EXTENDS Integers, Sequences, FiniteSets, SequencesExt

CONSTANTS
    Variable, NoVar,    \* names of global variables
    Scripts,            \* sequences of global statements
    Shared,             \* whether the host gives the suite a context of its own
    MaxCompiles,        \* bound on the scripts compiled by one suite
    MaxFrames           \* bound on global runs that are not cleaned up

Statement == [do : {"declare", "define", "call", "function", "cast"},
              var : Variable \cup {NoVar}, fails : BOOLEAN]

ASSUME ScriptsAssumption ==
    /\ Scripts \subseteq Seq(Statement)
    /\ Shared \subseteq BOOLEAN
    /\ MaxCompiles \in Nat /\ MaxFrames \in Nat

VARIABLES
    compiles,   \* the scripts compiled so far, with what became of each
    parse,      \* the script that is being parsed, and how far
    scope,      \* GlobalScope: vars, units, destructors, functions
    program,    \* compilation -> host, detached, deleted or lost
    holder,     \* who owns the static context: scope, host, a program, nobody
    static,     \* StaticContext: commands, destructors, frames
    objects,    \* constructor indexes of the objects in the global memory
    suite,      \* whether the CompilerSuite is there
    current,    \* Context::getCurrent()
    task,       \* whether the host has a ScriptTask
    destroyed,  \* destructors run by the last cleanup, in their order
    fault       \* what has ended the process

compiling == <<compiles, parse, scope>>
running == <<objects, current, task, destroyed>>
vars == <<compiling, program, holder, static, suite, running, fault>>

\* Holders of the static context; a program is known by its compilation.
TheScope == 0
TheHost == -1
Nobody == -2

Now == Len(compiles) + 1    \* the compilation that is going on
NoFunction == 0             \* the function of no compilation

NoParse == [script |-> <<>>, next |-> 1, state |-> "none"]
NoFault == fault = "none"
Idle == NoFault /\ parse = NoParse

Crash(why) ==
    /\ fault' = why
    /\ UNCHANGED <<compiling, program, holder, static, suite, running>>

-----------------------------------------------------------------------------
\* compileProgram: one statement after the other goes into the scope.
Compile(script) ==
    /\ Idle /\ suite /\ Len(compiles) < MaxCompiles
    /\ parse' = [script |-> script, next |-> 1, state |-> "parsing"]
    /\ UNCHANGED <<compiles, scope, program, holder, static, suite, running,
                   fault>>

AtStatement(do) ==
    /\ NoFault /\ parse.state = "parsing" /\ parse.next \in DOMAIN parse.script
    /\ parse.script[parse.next].do = do
TheStatement == parse.script[parse.next]

ParsedTo(state) ==
    /\ parse' = [parse EXCEPT !.next = @ + 1, !.state = state]
    /\ UNCHANGED <<compiles, program, holder, static, suite, running, fault>>

Known(var) == \E i \in DOMAIN scope.vars : scope.vars[i] = var
AddVariable(s, var) == [s EXCEPT !.vars = Append(@, var)]

AddUnit(s, var, index) ==
    [s EXCEPT !.units = Append(@, [from |-> Now, var |-> var, index |-> index])]

(* A wrong variant: destructors in the order of the declarations. *)
AddObjectInOrder(s, var) ==
    [AddUnit(s, var, s.count) EXCEPT !.destructors = Append(@, s.count),
                                     !.count = @ + 1]

\* checkVariableToRunConstructor and checkVariableToRunDestructor.
AddObject(s, var) ==
    [AddUnit(s, var, s.count) EXCEPT !.destructors = <<s.count>> \o @,
                                     !.count = @ + 1]

\* A variable declared again ends the loop as if the script ended there; one
\* whose type is not known is an error, and the scope has it all the same.
ParseDeclaration ==
    /\ AtStatement("declare")
    /\ LET var == TheStatement.var IN
       IF Known(var) THEN UNCHANGED scope /\ ParsedTo("ended")
       ELSE IF TheStatement.fails
       THEN scope' = AddVariable(scope, var) /\ ParsedTo("failed")
       ELSE /\ scope' = AddObject(AddVariable(scope, var), var)
            /\ ParsedTo("parsing")

ParseDefinition ==
    /\ AtStatement("define")
    /\ LET var == TheStatement.var IN
       IF Known(var) THEN UNCHANGED scope /\ ParsedTo("failed")
       ELSE IF TheStatement.fails
       THEN scope' = AddVariable(scope, var) /\ ParsedTo("failed")
       ELSE /\ scope' = AddObject(AddVariable(scope, var), var)
            /\ ParsedTo("parsing")

ParseExpression(s) ==
    IF TheStatement.fails THEN scope' = s /\ ParsedTo("failed")
    ELSE scope' = AddUnit(s, NoVar, 0) /\ ParsedTo("parsing")

ParseCall == AtStatement("call") /\ ParseExpression(scope)

AddFunction(s, k) == [s EXCEPT !.functions = @ \cup {k}]

(* A wrong variant: a function ends the script. *)
ParseLastFunction ==
    /\ AtStatement("function")
    /\ scope' = AddFunction(scope, Now)
    /\ ParsedTo(IF TheStatement.fails THEN "failed" ELSE "ended")

\* The scope of a function is there before its header is read.
ParseFunction ==
    /\ AtStatement("function")
    /\ scope' = AddFunction(scope, Now)
    /\ ParsedTo(IF TheStatement.fails THEN "failed" ELSE "parsing")

\* A type before a parenthesis: not the header of a function, it is parsed as
\* an expression from the parenthesis on, and the function's scope stays.
ParseCast ==
    AtStatement("cast") /\ ParseExpression(AddFunction(scope, NoFunction))

Parsed ==
    \/ parse.state = "ended"
    \/ parse.state = "parsing" /\ parse.next = Len(parse.script) + 1

Compiled(owner) ==
    /\ compiles' = Append(compiles, [script |-> parse.script,
                                     units |-> scope.units])
    /\ parse' = NoParse
    /\ program' = Append(program, owner)

\* A program that was not parsed stays bound to the compiler and belongs to
\* nobody.
GiveUp ==
    /\ NoFault /\ parse.state = "failed"
    /\ Compiled("lost")
    /\ UNCHANGED <<scope, holder, static, suite, running, fault>>

\* The commands of all the scope's units, as compiled into this program, are
\* put behind those that are there already.
AddCommands ==
    [static EXCEPT
        !.code = @ \o [i \in DOMAIN scope.units |->
                          [program |-> Now, unit |-> scope.units[i]]],
        !.destructors = @ \o [i \in DOMAIN scope.destructors |->
                                 [program |-> Now,
                                  index |-> scope.destructors[i]]]]

(* A wrong variant: the commands are left whatever parse returned. *)
ExtractCodeAnyway ==
    /\ NoFault /\ (Parsed \/ parse.state = "failed")
    /\ Compiled(IF Parsed THEN "host" ELSE "lost")
    /\ static' = AddCommands
    /\ UNCHANGED <<scope, holder, suite, running, fault>>

\* The scope of a function of an earlier compilation finds no code of its own
\* in the new program, nor does one that is no function; the null entry is
\* dereferenced, as is the context that a program was detached with.
ExtractCode ==
    /\ NoFault /\ Parsed
    /\ IF /\ scope.functions \subseteq {Now}
          /\ holder \in {TheScope, TheHost} \/ scope.units = <<>>
       THEN /\ Compiled("host")
            /\ static' = IF scope.units = <<>> THEN static ELSE AddCommands
            /\ UNCHANGED <<scope, holder, suite, running, fault>>
       ELSE Crash("nullCode")

\* An expression with a lambda registers it with the program that is bound,
\* the last one, and leaves a function in the scope.
CompileLambda ==
    /\ Idle /\ suite
    /\ IF compiles = <<>> THEN Crash("nullProgram")
       ELSE IF program[Len(compiles)] = "deleted" THEN Crash("deletedProgram")
       ELSE /\ scope' = AddFunction(scope, Len(compiles))
            /\ UNCHANGED <<compiles, parse, program, holder, static, suite,
                           running, fault>>

-----------------------------------------------------------------------------
(* A wrong variant: the context goes to the program, the program to nobody. *)
DetachContextOnly(p) ==
    /\ Idle /\ suite /\ program[p] = "host"
    /\ holder = TheScope
    /\ holder' = p
    /\ UNCHANGED <<compiling, program, static, suite, running, fault>>

\* Where the scope has no context of its own to give, the wrapper is lost that
\* was made for the program, and all is as before.
DetachScriptProgram(p) ==
    /\ Idle /\ suite /\ program[p] = "host"
    /\ IF holder = TheScope
       THEN holder' = p /\ program' = [program EXCEPT ![p] = "detached"]
       ELSE UNCHANGED <<holder, program>>
    /\ UNCHANGED <<compiling, static, suite, running, fault>>

DeleteProgram(p) ==
    /\ Idle /\ program[p] = "host"
    /\ program' = [program EXCEPT ![p] = "deleted"]
    /\ UNCHANGED <<compiling, holder, static, suite, running, fault>>

\* ~Context: whatever was the current context, there is none now.
DeleteStaticContext ==
    /\ holder' = Nobody
    /\ current' = "none"
    /\ objects' = {}

(* A wrong variant: the thread keeps its current context. *)
DeleteProgramWithContextAsIs(p) ==
    /\ Idle /\ program[p] = "detached"
    /\ program' = [program EXCEPT ![p] = "deleted"]
    /\ holder' = Nobody /\ objects' = {}
    /\ UNCHANGED <<compiling, static, suite, current, task, destroyed, fault>>

\* ~CLamdaProg
DeleteLamdaProg(p) ==
    /\ Idle /\ program[p] = "detached"
    /\ program' = [program EXCEPT ![p] = "deleted"]
    /\ DeleteStaticContext
    /\ UNCHANGED <<compiling, static, suite, task, destroyed, fault>>

\* ~GlobalScope: a context of the host's is released, not deleted.
DestroySuite ==
    /\ Idle /\ suite
    /\ suite' = FALSE
    /\ IF holder = TheScope THEN DeleteStaticContext
       ELSE UNCHANGED <<holder, current, objects>>
    /\ UNCHANGED <<compiling, program, static, task, destroyed, fault>>

-----------------------------------------------------------------------------
\* Who may run the global code: the scope while the suite is there, or the
\* program the context was detached with.
Runner(who) ==
    \/ who = TheScope /\ suite
    \/ who \in DOMAIN program /\ program[who] = "detached"
HasContext(who) ==
    holder = who \/ (who = TheScope /\ holder = TheHost)
Runs(commands) ==
    \A i \in DOMAIN commands : program[commands[i].program] # "deleted"

Built(done) == {static.code[i].unit.index :
                   i \in {j \in 1 .. done : static.code[j].unit.var # NoVar}}

\* runCommands: the first "done" commands are executed; when one throws, the
\* static context stays the current one.
RunCommands(done) ==
    /\ static' = [static EXCEPT !.frames = Append(@, Built(done))]
    /\ objects' = objects \cup Built(done)
    /\ current' = IF done = Len(static.code) THEN current ELSE "static"

RunGlobalCode(who) ==
    /\ Idle /\ Runner(who) /\ Len(static.frames) < MaxFrames
    /\ IF ~HasContext(who) THEN Crash("nullContext")
       ELSE \E done \in 0 .. Len(static.code) :
            IF ~Runs(SubSeq(static.code, 1, done)) THEN Crash("deletedProgram")
            ELSE /\ RunCommands(done)
                 /\ UNCHANGED <<compiling, program, holder, suite, task,
                                destroyed, fault>>

\* isContructorExecuted looks at four bits.
Marked(built, index) ==
    \E i \in built : /\ i \div 8 = index \div 8
                     /\ i - index \in -3 .. 3

\* runDestructorCommands: the objects of the first k commands that are marked.
Due(commands, built) ==
    LET due[k \in 0 .. Len(commands)] ==
            IF k = 0 THEN <<>>
            ELSE IF Marked(built, commands[k].index)
            THEN Append(due[k - 1], commands[k].index)
            ELSE due[k - 1]
    IN  due[Len(commands)]

CleanupGlobalMemory(who) ==
    LET frames == static.frames
        due == Due(static.destructors, frames[Len(frames)])
    IN  /\ Idle /\ Runner(who)
        /\ IF ~HasContext(who) THEN Crash("nullContext")
           ELSE IF ~Runs(static.destructors) THEN Crash("deletedProgram")
           ELSE IF frames = <<>> THEN Crash("emptyStack")
           ELSE /\ destroyed' = due
                /\ objects' = objects \ Range(due)
                /\ static' = [static EXCEPT !.frames = Front(@)]
                /\ UNCHANGED <<compiling, program, holder, suite, current,
                               task, fault>>

-----------------------------------------------------------------------------
\* A task makes its own context the current one and leaves it so.
RunTask(p) ==
    /\ Idle /\ program[p] \in {"host", "detached"}
    /\ task' = TRUE
    /\ current' = "task"
    /\ UNCHANGED <<compiling, program, holder, static, suite, objects,
                   destroyed, fault>>

DeleteTask ==
    /\ Idle /\ task
    /\ task' = FALSE
    /\ current' = "none"
    /\ UNCHANGED <<compiling, program, holder, static, suite, objects,
                   destroyed, fault>>

\* ScriptRunner takes the current context without a look; what it does there is
\* in ScriptRun.
RunFunction(p) ==
    /\ Idle /\ program[p] \in {"host", "detached"}
    /\ current = "none"
    /\ Crash("nullContext")

-----------------------------------------------------------------------------
Init ==
    /\ compiles = <<>>
    /\ parse = NoParse
    /\ scope = [vars |-> <<>>, units |-> <<>>, destructors |-> <<>>,
                functions |-> {}, count |-> 0]
    /\ program = <<>>
    /\ \E shared \in Shared : holder = IF shared THEN TheHost ELSE TheScope
    /\ static = [code |-> <<>>, destructors |-> <<>>, frames |-> <<>>]
    /\ suite = TRUE
    /\ objects = {}
    /\ current = "static"
    /\ task = FALSE
    /\ destroyed = <<>>
    /\ fault = "none"

Next ==
    \/ \E script \in Scripts : Compile(script)
    \/ ParseDeclaration \/ ParseDefinition \/ ParseCall \/ ParseFunction
    \/ ParseCast
    \/ GiveUp \/ ExtractCode
    \/ CompileLambda
    \/ \E p \in DOMAIN program : \/ DetachScriptProgram(p)
                                 \/ DeleteProgram(p)
                                 \/ DeleteLamdaProg(p)
                                 \/ RunTask(p)
                                 \/ RunFunction(p)
    \/ DestroySuite
    \/ \E who \in {TheScope} \cup DOMAIN program : \/ RunGlobalCode(who)
                                                  \/ CleanupGlobalMemory(who)
    \/ DeleteTask

Spec == Init /\ [][Next]_vars

-----------------------------------------------------------------------------
Owners == {"host", "detached", "deleted", "lost"}
Faults == {"none", "nullCode", "nullProgram", "nullContext", "deletedProgram",
           "emptyStack"}

TypeOK ==
    /\ Len(program) = Len(compiles) /\ Range(program) \subseteq Owners
    /\ holder \in {TheScope, TheHost, Nobody} \cup DOMAIN program
    /\ holder \in DOMAIN program => program[holder] = "detached"
    /\ current \in {"none", "static", "task"}
    /\ fault \in Faults
    /\ suite \in BOOLEAN /\ task \in BOOLEAN

\* The static context holds commands of programs that were handed to the host
\* only: what a compilation that failed has left in the scope is never run,
\* whichever compilations came before.
OnlyCompiledCodeRuns ==
    \A i \in DOMAIN static.code : program[static.code[i].program] # "lost"

\* A thread's current context is one that still exists, whatever has been
\* deleted meanwhile and whether runs have thrown.
CurrentIsAlive ==
    /\ current = "static" => holder # Nobody
    /\ current = "task" => task

OneProgram ==
    Cardinality({static.code[i].program : i \in DOMAIN static.code}) = 1

\* The cleanup of a run, complete or not, destroys every object the run has
\* constructed, once and in the reverse order; besides, only objects declared
\* up to three places from one of them.
CleanupUndoesRun ==
    [][(OneProgram /\ Len(static'.frames) < Len(static.frames)) =>
        LET built == static.frames[Len(static.frames)]
        IN  /\ built \subseteq Range(destroyed') /\ objects' \cap built = {}
            /\ \A i, j \in DOMAIN destroyed' : i < j => destroyed'[i] > destroyed'[j]
            /\ \A i \in DOMAIN destroyed' : \E b \in built : destroyed'[i] - b \in -3 .. 3
      ]_vars

Distinct(script) ==
    \A i, j \in DOMAIN script :
        (i # j /\ {script[i].do, script[j].do} \subseteq {"declare", "define"}) =>
            script[i].var # script[j].var
\* The statements that leave a command, and the place of the command of one.
Commands(script) == {i \in DOMAIN script : script[i].do # "function"}
Place(script, i) == Cardinality({j \in Commands(script) : j =< i})
IsItsScript(k) ==
    LET script == compiles[k].script
        units  == compiles[k].units
    IN  /\ Len(units) = Cardinality(Commands(script))
        /\ \A i \in Commands(script) :
              LET unit == units[Place(script, i)] IN
              /\ unit.from = k
              /\ unit.var = IF script[i].do \in {"call", "cast"} THEN NoVar
                            ELSE script[i].var

\* The first program of a suite is its script: every statement, in its order.
\* (Where no variable is declared twice.)
FirstProgramIsItsScript ==
    compiles # <<>> /\ Distinct(compiles[1].script) /\ program[1] # "lost" =>
        IsItsScript(1)

\* "variable is already declared": a program that is handed to the host is its
\* script, the whole of it and nothing else.
ProgramsAreTheirScripts ==
    \A k \in DOMAIN compiles : program[k] # "lost" => IsItsScript(k)
=============================================================================
