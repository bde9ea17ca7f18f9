----------------------- MODULE ProgramLifecycleProofs -----------------------
(***************************************************************************)
(* For every set of scripts, any number of compilations by one suite and    *)
(* any order of the host's calls: what a compilation that failed has left   *)
(* is never run, the thread's current context exists, the first program is  *)
(* its script, and the cleanup of a run destroys what the run constructed.  *)
(***************************************************************************)
EXTENDS ProgramLifecycle, FiniteSetTheorems, WellFoundedInduction, TLAPS
-----------------------------------------------------------------------------
(* A set of natural numbers that is not empty has a least element: strict  *)
(* inclusion of the intervals 1..n is well-founded.                        *)
LEMMA Least ==
    ASSUME NEW T \in SUBSET Nat, T # {}
    PROVE  \E m \in T : \A k \in T : m <= k
  <1> DEFINE I == {1..n : n \in T}
  <1>1. IsWellFoundedOn(StrictSubsetOrdering(Nat), FiniteSubsetsOf(Nat))
    BY FS_StrictSubsetOrderingWellFounded
  <1>2. I \subseteq FiniteSubsetsOf(Nat)
    <2>1. \A n \in T : IsFiniteSet(1..n)
      BY FS_Interval
    <2> QED
      BY <2>1 DEF FiniteSubsetsOf
  <1>3. I # {}
    OBVIOUS
  <1>4. PICK x \in I : \A y \in I : ~(<<y, x>> \in StrictSubsetOrdering(Nat))
    <2> HIDE DEF I
    <2> QED
      BY <1>1, <1>2, <1>3, WFMin
  <1>5. PICK m \in T : x = 1..m
    OBVIOUS
  <1>6. ASSUME NEW k \in T, k < m
        PROVE  FALSE
    <2>1. 1..k \in I /\ x \in SUBSET Nat /\ 1..k \in SUBSET Nat
      BY <1>5
    <2>2. 1..k \subseteq 1..m /\ m \notin 1..k /\ m \in 1..m
      BY <1>6
    <2>3. <<1..k, x>> \in StrictSubsetOrdering(Nat)
      BY <2>1, <2>2, <1>5 DEF StrictSubsetOrdering
    <2> QED
      BY <2>3, <2>1, <1>4
  <1> QED
    BY <1>6

(* A set that has 0 and with n also n + 1 has every natural number.        *)
LEMMA Induct ==
    ASSUME NEW T, 0 \in T, \A n \in Nat : n \in T => n + 1 \in T
    PROVE  Nat \subseteq T
  <1> SUFFICES ASSUME Nat \ T # {} PROVE FALSE
    OBVIOUS
  <1>1. PICK m \in Nat \ T : \A k \in Nat \ T : m <= k
    BY Least
  <1>2. m # 0 /\ m - 1 \in Nat
    BY <1>1
  <1>3. m - 1 \in T
    BY <1>1, <1>2
  <1>4. (m - 1) + 1 = m
    BY <1>1
  <1> QED
    BY <1>1, <1>2, <1>3, <1>4

(* A function of 0..n that is defined at each number from its value at the  *)
(* number before exists.                                                   *)
LEMMA Iterates ==
    ASSUME NEW V, NEW z \in V, NEW n \in Nat, NEW step \in [1..n -> [V -> V]]
    PROVE  \E f \in [0..n -> V] :
              f[0] = z /\ \A k \in 1..n : f[k] = step[k][f[k - 1]]
  <1> DEFINE Good(m, f) == f[0] = z /\ \A k \in 1..m : f[k] = step[k][f[k - 1]]
             T == {m \in Nat : m <= n => \E f \in [0..m -> V] : Good(m, f)}
  <1>1. 0 \in T
    <2> DEFINE f == [k \in 0..0 |-> z]
    <2>1. f \in [0..0 -> V] /\ Good(0, f)
      OBVIOUS
    <2> QED
      BY <2>1
  <1>2. ASSUME NEW m \in Nat, m \in T
        PROVE  m + 1 \in T
    <2> SUFFICES ASSUME m + 1 <= n
                 PROVE  \E f \in [0..m + 1 -> V] : Good(m + 1, f)
      OBVIOUS
    <2>1. PICK f \in [0..m -> V] : Good(m, f)
      <3>1. m <= n
        OBVIOUS
      <3> HIDE DEF Good
      <3> QED
        BY <1>2, <3>1
    <2>2. m + 1 \in 1..n /\ m \in 0..m /\ m = (m + 1) - 1
      OBVIOUS
    <2> DEFINE v == step[m + 1][f[m]]
               g == [k \in 0..m + 1 |-> IF k = m + 1 THEN v ELSE f[k]]
    <2>3. v \in V
      BY <2>1, <2>2
    <2>4. (\A k \in 0..m : g[k] = f[k]) /\ g[m + 1] = v
      OBVIOUS
    <2>5. g \in [0..m + 1 -> V]
      BY <2>1, <2>3
    <2> HIDE DEF g
    <2>6. ASSUME NEW k \in 1..m + 1
          PROVE  g[k] = step[k][g[k - 1]]
      <3>1. CASE k = m + 1
        <4>1. g[k - 1] = f[m]
          BY <2>2, <2>4, <3>1
        <4> QED
          BY <2>4, <3>1, <4>1
      <3>2. CASE k # m + 1
        <4>1. k \in 1..m /\ k \in 0..m /\ k - 1 \in 0..m
          BY <2>6, <3>2
        <4>2. g[k] = f[k] /\ g[k - 1] = f[k - 1]
          BY <2>4, <4>1
        <4> QED
          BY <2>1, <4>1, <4>2
      <3> QED
        BY <3>1, <3>2
    <2>7. g[0] = z
      BY <2>1, <2>4
    <2> QED
      BY <2>5, <2>6, <2>7
  <1>3. n \in T
    <2> HIDE DEF T
    <2> QED
      BY <1>1, <1>2, Induct
  <1> QED
    BY <1>3
-----------------------------------------------------------------------------
Unit == [from : Nat, var : Variable \cup {NoVar}, index : Nat]
Command == [program : Nat, unit : Unit]
Destructor == [program : Nat, index : Nat]

States == {"none", "parsing", "ended", "failed"}
ScopeType == [vars : Seq(Variable \cup {NoVar}), units : Seq(Unit),
              destructors : Seq(Nat), functions : SUBSET Nat, count : Nat]

(* The types of what the properties below depend on.                       *)
Types ==
    /\ program \in Seq(Owners)
    /\ compiles \in Seq([script : Seq(Statement), units : Seq(Unit)])
    /\ Len(program) = Len(compiles)
    /\ parse \in [script : Seq(Statement), next : Nat, state : States]
    /\ scope \in ScopeType
    /\ static \in [code : Seq(Command), destructors : Seq(Destructor),
                   frames : Seq(SUBSET Nat)]
    /\ fault \in Faults
    /\ suite \in BOOLEAN

(* The context is held by somebody who may hold it.                        *)
HolderIsThere ==
    /\ holder \in {TheScope, TheHost, Nobody} \cup DOMAIN program
    /\ holder \in DOMAIN program => program[holder] = "detached"

ContextIsThere ==
    /\ current \in {"none", "static", "task"}
    /\ task \in BOOLEAN
    /\ CurrentIsAlive

(* The commands of the static context are from programs of this suite, and *)
(* these were handed out.                                                  *)
CodeIsCompiled ==
    \A i \in DOMAIN static.code :
        /\ static.code[i].program \in DOMAIN program
        /\ program[static.code[i].program] # "lost"

IInv == Types /\ HolderIsThere /\ ContextIsThere /\ CodeIsCompiled
-----------------------------------------------------------------------------
(* An empty suite, with a context of its own or the host's.                *)
LEMMA InvInit == Init => IInv
  <1> SUFFICES ASSUME Init PROVE IInv
    OBVIOUS
  <1>1. Types
    BY DEF Init, Types, NoParse, States, ScopeType, Faults
  <1>2. HolderIsThere
    BY DEF Init, HolderIsThere, TheScope, TheHost
  <1>3. ContextIsThere
    <2>1. holder # Nobody
      BY DEF Init, TheScope, TheHost, Nobody
    <2>2. current = "static" /\ task = FALSE
      BY DEF Init
    <2> QED
      BY <2>1, <2>2 DEF ContextIsThere, CurrentIsAlive
  <1>4. CodeIsCompiled
    BY DEF Init, CodeIsCompiled
  <1> QED
    BY <1>1, <1>2, <1>3, <1>4 DEF IInv

(* The end of the process changes nothing else.                            *)
LEMMA CrashKeeps ==
    ASSUME IInv, NEW why \in Faults, Crash(why)
    PROVE  IInv'
  BY DEF IInv, Types, HolderIsThere, ContextIsThere, CurrentIsAlive,
         CodeIsCompiled, Crash, compiling, running

(* Parsing a statement changes the scope alone.                            *)
LEMMA ParsedToKeeps ==
    ASSUME IInv, NEW state \in States, ParsedTo(state), scope' \in ScopeType
    PROVE  IInv'
  <1>1. parse' \in [script : Seq(Statement), next : Nat, state : States]
    <2>1. /\ parse.script \in Seq(Statement) /\ parse.next + 1 \in Nat
          /\ parse = [script |-> parse.script, next |-> parse.next,
                      state |-> parse.state]
      BY DEF IInv, Types
    <2>2. parse' = [script |-> parse.script, next |-> parse.next + 1,
                    state |-> state]
      BY <2>1 DEF ParsedTo
    <2> QED
      BY <2>1, <2>2
  <1>2. Types'
    BY <1>1 DEF IInv, Types, ParsedTo
  <1>3. HolderIsThere' /\ ContextIsThere' /\ CodeIsCompiled'
    BY DEF IInv, HolderIsThere, ContextIsThere, CurrentIsAlive,
           CodeIsCompiled, ParsedTo, running
  <1> QED
    BY <1>2, <1>3 DEF IInv

LEMMA ScopeFields ==
    ASSUME NEW s \in ScopeType
    PROVE  s = [vars |-> s.vars, units |-> s.units,
                destructors |-> s.destructors, functions |-> s.functions,
                count |-> s.count]
  BY DEF ScopeType

(* What is put into the scope keeps its type.                              *)
LEMMA UnitTypes ==
    ASSUME IInv, NEW s \in ScopeType, NEW var \in Variable \cup {NoVar},
           NEW index \in Nat
    PROVE  AddUnit(s, var, index) \in ScopeType
  <1>1. Now \in Nat
    BY DEF Now, IInv, Types
  <1>2. [from |-> Now, var |-> var, index |-> index] \in Unit
    BY <1>1 DEF Unit
  <1>3. Append(s.units, [from |-> Now, var |-> var, index |-> index]) \in Seq(Unit)
    BY <1>2 DEF ScopeType
  <1> QED
    BY <1>3 DEF AddUnit, ScopeType

LEMMA ObjectTypes ==
    ASSUME IInv, NEW s \in ScopeType, NEW var \in Variable \cup {NoVar}
    PROVE  AddObject(s, var) \in ScopeType
  <1> DEFINE u == AddUnit(s, var, s.count)
  <1>1. s.count \in Nat /\ s.destructors \in Seq(Nat)
    BY DEF ScopeType
  <1>2. u \in ScopeType
    BY <1>1, UnitTypes
  <1>3. u.destructors = s.destructors /\ u.count = s.count
    BY DEF AddUnit, ScopeType
  <1>4. /\ u.vars \in Seq(Variable \cup {NoVar}) /\ u.units \in Seq(Unit)
        /\ u.functions \in SUBSET Nat
    BY <1>2 DEF ScopeType
  <1>5. AddObject(s, var) = [u EXCEPT !.destructors = <<s.count>> \o s.destructors,
                                      !.count = s.count + 1]
    BY <1>3 DEF AddObject
  <1>6. <<s.count>> \o s.destructors \in Seq(Nat) /\ s.count + 1 \in Nat
    BY <1>1
  <1> HIDE DEF u
  <1>7. u = [vars |-> u.vars, units |-> u.units, destructors |-> u.destructors,
             functions |-> u.functions, count |-> u.count]
    BY <1>2, ScopeFields
  <1>8. AddObject(s, var) =
            [vars |-> u.vars, units |-> u.units,
             destructors |-> <<s.count>> \o s.destructors,
             functions |-> u.functions, count |-> s.count + 1]
    BY <1>5, <1>7
  <1> QED
    BY <1>4, <1>6, <1>8 DEF ScopeType

LEMMA VariableTypes ==
    ASSUME NEW s \in ScopeType, NEW var \in Variable \cup {NoVar}
    PROVE  AddVariable(s, var) \in ScopeType
  <1>1. Append(s.vars, var) \in Seq(Variable \cup {NoVar})
    BY DEF ScopeType
  <1>2. AddVariable(s, var) =
            [vars |-> Append(s.vars, var), units |-> s.units,
             destructors |-> s.destructors, functions |-> s.functions,
             count |-> s.count]
    BY ScopeFields DEF AddVariable
  <1> QED
    BY <1>1, <1>2 DEF ScopeType

LEMMA FunctionTypes ==
    ASSUME NEW s \in ScopeType, NEW k \in Nat
    PROVE  AddFunction(s, k) \in ScopeType
  BY DEF AddFunction, ScopeType
-----------------------------------------------------------------------------
(* The statement that is parsed is one of a script.                        *)
LEMMA StatementTypes ==
    ASSUME IInv, NEW do, AtStatement(do)
    PROVE  TheStatement \in Statement /\ TheStatement.var \in Variable \cup {NoVar}
  <1>1. parse.script \in Seq(Statement) /\ parse.next \in DOMAIN parse.script
    BY DEF IInv, Types, AtStatement
  <1>2. parse.script[parse.next] \in Statement
    BY <1>1
  <1> QED
    BY <1>2 DEF TheStatement, Statement

LEMMA ParseExpressionKeeps ==
    ASSUME IInv, NEW s \in ScopeType, ParseExpression(s)
    PROVE  IInv'
  <1>1. CASE TheStatement.fails
    <2>1. scope' \in ScopeType /\ ParsedTo("failed")
      BY <1>1 DEF ParseExpression
    <2> QED
      BY <2>1, ParsedToKeeps DEF States
  <1>2. CASE ~ TheStatement.fails
    <2>1. scope' = AddUnit(s, NoVar, 0) /\ ParsedTo("parsing")
      BY <1>2 DEF ParseExpression
    <2>2. scope' \in ScopeType
      BY <2>1, UnitTypes
    <2> QED
      BY <2>1, <2>2, ParsedToKeeps DEF States
  <1> QED
    BY <1>1, <1>2

(* Every statement keeps the invariant, whatever becomes of it.            *)
LEMMA ParseKeeps ==
    ASSUME IInv,
           \/ ParseDeclaration \/ ParseDefinition \/ ParseCall \/ ParseFunction
           \/ ParseCast
    PROVE  IInv'
  <1> DEFINE var == TheStatement.var
  <1>1. scope \in ScopeType
    BY DEF IInv, Types
  <1>2. Now \in Nat /\ NoFunction \in Nat
    BY DEF Now, NoFunction, IInv, Types
  <1>3. ASSUME var \in Variable \cup {NoVar}
        PROVE  /\ AddVariable(scope, var) \in ScopeType
               /\ AddObject(AddVariable(scope, var), var) \in ScopeType
    BY <1>1, <1>3, VariableTypes, ObjectTypes
  <1>4. CASE ParseDeclaration
    <2>1. var \in Variable \cup {NoVar}
      BY <1>4, StatementTypes DEF ParseDeclaration
    <2>2. \/ scope' = scope /\ ParsedTo("ended")
          \/ scope' = AddVariable(scope, var) /\ ParsedTo("failed")
          \/ /\ scope' = AddObject(AddVariable(scope, var), var)
             /\ ParsedTo("parsing")
      BY <1>4 DEF ParseDeclaration
    <2>3. scope' \in ScopeType
      BY <1>1, <1>3, <2>1, <2>2
    <2> QED
      BY <2>2, <2>3, ParsedToKeeps DEF States
  <1>5. CASE ParseDefinition
    <2>1. var \in Variable \cup {NoVar}
      BY <1>5, StatementTypes DEF ParseDefinition
    <2>2. \/ scope' = scope /\ ParsedTo("failed")
          \/ scope' = AddVariable(scope, var) /\ ParsedTo("failed")
          \/ /\ scope' = AddObject(AddVariable(scope, var), var)
             /\ ParsedTo("parsing")
      BY <1>5 DEF ParseDefinition
    <2>3. scope' \in ScopeType
      BY <1>1, <1>3, <2>1, <2>2
    <2> QED
      BY <2>2, <2>3, ParsedToKeeps DEF States
  <1>6. CASE ParseCall
    BY <1>1, <1>6, ParseExpressionKeeps DEF ParseCall
  <1>7. CASE ParseFunction
    <2>1. scope' \in ScopeType
      BY <1>1, <1>2, <1>7, FunctionTypes DEF ParseFunction
    <2>2. ParsedTo("failed") \/ ParsedTo("parsing")
      BY <1>7 DEF ParseFunction
    <2> QED
      BY <2>1, <2>2, ParsedToKeeps DEF States
  <1>8. CASE ParseCast
    <2>1. AddFunction(scope, NoFunction) \in ScopeType
      BY <1>1, <1>2, FunctionTypes
    <2> QED
      BY <1>8, <2>1, ParseExpressionKeeps DEF ParseCast
  <1> QED
    BY <1>4, <1>5, <1>6, <1>7, <1>8

-----------------------------------------------------------------------------
(* A compilation that ends leaves the programs before it as they are.      *)
LEMMA CompiledAdds ==
    ASSUME IInv, NEW owner \in Owners, Compiled(owner)
    PROVE  /\ program' \in Seq(Owners)
           /\ compiles' \in Seq([script : Seq(Statement), units : Seq(Unit)])
           /\ Len(program') = Len(compiles')
           /\ parse' \in [script : Seq(Statement), next : Nat, state : States]
           /\ Now \in DOMAIN program' /\ Now \in Nat
           /\ program'[Now] = owner
           /\ \A p \in DOMAIN program :
                  p \in DOMAIN program' /\ program'[p] = program[p]
           /\ DOMAIN program' = DOMAIN program \cup {Now}
  <1>1. /\ program \in Seq(Owners)
        /\ compiles \in Seq([script : Seq(Statement), units : Seq(Unit)])
        /\ Len(program) = Len(compiles) /\ Now = Len(program) + 1
    BY DEF IInv, Types, Now
  <1>2. [script |-> parse.script, units |-> scope.units]
            \in [script : Seq(Statement), units : Seq(Unit)]
    BY DEF IInv, Types, ScopeType
  <1>3. /\ program' = Append(program, owner)
        /\ compiles' = Append(compiles, [script |-> parse.script,
                                         units |-> scope.units])
        /\ parse' = NoParse
    BY DEF Compiled
  <1>4. parse' \in [script : Seq(Statement), next : Nat, state : States]
    BY <1>3 DEF NoParse, States
  <1>5. /\ compiles' \in Seq([script : Seq(Statement), units : Seq(Unit)])
        /\ Len(compiles') = Len(compiles) + 1
    BY <1>1, <1>2, <1>3
  <1>6. /\ program' \in Seq(Owners) /\ Len(program') = Len(program) + 1
        /\ program'[Now] = owner
        /\ \A p \in DOMAIN program :
               p \in DOMAIN program' /\ program'[p] = program[p]
    BY <1>1, <1>3
  <1>7. DOMAIN program' = DOMAIN program \cup {Now}
    BY <1>1, <1>6
  <1> QED
    BY <1>1, <1>4, <1>5, <1>6, <1>7

(* The holder holds the context after a compilation as before.             *)
LEMMA CompiledKeepsHolder ==
    ASSUME IInv, NEW owner \in Owners, Compiled(owner), holder' = holder
    PROVE  HolderIsThere'
  <1>1. CASE holder \in {TheScope, TheHost, Nobody}
    <2>1. holder \notin DOMAIN program'
      BY <1>1, CompiledAdds DEF TheScope, TheHost, Nobody
    <2> QED
      BY <1>1, <2>1 DEF HolderIsThere
  <1>2. CASE holder \in DOMAIN program
    BY <1>2, CompiledAdds DEF IInv, HolderIsThere
  <1> QED
    BY <1>1, <1>2 DEF IInv, HolderIsThere

(* What is put into the static context is the program that is compiled.    *)
LEMMA CommandsAdded ==
    ASSUME IInv
    PROVE  /\ AddCommands \in [code : Seq(Command),
                               destructors : Seq(Destructor),
                               frames : Seq(SUBSET Nat)]
           /\ \A i \in DOMAIN AddCommands.code :
                  \/ /\ i \in DOMAIN static.code
                     /\ AddCommands.code[i] = static.code[i]
                  \/ AddCommands.code[i].program = Now
  <1> DEFINE code == [i \in DOMAIN scope.units |->
                         [program |-> Now, unit |-> scope.units[i]]]
             des == [i \in DOMAIN scope.destructors |->
                        [program |-> Now, index |-> scope.destructors[i]]]
  <1>1. /\ scope.units \in Seq(Unit) /\ scope.destructors \in Seq(Nat)
        /\ Now \in Nat
        /\ static.code \in Seq(Command)
        /\ static.destructors \in Seq(Destructor)
        /\ static.frames \in Seq(SUBSET Nat)
        /\ static = [code |-> static.code, destructors |-> static.destructors,
                     frames |-> static.frames]
    BY DEF IInv, Types, ScopeType, Now
  <1>2. /\ code \in Seq(Command) /\ Len(code) = Len(scope.units)
        /\ \A i \in DOMAIN code : code[i].program = Now
    <2>1. \A i \in DOMAIN scope.units :
              [program |-> Now, unit |-> scope.units[i]] \in Command
      BY <1>1 DEF Command
    <2>2. DOMAIN scope.units = 1 .. Len(scope.units) /\ Len(scope.units) \in Nat
      BY <1>1
    <2> QED
      BY <2>1, <2>2
  <1>3. des \in Seq(Destructor)
    <2>1. \A i \in DOMAIN scope.destructors :
              [program |-> Now, index |-> scope.destructors[i]] \in Destructor
      BY <1>1 DEF Destructor
    <2>2. /\ DOMAIN scope.destructors = 1 .. Len(scope.destructors)
          /\ Len(scope.destructors) \in Nat
      BY <1>1
    <2> QED
      BY <2>1, <2>2
  <1>4. AddCommands = [static EXCEPT !.code = static.code \o code,
                                     !.destructors = static.destructors \o des]
    BY DEF AddCommands
  <1> HIDE DEF code, des
  <1>5. AddCommands = [code |-> static.code \o code,
                       destructors |-> static.destructors \o des,
                       frames |-> static.frames]
    BY <1>1, <1>4
  <1>6. /\ static.code \o code \in Seq(Command)
        /\ static.destructors \o des \in Seq(Destructor)
    BY <1>1, <1>2, <1>3
  <1>7. \A i \in DOMAIN (static.code \o code) :
            \/ i \in DOMAIN static.code /\ (static.code \o code)[i] = static.code[i]
            \/ i - Len(static.code) \in DOMAIN code /\
               (static.code \o code)[i] = code[i - Len(static.code)]
    BY <1>1, <1>2
  <1> QED
    BY <1>1, <1>2, <1>5, <1>6, <1>7
-----------------------------------------------------------------------------
(* A compilation: started, given up, extracted.                            *)
LEMMA CompilationKeeps ==
    ASSUME IInv,
           \/ \E script \in Scripts : Compile(script)
           \/ GiveUp \/ ExtractCode \/ CompileLambda
    PROVE  IInv'
  <1>1. ASSUME NEW script \in Scripts, Compile(script)
        PROVE  IInv'
    <2>1. script \in Seq(Statement)
      BY ScriptsAssumption
    <2>2. parse' \in [script : Seq(Statement), next : Nat, state : States]
      BY <1>1, <2>1 DEF Compile, States
    <2>3. Types'
      BY <1>1, <2>2 DEF IInv, Types, Compile
    <2>4. HolderIsThere' /\ ContextIsThere' /\ CodeIsCompiled'
      BY <1>1 DEF IInv, HolderIsThere, ContextIsThere, CurrentIsAlive,
                  CodeIsCompiled, Compile, running
    <2> QED
      BY <2>3, <2>4 DEF IInv
  <1>2. CASE GiveUp
    <2>1. Compiled("lost") /\ "lost" \in Owners
      BY <1>2 DEF GiveUp, Owners
    <2>2. Types'
      BY <1>2, <2>1, CompiledAdds DEF IInv, Types, GiveUp
    <2>3. HolderIsThere'
      BY <1>2, <2>1, CompiledKeepsHolder DEF GiveUp
    <2>4. ContextIsThere'
      BY <1>2 DEF IInv, ContextIsThere, CurrentIsAlive, GiveUp, running
    <2>5. CodeIsCompiled'
      BY <1>2, <2>1, CompiledAdds DEF IInv, CodeIsCompiled, GiveUp
    <2> QED
      BY <2>2, <2>3, <2>4, <2>5 DEF IInv
  <1>3. CASE ExtractCode
    <2>1. CASE Crash("nullCode")
      BY <2>1, CrashKeeps DEF Faults
    <2>2. CASE ~ Crash("nullCode")
      <3>1. /\ Compiled("host") /\ "host" \in Owners
            /\ static' = static \/ static' = AddCommands
            /\ UNCHANGED <<scope, holder, suite, running, fault>>
        BY <1>3, <2>2 DEF ExtractCode, Owners
      <3>2. static' \in [code : Seq(Command), destructors : Seq(Destructor),
                         frames : Seq(SUBSET Nat)]
        BY <3>1, CommandsAdded DEF IInv, Types
      <3>3. Types'
        BY <3>1, <3>2, CompiledAdds DEF IInv, Types
      <3>4. HolderIsThere'
        BY <3>1, CompiledKeepsHolder
      <3>5. ContextIsThere'
        BY <3>1 DEF IInv, ContextIsThere, CurrentIsAlive, running
      <3>6. CodeIsCompiled'
        <4>1. ASSUME NEW i \in DOMAIN static'.code
              PROVE  \/ i \in DOMAIN static.code /\ static'.code[i] = static.code[i]
                     \/ static'.code[i].program = Now
          BY <3>1, <4>1, CommandsAdded
        <4>2. Now \in DOMAIN program' /\ program'[Now] # "lost"
          BY <3>1, CompiledAdds
        <4>3. ASSUME NEW i \in DOMAIN static.code
              PROVE  /\ static.code[i].program \in DOMAIN program'
                     /\ program'[static.code[i].program] # "lost"
          BY <3>1, <4>3, CompiledAdds DEF IInv, CodeIsCompiled
        <4> QED
          BY <4>1, <4>2, <4>3 DEF CodeIsCompiled
      <3> QED
        BY <3>3, <3>4, <3>5, <3>6 DEF IInv
    <2> QED
      BY <2>1, <2>2
  <1>4. CASE CompileLambda
    <2>1. CASE \E why \in Faults : Crash(why)
      BY <2>1, CrashKeeps
    <2>2. CASE ~ \E why \in Faults : Crash(why)
      <3>1. /\ scope' = AddFunction(scope, Len(compiles))
            /\ UNCHANGED <<compiles, parse, program, holder, static, suite,
                           running, fault>>
        BY <1>4, <2>2 DEF CompileLambda, Faults
      <3>2. scope' \in ScopeType
        BY <3>1, FunctionTypes DEF IInv, Types
      <3>3. Types'
        BY <3>1, <3>2 DEF IInv, Types
      <3>4. HolderIsThere' /\ ContextIsThere' /\ CodeIsCompiled'
        BY <3>1 DEF IInv, HolderIsThere, ContextIsThere, CurrentIsAlive,
                    CodeIsCompiled, running
      <3> QED
        BY <3>3, <3>4 DEF IInv
    <2> QED
      BY <2>1, <2>2
  <1> QED
    BY <1>1, <1>2, <1>3, <1>4

-----------------------------------------------------------------------------
(* What the host does with a program and with the suite.                   *)
LEMMA HostKeeps ==
    ASSUME IInv,
           \/ \E p \in DOMAIN program :
                  \/ DetachScriptProgram(p) \/ DeleteProgram(p)
                  \/ DeleteLamdaProg(p)
           \/ DestroySuite
    PROVE  IInv'
  <1>0. /\ program \in Seq(Owners)
        /\ DOMAIN program = 1 .. Len(program) /\ Len(program) \in Nat
    BY DEF IInv, Types
  <1>1. ASSUME NEW p \in DOMAIN program, DetachScriptProgram(p)
        PROVE  IInv'
    <2>1. CASE holder = TheScope
      <3>1. /\ holder' = p /\ program' = [program EXCEPT ![p] = "detached"]
            /\ UNCHANGED <<compiling, static, suite, running, fault>>
        BY <1>1, <2>1 DEF DetachScriptProgram
      <3>2. program' \in Seq(Owners) /\ Len(program') = Len(program)
        BY <1>0, <3>1 DEF Owners
      <3>3. Types'
        BY <3>1, <3>2 DEF IInv, Types, compiling
      <3>4. HolderIsThere'
        BY <1>0, <3>1 DEF HolderIsThere
      <3>5. ContextIsThere'
        BY <1>0, <3>1 DEF IInv, ContextIsThere, CurrentIsAlive, running, Nobody
      <3>6. CodeIsCompiled'
        BY <1>0, <3>1 DEF IInv, CodeIsCompiled
      <3> QED
        BY <3>3, <3>4, <3>5, <3>6 DEF IInv
    <2>2. CASE holder # TheScope
      BY <1>1, <2>2 DEF DetachScriptProgram, IInv, Types, HolderIsThere,
                        ContextIsThere, CurrentIsAlive, CodeIsCompiled,
                        compiling, running
    <2> QED
      BY <2>1, <2>2
  <1>2. ASSUME NEW p \in DOMAIN program, DeleteProgram(p)
        PROVE  IInv'
    <2>1. /\ program[p] = "host"
          /\ program' = [program EXCEPT ![p] = "deleted"]
          /\ UNCHANGED <<compiling, holder, static, suite, running, fault>>
      BY <1>2 DEF DeleteProgram
    <2>2. program' \in Seq(Owners) /\ Len(program') = Len(program)
      BY <1>0, <2>1 DEF Owners
    <2>3. Types'
      BY <2>1, <2>2 DEF IInv, Types, compiling
    <2>4. HolderIsThere'
      BY <1>0, <2>1 DEF IInv, HolderIsThere
    <2>5. ContextIsThere'
      BY <2>1 DEF IInv, ContextIsThere, CurrentIsAlive, running
    <2>6. CodeIsCompiled'
      BY <1>0, <2>1 DEF IInv, CodeIsCompiled
    <2> QED
      BY <2>3, <2>4, <2>5, <2>6 DEF IInv
  <1>3. ASSUME NEW p \in DOMAIN program, DeleteLamdaProg(p)
        PROVE  IInv'
    <2>1. /\ program[p] = "detached"
          /\ program' = [program EXCEPT ![p] = "deleted"]
          /\ holder' = Nobody /\ current' = "none" /\ task' = task
          /\ UNCHANGED <<compiling, static, suite, fault>>
      BY <1>3 DEF DeleteLamdaProg, DeleteStaticContext
    <2>2. program' \in Seq(Owners) /\ Len(program') = Len(program)
      BY <1>0, <2>1 DEF Owners
    <2>3. Types'
      BY <2>1, <2>2 DEF IInv, Types, compiling
    <2>4. HolderIsThere'
      BY <1>0, <2>1 DEF HolderIsThere, Nobody
    <2>5. ContextIsThere'
      BY <2>1 DEF IInv, ContextIsThere, CurrentIsAlive
    <2>6. CodeIsCompiled'
      BY <1>0, <2>1 DEF IInv, CodeIsCompiled
    <2> QED
      BY <2>3, <2>4, <2>5, <2>6 DEF IInv
  <1>4. CASE DestroySuite
    <2>1. /\ suite' = FALSE /\ task' = task
          /\ UNCHANGED <<compiling, program, static, fault>>
          /\ \/ holder' = Nobody /\ current' = "none"
             \/ holder' = holder /\ current' = current
      BY <1>4 DEF DestroySuite, DeleteStaticContext
    <2>2. Types'
      BY <2>1 DEF IInv, Types, compiling
    <2>3. HolderIsThere'
      BY <1>0, <2>1 DEF IInv, HolderIsThere, Nobody
    <2>4. ContextIsThere'
      BY <2>1 DEF IInv, ContextIsThere, CurrentIsAlive
    <2>5. CodeIsCompiled'
      BY <2>1 DEF IInv, CodeIsCompiled
    <2> QED
      BY <2>2, <2>3, <2>4, <2>5 DEF IInv
  <1> QED
    BY <1>1, <1>2, <1>3, <1>4

-----------------------------------------------------------------------------
(* A run that ends, in whichever way, and its cleanup change what is in the *)
(* static context but not the commands.                                    *)
LEMMA RunKeeps ==
    ASSUME IInv, static'.code = static.code,
           static' \in [code : Seq(Command), destructors : Seq(Destructor),
                        frames : Seq(SUBSET Nat)],
           current' = current \/ (current' = "static" /\ holder # Nobody),
           UNCHANGED <<compiling, program, holder, suite, task, fault>>
    PROVE  IInv'
  <1>1. Types'
    BY DEF IInv, Types, compiling
  <1>2. HolderIsThere'
    BY DEF IInv, HolderIsThere
  <1>3. ContextIsThere'
    BY DEF IInv, ContextIsThere, CurrentIsAlive
  <1>4. CodeIsCompiled'
    BY DEF IInv, CodeIsCompiled
  <1> QED
    BY <1>1, <1>2, <1>3, <1>4 DEF IInv

LEMMA GlobalCodeKeeps ==
    ASSUME IInv, NEW who \in {TheScope} \cup DOMAIN program,
           RunGlobalCode(who) \/ CleanupGlobalMemory(who)
    PROVE  IInv'
  <1>1. /\ static.code \in Seq(Command)
        /\ static.destructors \in Seq(Destructor)
        /\ static.frames \in Seq(SUBSET Nat)
        /\ static = [code |-> static.code, destructors |-> static.destructors,
                     frames |-> static.frames]
    BY DEF IInv, Types
  <1>2. CASE \E why \in Faults : Crash(why)
    BY <1>2, CrashKeeps
  <1>3. CASE RunGlobalCode(who) /\ ~ \E why \in Faults : Crash(why)
    <2>1. HasContext(who)
      BY <1>3 DEF RunGlobalCode, Faults
    <2>2. holder # Nobody
      BY <2>1 DEF HasContext, IInv, Types, TheScope, TheHost, Nobody
    <2>3. PICK done \in 0 .. Len(static.code) :
              /\ RunCommands(done)
              /\ UNCHANGED <<compiling, program, holder, suite, task,
                             destroyed, fault>>
      BY <1>3, <2>1 DEF RunGlobalCode, Faults
    <2>4. Built(done) \in SUBSET Nat
      <3>1. \A i \in 1 .. done : static.code[i] \in Command
        BY <1>1
      <3> QED
        BY <3>1 DEF Built, Command, Unit
    <2>5. static' = [code |-> static.code, destructors |-> static.destructors,
                     frames |-> Append(static.frames, Built(done))]
      BY <1>1, <2>3 DEF RunCommands
    <2>6. Append(static.frames, Built(done)) \in Seq(SUBSET Nat)
      BY <1>1, <2>4
    <2>7. current' = current \/ current' = "static"
      BY <2>3 DEF RunCommands
    <2> QED
      BY <1>1, <2>2, <2>3, <2>5, <2>6, <2>7, RunKeeps
  <1>4. CASE CleanupGlobalMemory(who) /\ ~ \E why \in Faults : Crash(why)
    <2>1. /\ static.frames # <<>>
          /\ static' = [static EXCEPT !.frames = Front(@)]
          /\ UNCHANGED <<compiling, program, holder, suite, current, task,
                         fault>>
      BY <1>4 DEF CleanupGlobalMemory, Faults
    <2>2. Front(static.frames) \in Seq(SUBSET Nat)
      <3>1. Len(static.frames) \in Nat \ {0}
        BY <1>1, <2>1
      <3> QED
        BY <1>1, <3>1 DEF Front
    <2>3. static' = [code |-> static.code, destructors |-> static.destructors,
                     frames |-> Front(static.frames)]
      BY <1>1, <2>1
    <2> QED
      BY <1>1, <2>1, <2>2, <2>3, RunKeeps
  <1> QED
    BY <1>2, <1>3, <1>4

\* Tasks, and functions that are run without one.
LEMMA TaskKeeps ==
    ASSUME IInv,
           \/ \E p \in DOMAIN program : RunTask(p) \/ RunFunction(p)
           \/ DeleteTask
    PROVE  IInv'
  <1>1. CASE \E p \in DOMAIN program : RunFunction(p)
    <2>1. Crash("nullContext")
      BY <1>1 DEF RunFunction
    <2> QED
      BY <2>1, CrashKeeps DEF Faults
  <1>2. CASE \E p \in DOMAIN program : RunTask(p)
    <2>1. /\ task' = TRUE /\ current' = "task"
          /\ UNCHANGED <<compiling, program, holder, static, suite, fault>>
      BY <1>2 DEF RunTask
    <2>2. ContextIsThere'
      BY <2>1 DEF ContextIsThere, CurrentIsAlive
    <2> QED
      BY <2>1, <2>2 DEF IInv, Types, HolderIsThere, CodeIsCompiled, compiling
  <1>3. CASE DeleteTask
    <2>1. /\ task' = FALSE /\ current' = "none"
          /\ UNCHANGED <<compiling, program, holder, static, suite, fault>>
      BY <1>3 DEF DeleteTask
    <2>2. ContextIsThere'
      BY <2>1 DEF ContextIsThere, CurrentIsAlive
    <2> QED
      BY <2>1, <2>2 DEF IInv, Types, HolderIsThere, CodeIsCompiled, compiling
  <1> QED
    BY <1>1, <1>2, <1>3

-----------------------------------------------------------------------------
(* Every step keeps the invariant.                                         *)
LEMMA InvNext == IInv /\ [Next]_vars => IInv'
  <1> SUFFICES ASSUME IInv, [Next]_vars PROVE IInv'
    OBVIOUS
  <1>1. CASE UNCHANGED vars
    BY <1>1 DEF IInv, Types, HolderIsThere, ContextIsThere, CurrentIsAlive,
                CodeIsCompiled, vars, compiling, running
  <1>2. CASE Next
    <2>1. CASE \/ \E script \in Scripts : Compile(script)
               \/ GiveUp \/ ExtractCode \/ CompileLambda
      BY <2>1, CompilationKeeps
    <2>2. CASE \/ ParseDeclaration \/ ParseDefinition \/ ParseCall
               \/ ParseFunction \/ ParseCast
      BY <2>2, ParseKeeps
    <2>3. CASE \/ \E p \in DOMAIN program :
                      \/ DetachScriptProgram(p) \/ DeleteProgram(p)
                      \/ DeleteLamdaProg(p)
               \/ DestroySuite
      BY <2>3, HostKeeps
    <2>4. CASE \E who \in {TheScope} \cup DOMAIN program :
                   RunGlobalCode(who) \/ CleanupGlobalMemory(who)
      BY <2>4, GlobalCodeKeeps
    <2>5. CASE \/ \E p \in DOMAIN program : RunTask(p) \/ RunFunction(p)
               \/ DeleteTask
      BY <2>5, TaskKeeps
    <2> QED
      BY <1>2, <2>1, <2>2, <2>3, <2>4, <2>5 DEF Next
  <1> QED
    BY <1>1, <1>2

LEMMA InvHolds == Spec => []IInv
  BY InvInit, InvNext, PTL DEF Spec

(* The state has its types, and a context that is held by a program is held *)
(* by a detached one.                                                      *)
THEOREM TypeCorrect == Spec => []TypeOK
  <1>1. IInv => TypeOK
    <2> SUFFICES ASSUME IInv PROVE TypeOK
      OBVIOUS
    <2>1. Range(program) \subseteq Owners
      BY DEF IInv, Types, Range
    <2> QED
      BY <2>1 DEF IInv, Types, HolderIsThere, ContextIsThere, TypeOK
  <1> QED
    BY <1>1, InvHolds, PTL

(* Whatever was compiled before and failed, the static context holds        *)
(* commands of programs that were handed to the host only: compileProgram   *)
(* returns before extractCode when parse has failed.                       *)
THEOREM OnlyCompiledCodeIsRun == Spec => []OnlyCompiledCodeRuns
  <1>1. IInv => OnlyCompiledCodeRuns
    BY DEF IInv, CodeIsCompiled, OnlyCompiledCodeRuns
  <1> QED
    BY <1>1, InvHolds, PTL

(* However runs, tasks, programs and the suite end, the thread's current    *)
(* context is one that exists: each destructor of a context takes it from   *)
(* the thread.                                                             *)
THEOREM CurrentStaysAlive == Spec => []CurrentIsAlive
  <1>1. IInv => CurrentIsAlive
    BY DEF IInv, ContextIsThere
  <1> QED
    BY <1>1, InvHolds, PTL
-----------------------------------------------------------------------------
(* The first program of a suite: the units of the scope are those of the    *)
(* statements up to the one that is parsed next.                            *)
Upto(script, n) == {i \in Commands(script) : i =< n}
VarOf(statement) ==
    IF statement.do \in {"call", "cast"} THEN NoVar ELSE statement.var
Laid(units, script, n) ==
    /\ Len(units) = Cardinality(Upto(script, n))
    /\ \A i \in Upto(script, n) :
          /\ units[Place(script, i)].from = 1
          /\ units[Place(script, i)].var = VarOf(script[i])
Declared(script, n) ==
    {script[i].var : i \in {j \in 1 .. n : script[j].do \in {"declare", "define"}}}

FirstIsParsed ==
    compiles = <<>> =>
        /\ parse.state = "none" => scope.units = <<>> /\ scope.vars = <<>>
        /\ parse.state = "parsing" /\ Distinct(parse.script) =>
              /\ parse.next \in 1 .. Len(parse.script) + 1
              /\ Laid(scope.units, parse.script, parse.next - 1)
              /\ \A k \in DOMAIN scope.vars :
                    scope.vars[k] \in Declared(parse.script, parse.next - 1)
        /\ parse.state = "ended" => ~ Distinct(parse.script)

FirstIsLaid == FirstIsParsed /\ FirstProgramIsItsScript

(* The places of the commands of a script count them.                      *)
LEMMA PlacesCount ==
    ASSUME NEW script \in Seq(Statement), NEW n \in Nat
    PROVE  /\ IsFiniteSet(Upto(script, n)) /\ Cardinality(Upto(script, n)) \in Nat
           /\ \A i \in Upto(script, n) : Place(script, i) \in 1 .. Cardinality(Upto(script, n))
  <1>1. DOMAIN script = 1 .. Len(script) /\ Len(script) \in Nat
    OBVIOUS
  <1>2. IsFiniteSet(Commands(script))
    <2>1. Commands(script) \subseteq 1 .. Len(script) /\ IsFiniteSet(1 .. Len(script))
      BY <1>1, FS_Interval DEF Commands
    <2> QED
      BY <2>1, FS_Subset
  <1>3. \A k : IsFiniteSet(Upto(script, k)) /\ Cardinality(Upto(script, k)) \in Nat
    <2>1. \A k : Upto(script, k) \subseteq Commands(script)
      BY DEF Upto
    <2>2. \A k : IsFiniteSet(Upto(script, k))
      BY <1>2, <2>1, FS_Subset
    <2> QED
      BY <2>2, FS_CardinalityType
  <1>4. ASSUME NEW i \in Upto(script, n)
        PROVE  Place(script, i) \in 1 .. Cardinality(Upto(script, n))
    <2>1. Place(script, i) = Cardinality(Upto(script, i))
      BY DEF Place, Upto
    <2>2. i \in Upto(script, i) /\ Upto(script, i) \subseteq Upto(script, n)
      BY <1>1 DEF Upto, Commands
    <2>3. Cardinality(Upto(script, i)) =< Cardinality(Upto(script, n))
      BY <1>3, <2>2, FS_Subset
    <2>4. Cardinality(Upto(script, i)) # 0
      BY <1>3, <2>2, FS_EmptySet
    <2> QED
      BY <1>3, <2>1, <2>3, <2>4
  <1> QED
    BY <1>3, <1>4

(* A function leaves no command, every other statement leaves the next one. *)
LEMMA NoneLaid ==
    ASSUME NEW script \in Seq(Statement), NEW n \in Nat, n + 1 \in DOMAIN script,
           script[n + 1].do = "function", NEW units, Laid(units, script, n)
    PROVE  Laid(units, script, n + 1)
  <1>1. Upto(script, n + 1) = Upto(script, n)
    BY DEF Upto, Commands
  <1> QED
    BY <1>1 DEF Laid

LEMMA OneLaid ==
    ASSUME NEW script \in Seq(Statement), NEW n \in Nat, n + 1 \in DOMAIN script,
           script[n + 1].do # "function", NEW units \in Seq(Unit),
           Laid(units, script, n), NEW unit \in Unit, unit.from = 1,
           unit.var = VarOf(script[n + 1])
    PROVE  Laid(Append(units, unit), script, n + 1)
  <1> DEFINE m == Cardinality(Upto(script, n))
             more == Append(units, unit)
  <1>1. /\ IsFiniteSet(Upto(script, n)) /\ m \in Nat /\ Len(units) = m
        /\ \A i \in Upto(script, n) : Place(script, i) \in 1 .. m
    BY PlacesCount DEF Laid
  <1>2. Upto(script, n + 1) = Upto(script, n) \cup {n + 1} /\ n + 1 \notin Upto(script, n)
    BY DEF Upto, Commands
  <1>3. Cardinality(Upto(script, n + 1)) = m + 1
    BY <1>1, <1>2, FS_AddElement
  <1>4. Place(script, n + 1) = m + 1
    BY <1>3 DEF Place, Upto
  <1>5. /\ Len(more) = m + 1 /\ more[m + 1] = unit
        /\ \A k \in 1 .. m : more[k] = units[k]
    BY <1>1
  <1> HIDE DEF m, more
  <1>6. ASSUME NEW i \in Upto(script, n + 1)
        PROVE  /\ more[Place(script, i)].from = 1
               /\ more[Place(script, i)].var = VarOf(script[i])
    <2>1. CASE i = n + 1
      BY <1>4, <1>5, <2>1
    <2>2. CASE i \in Upto(script, n)
      BY <1>1, <1>5, <2>2 DEF Laid
    <2> QED
      BY <1>2, <2>1, <2>2
  <1> QED
    BY <1>3, <1>5, <1>6 DEF Laid, more

(* The whole script is laid out when its last statement is.                *)
LEMMA AllLaid ==
    ASSUME NEW script \in Seq(Statement), NEW units, Laid(units, script, Len(script))
    PROVE  /\ Len(units) = Cardinality(Commands(script))
           /\ \A i \in Commands(script) :
                 /\ units[Place(script, i)].from = 1
                 /\ units[Place(script, i)].var = VarOf(script[i])
  <1>1. Upto(script, Len(script)) = Commands(script)
    BY DEF Upto, Commands
  <1> QED
    BY <1>1 DEF Laid
-----------------------------------------------------------------------------
(* What the statement has become when it is behind the parser: a unit of    *)
(* the scope, or none for a function, and for a declaration a variable.     *)
LEMMA FirstIsParsedOn ==
    ASSUME IInv, FirstIsLaid, NEW do, AtStatement(do), ParsedTo("parsing"),
           compiles = <<>>, Distinct(parse.script),
           do = "function" => scope'.units = scope.units,
           do # "function" =>
               \E unit \in Unit : /\ scope'.units = Append(scope.units, unit)
                                  /\ unit.from = 1 /\ unit.var = VarOf(TheStatement),
           \/ scope'.vars = scope.vars
           \/ do \in {"declare", "define"} /\ scope'.vars = Append(scope.vars, TheStatement.var)
    PROVE  FirstIsLaid'
  <1> DEFINE n == parse.next - 1
             script == parse.script
  <1>1. /\ parse.script \in Seq(Statement) /\ parse.next \in Nat
        /\ parse.next \in 1 .. Len(parse.script) /\ Len(parse.script) \in Nat
        /\ parse.state = "parsing" /\ script[n + 1].do = do /\ n \in Nat
        /\ n + 1 = parse.next /\ TheStatement = script[n + 1]
        /\ n + 1 \in DOMAIN script
        /\ scope.units \in Seq(Unit) /\ scope.vars \in Seq(Variable \cup {NoVar})
    BY DEF IInv, Types, AtStatement, TheStatement, ScopeType
  <1>2. /\ parse'.script = script /\ parse'.next = n + 2 /\ parse'.state = "parsing"
        /\ compiles' = <<>>
    <2>1. parse = [script |-> parse.script, next |-> parse.next, state |-> parse.state]
      BY DEF IInv, Types
    <2> QED
      BY <1>1, <2>1 DEF ParsedTo
  <1>3. Laid(scope.units, script, n)
        /\ \A k \in DOMAIN scope.vars : scope.vars[k] \in Declared(script, n)
    BY <1>1 DEF FirstIsLaid, FirstIsParsed
  <1>4. Laid(scope'.units, script, n + 1)
    <2>1. CASE do = "function"
      BY <1>1, <1>3, <2>1, NoneLaid
    <2>2. CASE do # "function"
      BY <1>1, <1>3, <2>2, OneLaid
    <2> QED
      BY <2>1, <2>2
  <1>5. ASSUME NEW k \in DOMAIN scope'.vars
        PROVE  scope'.vars[k] \in Declared(script, n + 1)
    <2>1. Declared(script, n) \subseteq Declared(script, n + 1)
      BY <1>1 DEF Declared
    <2>2. CASE k \in DOMAIN scope.vars /\ scope'.vars[k] = scope.vars[k]
      BY <1>3, <2>1, <2>2
    <2>3. CASE do \in {"declare", "define"} /\ scope'.vars[k] = TheStatement.var
      <3>1. n + 1 \in {j \in 1 .. n + 1 : script[j].do \in {"declare", "define"}}
        BY <1>1, <2>3
      <3>2. scope'.vars[k] = script[n + 1].var
        BY <1>1, <2>3
      <3> HIDE DEF n, script
      <3> QED
        BY <3>1, <3>2 DEF Declared
    <2>4. CASE scope'.vars = Append(scope.vars, TheStatement.var)
      <3>1. /\ Len(scope.vars) \in Nat /\ DOMAIN scope.vars = 1 .. Len(scope.vars)
            /\ DOMAIN scope'.vars = 1 .. Len(scope.vars) + 1
        BY <1>1, <2>4
      <3>2. CASE k = Len(scope.vars) + 1
        <4>1. scope'.vars[k] = TheStatement.var
          BY <1>1, <2>4, <3>2
        <4> QED
          BY <2>2, <2>3, <4>1
      <3>3. CASE k \in 1 .. Len(scope.vars)
        <4>1. scope'.vars[k] = scope.vars[k]
          BY <1>1, <2>4, <3>3
        <4> QED
          BY <2>2, <3>1, <3>3, <4>1
      <3> QED
        BY <3>1, <3>2, <3>3
    <2> QED
      BY <2>2, <2>4
  <1>6. parse'.next - 1 = n + 1 /\ parse'.next \in 1 .. Len(parse'.script) + 1
    BY <1>1, <1>2
  <1>7. FirstIsParsed'
    BY <1>2, <1>4, <1>5, <1>6 DEF FirstIsParsed
  <1>8. FirstProgramIsItsScript'
    BY <1>2 DEF FirstProgramIsItsScript
  <1> QED
    BY <1>7, <1>8 DEF FirstIsLaid

(* A script that ends early has declared a variable twice, or failed.      *)
LEMMA FirstIsGivenUp ==
    ASSUME IInv, FirstIsLaid, NEW state \in {"ended", "failed"}, NEW do,
           AtStatement(do), ParsedTo(state),
           state = "ended" => do = "declare" /\ Known(TheStatement.var)
    PROVE  FirstIsLaid'
  <1>1. /\ parse.script \in Seq(Statement) /\ parse.next \in DOMAIN parse.script
        /\ parse.state = "parsing" /\ TheStatement = parse.script[parse.next]
        /\ parse.script[parse.next].do = do
        /\ parse.next \in Nat \ {0}
    BY DEF IInv, Types, AtStatement, TheStatement
  <1>2. /\ parse'.script = parse.script /\ parse'.state = state
        /\ compiles' = compiles /\ program' = program
    <2>1. parse = [script |-> parse.script, next |-> parse.next, state |-> parse.state]
      BY DEF IInv, Types
    <2> QED
      BY <2>1 DEF ParsedTo
  <1>3. FirstProgramIsItsScript'
    BY <1>2 DEF FirstIsLaid, FirstProgramIsItsScript, IsItsScript
  <1>4. ASSUME compiles = <<>>, state = "ended", Distinct(parse.script)
        PROVE  FALSE
    <2>1. PICK k \in DOMAIN scope.vars : scope.vars[k] = TheStatement.var
      BY <1>4 DEF Known
    <2>2. TheStatement.var \in Declared(parse.script, parse.next - 1)
      BY <1>1, <1>4, <2>1 DEF FirstIsLaid, FirstIsParsed
    <2>3. PICK i \in 1 .. parse.next - 1 :
              /\ parse.script[i].do \in {"declare", "define"}
              /\ parse.script[i].var = TheStatement.var
      BY <2>2 DEF Declared
    <2>4. i \in DOMAIN parse.script /\ i # parse.next
      BY <1>1, <2>3
    <2>5. {parse.script[i].do, parse.script[parse.next].do} \subseteq {"declare", "define"}
      BY <1>1, <1>4, <2>3
    <2> QED
      BY <1>1, <1>4, <2>3, <2>4, <2>5 DEF Distinct
  <1>5. FirstIsParsed'
    BY <1>2, <1>4 DEF FirstIsParsed
  <1> QED
    BY <1>3, <1>5 DEF FirstIsLaid

(* A statement of a later script, or of one that declares a variable twice. *)
LEMMA OthersAreParsedOn ==
    ASSUME IInv, FirstIsLaid, NEW do, AtStatement(do), ParsedTo("parsing"),
           compiles # <<>> \/ ~ Distinct(parse.script)
    PROVE  FirstIsLaid'
  <1>1. /\ parse'.script = parse.script /\ parse'.state = "parsing"
        /\ compiles' = compiles /\ program' = program
    <2>1. parse = [script |-> parse.script, next |-> parse.next, state |-> parse.state]
      BY DEF IInv, Types
    <2> QED
      BY <2>1 DEF ParsedTo
  <1>2. FirstProgramIsItsScript'
    BY <1>1 DEF FirstIsLaid, FirstProgramIsItsScript, IsItsScript
  <1>3. FirstIsParsed'
    BY <1>1 DEF FirstIsParsed
  <1> QED
    BY <1>2, <1>3 DEF FirstIsLaid

(* What a statement adds to the scope of the first compilation.            *)
LEMMA UnitAdded ==
    ASSUME IInv, compiles = <<>>, NEW s \in ScopeType,
           NEW var \in Variable \cup {NoVar}, NEW index \in Nat
    PROVE  \E unit \in Unit :
               /\ AddUnit(s, var, index).units = Append(s.units, unit)
               /\ AddUnit(s, var, index).vars = s.vars
               /\ unit.from = 1 /\ unit.var = var
  <1> DEFINE unit == [from |-> Now, var |-> var, index |-> index]
  <1>1. unit \in Unit /\ unit.from = 1 /\ unit.var = var
    BY DEF Now, Unit
  <1>2. AddUnit(s, var, index) = [s EXCEPT !.units = Append(s.units, unit)]
    BY DEF AddUnit
  <1>3. /\ AddUnit(s, var, index).units = Append(s.units, unit)
        /\ AddUnit(s, var, index).vars = s.vars
    BY <1>2 DEF ScopeType
  <1> QED
    BY <1>1, <1>3

LEMMA ObjectAdded ==
    ASSUME IInv, compiles = <<>>, NEW var \in Variable \cup {NoVar}
    PROVE  \E unit \in Unit :
               /\ AddObject(AddVariable(scope, var), var).units = Append(scope.units, unit)
               /\ AddObject(AddVariable(scope, var), var).vars = Append(scope.vars, var)
               /\ unit.from = 1 /\ unit.var = var
  <1> DEFINE s == AddVariable(scope, var)
             u == AddUnit(s, var, s.count)
  <1>1. scope \in ScopeType
    BY DEF IInv, Types
  <1>2. s \in ScopeType /\ s.units = scope.units /\ s.vars = Append(scope.vars, var)
    BY <1>1, VariableTypes DEF AddVariable, ScopeType
  <1>3. s.count \in Nat
    BY <1>2 DEF ScopeType
  <1> HIDE DEF s
  <1>4. PICK unit \in Unit : /\ u.units = Append(s.units, unit) /\ u.vars = s.vars
                             /\ unit.from = 1 /\ unit.var = var
    BY <1>2, <1>3, UnitAdded
  <1>5. u \in ScopeType
    BY <1>2, <1>3, UnitTypes
  <1>6. AddObject(s, var) = [u EXCEPT !.destructors = <<s.count>> \o @, !.count = @ + 1]
    BY DEF AddObject
  <1> HIDE DEF u
  <1>7. AddObject(s, var).units = u.units /\ AddObject(s, var).vars = u.vars
    BY <1>5, <1>6 DEF ScopeType
  <1> QED
    BY <1>2, <1>4, <1>7 DEF s

(* A call or a cast, with the scope it finds.                              *)
LEMMA FirstExpressionKeeps ==
    ASSUME IInv, FirstIsLaid, NEW do \in {"call", "cast"}, AtStatement(do),
           NEW s \in ScopeType, s.units = scope.units, s.vars = scope.vars,
           ParseExpression(s)
    PROVE  FirstIsLaid'
  <1>1. CASE TheStatement.fails
    BY <1>1, FirstIsGivenUp DEF ParseExpression
  <1>2. CASE ~ TheStatement.fails
    <2>1. scope' = AddUnit(s, NoVar, 0) /\ ParsedTo("parsing")
      BY <1>2 DEF ParseExpression
    <2>2. CASE compiles = <<>> /\ Distinct(parse.script)
      <3>1. VarOf(TheStatement) = NoVar
        BY DEF VarOf, AtStatement, TheStatement
      <3>2. \E unit \in Unit :
                /\ scope'.units = Append(scope.units, unit)
                /\ scope'.vars = scope.vars
                /\ unit.from = 1 /\ unit.var = NoVar
        <4>1. NoVar \in Variable \cup {NoVar} /\ 0 \in Nat
          OBVIOUS
        <4>2. PICK unit \in Unit :
                  /\ AddUnit(s, NoVar, 0).units = Append(s.units, unit)
                  /\ AddUnit(s, NoVar, 0).vars = s.vars
                  /\ unit.from = 1 /\ unit.var = NoVar
          BY <2>2, <4>1, UnitAdded
        <4> QED
          BY <2>1, <4>2
      <3> QED
        BY <2>1, <2>2, <3>1, <3>2, FirstIsParsedOn
    <2> QED
      BY <2>1, <2>2, OthersAreParsedOn
  <1> QED
    BY <1>1, <1>2

(* A declaration or a definition that leaves an object.                    *)
LEMMA FirstObjectKeeps ==
    ASSUME IInv, FirstIsLaid, NEW do \in {"declare", "define"}, AtStatement(do),
           scope' = AddObject(AddVariable(scope, TheStatement.var), TheStatement.var),
           ParsedTo("parsing")
    PROVE  FirstIsLaid'
  <1>1. CASE compiles = <<>> /\ Distinct(parse.script)
    <2>1. VarOf(TheStatement) = TheStatement.var
      BY DEF VarOf, AtStatement, TheStatement
    <2>2. TheStatement.var \in Variable \cup {NoVar}
      BY StatementTypes
    <2>3. \E unit \in Unit :
              /\ scope'.units = Append(scope.units, unit)
              /\ scope'.vars = Append(scope.vars, TheStatement.var)
              /\ unit.from = 1 /\ unit.var = TheStatement.var
      BY <1>1, <2>2, ObjectAdded
    <2> QED
      BY <1>1, <2>1, <2>3, FirstIsParsedOn
  <1> QED
    BY <1>1, OthersAreParsedOn

(* Every statement puts its unit behind those before it.                   *)
LEMMA FirstParseKeeps ==
    ASSUME IInv, FirstIsLaid,
           \/ ParseDeclaration \/ ParseDefinition \/ ParseCall \/ ParseFunction
           \/ ParseCast
    PROVE  FirstIsLaid'
  <1>1. scope \in ScopeType
    BY DEF IInv, Types
  <1>2. CASE ParseDeclaration
    <2>1. AtStatement("declare")
      BY <1>2 DEF ParseDeclaration
    <2>2. CASE Known(TheStatement.var)
      <3>1. ParsedTo("ended")
        BY <1>2, <2>2 DEF ParseDeclaration
      <3> QED
        BY <2>1, <2>2, <3>1, FirstIsGivenUp
    <2>3. CASE ~ Known(TheStatement.var)
      <3>1. \/ ParsedTo("failed")
            \/ /\ scope' = AddObject(AddVariable(scope, TheStatement.var), TheStatement.var)
               /\ ParsedTo("parsing")
        BY <1>2, <2>3 DEF ParseDeclaration
      <3> QED
        BY <2>1, <3>1, FirstIsGivenUp, FirstObjectKeeps
    <2> QED
      BY <2>2, <2>3
  <1>3. CASE ParseDefinition
    <2>1. AtStatement("define")
      BY <1>3 DEF ParseDefinition
    <2>2. \/ ParsedTo("failed")
          \/ /\ scope' = AddObject(AddVariable(scope, TheStatement.var), TheStatement.var)
             /\ ParsedTo("parsing")
      BY <1>3 DEF ParseDefinition
    <2> QED
      BY <2>1, <2>2, FirstIsGivenUp, FirstObjectKeeps
  <1>4. CASE ParseCall
    BY <1>1, <1>4, FirstExpressionKeeps DEF ParseCall
  <1>5. CASE ParseFunction
    <2>1. /\ AtStatement("function") /\ scope' = AddFunction(scope, Now)
          /\ ParsedTo("failed") \/ ParsedTo("parsing")
      BY <1>5 DEF ParseFunction
    <2>2. scope'.units = scope.units /\ scope'.vars = scope.vars
      BY <1>1, <2>1 DEF AddFunction, ScopeType
    <2>3. CASE ParsedTo("failed")
      BY <2>1, <2>3, FirstIsGivenUp
    <2>4. CASE ParsedTo("parsing")
      BY <2>1, <2>2, <2>4, FirstIsParsedOn, OthersAreParsedOn
    <2> QED
      BY <2>1, <2>3, <2>4
  <1>6. CASE ParseCast
    <2> DEFINE s == AddFunction(scope, NoFunction)
    <2>1. s \in ScopeType
      BY <1>1, FunctionTypes DEF NoFunction
    <2>2. s.units = scope.units /\ s.vars = scope.vars
      BY <1>1 DEF AddFunction, ScopeType
    <2>3. AtStatement("cast") /\ ParseExpression(s)
      BY <1>6 DEF ParseCast
    <2> HIDE DEF s
    <2> QED
      BY <2>1, <2>2, <2>3, FirstExpressionKeeps
  <1> QED
    BY <1>2, <1>3, <1>4, <1>5, <1>6
-----------------------------------------------------------------------------
(* The first script begins with an empty scope.                            *)
LEMMA FirstCompileKeeps ==
    ASSUME IInv, FirstIsLaid, NEW script \in Scripts, Compile(script)
    PROVE  FirstIsLaid'
  <1>1. /\ parse.state = "none" /\ parse'.script = script /\ parse'.next = 1
        /\ parse'.state = "parsing"
        /\ compiles' = compiles /\ program' = program /\ scope' = scope
    BY DEF Compile, Idle, NoParse
  <1>2. script \in Seq(Statement) /\ Len(script) \in Nat
    BY ScriptsAssumption
  <1>3. Laid(<<>>, script, 0)
    <2>1. Upto(script, 0) = {}
      BY <1>2 DEF Upto, Commands
    <2> QED
      BY <2>1, FS_EmptySet DEF Laid
  <1>4. compiles = <<>> => scope.units = <<>> /\ scope.vars = <<>>
    BY <1>1 DEF FirstIsLaid, FirstIsParsed
  <1>5. FirstIsParsed'
    <2> SUFFICES ASSUME compiles' = <<>> PROVE FirstIsParsed'
      BY DEF FirstIsParsed
    <2>1. scope'.units = <<>> /\ scope'.vars = <<>> /\ DOMAIN scope'.vars = {}
      BY <1>1, <1>4
    <2>2. parse'.next \in 1 .. Len(parse'.script) + 1 /\ parse'.next - 1 = 0
      BY <1>1, <1>2
    <2> QED
      BY <1>1, <1>3, <2>1, <2>2 DEF FirstIsParsed
  <1>6. FirstProgramIsItsScript'
    BY <1>1 DEF FirstIsLaid, FirstProgramIsItsScript, IsItsScript
  <1> QED
    BY <1>5, <1>6 DEF FirstIsLaid

(* The first program is lost, or its script has been parsed to the end.    *)
LEMMA FirstCompiledKeeps ==
    ASSUME IInv, FirstIsLaid, NEW owner \in Owners, Compiled(owner),
           owner = "lost" \/ Parsed
    PROVE  FirstIsLaid'
  <1>1. /\ program \in Seq(Owners)
        /\ compiles \in Seq([script : Seq(Statement), units : Seq(Unit)])
        /\ Len(program) = Len(compiles) /\ Now = Len(program) + 1
        /\ parse.script \in Seq(Statement) /\ parse.next \in Nat
        /\ parse.state \in States
    BY DEF IInv, Types, Now
  <1>2. /\ program' = Append(program, owner)
        /\ compiles' = Append(compiles, [script |-> parse.script,
                                         units |-> scope.units])
    BY DEF Compiled
  <1>3. compiles' # <<>>
    BY <1>1, <1>2
  <1>4. FirstIsParsed'
    BY <1>3 DEF FirstIsParsed
  <1>5. CASE compiles # <<>>
    <2>1. 1 \in DOMAIN compiles /\ 1 \in DOMAIN program
      BY <1>1, <1>5
    <2>2. compiles'[1] = compiles[1] /\ program'[1] = program[1]
      BY <1>1, <1>2, <2>1
    <2>3. FirstProgramIsItsScript'
      BY <1>5, <2>2 DEF FirstIsLaid, FirstProgramIsItsScript, IsItsScript
    <2> QED
      BY <1>4, <2>3 DEF FirstIsLaid
  <1>6. CASE compiles = <<>>
    <2>1. /\ compiles'[1].script = parse.script /\ compiles'[1].units = scope.units
          /\ program'[1] = owner
      BY <1>1, <1>2, <1>6
    <2>2. ASSUME Distinct(parse.script), owner # "lost"
          PROVE  IsItsScript(1)'
      <3>1. parse.state = "parsing" /\ parse.next = Len(parse.script) + 1
        BY <1>6, <2>2 DEF Parsed, FirstIsLaid, FirstIsParsed
      <3>2. parse.next - 1 = Len(parse.script)
        BY <1>1, <3>1
      <3>3. Laid(scope.units, parse.script, Len(parse.script))
        BY <1>6, <2>2, <3>1, <3>2 DEF FirstIsLaid, FirstIsParsed
      <3>4. /\ Len(scope.units) = Cardinality(Commands(parse.script))
            /\ \A i \in Commands(parse.script) :
                  /\ scope.units[Place(parse.script, i)].from = 1
                  /\ scope.units[Place(parse.script, i)].var = VarOf(parse.script[i])
        BY <1>1, <3>3, AllLaid
      <3> QED
        BY <2>1, <3>4 DEF IsItsScript, VarOf
    <2>3. FirstProgramIsItsScript'
      BY <2>1, <2>2 DEF FirstProgramIsItsScript
    <2> QED
      BY <1>4, <2>3 DEF FirstIsLaid
  <1> QED
    BY <1>5, <1>6

(* Nothing else touches what is compiled, and a lost program stays lost.   *)
LEMMA FirstIsKept ==
    ASSUME IInv, FirstIsLaid, UNCHANGED compiling,
           compiles # <<>> /\ program[1] = "lost" => program'[1] = "lost"
    PROVE  FirstIsLaid'
  BY DEF compiling, FirstIsLaid, FirstIsParsed, FirstProgramIsItsScript, IsItsScript

LEMMA FirstLambdaKeeps ==
    ASSUME IInv, FirstIsLaid, CompileLambda
    PROVE  FirstIsLaid'
  <1>1. CASE \E why : Crash(why)
    BY <1>1, FirstIsKept DEF Crash
  <1>2. CASE ~ \E why : Crash(why)
    <2>1. /\ compiles # <<>>
          /\ UNCHANGED <<compiles, parse, program>>
      BY <1>2 DEF CompileLambda
    <2> QED
      BY <2>1 DEF FirstIsLaid, FirstIsParsed, FirstProgramIsItsScript, IsItsScript
  <1> QED
    BY <1>1, <1>2

LEMMA FirstExtractKeeps ==
    ASSUME IInv, FirstIsLaid, ExtractCode
    PROVE  FirstIsLaid'
  <1>1. Parsed /\ (Compiled("host") \/ Crash("nullCode"))
    BY DEF ExtractCode
  <1>2. CASE Compiled("host")
    BY <1>1, <1>2, FirstCompiledKeeps DEF Owners
  <1>3. CASE Crash("nullCode")
    BY <1>3, FirstIsKept DEF Crash
  <1> QED
    BY <1>1, <1>2, <1>3

(* Every step keeps what has been laid out.                                *)
LEMMA FirstNext == IInv /\ FirstIsLaid /\ [Next]_vars => FirstIsLaid'
  <1> SUFFICES ASSUME IInv, FirstIsLaid, [Next]_vars PROVE FirstIsLaid'
    OBVIOUS
  <1>1. ASSUME NEW why, Crash(why) PROVE FirstIsLaid'
    BY <1>1, FirstIsKept DEF Crash
  <1>2. CASE UNCHANGED vars
    BY <1>2, FirstIsKept DEF vars
  <1>3. CASE \E script \in Scripts : Compile(script)
    BY <1>3, FirstCompileKeeps
  <1>4. CASE \/ ParseDeclaration \/ ParseDefinition \/ ParseCall
             \/ ParseFunction \/ ParseCast
    BY <1>4, FirstParseKeeps
  <1>5. CASE GiveUp
    BY <1>5, FirstCompiledKeeps DEF GiveUp, Owners
  <1>6. CASE ExtractCode
    BY <1>6, FirstExtractKeeps
  <1>7. CASE CompileLambda
    BY <1>7, FirstLambdaKeeps
  <1>8. CASE \E p \in DOMAIN program :
                 \/ DetachScriptProgram(p) \/ DeleteProgram(p)
                 \/ DeleteLamdaProg(p) \/ RunTask(p)
    <2>1. PICK p \in DOMAIN program :
              /\ UNCHANGED compiling /\ program[p] # "lost"
              /\ \/ program' = program
                 \/ \E owner : program' = [program EXCEPT ![p] = owner]
      BY <1>8 DEF DetachScriptProgram, DeleteProgram, DeleteLamdaProg, RunTask
    <2>2. compiles # <<>> /\ program[1] = "lost" => program'[1] = program[1]
      <3>1. /\ program \in Seq(Owners) /\ Len(program) = Len(compiles)
            /\ compiles \in Seq([script : Seq(Statement), units : Seq(Unit)])
        BY DEF IInv, Types
      <3>2. program[1] = "lost" => p # 1
        BY <2>1
      <3>3. compiles # <<>> => 1 \in DOMAIN program
        BY <3>1
      <3> QED
        BY <2>1, <3>2, <3>3
    <2> QED
      BY <2>1, <2>2, FirstIsKept
  <1>9. CASE \E p \in DOMAIN program : RunFunction(p)
    BY <1>1, <1>9 DEF RunFunction
  <1>10. CASE DestroySuite \/ DeleteTask
    BY <1>10, FirstIsKept DEF DestroySuite, DeleteTask
  <1>11. CASE \E who \in {TheScope} \cup DOMAIN program :
                  RunGlobalCode(who) \/ CleanupGlobalMemory(who)
    <2>1. \/ \E why : Crash(why)
          \/ UNCHANGED <<compiling, program>>
      BY <1>11 DEF RunGlobalCode, CleanupGlobalMemory
    <2> QED
      BY <1>1, <2>1, FirstIsKept
  <1> QED
    BY <1>2, <1>3, <1>4, <1>5, <1>6, <1>7, <1>8, <1>9, <1>10, <1>11 DEF Next

LEMMA FirstInit == Init => FirstIsLaid
  BY DEF Init, NoParse, FirstIsLaid, FirstIsParsed, FirstProgramIsItsScript

(* Where no variable is declared twice, the first program that a suite hands *)
(* to the host is its script: one command for each of its statements but the *)
(* functions, in their order and no other, whatever was run, deleted or      *)
(* detached since.                                                          *)
THEOREM FirstProgramIsWhole == Spec => []FirstProgramIsItsScript
  <1>1. FirstIsLaid => FirstProgramIsItsScript
    BY DEF FirstIsLaid
  <1> QED
    BY <1>1, FirstInit, FirstNext, InvHolds, PTL DEF Spec
-----------------------------------------------------------------------------
(* What a cleanup relies on.  In the scope: each object has a destructor,  *)
(* and the destructors are in the reverse order of the objects.            *)
InReverse(destructors) ==
    \A i, j \in DOMAIN destructors : i < j => destructors[i] > destructors[j]

ScopeIsPaired(s) ==
    /\ InReverse(s.destructors)
    /\ \A i \in DOMAIN s.destructors : s.destructors[i] < s.count
    /\ \A i \in DOMAIN s.units : s.units[i].var # NoVar =>
          \E j \in DOMAIN s.destructors : s.destructors[j] = s.units[i].index

(* In the static context: the same of the commands of each program.        *)
ContextIsPaired(c) ==
    /\ \A i, j \in DOMAIN c.destructors :
          i < j /\ c.destructors[i].program = c.destructors[j].program =>
              c.destructors[i].index > c.destructors[j].index
    /\ \A i \in DOMAIN c.destructors : \E j \in DOMAIN c.code :
          c.code[j].program = c.destructors[i].program
    /\ \A i \in DOMAIN c.code : c.code[i].unit.var # NoVar =>
          \E j \in DOMAIN c.destructors :
              /\ c.destructors[j].program = c.code[i].program
              /\ c.destructors[j].index = c.code[i].unit.index

(* A frame holds objects that commands of the context construct.           *)
FramesAreBuilt(c) ==
    \A f \in DOMAIN c.frames : \A b \in c.frames[f] : \E i \in DOMAIN c.code :
        c.code[i].unit.var # NoVar /\ c.code[i].unit.index = b

Paired ==
    ScopeIsPaired(scope) /\ ContextIsPaired(static) /\ FramesAreBuilt(static)

(* A unit without an object, or with one.                                  *)
LEMMA UnitIsPaired ==
    ASSUME IInv, NEW s \in ScopeType, ScopeIsPaired(s)
    PROVE  ScopeIsPaired(AddUnit(s, NoVar, 0))
  <1> DEFINE unit == [from |-> Now, var |-> NoVar, index |-> 0]
             t == AddUnit(s, NoVar, 0)
  <1>1. /\ t.units = Append(s.units, unit) /\ unit.var = NoVar
        /\ t.destructors = s.destructors /\ t.count = s.count
    BY DEF AddUnit, ScopeType
  <1>2. s.units \in Seq(Unit)
    BY DEF ScopeType
  <1> HIDE DEF unit, t
  <1>3. \A i \in DOMAIN t.units :
            \/ i \in DOMAIN s.units /\ t.units[i] = s.units[i]
            \/ t.units[i] = unit
    BY <1>1, <1>2
  <1>4. ScopeIsPaired(t)
    BY <1>1, <1>3 DEF ScopeIsPaired
  <1> QED
    BY <1>4 DEF t

LEMMA ObjectIsPaired ==
    ASSUME IInv, NEW s \in ScopeType, ScopeIsPaired(s),
           NEW var \in Variable \cup {NoVar}
    PROVE  ScopeIsPaired(AddObject(s, var))
  <1> DEFINE unit == [from |-> Now, var |-> var, index |-> s.count]
             u == AddUnit(s, var, s.count)
             t == AddObject(s, var)
  <1>1. s.count \in Nat /\ s.destructors \in Seq(Nat) /\ s.units \in Seq(Unit)
    BY DEF ScopeType
  <1>2. /\ u \in ScopeType /\ u.units = Append(s.units, unit)
        /\ u.destructors = s.destructors /\ u.count = s.count
        /\ unit.index = s.count
    BY <1>1, UnitTypes DEF AddUnit, ScopeType
  <1>3. t = [u EXCEPT !.destructors = <<s.count>> \o s.destructors,
                      !.count = s.count + 1]
    BY <1>2 DEF AddObject
  <1> HIDE DEF u, unit, t
  <1>4. /\ t.units = Append(s.units, unit) /\ t.count = s.count + 1
        /\ t.destructors = <<s.count>> \o s.destructors
    BY <1>2, <1>3 DEF ScopeType
  <1>5. /\ DOMAIN t.destructors = 1 .. Len(s.destructors) + 1
        /\ t.destructors[1] = s.count
        /\ \A i \in 2 .. Len(s.destructors) + 1 :
               i - 1 \in DOMAIN s.destructors /\ t.destructors[i] = s.destructors[i - 1]
    BY <1>1, <1>4
  <1>6. \A i \in DOMAIN s.destructors :
            i + 1 \in DOMAIN t.destructors /\ t.destructors[i + 1] = s.destructors[i]
    BY <1>1, <1>5
  <1>7. \A i \in DOMAIN s.destructors :
            s.destructors[i] \in Nat /\ s.destructors[i] < s.count
    BY <1>1 DEF ScopeIsPaired
  <1>8. \A i \in DOMAIN t.destructors : t.destructors[i] < t.count
    <2> SUFFICES ASSUME NEW i \in DOMAIN t.destructors
                 PROVE  t.destructors[i] < t.count
      OBVIOUS
    <2>1. CASE i = 1
      BY <1>1, <1>4, <1>5, <2>1
    <2>2. CASE i \in 2 .. Len(s.destructors) + 1
      BY <1>1, <1>4, <1>5, <1>7, <2>2
    <2> QED
      BY <1>1, <1>5, <2>1, <2>2
  <1>9. InReverse(t.destructors)
    <2> SUFFICES ASSUME NEW i \in DOMAIN t.destructors, NEW j \in DOMAIN t.destructors,
                        i < j
                 PROVE  t.destructors[i] > t.destructors[j]
      BY DEF InReverse
    <2>1. j \in 2 .. Len(s.destructors) + 1
      BY <1>1, <1>5
    <2>2. CASE i = 1
      BY <1>1, <1>5, <1>7, <2>1, <2>2
    <2>3. CASE i \in 2 .. Len(s.destructors) + 1
      <3>1. i - 1 < j - 1 /\ i - 1 \in DOMAIN s.destructors /\ j - 1 \in DOMAIN s.destructors
        BY <1>1, <1>5, <2>1, <2>3
      <3>2. s.destructors[i - 1] > s.destructors[j - 1]
        BY <3>1 DEF ScopeIsPaired, InReverse
      <3> QED
        BY <1>5, <2>1, <2>3, <3>2
    <2> QED
      BY <1>1, <1>5, <2>2, <2>3
  <1>10. \A i \in DOMAIN t.units : t.units[i].var # NoVar =>
            \E j \in DOMAIN t.destructors : t.destructors[j] = t.units[i].index
    <2> SUFFICES ASSUME NEW i \in DOMAIN t.units, t.units[i].var # NoVar
                 PROVE  \E j \in DOMAIN t.destructors : t.destructors[j] = t.units[i].index
      OBVIOUS
    <2>1. CASE i \in DOMAIN s.units /\ t.units[i] = s.units[i]
      <3>1. PICK j \in DOMAIN s.destructors : s.destructors[j] = s.units[i].index
        BY <2>1 DEF ScopeIsPaired
      <3> QED
        BY <1>6, <2>1, <3>1
    <2>2. CASE t.units[i] = unit
      <3>1. 1 \in DOMAIN t.destructors
        BY <1>1, <1>5
      <3> QED
        BY <1>2, <1>5, <2>2, <3>1
    <2> QED
      BY <1>1, <1>4, <2>1, <2>2
  <1>11. ScopeIsPaired(t)
    BY <1>8, <1>9, <1>10 DEF ScopeIsPaired
  <1> QED
    BY <1>11 DEF t
-----------------------------------------------------------------------------
(* Statements change the scope only.                                       *)
LEMMA ParseIsPaired ==
    ASSUME IInv, Paired,
           \/ ParseDeclaration \/ ParseDefinition \/ ParseCall \/ ParseFunction
           \/ ParseCast
    PROVE  Paired'
  <1> DEFINE var == TheStatement.var
  <1>1. scope \in ScopeType /\ ScopeIsPaired(scope)
    BY DEF IInv, Types, Paired
  <1>2. ASSUME NEW k \in Nat
        PROVE  /\ AddFunction(scope, k) \in ScopeType
               /\ ScopeIsPaired(AddFunction(scope, k))
    <2>1. /\ AddFunction(scope, k).units = scope.units
          /\ AddFunction(scope, k).destructors = scope.destructors
          /\ AddFunction(scope, k).count = scope.count
      BY <1>1 DEF AddFunction, ScopeType
    <2> QED
      BY <1>1, <2>1, FunctionTypes DEF ScopeIsPaired
  <1>3. ASSUME var \in Variable \cup {NoVar}
        PROVE  /\ ScopeIsPaired(AddVariable(scope, var))
               /\ ScopeIsPaired(AddObject(AddVariable(scope, var), var))
    <2>1. /\ AddVariable(scope, var).units = scope.units
          /\ AddVariable(scope, var).destructors = scope.destructors
          /\ AddVariable(scope, var).count = scope.count
      BY <1>1 DEF AddVariable, ScopeType
    <2>2. AddVariable(scope, var) \in ScopeType
      BY <1>1, <1>3, VariableTypes
    <2>3. ScopeIsPaired(AddVariable(scope, var))
      BY <1>1, <2>1 DEF ScopeIsPaired
    <2> QED
      BY <1>3, <2>2, <2>3, ObjectIsPaired
  <1>4. ASSUME NEW s \in ScopeType, ScopeIsPaired(s), ParseExpression(s)
        PROVE  ScopeIsPaired(scope')
    BY <1>4, UnitIsPaired DEF ParseExpression
  <1>5. NoFunction \in Nat /\ Now \in Nat
    BY DEF NoFunction, Now, IInv, Types
  <1>6. ScopeIsPaired(scope')
    <2>1. CASE ParseDeclaration
      <3>1. var \in Variable \cup {NoVar}
        BY <2>1, StatementTypes DEF ParseDeclaration
      <3>2. \/ scope' = scope \/ scope' = AddVariable(scope, var)
            \/ scope' = AddObject(AddVariable(scope, var), var)
        BY <2>1 DEF ParseDeclaration
      <3> QED
        BY <1>1, <1>3, <3>1, <3>2
    <2>2. CASE ParseDefinition
      <3>1. var \in Variable \cup {NoVar}
        BY <2>2, StatementTypes DEF ParseDefinition
      <3>2. \/ scope' = scope \/ scope' = AddVariable(scope, var)
            \/ scope' = AddObject(AddVariable(scope, var), var)
        BY <2>2 DEF ParseDefinition
      <3> QED
        BY <1>1, <1>3, <3>1, <3>2
    <2>3. CASE ParseCall
      BY <1>1, <1>4, <2>3 DEF ParseCall
    <2>4. CASE ParseFunction
      BY <1>2, <1>5, <2>4 DEF ParseFunction
    <2>5. CASE ParseCast
      BY <1>2, <1>4, <1>5, <2>5 DEF ParseCast
    <2> QED
      BY <2>1, <2>2, <2>3, <2>4, <2>5
  <1>7. static' = static
    BY DEF ParseDeclaration, ParseDefinition, ParseCall, ParseFunction, ParseCast,
           ParseExpression, ParsedTo
  <1> QED
    BY <1>6, <1>7 DEF Paired

(* A sequence behind another.                                              *)
LEMMA Behind ==
    ASSUME NEW S, NEW a \in Seq(S), NEW b \in Seq(S)
    PROVE  /\ Len(a) \in Nat /\ DOMAIN (a \o b) = 1 .. Len(a) + Len(b)
           /\ \A i \in DOMAIN a : i \in DOMAIN (a \o b) /\ (a \o b)[i] = a[i]
           /\ \A i \in DOMAIN b :
                 Len(a) + i \in DOMAIN (a \o b) /\ (a \o b)[Len(a) + i] = b[i]
           /\ \A i \in DOMAIN (a \o b) :
                 \/ i \in DOMAIN a
                 \/ i - Len(a) \in DOMAIN b /\ (a \o b)[i] = b[i - Len(a)]
  OBVIOUS

(* The commands of a program go behind those of the programs before it.    *)
LEMMA CommandsArePaired ==
    ASSUME IInv, Paired, scope.units # <<>>
    PROVE  /\ ContextIsPaired(AddCommands) /\ FramesAreBuilt(AddCommands)
           /\ AddCommands.frames = static.frames
  <1> DEFINE code == [i \in DOMAIN scope.units |->
                         [program |-> Now, unit |-> scope.units[i]]]
             des == [i \in DOMAIN scope.destructors |->
                        [program |-> Now, index |-> scope.destructors[i]]]
             C == static.code \o code
             D == static.destructors \o des
             n == Len(static.code)
             d == Len(static.destructors)
  <1>1. /\ scope.units \in Seq(Unit) /\ scope.destructors \in Seq(Nat)
        /\ Now \in Nat /\ Now = Len(program) + 1 /\ program \in Seq(Owners)
        /\ static.code \in Seq(Command)
        /\ static.destructors \in Seq(Destructor)
        /\ static = [code |-> static.code, destructors |-> static.destructors,
                     frames |-> static.frames]
    BY DEF IInv, Types, ScopeType, Now
  <1>2. /\ Len(code) = Len(scope.units) /\ code \in Seq(Command)
        /\ DOMAIN code = DOMAIN scope.units
        /\ \A i \in DOMAIN scope.units :
               code[i].program = Now /\ code[i].unit = scope.units[i]
    <2>1. \A i \in DOMAIN scope.units :
              [program |-> Now, unit |-> scope.units[i]] \in Command
      BY <1>1 DEF Command
    <2>2. DOMAIN scope.units = 1 .. Len(scope.units) /\ Len(scope.units) \in Nat
      BY <1>1
    <2> QED
      BY <2>1, <2>2
  <1>3. /\ Len(des) = Len(scope.destructors) /\ des \in Seq(Destructor)
        /\ DOMAIN des = DOMAIN scope.destructors
        /\ \A i \in DOMAIN scope.destructors :
               des[i].program = Now /\ des[i].index = scope.destructors[i]
    <2>1. \A i \in DOMAIN scope.destructors :
              [program |-> Now, index |-> scope.destructors[i]] \in Destructor
      BY <1>1 DEF Destructor
    <2>2. /\ DOMAIN scope.destructors = 1 .. Len(scope.destructors)
          /\ Len(scope.destructors) \in Nat
      BY <1>1
    <2> QED
      BY <2>1, <2>2
  <1>4. AddCommands = [static EXCEPT !.code = C, !.destructors = D]
    BY DEF AddCommands
  <1> HIDE DEF code, des
  <1>5. AddCommands = [code |-> C, destructors |-> D, frames |-> static.frames]
    BY <1>1, <1>4
  <1>6. /\ n \in Nat /\ DOMAIN C = 1 .. n + Len(scope.units)
        /\ \A i \in DOMAIN static.code : i \in DOMAIN C /\ C[i] = static.code[i]
        /\ \A i \in DOMAIN scope.units :
               /\ n + i \in DOMAIN C /\ C[n + i].program = Now
               /\ C[n + i].unit = scope.units[i]
        /\ \A i \in DOMAIN C :
               \/ i \in DOMAIN static.code
               \/ i - n \in DOMAIN scope.units /\ C[i].unit = scope.units[i - n]
                  /\ C[i].program = Now
    <2>1. /\ n \in Nat /\ DOMAIN C = 1 .. n + Len(code)
          /\ \A i \in DOMAIN static.code : i \in DOMAIN C /\ C[i] = static.code[i]
          /\ \A i \in DOMAIN code : n + i \in DOMAIN C /\ C[n + i] = code[i]
          /\ \A i \in DOMAIN C :
                 i \in DOMAIN static.code \/ (i - n \in DOMAIN code /\ C[i] = code[i - n])
      BY <1>1, <1>2, Behind
    <2> HIDE DEF C, n
    <2> QED
      BY <1>2, <2>1
  <1>7. /\ d \in Nat /\ DOMAIN D = 1 .. d + Len(scope.destructors)
        /\ \A i \in DOMAIN static.destructors :
               i \in DOMAIN D /\ D[i] = static.destructors[i]
        /\ \A i \in DOMAIN scope.destructors :
               /\ d + i \in DOMAIN D /\ D[d + i].program = Now
               /\ D[d + i].index = scope.destructors[i]
        /\ \A i \in DOMAIN D :
               \/ i \in DOMAIN static.destructors
               \/ /\ i - d \in DOMAIN scope.destructors
                  /\ D[i].program = Now /\ D[i].index = scope.destructors[i - d]
    <2>1. /\ d \in Nat /\ DOMAIN D = 1 .. d + Len(des)
          /\ \A i \in DOMAIN static.destructors :
                 i \in DOMAIN D /\ D[i] = static.destructors[i]
          /\ \A i \in DOMAIN des : d + i \in DOMAIN D /\ D[d + i] = des[i]
          /\ \A i \in DOMAIN D :
                 \/ i \in DOMAIN static.destructors
                 \/ i - d \in DOMAIN des /\ D[i] = des[i - d]
      BY <1>1, <1>3, Behind
    <2> HIDE DEF D, d
    <2> QED
      BY <1>3, <2>1
  <1> HIDE DEF C, D, n, d
  <1>8. \A i \in DOMAIN static.destructors : static.destructors[i].program # Now
    <2> SUFFICES ASSUME NEW i \in DOMAIN static.destructors
                 PROVE  static.destructors[i].program # Now
      OBVIOUS
    <2>1. PICK j \in DOMAIN static.code :
              static.code[j].program = static.destructors[i].program
      BY DEF Paired, ContextIsPaired
    <2>2. static.code[j].program \in DOMAIN program
      BY DEF IInv, CodeIsCompiled
    <2>3. DOMAIN program = 1 .. Len(program) /\ Len(program) \in Nat
      BY <1>1
    <2>4. Now \notin DOMAIN program
      BY <1>1, <2>3
    <2> QED
      BY <2>1, <2>2, <2>4
  <1>9. ASSUME NEW i \in DOMAIN D, NEW j \in DOMAIN D, i < j, D[i].program = D[j].program
        PROVE  D[i].index > D[j].index
    <2>1. CASE i \in DOMAIN static.destructors
      <3>1. j \in DOMAIN static.destructors
        BY <1>7, <1>8, <1>9, <2>1
      <3> QED
        BY <1>7, <1>9, <2>1, <3>1 DEF Paired, ContextIsPaired
    <2>2. CASE i \notin DOMAIN static.destructors
      <3>1. j \notin DOMAIN static.destructors
        <4>1. DOMAIN static.destructors = 1 .. d
          BY <1>1 DEF d
        <4> QED
          BY <1>7, <1>9, <2>2, <4>1
      <3>2. /\ i - d \in DOMAIN scope.destructors /\ D[i].index = scope.destructors[i - d]
            /\ j - d \in DOMAIN scope.destructors /\ D[j].index = scope.destructors[j - d]
        BY <1>7, <2>2, <3>1
      <3>3. i - d < j - d
        BY <1>7, <1>9
      <3> QED
        BY <3>2, <3>3 DEF Paired, ScopeIsPaired, InReverse
    <2> QED
      BY <2>1, <2>2
  <1>10. ASSUME NEW i \in DOMAIN D
         PROVE  \E j \in DOMAIN C : C[j].program = D[i].program
    <2>1. CASE i \in DOMAIN static.destructors
      <3>1. PICK j \in DOMAIN static.code :
                static.code[j].program = static.destructors[i].program
        BY <2>1 DEF Paired, ContextIsPaired
      <3> QED
        BY <1>6, <1>7, <2>1, <3>1
    <2>2. CASE i \notin DOMAIN static.destructors
      <3>1. 1 \in DOMAIN scope.units
        BY <1>1
      <3>2. n + 1 \in DOMAIN C /\ C[n + 1].program = Now
        BY <1>6, <3>1
      <3>3. D[i].program = Now
        BY <1>7, <1>10, <2>2
      <3> QED
        BY <3>2, <3>3
    <2> QED
      BY <2>1, <2>2
  <1>11. ASSUME NEW i \in DOMAIN C, C[i].unit.var # NoVar
         PROVE  \E j \in DOMAIN D :
                   D[j].program = C[i].program /\ D[j].index = C[i].unit.index
    <2>1. CASE i \in DOMAIN static.code
      <3>1. PICK j \in DOMAIN static.destructors :
                /\ static.destructors[j].program = static.code[i].program
                /\ static.destructors[j].index = static.code[i].unit.index
        BY <1>6, <1>11, <2>1 DEF Paired, ContextIsPaired
      <3> QED
        BY <1>6, <1>7, <2>1, <3>1
    <2>2. CASE i \notin DOMAIN static.code
      <3>1. /\ i - n \in DOMAIN scope.units /\ C[i].unit = scope.units[i - n]
            /\ C[i].program = Now
        BY <1>6, <2>2
      <3>2. PICK j \in DOMAIN scope.destructors :
                scope.destructors[j] = scope.units[i - n].index
        BY <1>11, <3>1 DEF Paired, ScopeIsPaired
      <3>3. /\ d + j \in DOMAIN D /\ D[d + j].program = Now
            /\ D[d + j].index = scope.destructors[j]
        BY <1>7, <3>2
      <3> QED
        BY <3>1, <3>2, <3>3
    <2> QED
      BY <2>1, <2>2
  <1>12. ASSUME NEW f \in DOMAIN static.frames, NEW b \in static.frames[f]
         PROVE  \E i \in DOMAIN C : C[i].unit.var # NoVar /\ C[i].unit.index = b
    <2>1. PICK i \in DOMAIN static.code :
              static.code[i].unit.var # NoVar /\ static.code[i].unit.index = b
      BY <1>12 DEF Paired, FramesAreBuilt
    <2> QED
      BY <1>6, <2>1
  <1>13. AddCommands.code = C /\ AddCommands.destructors = D
         /\ AddCommands.frames = static.frames
    BY <1>5
  <1>14. ContextIsPaired(AddCommands)
    BY <1>9, <1>10, <1>11, <1>13 DEF ContextIsPaired
  <1> QED
    BY <1>12, <1>13, <1>14 DEF FramesAreBuilt
(* A run adds a frame of what its commands construct, a cleanup removes it. *)
LEMMA GlobalCodeIsPaired ==
    ASSUME IInv, Paired, NEW who,
           RunGlobalCode(who) \/ CleanupGlobalMemory(who)
    PROVE  Paired'
  <1>1. /\ static.code \in Seq(Command)
        /\ static.frames \in Seq(SUBSET Nat)
        /\ static = [code |-> static.code, destructors |-> static.destructors,
                     frames |-> static.frames]
    BY DEF IInv, Types
  <1>2. ASSUME UNCHANGED scope, static'.code = static.code,
               static'.destructors = static.destructors,
               \A f \in DOMAIN static'.frames :
                   \/ f \in DOMAIN static.frames /\ static'.frames[f] = static.frames[f]
                   \/ \E done \in 0 .. Len(static.code) : static'.frames[f] = Built(done)
        PROVE  Paired'
    <2>1. ScopeIsPaired(scope') /\ ContextIsPaired(static')
      BY <1>2 DEF Paired, ContextIsPaired
    <2>2. ASSUME NEW f \in DOMAIN static'.frames, NEW b \in static'.frames[f]
          PROVE  \E i \in DOMAIN static.code :
                    static.code[i].unit.var # NoVar /\ static.code[i].unit.index = b
      <3>1. CASE f \in DOMAIN static.frames /\ static'.frames[f] = static.frames[f]
        BY <2>2, <3>1 DEF Paired, FramesAreBuilt
      <3>2. ASSUME NEW done \in 0 .. Len(static.code), static'.frames[f] = Built(done)
            PROVE  \E i \in DOMAIN static.code :
                      static.code[i].unit.var # NoVar /\ static.code[i].unit.index = b
        <4>1. PICK i \in 1 .. done :
                  static.code[i].unit.var # NoVar /\ static.code[i].unit.index = b
          BY <2>2, <3>2 DEF Built
        <4>2. i \in DOMAIN static.code
          BY <1>1
        <4> QED
          BY <4>1, <4>2
      <3> QED
        BY <1>2, <3>1, <3>2
    <2>3. FramesAreBuilt(static')
      BY <1>2, <2>2 DEF FramesAreBuilt
    <2> QED
      BY <2>1, <2>3 DEF Paired
  <1>3. CASE \E why : Crash(why)
    BY <1>3 DEF Crash, compiling, Paired
  <1>4. CASE RunGlobalCode(who) /\ ~ \E why : Crash(why)
    <2>1. PICK done \in 0 .. Len(static.code) :
              RunCommands(done) /\ UNCHANGED compiling
      BY <1>4 DEF RunGlobalCode
    <2>2. static' = [code |-> static.code, destructors |-> static.destructors,
                     frames |-> Append(static.frames, Built(done))]
      BY <1>1, <2>1 DEF RunCommands
    <2>3. \A f \in DOMAIN Append(static.frames, Built(done)) :
              \/ /\ f \in DOMAIN static.frames
                 /\ Append(static.frames, Built(done))[f] = static.frames[f]
              \/ Append(static.frames, Built(done))[f] = Built(done)
      <3> DEFINE new == Built(done)
      <3> HIDE DEF new
      <3>1. \A f \in DOMAIN Append(static.frames, new) :
                \/ /\ f \in DOMAIN static.frames
                   /\ Append(static.frames, new)[f] = static.frames[f]
                \/ Append(static.frames, new)[f] = new
        BY <1>1
      <3> QED
        BY <3>1 DEF new
    <2> QED
      BY <1>2, <2>1, <2>2, <2>3 DEF compiling
  <1>5. CASE CleanupGlobalMemory(who) /\ ~ \E why : Crash(why)
    <2>1. /\ static.frames # <<>> /\ UNCHANGED compiling
          /\ static' = [static EXCEPT !.frames = Front(@)]
      BY <1>5 DEF CleanupGlobalMemory
    <2>2. static' = [code |-> static.code, destructors |-> static.destructors,
                     frames |-> Front(static.frames)]
      BY <1>1, <2>1
    <2>3. \A f \in DOMAIN Front(static.frames) :
              f \in DOMAIN static.frames /\ Front(static.frames)[f] = static.frames[f]
      BY <1>1, <2>1 DEF Front
    <2> QED
      BY <1>2, <2>1, <2>2, <2>3 DEF compiling
  <1> QED
    BY <1>3, <1>4, <1>5

LEMMA PairedNext == IInv /\ Paired /\ [Next]_vars => Paired'
  <1> SUFFICES ASSUME IInv, Paired, [Next]_vars PROVE Paired'
    OBVIOUS
  <1>1. CASE UNCHANGED <<scope, static>>
    BY <1>1 DEF Paired
  <1>2. CASE UNCHANGED vars
    BY <1>1, <1>2 DEF vars, compiling
  <1>3. CASE \/ \E script \in Scripts : Compile(script)
             \/ GiveUp
    BY <1>1, <1>3 DEF Compile, GiveUp
  <1>4. CASE \/ ParseDeclaration \/ ParseDefinition \/ ParseCall
             \/ ParseFunction \/ ParseCast
    BY <1>4, ParseIsPaired
  <1>5. CASE ExtractCode
    <2>1. \/ UNCHANGED <<scope, static>>
          \/ scope' = scope /\ static' = AddCommands /\ scope.units # <<>>
      BY <1>5 DEF ExtractCode, Crash, compiling
    <2> QED
      BY <1>1, <2>1, CommandsArePaired DEF Paired
  <1>6. CASE CompileLambda
    <2>1. /\ static' = static
          /\ scope' = scope \/ scope' = AddFunction(scope, Len(compiles))
      BY <1>6 DEF CompileLambda, Crash, compiling
    <2>2. scope \in ScopeType
      BY DEF IInv, Types
    <2>3. /\ scope'.units = scope.units /\ scope'.destructors = scope.destructors
          /\ scope'.count = scope.count
      BY <2>1, <2>2 DEF AddFunction, ScopeType
    <2> QED
      BY <2>1, <2>3 DEF Paired, ScopeIsPaired
  <1>7. CASE \/ \E p \in DOMAIN program :
                    \/ DetachScriptProgram(p) \/ DeleteProgram(p)
                    \/ DeleteLamdaProg(p) \/ RunTask(p) \/ RunFunction(p)
             \/ DestroySuite \/ DeleteTask
    <2>1. UNCHANGED <<scope, static>>
      BY <1>7 DEF DetachScriptProgram, DeleteProgram, DeleteLamdaProg, RunTask,
                  RunFunction, DestroySuite, DeleteTask, Crash, compiling
    <2> QED
      BY <1>1, <2>1
  <1>8. CASE \E who \in {TheScope} \cup DOMAIN program :
                 RunGlobalCode(who) \/ CleanupGlobalMemory(who)
    BY <1>8, GlobalCodeIsPaired
  <1> QED
    BY <1>2, <1>3, <1>4, <1>5, <1>6, <1>7, <1>8 DEF Next

LEMMA PairedInit == Init => Paired
  BY DEF Init, Paired, ScopeIsPaired, InReverse, ContextIsPaired, FramesAreBuilt
-----------------------------------------------------------------------------
(* The recursive function that selects members of a sequence exists.        *)
Selects(f, n, M, v) ==
    \A k \in 0 .. n :
        f[k] = IF k = 0 THEN <<>>
               ELSE IF k \in M THEN Append(f[k - 1], v[k]) ELSE f[k - 1]

LEMMA Selected ==
    ASSUME NEW n \in Nat, NEW M, NEW v, v \in [1 .. n -> Nat]
    PROVE  \E f \in [0 .. n -> Seq(Nat)] : Selects(f, n, M, v)
  <1> DEFINE V == Seq(Nat)
             empty == <<>>
             step == [k \in 1 .. n |-> [w \in V |->
                         IF k \in M THEN Append(w, v[k]) ELSE w]]
  <1>1. step \in [1 .. n -> [V -> V]]
    <2>1. \A k \in 1 .. n : \A w \in V : Append(w, v[k]) \in V
      OBVIOUS
    <2> HIDE DEF V
    <2> QED
      BY <2>1
  <1>2. empty \in V
    OBVIOUS
  <1> HIDE DEF V, empty
  <1>3. \A k \in 1 .. n : \A w \in V :
            step[k][w] = IF k \in M THEN Append(w, v[k]) ELSE w
    OBVIOUS
  <1> HIDE DEF step
  <1>4. PICK f \in [0 .. n -> V] :
            f[0] = empty /\ \A k \in 1 .. n : f[k] = step[k][f[k - 1]]
    BY ONLY <1>1, <1>2, Iterates
  <1>5. \A k \in 0 .. n :
            f[k] = IF k = 0 THEN <<>>
                   ELSE IF k \in M THEN Append(f[k - 1], v[k]) ELSE f[k - 1]
    <2> SUFFICES ASSUME NEW k \in 0 .. n, k # 0
                 PROVE  f[k] = IF k \in M THEN Append(f[k - 1], v[k]) ELSE f[k - 1]
      BY <1>4 DEF empty
    <2>1. k \in 1 .. n /\ k - 1 \in 0 .. n
      OBVIOUS
    <2>2. f[k - 1] \in V
      BY <1>4, <2>1
    <2> QED
      BY <1>3, <1>4, <2>1, <2>2
  <1> QED
    BY <1>5 DEF V, Selects

(* What a sequence of destroyed objects is: in reverse order, and those of   *)
(* the commands whose objects are marked.                                   *)
AreDue(commands, built, due) ==
    /\ due \in Seq(Nat) /\ InReverse(due)
    /\ \A x : (\E i \in DOMAIN due : due[i] = x) <=>
              \E k \in DOMAIN commands : commands[k].index = x /\ Marked(built, x)

(* The destructors of a cleanup: those of the marked objects, in the order  *)
(* of the commands.                                                        *)
LEMMA DueOnes ==
    ASSUME NEW commands \in Seq(Destructor), NEW built,
           \A i, j \in DOMAIN commands : i < j => commands[i].index > commands[j].index
    PROVE  AreDue(commands, built, Due(commands, built))
  <1> DEFINE n == Len(commands)
             marked(k) == Marked(built, commands[k].index)
             index(k) == commands[k].index
             Follows(f) == \A k \in 0 .. n :
                 f[k] = IF k = 0 THEN <<>>
                        ELSE IF marked(k) THEN Append(f[k - 1], index(k)) ELSE f[k - 1]
             due == CHOOSE f : f = [k \in 0 .. n |->
                        IF k = 0 THEN <<>>
                        ELSE IF marked(k) THEN Append(f[k - 1], index(k)) ELSE f[k - 1]]
             V == Seq(Nat)
  <1>1. n \in Nat /\ DOMAIN commands = 1 .. n /\ \A k \in 1 .. n : index(k) \in Nat
    <2>1. \A k \in DOMAIN commands : commands[k] \in Destructor
      OBVIOUS
    <2> QED
      BY <2>1 DEF Destructor
  <1>2. Due(commands, built) = due[n]
    BY DEF Due
  <1> HIDE DEF marked, index, n
  <1>3. \E f \in [0 .. n -> V] : Follows(f)
    <2> DEFINE M == {k \in 1 .. n : marked(k)}
               v == [k \in 1 .. n |-> index(k)]
    <2>1. v \in [1 .. n -> Nat] /\ \A k \in 1 .. n : k \in M <=> marked(k)
      BY <1>1
    <2>2. \A k \in 1 .. n : v[k] = index(k)
      OBVIOUS
    <2> HIDE DEF M, v
    <2>3. PICK f \in [0 .. n -> V] : Selects(f, n, M, v)
      <3> HIDE DEF n
      <3>1. n \in Nat
        BY <1>1
      <3>2. v \in [1 .. n -> Nat]
        BY <2>1
      <3> QED
        BY ONLY <3>1, <3>2, Selected
    <2>4. Follows(f)
      <3>1. \A k \in 0 .. n : k # 0 => k \in 1 .. n
        BY <1>1
      <3> QED
        BY <2>1, <2>2, <2>3, <3>1 DEF Selects
    <2> QED
      BY <2>4
  <1>4. Follows(due)
    <2>1. PICK f \in [0 .. n -> V] : Follows(f)
      BY <1>3
    <2>2. f = [k \in 0 .. n |->
                  IF k = 0 THEN <<>>
                  ELSE IF marked(k) THEN Append(f[k - 1], index(k)) ELSE f[k - 1]]
      BY <2>1
    <2>3. due = [k \in 0 .. n |->
                  IF k = 0 THEN <<>>
                  ELSE IF marked(k) THEN Append(due[k - 1], index(k)) ELSE due[k - 1]]
      BY <2>2
    <2> HIDE DEF due
    <2> QED
      BY <2>3
  <1> HIDE DEF due
  <1> DEFINE Holds(k, x) == \E j \in 1 .. k : index(j) = x /\ marked(j)
             Good(k) == /\ due[k] \in Seq(Nat)
                        /\ \A i, j \in DOMAIN due[k] : i < j => due[k][i] > due[k][j]
                        /\ \A x : (\E i \in DOMAIN due[k] : due[k][i] = x) <=> Holds(k, x)
             T == {k \in Nat : k <= n => Good(k)}
  <1>5. 0 \in T
    <2>1. due[0] = <<>>
      BY <1>1, <1>4
    <2>2. \A x : ~ Holds(0, x)
      OBVIOUS
    <2> HIDE DEF Holds
    <2>3. Good(0)
      BY <2>1, <2>2
    <2> HIDE DEF Good
    <2> QED
      BY <2>3
  <1>6. ASSUME NEW k \in Nat, k \in T
        PROVE  k + 1 \in T
    <2> SUFFICES ASSUME k + 1 <= n PROVE Good(k + 1)
      <3> HIDE DEF Good
      <3> QED
        BY <1>6
    <2>1. Good(k) /\ k + 1 \in 1 .. n /\ k + 1 \in 0 .. n /\ (k + 1) - 1 = k
      <3> HIDE DEF Good
      <3> QED
        BY <1>1, <1>6
    <2>2. due[k + 1] = IF marked(k + 1) THEN Append(due[k], index(k + 1)) ELSE due[k]
      BY <1>4, <2>1
    <2>3. \A x : Holds(k + 1, x) <=>
                     Holds(k, x) \/ (index(k + 1) = x /\ marked(k + 1))
      <3>1. \A j : j \in 1 .. k + 1 <=> j \in 1 .. k \/ j = k + 1
        BY <1>6
      <3> QED
        BY <3>1
    <2>4. \A x : Holds(k, x) => x \in Nat /\ x > index(k + 1)
      <3> SUFFICES ASSUME NEW j \in 1 .. k
                   PROVE  index(j) \in Nat /\ index(j) > index(k + 1)
        OBVIOUS
      <3>1. j \in 1 .. n /\ j < k + 1
        BY <1>1, <1>6, <2>1
      <3> QED
        BY <1>1, <2>1, <3>1 DEF index
    <2> HIDE DEF Holds
    <2>5. CASE ~ marked(k + 1)
      BY <2>1, <2>2, <2>3, <2>5
    <2>6. CASE marked(k + 1)
      <3> DEFINE s == due[k]  t == due[k + 1]  m == Len(s)
      <3>1. /\ s \in Seq(Nat) /\ index(k + 1) \in Nat
            /\ t = Append(s, index(k + 1))
        BY <1>1, <2>1, <2>2, <2>6
      <3> HIDE DEF s, t
      <3>2. /\ t \in Seq(Nat) /\ m \in Nat /\ DOMAIN s = 1 .. m
            /\ DOMAIN t = 1 .. m + 1 /\ t[m + 1] = index(k + 1)
            /\ \A i \in 1 .. m : t[i] = s[i]
        BY <3>1
      <3>3. \A i \in 1 .. m : s[i] > index(k + 1)
        BY <2>1, <2>4, <3>2 DEF s
      <3>4. \A i, j \in DOMAIN s : i < j => s[i] > s[j]
        BY <2>1 DEF s
      <3> HIDE DEF m
      <3>5. \A i \in DOMAIN t : i \in 1 .. m \/ i = m + 1
        BY <3>2
      <3>6. ASSUME NEW i \in DOMAIN t, NEW j \in DOMAIN t, i < j
            PROVE  t[i] > t[j]
        <4>1. i \in 1 .. m
          BY <3>2, <3>6
        <4>2. CASE j \in 1 .. m
          BY <3>2, <3>4, <3>6, <4>1, <4>2
        <4>3. CASE j = m + 1
          BY <3>2, <3>3, <4>1, <4>3
        <4> QED
          BY <3>5, <4>2, <4>3
      <3>7. ASSUME NEW x
            PROVE  (\E i \in DOMAIN t : t[i] = x) <=> Holds(k + 1, x)
        <4>1. (\E i \in DOMAIN s : s[i] = x) <=> Holds(k, x)
          BY <2>1 DEF s
        <4>2. (\E i \in DOMAIN t : t[i] = x) <=>
                  (\E i \in DOMAIN s : s[i] = x) \/ index(k + 1) = x
          <5>1. m + 1 \in DOMAIN t /\ \A i \in 1 .. m : i \in DOMAIN t
            BY <3>2
          <5> QED
            BY <3>2, <3>5, <5>1
        <4> QED
          BY <2>3, <2>6, <4>1, <4>2
      <3> QED
        BY <3>2, <3>6, <3>7 DEF t
    <2> QED
      BY <2>5, <2>6
  <1>7. Good(n)
    <2>1. Nat \subseteq T
      <3> HIDE DEF T
      <3> QED
        BY <1>5, <1>6, Induct
    <2> HIDE DEF Good
    <2> QED
      BY <1>1, <2>1
  <1>8. \A x : Holds(n, x) <=>
                   \E k \in DOMAIN commands : commands[k].index = x /\ Marked(built, x)
    BY <1>1 DEF index, marked
  <1> QED
    BY <1>2, <1>7, <1>8 DEF AreDue, InReverse

(* The cleanup of a run.                                                   *)
LEMMA CleanupUndoes ==
    ASSUME IInv, Paired, OneProgram, NEW who, CleanupGlobalMemory(who),
           Len(static'.frames) < Len(static.frames),
           NEW built, built = static.frames[Len(static.frames)]
    PROVE  /\ built \subseteq Range(destroyed') /\ objects' \cap built = {}
           /\ \A i, j \in DOMAIN destroyed' : i < j => destroyed'[i] > destroyed'[j]
           /\ \A i \in DOMAIN destroyed' : \E b \in built : destroyed'[i] - b \in -3 .. 3
  <1> DEFINE commands == static.destructors
  <1>1. /\ static.code \in Seq(Command) /\ commands \in Seq(Destructor)
        /\ static.frames \in Seq(SUBSET Nat)
        /\ Len(static.frames) \in DOMAIN static.frames /\ built \in SUBSET Nat
    <2>1. /\ static.code \in Seq(Command) /\ commands \in Seq(Destructor)
          /\ static.frames \in Seq(SUBSET Nat)
      BY DEF IInv, Types
    <2>2. static.frames # <<>>
      BY DEF CleanupGlobalMemory, Crash
    <2>3. Len(static.frames) \in DOMAIN static.frames
      BY <2>1, <2>2
    <2> QED
      BY <2>1, <2>3
  <1>2. destroyed' = Due(commands, built) /\ objects' = objects \ Range(Due(commands, built))
    BY DEF CleanupGlobalMemory, Crash
  <1>3. \E p : \A i \in DOMAIN static.code : static.code[i].program = p
    <2> DEFINE P == {static.code[i].program : i \in DOMAIN static.code}
    <2>1. IsFiniteSet(DOMAIN static.code)
      <3>1. DOMAIN static.code = 1 .. Len(static.code) /\ Len(static.code) \in Nat
        BY <1>1
      <3> QED
        BY <3>1, FS_Interval
    <2>2. IsFiniteSet(P)
      <3> DEFINE f == [i \in DOMAIN static.code |-> static.code[i].program]
      <3>1. f \in Surjection(DOMAIN static.code, P)
        BY DEF Surjection
      <3> QED
        BY <2>1, <3>1, FS_Surjection
    <2>3. Cardinality(P) = 1
      BY DEF OneProgram
    <2> HIDE DEF P
    <2>4. PICK p : P = {p}
      BY <2>2, <2>3, FS_Singleton
    <2> QED
      BY <2>4 DEF P
  <1>4. \A i, j \in DOMAIN commands : i < j => commands[i].index > commands[j].index
    BY <1>3 DEF Paired, ContextIsPaired
  <1> DEFINE due == Due(commands, built)
  <1>5. /\ due \in Seq(Nat) /\ InReverse(due)
        /\ \A x : (\E i \in DOMAIN due : due[i] = x)
             <=> \E k \in DOMAIN commands : commands[k].index = x /\ Marked(built, x)
    <2>1. AreDue(commands, built, due)
      <3> HIDE DEF commands
      <3>1. commands \in Seq(Destructor)
        BY <1>1
      <3> QED
        BY <1>4, <3>1, DueOnes
    <2> HIDE DEF due
    <2> QED
      BY <2>1 DEF AreDue
  <1>6. \A b \in built : \E i \in DOMAIN due : due[i] = b
    <2> SUFFICES ASSUME NEW b \in built
                 PROVE  \E k \in DOMAIN commands : commands[k].index = b /\ Marked(built, b)
      BY <1>5
    <2>1. PICK i \in DOMAIN static.code :
              static.code[i].unit.var # NoVar /\ static.code[i].unit.index = b
      BY <1>1 DEF Paired, FramesAreBuilt
    <2>2. PICK k \in DOMAIN commands : commands[k].index = static.code[i].unit.index
      BY <2>1 DEF Paired, ContextIsPaired
    <2>3. b \in Int /\ b - b \in -3 .. 3
      BY <1>1
    <2>4. Marked(built, b)
      BY <2>3 DEF Marked
    <2> QED
      BY <2>1, <2>2, <2>4
  <1>7. ASSUME NEW i \in DOMAIN due
        PROVE  \E b \in built : due[i] - b \in -3 .. 3
    <2>1. Marked(built, due[i]) /\ due[i] \in Nat
      BY <1>5
    <2>2. PICK b \in built : b - due[i] \in -3 .. 3
      BY <2>1 DEF Marked
    <2>3. b \in Nat
      BY <1>1
    <2>4. due[i] - b \in -3 .. 3
      BY <2>1, <2>2, <2>3
    <2> QED
      BY <2>4
  <1> HIDE DEF due
  <1>8. built \subseteq Range(due)
    BY <1>6 DEF Range
  <1>9. destroyed' = due /\ objects' = objects \ Range(due)
    BY <1>2 DEF due
  <1> QED
    BY <1>5, <1>7, <1>8, <1>9 DEF InReverse

(* No other step takes a frame away.                                       *)
LEMMA FramesStay ==
    ASSUME IInv, [Next]_vars, Len(static'.frames) < Len(static.frames)
    PROVE  \E who : CleanupGlobalMemory(who)
  <1>1. /\ static.frames \in Seq(SUBSET Nat)
        /\ static = [code |-> static.code, destructors |-> static.destructors,
                     frames |-> static.frames]
    BY DEF IInv, Types
  <1>2. static' # static
    BY <1>1
  <1>3. static' # AddCommands
    <2>1. AddCommands.frames = static.frames
      BY <1>1 DEF AddCommands
    <2> QED
      BY <1>1, <2>1
  <1>4. ASSUME NEW who, RunGlobalCode(who)
        PROVE  FALSE
    <2>1. PICK done : RunCommands(done)
      BY <1>2, <1>4 DEF RunGlobalCode, Crash
    <2>2. static'.frames = Append(static.frames, Built(done))
      BY <1>1, <2>1 DEF RunCommands
    <2>3. Len(static'.frames) = Len(static.frames) + 1
      BY <1>1, <2>2
    <2> QED
      BY <1>1, <2>3
  <1>5. ~ ExtractCode
    BY <1>2, <1>3 DEF ExtractCode, Crash
  <1>6. ~ (ParseDeclaration \/ ParseDefinition \/ ParseCall \/ ParseFunction \/ ParseCast)
    BY <1>2 DEF ParseDeclaration, ParseDefinition, ParseCall, ParseFunction, ParseCast,
                ParseExpression, ParsedTo
  <1>7. /\ ~ \E script \in Scripts : Compile(script)
        /\ ~ GiveUp /\ ~ CompileLambda
    BY <1>2 DEF Compile, GiveUp, CompileLambda, Crash
  <1>8. /\ ~ \E p \in DOMAIN program :
                 \/ DetachScriptProgram(p) \/ DeleteProgram(p)
                 \/ DeleteLamdaProg(p) \/ RunTask(p) \/ RunFunction(p)
        /\ ~ DestroySuite /\ ~ DeleteTask
    BY <1>2 DEF DetachScriptProgram, DeleteProgram, DeleteLamdaProg, RunTask,
                RunFunction, DestroySuite, DeleteTask, Crash
  <1>9. Next
    BY <1>2 DEF vars
  <1> QED
    BY <1>4, <1>5, <1>6, <1>7, <1>8, <1>9 DEF Next

(* cleanupGlobalMemory destroys, for every script and however far the run   *)
(* came, each object the run has constructed, once and last first, and of   *)
(* the others only those declared up to three places away, as long as all  *)
(* commands of the static context are of one program.                      *)
THEOREM CleanupUndoesTheRun == Spec => CleanupUndoesRun
  <1> DEFINE Undone ==
          OneProgram /\ Len(static'.frames) < Len(static.frames) =>
              LET built == static.frames[Len(static.frames)]
              IN  /\ built \subseteq Range(destroyed') /\ objects' \cap built = {}
                  /\ \A i, j \in DOMAIN destroyed' :
                         i < j => destroyed'[i] > destroyed'[j]
                  /\ \A i \in DOMAIN destroyed' :
                         \E b \in built : destroyed'[i] - b \in -3 .. 3
  <1>1. ASSUME IInv, Paired, [Next]_vars
        PROVE  Undone
    BY <1>1, FramesStay, CleanupUndoes
  <1>2. IInv /\ Paired /\ [Next]_vars => [Undone]_vars
    BY <1>1
  <1>3. Init => IInv /\ Paired
    BY InvInit, PairedInit
  <1>4. IInv /\ Paired /\ [Next]_vars => IInv' /\ Paired'
    BY InvNext, PairedNext
  <1> QED
    BY <1>2, <1>3, <1>4, PTL DEF Spec, CleanupUndoesRun
=============================================================================
