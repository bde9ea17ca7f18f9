------------------------- MODULE OverloadResolution -------------------------
(***************************************************************************)
(* How the compiler links a call to one of the functions of its name, and   *)
(* an initialisation to one of the constructors of a type.  A parameter is  *)
(* an expression that may itself have several candidates, one for each type *)
(* it can return; every combination of them is a path.  On each path the    *)
(* overloads are filtered by what their parameters accept without a         *)
(* conversion and, only when none is left, with one.  Every acceptance has  *)
(* an accuracy, 0 for the best; their sum decides between constructors and  *)
(* orders the candidates of a call, of which two may not return one type.   *)
(*                                                                         *)
(* A type is a base and how it is passed.  Composite parameters ({1, 2}),   *)
(* refs of refs, variables declared in an assignment of semi refs and the   *)
(* units that are built for a candidate are left out.                       *)
(***************************************************************************)
EXTENDS Integers, Sequences, FiniteSets, Functions, SequencesExt

CONSTANTS
    Elements,       \* array base -> base of its elements
    Conversions,    \* <<source, target>> for which a casting function exists
    Accuracies,     \* <<source, target>> -> accuracy, where one is registered
    Calls,          \* the calls to link: kind, library, args, dynamic, outer
    OuterCalls      \* the calls that these are parameters of, with the others

VARIABLES
    call,           \* the call being linked
    paths,          \* filterCandidate: the paths not considered yet
    best,           \* filterCandidate: candidateMap, function id -> candidate
    outcome         \* what linking has come to

vars == <<call, paths, best, outcome>>

ScriptTypes == [base : STRING, mode : {"value", "ref", "semi"}]
CallTypes ==
    [kind : {"call", "assign", "construct", "copy"},
     library : Seq([params : Seq(ScriptTypes), result : ScriptTypes]),
     args : Seq(Seq(ScriptTypes)), dynamic : BOOLEAN,
     outer : {<<>>} \cup {<<c>> : c \in OuterCalls}]

ASSUME AccuraciesAssumption ==
    /\ DOMAIN Accuracies \subseteq Conversions
    /\ \A c \in DOMAIN Accuracies : Accuracies[c] \in Nat
ASSUME CallsAssumption == Calls \cup OuterCalls \subseteq CallTypes

Value(base) == [base |-> base, mode |-> "value"]
Ref(base)   == [base |-> base, mode |-> "ref"]
Semi(base)  == [base |-> base, mode |-> "semi"]
RefVoid     == Ref("void")

Casting(accuracy, cast) == [accuracy |-> accuracy, cast |-> cast]
Library == call.library

-----------------------------------------------------------------------------
\* Matching one parameter p of a function with one argument type a is a set of
\* at most one casting.  An array given for a ref is accepted whatever its
\* elements are; the casting then stays as it was initialised.
ArrayCasting(p, a) ==
    IF Elements[a.base] # p.base \/ a.mode = "semi"
    THEN Casting(IF Elements[a.base] # p.base THEN 0 ELSE 2, "none")
    ELSE Casting(2, "makeRef")

(* A wrong variant: the semi ref is passed on as a value. *)
FindMatchingLevel1WithoutDeref(p, a) ==
    IF p = a THEN {Casting(0, "none")}
    ELSE IF p = RefVoid /\ a.mode = "ref" THEN {Casting(2, "none")}
    ELSE CASE p.base = a.base /\ p.mode # "value" /\ a.mode = "semi" ->
                  {Casting(0, "none")}
           [] p.base # a.base /\ p.mode = "ref" /\ a.base \in DOMAIN Elements ->
                  {ArrayCasting(p, a)}
           [] p = Semi(a.base) /\ a.mode = "value" -> {Casting(2, "makeRef")}
           [] p = Value(a.base) /\ a.mode = "semi" -> {Casting(2, "none")}
           [] OTHER -> {}

FindMatchingLevel1(p, a) ==
    IF p = a THEN {Casting(0, "none")}
    ELSE IF p = RefVoid /\ a.mode = "ref" THEN {Casting(2, "none")}
    ELSE CASE p = Ref(a.base) /\ a.mode = "semi" -> {Casting(0, "none")}
           [] p.base # a.base /\ p.mode = "ref" /\ a.base \in DOMAIN Elements ->
                  {ArrayCasting(p, a)}
           [] p = Semi(a.base) /\ a.mode = "value" -> {Casting(2, "makeRef")}
           [] p = Value(a.base) /\ a.mode = "semi" -> {Casting(2, "deref")}
           [] OTHER -> {}

\* findConversionAccurative: -1 when none is registered.
ConversionAccuracy(source, target) ==
    IF <<source, target>> \in DOMAIN Accuracies
    THEN Accuracies[<<source, target>>] ELSE -1

\* The casting function of a type is a function of its name that takes the
\* argument's type; a semi ref may be dereferenced before.
FindMatchingLevel2(p, a) ==
    LET source == Value(a.base) IN
    IF <<a, p>> \in Conversions
    THEN {Casting(ConversionAccuracy(a, p), "convert")}
    ELSE IF a.mode = "semi" /\ p.mode # "semi" /\ <<source, p>> \in Conversions
    THEN {Casting(ConversionAccuracy(source, p) + 2, "derefConvert")}
    ELSE {}

FindMatching(p, a, level2) ==
    IF FindMatchingLevel1(p, a) # {} THEN FindMatchingLevel1(p, a)
    ELSE IF level2 THEN FindMatchingLevel2(p, a) ELSE {}

Accepts(f, path, level2) ==
    /\ Len(f.params) = Len(path)
    /\ \A i \in DOMAIN path : FindMatching(f.params[i], path[i], level2) # {}

Total(castings) ==
    LET sum[n \in 0 .. Len(castings)] ==
            IF n = 0 THEN 0 ELSE sum[n - 1] + castings[n].accuracy
    IN  sum[Len(castings)]

\* A function accepted on a path, with the castings of its parameters.
Candidate(f, path) ==
    LET castings == [i \in DOMAIN path |->
            CHOOSE c \in FindMatching(f.params[i], path[i], TRUE) : TRUE]
    IN  [path |-> path, castings |-> castings, total |-> Total(castings)]

-----------------------------------------------------------------------------
\* The number of choices for the parameters behind the first i.
ChoicesBehind(args) ==
    LET count[i \in 0 .. Len(args)] ==
            IF i = Len(args) THEN 1 ELSE Len(args[i + 1]) * count[i + 1]
    IN  count

(* A wrong variant: all parameters step together. *)
ListPathsInStep(args) ==
    [k \in 1 .. ChoicesBehind(args)[0] |->
        [i \in DOMAIN args |-> args[i][((k - 1) % Len(args[i])) + 1]]]

\* listPaths: every choice of one candidate per parameter, the last parameter
\* changing fastest.
ListPaths(args) ==
    LET behind == ChoicesBehind(args)
    IN  [k \in 1 .. behind[0] |-> [i \in DOMAIN args |->
            args[i][(((k - 1) \div behind[i]) % Len(args[i])) + 1]]]

\* An assignment of a value to a ref is no native one; neither is, where the
\* types are equal, one that needs a conversion.
MakesRef(path) == call.kind = "assign" /\ path[1] = Ref(path[2].base)
                                       /\ path[2].mode # "ref"
DefaultAssignment(path) == call.kind = "assign" /\ path[1] = path[2]

\* simpleFilter, called without and then with conversions; a single overload
\* of the right number of parameters is given both at once.
Filter(path, level2) ==
    {id \in DOMAIN Library : Accepts(Library[id], path, level2)}
OnlyOne(path) ==
    Cardinality({id \in DOMAIN Library :
                    Len(Library[id].params) = Len(path)}) = 1
Survivors(path) ==
    LET first == Filter(path, OnlyOne(path)) IN
    CASE MakesRef(path)                           -> {}
      [] ~MakesRef(path) /\ first # {}            -> first
      [] ~MakesRef(path) /\ first = {} /\ DefaultAssignment(path) -> {}
      [] OTHER                                    -> Filter(path, TRUE)

\* One turn of filterCandidate over the paths: a function found before keeps
\* the better of its two paths.
ConsiderPath ==
    LET path == Head(paths)
        new(id) == Candidate(Library[id], path)
        keeps(id) == /\ id \in DOMAIN best
                     /\ \/ id \notin Survivors(path)
                        \/ best[id].total =< new(id).total
    IN  /\ outcome.is = "linking" /\ call.kind \in {"call", "assign"}
        /\ paths # <<>>
        /\ paths' = Tail(paths)
        /\ best' = [id \in DOMAIN best \cup Survivors(path) |->
                       IF keeps(id) THEN best[id] ELSE new(id)]
        /\ UNCHANGED <<call, outcome>>

(* A wrong variant: only functions of one total are ambiguous. *)
AmbiguousByTotal ==
    \E f, g \in DOMAIN best : /\ f # g /\ best[f].total = best[g].total
                              /\ Library[f].result = Library[g].result

Ambiguous ==
    \E f, g \in DOMAIN best : f # g /\ Library[f].result = Library[g].result

\* std::sort by the total; functions of one total in any order.
Sorted ==
    {s \in SetToSeqs(DOMAIN best) :
        \A i \in 1 .. Len(s) - 1 : best[s[i]].total =< best[s[i + 1]].total}

\* The end of filterCandidate.
Decide ==
    /\ outcome.is = "linking" /\ call.kind \in {"call", "assign"}
    /\ paths = <<>>
    /\ IF Ambiguous \/ best = <<>>
       THEN outcome' = [is |-> "refused", functions |-> <<>>]
       ELSE \E s \in Sorted : outcome' = [is |-> "found", functions |-> s]
    /\ UNCHANGED <<call, paths, best>>

\* completeFunctionTree: what filterCandidate refused, for whatever reason, is
\* a call of the dynamic function of that name, if there is one.
FallBack ==
    /\ outcome.is = "refused"
    /\ outcome' = [is |-> IF call.dynamic THEN "dynamic" ELSE "notFound",
                   functions |-> <<>>]
    /\ UNCHANGED <<call, paths, best>>

\* The candidates found for a parameter of another call, in their order.
LinkOuter ==
    LET types == [i \in DOMAIN outcome.functions |->
                     Library[outcome.functions[i]].result]
        outer == call.outer[1]
        args  == <<types>> \o outer.args
    IN  /\ outcome.is = "found" /\ call.outer # <<>>
        /\ call' = [outer EXCEPT !.args = args]
        /\ paths' = ListPaths(args)
        /\ best' = <<>>
        /\ outcome' = [is |-> "linking", functions |-> <<>>]

\* link: the root of an expression must have exactly one candidate.
LinkRoot ==
    /\ outcome.is = "found" /\ call.outer = <<>>
    /\ outcome' = [outcome EXCEPT
           !.is = IF Len(outcome.functions) = 1 THEN "linked" ELSE "notFound"]
    /\ UNCHANGED <<call, paths, best>>

-----------------------------------------------------------------------------
(* A wrong variant: the last of the list, whatever it costs. *)
SelectLast(ids, path) == CHOOSE id \in ids : \A other \in ids : other =< id

\* selectMultiCandidates with conversions at once, then selectSingleCandidate:
\* the least total, the first of the list among equals.
SelectSingle(ids, path) ==
    LET total(id) == Candidate(Library[id], path).total
    IN  CHOOSE id \in ids : \A other \in ids :
            total(id) < total(other) \/ (total(id) = total(other) /\ id =< other)

Select(ids) ==
    /\ outcome' = IF ids = {}
                  THEN [is |-> "notFound", functions |-> <<>>]
                  ELSE [is |-> "constructed",
                        functions |-> <<SelectSingle(ids, paths[1])>>]
    /\ UNCHANGED <<call, paths, best>>

\* findMatchingConstructor for an object initialised with several values.
SelectConstructor ==
    /\ outcome.is = "linking" /\ call.kind = "construct"
    /\ Select(Filter(paths[1], TRUE))

\* getBinaryConstructor: one whose parameter is of the very type first.
SelectBinaryConstructor ==
    LET exact == {id \in DOMAIN Library : Library[id].params = paths[1]}
    IN  /\ outcome.is = "linking" /\ call.kind = "copy"
        /\ Select(IF exact # {} THEN exact ELSE Filter(paths[1], TRUE))

-----------------------------------------------------------------------------
Init ==
    /\ call \in Calls
    /\ paths = ListPaths(call.args)
    /\ best = <<>>
    /\ outcome = [is |-> "linking", functions |-> <<>>]

Next ==
    \/ ConsiderPath
    \/ Decide
    \/ FallBack
    \/ LinkOuter
    \/ LinkRoot
    \/ SelectConstructor
    \/ SelectBinaryConstructor

Spec == Init /\ [][Next]_vars

-----------------------------------------------------------------------------
AllPaths == {p \in [DOMAIN call.args -> UNION {Range(call.args[i]) :
                                               i \in DOMAIN call.args}] :
                \A i \in DOMAIN p : p[i] \in Range(call.args[i])}

\* A candidate stands for the cheapest of the combinations of its parameters'
\* candidates that it accepts, whatever the order in which they were listed;
\* and a function that accepts one without a conversion is not left out.
CandidatesAreTheCheapest ==
    (call.kind = "call" /\ outcome.is \in {"found", "linked", "refused"}) =>
        \A id \in DOMAIN Library :
            LET all == {p \in AllPaths : Accepts(Library[id], p, FALSE)} IN
            /\ all # {} => id \in DOMAIN best
            /\ id \in DOMAIN best => best[id].path \in AllPaths
            /\ id \in DOMAIN best => \A p \in all :
                   best[id].total =< Candidate(Library[id], p).total

\* What a casting makes of a type is what the parameter takes.
Fits(p, a, cast) ==
    CASE cast = "none"         -> \/ p = a
                                  \/ p.mode = "ref" /\ a.mode # "value"
      [] cast = "makeRef"      -> p.mode # "value" /\ a.mode = "value"
      [] cast = "deref"        -> p.mode = "value" /\ a.mode = "semi"
      [] cast = "convert"      -> <<a, p>> \in Conversions
      [] cast = "derefConvert" -> /\ a.mode = "semi"
                                  /\ <<Value(a.base), p>> \in Conversions

\* An array that is passed for a ref to its elements though it has others, or
\* though it is a ref itself, which the casting takes the address of.
PassedAsElements(p, a) ==
    /\ p.mode = "ref" /\ p.base # a.base /\ a.base \in DOMAIN Elements
    /\ Elements[a.base] # p.base \/ a.mode = "ref"

\* Every argument of a candidate reaches its function as the parameter's type:
\* a value where a value is read, an address where one is taken, and through
\* the casting function of the types where it is converted.  An array for a ref
\* is looked at no further: with other elements, or given by a ref, it is no
\* ref to what the parameter says.
ArgumentsFit ==
    outcome.is \in {"found", "linked"} =>
        \A id \in Range(outcome.functions) : \A i \in DOMAIN best[id].path :
            LET p == Library[id].params[i]
                a == best[id].path[i]
            IN  \/ Fits(p, a, best[id].castings[i].cast)
                \/ PassedAsElements(p, a)

ExactComesFirst ==
    (\E id \in DOMAIN Library : Library[id].params \in AllPaths) =>
        best[outcome.functions[1]].total = 0
CandidatesAreDistinct ==
    \A f, g \in Range(outcome.functions) :
        Library[f].result = Library[g].result => f = g
CheapestComesFirst ==
    \A i, j \in DOMAIN outcome.functions : i < j =>
        best[outcome.functions[i]].total =< best[outcome.functions[j]].total

\* The candidates of a call can be told apart by what they return, the cheapest
\* first: sorting the same functions in another order links the same ones, ties
\* of the total aside.  Where a function takes the types of some path as they
\* are, the first does, and neither ambiguity nor a conversion gets in its way.
\* (With an accuracy for every conversion.)
CandidatesAreInOrder ==
    outcome.is \in {"found", "linked"} =>
        /\ CandidatesAreDistinct /\ CheapestComesFirst
        /\ call.kind = "call" => ExactComesFirst

\* "best match": an object is initialised by the constructor that takes every
\* value as it is, where there is one.
BestMatchIsChosen ==
    outcome.is = "constructed" =>
        \A id \in DOMAIN Library :
            Library[id].params = paths[1] =>
                Candidate(Library[outcome.functions[1]], paths[1]).total = 0
=============================================================================
