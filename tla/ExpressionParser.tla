-------------------------- MODULE ExpressionParser --------------------------
(***************************************************************************)
(* From the tokens of an expression to its tree.  readExpression turns     *)
(* tokens into units and tells unary from binary operators by the unit     *)
(* before; compile puts the units one by one on an operator stack and an   *)
(* output stack, one pair of them (a layer) for each open bracket and each *)
(* parameter.  The clauses of a conditional operator are compiled by       *)
(* nested calls that share the position in the list of units.              *)
(*                                                                         *)
(* Names, values and types are left out but for the one distinction the    *)
(* parser makes: a type in round brackets is a cast.  Lambda expressions,  *)
(* strings and keywords are not modelled.                                  *)
(***************************************************************************)
EXTENDS Integers, Sequences, FiniteSets, SequencesExt

CONSTANTS Sources,  \* tokens, with the tree they stand for
          Depth     \* levels that are looked into when the operands are read

VARIABLES
    source,         \* the expression that is compiled
    read,           \* how many of its tokens have been read
    units,          \* the units read
    activations,    \* compile, and the clauses it is inside of
    next,           \* the position in the units, shared by all of them
    phase,
    result,         \* expList
    dropped,        \* whether a clause has left out expressions: a history
    lost            \* the units that an error inside has lost: a history

vars == <<source, read, units, activations, next, phase, result, dropped, lost>>

Token == {"-", "+", "*", "++", "assign", "eq", "question", "choice",
          "variable", "name", "type", "number",
          "(", "{", "[", ",", "round", "curly", "square"}

ASSUME SourcesAssumption == \A s \in Sources : s.tokens \in Seq(Token)
ASSUME DepthAssumption == Depth \in Nat
-----------------------------------------------------------------------------
(* Units and trees. *)

(* Right-to-left operators are odd.  "clause" is the dummy function that    *)
(* collects what stands between ? and :.                                    *)
Priority ==
    [call |-> 220, subscript |-> 220, postfix |-> 220, cast |-> 220,
     neg |-> 211, prefix |-> 211, deref |-> 211,
     mul |-> 170, add |-> 160, sub |-> 160, eq |-> 130,
     question |-> 71, clause |-> 71, assign |-> 61, choice |-> 50]

MaxParam ==
    [call |-> 2, subscript |-> 2, postfix |-> 1, cast |-> 1,
     neg |-> 1, prefix |-> 1, deref |-> 1,
     mul |-> 2, add |-> 2, sub |-> 2, eq |-> 2,
     question |-> 3, clause |-> 1, assign |-> 2, choice |-> 1]

Operand == {"variable", "name", "type", "number", "negative"}
OpeningOf == [round |-> "(", curly |-> "{", square |-> "["]

(* A unit of the list is a node without params; i is its index there, 0 if  *)
(* it is none of them.                                                      *)
Node(op, i, args) == [op |-> op, i |-> i, args |-> args]
Unit(op) == Node(op, 0, <<>>)

IsFunction(node) == node.op \in DOMAIN Priority
IsOperand(node) == node.op \in Operand
IsFull(node) == IsFunction(node) /\ Len(node.args) >= MaxParam[node.op]

(* f stays on the stack below g. *)
IsOrdered(f, g) ==
    \/ Priority[f.op] < Priority[g.op]
    \/ Priority[f.op] = Priority[g.op] /\ Priority[f.op] % 2 = 1
-----------------------------------------------------------------------------
(* readExpression *)

PossiblyPrefix(list) ==
    list = <<>> \/ Last(list).op \in {"(", "{", "[", ",", "question", "choice"}

(* A wrong variant: the minus after an operator is a binary one. *)
ReadMinusAsBinary(list) ==
    IF PossiblyPrefix(list) THEN Append(list, Unit("neg"))
    ELSE IF Last(list).op = "sub" THEN Append(Front(list), Unit("add"))
    ELSE IF Last(list).op = "add" THEN Append(Front(list), Unit("sub"))
    ELSE Append(list, Unit("sub"))

(* Two signs become one. *)
ReadMinus(list) ==
    IF PossiblyPrefix(list) THEN Append(list, Unit("neg"))
    ELSE IF Last(list).op = "sub" THEN Append(Front(list), Unit("add"))
    ELSE IF Last(list).op = "add" THEN Append(Front(list), Unit("sub"))
    ELSE IF IsFunction(Last(list)) THEN Append(list, Unit("neg"))
    ELSE Append(list, Unit("sub"))

AfterBinary(list) == IsFunction(Last(list)) /\ MaxParam[Last(list).op] >= 2

ReadPlus(list) ==
    IF PossiblyPrefix(list) \/ AfterBinary(list) THEN list ELSE Append(list, Unit("add"))

ReadStar(list) ==
    IF PossiblyPrefix(list) \/ AfterBinary(list) THEN Append(list, Unit("deref"))
    ELSE Append(list, Unit("mul"))

ReadIncrement(list) ==
    IF list # <<>> /\ Last(list).op = "variable" THEN Append(list, Unit("postfix"))
    ELSE Append(list, Unit("prefix"))

(* The sign of a number becomes part of it. *)
ReadNumber(list) ==
    IF list # <<>> /\ Last(list).op = "neg" THEN Append(Front(list), Unit("negative"))
    ELSE Append(list, Unit("number"))

Read(list, token) ==
    CASE token = "-"      -> ReadMinus(list)
      [] token = "+"      -> ReadPlus(list)
      [] token = "*"      -> ReadStar(list)
      [] token = "++"     -> ReadIncrement(list)
      [] token = "number" -> ReadNumber(list)
      [] token = "{"      -> list \o <<Unit("name"), Unit("{")>>
      [] OTHER            -> Append(list, Unit(token))

(* numberedForUnit *)
Numbered(list) == [i \in 1..Len(list) |-> [list[i] EXCEPT !.i = i]]

(* precheck *)
Separated(list) ==
    /\ list # <<>>
    /\ \A i \in 1..(Len(list) - 1) : ~ (IsOperand(list[i]) /\ IsOperand(list[i + 1]))
-----------------------------------------------------------------------------
(* The stacks.  Layers are the input list of a call, never empty. *)

Failure == <<>>
EmptyLayer == [out |-> <<>>, ops |-> <<>>]

Top(layers) == Last(layers)
Replaced(layers, layer) == Append(Front(layers), layer)
PushOperator(layer, node) == [layer EXCEPT !.ops = Append(@, node)]
PushOutput(layer, nodes) == [layer EXCEPT !.out = @ \o nodes]

(* A wrong variant: what is popped first becomes the first parameter. *)
ApplyPushingBack(layer) ==
    LET f     == Last(layer.ops)
        taken == Min({MaxParam[f.op], Len(layer.out)})
        rest  == Len(layer.out) - taken
    IN  [out |-> Append(SubSeq(layer.out, 1, rest),
                        [f EXCEPT !.args = Reverse(SubSeq(layer.out, rest + 1, Len(layer.out)))]),
         ops |-> Front(layer.ops)]

(* The operator on top takes its parameters from the output, as many as it  *)
(* has room for and there are, and becomes output.                          *)
Apply(layer) ==
    LET f     == Last(layer.ops)
        taken == Min({MaxParam[f.op], Len(layer.out)})
        rest  == Len(layer.out) - taken
    IN  [out |-> Append(SubSeq(layer.out, 1, rest),
                        [f EXCEPT !.args = SubSeq(layer.out, rest + 1, Len(layer.out))]),
         ops |-> Front(layer.ops)]

(* Operators are applied down to the first that stays. *)
ApplyUntil(layer, Stays(_)) ==
    LET kept == Max({0} \union {j \in 1..Len(layer.ops) : Stays(layer.ops[j])})
        applied[n \in 0..Len(layer.ops)] ==
            IF n = 0 THEN layer ELSE Apply(applied[n - 1])
    IN  applied[Len(layer.ops) - kept]

MakeExpression(layer) ==
    IF layer.out = <<>> THEN layer
    ELSE ApplyUntil(layer, LAMBDA f : ~ IsFunction(f))

(* A wrong variant: one operator is applied at most. *)
ReducedOnce(layer, f) ==
    IF layer.ops # <<>> /\ IsFunction(Last(layer.ops)) /\ ~ IsOrdered(Last(layer.ops), f)
      THEN Apply(layer) ELSE layer

(* putFunction, but for what it does with the function itself. *)
Reduced(layer, f) ==
    ApplyUntil(layer, LAMBDA g : ~ IsFunction(g) \/ IsOrdered(g, f))

PutFunction(layers, f) ==
    Replaced(layers, PushOperator(Reduced(Top(layers), f), f))

IsSingle(layer) == Len(layer.out) = 1 /\ layer.ops = <<>>

OpenBracket(layers, unit) ==
    Append(Replaced(layers, PushOperator(Top(layers), unit)), EmptyLayer)

Separate(layers) == Append(Replaced(layers, MakeExpression(Top(layers))), EmptyLayer)

(* The layer whose bracket the closing one belongs to, 0 if there is none:  *)
(* every layer above holds one parameter.                                   *)
OwnerOf(layers, opening) ==
    LET opened == {k \in 1..Len(layers) :
                      layers[k].ops # <<>> /\ Last(layers[k].ops).op = opening}
        owner  == Max({0} \union opened)
    IN  IF \A j \in (owner + 1)..Len(layers) : IsSingle(layers[j]) THEN owner ELSE 0

(* The unit before an opening bracket: the operator or the output on top,   *)
(* the one with the higher index if both stood before the bracket.          *)
PreviousUnit(layer, bracket) ==
    LET before == {node \in {layer.ops[j] : j \in {Len(layer.ops)} \ {0}} : node.i < bracket.i}
        output == {node \in {layer.out[j] : j \in {Len(layer.out)} \ {0}} :
                      node.i < bracket.i /\ \A f \in before : node.i > f.i}
    IN  IF output # {} THEN output ELSE before

(* Brackets behind a complete unit are those of a call. *)
IsCallee(node) ==
    ~ IsFunction(node) \/ IsFull(node) \/ node.op \in {"call", "subscript"}

CloseBracket(layers, unit) ==
    LET made    == MakeExpression(Top(layers))
        filled  == IF made.out = <<>> THEN Front(layers) ELSE Replaced(layers, made)
        opening == OpeningOf[unit.op]
        k       == OwnerOf(filled, opening)
        params  == [j \in 1..(Len(filled) - k) |-> filled[k + j].out[1]]
        bracket == Last(filled[k].ops)
        layer   == [filled[k] EXCEPT !.ops = Front(@)]
        below   == SubSeq(filled, 1, k)
    IN  IF made.ops # <<>> \/ k = 0 THEN Failure
        ELSE IF Len(params) = 1 /\ params[1].op = "type" /\ unit.op = "round"
          THEN Replaced(below, PushOperator(layer, Node("cast", params[1].i, <<>>)))
        ELSE IF \E node \in PreviousUnit(layer, bracket) : IsCallee(node)
          THEN LET called == PutFunction(Replaced(below, layer), Unit("call"))
               IN  Replaced(called, PushOutput(Top(called), <<Node("params", 0, params)>>))
        ELSE Replaced(below, PushOutput(layer, params))

CloseSquareBracket(layers) ==
    LET made   == MakeExpression(Top(layers))
        filled == Replaced(layers, made)
        k      == OwnerOf(filled, "[")
        params == [j \in 1..(Len(filled) - k) |-> filled[k + j].out[1]]
        layer  == [filled[k] EXCEPT !.ops = Front(@)]
        called == PutFunction(Append(SubSeq(filled, 1, k - 1), layer), Unit("subscript"))
    IN  IF ~ IsSingle(made) \/ k = 0 THEN Failure
        ELSE Replaced(called, PushOutput(Top(called), <<Node("params", 0, params)>>))

(* putAnExpUnit, for all but the conditional operator. *)
PutAnExpUnit(layers, unit) ==
    CASE IsFunction(unit)               -> PutFunction(layers, unit)
      [] IsOperand(unit)                -> Replaced(layers, PushOutput(Top(layers), <<unit>>))
      [] unit.op \in {"(", "{", "["}    -> OpenBracket(layers, unit)
      [] unit.op = ","                  -> Separate(layers)
      [] unit.op \in {"round", "curly"} -> CloseBracket(layers, unit)
      [] unit.op = "square"             -> CloseSquareBracket(layers)

(* makeExpressionList: all layers or none, the last one first. *)
MakeExpressionList(layers) ==
    LET made == [j \in 1..Len(layers) |-> MakeExpression(layers[j])]
    IN  IF \E j \in 1..Len(layers) : ~ IsSingle(made[j]) THEN Failure
        ELSE Reverse([j \in 1..Len(layers) |-> made[j].out[1]])
-----------------------------------------------------------------------------
Activation(clause, question, function) ==
    [clause |-> clause, question |-> question,
     layers |-> <<IF clause = "none" THEN EmptyLayer ELSE PushOperator(EmptyLayer, function)>>]

Init ==
    /\ source \in Sources
    /\ read = 0 /\ units = <<>> /\ activations = <<>> /\ next = 1
    /\ phase = "reading" /\ result = <<>> /\ dropped = FALSE /\ lost = {}

ReadToken ==
    /\ phase = "reading" /\ read < Len(source.tokens)
    /\ units' = Read(units, source.tokens[read + 1])
    /\ read' = read + 1
    /\ UNCHANGED <<source, activations, next, phase, result, dropped, lost>>

Compile ==
    /\ phase = "reading" /\ read = Len(source.tokens)
    /\ units' = Numbered(units)
    /\ IF Separated(units)
         THEN /\ activations' = <<Activation("none", Unit("none"), Unit("none"))>>
              /\ phase' = "compiling"
         ELSE activations' = activations /\ phase' = "rejected"
    /\ UNCHANGED <<source, read, next, result, dropped, lost>>

Compiling == phase = "compiling"
Current == Last(activations)
AtUnit == Compiling /\ next <= Len(units)
AtEnd == Compiling /\ next > Len(units)
Put == PutAnExpUnit(Current.layers, units[next])

(* The function of the clause has got its parameter, on top of the output. *)
IsCollected(layers) ==
    /\ layers # Failure /\ Current.clause # "none"
    /\ layers[1].out # <<>>
    /\ Last(layers[1].out).op = (IF Current.clause = "if" THEN "clause" ELSE "choice")
    /\ Last(layers[1].out).args # <<>>

(* The clause takes its parameter only; expressions that brackets or units  *)
(* without an operator between them have left beside it are not looked at.  *)
LeavesOut(layers) ==
    \E k \in 1..Len(layers) : Len(layers[k].out) # (IF k = 1 THEN 1 ELSE 0)

(* The layer of the clause's function, once it has taken its parameter; the  *)
(* expression of the clause is the only one.                                 *)
MadeFirst == [Current.layers EXCEPT ![1] = MakeExpression(@)]
IsOneExpression == Len(MakeExpressionList(Current.layers)) = 1

(* An error at one of these units is the end of an else clause: its own,     *)
(* provided that the clause has got its parameter by then ...                *)
EndsElse == {"round", "curly", ","}

ElseEndsAtBracket ==
    /\ Current.clause = "else" /\ Put = Failure
    /\ units[next].op \in EndsElse
    /\ IsCollected(MadeFirst)

(* ... and that of a conditional operator inside the clause.                 *)
ElseEndsAtError ==
    /\ Current.clause = "else"
    /\ units[next].op \in EndsElse
    /\ IsOneExpression

GoTo(p) ==
    /\ phase' = p
    /\ UNCHANGED <<source, read, units, activations, next, result, dropped, lost>>

PutUnit ==
    /\ AtUnit /\ units[next].op # "question"
    /\ Put # Failure /\ ~ IsCollected(Put)
    /\ activations' = Replaced(activations, [Current EXCEPT !.layers = Put])
    /\ next' = next + 1
    /\ UNCHANGED <<source, read, units, phase, result, dropped, lost>>

(* The error is returned from call to call, while the position stays.        *)
FailUnit ==
    /\ AtUnit /\ units[next].op # "question"
    /\ Put = Failure /\ ~ ElseEndsAtBracket
    /\ GoTo("failing")

(* putFunction of the conditional operator: compileConditionalExpression.    *)
BeginIf ==
    /\ AtUnit /\ units[next].op = "question" /\ next < Len(units)
    /\ LET reduced == Replaced(Current.layers, Reduced(Top(Current.layers), units[next]))
       IN  activations' =
             Append(Replaced(activations, [Current EXCEPT !.layers = reduced]),
                    Activation("if", units[next], Unit("clause")))
    /\ next' = next + 1
    /\ UNCHANGED <<source, read, units, phase, result, dropped, lost>>

(* The unit behind the question mark is read without a test for the end.     *)
BeginIfAtEnd ==
    /\ AtUnit /\ units[next].op = "question" /\ next = Len(units)
    /\ GoTo("undefined")

(* The clause between ? and : must end at the colon. *)
BeginElse ==
    /\ AtUnit /\ units[next].op # "question"
    /\ Current.clause = "if" /\ IsCollected(Put)
    /\ IF units[next].op = "choice"
         THEN LET then == Last(Put[1].out).args
              IN  /\ activations' =
                       Replaced(activations,
                                Activation("else", [Current.question EXCEPT !.args = then],
                                           units[next]))
                  /\ next' = next + 1
                  /\ dropped' = (dropped \/ LeavesOut(Put))
                  /\ UNCHANGED <<source, read, units, phase, result, lost>>
         ELSE GoTo("failing")

(* A wrong variant: a clause has a position of its own, not a reference to    *)
(* the one of the call it is nested in.                                       *)
FinishConditionalByValue(layers) ==
    LET outer == Last(Front(activations))
        layer == Top(outer.layers)
        else  == Last(layers[1].out).args
    IN  IF layer.out = <<>>
          THEN phase' = "undefined" /\ UNCHANGED <<activations, next, dropped>>
          ELSE /\ activations' =
                    Replaced(Front(activations),
                             [outer EXCEPT !.layers = Replaced(@,
                                 [layer EXCEPT !.out = Append(Front(@),
                                    [Current.question EXCEPT !.args =
                                        <<Last(layer.out)>> \o @ \o else])])])
               /\ next' = Current.question.i + 1 /\ phase' = "compiling"
               /\ dropped' = (dropped \/ LeavesOut(layers))

(* The rest of putFunction: the conditional operator takes its condition     *)
(* from the output; no test that there is one.  The unit that has ended the  *)
(* clause is put by the outer call.                                          *)
FinishConditional(layers) ==
    LET outer == Last(Front(activations))
        layer == Top(outer.layers)
        else  == Last(layers[1].out).args
    IN  IF layer.out = <<>>
          THEN phase' = "undefined" /\ UNCHANGED <<activations, next, dropped>>
          ELSE /\ activations' =
                    Replaced(Front(activations),
                             [outer EXCEPT !.layers = Replaced(@,
                                 [layer EXCEPT !.out = Append(Front(@),
                                    [Current.question EXCEPT !.args =
                                        <<Last(layer.out)>> \o @ \o else])])])
               /\ next' = next /\ phase' = "compiling"
               /\ dropped' = (dropped \/ LeavesOut(layers))

EndElse ==
    /\ AtUnit /\ units[next].op # "question"
    /\ Current.clause = "else"
    /\ \/ IsCollected(Put) /\ FinishConditional(Put)
       \/ ElseEndsAtBracket /\ FinishConditional(MadeFirst)
    /\ UNCHANGED <<source, read, units, result, lost>>

(* An error goes on to the next call outside, and the operator that has not  *)
(* been completed is lost with all it has; the condition is left to the      *)
(* clause outside.  An else clause may take the error for its end.           *)
PassError ==
    /\ phase = "failing" /\ ~ ElseEndsAtError
    /\ IF Current.clause = "none"
         THEN phase' = "rejected" /\ UNCHANGED <<activations, lost>>
         ELSE /\ activations' = Front(activations)
              /\ lost' = lost \union (Current.question.i .. next - 1)
              /\ UNCHANGED phase
    /\ UNCHANGED <<source, read, units, next, result, dropped>>

RecoverElse ==
    /\ phase = "failing" /\ ElseEndsAtError
    /\ FinishConditional(MadeFirst)
    /\ UNCHANGED <<source, read, units, result, lost>>

(* The end of the units: of the else clauses first, then of the expression. *)
EndElseAtEnd ==
    /\ AtEnd /\ Current.clause = "else"
    /\ IF IsOneExpression
         THEN /\ FinishConditional(MadeFirst)
              /\ UNCHANGED <<source, read, units, result, lost>>
         ELSE GoTo("rejected")

FailIfAtEnd ==
    /\ AtEnd /\ Current.clause = "if"
    /\ GoTo("rejected")

Finish ==
    /\ AtEnd /\ Current.clause = "none"
    /\ result' = MakeExpressionList(Current.layers)
    /\ phase' = IF result' = Failure THEN "rejected" ELSE "accepted"
    /\ UNCHANGED <<source, read, units, activations, next, dropped, lost>>

Ended ==
    /\ phase \in {"accepted", "rejected", "undefined"}
    /\ UNCHANGED vars

Next ==
    \/ ReadToken \/ Compile
    \/ PutUnit \/ FailUnit
    \/ BeginIf \/ BeginIfAtEnd \/ BeginElse \/ EndElse
    \/ PassError \/ RecoverElse
    \/ EndElseAtEnd \/ FailIfAtEnd \/ Finish
    \/ Ended

Spec == Init /\ [][Next]_vars
-----------------------------------------------------------------------------
(* Types: the units are numbered once they are read, the operators of a      *)
(* layer have no parameters yet, an operator with a higher priority is not   *)
(* covered by one with a lower, and nested clauses belong to question marks. *)
LayerOK(layer) ==
    /\ \A j \in 1..Len(layer.ops) :
          layer.ops[j].args = <<>> /\ (IsFunction(layer.ops[j]) \/ j = Len(layer.ops))
    /\ \A j \in 1..(Len(layer.ops) - 1) :
          IsFunction(layer.ops[j + 1]) =>
              \/ IsOrdered(layer.ops[j], layer.ops[j + 1])
              \/ layer.ops[j + 1].op = "cast"

TypeOK ==
    /\ read \in 0..Len(source.tokens)
    /\ phase \in {"reading", "compiling", "failing", "accepted", "rejected", "undefined"}
    /\ phase # "reading" => \A i \in 1..Len(units) : units[i].i = i /\ units[i].args = <<>>
    /\ phase \in {"compiling", "failing"} =>
          activations # <<>> /\ next \in 1..(Len(units) + 1)
    /\ \A n \in 1..Len(activations) :
          /\ activations[n].clause \in (IF n = 1 THEN {"none"} ELSE {"if", "else"})
          /\ n > 1 => activations[n].question.op = "question"
          /\ activations[n].layers # <<>>
          /\ \A k \in 1..Len(activations[n].layers) : LayerOK(activations[n].layers[k])
    /\ phase = "accepted" <=> result # <<>>

(* The trees one level down: each node with parameters is replaced by them. *)
Opened(nodes) ==
    FlattenSeq([j \in 1..Len(nodes) |->
        IF nodes[j].args = <<>> THEN <<nodes[j]>> ELSE nodes[j].args])

Level(nodes, depth) ==
    LET level[n \in 0..depth] == IF n = 0 THEN nodes ELSE Opened(level[n - 1])
    IN  level[depth]

AreLeaves(nodes) == \A j \in 1..Len(nodes) : nodes[j].args = <<>>

(* The indexes of the operands among some leaves.  A type is left out: in    *)
(* brackets it becomes a cast, which is an operator.                         *)
IsValue(node) == IsOperand(node) /\ node.op # "type"
Indexes(leaves) ==
    FlattenSeq([j \in 1..Len(leaves) |->
        IF IsValue(leaves[j]) THEN <<leaves[j].i>> ELSE <<>>])

(* The first n units, without the lost ones. *)
Remaining(n) ==
    FlattenSeq([i \in 1..n |-> IF i \in lost THEN <<>> ELSE <<units[i]>>])

(* No operand of an accepted expression is lost, doubled or moved: those of  *)
(* its trees, looked into down to the leaves, are those of the units, in     *)
(* their order.  When an else clause has taken an error inside it for its    *)
(* end, just the units from the question mark that was not completed to the  *)
(* unit of the error are missing; excepted is what a clause leaves out       *)
(* beside its expression.  Expressions at the top level are listed from the  *)
(* last to the first.                                                        *)
OperandsInOrder ==
    LET leaves == Level(Reverse(result), Depth)
    IN  phase = "accepted" /\ ~ dropped /\ AreLeaves(leaves) =>
            Indexes(leaves) = Indexes(Remaining(Len(units)))

(* The nested calls share one position and no unit is put twice: each step    *)
(* goes on in the tokens or in the units, ends a clause, with or without an   *)
(* error, or takes the parser on to its end.  With the absence of deadlock    *)
(* this is the end of the parser for every list.                              *)
ParserAdvances ==
    [][\/ phase' # phase /\ ~ (phase = "failing" /\ phase' = "compiling")
       \/ read' > read
       \/ next' > next
       \/ next' = next /\ Len(activations') < Len(activations)]_vars
=============================================================================
