------------------------ MODULE MCExpressionParser ------------------------
(***************************************************************************)
(* ExpressionParser on all trees with up to three operators, written with  *)
(* the brackets that the documented precedence of the operators asks for,  *)
(* on all arithmetic trees with as many, on all short sequences of tokens, *)
(* on longer ones of question marks, colons and commas, whose clauses may  *)
(* be unfinished, and, apart from these, on what the documentation allows  *)
(* and the parser takes otherwise.  In the first set brackets are added    *)
(* where the parser needs them beyond the documentation: around what a     *)
(* cast is applied to, an index that is an assignment or a conditional     *)
(* expression, an assignment between ? and :, a callee that ends in ++,    *)
(* and an operand whose sign or star would be taken for a part of what     *)
(* stands before it.                                                       *)
(***************************************************************************)
EXTENDS ExpressionParser

CONSTANTS TreeSize,     \* operators of a tree
          SignsSize,    \* operators of an arithmetic tree
          AnyLength,    \* tokens of an arbitrary sequence
          Clauses       \* question marks, colons and commas of a list

Tree(op, args) == Node(op, 0, args)
Variable == Tree("variable", <<>>)
Callee == Tree("name", <<>>)
Params(args) == Tree("params", args)

Binary == {"mul", "add", "assign"}
Unary == {"neg", "prefix", "deref", "cast"}

RECURSIVE Trees(_), SignTrees(_), Write(_)

Pairs(T(_), n) == UNION {T(k) \X T(n - k) : k \in 0..n}
Triples(T(_), n) == UNION {T(k) \X Pairs(T, n - k)  : k \in 0..n}

(* The trees with n operators. *)
Trees(n) ==
    IF n = 0 THEN {Variable}
    ELSE {Tree(op, <<t>>) : op \in Unary, t \in Trees(n - 1)}
         \union {Tree(op, p) : op \in Binary, p \in Pairs(Trees, n - 1)}
         \union {Tree("subscript", <<p[1], Params(<<p[2]>>)>>) : p \in Pairs(Trees, n - 1)}
         \union {Tree("call", <<f, Params(<<>>)>>) : f \in Trees(n - 1)}
         \union {Tree("call", <<p[1], Params(<<p[2]>>)>>) : p \in Pairs(Trees, n - 1)}
         \union {Tree("call", <<Callee, Params(p)>>) : p \in Pairs(Trees, n - 1)}
         \union {Tree("question", <<t[1], t[2][1], t[2][2]>>) : t \in Triples(Trees, n - 1)}
         \union (IF n = 1 THEN {Tree("postfix", <<Variable>>)} ELSE {})

(* The arithmetic trees with n operators; a plus sign leaves no trace. *)
SignTrees(n) ==
    IF n = 0 THEN {Variable, Tree("number", <<>>)}
    ELSE {Tree(op, <<t>>) : op \in {"neg", "plus"}, t \in SignTrees(n - 1)}
         \union {Tree(op, p) : op \in {"add", "sub", "mul"}, p \in Pairs(SignTrees, n - 1)}

(* The documented levels (README.md, doc/images/OperatorPrecedences.png). *)
Binding(op) ==
    CASE op \in {"call", "subscript", "postfix"}               -> 16
      [] op \in {"neg", "plus", "prefix", "deref", "cast"}     -> 15
      [] op = "mul"                                            -> 14
      [] op \in {"add", "sub"}                                 -> 13
      [] op \in {"question", "assign"}                         -> 3
      [] OTHER                                                 -> 20

InBrackets(tokens) == <<"(">> \o tokens \o <<"round">>

(* In brackets if its operator binds too loosely, or if it begins with a sign *)
(* that would be taken for a part of what stands before it.                   *)
WriteFrom(tree, level, signs) ==
    IF Binding(tree.op) < level \/ Head(Write(tree)) \in signs
      THEN InBrackets(Write(tree)) ELSE Write(tree)

WriteParams(args) ==
    IF args = <<>> THEN <<>>
    ELSE IF Len(args) = 1 THEN WriteFrom(args[1], 3, {})
    ELSE WriteFrom(args[1], 3, {}) \o <<",">> \o WriteFrom(args[2], 3, {})

Write(tree) ==
    LET arg(j) == tree.args[j]
    IN  CASE tree.op = "neg"     -> <<"-">> \o WriteFrom(arg(1), 15, {"*", "+"})
          [] tree.op = "plus"    -> <<"+">> \o WriteFrom(arg(1), 15, {})
          [] tree.op = "prefix"  -> <<"++">> \o WriteFrom(arg(1), 15, {"*"})
          [] tree.op = "deref"   -> <<"*">> \o WriteFrom(arg(1), 15, {"*"})
          [] tree.op = "postfix" -> WriteFrom(arg(1), 16, {}) \o <<"++">>
          [] tree.op = "mul"     ->
                WriteFrom(arg(1), 14, {}) \o <<"*">> \o WriteFrom(arg(2), 15, {})
          [] tree.op = "add"     ->
                WriteFrom(arg(1), 13, {}) \o <<"+">> \o WriteFrom(arg(2), 14, {})
          [] tree.op = "sub"     ->
                WriteFrom(arg(1), 13, {}) \o <<"-">> \o WriteFrom(arg(2), 14, {})
          [] tree.op = "assign"  ->
                WriteFrom(arg(1), 4, {}) \o <<"assign">> \o WriteFrom(arg(2), 3, {})
          [] tree.op = "question" ->
                WriteFrom(arg(1), 4, {}) \o <<"question">>
                \o (IF arg(2).op = "assign" THEN InBrackets(Write(arg(2))) ELSE Write(arg(2)))
                \o <<"choice">> \o WriteFrom(arg(3), 3, {})
          [] tree.op = "cast"    -> InBrackets(<<"type">>) \o WriteFrom(arg(1), 20, {})
          [] tree.op = "call"    ->
                (IF arg(1).op = "postfix" THEN InBrackets(Write(arg(1)))
                 ELSE WriteFrom(arg(1), 16, {})) \o <<"(">> \o WriteParams(arg(2).args) \o <<"round">>
          [] tree.op = "subscript" ->
                WriteFrom(arg(1), 16, {}) \o <<"[">>
                \o WriteFrom(arg(2).args[1], 4, {}) \o <<"square">>
          [] OTHER               -> <<tree.op>>

Source(kind, tree) == [kind |-> kind, tree |-> tree, tokens |-> Write(tree)]

(* A plus before a minus would be joined with it. *)
JoinsSigns(tokens) ==
    \E i \in 1..(Len(tokens) - 1) : tokens[i] = "+" /\ tokens[i + 1] = "-"

WrittenTrees ==
    {s \in UNION {{Source("tree", t) : t \in Trees(n)} : n \in 0..TreeSize} :
        ~ JoinsSigns(s.tokens)}

WrittenSigns ==
    UNION {{Source("signs", t) : t \in SignTrees(n)} : n \in 0..SignsSize}

Tokens == {"variable", "-", "++", "(", "round", ",", "question", "choice"}

AnyTokens ==
    {[kind |-> "any", tree |-> Variable, tokens |-> tokens] :
        tokens \in UNION {[1..n -> Tokens] : n \in 1..AnyLength}}

(* In brackets that are not those of a call two expressions are left side by *)
(* side: a clause takes the second.                                          *)
ClausesThatDrop ==
    LET inBrackets == <<"(", "variable", ",", "variable", "round">>
    IN  {[kind |-> "any", tree |-> Variable, tokens |-> tokens] :
            tokens \in {<<"variable", "question">> \o inBrackets \o <<"choice", "variable">>,
                        <<"variable", "question", "variable", "choice">> \o inBrackets
                            \o <<",", "variable">>}}

(* All lists of operands with ?, : and a comma between them, bare and in      *)
(* brackets: an error in a conditional operator meets the else clauses around *)
(* it.  At the last, the clause around is no expression by itself.            *)
Joined(n) ==
    {[i \in 1..(2 * n + 1) |-> IF i % 2 = 1 THEN "variable" ELSE between[i \div 2]] :
        between \in [1..n -> {"question", "choice", ","}]}

UnfinishedClauses ==
    LET lists == UNION {Joined(n) : n \in 0..Clauses}
        others == {<<"variable", "question", "variable", "choice">> \o tokens :
                      tokens \in {<<"(", "variable", "question", "variable", "round">>,
                                  <<"(", "variable", ",", "variable", "round",
                                    "question", "variable", ",", "variable">>}}
    IN  {[kind |-> "any", tree |-> Variable, tokens |-> tokens] :
            tokens \in lists \union {InBrackets(list) : list \in lists} \union others}

MCSources ==
    WrittenTrees \union WrittenSigns \union AnyTokens \union ClausesThatDrop
        \union UnfinishedClauses
-----------------------------------------------------------------------------
RECURSIVE HasShape(_, _), OperandCount(_), ValueFrom(_, _)

HasShape(node, tree) ==
    /\ node.op = tree.op
    /\ Len(node.args) = Len(tree.args)
    /\ \A j \in 1..Len(tree.args) : HasShape(node.args[j], tree.args[j])

(* The value of an arithmetic tree whose operands, from the k-th on, have    *)
(* the values 2, 3, 5, 7, ...                                                *)
ValueOf(k) == <<2, 3, 5, 7, 11, 13>>[k]

OperandCount(tree) ==
    IF IsOperand(tree) THEN 1
    ELSE FoldFunction(+, 0, [j \in 1..Len(tree.args) |-> OperandCount(tree.args[j])])

ValueFrom(tree, k) ==
    LET first  == ValueFrom(tree.args[1], k)
        second == ValueFrom(tree.args[2], k + OperandCount(tree.args[1]))
    IN  CASE tree.op = "negative" -> 0 - ValueOf(k)
          [] tree.op = "neg"      -> 0 - first
          [] tree.op = "plus"     -> first
          [] tree.op = "add"      -> first + second
          [] tree.op = "sub"      -> first - second
          [] tree.op = "mul"      -> first * second
          [] OTHER                -> ValueOf(k)

(* An expression that was written for a tree is accepted, as one expression, *)
(* with this tree, all of which is within the depth, and its clauses leave   *)
(* nothing out.  For signs only the value counts, since two of them may have *)
(* been joined.                                                              *)
ParsesAsWritten ==
    phase \in {"accepted", "rejected", "undefined"} /\ source.kind # "any" =>
        /\ phase = "accepted" /\ Len(result) = 1
        /\ AreLeaves(Level(result, Depth)) /\ ~ dropped /\ lost = {}
        /\ source.kind = "tree" => HasShape(result[1], source.tree)
        /\ source.kind = "signs" => ValueFrom(result[1], 1) = ValueFrom(source.tree, 1)
=============================================================================
