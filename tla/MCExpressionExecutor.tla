------------------------ MODULE MCExpressionExecutor ------------------------
(***************************************************************************)
(* ExpressionExecutor on all statements of up to TreeSize operators over   *)
(* one variable of each type, alone and followed by a second statement     *)
(* that fills the same bytes.                                              *)
(***************************************************************************)
EXTENDS ExpressionExecutor

CONSTANT TreeSize       \* operators of the first statement

MCSizes == [bool |-> 1, int |-> 2, object |-> 5, ints |-> 4]
MCLocals == <<"b", "a", "o", "s", "r", "q">>
MCGlobals == <<"g", "t", "p">>
MCVarType == [b |-> "bool", a |-> "int", o |-> "object", s |-> "ints", r |-> "ref int",
              q |-> "ref ints", g |-> "object", t |-> "ints", p |-> "ref ints"]

Variable(name) == Expr("variable", name, 0, MCVarType[name], <<>>)

RECURSIVE Trees(_, _), Elements(_)

Pairs(type1, type2, n) ==
    UNION {{<<x, y>> : x \in Trees(type1, k), y \in Trees(type2, n - k)} : k \in 0..n}

(* An index stays in its array: a number, or an answer of a function. *)
Indexes(n) == {x \in Trees("int", n) : x.op \notin {"if", "deref"}}

Elements(n) ==
    UNION {{Expr("element", "", 0, "ref int", <<array, index>>) :
                array \in Trees("ints", k), index \in Indexes(n - 1 - k)} : k \in 0..(n - 1)}

Copies(n) ==
    UNION {{CopyTo(place, 0, value) :
                place \in {x \in Elements(k) : Operand(x.args[1])},
                value \in Trees("int", n - 1 - k) \union Elements(n - 1 - k)} : k \in 0..(n - 1)}

(* The trees of a type with n operators; a reference is none of its own. *)
Trees(type, n) ==
    CASE type = "bool" /\ n = 0 -> {Variable("b")}
      [] type = "int" /\ n = 0 -> {Variable("a")}
      [] type = "object" /\ n = 0 -> {Variable("o")}
      [] type = "ref object" /\ n = 0 -> {VariableRef("o")}
      [] type = "ref int" /\ n = 0 -> {}
      [] type = "ints" /\ n = 0 -> {Variable("s"), Variable("t")}
      [] type = "bool" ->
            {Expr("native", "both", 0, type, p) : p \in Pairs("ref object", "object", n - 1)}
            \union {Expr(op, "", 0, type, p) : op \in {"and", "or"},
                        p \in Pairs("bool", "bool", n - 1) \union Pairs("bool", "int", n - 1)
                              \union Pairs("int", "bool", n - 1)
                              \union Pairs("bool", "ref int", n - 1)}
      [] type = "int" ->
            {Expr("script", "count", 0, type, <<x>>) : x \in Trees("bool", n - 1)}
            \union {Expr("dynamic", "sum", 0, type, p) :
                        p \in Pairs("ref object", "int", n - 1)}
            \union {Expr("deref", "", 0, type, <<x>>) : x \in Elements(n - 1)}
            \union {Expr("if", "", 0, type, <<p[1], p[2], Expr("constant", "", 5, "int", <<>>)>>) :
                        p \in Pairs("bool", "int", n - 1)}
      [] type = "object" ->
            {Expr("native", "make", 0, type, <<x>>) : x \in Trees("int", n - 1)}
            \union {Expr("if", "", 0, type, <<p[1], p[2], Variable("g")>>) :
                        p \in Pairs("bool", "object", n - 1)}
      [] type = "ref object" ->
            {Expr("ref", "", 0, type, <<x>>) : x \in {y \in Trees("object", n) : ~Operand(y)}}
            \union {Assignment("g", x) : x \in Trees("object", n - 1)}
            \union {Assignment("o", x) : x \in Trees("object", n - 1)}
      [] type = "ref int" ->
            {Assignment("a", x) : x \in Trees("int", n - 1)}
            \union Elements(n) \union Copies(n)
      [] type = "ints" ->
            {Expr("native", "pair", 0, type, <<x>>) : x \in Trees("int", n - 1)}

Statements(n) ==
    UNION {Trees(type, n) : type \in {"bool", "int", "object", "ref int", "ref object"}}
    \union (IF n = 0 THEN {} ELSE {Declaration("o", x) : x \in Trees("object", n - 1)})

Second == Declaration("o", Expr("native", "make", 0, "object", <<Variable("a")>>))

(* A semi-reference is declared, and the next statement uses it. *)
Bind(ref, name) == Expr("bind", "", 0, MCVarType[ref], <<Variable(ref), Variable(name)>>)

Element(array, index) == Expr("element", "", 0, "ref int", <<Variable(array), index>>)
Deref(x) == Expr("deref", "", 0, "int", <<x>>)

ThroughReference ==
    LET plain == {Variable("a")} \union Trees("int", 1)
    IN  {<<Bind("r", "a"), s>> : s \in
            {Deref(Variable("r")), Assignment("a", Variable("r"))}
            \union {CopyTo(Variable("r"), 0, x) : x \in plain \union Elements(1) \union Elements(2)}
            \union {CopyTo(x, 0, Variable("r")) : x \in {Element("s", y) : y \in Indexes(0) \union Indexes(1)}}}
        \union {<<Bind("q", array), s>> : array \in {"s", "t"}, s \in
            {CopyTo(Element("q", x), 0, y) : x \in Indexes(0) \union Indexes(1), y \in plain \union Elements(2)}
            \union {CopyTo(x, 0, Element("q", y)) :
                    x \in {Element("s", Variable("a"))}, y \in Indexes(0) \union Indexes(1)}}
        \union {<<Bind("p", "t"), Element("p", Variable("a"))>>}

MCScopes == {<<s>> : s \in UNION {Statements(n) : n \in 1..TreeSize} \union Copies(4)}
            \union {<<s, Second>> : s \in Statements(2)}
            \union ThroughReference
=============================================================================
