------------------------ MODULE MCOverloadResolution ------------------------
(***************************************************************************)
(* Up to two overloads of one parameter and up to three of two, in every    *)
(* order, called with expressions of one or two candidates; calls in calls, *)
(* assignments, and initialisations of an object with one or two values.    *)
(***************************************************************************)
EXTENDS OverloadResolution

MCElements == [ints |-> "int", reals |-> "float"]
MCConversions ==
    {<<Value(s), Value(t)>> : s \in {"int", "float"}, t \in {"int", "float"}}
        \cup {<<Value("A"), Value("int")>>}
MCAccuracies ==
    [c \in MCConversions |-> CASE c[1].base = "A"   -> 700
                               [] c[1].base = "int" -> 600
                               [] OTHER             -> 650]
Fun(params, result) == [params |-> params, result |-> result]
Call(kind, library, args, dynamic, outer) ==
    [kind |-> kind, library |-> library, args |-> args, dynamic |-> dynamic,
     outer |-> outer]
Libraries(pool, n) ==
    UNION {{l \in [1 .. k -> pool] : IsInjective(l)} : k \in 1 .. n}

IntValue == Value("int")
FloatValue == Value("float")
A == Value("A")

One == {Fun(<<p>>, r) : r \in {IntValue, FloatValue},
            p \in {IntValue, Semi("int"), FloatValue, Ref("int"), Ref("float"), RefVoid}}
OneArg == {<<t>> : t \in {IntValue, Semi("int"), Ref("int"), FloatValue, A,
                          Value("ints"), Semi("ints"), Ref("ints"),
                          Value("reals")}}
              \cup {<<IntValue, FloatValue>>, <<FloatValue, A>>, <<Ref("int"), IntValue>>}
Two == {Fun(p, r) : r \in {IntValue, FloatValue},
            p \in {<<IntValue, IntValue>>, <<FloatValue, IntValue>>, <<IntValue, FloatValue>>, <<A, FloatValue>>}}
TwoArg == {<<IntValue>>, <<FloatValue>>, <<A>>, <<FloatValue, IntValue>>}
Outer == {<<Call("call", l, <<>>, FALSE, <<>>)>> : l \in Libraries(
             {Fun(<<p>>, r) : p \in {IntValue, FloatValue}, r \in {IntValue, FloatValue}}, 2)}
Assign == {Fun(<<Semi(b), Value(b)>>, Semi(b)) : b \in {"int", "float"}}
              \cup {Fun(<<Ref("int"), IntValue>>, IntValue)}
Constructors == {Fun(p, A) : p \in {<<IntValue>>, <<FloatValue>>, <<A>>, <<IntValue, FloatValue>>,
                                    <<FloatValue, FloatValue>>, <<A, FloatValue>>}}
Values == {IntValue, FloatValue, A}

MCCalls ==
    {Call("call", l, <<a>>, d, <<>>) :
        l \in Libraries(One, 2), a \in OneArg, d \in BOOLEAN}
    \cup {Call("call", l, <<a, b>>, FALSE, <<>>) :
        l \in Libraries(Two, 3), a, b \in TwoArg}
    \cup {Call("call", l, <<<<IntValue>>>>, FALSE, o) :
        l \in Libraries({f \in One : f.params[1] \in {IntValue, FloatValue}}, 2),
        o \in Outer}
    \cup {Call("assign", l, <<<<v>>, <<e>>>>, FALSE, <<>>) :
        l \in Libraries(Assign, 2), v \in {Semi("int"), Ref("int"), A},
        e \in {IntValue, FloatValue, A, Ref("int")}}
MCOuterCalls == {o[1] : o \in Outer}
Initialisations ==
    {Call(k, l, <<<<v>>>>, FALSE, <<>>) :
        l \in Libraries({c \in Constructors : Len(c.params) = 1}, 3),
        k \in {"construct", "copy"}, v \in Values}
    \cup {Call("construct", l, <<<<v>>, <<w>>>>, FALSE, <<>>) :
        l \in Libraries(Constructors, 3), v, w \in Values}
AllCalls == MCCalls \cup Initialisations
=============================================================================
