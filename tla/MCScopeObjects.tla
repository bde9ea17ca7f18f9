--------------------------- MODULE MCScopeObjects ---------------------------
(***************************************************************************)
(* ScopeObjects on a function f with a loop l, which has a block b.  The   *)
(* bodies are made from all short sequences of statements; a long function *)
(* has nine objects, so that its marks reach into a second byte.           *)
(***************************************************************************)
EXTENDS ScopeObjects, TLC

CONSTANTS f, l, b

MCScope == {f, l, b}

A == [op |-> "object", owned |-> TRUE]
Bare == [op |-> "object", owned |-> FALSE]
If(s) == [op |-> "open", scopes |-> {s, NoScope}]
BreakOut == [op |-> "break"]
ContinueOn == [op |-> "continue"]
ReturnNothing == [op |-> "return", of |-> NoObject]
ReturnObject(s, index) == [op |-> "return", of |-> [scope |-> s, index |-> index]]

As(n) == [i \in 1..n |-> A]

FunctionLoopBlock(function, loop, block) ==
    [kind |-> (f :> "function" @@ l :> "loop" @@ b :> "block"),
     parent |-> (f :> f @@ l :> f @@ b :> l),
     body |-> (f :> function @@ l :> loop @@ b :> block)]

Tuples(n, statements) == UNION {[1..k -> statements] : k \in 0..n}

FunctionBodies ==
    {<<A, If(l), A>>, <<A, A, Bare, If(l), ReturnObject(f, 1)>>}

LoopBodies ==
    {body \in {t \o end : t \in Tuples(3, {A, Bare, If(b)}),
                          end \in {<<>>, <<BreakOut>>, <<ReturnObject(l, 0)>>}} :
        Cardinality({i \in 1..Len(body) : body[i] = If(b)}) <= 1}

BlockBodies ==
    {<<A>> \o t \o <<end>> : t \in Tuples(1, {A}),
        end \in {BreakOut, ContinueOn, ReturnNothing,
                 ReturnObject(f, 0), ReturnObject(l, 0), ReturnObject(b, 0)}}

(* The bodies of f, l and b. *)
ShortBodies == FunctionBodies \X LoopBodies \X BlockBodies

(* Marks that do not fit the byte's second half; objects far from each other. *)
LongBodies ==
    {<<As(5) \o <<If(l)>> \o As(4) \o <<ReturnObject(f, k)>>,
       As(2) \o <<If(b)>> \o As(5), <<A, end>>>> :
        k \in {0, 4, 5, 8}, end \in {BreakOut, ContinueOn, ReturnNothing}}

(* Long functions whose scopes declare all their objects first. *)
LongDisciplinedBodies ==
    {<<As(9) \o <<If(l), ReturnObject(f, k)>>,
       As(7) \o <<If(b)>>, As(5) \o <<end>>>> :
        k \in {0, 3, 4, 8}, end \in {BreakOut, ContinueOn, ReturnObject(b, 2)}}

MCPrograms ==
    {FunctionLoopBlock(bodies[1], bodies[2], bodies[3]) :
        bodies \in ShortBodies \union LongBodies \union LongDisciplinedBodies}

(* Marks that are not cleared: all of two bytes are set, or none. *)
MCGarbage == {{}, 0..15}
=============================================================================
