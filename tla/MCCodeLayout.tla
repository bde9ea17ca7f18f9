---------------------------- MODULE MCCodeLayout ----------------------------
(***************************************************************************)
(* CodeLayout on a function f with a loop l, a block b and a branch e,     *)
(* nested in each other in every way that makes jumps of different kinds   *)
(* meet: a loop behind an if, an if with else inside a loop, a loop within *)
(* a loop, each left by break, continue, return and by its end.            *)
(***************************************************************************)
EXTENDS CodeLayout, TLC

CONSTANTS f, l, b, e

MCScope == {f, l, b, e}

A == [op |-> "object", owned |-> TRUE]
Bare == [op |-> "object", owned |-> FALSE]
If(s) == [op |-> "open", scopes |-> {s, NoScope}]
Either(s, t) == [op |-> "open", scopes |-> {s, t}]
Block(s) == [op |-> "open", scopes |-> {s}]
BreakOut == [op |-> "break"]
ContinueOn == [op |-> "continue"]
ReturnNothing == [op |-> "return", of |-> [scope |-> NoScope, index |-> 0]]
ReturnObject(s, index) == [op |-> "return", of |-> [scope |-> s, index |-> index]]

Function(kinds, parents, bodies) ==
    [kind |-> f :> "function" @@ l :> "loop" @@ b :> kinds[1] @@ e :> kinds[2],
     parent |-> f :> f @@ l :> f @@ b :> parents[1] @@ e :> parents[2],
     body |-> f :> bodies[1] @@ l :> bodies[2] @@ b :> bodies[3] @@ e :> bodies[4]]

Ends == {<<>>, <<BreakOut>>, <<ContinueOn>>, <<ReturnNothing>>}
FunctionBodies == {<<If(l)>>, <<A, If(l), A, ReturnObject(f, 0)>>}

(* if (...) {b} else {e} inside the loop. *)
Branches ==
    {Function(<<"block", "block">>, <<l, l>>,
              <<function, objects \o <<Either(b, e)>> \o rest, <<A>> \o end, other>>) :
        function \in FunctionBodies, objects \in {<<>>, <<A>>},
        rest \in {<<Bare>>}, end \in Ends, other \in {<<BreakOut>>, <<>>}}

(* A block inside an if, inside the loop. *)
Blocks ==
    {Function(<<"block", "block">>, <<l, b>>,
              <<function, objects \o <<If(b)>>, <<A, Block(e)>>, inner \o end>>) :
        function \in FunctionBodies, objects \in {<<>>, <<A>>},
        inner \in {<<>>, <<A>>}, end \in Ends}

(* A loop inside the loop, left from a block inside it. *)
Loops ==
    {Function(<<"loop", "block">>, <<l, b>>,
              <<function, objects \o <<If(b)>> \o after, inner \o <<If(e)>>, <<A>> \o end>>) :
        function \in FunctionBodies, objects \in {<<A>>},
        after \in {<<>>, <<ContinueOn>>, <<BreakOut>>},
        inner \in {<<>>, <<A>>}, end \in Ends}

MCPrograms == Branches \union Blocks \union Loops

MCGarbage == {{}}
=============================================================================
