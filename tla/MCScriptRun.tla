---------------------------- MODULE MCScriptRun ----------------------------
(***************************************************************************)
(* ScriptRun on a small memory.  Words are one byte, so a function's scope *)
(* needs two bytes (the scope's information and the return address); the   *)
(* stacks have few slots, so that each of them fills up before the others  *)
(* in some run and the memory in other runs.  A task runs up to three      *)
(* times: the second run sinks its stack of scratch sizes below the array, *)
(* where one cell is part of a pointer, the third may write into it.       *)
(***************************************************************************)
EXTENDS ScriptRun

CONSTANTS s1, s2

MCSites == {s1, s2}

MCCommand == MCSites \union {HostCommand, NullCommand}

MCScopes ==
    {[first |-> s1, data |-> 1, code |-> 1, ctors |-> 0],
     [first |-> s2, data |-> 2, code |-> 0, ctors |-> 1]}

MCMemberCodes == {1}

MCCalls ==
    {[target |-> s1, params |-> 0, captured |-> 0],
     [target |-> s2, params |-> 1, captured |-> 1]}

MCHostCalls ==
    {[result |-> 0, params |-> 1], [result |-> 1, params |-> 1],
     [result |-> 2, params |-> 9]}
=============================================================================
