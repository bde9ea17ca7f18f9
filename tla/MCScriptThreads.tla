-------------------------- MODULE MCScriptThreads --------------------------
(***************************************************************************)
(* ScriptThreads with two variables, two threads, two blocks, a script   *)
(* function, a native one, a lambda with captures and one without.         *)
(***************************************************************************)
EXTENDS ScriptThreads, FiniteSets

Started == {t \in Thread : thread[t].state # "none"}

(* The first careless statement of a script is the last one looked at; two  *)
(* variables and two threads are not looked at together.                    *)
SmallCarefulScript ==
    careful /\ Len(declared) + Cardinality(Started) <= 3
=============================================================================
