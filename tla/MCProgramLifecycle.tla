------------------------- MODULE MCProgramLifecycle -------------------------
(***************************************************************************)
(* Two scripts at most by one suite, out of scripts of up to five objects,  *)
(* some with a function and some that fail half way.                        *)
(***************************************************************************)
EXTENDS ProgramLifecycle

Declare(v) == [do |-> "declare", var |-> v, fails |-> FALSE]
Define(v)  == [do |-> "define", var |-> v, fails |-> FALSE]
Untyped(v) == [do |-> "declare", var |-> v, fails |-> TRUE]
Bad(v)     == [do |-> "define", var |-> v, fails |-> TRUE]
Call       == [do |-> "call", var |-> NoVar, fails |-> FALSE]
Error      == [do |-> "call", var |-> NoVar, fails |-> TRUE]
Function   == [do |-> "function", var |-> NoVar, fails |-> FALSE]
Cast       == [do |-> "cast", var |-> NoVar, fails |-> FALSE]
BadBody    == [do |-> "function", var |-> NoVar, fails |-> TRUE]

MCScripts ==
    {<<>>, <<Function>>, <<Declare("a"), Call>>, <<Declare("a"), Define("b")>>,
     <<Define("a"), Function, Declare("b"), Call>>, <<Declare("c"), Error>>,
     <<Define("a"), Bad("b")>>, <<Declare("b"), BadBody>>,
     <<Declare("c"), Untyped("a")>>, <<Cast>>,
     <<Declare("a"), Define("b"), Declare("c"), Define("d"), Declare("e")>>}
\* A declaration with an error, and the script with the error taken out.
Corrected == {<<Bad("a")>>, <<Declare("a"), Call>>}
=============================================================================
