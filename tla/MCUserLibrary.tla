--------------------------- MODULE MCUserLibrary ---------------------------
(***************************************************************************)
(* One function name, one dynamic one, a native type, a struct, an array of *)
(* the basic type, a function type, and constructors of one to three       *)
(* parameters.                                                             *)
(***************************************************************************)
EXTENDS UserLibrary

MCBasicTypes == <<"int">>
MCArrays == [ints |-> [element |-> "int", count |-> 2]]
Value(t) == [name |-> t, mode |-> "value"]
MCParamLists == {<<>>, <<Value("A")>>}
MCMoreParams == {<<>>, <<Value("int")>>, <<Value("int"), Value("int")>>}
=============================================================================
