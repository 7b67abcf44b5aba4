------------------------------ MODULE MCChopInput ------------------------------
(***************************************************************************)
(* Values for model checking ChopInput: two commands, one of which begins  *)
(* like the other.                                                         *)
(***************************************************************************)
EXTENDS ChopInput

OneAndTwo == {<<"a">>, <<"a", "b">>}
=============================================================================
