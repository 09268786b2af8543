------------------------------- MODULE MCList -------------------------------
(***************************************************************************)
(* Two lists sharing three elements, two of which compare equal.           *)
(***************************************************************************)
EXTENDS List

CONSTANTS e1, e2, e3

MCElems == {e1, e2, e3}
MCKey   == (e1 :> 1) @@ (e2 :> 1) @@ (e3 :> 2)
=============================================================================
