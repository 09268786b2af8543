------------------------------- MODULE MCFdc -------------------------------
(***************************************************************************)
(* Three sectors: two on different heads of cylinder 0, one on cylinder 1. *)
(***************************************************************************)
EXTENDS Fdc

MCSectors == {0, 20, 40}
=============================================================================
