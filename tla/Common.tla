------------------------------- MODULE Common -------------------------------
(***************************************************************************)
(* What the modules share: the null pointer and the separator of paths.    *)
(***************************************************************************)
EXTENDS Integers, SequencesExt

CONSTANT NULL

SEP == "/"
=============================================================================
