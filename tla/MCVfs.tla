------------------------------- MODULE MCVfs -------------------------------
(***************************************************************************)
(* Two filesystems, two mount points, one open file, and everything that   *)
(* may happen besides; or six mounts, one more than the table first holds. *)
(* Heap objects are interchangeable.                                       *)
(***************************************************************************)
EXTENDS Vfs, TLC

HeapSymmetry == Permutations(Objects)
=============================================================================
