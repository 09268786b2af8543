------------------------------- MODULE MCIde -------------------------------
(***************************************************************************)
(* Two sectors; the disk is the slave beside a CD drive, or alone.         *)
(***************************************************************************)
EXTENDS Ide

MCSectors  == {0, 1}
CdAndDisk  == [d \in {0, 1} |-> IF d = 0 THEN "atapi" ELSE "ata"]
MasterOnly == [d \in {0, 1} |-> IF d = 0 THEN "ata" ELSE "none"]
=============================================================================
