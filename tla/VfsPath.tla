------------------------------ MODULE VfsPath ------------------------------
(***************************************************************************)
(* Path resolution in fs/vfs.c: _vfs_resolve_mountpoint splits a path into *)
(* a mount name and the path below it.  Paths are sequences of characters  *)
(* of which only the separator matters; buffers hold PathMax of them, the  *)
(* terminating NUL included.  Volume puts it in front of the filesystem.   *)
(***************************************************************************)
EXTENDS Common

CONSTANTS PathMax,   \* size of buf and rel_path (256)
          Mounts     \* names in the mount table

ASSUME PathAssumption ==
    /\ PathMax \in Nat \ {0}
    /\ \A m \in Mounts : m \in Seq(STRING) /\ Len(m) \in 1 .. PathMax - 3 /\ SEP \notin Range(m)
    /\ NULL \notin Mounts

Absolute(p) == IF p = << >> THEN FALSE ELSE p[1] = SEP

\* strncpy into a buffer of n characters, with a NUL stored in the last one.
Copied(s, n) == SubSeq(s, 1, Min({Len(s), n - 1}))

\* The first token: leading separators are skipped, all of them.
strtok_r(s) ==
    LET letters == {i \in 1 .. Len(s) : s[i] # SEP}
        first   == Min(letters)
        ends    == {i \in first .. Len(s) : s[i] = SEP} \cup {Len(s) + 1}
    IN  IF letters = {} THEN NULL ELSE SubSeq(s, first, Min(ends) - 1)

\* Mutant of rel_path_of: the leading separator is not counted.
rel_path_of_short(p, token) == Copied(SubSeq(p, Len(token) + 1, Len(p)), PathMax)

\* path + 1 + strlen(token), or "/" when nothing is left.
rel_path_of(p, token) ==
    LET rel_start == SubSeq(p, Len(token) + 2, Len(p))
    IN  IF rel_start = << >> THEN <<SEP>> ELSE Copied(rel_start, PathMax)

\* NULL for a path that is not absolute, has no component, or names no mount.
_vfs_resolve_mountpoint(p) ==
    LET token == strtok_r(Copied(p, PathMax)) IN
    IF Absolute(p) /\ token \in Mounts
    THEN [mount |-> token, rel_path |-> rel_path_of(p, token)]
    ELSE NULL
=============================================================================
