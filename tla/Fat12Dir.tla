------------------------------ MODULE Fat12Dir ------------------------------
(***************************************************************************)
(* The names in a directory of fs/fat12.c, in both of their forms, and the *)
(* scan of one sector of directory entries.  Names are sequences of        *)
(* characters; the two fields of an entry hold NAME and EXT of them (8 and *)
(* 3), padded with PAD.                                                    *)
(***************************************************************************)
EXTENDS Common

CONSTANTS DOT, PAD,
          NAME, EXT

ASSUME DirAssumption ==
    /\ NAME \in Nat \ {0} /\ EXT \in Nat \ {0}
    /\ DOT \in STRING /\ PAD \in STRING /\ DOT # PAD /\ SEP # DOT

Kinds == {"end", "deleted", "volume", "file", "directory"}

\* A name as a disk holds it: in either field letters, then padding, no dot.
Filled(f, b, e) ==
    /\ \A i \in 1 .. NAME : f[i] = PAD <=> i > b
    /\ \A i \in 1 .. EXT : f[NAME + i] = PAD <=> i > e
IsName(f) ==
    /\ f \in [1 .. NAME + EXT -> STRING] /\ DOT \notin Range(f)
    /\ \E b \in 0 .. NAME, e \in 0 .. EXT : Filled(f, b, e)

Padded(s, n) == [i \in 1 .. n |-> IF i <= Len(s) THEN s[i] ELSE PAD]
Cut(s, n) == SubSeq(s, 1, Min({n, Len(s)}))
UpTo(s, c) == LET at == {i \in 1 .. Len(s) : s[i] = c}
              IN  IF at = {} THEN s ELSE SubSeq(s, 1, Min(at) - 1)

\* Mutant of _fat12_normal_to_8_3: the dot is kept in the extension.
_fat12_normal_to_8_3_dot(s) ==
    LET base == Cut(UpTo(s, DOT), NAME)
    IN  Padded(base, NAME) \o Padded(SubSeq(s, Len(base) + 1, Len(s)), EXT)

\* The base stops at a dot or after NAME characters, a dot there is skipped,
\* and what follows is the extension, dot or not.
_fat12_normal_to_8_3(s) ==
    LET base == Cut(UpTo(s, DOT), NAME)
        j    == Len(base) + 1
        ext  == SubSeq(s, IF j <= Len(s) /\ s[j] = DOT THEN j + 1 ELSE j, Len(s))
    IN  Padded(base, NAME) \o Padded(ext, EXT)

\* The padding is dropped, the dot put back.
_fat12_8_3to_normal(f) ==
    LET base == UpTo(SubSeq(f, 1, NAME), PAD)
        ext  == UpTo(SubSeq(f, NAME + 1, NAME + EXT), PAD)
    IN  IF f[NAME + 1] = PAD THEN base ELSE base \o <<DOT>> \o ext

\* "skip leading slashes"
NameOf(p) == LET rest == {i \in 1 .. Len(p) : p[i] # SEP}
             IN  IF rest = {} THEN << >> ELSE SubSeq(p, Min(rest), Len(p))

Skipped(e) == e.kind \in {"deleted", "volume"}

\* Where the scan of one sector stops: at the end marker or at a match.
Stops(entries, name) ==
    {i \in 1 .. Len(entries) :
        \/ entries[i].kind = "end"
        \/ ~Skipped(entries[i]) /\ entries[i].name = _fat12_normal_to_8_3(name)}
=============================================================================
