-------------------------------- MODULE Vfs --------------------------------
(***************************************************************************)
(* The mount table and the open files of fs/vfs.c.  A mounted filesystem   *)
(* is a heap object; `live' are the objects not freed, and an object that  *)
(* was freed may be handed out again.  `slots' is the _mountpoints array   *)
(* as allocated, of which the code looks at the first _curr_size entries.  *)
(* A slot is NULL, an object, or GARBAGE: memory realloc did not fill.     *)
(*                                                                         *)
(* `wild' is set by a step that follows a pointer to something that is not *)
(* live, or calls a NULL operation: what happens then is undefined, and    *)
(* the model stops.  What a filesystem driver does inside its operations   *)
(* is reduced to what the VFS sees of it.                                  *)
(*                                                                         *)
(* The kernel mounts, opens, reads and closes, and asks HFS to create,     *)
(* make or remove.  `events' says what else a behaviour may have:          *)
(* "unmount" of what is mounted, "modify" of a FAT12 filesystem, "heap"    *)
(* for a malloc or realloc that returns NULL.                              *)
(***************************************************************************)
EXTENDS Integers, Sequences, FiniteSets, FiniteSetsExt

CONSTANTS Names,      \* names of mount points
          Objects,    \* heap objects for mounted filesystems
          Files,      \* file_t handles
          FileSize,   \* bytes in a FAT12 file
          Word,       \* a uint32_t is below this (2^32)
          INIT_MPOINTS,
          Events,     \* what may happen beyond the kernel's own use, below
          MaxSlots,   \* bound: the table is not grown beyond this
          NULL, GARBAGE

FsTypes == {"fat12", "hfs"}

ASSUME VfsAssumption ==
    /\ Word \in Nat /\ FileSize \in Nat /\ FileSize < Word \div 2
    /\ MaxSlots \in Nat /\ INIT_MPOINTS \in Nat \ (0 .. 4)
    /\ Events \subseteq {"unmount", "modify", "heap"}
    /\ NULL # GARBAGE /\ {NULL, GARBAGE} \cap Objects = {}

VARIABLES slots, _curr_size,  \* _mountpoints
          live, fs,           \* the vfs objects: vcovered->name and type
          files,              \* open files: the vnode's object, f_offset,
                              \* and whether the entry is a directory
          ret, wild,
          events              \* what this behaviour has of Events

vars == <<slots, _curr_size, live, fs, files, ret, wild, events>>

Instances == [name : Names, type : FsTypes]
OpenFile == [obj : Objects, type : FsTypes, dir : BOOLEAN, f_offset : Nat]

TypeOK ==
    /\ slots \in Seq(Objects \cup {NULL, GARBAGE})
    /\ _curr_size \in 0 .. Len(slots)
    /\ live \subseteq Objects
    /\ fs \in [Objects -> Instances \cup {NULL}]
    /\ files \in [Files -> OpenFile \cup {NULL}]
    /\ ret \in Int
    /\ wild \in BOOLEAN
    /\ events \subseteq Events

\* vfs_init: room for INIT_MPOINTS entries, but _curr_size is 0.
vfs_init ==
    /\ slots = [i \in 1 .. INIT_MPOINTS |-> NULL]
    /\ _curr_size = 0

Init ==
    /\ vfs_init
    /\ live = {}
    /\ fs = [o \in Objects |-> NULL]
    /\ files = [f \in Files |-> NULL]
    /\ ret = 0
    /\ wild = FALSE
    /\ events \in SUBSET Events

-----------------------------------------------------------------------------
(***************************************************************************)
(* The linear search all of vfs_unmount, vfs_get_mounted and               *)
(* _vfs_resolve_mountpoint do: skip NULL slots, stop at the first name     *)
(* that matches, follow every pointer on the way.                          *)
(***************************************************************************)
Named(i, name) == slots[i] \in Objects /\ fs[slots[i]].name = name
Hits(name) == {i \in 1 .. _curr_size : Named(i, name)}
Visited(name) ==
    {i \in 1 .. _curr_size : slots[i] # NULL /\ \A h \in Hits(name) : i <= h}
Safe(name) == \A i \in Visited(name) : slots[i] \in live

\* What a safe search returns.
Resolved(name) == IF Hits(name) = {} THEN NULL ELSE slots[Min(Hits(name))]

Wild ==
    /\ wild' = TRUE
    /\ UNCHANGED <<slots, _curr_size, live, fs, files, ret, events>>

\* A step that begins by resolving `name'.
Unsafe(name) == ~Safe(name) /\ Wild

\* Mutant of Grown: room for one entry too few.
Grown_short(old, n) == {[i \in 1 .. n + 4 |-> NULL]}

\* Mutant of Grown: a fresh, unwritten array.
Grown_fresh(old, n) == {[i \in 1 .. n + 5 |-> GARBAGE]}

\* realloc to n + 5 entries: the old ones are kept, the rest is whatever the
\* heap had there.
Grown(old, n) ==
    {[i \in 1 .. n + 5 |-> IF i <= Len(old) THEN old[i] ELSE rest[i]] :
        rest \in [Len(old) + 1 .. n + 5 -> {NULL, GARBAGE}]}

\* Mutant of _add_to_mpoints: the first slot is taken, free or not.
_add_to_mpoints_first(v) ==
    /\ slots' = [slots EXCEPT ![1] = v]
    /\ _curr_size' = IF _curr_size = 0 THEN 5 ELSE _curr_size

\* The first NULL slot, or the first new one after a realloc.  Where that
\* fails the object is in no slot, and vfs_mount is not told.
_add_to_mpoints(v) ==
    LET empty == {i \in 1 .. _curr_size : slots[i] = NULL}
    IN  \/ /\ empty # {}
           /\ slots' = [slots EXCEPT ![Min(empty)] = v]
           /\ UNCHANGED _curr_size
        \/ /\ empty = {}
           /\ _curr_size + 5 <= MaxSlots
           /\ \E new \in Grown(slots, _curr_size) :
                slots' = [new EXCEPT ![_curr_size + 1] = v]
           /\ _curr_size' = _curr_size + 5
        \/ "heap" \in events /\ empty = {} /\ UNCHANGED <<slots, _curr_size>>

-----------------------------------------------------------------------------
\* The type is known and the driver's mount succeeds.  A path that is
\* already mounted is not looked for.
vfs_mount(name, type, o) ==
    /\ ~wild /\ o \notin live
    /\ live' = live \cup {o}
    /\ fs' = [fs EXCEPT ![o] = [name |-> name, type |-> type]]
    /\ _add_to_mpoints(o)
    /\ ret' = 0
    /\ UNCHANGED <<files, wild, events>>

\* No such type, or the driver returned NULL.  The vnode of the mount point
\* is written without a check of what malloc returned.
vfs_mount_fails ==
    /\ ~wild
    /\ \/ /\ ret' = -1
          /\ UNCHANGED <<slots, _curr_size, live, fs, files, wild, events>>
       \/ "heap" \in events /\ Wild

\* The driver frees the vfs object; the slot keeps pointing at it.  HFS may
\* refuse.
vfs_unmount(name) ==
    /\ ~wild
    /\ \/ Unsafe(name)
       \/ /\ Safe(name) /\ Resolved(name) # NULL /\ "unmount" \in events
          /\ live' = live \ {Resolved(name)}
          /\ ret' = 0
          /\ UNCHANGED <<slots, _curr_size, fs, files, wild, events>>
       \/ /\ Safe(name)
          /\ Resolved(name) # NULL => fs[Resolved(name)].type = "hfs"
          /\ ret' = -1
          /\ UNCHANGED <<slots, _curr_size, live, fs, files, wild, events>>

\* vfs_create, vfs_mkdir, vfs_remove: FAT12 has no such operation (a NULL
\* pointer), HFS succeeds or fails.
vfs_modify(name) ==
    LET o == Resolved(name) IN
    /\ ~wild
    /\ \/ Unsafe(name)
       \/ /\ Safe(name) /\ o # NULL
          /\ \/ fs[o].type = "fat12" /\ "modify" \in events /\ Wild
             \/ /\ fs[o].type = "hfs" /\ ret' \in {0, -1}
                /\ UNCHANGED <<slots, _curr_size, live, fs, files, wild, events>>
       \/ /\ Safe(name) /\ o = NULL /\ ret' = -1
          /\ UNCHANGED <<slots, _curr_size, live, fs, files, wild, events>>

\* The driver finds an entry, a file or a directory, and a file_t is
\* allocated for it (and written without a check of what malloc returned).
vfs_open(name, f) ==
    LET o == Resolved(name) IN
    /\ ~wild /\ files[f] = NULL
    /\ \/ Unsafe(name)
       \/ /\ Safe(name) /\ o # NULL
          /\ \E d \in BOOLEAN : files' = [files EXCEPT ![f] =
                        [obj |-> o, type |-> fs[o].type, dir |-> d, f_offset |-> 0]]
          /\ UNCHANGED <<slots, _curr_size, live, fs, ret, wild, events>>
       \/ Safe(name) /\ o # NULL /\ "heap" \in events /\ Wild

\* No such mount point, or no such file: NULL.
vfs_open_fails(name) ==
    /\ ~wild
    /\ \/ Unsafe(name)
       \/ Safe(name) /\ UNCHANGED vars

(***************************************************************************)
(* What fat12_read answers.  At the end 0; else the request, cut at the    *)
(* end of the file by a sum of 32 bits, so that a request large enough to  *)
(* wrap it is not cut; the size is returned as an int32_t.  A directory is *)
(* refused, and so is a read for which malloc has no cluster buffer.       *)
(***************************************************************************)
Signed(u) == IF u < Word \div 2 THEN u ELSE u - Word

fat12_read_count(offs, n) ==
    IF offs >= FileSize THEN 0
    ELSE Signed(IF (offs + n) % Word > FileSize THEN FileSize - offs ELSE n)

fat12_read(file, n) ==
    IF file.dir THEN {-1}
    ELSE {fat12_read_count(file.f_offset, n)}
         \cup (IF "heap" \in events /\ file.f_offset < FileSize THEN {-1} ELSE {})

\* Mutant of Advanced: an error is added like a count.
Advanced_always(offs, r) == (offs + r) % Word

\* f_offset after an answer.
Advanced(offs, r) == IF r > 0 THEN (offs + r) % Word ELSE offs

\* vfs_read: an empty request is refused; FAT12 follows vnode->vfs_ptr;
\* f_offset advances by an answer above 0.
vfs_read(f, n) ==
    LET file == files[f] IN
    /\ ~wild /\ file # NULL /\ file.type = "fat12"
    /\ \/ n = 0 /\ ret' = -1 /\ UNCHANGED <<slots, _curr_size, live, fs, files, wild, events>>
       \/ n # 0 /\ file.obj \notin live /\ Wild
       \/ /\ n # 0 /\ file.obj \in live
          /\ ret' \in fat12_read(file, n)
          /\ files' = [files EXCEPT ![f].f_offset = Advanced(@, ret')]
          /\ UNCHANGED <<slots, _curr_size, live, fs, wild, events>>

\* vfs_write: FAT12 answers -1 and the offset stays.
vfs_write(f) ==
    /\ ~wild /\ files[f] # NULL /\ files[f].type = "fat12"
    /\ ret' = -1
    /\ UNCHANGED <<slots, _curr_size, live, fs, files, wild, events>>

\* vfs_close: the file_t is freed whatever the driver answers, and
\* fat12_close always answers -1.
vfs_close(f) ==
    /\ ~wild /\ files[f] # NULL
    /\ ret' \in IF files[f].type = "fat12" THEN {-1} ELSE {0, -1}
    /\ files' = [files EXCEPT ![f] = NULL]
    /\ UNCHANGED <<slots, _curr_size, live, fs, wild, events>>

MountStep(name) ==
    \/ \E type \in FsTypes, o \in Objects : vfs_mount(name, type, o)
    \/ vfs_unmount(name)
    \/ vfs_modify(name)

FileStep(f) ==
    \/ \E name \in Names : vfs_open(name, f)
    \/ \E n \in 0 .. Word - 1 : vfs_read(f, n)
    \/ vfs_write(f)
    \/ vfs_close(f)

Next ==
    \/ \E name \in Names : MountStep(name)
    \/ \E f \in Files : FileStep(f)
    \/ \E name \in Names : vfs_open_fails(name)
    \/ vfs_mount_fails

Spec == Init /\ [][Next]_vars

-----------------------------------------------------------------------------
(***************************************************************************)
(* As the kernel uses it, no search and no file operation follows a        *)
(* pointer to a freed or never written vfs, or calls a NULL operation.     *)
(***************************************************************************)
NoWildAccess == events = {} => ~wild

(***************************************************************************)
(* "unmounts a filesystem mounted at the specified path": once it is       *)
(* unmounted and freed, no later call follows a pointer to it.             *)
(***************************************************************************)
NoUseAfterUnmount == events = {"unmount"} => ~wild

(***************************************************************************)
(* Every mounted filesystem sits in exactly one slot the searches look at: *)
(* filling gaps and growing the array loses and repeats none.              *)
(***************************************************************************)
EachMountInOneSlot ==
    events \subseteq {"modify"} =>
        \A o \in live : Cardinality({i \in 1 .. _curr_size : slots[i] = o}) = 1

(***************************************************************************)
(* A path keeps meaning the filesystem it means, until that is unmounted:  *)
(* later mounts, wherever they go in the table and however it grows or     *)
(* fails to, never redirect it.                                            *)
(***************************************************************************)
MountsPersist ==
    [][\A name \in Names :
        Resolved(name) # NULL /\ "unmount" \notin events
            => Resolved(name)' = Resolved(name)]_vars

(***************************************************************************)
(* However reads are cut up, whatever is unmounted or fails meanwhile, the *)
(* offset of an open FAT12 file never passes its end, and that of a        *)
(* directory, which no read gets past, stays 0: the errors of fat12_read,  *)
(* and the answer to a request so large that it wraps, move no offset.     *)
(***************************************************************************)
OffsetWithinFile ==
    \A f \in Files : files[f] # NULL =>
        /\ files[f].f_offset \in 0 .. FileSize
        /\ files[f].dir => files[f].f_offset = 0
=============================================================================
