----------------------------- MODULE VfsProofs -----------------------------
(***************************************************************************)
(* Theorems about the mount table and the open files of Vfs: for any names,*)
(* filesystems, files and file size, and however often the table grows.    *)
(***************************************************************************)
EXTENDS Vfs, CommonProofs, FiniteSetTheorems

\* What the searches look at, as far as it was ever allocated: before the
\* first mount the array of vfs_init, then exactly _curr_size entries.
TableShape ==
    /\ _curr_size = 0 => Len(slots) >= 5 /\ \A i \in 1 .. Len(slots) : slots[i] = NULL
    /\ _curr_size # 0 => _curr_size >= 5 /\ Len(slots) = _curr_size

\* The table is filled from the front.
NullsLast ==
    \A i, j \in 1 .. _curr_size : slots[i] = NULL /\ slots[j] \in Objects => j < i

\* An object that was ever mounted has a name and a type.
Known ==
    /\ \A o \in live : fs[o] \in Instances
    /\ \A i \in 1 .. _curr_size : slots[i] \in Objects => fs[slots[i]] \in Instances

\* Only the second realloc leaves memory nobody wrote.
FilledAtFirst == _curr_size <= 5 => \A i \in 1 .. _curr_size : slots[i] # GARBAGE

\* Without unmounting, the table points at what is mounted, each once, and
\* so do open files.
Pointers ==
    "unmount" \notin events =>
        /\ \A i \in 1 .. _curr_size : slots[i] \in Objects => slots[i] \in live
        /\ \A i, j \in 1 .. _curr_size :
            slots[i] \in Objects /\ slots[i] = slots[j] => i = j
        /\ \A f \in Files : files[f] # NULL => files[f].obj \in live

\* And if the heap never fails, everything mounted is in the table.
AllInTable ==
    events \subseteq {"modify"} => \A o \in live : \E i \in 1 .. _curr_size : slots[i] = o

NotWild == events = {} /\ _curr_size <= 5 => ~wild

IInv == TypeOK /\ TableShape /\ NullsLast /\ Known /\ FilledAtFirst /\ Pointers
        /\ AllInTable /\ NotWild /\ OffsetWithinFile

Entry == Objects \cup {NULL, GARBAGE}

-----------------------------------------------------------------------------
\* _add_to_mpoints puts v in entry k: behind everything mounted, in front of
\* every free entry, and leaves the other entries as they were; what a
\* realloc adds is free or garbage, and free if it is the first.
Placed(v, k) ==
    /\ slots' \in Seq(Entry)
    /\ _curr_size' \in Nat /\ _curr_size' >= 5 /\ Len(slots') = _curr_size'
    /\ _curr_size <= _curr_size'
    /\ k \in 1 .. _curr_size' /\ slots'[k] = v
    /\ \A i \in 1 .. _curr_size : i # k => slots'[i] = slots[i]
    /\ \A i \in _curr_size + 1 .. _curr_size' :
        i # k => slots'[i] \in {NULL, GARBAGE} /\ (_curr_size = 0 => slots'[i] = NULL)
    /\ \A i \in 1 .. _curr_size' : slots'[i] = NULL => k < i
    /\ \A i \in 1 .. _curr_size : slots[i] \in Objects => i < k
    /\ _curr_size # 0 /\ _curr_size' # _curr_size => _curr_size' > 5

LEMMA Places ==
    ASSUME TypeOK, TableShape, NullsLast, NEW v \in Objects, _add_to_mpoints(v)
    PROVE  \/ "heap" \in events /\ UNCHANGED <<slots, _curr_size>>
           \/ \E k \in Nat : Placed(v, k)
<1> DEFINE empty == {i \in 1 .. _curr_size : slots[i] = NULL}
<1>1. /\ slots \in Seq(Entry) /\ _curr_size \in Nat /\ Len(slots) \in Nat
      /\ _curr_size <= Len(slots)
      /\ v # NULL /\ v # GARBAGE /\ v \in Entry
      /\ \A i \in 1 .. Len(slots) : slots[i] \in Entry
  BY VfsAssumption DEF TypeOK, Entry
<1>2. CASE empty # {} /\ slots' = [slots EXCEPT ![Min(empty)] = v] /\ UNCHANGED _curr_size
  <2>1. Min(empty) \in empty /\ \A y \in empty : Min(empty) <= y
    <3>1. empty \in SUBSET Nat
      BY <1>1
    <3> QED BY <1>2, <3>1, MinNat
  <2>2. PICK k \in empty : k = Min(empty) /\ \A y \in empty : k <= y
    BY <2>1
  <2> HIDE DEF empty
  <2>3. k \in 1 .. _curr_size /\ slots[k] = NULL
    BY <2>2 DEF empty
  <2>4. slots' = [slots EXCEPT ![k] = v] /\ _curr_size' = _curr_size
    BY <1>2, <2>2
  <2>5. slots' \in Seq(Entry) /\ Len(slots') = Len(slots)
    BY <1>1, <2>3, <2>4
  <2>6. slots'[k] = v /\ \A i \in 1 .. Len(slots) : i # k => slots'[i] = slots[i]
    BY <1>1, <2>3, <2>4
  <2>7. _curr_size >= 5 /\ Len(slots) = _curr_size
    BY <1>1, <2>3 DEF TableShape
  <2>8. \A i \in 1 .. _curr_size : slots'[i] = NULL => k < i
    <3> SUFFICES ASSUME NEW i \in 1 .. _curr_size, slots'[i] = NULL PROVE k < i
      OBVIOUS
    <3>1. i # k
      BY <1>1, <2>6
    <3>2. i \in empty
      BY <2>6, <2>7, <3>1 DEF empty
    <3> QED BY <2>2, <2>3, <3>1, <3>2
  <2>9. \A i \in 1 .. _curr_size : slots[i] \in Objects => i < k
    BY <2>3 DEF NullsLast
  <2>10. Placed(v, k)
    BY <1>1, <2>3, <2>4, <2>5, <2>6, <2>7, <2>8, <2>9 DEF Placed
  <2> QED BY <1>1, <2>3, <2>10
<1>3. CASE /\ empty = {}
           /\ \E new \in Grown(slots, _curr_size) : slots' = [new EXCEPT ![_curr_size + 1] = v]
           /\ _curr_size' = _curr_size + 5
  <2> DEFINE n == _curr_size
             k == n + 1
  <2>1. PICK new \in Grown(slots, n) : slots' = [new EXCEPT ![k] = v]
    BY <1>3
  <2>2. PICK rest \in [Len(slots) + 1 .. n + 5 -> {NULL, GARBAGE}] :
            new = [i \in 1 .. n + 5 |-> IF i <= Len(slots) THEN slots[i] ELSE rest[i]]
    BY <2>1 DEF Grown
  <2>3. \A i \in 1 .. n + 5 : new[i] = IF i <= Len(slots) THEN slots[i] ELSE rest[i]
    BY <2>2
  <2>4. \A i \in 1 .. n + 5 : i > Len(slots) => rest[i] \in {NULL, GARBAGE}
    BY <1>1, <2>2
  <2>5. slots' = [i \in 1 .. n + 5 |-> IF i = k THEN v ELSE new[i]]
    BY <1>1, <2>1, <2>2
  <2>6. \A i \in 1 .. n + 5 : slots'[i] = IF i = k THEN v ELSE new[i]
    BY <2>5
  <2>7. \A i \in 1 .. n + 5 : slots'[i] \in Entry
    BY <1>1, <2>3, <2>4, <2>6, SMTT(30) DEF Entry
  <2>8. slots' \in Seq(Entry) /\ Len(slots') = n + 5
    <3>1. slots' \in [1 .. n + 5 -> Entry]
      BY <2>5, <2>6, <2>7
    <3> QED BY <1>1, <3>1
  <2>9. \A i \in 1 .. n : slots'[i] = slots[i]
    BY <1>1, <2>3, <2>6
  <2>10. \A i \in n + 1 .. n + 5 :
            i # k => slots'[i] \in {NULL, GARBAGE} /\ (n = 0 => slots'[i] = NULL)
    <3> SUFFICES ASSUME NEW i \in n + 1 .. n + 5, i # k
                 PROVE  slots'[i] \in {NULL, GARBAGE} /\ (n = 0 => slots'[i] = NULL)
      OBVIOUS
    <3>1. slots'[i] = new[i] /\ i \in 1 .. n + 5
      BY <1>1, <2>6
    <3>2. CASE n = 0
      <4>1. i <= Len(slots) /\ slots[i] = NULL
        BY <1>1, <3>2 DEF TableShape
      <4> QED BY <2>3, <3>1, <4>1
    <3>3. CASE n # 0
      <4>1. i > Len(slots)
        BY <1>1, <3>3 DEF TableShape
      <4> QED BY <1>1, <2>3, <2>4, <3>1, <3>3, <4>1
    <3> QED BY <3>2, <3>3
  <2>11. \A i \in 1 .. n + 5 : slots'[i] = NULL => k < i
    <3> SUFFICES ASSUME NEW i \in 1 .. n + 5, slots'[i] = NULL PROVE k < i
      OBVIOUS
    <3>1. i # k
      BY <1>1, <2>6
    <3>2. ~(i \in 1 .. n)
      <4>1. SUFFICES ASSUME i \in 1 .. n PROVE FALSE
        OBVIOUS
      <4>2. i \in empty
        BY <2>9, <4>1
      <4> QED BY <1>3, <4>2
    <3> QED BY <1>1, <3>1, <3>2
  <2>12. k \in 1 .. n + 5 /\ slots'[k] = v /\ k \in Nat
    BY <1>1, <2>6
  <2>13. /\ _curr_size' = n + 5 /\ n \in Nat
         /\ \A i \in 1 .. n : i < k
    BY <1>1, <1>3
  <2> HIDE DEF k
  <2>14. Placed(v, k)
    BY <2>8, <2>9, <2>10, <2>11, <2>12, <2>13 DEF Placed
  <2> QED BY <2>12, <2>14
<1> QED BY <1>2, <1>3 DEF _add_to_mpoints

-----------------------------------------------------------------------------
\* What a search finds is one of the objects in the table, and with no
\* garbage and nothing unmounted every pointer followed on the way is good.
LEMMA HitsAreEntries ==
    ASSUME TypeOK, NEW name, Hits(name) # {}
    PROVE  /\ Hits(name) \in SUBSET Nat
           /\ Min(Hits(name)) \in 1 .. _curr_size
           /\ Named(Min(Hits(name)), name)
           /\ \A h \in Hits(name) : Min(Hits(name)) <= h
<1>1. Hits(name) \in SUBSET Nat
  BY DEF Hits, TypeOK
<1>2. Min(Hits(name)) \in Hits(name) /\ \A h \in Hits(name) : Min(Hits(name)) <= h
  BY <1>1, MinNat
<1>3. Min(Hits(name)) \in 1 .. _curr_size /\ Named(Min(Hits(name)), name)
  BY <1>2, Zenon DEF Hits
<1> QED BY <1>1, <1>2, <1>3

LEMMA ResolvedObject ==
    ASSUME TypeOK, Known, NEW name, Resolved(name) # NULL
    PROVE  /\ Resolved(name) \in Objects /\ fs[Resolved(name)] \in Instances
           /\ Pointers /\ "unmount" \notin events => Resolved(name) \in live
<1>1. Hits(name) # {} /\ Resolved(name) = slots[Min(Hits(name))]
  BY DEF Resolved
<1>2. PICK m \in 1 .. _curr_size : m = Min(Hits(name)) /\ Named(m, name)
  BY <1>1, HitsAreEntries
<1> QED BY <1>1, <1>2 DEF Named, Known, Pointers

LEMMA SearchIsSafe ==
    ASSUME TypeOK, FilledAtFirst, Pointers, NEW name,
           _curr_size <= 5, "unmount" \notin events
    PROVE  Safe(name)
<1> SUFFICES ASSUME NEW i \in 1 .. _curr_size, slots[i] # NULL PROVE slots[i] \in live
  BY DEF Safe, Visited
<1>1. slots[i] \in Objects
  BY DEF TypeOK, FilledAtFirst
<1> QED BY <1>1 DEF Pointers

-----------------------------------------------------------------------------
\* A mount keeps the invariant.
LEMMA StepMount ==
    ASSUME IInv, NEW name \in Names, NEW type \in FsTypes, NEW o \in Objects,
           vfs_mount(name, type, o)
    PROVE  IInv'
<1>1. /\ ~wild /\ o \notin live /\ live' = live \cup {o}
      /\ fs' = [fs EXCEPT ![o] = [name |-> name, type |-> type]]
      /\ files' = files /\ wild' = wild /\ events' = events /\ ret' = 0
      /\ _add_to_mpoints(o)
  BY DEF vfs_mount
<1>2. /\ TypeOK /\ TableShape /\ NullsLast /\ Known /\ FilledAtFirst /\ Pointers
      /\ AllInTable /\ NotWild /\ OffsetWithinFile
  BY DEF IInv
<1>3. /\ fs' \in [Objects -> Instances \cup {NULL}]
      /\ fs'[o] \in Instances
      /\ \A p \in Objects : p # o => fs'[p] = fs[p]
  BY <1>1, <1>2 DEF TypeOK, Instances
<1>4. /\ slots \in Seq(Entry) /\ _curr_size \in Nat /\ Len(slots) \in Nat
      /\ _curr_size <= Len(slots)
      /\ o # NULL /\ o # GARBAGE /\ NULL # GARBAGE /\ NULL \notin Objects /\ GARBAGE \notin Objects
  BY <1>2, VfsAssumption DEF TypeOK, Entry
<1>5. CASE "heap" \in events /\ UNCHANGED <<slots, _curr_size>>
  <2>1. TypeOK'
    BY <1>1, <1>2, <1>3, <1>5 DEF TypeOK
  <2>2. TableShape' /\ NullsLast' /\ FilledAtFirst' /\ NotWild' /\ AllInTable'
    BY <1>1, <1>2, <1>5 DEF TableShape, NullsLast, FilledAtFirst, NotWild, AllInTable
  <2>3. Known'
    BY <1>1, <1>2, <1>3, <1>5 DEF Known, TypeOK
  <2>4. Pointers'
    BY <1>1, <1>2, <1>5 DEF Pointers
  <2>5. OffsetWithinFile'
    BY <1>1, <1>2 DEF OffsetWithinFile
  <2> QED BY <2>1, <2>2, <2>3, <2>4, <2>5 DEF IInv
<1>6. ASSUME NEW k \in Nat, Placed(o, k) PROVE IInv'
  <2>1. /\ slots' \in Seq(Entry)
        /\ _curr_size' \in Nat /\ _curr_size' >= 5 /\ Len(slots') = _curr_size'
        /\ _curr_size <= _curr_size'
        /\ k \in 1 .. _curr_size' /\ slots'[k] = o
        /\ _curr_size # 0 /\ _curr_size' # _curr_size => _curr_size' > 5
    BY <1>6 DEF Placed
  <2>2. \A i \in 1 .. _curr_size : i # k => slots'[i] = slots[i]
    BY <1>6 DEF Placed
  <2>3. \A i \in _curr_size + 1 .. _curr_size' :
            i # k => slots'[i] \in {NULL, GARBAGE} /\ (_curr_size = 0 => slots'[i] = NULL)
    BY <1>6 DEF Placed
  <2>4. /\ \A i \in 1 .. _curr_size' : slots'[i] = NULL => k < i
        /\ \A i \in 1 .. _curr_size : slots[i] \in Objects => i < k
    BY <1>6 DEF Placed
  <2>5. \A i \in 1 .. _curr_size' : slots'[i] \in Objects =>
            i = k \/ (i \in 1 .. _curr_size /\ slots'[i] = slots[i] /\ i < k)
    BY <1>4, <2>1, <2>2, <2>3, <2>4
  <2>6. TypeOK'
    BY <1>1, <1>2, <1>3, <2>1 DEF TypeOK, Entry
  <2>7. TableShape'
    BY <2>1 DEF TableShape
  <2>8. NullsLast'
    BY <1>4, <2>1, <2>4, <2>5 DEF NullsLast
  <2>9. Known'
    BY <1>1, <1>2, <1>3, <2>1, <2>5 DEF Known, TypeOK
  <2>10. FilledAtFirst'
    BY <1>2, <1>4, <2>1, <2>2, <2>3 DEF FilledAtFirst
  <2>11. Pointers'
    <3> SUFFICES ASSUME "unmount" \notin events
                 PROVE  /\ \A i \in 1 .. _curr_size' : slots'[i] \in Objects => slots'[i] \in live'
                        /\ \A i, j \in 1 .. _curr_size' :
                            slots'[i] \in Objects /\ slots'[i] = slots'[j] => i = j
                        /\ \A f \in Files : files'[f] # NULL => files'[f].obj \in live'
      BY <1>1 DEF Pointers
    <3>1. /\ \A i \in 1 .. _curr_size : slots[i] \in Objects => slots[i] \in live
          /\ \A i, j \in 1 .. _curr_size : slots[i] \in Objects /\ slots[i] = slots[j] => i = j
          /\ \A f \in Files : files[f] # NULL => files[f].obj \in live
      BY <1>2 DEF Pointers
    <3>2. \A i \in 1 .. _curr_size' : slots'[i] \in Objects => slots'[i] \in live'
      BY <1>1, <2>1, <2>5, <3>1
    <3>3. ASSUME NEW i \in 1 .. _curr_size', NEW j \in 1 .. _curr_size',
                 slots'[i] \in Objects, slots'[i] = slots'[j]
          PROVE  i = j
      <4>1. i = k \/ (i \in 1 .. _curr_size /\ slots'[i] = slots[i] /\ slots[i] \in live)
        BY <2>5, <3>1, <3>3
      <4>2. j = k \/ (j \in 1 .. _curr_size /\ slots'[j] = slots[j] /\ slots[j] \in live)
        BY <2>5, <3>1, <3>3
      <4> QED BY <1>1, <2>1, <3>1, <3>3, <4>1, <4>2
    <3>4. \A f \in Files : files'[f] # NULL => files'[f].obj \in live'
      BY <1>1, <3>1
    <3> QED BY <3>2, <3>3, <3>4
  <2>12. AllInTable'
    <3> SUFFICES ASSUME events \subseteq {"modify"}, NEW p \in live'
                 PROVE  \E i \in 1 .. _curr_size' : slots'[i] = p
      BY <1>1 DEF AllInTable
    <3>1. CASE p = o
      BY <2>1, <3>1
    <3>2. CASE p # o
      <4>1. PICK i \in 1 .. _curr_size : slots[i] = p
        BY <1>1, <1>2, <3>2 DEF AllInTable
      <4>2. p \in Objects
        BY <1>1, <1>2, <3>2 DEF TypeOK
      <4>3. i < k /\ i \in 1 .. _curr_size'
        BY <1>4, <2>1, <2>4, <4>1, <4>2
      <4> QED BY <2>2, <4>1, <4>3
    <3> QED BY <3>1, <3>2
  <2>13. NotWild' /\ OffsetWithinFile'
    BY <1>1, <1>2 DEF NotWild, OffsetWithinFile
  <2> QED BY <2>6, <2>7, <2>8, <2>9, <2>10, <2>11, <2>12, <2>13 DEF IInv
<1> QED BY <1>1, <1>2, <1>5, <1>6, Places

\* A step that leaves the table and the objects alone, and goes wrong only
\* where it may, keeps the invariant if the files stay in order.
LEMMA StepFiles ==
    ASSUME IInv, UNCHANGED <<slots, _curr_size, live, fs, events>>,
           files' \in [Files -> OpenFile \cup {NULL}],
           "unmount" \notin events =>
                \A f \in Files : files'[f] # NULL => files'[f].obj \in live,
           OffsetWithinFile',
           ret' \in Int, wild' \in BOOLEAN,
           events = {} /\ _curr_size <= 5 => wild' = wild
    PROVE  IInv'
<1>1. TypeOK' /\ TableShape' /\ NullsLast' /\ Known'
  BY DEF IInv, TypeOK, TableShape, NullsLast, Known
<1>2. FilledAtFirst' /\ AllInTable' /\ NotWild'
  BY DEF IInv, FilledAtFirst, AllInTable, NotWild
<1>3. Pointers'
  BY DEF IInv, Pointers
<1> QED BY <1>1, <1>2, <1>3 DEF IInv

\* In particular one that changes nothing but the answer, or goes wrong.
LEMMA StepAnswer ==
    ASSUME IInv, UNCHANGED <<slots, _curr_size, live, fs, files, wild, events>>, ret' \in Int
    PROVE  IInv'
BY StepFiles DEF IInv, TypeOK, Pointers, OffsetWithinFile

LEMMA StepWild ==
    ASSUME IInv, Wild, ~(events = {} /\ _curr_size <= 5)
    PROVE  IInv'
BY StepFiles DEF IInv, TypeOK, Pointers, OffsetWithinFile, Wild

LEMMA StepUnsafe ==
    ASSUME IInv, NEW name, Unsafe(name)
    PROVE  IInv'
<1>1. ~(events = {} /\ _curr_size <= 5)
  BY SearchIsSafe DEF IInv, Unsafe
<1> QED BY <1>1, StepWild DEF Unsafe

-----------------------------------------------------------------------------
\* Unmounting is the one step that takes an object away.
LEMMA StepUnmount ==
    ASSUME IInv, NEW name \in Names, vfs_unmount(name)
    PROVE  IInv'
<1>1. CASE Unsafe(name)
  BY <1>1, StepUnsafe
<1>2. CASE /\ "unmount" \in events /\ live' = live \ {Resolved(name)} /\ ret' = 0
           /\ UNCHANGED <<slots, _curr_size, fs, files, wild, events>>
  <2>1. TypeOK' /\ TableShape' /\ NullsLast'
    BY <1>2 DEF IInv, TypeOK, TableShape, NullsLast
  <2>2. Known' /\ FilledAtFirst' /\ OffsetWithinFile'
    BY <1>2 DEF IInv, Known, FilledAtFirst, OffsetWithinFile
  <2>3. Pointers' /\ AllInTable' /\ NotWild'
    BY <1>2 DEF IInv, Pointers, AllInTable, NotWild
  <2> QED BY <2>1, <2>2, <2>3 DEF IInv
<1>3. CASE /\ ret' = -1
           /\ UNCHANGED <<slots, _curr_size, live, fs, files, wild, events>>
  BY <1>3, StepAnswer
<1> QED BY <1>1, <1>2, <1>3 DEF vfs_unmount

LEMMA StepModify ==
    ASSUME IInv, NEW name \in Names, vfs_modify(name)
    PROVE  IInv'
<1>1. CASE Unsafe(name)
  BY <1>1, StepUnsafe
<1>2. CASE "modify" \in events /\ Wild
  BY <1>2, StepWild
<1>3. CASE /\ ret' \in {0, -1}
           /\ UNCHANGED <<slots, _curr_size, live, fs, files, wild, events>>
  BY <1>3, StepAnswer
<1> QED BY <1>1, <1>2, <1>3 DEF vfs_modify

LEMMA StepOpen ==
    ASSUME IInv, NEW name \in Names, NEW f \in Files, vfs_open(name, f)
    PROVE  IInv'
<1> DEFINE o == Resolved(name)
<1>1. CASE Unsafe(name)
  BY <1>1, StepUnsafe
<1>2. CASE "heap" \in events /\ Wild
  BY <1>2, StepWild
<1>3. ASSUME NEW d \in BOOLEAN, o # NULL,
             files' = [files EXCEPT ![f] =
                        [obj |-> o, type |-> fs[o].type, dir |-> d, f_offset |-> 0]],
             UNCHANGED <<slots, _curr_size, live, fs, ret, wild, events>>
      PROVE  IInv'
  <2> DEFINE new == [obj |-> o, type |-> fs[o].type, dir |-> d, f_offset |-> 0]
  <2>1. /\ o \in Objects /\ fs[o] \in Instances
        /\ "unmount" \notin events => o \in live
    BY <1>3, ResolvedObject DEF IInv
  <2>2. new \in OpenFile /\ new.obj = o /\ new.f_offset = 0
    BY <2>1 DEF Instances, OpenFile
  <2> HIDE DEF new, o
  <2>3. /\ files' = [files EXCEPT ![f] = new] /\ files \in [Files -> OpenFile \cup {NULL}]
        /\ ret' \in Int /\ wild' = wild /\ wild \in BOOLEAN
    BY <1>3 DEF IInv, TypeOK, new
  <2>4. files' \in [Files -> OpenFile \cup {NULL}]
    BY <2>2, <2>3
  <2>5. \A g \in Files : files'[g] = IF g = f THEN new ELSE files[g]
    BY <2>3
  <2>6. "unmount" \notin events =>
            \A g \in Files : files'[g] # NULL => files'[g].obj \in live
    BY <2>1, <2>2, <2>5 DEF IInv, Pointers
  <2>7. OffsetWithinFile'
    BY <2>2, <2>5, VfsAssumption DEF IInv, OffsetWithinFile
  <2> QED BY <1>3, <2>3, <2>4, <2>6, <2>7, StepFiles
<1> QED BY <1>1, <1>2, <1>3 DEF vfs_open

\* fat12_read answers an error, or no more than is left of the file: where
\* the sum wraps, the request is so large that it comes back negative.
LEMMA ReadCount ==
    ASSUME NEW offs \in 0 .. FileSize, NEW n \in 0 .. Word - 1
    PROVE  /\ fat12_read_count(offs, n) \in Int
           /\ fat12_read_count(offs, n) > 0 => offs + fat12_read_count(offs, n) <= FileSize
<1>1. Word \in Nat /\ FileSize \in Nat /\ FileSize < Word \div 2
  BY VfsAssumption
<1> DEFINE half == Word \div 2
<1>2. half \in Nat /\ 2 * half <= Word
  BY <1>1
<1>3. FileSize < half
  BY <1>1
<1> HIDE DEF half
<1>4. CASE offs >= FileSize
  BY <1>1, <1>4 DEF fat12_read_count
<1>5. CASE offs < FileSize
  <2> DEFINE w == (offs + n) % Word
             s == IF w > FileSize THEN FileSize - offs ELSE n
  <2>1. fat12_read_count(offs, n) = IF s < half THEN s ELSE s - Word
    BY <1>1, <1>5 DEF fat12_read_count, Signed, half
  <2>2. w = IF offs + n < Word THEN offs + n ELSE offs + n - Word
    BY <1>1, <1>2, <1>3, <1>5
  <2> HIDE DEF w
  <2>3. CASE w > FileSize
    BY <1>1, <1>3, <1>5, <2>1, <2>3
  <2>4. CASE ~(w > FileSize)
    BY <1>1, <1>2, <1>3, <1>5, <2>1, <2>2, <2>4
  <2> QED BY <2>3, <2>4
<1> QED BY <1>1, <1>4, <1>5

\* No answer takes the offset past the end.
LEMMA ReadAdvances ==
    ASSUME NEW file, file.f_offset \in 0 .. FileSize, file.dir => file.f_offset = 0,
           NEW n \in 0 .. Word - 1, NEW r \in fat12_read(file, n)
    PROVE  /\ r \in Int
           /\ Advanced(file.f_offset, r) \in 0 .. FileSize
           /\ file.dir => Advanced(file.f_offset, r) = 0
<1>1. Word \in Nat /\ FileSize \in Nat /\ FileSize < Word
  BY VfsAssumption
<1> DEFINE offs == file.f_offset
<1>2. r = -1 \/ (~file.dir /\ r = fat12_read_count(offs, n))
  BY DEF fat12_read
<1>3. CASE r = -1
  BY <1>3 DEF Advanced
<1>4. CASE ~file.dir /\ r = fat12_read_count(offs, n)
  <2>1. r \in Int /\ (r > 0 => offs + r <= FileSize)
    BY <1>4, ReadCount
  <2>2. r > 0 => (offs + r) % Word = offs + r
    BY <1>1, <2>1
  <2> QED BY <1>1, <1>4, <2>1, <2>2 DEF Advanced
<1> QED BY <1>2, <1>3, <1>4

LEMMA StepRead ==
    ASSUME IInv, NEW f \in Files, NEW n \in 0 .. Word - 1, vfs_read(f, n)
    PROVE  IInv'
<1> DEFINE file == files[f]
<1>1. CASE ret' = -1 /\ UNCHANGED <<slots, _curr_size, live, fs, files, wild, events>>
  BY <1>1, StepAnswer
<1>2. /\ file # NULL /\ file \in OpenFile /\ file.f_offset \in 0 .. FileSize
      /\ file.dir => file.f_offset = 0
  BY DEF vfs_read, IInv, TypeOK, OffsetWithinFile
<1>3. CASE file.obj \notin live /\ Wild
  BY <1>2, <1>3, StepWild DEF IInv, Pointers
<1>4. CASE /\ ret' \in fat12_read(file, n)
           /\ files' = [files EXCEPT ![f].f_offset = Advanced(@, ret')]
           /\ UNCHANGED <<slots, _curr_size, live, fs, wild, events>>
  <2> DEFINE a == Advanced(file.f_offset, ret')
  <2>1. ret' \in Int /\ a \in 0 .. FileSize /\ (file.dir => a = 0)
    BY <1>2, <1>4, ReadAdvances
  <2> HIDE DEF a
  <2> DEFINE new == [file EXCEPT !.f_offset = a]
  <2>2. a \in Nat
    BY <2>1, VfsAssumption
  <2>3. /\ new \in OpenFile /\ new.obj = file.obj /\ new.f_offset = a /\ new.dir = file.dir
    BY <1>2, <2>2 DEF OpenFile
  <2>4. /\ files' = [files EXCEPT ![f] = new] /\ files \in [Files -> OpenFile \cup {NULL}]
        /\ ret' \in Int /\ wild' = wild /\ wild \in BOOLEAN
    BY <1>4, <2>1 DEF IInv, TypeOK, a
  <2> HIDE DEF new
  <2>5. files' \in [Files -> OpenFile \cup {NULL}]
    BY <2>3, <2>4
  <2>6. \A g \in Files : files'[g] = IF g = f THEN new ELSE files[g]
    BY <2>4
  <2>7. "unmount" \notin events =>
            \A g \in Files : files'[g] # NULL => files'[g].obj \in live
    BY <1>2, <2>3, <2>6 DEF IInv, Pointers
  <2>8. OffsetWithinFile'
    BY <2>1, <2>3, <2>6 DEF IInv, OffsetWithinFile
  <2> QED BY <1>4, <2>4, <2>5, <2>7, <2>8, StepFiles
<1> QED BY <1>1, <1>3, <1>4 DEF vfs_read

LEMMA StepClose ==
    ASSUME IInv, NEW f \in Files, vfs_close(f)
    PROVE  IInv'
<1>1. /\ ret' \in Int /\ files' = [files EXCEPT ![f] = NULL]
      /\ UNCHANGED <<slots, _curr_size, live, fs, wild, events>>
  BY DEF vfs_close
<1>2. files \in [Files -> OpenFile \cup {NULL}] /\ wild \in BOOLEAN
  BY DEF IInv, TypeOK
<1>3. /\ files' \in [Files -> OpenFile \cup {NULL}]
      /\ \A g \in Files : files'[g] = IF g = f THEN NULL ELSE files[g]
  BY <1>1, <1>2
<1>4. "unmount" \notin events => \A g \in Files : files'[g] # NULL => files'[g].obj \in live
  BY <1>3 DEF IInv, Pointers
<1>5. OffsetWithinFile'
  BY <1>3 DEF IInv, OffsetWithinFile
<1> QED BY <1>1, <1>2, <1>3, <1>4, <1>5, StepFiles

LEMMA StepOther ==
    ASSUME IInv, vfs_mount_fails \/ (\E f \in Files : vfs_write(f))
                  \/ (\E name \in Names : vfs_open_fails(name))
    PROVE  IInv'
<1>1. CASE vfs_mount_fails
  BY <1>1, StepAnswer, StepWild DEF vfs_mount_fails
<1>2. CASE \E f \in Files : vfs_write(f)
  BY <1>2, StepAnswer DEF vfs_write
<1>3. ASSUME NEW name \in Names, vfs_open_fails(name) PROVE IInv'
  <2>1. CASE Unsafe(name)
    BY <2>1, StepUnsafe
  <2>2. CASE UNCHANGED vars
    BY <2>2, StepAnswer DEF vars, IInv, TypeOK
  <2> QED BY <1>3, <2>1, <2>2 DEF vfs_open_fails
<1> QED BY <1>1, <1>2, <1>3

LEMMA InvariantStep == IInv /\ [Next]_vars => IInv'
<1> SUFFICES ASSUME IInv, [Next]_vars PROVE IInv'
  OBVIOUS
<1>1. CASE UNCHANGED vars
  BY <1>1, StepAnswer DEF vars, IInv, TypeOK
<1>2. CASE Next
  BY <1>2, StepMount, StepUnmount, StepModify, StepOpen, StepRead, StepClose, StepOther
     DEF Next, MountStep, FileStep
<1> QED BY <1>1, <1>2

LEMMA InvariantInit == Init => IInv
<1> SUFFICES ASSUME Init PROVE IInv
  OBVIOUS
<1>1. /\ slots = [i \in 1 .. INIT_MPOINTS |-> NULL] /\ _curr_size = 0
      /\ INIT_MPOINTS \in Nat /\ INIT_MPOINTS >= 5
  BY VfsAssumption DEF Init, vfs_init
<1>2. /\ slots \in Seq(Entry) /\ Len(slots) = INIT_MPOINTS
      /\ \A i \in 1 .. Len(slots) : slots[i] = NULL
  <2>1. slots \in [1 .. INIT_MPOINTS -> Entry]
    BY <1>1 DEF Entry
  <2> QED BY <1>1, <2>1
<1>3. TypeOK
  <2>1. slots \in Seq(Objects \cup {NULL, GARBAGE}) /\ _curr_size \in 0 .. Len(slots)
    BY <1>1, <1>2 DEF Entry
  <2>2. fs \in [Objects -> Instances \cup {NULL}] /\ files \in [Files -> OpenFile \cup {NULL}]
    BY DEF Init
  <2>3. live \subseteq Objects /\ ret \in Int /\ wild = FALSE /\ events \subseteq Events
    <3>1. events \in SUBSET Events /\ live = {} /\ ret = 0 /\ wild = FALSE
      BY Zenon DEF Init
    <3> QED BY <3>1
  <2>4. wild \in BOOLEAN
    BY <2>3, Zenon
  <2> QED BY <2>1, <2>2, <2>3, <2>4 DEF TypeOK
<1>4. TableShape
  BY <1>1, <1>2 DEF TableShape
<1>5. NullsLast /\ FilledAtFirst
  BY <1>1 DEF NullsLast, FilledAtFirst
<1>6. Known /\ Pointers /\ AllInTable /\ NotWild /\ OffsetWithinFile
  BY <1>1 DEF Init, Known, Pointers, AllInTable, NotWild, OffsetWithinFile
<1> QED BY <1>3, <1>4, <1>5, <1>6 DEF IInv

LEMMA Invariant == Spec => []IInv
BY InvariantInit, InvariantStep, PTL DEF Spec

-----------------------------------------------------------------------------
\* The variables of Vfs stay in their types, whatever happens.
THEOREM VfsTypes == Spec => []TypeOK
<1>1. IInv => TypeOK
  BY DEF IInv
<1> QED BY <1>1, Invariant, PTL

(***************************************************************************)
(* As the kernel uses it, no search of the mount table and no read follows *)
(* a bad pointer, as long as the table was allocated once: up to five      *)
(* mounts.  (With the sixth, vfs.c looks at entries realloc did not fill.) *)
(***************************************************************************)
THEOREM VfsNoWildAccess == Spec => [](_curr_size <= 5 => NoWildAccess)
<1>1. IInv => (_curr_size <= 5 => NoWildAccess)
  BY DEF IInv, NotWild, NoWildAccess
<1> QED BY <1>1, Invariant, PTL

(***************************************************************************)
(* However many filesystems are mounted and however often the table grows, *)
(* each of them is in exactly one entry.                                   *)
(***************************************************************************)
THEOREM VfsEachMountInOneSlot == Spec => []EachMountInOneSlot
<1>1. IInv => EachMountInOneSlot
  <2> SUFFICES ASSUME IInv, events \subseteq {"modify"}, NEW o \in live
               PROVE  Cardinality({i \in 1 .. _curr_size : slots[i] = o}) = 1
    BY DEF EachMountInOneSlot
  <2>1. PICK i \in 1 .. _curr_size : slots[i] = o
    BY DEF IInv, AllInTable
  <2>2. o \in Objects /\ "unmount" \notin events
    BY DEF IInv, TypeOK
  <2>3. \A j \in 1 .. _curr_size : slots[j] = o => j = i
    BY <2>1, <2>2 DEF IInv, Pointers
  <2>4. {j \in 1 .. _curr_size : slots[j] = o} = {i}
    BY <2>1, <2>3
  <2> QED BY <2>4, FS_Singleton
<1> QED BY <1>1, Invariant, PTL

(***************************************************************************)
(* For every file below half the range of a uint32_t and every request, of *)
(* 32 bits, the offset of an open file never passes the end of the file,   *)
(* and the errors of fat12_read never move it.                             *)
(***************************************************************************)
THEOREM VfsOffsetWithinFile == Spec => []OffsetWithinFile
<1>1. IInv => OffsetWithinFile
  BY DEF IInv
<1> QED BY <1>1, Invariant, PTL

(***************************************************************************)
(* A mount never redirects a name that already means a filesystem: the new *)
(* entry is behind all others, wherever the table has room or grows.       *)
(***************************************************************************)
LEMMA MountKeepsResolved ==
    ASSUME IInv, NEW n \in Names, NEW type \in FsTypes, NEW o \in Objects,
           vfs_mount(n, type, o), NEW name \in Names,
           Resolved(name) # NULL, "unmount" \notin events
    PROVE  Resolved(name)' = Resolved(name)
<1> DEFINE m == Min(Hits(name))
<1>1. /\ o \notin live /\ fs' = [fs EXCEPT ![o] = [name |-> n, type |-> type]]
      /\ _add_to_mpoints(o)
  BY DEF vfs_mount
<1>2. Hits(name) # {} /\ Resolved(name) = slots[m]
  BY DEF Resolved
<1>3. /\ m \in 1 .. _curr_size /\ slots[m] \in Objects /\ fs[slots[m]].name = name
      /\ \A h \in Hits(name) : m <= h
  BY <1>2, HitsAreEntries DEF IInv, Named
<1> HIDE DEF m
<1>4. /\ TypeOK' /\ _curr_size \in Nat /\ _curr_size' \in Nat
  BY StepMount DEF IInv, TypeOK
<1>5. \A p \in Objects : p # o => fs'[p] = fs[p]
  BY <1>1 DEF IInv, TypeOK
<1>6. \A i \in 1 .. _curr_size : slots[i] \in Objects => slots[i] \in live /\ slots[i] # o
  BY <1>1 DEF IInv, Pointers
<1>7. SUFFICES /\ m \in 1 .. _curr_size' /\ slots'[m] = slots[m]
               /\ \A h \in 1 .. _curr_size' :
                    slots'[h] \in Objects /\ fs'[slots'[h]].name = name => m <= h
  <2>1. m \in Hits(name)'
    BY <1>3, <1>5, <1>6, <1>7 DEF Hits, Named
  <2>2. \A h \in Hits(name)' : m <= h
    BY <1>7 DEF Hits, Named
  <2>3. Hits(name)' \in SUBSET Nat
    BY <1>4 DEF Hits
  <2>4. Min(Hits(name)') = m
    BY <2>1, <2>2, <2>3, MinIs
  <2>5. Resolved(name)' = slots'[Min(Hits(name)')]
    BY <2>1 DEF Resolved
  <2> QED BY <1>2, <1>7, <2>4, <2>5
<1>8. CASE UNCHANGED <<slots, _curr_size>>
  <2>1. \A h \in 1 .. _curr_size :
            slots[h] \in Objects /\ fs'[slots[h]].name = name => h \in Hits(name)
    BY <1>5, <1>6 DEF Hits, Named
  <2> QED BY <1>3, <1>8, <2>1
<1>9. ASSUME NEW k \in Nat, Placed(o, k)
      PROVE  /\ m \in 1 .. _curr_size' /\ slots'[m] = slots[m]
             /\ \A h \in 1 .. _curr_size' :
                    slots'[h] \in Objects /\ fs'[slots'[h]].name = name => m <= h
  <2>1. /\ _curr_size <= _curr_size' /\ k \in 1 .. _curr_size' /\ slots'[k] = o
        /\ \A i \in 1 .. _curr_size : i # k => slots'[i] = slots[i]
        /\ \A i \in _curr_size + 1 .. _curr_size' : i # k => slots'[i] \in {NULL, GARBAGE}
        /\ \A i \in 1 .. _curr_size : slots[i] \in Objects => i < k
    BY <1>9 DEF Placed
  <2>2. m < k /\ m \in 1 .. _curr_size' /\ slots'[m] = slots[m]
    BY <1>3, <1>4, <2>1
  <2>3. ASSUME NEW h \in 1 .. _curr_size', slots'[h] \in Objects, fs'[slots'[h]].name = name
        PROVE  m <= h
    <3>1. CASE h = k
      BY <2>2, <3>1
    <3>2. CASE h # k
      <4>1. h \in 1 .. _curr_size /\ slots'[h] = slots[h]
        BY <1>4, <2>1, <2>3, <3>2, VfsAssumption
      <4>2. fs[slots[h]].name = name
        BY <1>5, <1>6, <2>3, <4>1
      <4>3. h \in Hits(name)
        BY <2>3, <4>1, <4>2 DEF Hits, Named
      <4> QED BY <1>3, <4>3
    <3> QED BY <3>1, <3>2
  <2> QED BY <2>2, <2>3
<1> QED BY <1>1, <1>8, <1>9, Places DEF IInv

(***************************************************************************)
(* A path keeps meaning the filesystem it means until that is unmounted,   *)
(* however often vfs_mount grows the table or fails to.                    *)
(***************************************************************************)
THEOREM VfsMountsPersist == Spec => MountsPersist
<1> DEFINE Keeps == \A name \in Names :
                        Resolved(name) # NULL /\ "unmount" \notin events
                            => Resolved(name)' = Resolved(name)
<1>1. IInv /\ [Next]_vars => Keeps
  <2> SUFFICES ASSUME IInv, [Next]_vars, NEW name \in Names,
                      Resolved(name) # NULL, "unmount" \notin events
               PROVE  Resolved(name)' = Resolved(name)
    OBVIOUS
  <2>1. CASE UNCHANGED <<slots, _curr_size, fs>>
    BY <2>1 DEF Resolved, Hits, Named
  <2>2. CASE \E n \in Names, type \in FsTypes, o \in Objects : vfs_mount(n, type, o)
    BY <2>2, MountKeepsResolved
  <2>3. \/ UNCHANGED <<slots, _curr_size, fs>>
        \/ \E n \in Names, type \in FsTypes, o \in Objects : vfs_mount(n, type, o)
    BY DEF Next, MountStep, FileStep, vfs_unmount, vfs_modify, vfs_open, vfs_open_fails,
           vfs_read, vfs_write, vfs_close, vfs_mount_fails, Unsafe, Wild, vars
  <2> QED BY <2>1, <2>2, <2>3
<1>2. IInv /\ [Next]_vars => [Keeps]_vars
  BY <1>1
<1> QED BY <1>2, Invariant, PTL DEF Spec, MountsPersist
=============================================================================
