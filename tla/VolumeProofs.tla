---------------------------- MODULE VolumeProofs ----------------------------
(***************************************************************************)
(* Theorems about a FAT12 volume: for every disk, every boot sector and    *)
(* stack left in memory, whatever reads and allocations fail, and for any  *)
(* size of sectors, buffers, tables and words.  First memory, types and    *)
(* paths; then, on top of the types, what a mounted volume knows of its    *)
(* disk, what lookups find and what reads deliver.                         *)
(***************************************************************************)
EXTENDS Volume, CommonProofs, SequenceTheorems, FiniteSetTheorems

-----------------------------------------------------------------------------
(***************************************************************************)
(* Memory.  What of a mount is allocated is determined by where the code   *)
(* is, except after a fault; what nobody frees stays.                      *)
(***************************************************************************)
Held ==
    [down |-> {}, bootsector |-> {"handle"},
     device |-> {"handle", "bootsector"}, fat_table |-> {"handle", "bootsector"},
     load |-> {"handle", "bootsector", "fat_table"},
     vroot |-> {"handle", "bootsector", "fat_table", "vfs"}, mount_at |-> Memory,
     mounted |-> Memory, scan |-> Memory, loop |-> Memory, return |-> Memory]

InUse == {"mounted", "scan", "loop", "return"}

HeapByStep ==
    pc # "fault" =>
        /\ pc \in DOMAIN Held /\ heap \ NeverFreed = Held[pc]
        /\ pc \in InUse => "mount_at" \in heap
        /\ found # NULL => {"vnode", "inode"} \subseteq heap

\* One step of any of the operations keeps to it.
LEMMA HeapStep == HeapByStep /\ [Next]_vars => HeapByStep'
<1> DEFINE Keeps(from, to) == pc \in from /\ pc' \in to /\ heap' = heap
                              /\ (found' = found \/ found' = NULL)
<1> SUFFICES ASSUME HeapByStep, [Next]_vars PROVE HeapByStep'
  OBVIOUS
<1>1. CASE Keeps({"device"}, {"fat_table", "fault"})
  BY <1>1 DEF HeapByStep, Held, InUse
<1>2. CASE pc' = pc /\ heap' = heap /\ found' = found
  BY <1>2 DEF HeapByStep
<1>3. CASE Keeps({"mounted", "scan", "loop", "return"}, {"mounted", "scan", "loop", "return", "fault"})
  BY <1>3 DEF HeapByStep, Held, InUse
<1>4. CASE Register
  BY <1>2, <1>4, Zenon DEF Register
<1>5. CASE Mount
  <2>1. PICK alloc \in Allocs :
            \/ fat12_mount(alloc)
            \/ fat12_mount_bootsector(alloc)
            \/ \E junk \in JunkBytes : fat12_mount_fat_table(alloc, junk)
            \/ fat12_mount_vfs(alloc)
            \/ fat12_mount_root(alloc)
            \/ vfs_mount_at(alloc)
            \/ fat12_mount_fails("fd0", alloc)
    BY <1>5, Zenon DEF Mount
  <2> USE DEF HeapByStep, Held, InUse, NeverFreed
  <2>2. CASE fat12_mount(alloc)
    BY <2>2 DEF fat12_mount
  <2>3. CASE fat12_mount_bootsector(alloc)
    BY <2>3 DEF fat12_mount_bootsector
  <2>4. CASE \E junk \in JunkBytes : fat12_mount_fat_table(alloc, junk)
    BY <2>4 DEF fat12_mount_fat_table
  <2>5. CASE fat12_mount_vfs(alloc)
    BY <2>5 DEF fat12_mount_vfs
  <2>6. CASE fat12_mount_root(alloc)
    BY <2>6 DEF fat12_mount_root, Memory
  <2>7. CASE fat12_mount_fails("fd0", alloc)
    BY <2>7 DEF fat12_mount_fails, CleanUp
  <2>8. CASE vfs_mount_at(alloc)
    BY <2>8 DEF vfs_mount_at
  <2> QED BY <2>1, <2>2, <2>3, <2>4, <2>5, <2>6, <2>7, <2>8
<1>6. CASE MountReads
  <2>1. PICK driver_ok \in DriverAnswers :
            \/ \E garbage \in Input.garbage : fat12_mount_device("fd0", driver_ok, garbage)
            \/ fat12_mount_load(driver_ok)
    BY <1>6, Zenon DEF MountReads
  <2>2. CASE \E garbage \in Input.garbage : fat12_mount_device("fd0", driver_ok, garbage)
    <3>1. Keeps({"device"}, {"fat_table", "fault"})
      BY <2>2, Zenon DEF fat12_mount_device
    <3> QED BY <1>1, <3>1
  <2>3. CASE fat12_mount_load(driver_ok)
    BY <1>2, <2>3, Zenon DEF fat12_mount_load
  <2> QED BY <2>1, <2>2, <2>3
<1>7. CASE \E p \in Input.paths : vfs_open(p)
  <2>1. Keeps({"mounted"}, {"mounted", "scan"})
    BY <1>7, Zenon DEF vfs_open, fat12_open
  <2> QED BY <1>3, <2>1
<1>8. CASE Lookup
  <2>1. \/ Keeps({"scan"}, {"scan", "mounted"})
        \/ pc = "scan" /\ pc' = "mounted" /\ heap' = heap \cup {"vnode", "inode"}
    BY <1>8, Zenon DEF Lookup, _fat12_lookup, _fat12_lookup_fails
  <2>2. CASE pc = "scan" /\ pc' = "mounted" /\ heap' = heap \cup {"vnode", "inode"}
    BY <2>2 DEF HeapByStep, Held, InUse, NeverFreed
  <2> QED BY <1>3, <2>1, <2>2
<1>9. CASE Read
  <2>1. ASSUME NEW o, NEW n, NEW alloc, fat12_read(o, n, alloc)
        PROVE  Keeps({"mounted"}, {"loop"})
    BY <2>1, Zenon DEF fat12_read
  <2>2. ASSUME NEW o, NEW n, NEW alloc, fat12_read_nothing(o, n, alloc)
        PROVE  Keeps({"mounted"}, {"mounted"})
    BY <2>2, Zenon DEF fat12_read_nothing
  <2>3. ASSUME NEW o, NEW n, fat12_read_faults(o, n)
        PROVE  Keeps({"mounted"}, {"fault"})
    BY <2>3, Zenon DEF fat12_read_faults
  <2>4. fat12_read_overruns \/ fat12_read_return => Keeps({"loop", "return"}, {"mounted", "fault"})
    BY Zenon DEF fat12_read_overruns, fat12_read_return
  <2>5. Keeps({"mounted", "loop", "return"}, {"mounted", "loop", "fault"})
    BY <1>9, <2>1, <2>2, <2>3, <2>4, Zenon DEF Read
  <2> QED BY <1>3, <2>5
<1>10. CASE ReadLoop
  <2>1. Keeps({"loop"}, {"loop", "return"})
    BY <1>10, Zenon DEF ReadLoop, fat12_read_cluster
  <2> QED BY <1>3, <2>1
<1>11. CASE Unmount
  BY <1>11 DEF Unmount, fat12_unmount, HeapByStep, Held, InUse, Memory, NeverFreed
<1>12. CASE UNCHANGED vars
  BY <1>2, <1>12, Zenon DEF vars, fat12_vars
<1> QED BY <1>4, <1>5, <1>6, <1>7, <1>8, <1>9, <1>10, <1>11, <1>12, Zenon DEF Next

(***************************************************************************)
(* Of the memory fat12_mount allocates, a mount that failed and a volume   *)
(* that was unmounted hold nothing: the error paths of fat12_mount and     *)
(* fat12_unmount free exactly what was allocated before them, and leave    *)
(* only the three kinds of objects no code frees.  A mounted volume has    *)
(* all its objects, and an open file its vnode and inode.                  *)
(***************************************************************************)
THEOREM VolumeNothingLeftBehind == Spec => []NothingLeftBehind
<1>1. Init => HeapByStep
  BY DEF Init, Fat12Init, HeapByStep, Held, InUse
<1>2. HeapByStep => NothingLeftBehind
  BY DEF HeapByStep, Held, InUse, NothingLeftBehind
<1> QED BY <1>1, <1>2, HeapStep, PTL DEF Spec

-----------------------------------------------------------------------------
(***************************************************************************)
(* What the steps keep typed: the registered devices, the handle of the    *)
(* mount from the step that fills it, its FAT from the step that allocates *)
(* it, the entries in the stack buffer, and the file that is open.         *)
(***************************************************************************)
WithHandle == {"fat_table", "load", "vroot", "mount_at", "mounted", "scan", "loop", "return"}
WithTable == WithHandle \ {"fat_table"}

Devices == [name : STRING, num_blocks : {NumBlocks}]
Tables(n) == [bytes : [0 .. n - 1 -> 0 .. 255], beyond : 0 .. 255]
Handles(tables) ==
    [block_dev : Devices, bpb : BootSectors, fat_start : Nat, root_dir_start : Nat,
     root_dir_sectors : Nat, data_area_start : Nat, fat_table : tables]

EntryList(s) == Len(s) \in Nat /\ \A i \in 1 .. Len(s) : IsEntry(s[i])

Control ==
    pc \in Steps /\ heap \subseteq Memory \cup NeverFreed /\ sector \in Nat /\ harmed \in BOOLEAN /\ faults \in Nat

CallTyped ==
    /\ offs \in Nat /\ size \in Nat /\ ret \in Int
    /\ curr_cluster \in 0 .. Short - 1
    /\ cluster_count \in 0 .. Short - 1 /\ clusters_to_read \in 0 .. Short - 1
    /\ read_buf \in JUNK .. NumBlocks - 1
    /\ buf \in Seq(Places)

InputsTyped == inputs \in DOMAIN Inputs /\ Formatted(disk)

Registered == block_devices # NULL => block_devices \in Seq(Devices)

HandleTyped ==
    /\ fs # NULL => fs.block_dev # NULL
    /\ pc = "fat_table" => fs \in Handles({NULL})
    /\ pc \in WithTable => fs \in Handles(Tables(fs.bpb.sectors_per_fat * BlockSize))
    /\ pc \in WithHandle => fs.block_dev # NULL /\ fs.bpb.bytes_per_sector = BlockSize

FileTyped ==
    /\ EntryList(entries)
    /\ found # NULL => IsEntry(found.dir_entry) /\ found.dir_entry.kind \in {"file", "directory"}
    /\ pc \in {"loop", "return"} => found # NULL /\ BytesPerCluster # 0

Typed == Control /\ CallTyped /\ InputsTyped /\ Registered /\ HandleTyped /\ FileTyped

-----------------------------------------------------------------------------
LEMMA Sizes == BlockSize \in Nat \ {0} /\ EntrySize \in Nat \ {0} /\ Word \in Nat \ {0}
BY Fat12Assumption

\* The three bytes of two entries of 12 bits are bytes.
LEMMA BytesOfTwo ==
    ASSUME NEW x \in 0 .. EOC, NEW y \in 0 .. EOC
    PROVE  /\ x % 256 \in 0 .. 255 /\ y \div 16 \in 0 .. 255
           /\ x \div 256 + 16 * (y % 16) \in 0 .. 255
<1>1. x % 256 \in 0 .. 255
  BY DEF EOC
<1>2. x \div 256 \in 0 .. 15
  BY DEF EOC
<1>3. y \div 16 \in 0 .. 255
  BY DEF EOC
<1>4. y % 16 \in 0 .. 15
  BY DEF EOC
<1> QED BY <1>1, <1>2, <1>3, <1>4

\* A link of the chain is a FAT entry, 12 bits.
LEMMA LinkRange ==
    ASSUME NEW ch \in Seq(Clusters), NEW c
    PROVE  LinkOf(ch, c) \in 0 .. EOC
<1>1. CASE c \notin Range(ch)
  BY <1>1 DEF LinkOf, EOC
<1>2. CASE c \in Range(ch)
  <2> DEFINE i == CHOOSE i \in DOMAIN ch : ch[i] = c
  <2>1. \E j \in DOMAIN ch : ch[j] = c
    BY <1>2 DEF Range
  <2>2. i \in DOMAIN ch
    BY <2>1
  <2>3. LinkOf(ch, c) = IF i = Len(ch) THEN EOC ELSE ch[i + 1]
    BY <1>2 DEF LinkOf
  <2> HIDE DEF i
  <2>4. i # Len(ch) => ch[i + 1] \in Clusters
    BY <2>2
  <2>5. EOC \in 0 .. EOC /\ Clusters \subseteq 0 .. EOC
    BY Fat12Assumption DEF EOC
  <2> QED BY <2>3, <2>4, <2>5, Zenon
<1> QED BY <1>1, <1>2

\* The bytes of a FAT are bytes.
LEMMA FatByteRange ==
    ASSUME NEW ch \in Seq(Clusters), NEW i \in Nat
    PROVE  FatByte(ch, i) \in 0 .. 255
<1> DEFINE e == 2 * (i \div 3)
           a == LinkOf(ch, e)
           b == LinkOf(ch, e + 1)
<1>1. a \in 0 .. EOC /\ b \in 0 .. EOC
  BY LinkRange, Zenon
<1>2. FatByte(ch, i) = CASE i % 3 = 0 -> a % 256
                         [] i % 3 = 1 -> a \div 256 + 16 * (b % 16)
                         [] i % 3 = 2 -> b \div 16
  BY DEF FatByte
<1> HIDE DEF a, b
<1>3. a % 256 \in 0 .. 255 /\ a \div 256 + 16 * (b % 16) \in 0 .. 255 /\ b \div 16 \in 0 .. 255
  BY <1>1, BytesOfTwo
<1>4. i % 3 \in {0, 1, 2}
  OBVIOUS
<1> QED BY <1>2, <1>3, <1>4

\* The areas of a boot sector are numbers.
LEMMA LayoutTyped ==
    ASSUME NEW bpb \in BootSectors
    PROVE  /\ Layout(bpb).fat_start \in Nat /\ Layout(bpb).root_dir_start \in Nat
           /\ Layout(bpb).root_dir_sectors \in Nat /\ Layout(bpb).data_area_start \in Nat
           /\ Layout(bpb).fat_start = bpb.hidden_sectors + bpb.rsrvd_cnt
           /\ Layout(bpb).root_dir_start
                = Layout(bpb).fat_start + bpb.num_fats * bpb.sectors_per_fat
           /\ Layout(bpb).data_area_start
                = Layout(bpb).root_dir_start + Layout(bpb).root_dir_sectors
<1> DEFINE x == bpb.num_fats * bpb.sectors_per_fat
           y == (bpb.max_root_dir_entries * EntrySize + BlockSize - 1) \div BlockSize
<1>1. x \in Nat
  BY DEF BootSectors
<1>2. bpb.max_root_dir_entries * EntrySize \in Nat
  BY Fat12Assumption, SMTT(30) DEF BootSectors
<1>3. y \in Nat
  <2>1. \A m \in Nat, s \in Nat \ {0} : (m + s - 1) \div s \in Nat
    OBVIOUS
  <2>2. y = (bpb.max_root_dir_entries * EntrySize + BlockSize - 1) \div BlockSize
    OBVIOUS
  <2> HIDE DEF y
  <2> QED BY <1>2, <2>1, <2>2, Sizes
<1> QED BY <1>1, <1>3 DEF Layout, BootSectors

LEMMA DiskByteRange ==
    ASSUME Formatted(disk), NEW lba \in Nat, NEW o \in Nat
    PROVE  DiskByte(lba, o) \in 0 .. 255
<1> DEFINE at == Layout(disk.bpb)
           n  == disk.bpb.sectors_per_fat
           i  == ((lba - at.fat_start) % n) * BlockSize + o
<1>1. disk.bpb \in BootSectors /\ disk.chain \in Seq(Clusters)
  BY DEF Formatted
<1>2. /\ at.fat_start \in Nat /\ n \in Nat /\ disk.bpb.num_fats \in Nat
      /\ at.root_dir_start = at.fat_start + disk.bpb.num_fats * n
  BY <1>1, LayoutTyped DEF BootSectors
<1>3. CASE lba \in at.fat_start .. at.root_dir_start - 1
  <2>1. n # 0
    BY <1>2, <1>3
  <2>2. lba - at.fat_start \in Nat
    BY <1>2, <1>3
  <2>3. (lba - at.fat_start) % n \in Nat
    BY <1>2, <2>1, <2>2
  <2>4. i \in Nat
    <3>1. PICK m \in Nat : m = (lba - at.fat_start) % n
      BY <2>3
    <3>2. m * BlockSize \in Nat
      BY Sizes
    <3> QED BY <3>1, <3>2
  <2>5. FatByte(disk.chain, i) \in 0 .. 255
    BY <1>1, <2>4, FatByteRange
  <2>6. DiskByte(lba, o) = FatByte(disk.chain, i)
    BY <1>3 DEF DiskByte
  <2> QED BY <2>5, <2>6
<1>4. CASE lba \notin at.fat_start .. at.root_dir_start - 1
  <2>1. DiskByte(lba, o) = 0
    BY <1>4, Zenon DEF DiskByte
  <2> QED BY <2>1
<1> QED BY <1>3, <1>4

\* An entry of the FAT in memory is 12 bits, wherever the cluster leads.
LEMMA FentryRange ==
    ASSUME NEW n \in Nat, fs.fat_table \in Tables(n), NEW cluster \in Nat
    PROVE  _fat12_get_fentry(cluster) \in 0 .. EOC
<1> DEFINE at(i) == IF i \in DOMAIN fs.fat_table.bytes THEN fs.fat_table.bytes[i]
                    ELSE fs.fat_table.beyond
           k == (cluster * 3) \div 2
           entry == at(k) + 256 * at(k + 1)
<1>1. \A i : at(i) \in 0 .. 255
  BY DEF Tables
<1>2. _fat12_get_fentry(cluster) = IF cluster % 2 = 1 THEN entry \div 16 ELSE entry % 4096
  BY DEF _fat12_get_fentry
<1> HIDE DEF at
<1>3. PICK x, y : x = at(k) /\ y = at(k + 1)
  OBVIOUS
<1>4. x \in 0 .. 255 /\ y \in 0 .. 255
  BY <1>1, <1>3, Zenon
<1>5. (x + 256 * y) \div 16 \in 0 .. EOC
  BY <1>4 DEF EOC
<1>6. (x + 256 * y) % 4096 \in 0 .. EOC
  BY <1>4 DEF EOC
<1> QED BY <1>2, <1>3, <1>5, <1>6

-----------------------------------------------------------------------------
(***************************************************************************)
(* What a step that leaves a part of the state alone keeps.                *)
(***************************************************************************)
LEMMA KeepsCall == CallTyped /\ UNCHANGED call => CallTyped'
BY DEF CallTyped, call

LEMMA KeepsInputs == InputsTyped /\ disk' = disk /\ inputs' = inputs => InputsTyped'
BY DEF InputsTyped, Formatted

LEMMA KeepsDevices == Registered /\ block_devices' = block_devices => Registered'
BY DEF Registered

LEMMA KeepsHandle ==
    /\ HandleTyped /\ fs' = fs
    /\ pc' = pc \/ pc' \notin WithHandle \/ (pc \in WithTable /\ pc' \in WithTable)
    => HandleTyped'
BY DEF HandleTyped, WithTable, WithHandle, Handles

LEMMA KeepsFile ==
    /\ FileTyped /\ found' = found /\ entries' = entries /\ fs' = fs
    /\ pc' = pc \/ pc' \notin {"loop", "return"} \/ pc = "loop"
    => FileTyped'
BY DEF FileTyped, EntryList, BytesPerCluster

LEMMA KeepsFileUnread ==
    FileTyped /\ found' = found /\ entries' = entries /\ pc' \notin {"loop", "return"} => FileTyped'
BY DEF FileTyped, EntryList

LEMMA TypedInit == Init => Typed
<1> SUFFICES ASSUME Init PROVE Typed
  OBVIOUS
<1>1. Control
  BY VolumeAssumption DEF Init, Fat12Init, Control, Steps, Memory, NeverFreed
<1>2. CallTyped
  BY VolumeAssumption DEF Init, Fat12Init, NoCall, CallTyped, Short, JUNK
<1>3. InputsTyped
  BY VolumeAssumption DEF Init, InputsTyped
<1>4. Registered
  BY DEF Init, Fat12Init, BlockInit, Registered
<1>5. HandleTyped /\ FileTyped
  BY DEF Init, Fat12Init, HandleTyped, FileTyped, WithHandle, WithTable, EntryList
<1> QED BY <1>1, <1>2, <1>3, <1>4, <1>5 DEF Typed

LEMMA RegisterTyped == Typed /\ Register => Typed'
<1> SUFFICES ASSUME Typed, Register PROVE Typed'
  OBVIOUS
<1>1. PICK name \in Input.devices, alloc \in Allocs : blkdev_register(name, NumBlocks, alloc)
  BY DEF Register
<1>2. name \in STRING
  BY <1>1, VolumeAssumption DEF Typed, InputsTyped, Input
<1>3. Registered'
  <2> DEFINE table == IF block_devices = NULL THEN << >> ELSE block_devices
  <2>1. table \in Seq(Devices)
    BY DEF Typed, Registered
  <2>2. [name |-> name, num_blocks |-> NumBlocks] \in Devices
    BY <1>2 DEF Devices
  <2>3. block_devices' \in {NULL, table, Append(table, [name |-> name, num_blocks |-> NumBlocks])}
    BY <1>1 DEF blkdev_register
  <2> HIDE DEF table
  <2> QED BY <2>1, <2>2, <2>3 DEF Registered
<1>4. Control' /\ UNCHANGED <<disk, pc, fs, entries, found, call, inputs>>
  BY <1>1 DEF Register, blkdev_register, Typed, Control
<1> QED BY <1>3, <1>4, KeepsCall, KeepsInputs, KeepsHandle, KeepsFile DEF Typed

LEMMA MountTyped == Typed /\ Mount => Typed'
<1> SUFFICES ASSUME Typed, Mount PROVE Typed'
  OBVIOUS
<1>1. PICK alloc \in Allocs :
          \/ fat12_mount(alloc)
          \/ fat12_mount_bootsector(alloc)
          \/ \E junk \in JunkBytes : fat12_mount_fat_table(alloc, junk)
          \/ fat12_mount_vfs(alloc)
          \/ fat12_mount_root(alloc)
          \/ vfs_mount_at(alloc)
          \/ fat12_mount_fails("fd0", alloc)
  BY Zenon DEF Mount
<1>2. UNCHANGED <<inputs, oom, faults, path, result>>
  BY Zenon DEF Mount
<1>3. CASE fat12_mount(alloc)
  <2>1. /\ pc' = "bootsector"
        /\ UNCHANGED <<disk, fs, entries, found, call, block_devices>>
    BY <1>3 DEF fat12_mount
  <2>2. Control'
    BY <1>2, <1>3 DEF fat12_mount, Typed, Control, Steps, Memory, NeverFreed
  <2> QED BY <1>2, <2>1, <2>2, KeepsCall, KeepsInputs, KeepsDevices, KeepsHandle,
             KeepsFile DEF Typed, WithHandle
<1>4. CASE fat12_mount_bootsector(alloc)
  <2>1. /\ pc' = "device"
        /\ UNCHANGED <<disk, fs, entries, found, call, block_devices>>
    BY <1>4 DEF fat12_mount_bootsector
  <2>2. Control'
    BY <1>2, <1>4 DEF fat12_mount_bootsector, Typed, Control, Steps, Memory, NeverFreed
  <2> QED BY <1>2, <2>1, <2>2, KeepsCall, KeepsInputs, KeepsDevices, KeepsHandle,
             KeepsFile DEF Typed, WithHandle
<1>5. CASE \E junk \in JunkBytes : fat12_mount_fat_table(alloc, junk)
  <2>1. PICK junk \in JunkBytes : fat12_mount_fat_table(alloc, junk)
    BY <1>5
  <2> DEFINE n == fs.bpb.sectors_per_fat * BlockSize
             table == [bytes |-> [i \in 0 .. n - 1 |-> junk], beyond |-> junk]
  <2>2. /\ pc = "fat_table" /\ pc' = "load" /\ fs' = [fs EXCEPT !.fat_table = table]
        /\ UNCHANGED <<disk, entries, found, call, block_devices>>
    BY <2>1 DEF fat12_mount_fat_table
  <2>3. Control'
    BY <1>2, <2>1 DEF fat12_mount_fat_table, Typed, Control, Steps, Memory, NeverFreed
  <2>4. HandleTyped'
    <3>1. junk \in 0 .. 255
      BY Fat12Assumption
    <3>2. table \in Tables(n)
      BY <3>1 DEF Tables
    <3>3. fs \in Handles({NULL}) /\ fs.block_dev # NULL /\ fs.bpb.bytes_per_sector = BlockSize
      BY <2>2 DEF Typed, HandleTyped, WithHandle
    <3> HIDE DEF table
    <3>4. fs' \in Handles(Tables(n)) /\ fs'.bpb = fs.bpb /\ fs'.block_dev = fs.block_dev
      BY <2>2, <3>2, <3>3 DEF Handles
    <3> QED BY <2>2, <3>3, <3>4 DEF HandleTyped
  <2> QED BY <1>2, <2>2, <2>3, <2>4, KeepsCall, KeepsInputs, KeepsDevices,
             KeepsFileUnread DEF Typed
<1>6. CASE fat12_mount_vfs(alloc)
  <2>1. /\ pc = "load" /\ pc' = "vroot"
        /\ UNCHANGED <<disk, fs, entries, found, call, block_devices>>
    BY <1>6 DEF fat12_mount_vfs
  <2>2. Control'
    BY <1>2, <1>6 DEF fat12_mount_vfs, Typed, Control, Steps, Memory, NeverFreed
  <2> QED BY <1>2, <2>1, <2>2, KeepsCall, KeepsInputs, KeepsDevices, KeepsHandle,
             KeepsFile DEF Typed, WithHandle, WithTable
<1>7. CASE fat12_mount_root(alloc)
  <2>1. /\ pc = "vroot" /\ pc' \in {"mount_at", "fault"}
        /\ UNCHANGED <<disk, fs, entries, found, call, block_devices>>
    BY <1>7 DEF fat12_mount_root
  <2>2. Control'
    BY <1>2, <1>7 DEF fat12_mount_root, Typed, Control, Steps, Memory, NeverFreed
  <2> QED BY <1>2, <2>1, <2>2, KeepsCall, KeepsInputs, KeepsDevices, KeepsHandle,
             KeepsFile DEF Typed, WithHandle, WithTable
<1>8. CASE vfs_mount_at(alloc)
  <2>1. /\ pc = "mount_at" /\ pc' \in {"mounted", "fault"}
        /\ UNCHANGED <<disk, fs, entries, found, call, block_devices>>
    BY <1>8 DEF vfs_mount_at
  <2>2. Control'
    BY <1>2, <1>8 DEF vfs_mount_at, Typed, Control, Steps, Memory, NeverFreed
  <2> QED BY <1>2, <2>1, <2>2, KeepsCall, KeepsInputs, KeepsDevices, KeepsHandle,
             KeepsFile DEF Typed, WithHandle, WithTable
<1>9. CASE fat12_mount_fails("fd0", alloc)
  <2>1. /\ pc' = "down" /\ fs' = NULL
        /\ UNCHANGED <<disk, entries, found, call, block_devices>>
    BY <1>9 DEF fat12_mount_fails
  <2>2. Control'
    BY <1>2, <1>9 DEF fat12_mount_fails, Typed, Control, Steps, Memory, NeverFreed
  <2>3. HandleTyped'
    BY <2>1 DEF HandleTyped, WithHandle, WithTable
  <2> QED BY <1>2, <2>1, <2>2, <2>3, KeepsCall, KeepsInputs, KeepsDevices,
             KeepsFileUnread DEF Typed
<1> QED BY <1>1, <1>3, <1>4, <1>5, <1>6, <1>7, <1>8, <1>9

\* A search by name finds a registered device or none.
LEMMA DeviceFound ==
    ASSUME Registered, NEW name, blkdev_get_by_name(name) # NULL
    PROVE  blkdev_get_by_name(name) \in Devices
<1> DEFINE hits == IF block_devices = NULL THEN {}
                   ELSE {i \in 1 .. Len(block_devices) : block_devices[i].name = name}
<1>1. hits # {} /\ blkdev_get_by_name(name) = block_devices[Min(hits)]
  BY DEF blkdev_get_by_name
<1>2. block_devices \in Seq(Devices) /\ hits \subseteq 1 .. Len(block_devices)
  BY <1>1 DEF Registered
<1> HIDE DEF hits
<1>3. hits \in SUBSET Nat
  BY <1>2
<1>4. Min(hits) \in hits
  BY <1>1, <1>3, MinNat
<1>5. Min(hits) \in 1 .. Len(block_devices)
  BY <1>2, <1>4
<1> QED BY <1>1, <1>2, <1>5

\* The handle computed from a boot sector with a sector size is one.
LEMMA HandleRecord ==
    ASSUME NEW dev \in Devices, NEW bpb \in BootSectors, bpb.bytes_per_sector # 0
    PROVE  Handle(dev, bpb) \in Handles({NULL})
<1> DEFINE x == bpb.num_fats * bpb.sectors_per_fat
           m == bpb.max_root_dir_entries * EntrySize
           y == m \div bpb.bytes_per_sector
           f == (bpb.hidden_sectors % 256) + bpb.rsrvd_cnt
<1>1. x \in Nat
  BY DEF BootSectors
<1>2. m \in Nat
  BY Sizes DEF BootSectors
<1>3. bpb.bytes_per_sector = BlockSize
  BY DEF BootSectors
<1>4. y \in Nat
  BY <1>2, <1>3, Sizes
<1>5. f \in Nat
  BY DEF BootSectors
<1>6. Handle(dev, bpb) =
        [block_dev |-> dev, bpb |-> bpb, fat_start |-> f, root_dir_start |-> f + x,
         root_dir_sectors |-> y, data_area_start |-> f + x + y, fat_table |-> NULL]
  BY DEF Handle
<1> HIDE DEF x, y, f
<1> QED BY <1>1, <1>4, <1>5, <1>6 DEF Handles

\* Counting the driver's failures: none is left, none happens.
LEMMA CountedNat ==
    ASSUME faults \in Nat, NEW driver_ok \in DriverAnswers, Counted(driver_ok)
    PROVE  faults' \in Nat /\ driver_ok \in BOOLEAN
<1>1. driver_ok \in BOOLEAN
  BY Zenon DEF DriverAnswers
<1>2. faults > 0 \/ driver_ok
  BY Zenon DEF DriverAnswers
<1>3. faults > 0 => faults - 1 \in Nat
  OBVIOUS
<1>4. faults' = faults \/ (faults' = faults - 1 /\ ~driver_ok)
  BY Zenon DEF Counted
<1>5. faults' \in Nat
  BY <1>2, <1>3, <1>4, Zenon
<1> QED BY <1>1, <1>5, Zenon

LEMMA MountReadsTyped == Typed /\ MountReads => Typed'
<1> SUFFICES ASSUME Typed, MountReads PROVE Typed'
  OBVIOUS
<1>1. PICK driver_ok \in DriverAnswers :
          /\ Counted(driver_ok)
          /\ \/ \E garbage \in Input.garbage : fat12_mount_device("fd0", driver_ok, garbage)
             \/ fat12_mount_load(driver_ok)
  BY Zenon DEF MountReads
<1>2. UNCHANGED <<inputs, oom, path, result>>
  BY Zenon DEF MountReads
<1>3. faults' \in Nat /\ driver_ok \in BOOLEAN
  <2>1. faults \in Nat /\ driver_ok \in DriverAnswers /\ Counted(driver_ok)
    BY <1>1 DEF Typed, Control
  <2> QED BY <2>1, CountedNat, Zenon
<1>4. CASE \E garbage \in Input.garbage : fat12_mount_device("fd0", driver_ok, garbage)
  <2>1. PICK garbage \in Input.garbage : fat12_mount_device("fd0", driver_ok, garbage)
    BY <1>4
  <2> DEFINE dev == blkdev_get_by_name("fd0")
             bpb == IF blkread(dev, 0, driver_ok) THEN disk.bpb ELSE garbage
  <2>2. /\ dev # NULL /\ harmed' = ~driver_ok
        /\ \/ pc' = "fault" /\ fs' = fs
           \/ bpb.bytes_per_sector # 0 /\ pc' = "fat_table" /\ fs' = Handle(dev, bpb)
        /\ UNCHANGED <<disk, heap, sector, entries, found, call, block_devices>>
    BY <2>1, Zenon DEF fat12_mount_device
  <2>3. dev \in Devices
    BY <2>2, DeviceFound, Zenon DEF Typed
  <2>4. bpb \in BootSectors
    BY VolumeAssumption DEF Typed, InputsTyped, Formatted, Input
  <2> HIDE DEF dev, bpb
  <2>5. Control'
    <3>1. harmed' \in BOOLEAN
      BY <2>2, Zenon
    <3> QED BY <1>3, <2>2, <3>1 DEF Typed, Control, Steps
  <2>6. HandleTyped'
    <3>1. CASE pc' = "fault" /\ fs' = fs
      BY <3>1, KeepsHandle DEF Typed, WithHandle
    <3>2. CASE bpb.bytes_per_sector # 0 /\ pc' = "fat_table" /\ fs' = Handle(dev, bpb)
      <4>1. fs' \in Handles({NULL})
        BY <2>3, <2>4, <3>2, HandleRecord
      <4>2. fs'.block_dev = dev /\ fs'.bpb = bpb
        BY <3>2 DEF Handle
      <4>3. bpb.bytes_per_sector = BlockSize
        BY <2>4, <3>2 DEF BootSectors
      <4> QED BY <2>2, <3>2, <4>1, <4>2, <4>3 DEF HandleTyped, WithTable
    <3> QED BY <2>2, <3>1, <3>2
  <2>7. FileTyped'
    BY <2>2, KeepsFileUnread DEF Typed
  <2> QED BY <1>2, <2>2, <2>5, <2>6, <2>7, KeepsCall, KeepsInputs, KeepsDevices DEF Typed
<1>5. CASE fat12_mount_load(driver_ok)
  <2> DEFINE lba == fs.fat_start + sector
             ok  == blkread(fs.block_dev, lba, driver_ok)
             bytes == fs.fat_table.bytes
             now == [i \in DOMAIN bytes |->
                        IF i \div BlockSize = sector THEN DiskByte(lba, i % BlockSize) ELSE bytes[i]]
             n == fs.bpb.sectors_per_fat * BlockSize
  <2>1. /\ pc = "load" /\ pc' = "load"
        /\ fs' = IF ~ok THEN fs ELSE [fs EXCEPT !.fat_table.bytes = now]
        /\ harmed' = (harmed \/ ~driver_ok) /\ sector' = sector + 1
        /\ UNCHANGED <<disk, heap, entries, found, call, block_devices>>
    BY <1>5 DEF fat12_mount_load
  <2>2. fs \in Handles(Tables(n)) /\ fs.block_dev # NULL
        /\ fs.bpb.bytes_per_sector = BlockSize
    BY <2>1 DEF Typed, HandleTyped, WithHandle, WithTable
  <2>3. lba \in Nat /\ sector \in Nat
    BY <2>2 DEF Handles, Typed, Control
  <2>4. Control'
    <3>1. harmed' \in BOOLEAN
      BY <1>3, <2>1, Zenon DEF Typed, Control
    <3> QED BY <1>3, <2>1, <2>3, <3>1 DEF Typed, Control
  <2>5. HandleTyped'
    <3>1. bytes \in [0 .. n - 1 -> 0 .. 255] /\ fs.fat_table \in Tables(n)
      BY <2>2 DEF Handles, Tables
    <3>2. \A i \in 0 .. n - 1 : DiskByte(lba, i % BlockSize) \in 0 .. 255
      <4> SUFFICES ASSUME NEW i \in 0 .. n - 1 PROVE DiskByte(lba, i % BlockSize) \in 0 .. 255
        OBVIOUS
      <4>1. i % BlockSize \in Nat
        BY Sizes
      <4> QED BY <2>3, <4>1, DiskByteRange DEF Typed, InputsTyped
    <3> HIDE DEF lba, ok
    <3>3. now \in [0 .. n - 1 -> 0 .. 255]
      BY <3>1, <3>2
    <3> HIDE DEF now, bytes
    <3>4. [fs.fat_table EXCEPT !.bytes = now] \in Tables(n)
      BY <3>1, <3>3 DEF Tables
    <3>5. CASE fs' = [fs EXCEPT !.fat_table.bytes = now]
      <4>1. fs' = [fs EXCEPT !.fat_table = [fs.fat_table EXCEPT !.bytes = now]]
        BY <2>2, <3>5 DEF Handles
      <4>2. fs' \in Handles(Tables(n)) /\ fs'.bpb = fs.bpb /\ fs'.block_dev = fs.block_dev
        BY <2>2, <3>4, <4>1 DEF Handles
      <4> QED BY <2>1, <2>2, <4>2 DEF HandleTyped
    <3>6. CASE fs' = fs
      BY <2>1, <3>6, KeepsHandle DEF Typed
    <3> QED BY <2>1, <3>5, <3>6
  <2>6. FileTyped'
    BY <2>1, KeepsFileUnread DEF Typed
  <2> QED BY <1>2, <2>1, <2>4, <2>5, <2>6, KeepsCall, KeepsInputs, KeepsDevices DEF Typed
<1> QED BY <1>1, <1>4, <1>5

\* A sector of the directory holds entries.
LEMMA DirSectorList ==
    ASSUME Formatted(disk), NEW lba \in Nat
    PROVE  EntryList(DirSector(lba))
<1> DEFINE first == (lba - Layout(disk.bpb).root_dir_start) * EntriesPerSector
           n == EntriesPerSector
           S == [i \in 1 .. n |->
                    IF first >= 0 /\ first + i <= Len(disk.dir) THEN disk.dir[first + i] ELSE End]
<1>1. n \in Nat
  BY Sizes DEF EntriesPerSector
<1>2. first \in Int
  BY <1>1, LayoutTyped DEF Formatted
<1>3. IsEntry(End)
  BY DEF IsEntry, End, Kinds
<1>4. Len(disk.dir) \in Nat /\ \A i \in 1 .. Len(disk.dir) : IsEntry(disk.dir[i])
  BY DEF Formatted
<1>5. DirSector(lba) = S
  BY DEF DirSector
<1> HIDE DEF first, n
<1>6. Len(S) = n
  BY <1>1
<1>7. ASSUME NEW i \in 1 .. n PROVE IsEntry(S[i])
  <2>1. CASE first >= 0 /\ first + i <= Len(disk.dir)
    <3>1. S[i] = disk.dir[first + i]
      BY <2>1
    <3>2. first + i \in 1 .. Len(disk.dir)
      BY <1>1, <1>2, <1>4, <2>1
    <3> QED BY <1>4, <3>1, <3>2
  <2>2. CASE ~(first >= 0 /\ first + i <= Len(disk.dir))
    <3>1. S[i] = End
      BY <2>2
    <3> QED BY <1>3, <3>1
  <2> QED BY <2>1, <2>2
<1> HIDE DEF S
<1> QED BY <1>1, <1>5, <1>6, <1>7 DEF EntryList

\* The first stop of a scan is in the sector, and if it is not the end
\* marker, it is a file or a directory.
LEMMA StopIsFile ==
    ASSUME NEW now, EntryList(now), NEW name, Stops(now, name) # {}
    PROVE  LET k == Min(Stops(now, name)) IN
           /\ k \in 1 .. Len(now) /\ k \in Stops(now, name)
           /\ \A j \in Stops(now, name) : k <= j
           /\ IsEntry(now[k])
           /\ now[k].kind # "end" => now[k].kind \in {"file", "directory"}
<1>1. Stops(now, name) \subseteq 1 .. Len(now) /\ Len(now) \in Nat
  BY DEF Stops, EntryList
<1>2. Stops(now, name) \in SUBSET Nat
  BY <1>1
<1>3. PICK k \in Stops(now, name) : k = Min(Stops(now, name)) /\ \A j \in Stops(now, name) : k <= j
  BY <1>2, MinNat, Zenon
<1>4. k \in 1 .. Len(now) /\ IsEntry(now[k])
  BY <1>1, <1>3 DEF EntryList
<1>5. now[k].kind = "end" \/ ~Skipped(now[k])
  BY <1>3 DEF Stops
<1>6. now[k].kind # "end" => now[k].kind \in {"file", "directory"}
  BY <1>4, <1>5 DEF Skipped, IsEntry, Kinds
<1> QED BY <1>3, <1>4, <1>6, Zenon

LEMMA OpenTyped == ASSUME Typed, NEW p \in Input.paths, vfs_open(p) PROVE Typed'
<1>1. CASE /\ pc = "mounted" /\ pc' = "mounted" /\ found' = NULL
           /\ UNCHANGED <<disk, heap, fs, sector, entries, harmed, call, block_devices,
                          inputs, oom, faults>>
  <2>1. Control'
    BY <1>1 DEF Typed, Control
  <2>2. FileTyped'
    BY <1>1 DEF Typed, FileTyped, EntryList
  <2> QED BY <1>1, <2>1, <2>2, KeepsCall, KeepsInputs, KeepsDevices, KeepsHandle
          DEF Typed
<1>2. CASE \E stack \in Input.stack : fat12_open(stack) /\ UNCHANGED <<inputs, oom, faults>>
  <2>1. PICK stack \in Input.stack : fat12_open(stack) /\ UNCHANGED <<inputs, oom, faults>>
    BY <1>2
  <2>2. /\ pc = "mounted" /\ pc' = "scan" /\ sector' = 0 /\ entries' = stack /\ found' = NULL
        /\ UNCHANGED <<disk, heap, fs, harmed, block_devices>>
    BY <2>1 DEF fat12_open
  <2>3. CallTyped'
    BY <2>1, VolumeAssumption DEF fat12_open, CallTyped, JUNK, Short
  <2>4. Control'
    BY <2>1, <2>2 DEF Typed, Control, Steps
  <2>5. EntryList(stack)
    BY VolumeAssumption DEF Typed, InputsTyped, Input, EntryList
  <2>6. FileTyped'
    BY <2>2, <2>5 DEF FileTyped, EntryList
  <2>7. HandleTyped'
    BY <2>2, KeepsHandle DEF Typed, WithHandle, WithTable
  <2> QED BY <2>1, <2>2, <2>3, <2>4, <2>6, <2>7, KeepsInputs, KeepsDevices DEF Typed
<1> QED BY <1>1, <1>2, Zenon DEF vfs_open

LEMMA LookupTyped == Typed /\ Lookup => Typed'
<1> SUFFICES ASSUME Typed, Lookup PROVE Typed'
  OBVIOUS
<1>1. UNCHANGED <<inputs, oom, path, result>>
  BY Zenon DEF Lookup
<1>2. CASE _fat12_lookup_fails /\ UNCHANGED faults
  <2>1. /\ pc = "scan" /\ pc' = "mounted"
        /\ UNCHANGED <<disk, heap, fs, sector, entries, harmed, found, call, block_devices,
                       faults>>
    BY <1>2, Zenon DEF _fat12_lookup_fails
  <2>2. Control'
    BY <2>1 DEF Typed, Control, Steps
  <2> QED BY <1>1, <2>1, <2>2, KeepsCall, KeepsInputs, KeepsDevices, KeepsHandle,
             KeepsFile DEF Typed, WithHandle, WithTable
<1>3. CASE \E driver_ok \in DriverAnswers, alloc \in Allocs :
              _fat12_lookup(result.rel_path, driver_ok, alloc) /\ Counted(driver_ok)
  <2>1. PICK driver_ok \in DriverAnswers, alloc \in Allocs :
            _fat12_lookup(result.rel_path, driver_ok, alloc) /\ Counted(driver_ok)
    BY <1>3
  <2>2. faults' \in Nat /\ driver_ok \in BOOLEAN
    BY <2>1, CountedNat, Zenon DEF Typed, Control
  <2> DEFINE lba   == fs.root_dir_start + sector
             ok    == blkread(fs.block_dev, lba, driver_ok)
             now   == IF ok THEN DirSector(lba) ELSE entries
             stops == Stops(now, NameOf(result.rel_path))
             k     == Min(stops)
  <2>3. /\ pc = "scan" /\ pc' \in {"scan", "mounted"}
        /\ entries' = now /\ harmed' = (harmed \/ ~driver_ok)
        /\ sector' = sector \/ sector' = sector + 1
        /\ \/ found' = found \/ found' = NULL
           \/ /\ stops # {} /\ now[k].kind # "end"
              /\ found' = [dir_entry |-> now[k], dir_sector |-> lba, dir_offset |-> k - 1]
        /\ heap' = heap \/ heap' = heap \cup {"vnode", "inode"}
        /\ UNCHANGED <<disk, fs, call, block_devices>>
    BY <2>1, Zenon DEF _fat12_lookup
  <2>4. fs \in Handles(Tables(fs.bpb.sectors_per_fat * BlockSize))
    BY <2>3 DEF Typed, HandleTyped, WithHandle, WithTable
  <2>5. lba \in Nat /\ sector \in Nat
    BY <2>4 DEF Handles, Typed, Control
  <2>6. EntryList(now)
    BY <2>5, DirSectorList DEF Typed, InputsTyped, FileTyped
  <2>7. Control'
    <3>1. harmed' \in BOOLEAN
      BY <2>2, <2>3, Zenon DEF Typed, Control
    <3> QED BY <2>2, <2>3, <2>5, <3>1 DEF Typed, Control, Steps, NeverFreed
  <2>9. HandleTyped'
    BY <2>3, KeepsHandle DEF Typed, WithHandle, WithTable
  <2> HIDE DEF lba, ok, now
  <2>10. stops # {} /\ now[k].kind # "end" =>
            IsEntry(now[k]) /\ now[k].kind \in {"file", "directory"}
    BY <2>6, StopIsFile, Zenon
  <2> HIDE DEF stops, k
  <2>11. found' # NULL => IsEntry(found.dir_entry)' /\ found'.dir_entry.kind \in {"file", "directory"}
    <3>1. CASE found' = found
      BY <3>1 DEF Typed, FileTyped
    <3>2. CASE /\ stops # {} /\ now[k].kind # "end"
               /\ found' = [dir_entry |-> now[k], dir_sector |-> lba, dir_offset |-> k - 1]
      <4>1. found'.dir_entry = now[k]
        BY <3>2
      <4> QED BY <2>10, <3>2, <4>1
    <3> QED BY <2>3, <3>1, <3>2
  <2>12. FileTyped'
    BY <2>3, <2>6, <2>11 DEF FileTyped, EntryList
  <2> QED BY <1>1, <2>3, <2>7, <2>9, <2>12, KeepsCall, KeepsInputs, KeepsDevices DEF Typed
<1> QED BY <1>2, <1>3 DEF Lookup

\* An entry of the FAT, or any number cut to 16 bits, is one of 16 bits.
LEMMA EntryIsShort ==
    ASSUME NEW x \in 0 .. EOC
    PROVE  x \in 0 .. Short - 1
<1>1. EOC \in Nat /\ Short \in Nat /\ EOC < Short
  BY SMTT(30) DEF EOC, Short
<1> QED BY <1>1

LEMMA ShortRange ==
    ASSUME NEW x \in Nat
    PROVE  x % Short \in 0 .. Short - 1
<1>1. Short \in Nat \ {0}
  BY DEF Short
<1> QED BY <1>1, DivMod

\* The computations before the loop of a read.
LEMMA ReadStartTyped ==
    ASSUME Typed, NEW o \in 0 .. Word - 1, NEW n \in 0 .. Word - 1, NEW alloc,
           fat12_read(o, n, alloc), UNCHANGED <<inputs, oom, faults, path, result>>
    PROVE  Typed'
<1> DEFINE B == BytesPerCluster
           W == Wanted(o, n)
           K == W \div B + (IF W % B = 0 THEN 0 ELSE 1)
<1>1. /\ pc = "mounted" /\ pc' = "loop" /\ found # NULL /\ o < file_size /\ B # 0
      /\ offs' = o /\ size' = CutSize(o, n) /\ curr_cluster' = StartCluster(o)
      /\ cluster_count' = 0 /\ clusters_to_read' = K % Short
      /\ read_buf' = JUNK /\ buf' = << >> /\ ret' = 0
      /\ UNCHANGED <<disk, heap, fs, sector, entries, harmed, found, block_devices>>
  BY Zenon DEF fat12_read
<1>2. fs \in Handles(Tables(fs.bpb.sectors_per_fat * BlockSize)) /\ fs.bpb.bytes_per_sector = BlockSize
  BY <1>1 DEF Typed, HandleTyped, WithHandle, WithTable
<1>3. B \in Nat \ {0}
  <2>1. fs.bpb.sectors_per_cluster \in Nat
    BY <1>2 DEF Handles, BootSectors
  <2> QED BY <1>1, <1>2, <2>1, Sizes DEF BytesPerCluster
<1>4. file_size \in Nat /\ found.dir_entry.cluster \in Nat
  BY <1>1 DEF Typed, FileTyped, IsEntry, file_size
<1>5. o \in Nat /\ n \in Nat
  OBVIOUS
<1>6. CutSize(o, n) \in Nat
  BY <1>1, <1>4, <1>5 DEF CutSize
<1>7. StartCluster(o) \in 0 .. Short - 1
  <2>1. o \div B \in Nat
    BY <1>3, <1>5
  <2> HIDE DEF B
  <2>2. PICK x \in Nat : x = found.dir_entry.cluster + o \div B
    BY <1>4, <2>1
  <2>3. StartCluster(o) = x % Short
    BY <2>2 DEF StartCluster, B
  <2> QED BY <2>3, ShortRange
<1>8. K % Short \in 0 .. Short - 1
  <2>1. o % B \in Nat
    BY <1>3, <1>5
  <2>2. W \in Nat
    BY <1>6, <2>1, Sizes DEF Wanted
  <2> HIDE DEF B, W
  <2>3. W \div B \in Nat
    BY <1>3, <2>2
  <2>4. K \in Nat
    BY <2>3
  <2> HIDE DEF K
  <2> QED BY <2>4, ShortRange
<1>9. CallTyped'
  <2>1. NumBlocks \in Nat \ {0}
    BY VolumeAssumption
  <2>2. JUNK \in JUNK .. NumBlocks - 1 /\ 0 \in 0 .. Short - 1 /\ << >> \in Seq(Places) /\ 0 \in Int
    BY <2>1 DEF JUNK, Short
  <2> HIDE DEF K
  <2> QED BY <1>1, <1>5, <1>6, <1>7, <1>8, <2>2, Zenon DEF CallTyped
<1>10. Control'
  BY <1>1 DEF Typed, Control, Steps
<1>11. HandleTyped'
  BY <1>1, KeepsHandle DEF Typed, WithHandle, WithTable
<1>12. FileTyped'
  BY <1>1 DEF Typed, FileTyped, EntryList, BytesPerCluster
<1> QED BY <1>1, <1>9, <1>10, <1>11, <1>12, KeepsInputs, KeepsDevices DEF Typed

LEMMA ReadTyped == Typed /\ Read => Typed'
<1> SUFFICES ASSUME Typed, Read PROVE Typed'
  OBVIOUS
<1>1. UNCHANGED <<inputs, oom, faults, path, result>>
  BY Zenon DEF Read
<1>2. CASE \E r \in Input.requests, alloc \in Allocs :
              \/ fat12_read(r[1], r[2], alloc) \/ fat12_read_nothing(r[1], r[2], alloc)
              \/ fat12_read_faults(r[1], r[2])
  <2>1. PICK r \in Input.requests, alloc \in Allocs :
            \/ fat12_read(r[1], r[2], alloc) \/ fat12_read_nothing(r[1], r[2], alloc)
            \/ fat12_read_faults(r[1], r[2])
    BY <1>2
  <2>2. r[1] \in 0 .. Word - 1 /\ r[2] \in 0 .. Word - 1
    BY VolumeAssumption DEF Typed, InputsTyped, Input
  <2>3. CASE fat12_read(r[1], r[2], alloc)
    BY <1>1, <2>2, <2>3, ReadStartTyped
  <2>4. CASE fat12_read_nothing(r[1], r[2], alloc)
    <3>1. /\ ret' \in {-1, 0} /\ offs' = r[1] /\ size' = 0 /\ buf' = << >>
          /\ UNCHANGED <<disk, pc, heap, fs, sector, entries, harmed, found, block_devices,
                         curr_cluster, cluster_count, clusters_to_read, read_buf>>
      BY <2>4, Zenon DEF fat12_read_nothing
    <3>2. CallTyped'
      BY <2>2, <3>1 DEF Typed, CallTyped
    <3>3. Control'
      BY <1>1, <3>1 DEF Typed, Control
    <3> QED BY <1>1, <3>1, <3>2, <3>3, KeepsInputs, KeepsDevices, KeepsHandle,
               KeepsFile DEF Typed
  <2>5. CASE fat12_read_faults(r[1], r[2])
    <3>1. /\ pc' = "fault"
          /\ UNCHANGED <<disk, heap, fs, sector, entries, harmed, found, call, block_devices>>
      BY <2>5, Zenon DEF fat12_read_faults
    <3>2. Control'
      BY <1>1, <3>1 DEF Typed, Control, Steps
    <3> QED BY <1>1, <3>1, <3>2, KeepsCall, KeepsInputs, KeepsDevices, KeepsHandle,
               KeepsFile DEF Typed, WithHandle
  <2> QED BY <2>1, <2>3, <2>4, <2>5
<1>3. CASE fat12_read_overruns
  <2>1. /\ pc' = "fault"
        /\ UNCHANGED <<disk, heap, fs, sector, entries, harmed, found, call, block_devices>>
    BY <1>3, Zenon DEF fat12_read_overruns
  <2>2. Control'
    BY <1>1, <2>1 DEF Typed, Control, Steps
  <2> QED BY <1>1, <2>1, <2>2, KeepsCall, KeepsInputs, KeepsDevices, KeepsHandle,
             KeepsFile DEF Typed, WithHandle
<1>4. CASE fat12_read_return
  <2>1. /\ pc \in {"loop", "return"} /\ pc' = "mounted"
        /\ ret' = IF size < Word \div 2 THEN size ELSE size - Word
        /\ UNCHANGED <<disk, heap, fs, sector, entries, harmed, found, block_devices, offs,
                       size, curr_cluster, cluster_count, clusters_to_read, read_buf, buf>>
    BY <1>4, Zenon DEF fat12_read_return
  <2>2. CallTyped'
    BY <2>1, Sizes DEF Typed, CallTyped
  <2>3. Control'
    BY <1>1, <2>1 DEF Typed, Control, Steps
  <2> QED BY <1>1, <2>1, <2>2, <2>3, KeepsInputs, KeepsDevices, KeepsHandle,
             KeepsFile DEF Typed, WithHandle, WithTable
<1> QED BY <1>2, <1>3, <1>4 DEF Read

\* One turn of the loop: what is copied are places of a sector that was
\* read, or of memory nobody wrote.
LEMMA ReadLoopTyped == Typed /\ ReadLoop => Typed'
<1> SUFFICES ASSUME Typed, ReadLoop PROVE Typed'
  OBVIOUS
<1>1. PICK driver_ok \in DriverAnswers : fat12_read_cluster(driver_ok) /\ Counted(driver_ok)
  BY Zenon DEF ReadLoop
<1>2. UNCHANGED <<inputs, oom, path, result>>
  BY Zenon DEF ReadLoop
<1>3. faults' \in Nat /\ driver_ok \in BOOLEAN
  BY <1>1, CountedNat, Zenon DEF Typed, Control
<1> DEFINE lba == _fat12_cluster_to_lba(curr_cluster)
           piece == [i \in 1 .. CopyEnd - CopyStart |-> <<read_buf', CopyStart + i - 1>>]
<1>4. /\ pc = "loop" /\ pc' \in {"loop", "return"} /\ cluster_count < clusters_to_read
      /\ CopyStart <= CopyEnd
      /\ harmed' = (harmed \/ ~driver_ok)
      /\ read_buf' = IF blkread(fs.block_dev, lba, driver_ok) THEN lba ELSE read_buf
      /\ buf' = buf \o piece /\ cluster_count' = cluster_count + 1
      /\ curr_cluster' = curr_cluster \/ curr_cluster' = _fat12_get_fentry(curr_cluster)
      /\ UNCHANGED <<disk, heap, fs, sector, entries, found, block_devices, offs, size,
                     clusters_to_read, ret>>
  BY <1>1, Zenon DEF fat12_read_cluster
<1>5. /\ fs \in Handles(Tables(fs.bpb.sectors_per_fat * BlockSize))
      /\ fs.bpb.bytes_per_sector = BlockSize /\ BytesPerCluster # 0
  BY <1>4 DEF Typed, HandleTyped, FileTyped, WithHandle, WithTable
<1>6. /\ fs.data_area_start \in Nat /\ fs.bpb.sectors_per_cluster \in Nat
      /\ fs.bpb.sectors_per_fat \in Nat /\ fs.block_dev \in Devices
      /\ fs.fat_table \in Tables(fs.bpb.sectors_per_fat * BlockSize)
  BY <1>5 DEF Handles, BootSectors
<1>7. BytesPerCluster \in Nat \ {0}
  BY <1>5, <1>6, Sizes DEF BytesPerCluster
<1>8. CallTyped
  BY DEF Typed
<1>9. NumBlocks \in Nat
  BY VolumeAssumption
<1>10. curr_cluster \in Nat
  BY <1>8 DEF CallTyped
<1>11. lba \in Nat
  <2>1. curr_cluster >= 2 => (curr_cluster - 2) * fs.bpb.sectors_per_cluster \in Nat
    BY <1>6, <1>10
  <2> QED BY <1>6, <1>10, <2>1 DEF _fat12_cluster_to_lba
<1> HIDE DEF lba
<1>12. read_buf' \in JUNK .. NumBlocks - 1
  <2>1. CASE blkread(fs.block_dev, lba, driver_ok)
    <3>1. lba < NumBlocks
      BY <1>6, <2>1 DEF blkread, InRange, Devices
    <3> QED BY <1>4, <1>9, <1>11, <2>1, <3>1 DEF JUNK
  <2>2. CASE ~blkread(fs.block_dev, lba, driver_ok)
    BY <1>4, <1>8, <2>2 DEF CallTyped
  <2> QED BY <2>1, <2>2
<1>13. CopyStart \in Nat /\ CopyEnd \in Nat
  <2>1. offs % BytesPerCluster \in Nat
    BY <1>7, <1>8 DEF CallTyped
  <2>2. (offs + size) % Word \in Nat
    BY <1>8, Sizes DEF CallTyped
  <2>3. ((offs + size) % Word) % BytesPerCluster \in Nat
    BY <1>7, <2>2
  <2> QED BY <1>7, <2>1, <2>3 DEF CopyStart, CopyEnd
<1>14. buf' \in Seq(Places)
  <2>1. CopyEnd - CopyStart \in Nat
    BY <1>4, <1>13
  <2>2. \A i \in 1 .. CopyEnd - CopyStart : <<read_buf', CopyStart + i - 1>> \in Places
    <3> SUFFICES ASSUME NEW i \in 1 .. CopyEnd - CopyStart
                 PROVE  <<read_buf', CopyStart + i - 1>> \in Places
      OBVIOUS
    <3>1. CopyStart + i - 1 \in Nat
      BY <1>13
    <3> QED BY <1>12, <3>1, Zenon DEF Places
  <2>3. piece \in Seq(Places)
    BY <2>1, <2>2
  <2> HIDE DEF piece
  <2> QED BY <1>4, <1>8, <2>3 DEF CallTyped
<1>15. curr_cluster' \in 0 .. Short - 1
  <2>1. fs.bpb.sectors_per_fat * BlockSize \in Nat
    BY <1>6, Sizes
  <2>2. _fat12_get_fentry(curr_cluster) \in 0 .. EOC
    BY <1>6, <1>10, <2>1, FentryRange
  <2>3. _fat12_get_fentry(curr_cluster) \in 0 .. Short - 1
    BY <2>2, EntryIsShort, Zenon
  <2> QED BY <1>4, <1>8, <2>3, Zenon DEF CallTyped
<1> HIDE DEF piece
<1>16. cluster_count' \in 0 .. Short - 1
  <2>1. cluster_count \in 0 .. Short - 1 /\ clusters_to_read \in 0 .. Short - 1
    BY <1>8 DEF CallTyped
  <2>2. cluster_count < clusters_to_read /\ cluster_count' = cluster_count + 1
    BY <1>4
  <2>3. Short \in Nat
    BY DEF Short
  <2> QED BY <2>1, <2>2, <2>3
<1>17. CallTyped'
  BY <1>4, <1>8, <1>12, <1>14, <1>15, <1>16, Zenon DEF CallTyped
<1>18. Control'
  <2>1. harmed' \in BOOLEAN
    BY <1>3, <1>4, Zenon DEF Typed, Control
  <2> QED BY <1>3, <1>4, <2>1 DEF Typed, Control, Steps
<1>20. HandleTyped' /\ FileTyped'
  BY <1>4, KeepsHandle, KeepsFile DEF Typed, WithHandle, WithTable
<1> QED BY <1>2, <1>4, <1>17, <1>18, <1>20, KeepsInputs, KeepsDevices DEF Typed

LEMMA UnmountTyped == Typed /\ Unmount => Typed'
<1> SUFFICES ASSUME Typed, Unmount PROVE Typed'
  OBVIOUS
<1>1. /\ pc' = "down" /\ fs' = NULL /\ found' = NULL /\ entries' = << >> /\ heap' \subseteq heap
      /\ UNCHANGED <<disk, sector, harmed, block_devices, inputs, faults>>
  BY DEF Unmount, fat12_unmount
<1>2. CallTyped'
  BY VolumeAssumption DEF Unmount, fat12_unmount, CallTyped, JUNK, Short
<1>3. Control'
  BY <1>1 DEF Typed, Control, Steps
<1>4. HandleTyped' /\ FileTyped'
  BY <1>1 DEF HandleTyped, FileTyped, WithHandle, WithTable, EntryList
<1> QED BY <1>1, <1>2, <1>3, <1>4, KeepsInputs, KeepsDevices DEF Typed

LEMMA TypedStep == Typed /\ [Next]_vars => Typed'
<1> SUFFICES ASSUME Typed, [Next]_vars PROVE Typed'
  OBVIOUS
<1>1. CASE UNCHANGED vars
  <2>1. Control' /\ UNCHANGED <<disk, pc, fs, entries, found, call, inputs, block_devices>>
    BY <1>1 DEF vars, fat12_vars, Typed, Control
  <2> QED BY <2>1, KeepsCall, KeepsInputs, KeepsDevices, KeepsHandle, KeepsFile DEF Typed
<1> QED BY <1>1, RegisterTyped, MountTyped, MountReadsTyped, OpenTyped, LookupTyped, ReadTyped,
           ReadLoopTyped, UnmountTyped DEF Next

\* The inductive invariant of all that follows: what the code's variables hold
\* at each of its steps.
THEOREM VolumeTyped == Spec => []Typed
BY TypedInit, TypedStep, PTL DEF Spec

(***************************************************************************)
(* Every variable keeps its type: also with a boot sector nobody read,     *)
(* with requests that wrap, and with a FAT entry that leads anywhere.      *)
(***************************************************************************)
THEOREM VolumeTypes == Spec => []TypeOK
<1>1. Typed => TypeOK
  BY DEF Typed, Control, CallTyped, HandleTyped, FileTyped, TypeOK
<1> QED BY <1>1, VolumeTyped, PTL

-----------------------------------------------------------------------------
(***************************************************************************)
(* Paths.  The token in front of the second separator is a mount name, and *)
(* mount names are shorter than the buffer: so the copy the token is taken *)
(* from was not cut inside it, and what follows it in the path is either   *)
(* nothing or starts with a separator.                                     *)
(***************************************************************************)
LEMMA CopiedIs ==
    ASSUME NEW s \in Seq(STRING), NEW n \in Nat \ {0}
    PROVE  \E m \in 0 .. Len(s) :
              /\ Copied(s, n) = SubSeq(s, 1, m) /\ m <= n - 1
              /\ m = Len(s) \/ m = n - 1
<1>1. Len(s) \in Nat /\ n - 1 \in Nat
  OBVIOUS
<1>2. {Len(s), n - 1} \in SUBSET Nat /\ {Len(s), n - 1} # {}
  BY <1>1
<1>3. PICK m \in {Len(s), n - 1} : m = Min({Len(s), n - 1}) /\ \A y \in {Len(s), n - 1} : m <= y
  BY <1>2, MinNat, Zenon
<1>4. m \in 0 .. Len(s) /\ m <= n - 1
  BY <1>1, <1>3
<1>5. m = Len(s) \/ m = n - 1
  BY <1>3
<1> QED BY <1>3, <1>4, <1>5, Zenon DEF Copied

\* The first token of a copied path that has a letter behind its separator.
LEMMA FirstToken ==
    ASSUME NEW b \in Seq(STRING), Len(b) > 1, b[1] = SEP, b[2] # SEP
    PROVE  \E e \in 3 .. Len(b) + 1 :
              strtok_r(b) = SubSeq(b, 2, e - 1) /\ (e = Len(b) + 1 \/ b[e] = SEP)
<1> DEFINE letters == {i \in 1 .. Len(b) : b[i] # SEP}
           ends == {i \in 2 .. Len(b) : b[i] = SEP} \cup {Len(b) + 1}
<1>1. Len(b) \in Nat
  OBVIOUS
<1>2. letters \in SUBSET Nat /\ 2 \in letters /\ \A i \in letters : 2 <= i
  BY <1>1
<1>3. Min(letters) = 2
  <2> HIDE DEF letters
  <2> QED BY <1>2, MinIs
<1>4. ends \in SUBSET Nat /\ ends # {}
  BY <1>1
<1>5. PICK e \in ends : e = Min(ends)
  BY <1>4, MinNat
<1>6. e \in 3 .. Len(b) + 1 /\ (e = Len(b) + 1 \/ b[e] = SEP)
  BY <1>1, <1>5
<1>7. strtok_r(b) = SubSeq(b, 2, Min(ends) - 1)
  BY <1>2, <1>3 DEF strtok_r
<1> HIDE DEF ends
<1> QED BY <1>5, <1>6, <1>7

LEMMA SplitExactly ==
    ASSUME NEW p \in Seq(STRING), Len(p) > 1, p[2] # SEP,
           Absolute(p), strtok_r(Copied(p, PathMax)) \in Mounts
    PROVE  LET token == strtok_r(Copied(p, PathMax))
               rel   == rel_path_of(p, token)
               whole == <<SEP>> \o token \o rel
           IN  /\ rel[1] = SEP
               /\ \/ whole = p
                  \/ whole = p \o <<SEP>>
                  \/ IsPrefix(whole, p) /\ Len(rel) = PathMax - 1
<1> DEFINE b == Copied(p, PathMax)
           token == strtok_r(b)
           rel == rel_path_of(p, token)
           whole == <<SEP>> \o token \o rel
<1>1. /\ PathMax \in Nat \ {0} /\ token \in Seq(STRING) /\ Len(token) \in 1 .. PathMax - 3
      /\ PathMax >= 4
  BY PathAssumption
<1>2. PICK m \in 0 .. Len(p) : b = SubSeq(p, 1, m) /\ m <= PathMax - 1 /\ (m = Len(p) \/ m = PathMax - 1)
  BY <1>1, CopiedIs, Zenon
<1>3. m >= 2 /\ Len(p) \in Nat /\ p[1] = SEP
  BY <1>1, <1>2 DEF Absolute
<1> HIDE DEF b
<1>4. b \in Seq(STRING) /\ Len(b) = m /\ \A i \in 1 .. m : b[i] = p[i]
  BY <1>2
<1>5. PICK e \in 3 .. m + 1 : token = SubSeq(b, 2, e - 1) /\ (e = m + 1 \/ b[e] = SEP)
  <2>1. Len(b) > 1 /\ b[1] = SEP /\ b[2] # SEP
    BY <1>3, <1>4
  <2> QED BY <1>4, <2>1, FirstToken
<1> HIDE DEF token
<1>6. Len(token) = e - 2 /\ e <= PathMax - 1
  BY <1>1, <1>4, <1>5
<1>7. token = SubSeq(p, 2, e - 1)
  <2>1. SubSeq(p, 2, e - 1) \in Seq(STRING) /\ Len(SubSeq(p, 2, e - 1)) = e - 2
    BY <1>2, <1>3
  <2>2. \A i \in 1 .. e - 2 : token[i] = SubSeq(p, 2, e - 1)[i]
    BY <1>2, <1>3, <1>4, <1>5
  <2> QED BY <1>1, <1>6, <2>1, <2>2, SeqEqual
<1>8. <<SEP>> \o token = SubSeq(p, 1, e - 1)
  <2>1. <<SEP>> = SubSeq(p, 1, 1)
    BY <1>3
  <2>2. 1 \in 1 .. Len(p) + 1 /\ 1 \in 1 - 1 .. Len(p) /\ e - 1 \in 1 .. Len(p)
    BY <1>2, <1>3
  <2>3. SubSeq(p, 1, 1) \o SubSeq(p, 1 + 1, e - 1) = SubSeq(p, 1, e - 1)
    BY <2>2, ConcatAdjacentSubSeq
  <2> QED BY <1>7, <2>1, <2>3
<1>9. SubSeq(p, Len(token) + 2, Len(p)) = SubSeq(p, e, Len(p))
  BY <1>6
<1>10. CASE e = Len(p) + 1
  <2>1. SubSeq(p, e, Len(p)) = << >>
    BY <1>3, <1>10
  <2>2. rel = <<SEP>>
    BY <1>9, <2>1 DEF rel_path_of
  <2>3. SubSeq(p, 1, e - 1) = p
    BY <1>3, <1>10
  <2>4. whole = p \o <<SEP>>
    BY <1>8, <2>2, <2>3
  <2>5. rel[1] = SEP
    BY <2>2
  <2> HIDE DEF rel, whole
  <2> QED BY <2>4, <2>5 DEF rel, token, whole, b
<1>11. CASE e # Len(p) + 1
  <2> DEFINE q == SubSeq(p, e, Len(p))
  <2>1. e \in 3 .. Len(p) /\ p[e] = SEP
    <3>1. e # m + 1
      BY <1>1, <1>2, <1>3, <1>6, <1>11
    <3> QED BY <1>2, <1>3, <1>4, <1>5, <3>1, SMTT(30)
  <2>2. q \in Seq(STRING) /\ Len(q) = Len(p) - e + 1 /\ q[1] = SEP /\ q # << >>
    <3>1. \A i \in e .. Len(p) : p[i] \in STRING
      BY <1>3, <2>1
    <3>2. /\ q \in Seq(STRING) /\ Len(q) = Len(p) - e + 1
          /\ \A i \in 1 .. Len(p) - e + 1 : q[i] = p[e + i - 1]
      BY <1>3, <2>1, <3>1, SubSeqProperties
    <3> HIDE DEF q
    <3>3. Len(q) >= 1
      BY <1>3, <2>1, <3>2
    <3>4. 1 \in 1 .. Len(p) - e + 1 /\ e + 1 - 1 = e
      BY <1>3, <2>1
    <3>5. q[1] = p[e]
      BY <3>2, <3>4
    <3>6. q # << >>
      BY <3>3
    <3> QED BY <2>1, <3>2, <3>5, <3>6
  <2>3. rel = Copied(q, PathMax)
    BY <1>9, <2>2 DEF rel_path_of
  <2> HIDE DEF rel
  <2>4. PICK k \in 0 .. Len(q) : rel = SubSeq(q, 1, k) /\ k <= PathMax - 1 /\ (k = Len(q) \/ k = PathMax - 1)
    BY <1>1, <2>2, <2>3, CopiedIs
  <2>5. k >= 1 /\ k <= Len(p) - e + 1
    BY <1>1, <1>3, <2>1, <2>2, <2>4, SMTT(30)
  <2>6. rel \in Seq(STRING) /\ Len(rel) = k /\ rel[1] = SEP
    BY <2>2, <2>4, <2>5, SMTT(30)
  <2>7. rel = SubSeq(p, e, e + k - 1)
    <3>1. SubSeq(p, e, e + k - 1) \in Seq(STRING) /\ Len(SubSeq(p, e, e + k - 1)) = k
      BY <1>3, <2>1, <2>5
    <3>2. \A i \in 1 .. k : rel[i] = SubSeq(p, e, e + k - 1)[i]
      BY <1>3, <2>1, <2>4, <2>5
    <3> QED BY <2>6, <3>1, <3>2, SeqEqual
  <2>8. whole = SubSeq(p, 1, e + k - 1)
    <3>1. 1 \in 1 .. Len(p) + 1 /\ e - 1 \in 1 - 1 .. Len(p) /\ e + k - 1 \in e - 1 .. Len(p)
      BY <1>3, <2>1, <2>5
    <3>2. SubSeq(p, 1, e - 1) \o SubSeq(p, e - 1 + 1, e + k - 1) = SubSeq(p, 1, e + k - 1)
      BY <3>1, ConcatAdjacentSubSeq
    <3>3. e - 1 + 1 = e
      BY <2>1
    <3> QED BY <1>8, <2>7, <3>2, <3>3
  <2> HIDE DEF whole
  <2>9. CASE k = Len(q)
    <3>1. whole = p
      BY <1>3, <2>1, <2>2, <2>8, <2>9
    <3> QED BY <2>6, <3>1 DEF rel, token, whole, b
  <2>10. CASE k = PathMax - 1
    <3>1. whole \in Seq(STRING) /\ Len(whole) = e + k - 1 /\ Len(whole) <= Len(p)
      BY <1>3, <2>1, <2>5, <2>8
    <3>2. SubSeq(whole, 1, Len(whole)) = whole
      BY <3>1, SubSeqFull
    <3>3. IsPrefix(whole, p)
      BY <2>8, <3>1, <3>2 DEF IsPrefix
    <3> QED BY <2>6, <2>10, <3>3 DEF rel, token, whole, b
  <2> QED BY <2>4, <2>9, <2>10
<1> QED BY <1>10, <1>11

\* What the last vfs_open answered is what its path resolves to.
Resolved == result # NULL => path \in Seq(STRING) /\ result = _vfs_resolve_mountpoint(path)

LEMMA ResolvedStep == InputsTyped /\ Resolved /\ [Next]_vars => Resolved'
<1> SUFFICES ASSUME InputsTyped, Resolved, [Next]_vars PROVE Resolved'
  OBVIOUS
<1>1. CASE UNCHANGED <<path, result>>
  BY <1>1 DEF Resolved
<1>2. CASE \E p \in Input.paths : vfs_open(p)
  <2>1. PICK p \in Input.paths : path' = p /\ result' = _vfs_resolve_mountpoint(p)
    BY <1>2, Zenon DEF vfs_open
  <2>2. p \in Seq(STRING)
    BY VolumeAssumption DEF InputsTyped, Input
  <2> QED BY <2>1, <2>2, Zenon DEF Resolved
<1>3. CASE Unmount
  BY <1>3 DEF Unmount, Resolved
<1>4. Register \/ Mount \/ MountReads \/ Lookup \/ Read \/ ReadLoop => UNCHANGED <<path, result>>
  BY Zenon DEF Register, Mount, MountReads, Lookup, Read, ReadLoop
<1>5. UNCHANGED vars => UNCHANGED <<path, result>>
  BY Zenon DEF vars
<1> QED BY <1>1, <1>2, <1>3, <1>4, <1>5, Zenon DEF Next

(***************************************************************************)
(* _vfs_resolve_mountpoint loses nothing of a path, however long it and    *)
(* the names in it are: "/", the mount and the rest are the path again,    *)
(* cut only where the buffer of rel_path ends.                             *)
(***************************************************************************)
THEOREM VolumeSplitsExactly == Spec => []SplitsExactly
<1>1. Init => Resolved
  BY DEF Init, Resolved
<1>2. Typed => InputsTyped
  BY DEF Typed
<1>3. Resolved => SplitsExactly
  <2> SUFFICES ASSUME Resolved, result # NULL, Len(path) > 1, path[2] # SEP
               PROVE  SplitsExactly
    BY DEF SplitsExactly
  <2> DEFINE token == strtok_r(Copied(path, PathMax))
             rel == rel_path_of(path, token)
             whole == <<SEP>> \o token \o rel
  <2>1. path \in Seq(STRING) /\ Absolute(path) /\ token \in Mounts
        /\ result = [mount |-> token, rel_path |-> rel]
    BY DEF Resolved, _vfs_resolve_mountpoint
  <2>2. /\ rel[1] = SEP
        /\ \/ whole = path
           \/ whole = path \o <<SEP>>
           \/ IsPrefix(whole, path) /\ Len(rel) = PathMax - 1
    BY <2>1, SplitExactly, Zenon
  <2>3. result.mount = token /\ result.rel_path = rel
    BY <2>1
  <2> HIDE DEF token, rel
  <2> QED BY <2>2, <2>3, Zenon DEF SplitsExactly
<1> QED BY <1>1, <1>2, <1>3, ResolvedStep, VolumeTyped, PTL DEF Spec

-----------------------------------------------------------------------------
(***************************************************************************)
(* The mount.  As long as no read failed, the handle is computed from the  *)
(* boot sector on the disk, and the part of the FAT that the loop has got  *)
(* to is the FAT of the disk.                                              *)
(***************************************************************************)
Geometry ==
    pc \in WithHandle /\ ~harmed =>
        /\ fs.bpb = disk.bpb
        /\ \A area \in {"fat_start", "root_dir_start", "root_dir_sectors", "data_area_start"} :
            fs[area] = Handle(NULL, disk.bpb)[area]

FatLoaded ==
    pc \in WithTable /\ ~harmed /\ Supported =>
        \A i \in 0 .. disk.bpb.sectors_per_fat * BlockSize - 1 :
            pc # "load" \/ i \div BlockSize < sector =>
                fs.fat_table.bytes[i] = FatByte(disk.chain, i)

\* Once mounted the handle stays, and a read that failed is not forgotten.
Settled == WithTable \ {"load"}

KeepsMount ==
    /\ disk' = disk
    /\ \/ pc' \notin WithHandle
       \/ fs' = fs /\ pc' = pc /\ sector' = sector /\ harmed' = harmed
       \/ fs' = fs /\ pc \in Settled /\ pc' \in Settled /\ (~harmed' => ~harmed)

LEMMA KeepsKnowing == Geometry /\ FatLoaded /\ KeepsMount => Geometry' /\ FatLoaded'
<1> SUFFICES ASSUME Geometry, FatLoaded, KeepsMount PROVE Geometry' /\ FatLoaded'
  OBVIOUS
<1>1. CASE pc' \notin WithHandle
  BY <1>1 DEF Geometry, FatLoaded, WithTable
<1>2. CASE fs' = fs /\ pc' = pc /\ sector' = sector /\ harmed' = harmed
  BY <1>2 DEF KeepsMount, Geometry, FatLoaded, Supported
<1>3. CASE fs' = fs /\ pc \in Settled /\ pc' \in Settled /\ (~harmed' => ~harmed)
  <2>1. pc \in WithHandle /\ pc \in WithTable /\ pc # "load" /\ pc' # "load" /\ disk' = disk
    BY <1>3 DEF Settled, WithTable, KeepsMount
  <2> QED BY <1>3, <2>1 DEF Geometry, FatLoaded, Supported
<1> QED BY <1>1, <1>2, <1>3 DEF KeepsMount

\* Every step but four of fat12_mount leaves the mount as it is.
LEMMA MountKept ==
    ASSUME [Next]_vars
    PROVE  \/ KeepsMount
           \/ \E driver_ok \in BOOLEAN, garbage \in Input.garbage :
                fat12_mount_device("fd0", driver_ok, garbage)
           \/ \E alloc \in Allocs, junk \in JunkBytes : fat12_mount_fat_table(alloc, junk)
           \/ \E driver_ok \in BOOLEAN : fat12_mount_load(driver_ok)
           \/ \E alloc \in Allocs : fat12_mount_vfs(alloc)
<1> DEFINE Others == /\ disk' = disk
                     /\ \/ pc' \notin WithHandle
                        \/ fs' = fs /\ pc' = pc /\ sector' = sector /\ harmed' = harmed
                        \/ fs' = fs /\ pc \in Settled /\ pc' \in Settled /\ (~harmed' => ~harmed)
<1>1. Others => KeepsMount
  BY DEF KeepsMount
<1>2. {"vroot", "mount_at", "mounted", "scan", "loop", "return"} \subseteq Settled
  BY DEF Settled, WithTable, WithHandle
<1>3. "down" \notin WithHandle /\ "bootsector" \notin WithHandle /\ "device" \notin WithHandle
      /\ "fault" \notin WithHandle
  BY DEF WithHandle
<1> HIDE DEF Others
<1>4. DriverAnswers \subseteq BOOLEAN
  BY Zenon DEF DriverAnswers
<1>5. Register \/ UNCHANGED vars => Others
  BY Zenon DEF Register, vars, fat12_vars, Others
<1>6. ASSUME NEW alloc \in Allocs,
             \/ fat12_mount(alloc) \/ fat12_mount_bootsector(alloc) \/ fat12_mount_root(alloc)
 \/ vfs_mount_at(alloc)
             \/ vfs_mount_at(alloc) \/ fat12_mount_fails("fd0", alloc)
      PROVE  Others
  <2>1. CASE fat12_mount(alloc)
    BY <1>3, <2>1, Zenon DEF fat12_mount, Others
  <2>2. CASE fat12_mount_bootsector(alloc)
    BY <1>3, <2>2, Zenon DEF fat12_mount_bootsector, Others
  <2>3. CASE fat12_mount_root(alloc)
    BY <1>2, <1>3, <2>3, Zenon DEF fat12_mount_root, Others
  <2>4. CASE fat12_mount_fails("fd0", alloc)
    BY <1>3, <2>4, Zenon DEF fat12_mount_fails, Others
  <2>5. CASE vfs_mount_at(alloc)
    BY <1>2, <1>3, <2>5, Zenon DEF vfs_mount_at, Others
  <2> QED BY <1>6, <2>1, <2>2, <2>3, <2>4, <2>5
<1>7. ASSUME NEW p, vfs_open(p) PROVE Others
  BY <1>2, <1>7, Zenon DEF vfs_open, fat12_open, Others
<1>8. Lookup => Others
  <2>1. ASSUME NEW q, NEW driver_ok, NEW alloc, _fat12_lookup(q, driver_ok, alloc)
        PROVE  /\ disk' = disk /\ fs' = fs /\ pc = "scan" /\ pc' \in {"scan", "mounted"}
               /\ harmed' = (harmed \/ ~driver_ok)
    BY <2>1, Zenon DEF _fat12_lookup
  <2>2. ASSUME NEW q, NEW driver_ok, NEW alloc, _fat12_lookup(q, driver_ok, alloc) PROVE Others
    BY <1>2, <2>1, <2>2, Zenon DEF Others
  <2>3. _fat12_lookup_fails => Others
    <3>1. _fat12_lookup_fails =>
            disk' = disk /\ fs' = fs /\ pc = "scan" /\ pc' = "mounted" /\ harmed' = harmed
      BY Zenon DEF _fat12_lookup_fails
    <3> QED BY <1>2, <3>1, Zenon DEF Others
  <2> QED BY <2>2, <2>3, Zenon DEF Lookup
<1>9. Read => Others
  <2>1. ASSUME NEW o, NEW n, NEW alloc, fat12_read(o, n, alloc) PROVE Others
    BY <1>2, <2>1, Zenon DEF fat12_read, Others
  <2>2. ASSUME NEW o, NEW n, NEW alloc, fat12_read_nothing(o, n, alloc) PROVE Others
    BY <2>2, Zenon DEF fat12_read_nothing, Others
  <2>3. ASSUME NEW o, NEW n, fat12_read_faults(o, n) PROVE Others
    BY <1>3, <2>3, Zenon DEF fat12_read_faults, Others
  <2>4. fat12_read_overruns => Others
    BY <1>3, Zenon DEF fat12_read_overruns, Others
  <2>5. fat12_read_return => Others
    <3>1. fat12_read_return => /\ pc = "loop" \/ pc = "return"
                               /\ disk' = disk /\ fs' = fs /\ pc' = "mounted" /\ harmed' = harmed
      BY Zenon DEF fat12_read_return
    <3> QED BY <1>2, <3>1, Zenon DEF Others
  <2> QED BY <2>1, <2>2, <2>3, <2>4, <2>5, Zenon DEF Read
<1>10. ReadLoop => Others
  BY <1>2, Zenon DEF ReadLoop, fat12_read_cluster, Others
<1>11. Unmount => Others
  BY <1>3, Zenon DEF Unmount, fat12_unmount, Others
<1>12. Mount => \/ Others
                \/ \E alloc \in Allocs, junk \in JunkBytes : fat12_mount_fat_table(alloc, junk)
                \/ \E alloc \in Allocs : fat12_mount_vfs(alloc)
  BY <1>6, Zenon DEF Mount
<1>13. MountReads => \/ \E driver_ok \in BOOLEAN, garbage \in Input.garbage :
                          fat12_mount_device("fd0", driver_ok, garbage)
                     \/ \E driver_ok \in BOOLEAN : fat12_mount_load(driver_ok)
  BY <1>4, Zenon DEF MountReads
<1> QED BY <1>1, <1>5, <1>7, <1>8, <1>9, <1>10, <1>11, <1>12, <1>13, Zenon DEF Next

-----------------------------------------------------------------------------
\* The areas of a handle, and those of the format where the code supports it.
LEMMA AreasOf ==
    ASSUME NEW bpb \in BootSectors, bpb.bytes_per_sector = BlockSize
    PROVE  LET h == Handle(NULL, bpb) IN
           /\ h.fat_start = (bpb.hidden_sectors % 256) + bpb.rsrvd_cnt
           /\ h.root_dir_start = h.fat_start + bpb.num_fats * bpb.sectors_per_fat
           /\ h.root_dir_sectors = (bpb.max_root_dir_entries * EntrySize) \div BlockSize
           /\ h.data_area_start = h.root_dir_start + h.root_dir_sectors
BY DEF Handle

\* Rounding up or down is the same for a number of whole sectors.
LEMMA WholeSectors ==
    ASSUME NEW m \in Nat, NEW b \in Nat \ {0}, m % b = 0
    PROVE  (m + b - 1) \div b = m \div b
<1>1. m = b * (m \div b) /\ m \div b \in Int
  OBVIOUS
<1>2. PICK q \in Int : q = m \div b
  BY <1>1
<1>3. m + b - 1 = b * q + (b - 1)
  BY <1>1, <1>2
<1>4. b - 1 \in 0 .. b - 1
  OBVIOUS
<1>5. (b * q + (b - 1)) \div b = q
  BY <1>4
<1> QED BY <1>2, <1>3, <1>5

LEMMA SupportedLayout ==
    ASSUME Formatted(disk), Supported
    PROVE  \A area \in {"fat_start", "root_dir_start", "root_dir_sectors", "data_area_start"} :
              Handle(NULL, disk.bpb)[area] = Layout(disk.bpb)[area]
<1> DEFINE bpb == disk.bpb
           h == Handle(NULL, bpb)
           m == bpb.max_root_dir_entries * EntrySize
<1>1. bpb \in BootSectors /\ bpb.bytes_per_sector = BlockSize
  BY DEF Formatted
<1>2. m \in Nat /\ m % BlockSize = 0 /\ bpb.hidden_sectors \in 0 .. 255
  <2>1. m \in Nat
    BY <1>1, Sizes DEF BootSectors
  <2>2. m % BlockSize = 0 /\ bpb.hidden_sectors < 256
    BY DEF Supported
  <2>3. bpb.hidden_sectors \in 0 .. 255
    BY <1>1, <2>2 DEF BootSectors
  <2> QED BY <2>1, <2>2, <2>3
<1>3. (m + BlockSize - 1) \div BlockSize = m \div BlockSize
  BY <1>2, Sizes, WholeSectors
<1>4. bpb.hidden_sectors % 256 = bpb.hidden_sectors
  BY <1>2
<1> HIDE DEF m
<1> QED BY <1>1, <1>3, <1>4 DEF Handle, Layout, m

\* A sector of the FAT the loop reads is on the device and in the FAT.
LEMMA FatSectorInRange ==
    ASSUME Formatted(disk), Supported, NEW k \in Nat, k < disk.bpb.sectors_per_fat
    PROVE  LET lba == Layout(disk.bpb).fat_start + k IN
           /\ lba < NumBlocks
           /\ \A o \in Nat : DiskByte(lba, o) = FatByte(disk.chain, k * BlockSize + o)
<1> DEFINE at == Layout(disk.bpb)
           n == disk.bpb.sectors_per_fat
           f == disk.bpb.num_fats
           lba == at.fat_start + k
<1>1. disk.bpb \in BootSectors /\ f > 0 /\ f \in Nat /\ n \in Nat
  BY DEF Formatted, BootSectors
<1>2. /\ at.fat_start \in Nat /\ at.root_dir_sectors \in Nat
      /\ at.root_dir_start = at.fat_start + f * n
      /\ at.data_area_start = at.root_dir_start + at.root_dir_sectors
  BY <1>1, LayoutTyped
<1>3. at.data_area_start <= NumBlocks /\ NumBlocks \in Nat
  BY VolumeAssumption DEF Supported
<1> HIDE DEF at, n, f
<1>4. n <= f * n
  BY <1>1
<1>5. f * n \in Nat
  BY <1>1
<1>6. k < n
  BY DEF n
<1>7. at.fat_start + k < at.root_dir_start /\ lba < NumBlocks
  BY <1>1, <1>2, <1>3, <1>4, <1>5, <1>6
<1>8. lba \in at.fat_start .. at.root_dir_start - 1 /\ lba - at.fat_start = k
  BY <1>1, <1>2, <1>5, <1>7
<1>9. k % n = k
  BY <1>1, <1>6
<1>10. \A o : DiskByte(lba, o) = FatByte(disk.chain, k * BlockSize + o)
  BY <1>8, <1>9 DEF DiskByte, at, n
<1> QED BY <1>7, <1>10 DEF at

LEMMA DeviceKnows ==
    ASSUME Typed, NEW driver_ok \in BOOLEAN, NEW garbage \in Input.garbage,
           fat12_mount_device("fd0", driver_ok, garbage)
    PROVE  Geometry' /\ FatLoaded'
<1> DEFINE dev == blkdev_get_by_name("fd0")
           bpb == IF blkread(dev, 0, driver_ok) THEN disk.bpb ELSE garbage
<1>1. /\ dev # NULL /\ harmed' = ~driver_ok /\ disk' = disk
      /\ pc' = "fault" \/ (pc' = "fat_table" /\ fs' = Handle(dev, bpb))
  BY Zenon DEF fat12_mount_device
<1>2. FatLoaded'
  BY <1>1 DEF FatLoaded, WithTable, WithHandle
<1>3. CASE pc' = "fault" \/ harmed'
  BY <1>2, <1>3 DEF Geometry, WithHandle
<1>4. CASE pc' = "fat_table" /\ fs' = Handle(dev, bpb) /\ ~harmed'
  <2>1. driver_ok
    BY <1>1, <1>4, Zenon
  <2>2. dev.num_blocks = NumBlocks /\ NumBlocks > 0
    BY <1>1, DeviceFound, VolumeAssumption DEF Typed, Devices
  <2>3. blkread(dev, 0, driver_ok)
    BY <1>1, <2>1, <2>2 DEF blkread, InRange
  <2>4. bpb = disk.bpb
    BY <2>3
  <2> HIDE DEF dev, bpb
  <2>5. fs'.bpb = disk.bpb
    BY <1>4, <2>4 DEF Handle
  <2>6. \A area \in {"fat_start", "root_dir_start", "root_dir_sectors", "data_area_start"} :
            fs'[area] = Handle(NULL, disk.bpb)[area]
    BY <1>4, <2>4 DEF Handle
  <2> QED BY <1>1, <1>2, <2>5, <2>6 DEF Geometry
<1> QED BY <1>1, <1>2, <1>3, <1>4

LEMMA TableKnows ==
    ASSUME Typed, Geometry, NEW alloc, NEW junk \in JunkBytes, fat12_mount_fat_table(alloc, junk)
    PROVE  Geometry' /\ FatLoaded'
<1>1. PICK table : fs' = [fs EXCEPT !.fat_table = table]
  BY DEF fat12_mount_fat_table
<1>2. pc = "fat_table" /\ pc' = "load" /\ sector' = 0 /\ harmed' = harmed /\ disk' = disk
  BY DEF fat12_mount_fat_table
<1>3. fs \in Handles({NULL})
  BY <1>2 DEF Typed, HandleTyped
<1>4. /\ fs'.bpb = fs.bpb
      /\ \A area \in {"fat_start", "root_dir_start", "root_dir_sectors", "data_area_start"} :
            fs'[area] = fs[area]
  BY <1>1, <1>3 DEF Handles
<1>5. Geometry'
  BY <1>2, <1>4 DEF Geometry, WithHandle
<1>6. FatLoaded'
  <2>1. \A i \in Nat : ~(i \div BlockSize < 0)
    BY Sizes
  <2>2. \A n \in Int : \A i \in 0 .. n - 1 : i \in Nat
    OBVIOUS
  <2>3. disk.bpb.sectors_per_fat * BlockSize \in Int
    BY Sizes DEF Typed, InputsTyped, Formatted, BootSectors
  <2>4. disk'.bpb.sectors_per_fat * BlockSize \in Int
    BY <1>2, <2>3
  <2> QED BY <1>2, <2>1, <2>2, <2>4 DEF FatLoaded
<1> QED BY <1>5, <1>6

\* One turn of the loop puts the next sector of the FAT into memory.
LEMMA LoadKnows ==
    ASSUME Typed, Geometry, FatLoaded, NEW driver_ok \in BOOLEAN, fat12_mount_load(driver_ok)
    PROVE  Geometry' /\ FatLoaded'
<1> DEFINE lba == fs.fat_start + sector
           ok  == blkread(fs.block_dev, lba, driver_ok)
           bytes == fs.fat_table.bytes
           now == [i \in DOMAIN bytes |->
                     IF i \div BlockSize = sector THEN DiskByte(lba, i % BlockSize) ELSE bytes[i]]
           n == disk.bpb.sectors_per_fat * BlockSize
<1>1. /\ pc = "load" /\ pc' = "load" /\ sector < fs.bpb.sectors_per_fat
      /\ fs' = IF ~ok THEN fs ELSE [fs EXCEPT !.fat_table.bytes = now]
      /\ harmed' = (harmed \/ ~driver_ok) /\ sector' = sector + 1 /\ disk' = disk
  BY DEF fat12_mount_load
<1>2. /\ fs \in Handles(Tables(fs.bpb.sectors_per_fat * BlockSize)) /\ sector \in Nat
      /\ fs.block_dev # NULL
  BY <1>1 DEF Typed, HandleTyped, Control, WithHandle, WithTable
<1>3. ~harmed' => ~harmed /\ driver_ok
  BY <1>1, Zenon
<1>4. /\ fs'.bpb = fs.bpb
      /\ \A area \in {"fat_start", "root_dir_start", "root_dir_sectors", "data_area_start"} :
            fs'[area] = fs[area]
  <2> HIDE DEF ok, now
  <2> QED BY <1>1, <1>2 DEF Handles
<1>5. Geometry'
  BY <1>1, <1>3, <1>4 DEF Geometry
<1>6. ASSUME ~harmed', Supported PROVE FatLoaded'
  <2>1. fs.bpb = disk.bpb /\ fs.fat_start = Layout(disk.bpb).fat_start
    BY <1>1, <1>3, <1>6, SupportedLayout DEF Geometry, WithHandle, Typed, InputsTyped
  <2>2. /\ lba < NumBlocks
        /\ \A o \in Nat : DiskByte(lba, o) = FatByte(disk.chain, sector * BlockSize + o)
    BY <1>1, <1>2, <1>6, <2>1, FatSectorInRange DEF Typed, InputsTyped
  <2>3. ok
    BY <1>2, <1>3, <1>6, <2>2 DEF blkread, InRange, Handles, Devices
  <2>4. fs' = [fs EXCEPT !.fat_table.bytes = now]
    BY <1>1, <2>3
  <2>5. bytes \in [0 .. n - 1 -> 0 .. 255] /\ n \in Nat
    <3>1. disk.bpb.sectors_per_fat \in Nat
      BY <1>2, <2>1 DEF Handles, BootSectors
    <3>2. fs.fat_table \in Tables(n)
      BY <1>2, <2>1 DEF Handles
    <3>3. n \in Nat
      BY <3>1, Sizes
    <3> HIDE DEF n
    <3>4. bytes \in [0 .. n - 1 -> 0 .. 255]
      BY <3>2 DEF Tables
    <3> QED BY <3>3, <3>4
  <2>6. fs'.fat_table.bytes = now
    <3> HIDE DEF now
    <3> QED BY <1>2, <2>4 DEF Handles, Tables
  <2>7. ASSUME NEW i \in 0 .. n - 1, i \div BlockSize < sector + 1
        PROVE  now[i] = FatByte(disk.chain, i)
    <3>1. i \in Nat /\ i \div BlockSize \in Nat /\ i % BlockSize \in Nat
          /\ i = (i \div BlockSize) * BlockSize + (i % BlockSize)
      <4>1. i \in Nat
        BY <2>5
      <4>2. /\ i \div BlockSize \in Nat /\ i % BlockSize \in 0 .. BlockSize - 1
            /\ i = BlockSize * (i \div BlockSize) + (i % BlockSize)
        BY <4>1, Sizes, DivMod
      <4> QED BY <4>1, <4>2, Sizes
    <3>2. CASE i \div BlockSize = sector
      <4>1. now[i] = DiskByte(lba, i % BlockSize)
        BY <2>5, <3>2
      <4> QED BY <2>2, <3>1, <3>2, <4>1
    <3>3. CASE i \div BlockSize # sector
      <4>1. now[i] = bytes[i]
        BY <2>5, <3>3
      <4>2. i \div BlockSize < sector
        BY <1>2, <2>7, <3>1, <3>3
      <4> QED BY <1>1, <1>3, <1>6, <4>1, <4>2 DEF FatLoaded, WithTable, WithHandle
    <3> QED BY <3>2, <3>3
  <2> HIDE DEF now
  <2> QED BY <1>1, <2>6, <2>7 DEF FatLoaded
<1>7. ASSUME harmed' \/ ~Supported PROVE FatLoaded'
  BY <1>1, <1>7 DEF FatLoaded, Supported
<1> QED BY <1>5, <1>6, <1>7

\* The loop ends when all sectors are read.
LEMMA VfsKnows ==
    ASSUME Typed, Geometry, FatLoaded, NEW alloc, fat12_mount_vfs(alloc)
    PROVE  Geometry' /\ FatLoaded'
<1>1. /\ pc = "load" /\ pc' = "vroot" /\ sector >= fs.bpb.sectors_per_fat
      /\ fs' = fs /\ harmed' = harmed /\ disk' = disk
  BY DEF fat12_mount_vfs
<1>2. Geometry'
  BY <1>1 DEF Geometry, WithHandle
<1>3. ASSUME ~harmed, Supported, NEW i \in 0 .. disk.bpb.sectors_per_fat * BlockSize - 1
      PROVE  fs.fat_table.bytes[i] = FatByte(disk.chain, i)
  <2>1. fs.bpb = disk.bpb
    BY <1>1, <1>3 DEF Geometry, WithHandle
  <2>2. disk.bpb.sectors_per_fat \in Nat /\ sector \in Nat
    BY DEF Typed, InputsTyped, Formatted, BootSectors, Control
  <2>3. i \div BlockSize < disk.bpb.sectors_per_fat
    BY <2>2, Sizes
  <2>4. i \div BlockSize < sector
    <3>1. i \in Nat
      BY <2>2, Sizes
    <3>2. i \div BlockSize \in Nat
      BY <3>1, Sizes
    <3> QED BY <1>1, <2>1, <2>2, <2>3, <3>2
  <2> QED BY <1>1, <1>3, <2>4 DEF FatLoaded, WithTable, WithHandle
<1>4. FatLoaded'
  BY <1>1, <1>3 DEF FatLoaded, Supported
<1> QED BY <1>2, <1>4

LEMMA KnowsStep == Typed /\ Geometry /\ FatLoaded /\ [Next]_vars => Geometry' /\ FatLoaded'
BY MountKept, KeepsKnowing, DeviceKnows, TableKnows, LoadKnows, VfsKnows, Zenon

\* While no read of fat12_mount failed, handle and FAT in memory are the disk's,
\* as far as the mount has got.
THEOREM VolumeKnows == Spec => [](Geometry /\ FatLoaded)
<1>1. Init => Geometry /\ FatLoaded
  BY DEF Init, Fat12Init, Geometry, FatLoaded, WithTable, WithHandle
<1> QED BY <1>1, KnowsStep, VolumeTyped, PTL DEF Spec

-----------------------------------------------------------------------------
\* The entry of an even and of an odd cluster, out of the bytes that hold
\* it: x is the even one of the two entries in three bytes, y the odd one.
LEMMA EvenEntry ==
    ASSUME NEW x \in 0 .. EOC, NEW y \in 0 .. EOC
    PROVE  ((x % 256) + 256 * (x \div 256 + 16 * (y % 16))) % 4096 = x
<1>1. x \in 0 .. 4095 /\ y \in 0 .. 4095
  BY DEF EOC
<1>2. PICK a \in 0 .. 255 : a = x % 256
  BY <1>1
<1>3. PICK b \in 0 .. 15 : b = x \div 256
  BY <1>1
<1>4. PICK c \in 0 .. 15 : c = y % 16
  BY <1>1
<1>5. x = 256 * b + a
  BY <1>1, <1>2, <1>3
<1>6. (a + 256 * (b + 16 * c)) % 4096 = 256 * b + a
  OBVIOUS
<1> QED BY <1>2, <1>3, <1>4, <1>5, <1>6

LEMMA OddEntry ==
    ASSUME NEW x \in 0 .. EOC, NEW y \in 0 .. EOC
    PROVE  ((x \div 256 + 16 * (y % 16)) + 256 * (y \div 16)) \div 16 = y
<1>1. x \in 0 .. 4095 /\ y \in 0 .. 4095
  BY DEF EOC
<1>2. PICK b \in 0 .. 15 : b = x \div 256
  BY <1>1
<1>3. PICK c \in 0 .. 15 : c = y % 16
  BY <1>1
<1>4. PICK d \in 0 .. 255 : d = y \div 16
  BY <1>1
<1>5. y = 16 * d + c
  BY <1>1, <1>3, <1>4
<1>6. (b + 16 * c + 256 * d) \div 16 = 16 * d + c
  OBVIOUS
<1> QED BY <1>2, <1>3, <1>4, <1>5, <1>6

\* The entry the code finds for a cluster in a table that holds the FAT.
LEMMA FentryIsLink ==
    ASSUME NEW ch \in Seq(Clusters), NEW n \in Nat, fs.fat_table \in Tables(n),
           \A i \in 0 .. n - 1 : fs.fat_table.bytes[i] = FatByte(ch, i),
           NEW c \in Nat, (c * 3) \div 2 + 1 < n
    PROVE  _fat12_get_fentry(c) = LinkOf(ch, c)
<1> DEFINE at(i) == IF i \in DOMAIN fs.fat_table.bytes THEN fs.fat_table.bytes[i]
                    ELSE fs.fat_table.beyond
           k == (c * 3) \div 2
<1>1. \A i \in 0 .. n - 1 : at(i) = FatByte(ch, i)
  BY DEF Tables
<1>2. _fat12_get_fentry(c) = IF c % 2 = 1 THEN (at(k) + 256 * at(k + 1)) \div 16
                             ELSE (at(k) + 256 * at(k + 1)) % 4096
  BY DEF _fat12_get_fentry
<1> HIDE DEF at
<1>3. PICK m \in Nat : c = 2 * m \/ c = 2 * m + 1
  <2>1. c = 2 * (c \div 2) \/ c = 2 * (c \div 2) + 1
    OBVIOUS
  <2> QED BY <2>1
<1> DEFINE x == LinkOf(ch, 2 * m)
           y == LinkOf(ch, 2 * m + 1)
<1>4. x \in 0 .. EOC /\ y \in 0 .. EOC
  BY LinkRange, Zenon
<1>5. /\ FatByte(ch, 3 * m) = x % 256
      /\ FatByte(ch, 3 * m + 1) = x \div 256 + 16 * (y % 16)
      /\ FatByte(ch, 3 * m + 2) = y \div 16
  <2>1. (3 * m) \div 3 = m /\ (3 * m + 1) \div 3 = m /\ (3 * m + 2) \div 3 = m
    OBVIOUS
  <2>2. (3 * m) % 3 = 0 /\ (3 * m + 1) % 3 = 1 /\ (3 * m + 2) % 3 = 2
    OBVIOUS
  <2>3. FatByte(ch, 3 * m) = x % 256
    <3>1. PICK i \in Nat : i = 3 * m
      OBVIOUS
    <3>2. i \div 3 = m /\ i % 3 = 0
      BY <2>1, <2>2, <3>1
    <3>3. FatByte(ch, i) = x % 256
      BY <3>2, SMTT(30) DEF FatByte
    <3> QED BY <3>1, <3>3
  <2>4. FatByte(ch, 3 * m + 1) = x \div 256 + 16 * (y % 16)
    BY <2>1, <2>2 DEF FatByte
  <2>5. FatByte(ch, 3 * m + 2) = y \div 16
    BY <2>1, <2>2 DEF FatByte
  <2> QED BY <2>3, <2>4, <2>5
<1> HIDE DEF x, y
<1>6. CASE c = 2 * m
  <2>1. k = 3 * m /\ k \in 0 .. n - 1 /\ k + 1 \in 0 .. n - 1
    BY <1>6
  <2>2. at(k) = x % 256 /\ at(k + 1) = x \div 256 + 16 * (y % 16)
    BY <1>1, <1>5, <2>1
  <2>3. _fat12_get_fentry(c) = ((x % 256) + 256 * (x \div 256 + 16 * (y % 16))) % 4096
    BY <1>2, <1>6, <2>2
  <2> QED BY <1>4, <1>6, <2>3, EvenEntry DEF x
<1>7. CASE c = 2 * m + 1
  <2>1. k = 3 * m + 1 /\ k \in 0 .. n - 1 /\ k + 1 \in 0 .. n - 1
    BY <1>7
  <2>2. at(k) = x \div 256 + 16 * (y % 16) /\ at(k + 1) = y \div 16
    BY <1>1, <1>5, <2>1
  <2>3. _fat12_get_fentry(c) = ((x \div 256 + 16 * (y % 16)) + 256 * (y \div 16)) \div 16
    BY <1>2, <1>7, <2>2
  <2>4. _fat12_get_fentry(c) = y
    BY <1>4, <2>3, OddEntry
  <2> QED BY <1>7, <2>4 DEF y
<1> QED BY <1>3, <1>6, <1>7

\* So links are followed as they are on the disk.
LEMMA KnowsLinks ==
    ASSUME Typed, Geometry, FatLoaded, pc \in Settled, ~harmed, Supported, NEW c \in Clusters
    PROVE  _fat12_get_fentry(c) = LinkOf(disk.chain, c)
<1> DEFINE n == disk.bpb.sectors_per_fat * BlockSize
<1>1. pc \in WithHandle /\ pc \in WithTable /\ pc # "load"
  BY DEF Settled, WithTable
<1>2. fs.bpb = disk.bpb
  BY <1>1 DEF Geometry
<1>3. fs.fat_table \in Tables(n)
  BY <1>1, <1>2 DEF Typed, HandleTyped, Handles
<1>4. \A i \in 0 .. n - 1 : fs.fat_table.bytes[i] = FatByte(disk.chain, i)
  BY <1>1 DEF FatLoaded
<1>5. n \in Nat
  BY Sizes DEF Typed, InputsTyped, Formatted, BootSectors
<1>6. disk.chain \in Seq(Clusters) /\ (c * 3) \div 2 + 1 < n
  BY DEF Typed, InputsTyped, Formatted
<1>7. c \in Nat
  BY Fat12Assumption
<1> HIDE DEF n
<1> QED BY <1>3, <1>4, <1>5, <1>6, <1>7, FentryIsLink

(***************************************************************************)
(* After a mount whose reads succeeded, every area starts where the format *)
(* puts it and the link of every cluster is the disk's: fat12_mount's      *)
(* geometry and FAT loop together with the 12-bit unpacking.               *)
(***************************************************************************)
THEOREM VolumeMountKnowsTheDisk == Spec => []MountKnowsTheDisk
<1>1. Typed /\ Geometry /\ FatLoaded => MountKnowsTheDisk
  <2> SUFFICES ASSUME Typed, Geometry, FatLoaded, pc = "mounted", ~harmed, Supported
               PROVE  /\ \A area \in DOMAIN Layout(disk.bpb) : fs[area] = Layout(disk.bpb)[area]
                      /\ \A c \in Clusters : _fat12_get_fentry(c) = LinkOf(disk.chain, c)
    BY DEF MountKnowsTheDisk
  <2>1. pc \in Settled /\ pc \in WithHandle
    BY DEF Settled, WithTable, WithHandle
  <2>2. DOMAIN Layout(disk.bpb)
            = {"fat_start", "root_dir_start", "root_dir_sectors", "data_area_start"}
    BY DEF Layout
  <2> QED BY <2>1, <2>2, SupportedLayout, KnowsLinks DEF Geometry, Typed, InputsTyped
<1> QED BY <1>1, VolumeTyped, VolumeKnows, PTL

-----------------------------------------------------------------------------
(***************************************************************************)
(* Reads.  The buffer is empty until a file is open; after the k-th turn   *)
(* of the loop it holds no more than the rest of the first cluster and     *)
(* k - 1 others, and never more than the request, cut at the end of file.  *)
(***************************************************************************)
Opened ==
    /\ found = NULL => buf = << >>
    /\ pc = "scan" => found = NULL /\ result # NULL
    /\ result = NULL => found = NULL

\* The clusters that hold n bytes.
ClustersFor(n, bytes) == n \div bytes + IF n % bytes = 0 THEN 0 ELSE 1

\* What turn k of kk copies of a cluster of b bytes, for a request from o
\* to e, and the most there can be before it.
CopyFrom(k, o, b) == IF k = 0 THEN o % b ELSE 0
CopyTo(k, kk, e, b) == IF k = kk - 1 /\ e % b # 0 THEN e % b ELSE b
CopiedAfter(k, o, b) == IF k = 0 THEN 0 ELSE k * b - (o % b)

CopiedSoFar ==
    /\ clusters_to_read <= ClustersFor((offs % BytesPerCluster) + size, BytesPerCluster)
    /\ Len(buf) <= CopiedAfter(cluster_count, offs, BytesPerCluster)

InFile ==
    Fits /\ found # NULL /\ (buf # << >> \/ pc = "loop") =>
        /\ offs + size <= file_size /\ Len(buf) <= size
        /\ pc = "loop" => CopiedSoFar

\* Every step but those of vfs_open, fat12_open and fat12_read.
KeepsCopied ==
    /\ UNCHANGED <<offs, size, buf, found>>
    /\ result' = result
    /\ pc' # "loop" /\ (pc' = "scan" => pc = "scan")

LEMMA KeepsInFile == InFile /\ Opened /\ KeepsCopied => InFile' /\ Opened'
BY DEF InFile, Opened, KeepsCopied, Fits, file_size

\* Counting the copied bytes, a sum modulo the size of a cluster.
LEMMA SameRemainder ==
    ASSUME NEW b \in Nat \ {0}, NEW o \in Nat, NEW s \in Nat
    PROVE  (o + s) % b = ((o % b) + s) % b
<1>1. o \div b \in Nat /\ o % b \in 0 .. b - 1 /\ o = b * (o \div b) + (o % b)
  BY DivMod
<1>2. PICK d \in Nat, e \in 0 .. b - 1 : d = o \div b /\ e = o % b
  BY <1>1
<1>3. e + s \in Nat
  BY <1>2
<1>4. PICK q \in Nat, r \in 0 .. b - 1 : q = (e + s) \div b /\ r = (e + s) % b /\ e + s = b * q + r
  BY <1>3, DivMod
<1>5. o + s = b * (d + q) + r
  <2>1. b * (d + q) = b * d + b * q /\ b * d \in Nat /\ b * q \in Nat
    OBVIOUS
  <2>2. o = b * d + e
    BY <1>1, <1>2
  <2> QED BY <1>4, <2>1, <2>2
<1>6. (b * (d + q) + r) % b = r
  BY DivModIs
<1> QED BY <1>2, <1>4, <1>5, <1>6

LEMMA CopyBound ==
    ASSUME NEW b \in Nat \ {0}, NEW o \in Nat, NEW s \in Nat,
           NEW k \in Nat, NEW kk \in Nat, k < kk, kk <= ClustersFor((o % b) + s, b),
           NEW len \in Nat, len <= CopiedAfter(k, o, b)
    PROVE  /\ len + (CopyTo(k, kk, o + s, b) - CopyFrom(k, o, b)) <= CopiedAfter(k + 1, o, b)
           /\ len + (CopyTo(k, kk, o + s, b) - CopyFrom(k, o, b)) <= s
<1> DEFINE start == CopyFrom(k, o, b)
           end == CopyTo(k, kk, o + s, b)
<1>1. PICK e \in 0 .. b - 1 : e = o % b
  BY DivMod
<1>2. e + s \in Nat
  OBVIOUS
<1>3. PICK q \in Nat, r \in 0 .. b - 1 : q = (e + s) \div b /\ r = (e + s) % b /\ e + s = b * q + r
  <2>1. PICK n \in Nat : n = e + s
    BY <1>2
  <2>2. n \div b \in Nat /\ n % b \in 0 .. b - 1 /\ n = b * (n \div b) + (n % b)
    BY DivMod, Zenon
  <2> QED BY <2>1, <2>2, Zenon
<1>4. (o + s) % b = r
  BY <1>1, <1>3, SameRemainder
<1>5. k * b \in Nat /\ q * b \in Nat /\ b * q = q * b /\ (k + 1) * b = k * b + b
  OBVIOUS
<1>6. start \in Nat /\ len - start <= k * b - e
  BY <1>1, <1>5 DEF CopyFrom, CopiedAfter
<1>7. end \in Nat /\ end <= b
  BY <1>3, <1>4 DEF CopyTo
<1> HIDE DEF start
<1>8. len + (end - start) <= k * b + b - e
  BY <1>5, <1>6, <1>7
<1>9. kk <= IF r = 0 THEN q ELSE q + 1
  BY <1>1, <1>3 DEF ClustersFor
<1>10. k * b + end <= e + s
  <2>1. CASE k < q
    <3>1. (k + 1) * b <= q * b
      BY <2>1
    <3> QED BY <1>3, <1>5, <1>7, <3>1
  <2>2. CASE k >= q
    <3>1. r # 0 /\ k = q /\ kk = q + 1
      BY <1>3, <1>9, <2>2
    <3>2. end = r
      BY <1>4, <3>1 DEF CopyTo
    <3> QED BY <1>3, <1>5, <3>1, <3>2
  <2> QED BY <2>1, <2>2
<1> HIDE DEF end
<1>11. CopiedAfter(k + 1, o, b) = k * b + b - e
  BY <1>1, <1>5 DEF CopiedAfter
<1>12. len + (end - start) <= s
  BY <1>1, <1>5, <1>6, <1>7, <1>10
<1> QED BY <1>8, <1>11, <1>12 DEF start, end

LEMMA ReadStartsInFile ==
    ASSUME Typed, NEW o \in 0 .. Word - 1, NEW n \in 0 .. Word - 1, NEW alloc,
           fat12_read(o, n, alloc)
    PROVE  InFile'
<1> DEFINE B == BytesPerCluster
           W == Wanted(o, n)
           K == ClustersFor(W, B)
<1>1. /\ pc = "mounted" /\ pc' = "loop" /\ found # NULL /\ o < file_size /\ B # 0
      /\ offs' = o /\ size' = CutSize(o, n) /\ cluster_count' = 0
      /\ clusters_to_read' = K % Short
      /\ buf' = << >> /\ fs' = fs /\ found' = found
  BY Zenon DEF fat12_read, ClustersFor
<1>2. B \in Nat \ {0}
  <2>1. fs.bpb.sectors_per_cluster \in Nat /\ fs.bpb.bytes_per_sector = BlockSize
    BY <1>1 DEF Typed, HandleTyped, WithHandle, WithTable, Handles, BootSectors
  <2> QED BY <1>1, <2>1, Sizes DEF BytesPerCluster
<1>3. file_size \in Nat
  BY <1>1 DEF Typed, FileTyped, IsEntry, file_size
<1>4. /\ BytesPerCluster' = B /\ file_size' = file_size
  BY <1>1 DEF BytesPerCluster, file_size
<1>5. o \in Nat /\ n \in Nat /\ Word \in Nat \ {0}
  BY Sizes
<1>6. CutSize(o, n) \in Nat
  BY <1>1, <1>3, <1>5 DEF CutSize
<1> HIDE DEF B
<1>7. ASSUME o + CutSize(o, n) < Word
      PROVE  /\ o + CutSize(o, n) <= file_size
             /\ clusters_to_read' <= ClustersFor((o % B) + CutSize(o, n), B)
  <2>1. o + CutSize(o, n) <= file_size
    <3>1. CASE (o + n) % Word > file_size
      BY <1>3, <1>5, <3>1 DEF CutSize
    <3>2. CASE ~((o + n) % Word > file_size)
      <4>1. CutSize(o, n) = n
        BY <3>2 DEF CutSize
      <4>2. o + n \in 0 .. Word - 1
        BY <1>5, <1>7, <4>1
      <4>3. (o + n) % Word = o + n
        BY <1>5, <4>2
      <4> QED BY <1>3, <1>5, <3>2, <4>1, <4>3
    <3> QED BY <3>1, <3>2
  <2>2. o % B \in Nat /\ o % B <= o
    <3>1. o \div B \in Nat /\ o % B \in 0 .. B - 1 /\ o = B * (o \div B) + (o % B)
      BY <1>2, <1>5, DivMod
    <3>2. B * (o \div B) \in Nat
      BY <1>2, <3>1
    <3> QED BY <1>2, <3>1, <3>2
  <2>3. (o % B) + CutSize(o, n) \in 0 .. Word - 1
    BY <1>5, <1>6, <1>7, <2>2
  <2>4. W = (o % B) + CutSize(o, n)
    <3>1. \A x \in 0 .. Word - 1 : x % Word = x
      BY <1>5
    <3> QED BY <2>3, <3>1 DEF Wanted, B
  <2>5. W \in Nat
    BY <1>5, <2>3, <2>4
  <2> HIDE DEF W
  <2>6. W \div B \in Nat
    BY <1>2, <2>5
  <2>7. K \in Nat
    BY <2>6 DEF ClustersFor
  <2> HIDE DEF K
  <2>8. K % Short <= K
    BY <2>7 DEF Short
  <2> QED BY <1>1, <2>1, <2>4, <2>8 DEF K
<1>8. offs' + size' < Word => CopiedSoFar' /\ offs' + size' <= file_size'
  BY <1>1, <1>4, <1>7 DEF CopiedSoFar, CopiedAfter
<1> QED BY <1>1, <1>6, <1>8 DEF InFile, Fits

LEMMA LoopStaysInFile ==
    ASSUME Typed, InFile, NEW driver_ok \in BOOLEAN, fat12_read_cluster(driver_ok)
    PROVE  InFile'
<1> DEFINE piece == [i \in 1 .. CopyEnd - CopyStart |-> <<read_buf', CopyStart + i - 1>>]
           b == BytesPerCluster
<1>1. /\ pc = "loop" /\ pc' \in {"loop", "return"} /\ cluster_count < clusters_to_read
      /\ CopyStart <= CopyEnd /\ buf' = buf \o piece /\ cluster_count' = cluster_count + 1
      /\ UNCHANGED <<fs, found, offs, size, clusters_to_read>>
  BY Zenon DEF fat12_read_cluster
<1>2. found # NULL /\ b \in Nat \ {0}
  <2>1. /\ fs.bpb.sectors_per_cluster \in Nat /\ fs.bpb.bytes_per_sector = BlockSize
        /\ found # NULL /\ b # 0
    BY <1>1 DEF Typed, HandleTyped, FileTyped, WithHandle, WithTable, Handles, BootSectors
  <2> QED BY <2>1, Sizes DEF BytesPerCluster
<1>3. /\ offs \in Nat /\ size \in Nat /\ cluster_count \in Nat /\ clusters_to_read \in Nat
      /\ buf \in Seq(Places) /\ Len(buf) \in Nat /\ Word \in Nat \ {0}
  <2>1. Short \in Nat
    BY DEF Short
  <2>2. /\ offs \in Nat /\ size \in Nat /\ buf \in Seq(Places)
        /\ cluster_count \in 0 .. Short - 1 /\ clusters_to_read \in 0 .. Short - 1
    BY DEF Typed, CallTyped
  <2> QED BY <2>1, <2>2, Sizes
<1>4. BytesPerCluster' = b /\ file_size' = file_size /\ Fits' = Fits
  BY <1>1 DEF BytesPerCluster, file_size, Fits
<1> HIDE DEF b
<1>5. ASSUME Fits
      PROVE  Len(buf') <= size /\ CopiedSoFar' /\ offs + size <= file_size
  <2>1. /\ offs + size <= file_size /\ Len(buf) <= size
        /\ clusters_to_read <= ClustersFor((offs % b) + size, b)
        /\ Len(buf) <= CopiedAfter(cluster_count, offs, b)
    BY <1>1, <1>2, <1>5 DEF InFile, CopiedSoFar, b
  <2>2. (offs + size) % Word = offs + size
    BY <1>3, <1>5 DEF Fits
  <2>3. /\ CopyStart = CopyFrom(cluster_count, offs, b)
        /\ CopyEnd = CopyTo(cluster_count, clusters_to_read, offs + size, b)
    BY <2>2 DEF CopyStart, CopyEnd, CopyFrom, CopyTo, b
  <2>4. CopyStart \in Nat /\ CopyEnd \in Nat
    <3>1. offs % b \in Nat /\ (offs + size) % b \in Nat
      BY <1>2, <1>3
    <3> QED BY <1>2, <2>3, <3>1 DEF CopyFrom, CopyTo
  <2>5. Len(buf') = Len(buf) + (CopyEnd - CopyStart)
    <3>1. CopyEnd - CopyStart \in Nat
      BY <1>1, <2>4
    <3> DEFINE S == Places \cup {<<read_buf', CopyStart + i - 1>> : i \in 1 .. CopyEnd - CopyStart}
    <3>2. \A i \in 1 .. CopyEnd - CopyStart : <<read_buf', CopyStart + i - 1>> \in S
      OBVIOUS
    <3>3. buf \in Seq(S)
      BY <1>3, SeqMonotonic
    <3> HIDE DEF S
    <3>4. piece \in Seq(S)
      BY <3>1, <3>2
    <3>5. Len(piece) = CopyEnd - CopyStart
      BY <3>1
    <3> HIDE DEF piece
    <3> QED BY <1>1, <3>3, <3>4, <3>5, ConcatProperties
  <2>6. /\ Len(buf) + (CopyEnd - CopyStart) <= CopiedAfter(cluster_count + 1, offs, b)
        /\ Len(buf) + (CopyEnd - CopyStart) <= size
    BY <1>1, <1>2, <1>3, <2>1, <2>3, <2>4, CopyBound, Zenon
  <2>7. CopiedSoFar'
    BY <1>1, <1>4, <2>1, <2>5, <2>6 DEF CopiedSoFar
  <2> QED BY <2>1, <2>5, <2>6, <2>7
<1> QED BY <1>1, <1>4, <1>5 DEF InFile

\* A step that empties the buffer, or leaves it empty.
LEMMA EmptiesBuffer ==
    ASSUME buf' = << >>, pc' # "loop", pc' = "scan" => found' = NULL /\ result' # NULL,
           result' = NULL => found' = NULL
    PROVE  InFile' /\ Opened'
BY DEF InFile, Opened

LEMMA InFileStep == Typed /\ InFile /\ Opened /\ [Next]_vars => InFile' /\ Opened'
<1> SUFFICES ASSUME Typed, InFile, Opened, [Next]_vars PROVE InFile' /\ Opened'
  OBVIOUS
<1>1. CASE UNCHANGED vars
  <2>1. UNCHANGED <<fs, pc, found, offs, size, cluster_count, clusters_to_read, buf, result>>
    BY <1>1 DEF vars, fat12_vars, call
  <2>2. Opened'
    BY <2>1 DEF Opened
  <2>3. InFile'
    BY <2>1 DEF InFile, Fits, CopiedSoFar, BytesPerCluster, file_size
  <2> QED BY <2>2, <2>3
<1>2. CASE Register
  <2>1. KeepsCopied
    BY <1>2 DEF Register, KeepsCopied, call
  <2> QED BY <2>1, KeepsInFile
<1>3. CASE Mount
  <2>1. PICK alloc \in Allocs :
            \/ fat12_mount(alloc)
            \/ fat12_mount_bootsector(alloc)
            \/ \E junk \in JunkBytes : fat12_mount_fat_table(alloc, junk)
            \/ fat12_mount_vfs(alloc)
            \/ fat12_mount_root(alloc)
            \/ vfs_mount_at(alloc)
            \/ fat12_mount_fails("fd0", alloc)
    BY <1>3, Zenon DEF Mount
  <2>2. pc' \in {"bootsector", "device", "load", "vroot", "mount_at", "mounted", "fault", "down"}
        /\ UNCHANGED <<found, call>>
    BY <2>1, Zenon DEF fat12_mount, fat12_mount_bootsector, fat12_mount_fat_table, fat12_mount_vfs,
                       fat12_mount_root, vfs_mount_at, fat12_mount_fails
  <2>3. result' = result
    BY <1>3, Zenon DEF Mount
  <2>4. KeepsCopied
    BY <2>2, <2>3 DEF KeepsCopied, call
  <2> QED BY <2>4, KeepsInFile
<1>4. CASE MountReads
  <2>1. \/ pc' = "fat_table" \/ pc' = "fault" \/ pc' = "load"
    BY <1>4, Zenon DEF MountReads, fat12_mount_device, fat12_mount_load
  <2>2. UNCHANGED <<found, call, result>>
    BY <1>4, Zenon DEF MountReads, fat12_mount_device, fat12_mount_load
  <2>3. KeepsCopied
    BY <2>1, <2>2 DEF KeepsCopied, call
  <2> QED BY <2>3, KeepsInFile
<1>5. CASE \E p \in Input.paths : vfs_open(p)
  <2>1. PICK p \in Input.paths : vfs_open(p)
    BY <1>5
  <2>2. CASE \E stack \in Input.stack : fat12_open(stack) /\ result' # NULL
    <3>1. buf' = << >> /\ pc' = "scan" /\ found' = NULL
      BY <2>2 DEF fat12_open
    <3> QED BY <2>2, <3>1, EmptiesBuffer
  <2>3. CASE result = NULL /\ pc' = "mounted" /\ found' = NULL /\ UNCHANGED call
    <3>1. buf' = << >>
      BY <2>3 DEF Opened, call
    <3> QED BY <2>3, <3>1, EmptiesBuffer
  <2>4. pc = "mounted" /\ result = NULL
    BY <2>1, Zenon DEF vfs_open
  <2> QED BY <2>1, <2>2, <2>3, <2>4, Zenon DEF vfs_open
<1>6. CASE Lookup
  <2>1. pc = "scan" /\ pc' \in {"scan", "mounted"} /\ UNCHANGED <<call, result>>
        /\ (pc' = "scan" => found' = found)
    BY <1>6, Zenon DEF Lookup, _fat12_lookup, _fat12_lookup_fails
  <2>2. buf = << >> /\ found = NULL /\ result # NULL
    BY <2>1 DEF Opened
  <2>3. buf' = << >> /\ result' # NULL /\ pc' # "loop"
    BY <2>1, <2>2 DEF call
  <2> QED BY <2>1, <2>2, <2>3, EmptiesBuffer
<1>7. CASE Read
  <2>1. result' = result
    BY <1>7, Zenon DEF Read
  <2>2. ASSUME NEW r \in Input.requests, NEW alloc \in Allocs, fat12_read(r[1], r[2], alloc)
        PROVE  InFile' /\ Opened'
    <3>1. r[1] \in 0 .. Word - 1 /\ r[2] \in 0 .. Word - 1
      BY VolumeAssumption DEF Typed, InputsTyped, Input
    <3>2. pc' = "loop" /\ buf' = << >> /\ found' = found
      BY <2>2, Zenon DEF fat12_read
    <3>3. Opened'
      BY <2>1, <3>2 DEF Opened
    <3> QED BY <2>2, <3>1, <3>3, ReadStartsInFile
  <2>3. ASSUME NEW r \in Input.requests, NEW alloc \in Allocs, fat12_read_nothing(r[1], r[2], alloc)
        PROVE  InFile' /\ Opened'
    <3>1. pc' = "mounted" /\ buf' = << >> /\ found' = found
      BY <2>3, Zenon DEF fat12_read_nothing
    <3> QED BY <2>1, <3>1, EmptiesBuffer DEF Opened
  <2>4. ASSUME NEW r \in Input.requests, fat12_read_faults(r[1], r[2]) PROVE InFile' /\ Opened'
    <3>1. pc' = "fault" /\ UNCHANGED <<found, call>>
      BY <2>4, Zenon DEF fat12_read_faults
    <3> QED BY <2>1, <3>1, KeepsInFile DEF KeepsCopied, call
  <2>5. CASE fat12_read_overruns
    <3>1. pc' = "fault" /\ UNCHANGED <<found, call>>
      BY <2>5, Zenon DEF fat12_read_overruns
    <3> QED BY <2>1, <3>1, KeepsInFile DEF KeepsCopied, call
  <2>6. CASE fat12_read_return
    <3>1. pc' = "mounted" /\ UNCHANGED <<found, offs, size, buf>>
      BY <2>6, Zenon DEF fat12_read_return
    <3> QED BY <2>1, <3>1, KeepsInFile DEF KeepsCopied
  <2> QED BY <1>7, <2>2, <2>3, <2>4, <2>5, <2>6, Zenon DEF Read
<1>8. CASE ReadLoop
  <2>1. PICK driver_ok \in DriverAnswers : fat12_read_cluster(driver_ok)
    BY <1>8, Zenon DEF ReadLoop
  <2>2. driver_ok \in BOOLEAN
    BY Zenon DEF DriverAnswers
  <2>3. InFile'
    BY <2>1, <2>2, LoopStaysInFile
  <2>4. pc = "loop" /\ pc' \in {"loop", "return"} /\ found' = found /\ result' = result
    BY <1>8, Zenon DEF ReadLoop, fat12_read_cluster
  <2>5. found # NULL
    BY <2>4 DEF Typed, FileTyped
  <2> QED BY <2>3, <2>4, <2>5 DEF Opened
<1>9. CASE Unmount
  BY <1>9, EmptiesBuffer DEF Unmount, fat12_unmount
<1> QED BY <1>1, <1>2, <1>3, <1>4, <1>5, <1>6, <1>7, <1>8, <1>9, Zenon DEF Next

(***************************************************************************)
(* fat12_read never stores more into the caller's buffer than the file has *)
(* past the offset, for every size of clusters and of requests whose end   *)
(* is a 32-bit number, however many clusters its 16-bit counters hold.     *)
(***************************************************************************)
THEOREM VolumeNeverPastEndOfFile == Spec => []NeverPastEndOfFile
<1>1. Init => InFile /\ Opened
  BY DEF Init, Fat12Init, NoCall, InFile, Opened
<1>2. Typed /\ InFile /\ Opened => NeverPastEndOfFile
  <2> SUFFICES ASSUME Typed, InFile, Opened, buf # << >>, Fits
               PROVE  offs + Len(buf) <= file_size
    BY DEF NeverPastEndOfFile
  <2>1. found # NULL
    BY DEF Opened
  <2>2. offs \in Nat /\ size \in Nat /\ Len(buf) \in Nat /\ file_size \in Nat
    BY <2>1 DEF Typed, CallTyped, FileTyped, IsEntry, file_size
  <2>3. offs + size <= file_size /\ Len(buf) <= size
    BY <2>1 DEF InFile
  <2> QED BY <2>2, <2>3
<1> QED BY <1>1, <1>2, InFileStep, VolumeTyped, PTL DEF Spec

-----------------------------------------------------------------------------
\* A file has fewer clusters than a 16-bit counter can count.
LEMMA InjectionBound ==
    ASSUME NEW n \in Nat, NEW lo \in Nat, NEW hi \in Nat, lo <= hi,
           NEW f \in [1 .. n -> lo .. hi], IsInjective(f)
    PROVE  n <= hi - lo + 1
<1>1. lo \in Int /\ hi \in Int /\ n \in Int /\ 1 \in Int
  OBVIOUS
<1>2. IsFiniteSet(lo .. hi) /\ Cardinality(lo .. hi) = IF lo > hi THEN 0 ELSE hi - lo + 1
  BY <1>1, FS_Interval, Zenon
<1>3. Cardinality(1 .. n) = IF 1 > n THEN 0 ELSE n - 1 + 1
  BY <1>1, FS_Interval, Zenon
<1>4. f \in Injection(1 .. n, lo .. hi)
  BY Zenon DEF Injection
<1>5. Cardinality(1 .. n) <= Cardinality(lo .. hi)
  BY <1>2, <1>4, FS_Injection, Zenon
<1> QED BY <1>2, <1>3, <1>5

LEMMA ChainIsShort ==
    ASSUME NEW ch \in Seq(Clusters), IsInjective(ch)
    PROVE  Len(ch) < Short
<1>1. PICK lo \in Nat, hi \in Nat : lo = 2 /\ hi = 4079 /\ lo <= hi
  OBVIOUS
<1>2. Clusters \subseteq lo .. hi
  BY <1>1, Fat12Assumption
<1>3. Len(ch) \in Nat /\ ch \in [1 .. Len(ch) -> Clusters]
  OBVIOUS
<1>4. ch \in [1 .. Len(ch) -> lo .. hi]
  BY <1>2, <1>3, Zenon
<1>5. Len(ch) <= hi - lo + 1
  <2>1. lo <= hi
    BY <1>1
  <2> QED BY <1>3, <1>4, <2>1, InjectionBound, Zenon
<1> QED BY <1>1, <1>3, <1>5 DEF Short

\* In a file in consecutive clusters the j-th is j behind the first.
LEMMA Consecutive ==
    ASSUME NEW ch \in Seq(Nat), \A i \in 1 .. Len(ch) - 1 : ch[i + 1] = ch[i] + 1,
           NEW j \in 0 .. Len(ch) - 1
    PROVE  ch[j + 1] = ch[1] + j
<1> DEFINE Bad == {k \in 0 .. Len(ch) - 1 : ch[k + 1] # ch[1] + k}
<1> SUFFICES Bad = {}
  OBVIOUS
<1> SUFFICES ASSUME Bad # {} PROVE FALSE
  OBVIOUS
<1>1. Bad \in SUBSET Nat
  OBVIOUS
<1>2. PICK k \in Bad : \A y \in Bad : k <= y
  BY <1>1, MinNat
<1>3. k \in 0 .. Len(ch) - 1 /\ ch[k + 1] # ch[1] + k
  BY <1>2
<1>4. ch[1] \in Nat /\ k # 0
  <2>1. ch[1] \in Nat
    BY <1>3, SMTT(30)
  <2> QED BY <1>3, <2>1
<1>5. k - 1 \in 0 .. Len(ch) - 1 /\ ~(k <= k - 1)
  BY <1>3, <1>4
<1>6. ch[(k - 1) + 1] = ch[1] + (k - 1)
  BY <1>2, <1>5, Zenon
<1>7. k \in 1 .. Len(ch) - 1 /\ (k - 1) + 1 = k
  BY <1>3, <1>4
<1>8. ch[k + 1] = ch[k] + 1 /\ ch[k] = ch[1] + (k - 1)
  BY <1>6, <1>7
<1> HIDE DEF Bad
<1> QED BY <1>3, <1>4, <1>8

\* The link of a cluster of the file leads to the next one.
LEMMA LinkIsNext ==
    ASSUME NEW ch \in Seq(Clusters), IsInjective(ch), NEW i \in 1 .. Len(ch) - 1
    PROVE  LinkOf(ch, ch[i]) = ch[i + 1]
<1>1. i \in DOMAIN ch /\ DOMAIN ch = 1 .. Len(ch) /\ i # Len(ch)
  OBVIOUS
<1>2. ch[i] \in Range(ch)
  BY <1>1 DEF Range
<1>3. (CHOOSE k \in DOMAIN ch : ch[k] = ch[i]) = i
  BY <1>1 DEF IsInjective
<1> QED BY <1>1, <1>2, <1>3 DEF LinkOf

\* The clusters of a request that ends within n of them do.
LEMMA RequestFits ==
    ASSUME NEW b \in Nat \ {0}, NEW o \in Nat, NEW s \in Nat, NEW n \in Nat, o + s <= n * b
    PROVE  /\ ClustersFor((o % b) + s, b) \in Nat
           /\ o \div b + ClustersFor((o % b) + s, b) <= n
           /\ ClustersFor((o % b) + s, b) = 0 => s = 0
<1>1. PICK f \in Nat, e \in 0 .. b - 1 : f = o \div b /\ e = o % b /\ o = b * f + e
  BY DivMod
<1>2. e + s \in Nat
  OBVIOUS
<1>3. PICK q \in Nat, r \in 0 .. b - 1 : q = (e + s) \div b /\ r = (e + s) % b /\ e + s = b * q + r
  BY <1>2, DivMod
<1>4. ClustersFor((o % b) + s, b) = IF r = 0 THEN q ELSE q + 1
  BY <1>1, <1>3 DEF ClustersFor
<1>5. b * f + b * q + r <= n * b
  <2>1. b * f \in Nat /\ b * q \in Nat /\ n * b \in Nat
    OBVIOUS
  <2> QED BY <1>1, <1>3, <2>1
<1>6. b * (f + q) = b * f + b * q
  OBVIOUS
<1>7. PICK m \in Nat : m = f + q
  OBVIOUS
<1>8. b * m + r <= b * n
  BY <1>5, <1>6, <1>7
<1>9. m <= n
  <2>1. CASE m > n
    <3>1. b * m >= b * (n + 1) /\ b * (n + 1) = b * n + b
      BY <2>1
    <3> QED BY <1>8, <3>1
  <2> QED BY <2>1
<1>10. r # 0 => m < n
  <2>1. CASE m = n
    <3>1. b * m = b * n /\ b * n \in Nat
      BY <2>1
    <3> QED BY <1>8, <3>1
  <2> QED BY <1>9, <2>1
<1>11. q = 0 /\ r = 0 => s = 0
  BY <1>3
<1> QED BY <1>1, <1>4, <1>7, <1>9, <1>10, <1>11

\* One turn copies exactly what it should: the rest of the first cluster,
\* the whole of another one, and of the last up to the end of the request.
BeforeTurn(k, kk, len, o, s, b) ==
    k < kk /\ kk = ClustersFor((o % b) + s, b) /\ len = CopiedAfter(k, o, b)

TurnCopies(k, kk, len, o, s, b) ==
    LET copied == CopyTo(k, kk, o + s, b) - CopyFrom(k, o, b)
    IN  /\ k + 1 < kk => len + copied = CopiedAfter(k + 1, o, b)
        /\ k + 1 = kk => len + copied = s
        /\ len - CopyFrom(k, o, b) = k * b - (o % b)

LEMMA CopyExact ==
    ASSUME NEW b \in Nat \ {0}, NEW o \in Nat, NEW s \in Nat,
           NEW k \in Nat, NEW kk \in Nat, NEW len \in Nat, BeforeTurn(k, kk, len, o, s, b)
    PROVE  TurnCopies(k, kk, len, o, s, b)
<1> DEFINE start == CopyFrom(k, o, b)
           end == CopyTo(k, kk, o + s, b)
<1>0. k < kk /\ kk = ClustersFor((o % b) + s, b) /\ len = CopiedAfter(k, o, b)
  BY DEF BeforeTurn
<1>1. PICK e \in 0 .. b - 1 : e = o % b
  BY DivMod
<1>2. e + s \in Nat
  OBVIOUS
<1>3. PICK q \in Nat, r \in 0 .. b - 1 : q = (e + s) \div b /\ r = (e + s) % b /\ e + s = b * q + r
  <2>1. PICK n \in Nat : n = e + s
    BY <1>2
  <2>2. n \div b \in Nat /\ n % b \in 0 .. b - 1 /\ n = b * (n \div b) + (n % b)
    BY DivMod, Zenon
  <2> QED BY <2>1, <2>2, Zenon
<1>4. (o + s) % b = r
  BY <1>1, <1>3, SameRemainder
<1>5. k * b \in Nat /\ q * b \in Nat /\ b * q = q * b /\ (k + 1) * b = k * b + b
  OBVIOUS
<1>6. start \in Nat /\ len - start = k * b - e
  BY <1>0, <1>1, <1>5 DEF CopyFrom, CopiedAfter
<1>7. end = IF k = kk - 1 /\ r # 0 THEN r ELSE b
  BY <1>4 DEF CopyTo
<1> HIDE DEF start, end
<1>8. kk = IF r = 0 THEN q ELSE q + 1
  BY <1>0, <1>1, <1>3 DEF ClustersFor
<1>9. CopiedAfter(k + 1, o, b) = k * b + b - e
  BY <1>1, <1>5 DEF CopiedAfter
<1>10. k + 1 < kk => len + (end - start) = k * b + b - e
  BY <1>5, <1>6, <1>7
<1>11. k + 1 = kk => len + (end - start) = s
  <2>1. CASE r = 0 /\ k + 1 = kk
    <3>1. q = k + 1 /\ end = b
      BY <1>7, <1>8, <2>1
    <3> QED BY <1>3, <1>5, <1>6, <2>1, <3>1
  <2>2. CASE r # 0 /\ k + 1 = kk
    <3>1. q = k /\ end = r
      BY <1>7, <1>8, <2>2
    <3> QED BY <1>3, <1>5, <1>6, <3>1
  <2> QED BY <2>1, <2>2
<1> QED BY <1>1, <1>6, <1>9, <1>10, <1>11 DEF start, end, TurnCopies

-----------------------------------------------------------------------------
(***************************************************************************)
(* What a read delivers.  Before turn k of the loop the code is at cluster *)
(* k of the request, counted along the chain, and the buffer holds the     *)
(* bytes of the file in front of it.                                       *)
(***************************************************************************)
Readable ==
    /\ ~harmed /\ Supported /\ Fits /\ TheFile
    /\ disk.bpb.sectors_per_cluster = 1 /\ (Contiguous \/ offs < BlockSize)

RightBytes == \A i \in 1 .. Len(buf) : buf[i] = Place(offs + i - 1)

AtTurn ==
    /\ clusters_to_read = ClustersFor((offs % BlockSize) + size, BlockSize)
    /\ offs \div BlockSize + clusters_to_read <= Len(disk.chain)
    /\ cluster_count < clusters_to_read =>
        /\ curr_cluster = disk.chain[offs \div BlockSize + cluster_count + 1]
        /\ Len(buf) = CopiedAfter(cluster_count, offs, BlockSize)
    /\ cluster_count >= clusters_to_read => Len(buf) = size
    /\ RightBytes

ReadExact ==
    /\ pc \notin {"mounted", "fault"} => ret = 0
    /\ pc = "return" => ~Readable
    /\ pc = "loop" /\ Readable => AtTurn
    /\ pc = "mounted" /\ ret > 0 /\ Readable => ret = size /\ Len(buf) = size /\ RightBytes

\* A place of the file when a cluster is a sector.
LEMMA PlaceIs ==
    ASSUME disk.bpb.sectors_per_cluster = 1,
           NEW q \in Nat, NEW x \in 0 .. BlockSize - 1, NEW j \in Nat, j = BlockSize * q + x,
           Layout(disk.bpb).data_area_start \in Nat, disk.chain[q + 1] \in Nat
    PROVE  Place(j) = <<Layout(disk.bpb).data_area_start + (disk.chain[q + 1] - 2), x>>
<1>0. PICK d \in Nat, c \in Nat : d = Layout(disk.bpb).data_area_start /\ c = disk.chain[q + 1]
  OBVIOUS
<1>1. BlockSize * disk.bpb.sectors_per_cluster = BlockSize
  BY Sizes
<1>2. j % BlockSize = x /\ j \div BlockSize = q
  <2>1. BlockSize \in Nat \ {0} /\ q \in Int
    BY Sizes
  <2>2. (BlockSize * q + x) \div BlockSize = q /\ (BlockSize * q + x) % BlockSize = x
    BY <2>1, DivModIs, Zenon
  <2> QED BY <2>2
<1>3. x \div BlockSize = 0 /\ x % BlockSize = x
  BY Sizes
<1>4. Place(j) = <<d + (c - 2) * 1 + 0, x>>
  BY <1>0, <1>1, <1>2, <1>3 DEF Place
<1>5. d + (c - 2) * 1 + 0 = d + (c - 2)
  OBVIOUS
<1> QED BY <1>0, <1>4, <1>5

LEMMA ClusterNumber ==
    ASSUME NEW c \in Clusters
    PROVE  c \in Nat /\ c >= 2 /\ c % Short = c /\ c < FAT12_EOC_MIN
<1>1. c \in 2 .. 4079
  BY Fat12Assumption
<1>2. Short \in Nat /\ 4079 < Short
  BY DEF Short
<1>3. c % Short = c
  BY <1>1, <1>2
<1> QED BY <1>1, <1>3 DEF FAT12_EOC_MIN

LEMMA ChainOf ==
    ASSUME Typed
    PROVE  /\ disk.chain \in Seq(Clusters) /\ disk.chain \in Seq(Nat) /\ IsInjective(disk.chain)
           /\ Len(disk.chain) \in Nat /\ Len(disk.chain) < Short
           /\ \A i \in 1 .. Len(disk.chain) : disk.chain[i] \in Clusters
<1>1. disk.chain \in Seq(Clusters) /\ IsInjective(disk.chain)
  BY DEF Typed, InputsTyped, Formatted
<1>2. Len(disk.chain) < Short
  BY <1>1, ChainIsShort
<1>3. Len(disk.chain) \in Nat /\ \A i \in 1 .. Len(disk.chain) : disk.chain[i] \in Clusters
  BY <1>1
<1>4. Clusters \subseteq Nat
  BY Fat12Assumption
<1>5. disk.chain \in Seq(Nat)
  BY <1>1, <1>4, SeqMonotonic
<1> QED BY <1>1, <1>2, <1>3, <1>5

LEMMA ReadStartsExact ==
    ASSUME Typed, Geometry, Typed', InFile', NEW o \in 0 .. Word - 1, NEW n \in 0 .. Word - 1,
           NEW alloc, fat12_read(o, n, alloc)
    PROVE  ReadExact'
<1> DEFINE B == BytesPerCluster
           W == Wanted(o, n)
           s == CutSize(o, n)
           L == Len(disk.chain)
<1>1. /\ pc = "mounted" /\ pc' = "loop" /\ found # NULL
      /\ offs' = o /\ size' = s /\ cluster_count' = 0 /\ curr_cluster' = StartCluster(o)
      /\ clusters_to_read' = ClustersFor(W, B) % Short
      /\ buf' = << >> /\ ret' = 0
      /\ UNCHANGED <<disk, fs, found, harmed>>
  BY Zenon DEF fat12_read, ClustersFor
<1> SUFFICES ASSUME Readable' PROVE AtTurn'
  BY <1>1 DEF ReadExact
<1>2. /\ ~harmed /\ disk.bpb.sectors_per_cluster = 1 /\ o + s < Word
      /\ disk.chain # << >> /\ found.dir_entry.cluster = disk.chain[1]
      /\ file_size <= L * (BlockSize * disk.bpb.sectors_per_cluster)
      /\ (Contiguous \/ o < BlockSize)
  BY <1>1 DEF Readable, Fits, TheFile, Contiguous, file_size
<1>3. B = BlockSize /\ BlockSize \in Nat \ {0} /\ Word \in Nat \ {0}
  <2>1. fs.bpb = disk.bpb
    BY <1>1, <1>2 DEF Geometry, WithHandle
  <2>2. fs.bpb.bytes_per_sector = BlockSize
    BY <1>1 DEF Typed, HandleTyped, WithHandle
  <2> QED BY <1>2, <2>1, <2>2, Sizes DEF BytesPerCluster
<1>4. o \in Nat /\ s \in Nat /\ o + s <= file_size
  <2>1. o \in Nat
    BY <1>3
  <2>2. size' \in Nat
    BY DEF Typed, CallTyped
  <2>3. offs' + size' <= file_size' /\ file_size' = file_size
    BY <1>1 DEF InFile, Readable, file_size
  <2> QED BY <1>1, <2>1, <2>2, <2>3
<1>5. L \in Nat /\ L < Short /\ Short \in Nat \ {0}
  BY ChainOf DEF Short
<1>6. file_size \in Nat
  BY <1>1 DEF Typed, FileTyped, IsEntry, file_size
<1>7. o + s <= L * BlockSize
  <2>1. L * (BlockSize * 1) = L * BlockSize /\ L * BlockSize \in Nat
    <3> HIDE DEF L
    <3>1. BlockSize * 1 = BlockSize
      BY <1>3
    <3>2. L * BlockSize \in Nat
      BY <1>3, <1>5
    <3> QED BY <3>1, <3>2
  <2> QED BY <1>2, <1>4, <1>6, <2>1
<1>8. W = (o % BlockSize) + s
  <2>1. o % BlockSize \in Nat /\ o % BlockSize <= o
    <3>1. /\ o \div BlockSize \in Nat /\ o % BlockSize \in 0 .. BlockSize - 1
          /\ o = BlockSize * (o \div BlockSize) + (o % BlockSize)
      BY <1>3, <1>4, DivMod
    <3>2. BlockSize * (o \div BlockSize) \in Nat
      BY <1>3, <3>1
    <3> QED BY <1>3, <1>4, <3>1, <3>2
  <2>2. (o % BlockSize) + s \in 0 .. Word - 1
    BY <1>2, <1>3, <1>4, <2>1
  <2>3. \A x \in 0 .. Word - 1 : x % Word = x
    BY <1>3
  <2> QED BY <1>3, <2>2, <2>3 DEF Wanted
<1> HIDE DEF s, W, B
<1> DEFINE K == ClustersFor((o % BlockSize) + s, BlockSize)
<1>9. K \in Nat /\ o \div BlockSize + K <= L /\ (K = 0 => s = 0)
  BY <1>3, <1>4, <1>5, <1>7, RequestFits
<1>10. o \div BlockSize \in Nat
  BY <1>3, <1>4
<1>11. ClustersFor(W, B) = K
  BY <1>3, <1>8
<1> HIDE DEF K
<1>12. clusters_to_read' = K
  BY <1>1, <1>5, <1>9, <1>10, <1>11
<1>13. K > 0 => StartCluster(o) = disk.chain[o \div BlockSize + 1]
  <2> SUFFICES ASSUME K > 0 PROVE StartCluster(o) = disk.chain[o \div BlockSize + 1]
    OBVIOUS
  <2>1. PICK f \in Nat : f = o \div BlockSize
    BY <1>10
  <2>2. f \in 0 .. L - 1 /\ L > 0
    BY <1>5, <1>9, <2>1
  <2>3. PICK c \in Clusters : c = disk.chain[f + 1]
    <3>1. f + 1 \in 1 .. L
      BY <1>5, <2>2
    <3>2. disk.chain[f + 1] \in Clusters
      BY <3>1, ChainOf
    <3> QED BY <3>2, Zenon
  <2>4. disk.chain[1] + f = disk.chain[f + 1]
    <3>1. CASE Contiguous
      <4>1. disk.chain \in Seq(Nat)
        BY ChainOf
      <4>2. \A i \in 1 .. Len(disk.chain) - 1 : disk.chain[i + 1] = disk.chain[i] + 1
        BY <3>1 DEF Contiguous
      <4> QED BY <2>2, <4>1, <4>2, Consecutive
    <3>2. CASE o < BlockSize
      <4>1. f = 0
        BY <1>3, <1>4, <2>1, <3>2
      <4>2. f + 1 = 1
        BY <4>1
      <4>3. disk.chain[1] = c
        BY <2>3, <4>2
      <4> QED BY <2>3, <4>1, <4>3, ClusterNumber
    <3> QED BY <1>2, <3>1, <3>2
  <2>5. StartCluster(o) = disk.chain[f + 1] % Short
    BY <1>2, <1>3, <2>1, <2>4 DEF StartCluster, B
  <2>6. c % Short = c
    BY ClusterNumber
  <2> QED BY <2>1, <2>3, <2>5, <2>6
<1>14. Len(buf') = 0 /\ CopiedAfter(0, o, BlockSize) = 0
  BY <1>1 DEF CopiedAfter
<1>15. RightBytes'
  BY <1>14 DEF RightBytes
<1>16. o \div BlockSize + 0 + 1 = o \div BlockSize + 1
  BY <1>10
<1> QED BY <1>1, <1>9, <1>12, <1>13, <1>14, <1>15, <1>16 DEF AtTurn, K

\* The sector that is read for a cluster of the file.
LEMMA ReadsTheCluster ==
    ASSUME Typed, Geometry, pc = "loop", Readable, NEW i \in 1 .. Len(disk.chain),
           curr_cluster = disk.chain[i]
    PROVE  LET lba == _fat12_cluster_to_lba(curr_cluster)
           IN  /\ lba = Layout(disk.bpb).data_area_start + (curr_cluster - 2)
               /\ InRange(fs.block_dev, lba)
<1> DEFINE d == Layout(disk.bpb).data_area_start
<1>1. /\ ~harmed /\ Supported /\ disk.bpb.sectors_per_cluster = 1
      /\ d + (curr_cluster - 1) * disk.bpb.sectors_per_cluster <= NumBlocks
  BY DEF Readable, TheFile
<1>2. curr_cluster \in Nat /\ curr_cluster >= 2
  BY ChainOf, ClusterNumber
<1>3. pc \in WithHandle /\ pc \in WithTable
  BY DEF WithHandle, WithTable
<1>4. fs.bpb = disk.bpb /\ fs.data_area_start = d
  <2>1. fs.bpb = disk.bpb /\ fs.data_area_start = Handle(NULL, disk.bpb).data_area_start
    BY <1>1, <1>3 DEF Geometry
  <2>2. Handle(NULL, disk.bpb).data_area_start = Layout(disk.bpb).data_area_start
    BY <1>1, SupportedLayout DEF Typed, InputsTyped
  <2> QED BY <2>1, <2>2
<1>5. fs.block_dev # NULL /\ fs.block_dev.num_blocks = NumBlocks /\ fs.data_area_start \in Nat
  BY <1>3 DEF Typed, HandleTyped, Handles, Devices
<1>6. _fat12_cluster_to_lba(curr_cluster) = d + (curr_cluster - 2)
  <2>1. _fat12_cluster_to_lba(curr_cluster) = d + (curr_cluster - 2) * 1
    BY <1>1, <1>2, <1>4 DEF _fat12_cluster_to_lba
  <2> QED BY <1>2, <2>1
<1>7. d + (curr_cluster - 2) < NumBlocks
  <2>1. d \in Nat /\ NumBlocks \in Nat
    BY <1>4, <1>5, VolumeAssumption
  <2>2. (curr_cluster - 1) * 1 = curr_cluster - 1
    BY <1>2
  <2> QED BY <1>1, <1>2, <2>1, <2>2
<1> QED BY <1>5, <1>6, <1>7 DEF InRange

LEMMA LoopExact ==
    ASSUME Typed, Geometry, FatLoaded, ReadExact, NEW driver_ok \in BOOLEAN,
           fat12_read_cluster(driver_ok), Typed'
    PROVE  ReadExact'
<1> DEFINE piece == [i \in 1 .. CopyEnd - CopyStart |-> <<read_buf', CopyStart + i - 1>>]
           lba == _fat12_cluster_to_lba(curr_cluster)
           f == offs \div BlockSize
           k == cluster_count
           kk == clusters_to_read
<1>1. /\ pc = "loop" /\ k < kk /\ CopyStart <= CopyEnd
      /\ buf' = buf \o piece /\ cluster_count' = k + 1
      /\ harmed' = (harmed \/ ~driver_ok)
      /\ read_buf' = IF blkread(fs.block_dev, lba, driver_ok) THEN lba ELSE read_buf
      /\ UNCHANGED <<disk, fs, found, offs, size, clusters_to_read, ret>>
  BY Zenon DEF fat12_read_cluster
<1>2. \/ curr_cluster >= FAT12_EOC_MIN /\ pc' = "return"
      \/ /\ curr_cluster < FAT12_EOC_MIN /\ pc' = "loop"
         /\ curr_cluster' = _fat12_get_fentry(curr_cluster)
  BY <1>1, Zenon DEF fat12_read_cluster
<1>3. ret' = 0
  BY <1>1 DEF ReadExact
<1> SUFFICES ASSUME Readable' PROVE pc' = "loop" /\ AtTurn'
  BY <1>2, <1>3 DEF ReadExact
<1>4. driver_ok /\ Readable
  <2>1. ~harmed /\ driver_ok
    BY <1>1 DEF Readable
  <2> QED BY <1>1, <2>1 DEF Readable, Supported, Fits, TheFile, Contiguous, file_size
<1>5. AtTurn
  BY <1>1, <1>4 DEF ReadExact
<1>6. BytesPerCluster = BlockSize /\ BlockSize \in Nat \ {0} /\ Word \in Nat \ {0}
  <2>1. fs.bpb = disk.bpb /\ disk.bpb.sectors_per_cluster = 1
    BY <1>1, <1>4 DEF Geometry, WithHandle, Readable
  <2>2. fs.bpb.bytes_per_sector = BlockSize
    BY <1>1 DEF Typed, HandleTyped, WithHandle
  <2> QED BY <2>1, <2>2, Sizes DEF BytesPerCluster
<1>7. /\ offs \in Nat /\ size \in Nat /\ k \in Nat /\ kk \in Nat
      /\ buf \in Seq(Places) /\ Len(buf) \in Nat /\ f \in Nat
  <2>1. Short \in Nat
    BY DEF Short
  <2>2. /\ offs \in Nat /\ size \in Nat /\ buf \in Seq(Places)
        /\ cluster_count \in 0 .. Short - 1 /\ clusters_to_read \in 0 .. Short - 1
    BY DEF Typed, CallTyped
  <2>3. f \in Nat
    BY <1>6, <2>2
  <2> QED BY <2>1, <2>2, <2>3
<1>8. /\ kk = ClustersFor((offs % BlockSize) + size, BlockSize)
      /\ f + kk <= Len(disk.chain) /\ curr_cluster = disk.chain[f + k + 1]
      /\ Len(buf) = CopiedAfter(k, offs, BlockSize) /\ RightBytes
  BY <1>1, <1>5 DEF AtTurn
<1> HIDE DEF f
<1>9. f + k + 1 \in 1 .. Len(disk.chain) /\ (k + 1 < kk => f + k + 1 \in 1 .. Len(disk.chain) - 1)
  <2>1. Len(disk.chain) \in Nat /\ k < kk /\ f + kk <= Len(disk.chain)
    BY <1>1, <1>8, ChainOf
  <2>2. PICK n \in Nat : n = Len(disk.chain)
    BY <2>1
  <2>3. f \in Nat /\ k \in Nat /\ kk \in Nat
    BY <1>7
  <2> HIDE DEF k, kk
  <2>4. f + k + 1 \in 1 .. n /\ (k + 1 < kk => f + k + 1 \in 1 .. n - 1)
    BY <2>1, <2>2, <2>3
  <2> QED BY <2>2, <2>4
<1>10. curr_cluster \in Clusters
  BY <1>8, <1>9, ChainOf
<1>11. pc' = "loop" /\ curr_cluster' = LinkOf(disk.chain, curr_cluster)
  <2>1. curr_cluster \in Nat /\ curr_cluster < FAT12_EOC_MIN
    BY <1>10, ClusterNumber
  <2>2. pc' = "loop" /\ curr_cluster' = _fat12_get_fentry(curr_cluster)
    BY <1>2, <2>1 DEF FAT12_EOC_MIN
  <2>3. pc \in Settled
    BY <1>1 DEF Settled, WithTable, WithHandle
  <2>4. ~harmed /\ Supported
    BY <1>4 DEF Readable
  <2> QED BY <1>10, <2>2, <2>3, <2>4, KnowsLinks
<1>12. k + 1 < kk => curr_cluster' = disk.chain[f + (k + 1) + 1]
  <2> SUFFICES ASSUME k + 1 < kk PROVE curr_cluster' = disk.chain[f + (k + 1) + 1]
    OBVIOUS
  <2>1. PICK i \in 1 .. Len(disk.chain) - 1 : i = f + k + 1
    BY <1>9
  <2>2. LinkOf(disk.chain, disk.chain[i]) = disk.chain[i + 1]
    BY ChainOf, LinkIsNext
  <2>3. i + 1 = f + (k + 1) + 1
    BY <1>7, <2>1
  <2> QED BY <1>8, <1>11, <2>1, <2>2, <2>3
<1>13. read_buf' = Layout(disk.bpb).data_area_start + (curr_cluster - 2)
  <2>1. lba = Layout(disk.bpb).data_area_start + (curr_cluster - 2) /\ InRange(fs.block_dev, lba)
    BY <1>1, <1>4, <1>8, <1>9, ReadsTheCluster
  <2> QED BY <1>1, <1>4, <2>1 DEF blkread
<1> DEFINE start == CopyFrom(k, offs, BlockSize)
           end == CopyTo(k, kk, offs + size, BlockSize)
<1>14. CopyStart = start /\ CopyEnd = end
  <2>1. (offs + size) % Word = offs + size
    BY <1>4, <1>6, <1>7 DEF Readable, Fits
  <2> QED BY <1>6, <2>1 DEF CopyStart, CopyEnd, CopyFrom, CopyTo
<1>15. /\ k + 1 < kk => Len(buf) + (end - start) = CopiedAfter(k + 1, offs, BlockSize)
       /\ k + 1 = kk => Len(buf) + (end - start) = size
       /\ Len(buf) - start = k * BlockSize - (offs % BlockSize)
  <2>1. k < kk /\ kk = ClustersFor((offs % BlockSize) + size, BlockSize)
    BY <1>1, <1>8
  <2>2. Len(buf) = CopiedAfter(k, offs, BlockSize)
    BY <1>8
  <2>3. /\ offs \in Nat /\ size \in Nat /\ k \in Nat /\ kk \in Nat /\ Len(buf) \in Nat
        /\ BlockSize \in Nat \ {0}
    BY <1>6, <1>7
  <2> HIDE DEF k, kk
  <2>4. BeforeTurn(k, kk, Len(buf), offs, size, BlockSize)
    BY <2>1, <2>2 DEF BeforeTurn
  <2>5. TurnCopies(k, kk, Len(buf), offs, size, BlockSize)
    BY <2>3, <2>4, CopyExact, Zenon
  <2> QED BY <2>5, Zenon DEF TurnCopies
<1>16. start \in Nat /\ end \in Nat /\ end <= BlockSize /\ start <= end
  <2>1. offs % BlockSize \in 0 .. BlockSize - 1 /\ (offs + size) % BlockSize \in 0 .. BlockSize - 1
    BY <1>6, <1>7
  <2> QED BY <1>1, <1>6, <1>14, <2>1 DEF CopyFrom, CopyTo
<1> HIDE DEF start, end
<1>17. /\ Len(buf') = Len(buf) + (end - start)
       /\ \A i \in 1 .. Len(buf) : buf'[i] = buf[i]
       /\ \A i \in Len(buf) + 1 .. Len(buf) + (end - start) :
            buf'[i] = <<read_buf', start + (i - Len(buf)) - 1>>
  <2> DEFINE S == Places \cup {<<read_buf', start + i - 1>> : i \in 1 .. end - start}
             p == [i \in 1 .. end - start |-> <<read_buf', start + i - 1>>]
  <2>1. end - start \in Nat
    BY <1>16
  <2>2. \A i \in 1 .. end - start : <<read_buf', start + i - 1>> \in S
    OBVIOUS
  <2>3. buf \in Seq(S)
    BY <1>7, SeqMonotonic
  <2> HIDE DEF S
  <2>4. p \in Seq(S) /\ Len(p) = end - start
    BY <2>1, <2>2
  <2>5. buf' = buf \o p
    BY <1>1, <1>14, Zenon
  <2>6. \A i \in 1 .. end - start : p[i] = <<read_buf', start + i - 1>>
    OBVIOUS
  <2> HIDE DEF p
  <2>7. /\ Len(buf \o p) = Len(buf) + (end - start)
        /\ \A i \in 1 .. Len(buf) : (buf \o p)[i] = buf[i]
        /\ \A i \in Len(buf) + 1 .. Len(buf) + (end - start) : (buf \o p)[i] = p[i - Len(buf)]
    BY <1>7, <2>1, <2>3, <2>4
  <2>8. \A i \in Len(buf) + 1 .. Len(buf) + (end - start) : i - Len(buf) \in 1 .. end - start
    BY <1>7, <2>1
  <2> QED BY <2>5, <2>6, <2>7, <2>8
<1>18. ASSUME NEW i \in Len(buf) + 1 .. Len(buf) + (end - start)
       PROVE  buf'[i] = Place(offs + i - 1)
  <2> DEFINE x == start + (i - Len(buf)) - 1
  <2>1. x \in 0 .. BlockSize - 1
    BY <1>6, <1>7, <1>16
  <2>2. offs = BlockSize * f + (offs % BlockSize) /\ offs % BlockSize \in Nat
    <3>1. /\ offs % BlockSize \in 0 .. BlockSize - 1
          /\ offs = BlockSize * (offs \div BlockSize) + (offs % BlockSize)
      BY <1>6, <1>7, DivMod
    <3> QED BY <1>6, <3>1 DEF f
  <2>3. /\ BlockSize * (f + k) = BlockSize * f + k * BlockSize
        /\ BlockSize * f \in Nat /\ k * BlockSize \in Nat
    BY <1>6, <1>7
  <2>4. offs + i - 1 = BlockSize * (f + k) + x /\ offs + i - 1 \in Nat /\ f + k \in Nat
    <3>1. PICK u \in Nat, v \in Nat, e \in Nat :
            u = BlockSize * f /\ v = k * BlockSize /\ e = offs % BlockSize
      BY <2>2, <2>3
    <3>2. offs = u + e /\ BlockSize * (f + k) = u + v /\ Len(buf) - start = v - e
      BY <1>15, <2>2, <2>3, <3>1
    <3>3. offs + i - 1 = u + v + x
      BY <1>7, <1>16, <3>2
    <3> QED BY <1>7, <2>1, <3>2, <3>3
  <2> HIDE DEF x
  <2>5. Layout(disk.bpb).data_area_start \in Nat
    BY LayoutTyped DEF Typed, InputsTyped, Formatted
  <2>6. disk.bpb.sectors_per_cluster = 1 /\ curr_cluster \in Nat /\ curr_cluster >= 2
    BY <1>4, <1>10, ClusterNumber DEF Readable
  <2>7. Place(offs + i - 1) = <<Layout(disk.bpb).data_area_start + (curr_cluster - 2), x>>
    <3>1. PICK q \in Nat : q = f + k
      BY <2>4
    <3>2. PICK j \in Nat : j = offs + i - 1
      BY <2>4
    <3>3. j = BlockSize * q + x /\ curr_cluster = disk.chain[q + 1]
      BY <1>8, <2>4, <3>1, <3>2
    <3>4. Place(j) = <<Layout(disk.bpb).data_area_start + (disk.chain[q + 1] - 2), x>>
      <4>1. disk.chain[q + 1] \in Nat
        BY <2>6, <3>3
      <4> QED BY <2>1, <2>5, <2>6, <3>3, <4>1, PlaceIs
    <3> QED BY <3>2, <3>3, <3>4
  <2> QED BY <1>13, <1>17, <2>7 DEF x
<1>19. RightBytes'
  <2>2. ASSUME NEW i \in 1 .. Len(buf') PROVE buf'[i] = Place(offs + i - 1)
    <3>1. i \in 1 .. Len(buf) \/ i \in Len(buf) + 1 .. Len(buf) + (end - start)
      BY <1>7, <1>16, <1>17
    <3> QED BY <1>8, <1>17, <1>18, <3>1 DEF RightBytes
  <2> QED BY <1>1, <2>2 DEF RightBytes, Place
<1>20. AtTurn'
  <2>1. clusters_to_read' = ClustersFor((offs' % BlockSize) + size', BlockSize)
        /\ offs' \div BlockSize + clusters_to_read' <= Len(disk'.chain)
    BY <1>1, <1>8 DEF f
  <2>2. cluster_count' < clusters_to_read' =>
            /\ curr_cluster' = disk'.chain[offs' \div BlockSize + cluster_count' + 1]
            /\ Len(buf') = CopiedAfter(cluster_count', offs', BlockSize)
    BY <1>1, <1>12, <1>15, <1>17 DEF f
  <2>3. cluster_count' >= clusters_to_read' => Len(buf') = size'
    <3>1. k + 1 >= kk => k + 1 = kk
      BY <1>1, <1>7
    <3> QED BY <1>1, <1>15, <1>17, <3>1
  <2> QED BY <1>19, <2>1, <2>2, <2>3 DEF AtTurn
<1> QED BY <1>11, <1>20

LEMMA ReturnExact == Typed /\ ReadExact /\ fat12_read_return => ReadExact'
<1> SUFFICES ASSUME Typed, ReadExact, fat12_read_return, ret' > 0, Readable'
             PROVE  ret' = size' /\ Len(buf') = size' /\ RightBytes'
  BY DEF ReadExact, fat12_read_return
<1>1. /\ pc = "return" \/ (pc = "loop" /\ cluster_count >= clusters_to_read)
      /\ ret' = IF size < Word \div 2 THEN size ELSE size - Word
      /\ UNCHANGED <<disk, found, harmed, offs, size, buf>>
  BY Zenon DEF fat12_read_return
<1>2. Readable
  BY <1>1 DEF Readable, Supported, Fits, TheFile, Contiguous, file_size
<1>3. AtTurn /\ cluster_count >= clusters_to_read
  BY <1>1, <1>2 DEF ReadExact
<1>4. Len(buf) = size /\ RightBytes
  BY <1>3 DEF AtTurn
<1>5. ret' = size
  <2>1. size \in Nat /\ offs \in Nat /\ Word \in Nat /\ offs + size < Word
    BY <1>2, Sizes DEF Typed, CallTyped, Readable, Fits
  <2>2. size - Word < 0
    BY <2>1
  <2> QED BY <1>1, <2>1, <2>2
<1> QED BY <1>1, <1>4, <1>5 DEF RightBytes, Place

\* Every other step ends no read, or leaves the one that is over alone.
KeepsExact ==
    \/ pc' \notin {"mounted", "loop", "return"} /\ (pc' = "fault" \/ ret' = 0)
    \/ pc' = "mounted" /\ ret' \in {-1, 0}
    \/ UNCHANGED <<disk, pc, found, harmed, call>>

LEMMA KeepsReadExact == ReadExact /\ KeepsExact => ReadExact'
<1> SUFFICES ASSUME ReadExact, KeepsExact PROVE ReadExact'
  OBVIOUS
<1>1. CASE pc' \notin {"mounted", "loop", "return"} /\ (pc' = "fault" \/ ret' = 0)
  BY <1>1 DEF ReadExact
<1>2. CASE pc' = "mounted" /\ ret' \in {-1, 0}
  BY <1>2 DEF ReadExact
<1>3. CASE UNCHANGED <<disk, pc, found, harmed, call>>
  <2>1. UNCHANGED <<disk, pc, found, harmed, offs, size, curr_cluster, cluster_count,
                    clusters_to_read, buf, ret>>
    BY <1>3, Zenon DEF call
  <2>2. Readable' = Readable
    BY <2>1 DEF Readable, Supported, Fits, TheFile, Contiguous, file_size
  <2>3. RightBytes' = RightBytes
    BY <2>1 DEF RightBytes, Place
  <2>4. AtTurn' = AtTurn
    BY <2>1, <2>3 DEF AtTurn
  <2> QED BY <2>1, <2>2, <2>3, <2>4 DEF ReadExact
<1> QED BY <1>1, <1>2, <1>3 DEF KeepsExact

LEMMA ExactStep ==
    ASSUME Typed, Geometry, FatLoaded, Opened, ReadExact, [Next]_vars, Typed', InFile'
    PROVE  ReadExact'
<1>1. UNCHANGED vars \/ Register => KeepsExact
  BY Zenon DEF Register, vars, fat12_vars, KeepsExact
<1>2. ASSUME pc \notin {"mounted", "fault"}, pc' \notin {"loop", "return"}, ret' = ret
      PROVE  KeepsExact
  BY <1>2 DEF ReadExact, KeepsExact
<1>3. Mount => KeepsExact
  <2> SUFFICES ASSUME Mount PROVE KeepsExact
    OBVIOUS
  <2>1. PICK alloc \in Allocs :
            \/ fat12_mount(alloc)
            \/ fat12_mount_bootsector(alloc)
            \/ \E junk \in JunkBytes : fat12_mount_fat_table(alloc, junk)
            \/ fat12_mount_vfs(alloc)
            \/ fat12_mount_root(alloc)
            \/ vfs_mount_at(alloc)
            \/ fat12_mount_fails("fd0", alloc)
    BY Zenon DEF Mount
  <2>2. /\ pc \in {"down", "bootsector", "device", "fat_table", "load", "vroot", "mount_at"}
        /\ pc' \in {"bootsector", "device", "load", "vroot", "mount_at", "mounted", "fault", "down"}
        /\ UNCHANGED call
    BY <2>1, Zenon DEF fat12_mount, fat12_mount_bootsector, fat12_mount_fat_table, fat12_mount_vfs,
                       fat12_mount_root, vfs_mount_at, fat12_mount_fails
  <2> QED BY <1>2, <2>2 DEF call
<1>4. MountReads => KeepsExact
  <2> SUFFICES ASSUME MountReads PROVE KeepsExact
    OBVIOUS
  <2>1. /\ pc \in {"device", "load"} /\ pc' \in {"fat_table", "fault", "load"}
        /\ UNCHANGED call
    BY Zenon DEF MountReads, fat12_mount_device, fat12_mount_load
  <2> QED BY <1>2, <2>1 DEF call
<1>5. ASSUME NEW p \in Input.paths, vfs_open(p) PROVE KeepsExact
  <2>1. CASE \E stack \in Input.stack : fat12_open(stack)
    BY <2>1 DEF fat12_open, KeepsExact
  <2>2. CASE found' = NULL /\ UNCHANGED <<disk, pc, heap, fs, sector, entries, harmed, call,
                                          block_devices>>
    <3>1. found = NULL
      BY <1>5, Zenon DEF vfs_open, Opened
    <3> QED BY <2>2, <3>1 DEF KeepsExact
  <2> QED BY <1>5, <2>1, <2>2, Zenon DEF vfs_open
<1>6. Lookup => KeepsExact
  <2> SUFFICES ASSUME Lookup PROVE KeepsExact
    OBVIOUS
  <2>1. pc = "scan" /\ pc' \in {"scan", "mounted"} /\ UNCHANGED call
    BY Zenon DEF Lookup, _fat12_lookup, _fat12_lookup_fails
  <2> QED BY <1>2, <2>1 DEF call
<1>7. Read => ReadExact'
  <2>1. ASSUME NEW r \in Input.requests, NEW alloc \in Allocs, fat12_read(r[1], r[2], alloc)
        PROVE  ReadExact'
    <3>1. r[1] \in 0 .. Word - 1 /\ r[2] \in 0 .. Word - 1
      BY VolumeAssumption DEF Typed, InputsTyped, Input
    <3> QED BY <2>1, <3>1, ReadStartsExact
  <2>2. ASSUME NEW o, NEW n, NEW alloc, fat12_read_nothing(o, n, alloc) PROVE KeepsExact
    <3>1. pc' = "mounted" /\ (ret' = -1 \/ ret' = 0)
      BY <2>2, Zenon DEF fat12_read_nothing
    <3> QED BY <3>1 DEF KeepsExact
  <2>3. ASSUME NEW o, NEW n, fat12_read_faults(o, n) PROVE KeepsExact
    BY <2>3 DEF fat12_read_faults, KeepsExact
  <2>4. fat12_read_overruns => KeepsExact
    BY DEF fat12_read_overruns, KeepsExact
  <2> QED BY <2>1, <2>2, <2>3, <2>4, ReturnExact, KeepsReadExact, Zenon DEF Read
<1>8. ReadLoop => ReadExact'
  <2> SUFFICES ASSUME ReadLoop PROVE ReadExact'
    OBVIOUS
  <2>1. PICK driver_ok \in DriverAnswers : fat12_read_cluster(driver_ok)
    BY Zenon DEF ReadLoop
  <2>2. driver_ok \in BOOLEAN
    BY Zenon DEF DriverAnswers
  <2> QED BY <2>1, <2>2, LoopExact
<1>9. Unmount => KeepsExact
  BY DEF Unmount, fat12_unmount, KeepsExact
<1> QED BY <1>1, <1>3, <1>4, <1>5, <1>6, <1>7, <1>8, <1>9, KeepsReadExact, Zenon DEF Next

(***************************************************************************)
(* A read delivers the bytes of the file from the offset on, and says how  *)
(* many, for every file in consecutive clusters and every request, and for *)
(* every file at all when the read starts in its first cluster; clusters   *)
(* of one sector, all reads of the driver successful.                      *)
(***************************************************************************)
THEOREM VolumeReadReturnsFileBytesUnlessScattered == Spec => []ReadReturnsFileBytesUnlessScattered
<1>1. Init => ReadExact
  BY DEF Init, Fat12Init, NoCall, ReadExact
<1>2. Typed /\ ReadExact => ReadReturnsFileBytesUnlessScattered
  <2> SUFFICES ASSUME Typed, ReadExact, ReadDone, disk.bpb.sectors_per_cluster = 1,
                      Contiguous \/ offs < BlockSize
               PROVE  ret = size /\ buf = Expected
    BY DEF ReadReturnsFileBytesUnlessScattered, ReadReturnsFileBytes
  <2>1. Readable /\ pc = "mounted" /\ ret > 0
    BY DEF ReadDone, Readable
  <2>2. ret = size /\ Len(buf) = size /\ RightBytes
    BY <2>1 DEF ReadExact
  <2>3. buf \in Seq(Places)
    BY DEF Typed, CallTyped
  <2>4. buf = [i \in 1 .. Len(buf) |-> buf[i]]
    BY <2>3
  <2>5. [i \in 1 .. size |-> buf[i]] = Expected
    BY <2>2 DEF RightBytes, Expected
  <2> QED BY <2>2, <2>4, <2>5
<1>3. Init => InFile /\ Opened
  BY DEF Init, Fat12Init, NoCall, InFile, Opened
<1> QED BY <1>1, <1>2, <1>3, ExactStep, InFileStep, VolumeTyped, VolumeKnows, PTL DEF Spec
-----------------------------------------------------------------------------
(***************************************************************************)
(* Names.  The conversion of a name that fits to the fields of an entry,   *)
(* and of the fields to a name, are inverse to each other, which is what   *)
(* lets the lookup compare fields where names are meant.                   *)
(***************************************************************************)

\* A string up to the first of some character.
LEMMA UpToIs ==
    ASSUME NEW s \in Seq(STRING), NEW c, NEW n \in 0 .. Len(s), \A i \in 1 .. n : s[i] # c,
           n = Len(s) \/ s[n + 1] = c
    PROVE  UpTo(s, c) = SubSeq(s, 1, n)
<1> DEFINE at == {i \in 1 .. Len(s) : s[i] = c}
<1>1. UpTo(s, c) = IF at = {} THEN s ELSE SubSeq(s, 1, Min(at) - 1)
  BY Zenon DEF UpTo
<1>2. Len(s) \in Nat
  OBVIOUS
<1>3. CASE n = Len(s)
  <2>1. at = {}
    BY <1>3
  <2>2. s = SubSeq(s, 1, Len(s))
    OBVIOUS
  <2> QED BY <1>1, <1>3, <2>1, <2>2, Zenon
<1>4. CASE n < Len(s)
  <2>1. n + 1 \in at /\ at \in SUBSET Nat
    <3>1. n + 1 \in 1 .. Len(s) /\ n # Len(s)
      BY <1>2, <1>4
    <3>2. 1 .. Len(s) \subseteq Nat
      OBVIOUS
    <3> QED BY <3>1, <3>2, Zenon
  <2>2. ASSUME NEW y \in at PROVE n + 1 <= y
    <3>1. y \in 1 .. Len(s) /\ s[y] = c
      OBVIOUS
    <3>2. y \notin 1 .. n
      BY <3>1, Zenon
    <3> QED BY <1>2, <3>1, <3>2
  <2>3. Min(at) = n + 1
    <3> HIDE DEF at
    <3> QED BY <2>1, <2>2, MinIs
  <2>4. Min(at) - 1 = n
    BY <2>3
  <2> QED BY <1>1, <2>1, <2>4
<1>5. n = Len(s) \/ n < Len(s)
  BY <1>2
<1> QED BY <1>3, <1>4, <1>5

\* The start of the start of a sequence.
LEMMA SubSubSeq ==
    ASSUME NEW S, NEW s \in Seq(S), NEW n \in 0 .. Len(s), NEW m \in 0 .. n
    PROVE  SubSeq(SubSeq(s, 1, n), 1, m) = SubSeq(s, 1, m)
<1>1. Len(s) \in Nat
  OBVIOUS
<1>2. SubSeq(s, 1, n) \in Seq(S) /\ Len(SubSeq(s, 1, n)) = n
      /\ \A i \in 1 .. n : SubSeq(s, 1, n)[i] = s[i]
  BY <1>1
<1>3. PICK t \in Seq(S) : t = SubSeq(s, 1, n)
  BY <1>2
<1>4. Len(t) = n /\ \A i \in 1 .. n : t[i] = s[i]
  BY <1>2, <1>3
<1>5. SubSeq(t, 1, m) = [i \in 1 .. m |-> t[i]] /\ SubSeq(s, 1, m) = [i \in 1 .. m |-> s[i]]
  BY <1>1, <1>4
<1>6. \A i \in 1 .. m : t[i] = s[i]
  BY <1>1, <1>4
<1> QED BY <1>3, <1>5, <1>6

\* The parts of a name that fits an entry: a base of b characters and an
\* extension of e; and the fields of an entry that spell them.
Split(s, b, e) ==
    /\ Len(s) = IF e = 0 THEN b ELSE b + 1 + e
    /\ \A i \in 1 .. Len(s) : s[i] # PAD /\ (s[i] = DOT <=> i = b + 1)

Spells(f, s, b, e) ==
    /\ \A i \in 1 .. NAME : f[i] = IF i <= b THEN s[i] ELSE PAD
    /\ \A i \in 1 .. EXT : f[NAME + i] = IF i <= e THEN s[b + 1 + i] ELSE PAD

LEMMA Fields == NAME \in Nat \ {0} /\ EXT \in Nat \ {0} /\ DOT \in STRING /\ PAD \in STRING /\ DOT # PAD
BY DirAssumption

\* The smaller of two numbers.
LEMMA MinOfTwo ==
    ASSUME NEW m \in Nat, NEW n \in Nat, n <= m
    PROVE  Min({m, n}) = n
<1>1. {m, n} \in SUBSET Nat /\ n \in {m, n} /\ \A y \in {m, n} : n <= y
  OBVIOUS
<1> QED BY <1>1, MinIs

\* The base that _fat12_normal_to_8_3 takes.
LEMMA BaseIs ==
    ASSUME NEW s \in Seq(STRING), NEW b \in 1 .. NAME, NEW e \in 0 .. EXT, Split(s, b, e)
    PROVE  Cut(UpTo(s, DOT), NAME) = SubSeq(s, 1, b)
<1>1. Len(s) \in Nat /\ b \in Nat /\ e \in Nat /\ b <= NAME /\ b >= 1
  BY Fields
<1>2. b \in 0 .. Len(s) /\ (b = Len(s) \/ b + 1 \in 1 .. Len(s))
  BY <1>1 DEF Split
<1>3. \A i \in 1 .. b : s[i] # DOT
  BY <1>1, <1>2 DEF Split
<1>4. b = Len(s) \/ s[b + 1] = DOT
  BY <1>2 DEF Split
<1>5. UpTo(s, DOT) = SubSeq(s, 1, b)
  BY <1>2, <1>3, <1>4, UpToIs
<1>6. Len(SubSeq(s, 1, b)) = b
  BY <1>1, <1>2
<1>7. Min({NAME, b}) = b
  BY <1>1, Fields, MinOfTwo
<1>8. Cut(UpTo(s, DOT), NAME) = SubSeq(SubSeq(s, 1, b), 1, b)
  BY <1>5, <1>6, <1>7 DEF Cut
<1>9. b \in 0 .. b
  BY <1>1
<1> QED BY <1>2, <1>8, <1>9, SubSubSeq

\* Padding a sequence that is not too long.
LEMMA PaddedIs ==
    ASSUME NEW s \in Seq(STRING), NEW n \in Nat
    PROVE  /\ Padded(s, n) \in Seq(STRING) /\ Len(Padded(s, n)) = n
           /\ \A i \in 1 .. n : Padded(s, n)[i] = IF i <= Len(s) THEN s[i] ELSE PAD
<1>1. ASSUME NEW i \in 1 .. n PROVE (IF i <= Len(s) THEN s[i] ELSE PAD) \in STRING
  <2>1. i <= Len(s) => i \in 1 .. Len(s)
    OBVIOUS
  <2>2. i <= Len(s) => s[i] \in STRING
    BY <2>1
  <2> QED BY <2>2, Fields
<1>2. Padded(s, n) = [i \in 1 .. n |-> IF i <= Len(s) THEN s[i] ELSE PAD]
  BY DEF Padded
<1> QED BY <1>1, <1>2

\* Two words with a character between them.
Joined(S, s, p, c, q, m, n) ==
    /\ s \in Seq(S) /\ Len(s) = m + 1 + n
    /\ \A i \in 1 .. m : s[i] = p[i]
    /\ s[m + 1] = c
    /\ \A i \in 1 .. n : s[m + 1 + i] = q[i]

LEMMA JoinedIs ==
    ASSUME NEW S, NEW p \in Seq(S), NEW c \in S, NEW q \in Seq(S), NEW m, NEW n,
           Len(p) = m, Len(q) = n
    PROVE  Joined(S, p \o <<c>> \o q, p, c, q, m, n)
<1>1. m \in Nat /\ n \in Nat
  OBVIOUS
<1>2. PICK h : h = p \o <<c>>
  OBVIOUS
<1>3. h \in Seq(S) /\ Len(h) = m + 1 /\ h[m + 1] = c /\ \A i \in 1 .. m : h[i] = p[i]
  BY <1>1, <1>2
<1>4. PICK s : s = h \o q
  OBVIOUS
<1>5. /\ s \in Seq(S) /\ Len(s) = m + 1 + n
      /\ \A i \in 1 .. m + 1 : s[i] = h[i]
      /\ \A i \in 1 .. n : s[m + 1 + i] = q[i]
  <2>1. /\ s \in Seq(S) /\ Len(s) = Len(h) + Len(q)
        /\ \A i \in 1 .. Len(h) + Len(q) : s[i] = IF i <= Len(h) THEN h[i] ELSE q[i - Len(h)]
    BY <1>3, <1>4, ConcatProperties
  <2>2. \A i \in 1 .. m + 1 : s[i] = h[i]
    BY <1>1, <1>3, <2>1
  <2>3. \A i \in 1 .. n : s[m + 1 + i] = q[i]
    BY <1>1, <1>3, <2>1
  <2>4. Len(s) = m + 1 + n
    BY <1>3, <2>1
  <2> QED BY <2>1, <2>2, <2>3, <2>4
<1>6. m + 1 \in 1 .. m + 1 /\ \A i \in 1 .. m : i \in 1 .. m + 1
  BY <1>1
<1>7. Joined(S, s, p, c, q, m, n)
  BY <1>3, <1>5, <1>6, Zenon DEF Joined
<1> QED BY <1>2, <1>4, <1>7

LEMMA SameFunction ==
    ASSUME NEW n \in Nat, NEW S, NEW f \in [1 .. n -> S], NEW g \in [1 .. n -> S],
           \A i \in 1 .. n : f[i] = g[i]
    PROVE  f = g
OBVIOUS

\* Two fields side by side.
LEMMA TwoFields ==
    ASSUME NEW p \in Seq(STRING), NEW q \in Seq(STRING), Len(p) = NAME, Len(q) = EXT
    PROVE  /\ p \o q \in [1 .. NAME + EXT -> STRING]
           /\ \A i \in 1 .. NAME : (p \o q)[i] = p[i]
           /\ \A i \in 1 .. EXT : (p \o q)[NAME + i] = q[i]
<1>1. p \o q \in Seq(STRING) /\ Len(p \o q) = NAME + EXT
  OBVIOUS
<1>2. \A i \in 1 .. NAME : (p \o q)[i] = p[i]
  BY Fields
<1>3. \A i \in 1 .. EXT : (p \o q)[NAME + i] = q[i]
  BY Fields
<1>4. p \o q \in [1 .. NAME + EXT -> STRING]
  <2>1. PICK t \in Seq(STRING) : t = p \o q
    BY <1>1
  <2>2. t \in [1 .. Len(t) -> STRING]
    OBVIOUS
  <2> QED BY <1>1, <2>1, <2>2
<1> QED BY <1>2, <1>3, <1>4

LEMMA ShortName ==
    ASSUME NEW s \in Seq(STRING), NEW b \in 1 .. NAME, NEW e \in 0 .. EXT, Split(s, b, e)
    PROVE  /\ _fat12_normal_to_8_3(s) \in [1 .. NAME + EXT -> STRING]
           /\ Spells(_fat12_normal_to_8_3(s), s, b, e)
<1> DEFINE base == SubSeq(s, 1, b)
           j == b + 1
           from == IF j <= Len(s) /\ s[j] = DOT THEN j + 1 ELSE j
           ext == SubSeq(s, from, Len(s))
           p == Padded(base, NAME)
           q == Padded(ext, EXT)
<1>1. Len(s) \in Nat /\ b \in Nat /\ e \in Nat /\ b <= NAME /\ b >= 1 /\ b <= Len(s) /\ e <= EXT
  BY Fields DEF Split
<1>2. base \in Seq(STRING) /\ Len(base) = b /\ \A i \in 1 .. b : base[i] = s[i]
  BY <1>1
<1>3. _fat12_normal_to_8_3(s) = p \o q
  <2>1. Cut(UpTo(s, DOT), NAME) = base
    BY BaseIs
  <2>2. Len(base) + 1 = j
    BY <1>2
  <2> HIDE DEF base, j
  <2> QED BY <2>1, <2>2 DEF _fat12_normal_to_8_3
<1>4. ext \in Seq(STRING) /\ Len(ext) = e /\ \A i \in 1 .. e : ext[i] = s[b + 1 + i]
  <2>1. CASE e = 0
    <3>1. Len(s) = b
      BY <2>1 DEF Split
    <3>2. from = b + 1
      BY <1>1, <3>1
    <3> HIDE DEF from
    <3>3. ext = SubSeq(s, b + 1, b)
      BY <3>1, <3>2
    <3>4. SubSeq(s, b + 1, b) = << >>
      BY <1>1, <3>1
    <3> HIDE DEF ext
    <3> QED BY <2>1, <3>3, <3>4
  <2>2. CASE e > 0
    <3>1. Len(s) = b + 1 + e
      BY <1>1, <2>2 DEF Split
    <3>2. j \in 1 .. Len(s)
      BY <1>1, <3>1
    <3>3. s[j] = DOT
      BY <3>2 DEF Split
    <3>4. from = b + 2
      BY <1>1, <3>2, <3>3
    <3> HIDE DEF from
    <3> QED BY <1>1, <2>2, <3>1, <3>4
  <2>3. e = 0 \/ e > 0
    BY <1>1
  <2> QED BY <2>1, <2>2, <2>3, Zenon
<1> HIDE DEF base, ext
<1>5. p \in Seq(STRING) /\ Len(p) = NAME /\ \A i \in 1 .. NAME : p[i] = IF i <= b THEN base[i] ELSE PAD
  BY <1>2, Fields, PaddedIs
<1>6. q \in Seq(STRING) /\ Len(q) = EXT /\ \A i \in 1 .. EXT : q[i] = IF i <= e THEN ext[i] ELSE PAD
  BY <1>4, Fields, PaddedIs
<1> HIDE DEF p, q
<1>7. /\ p \o q \in [1 .. NAME + EXT -> STRING]
      /\ \A i \in 1 .. NAME : (p \o q)[i] = p[i]
      /\ \A i \in 1 .. EXT : (p \o q)[NAME + i] = q[i]
  BY <1>5, <1>6, TwoFields
<1>8. \A i \in 1 .. NAME : p[i] = IF i <= b THEN s[i] ELSE PAD
  BY <1>1, <1>2, <1>5
<1>9. \A i \in 1 .. EXT : q[i] = IF i <= e THEN s[b + 1 + i] ELSE PAD
  BY <1>1, <1>4, <1>6
<1>10. Spells(p \o q, s, b, e)
  BY <1>7, <1>8, <1>9, Zenon DEF Spells
<1> QED BY <1>3, <1>7, <1>10, Zenon

\* The long form of a name on the disk: base, and a dot and the extension
\* unless that is empty.
LongForm(s, f, b, e) ==
    /\ s \in Seq(STRING) /\ Len(s) = IF e = 0 THEN b ELSE b + 1 + e
    /\ \A i \in 1 .. b : s[i] = f[i]
    /\ e # 0 => s[b + 1] = DOT /\ \A i \in 1 .. e : s[b + 1 + i] = f[NAME + i]

LEMMA LongName ==
    ASSUME NEW f \in [1 .. NAME + EXT -> STRING], NEW b \in 0 .. NAME, NEW e \in 0 .. EXT,
           Filled(f, b, e)
    PROVE  LongForm(_fat12_8_3to_normal(f), f, b, e)
<1> DEFINE left == SubSeq(f, 1, NAME)
           right == SubSeq(f, NAME + 1, NAME + EXT)
           base == SubSeq(left, 1, b)
           ext == SubSeq(right, 1, e)
<1>1. b \in Nat /\ e \in Nat /\ b <= NAME /\ e <= EXT
  BY Fields
<1>2. left \in Seq(STRING) /\ Len(left) = NAME /\ \A i \in 1 .. NAME : left[i] = f[i]
  <2>1. f \in Seq(STRING) /\ Len(f) = NAME + EXT
    BY Fields
  <2> QED BY <2>1, Fields
<1>3. right \in Seq(STRING) /\ Len(right) = EXT /\ \A i \in 1 .. EXT : right[i] = f[NAME + i]
  <2>1. f \in Seq(STRING) /\ Len(f) = NAME + EXT
    BY Fields
  <2> QED BY <2>1, Fields
<1> HIDE DEF left, right
<1>4. UpTo(left, PAD) = base
  <2>1. b \in 0 .. Len(left)
    BY <1>2
  <2>2. ASSUME NEW i \in 1 .. b PROVE left[i] # PAD
    <3>1. i \in 1 .. NAME /\ ~(i > b)
      BY <1>1, Fields
    <3>2. f[i] = PAD <=> i > b
      BY <3>1, Zenon DEF Filled
    <3> QED BY <1>2, <3>1, <3>2, Zenon
  <2>3. b = Len(left) \/ left[b + 1] = PAD
    <3>1. b # NAME => b + 1 \in 1 .. NAME /\ b + 1 > b
      BY <1>1, Fields
    <3>2. b + 1 \in 1 .. NAME => (f[b + 1] = PAD <=> b + 1 > b)
      BY Zenon DEF Filled
    <3> QED BY <1>2, <3>1, <3>2, Zenon
  <2> QED BY <1>2, <2>1, <2>2, <2>3, UpToIs
<1>5. UpTo(right, PAD) = ext
  <2>1. e \in 0 .. Len(right)
    BY <1>3
  <2>2. ASSUME NEW i \in 1 .. e PROVE right[i] # PAD
    <3>1. i \in 1 .. EXT /\ ~(i > e)
      BY <1>1, Fields
    <3>2. f[NAME + i] = PAD <=> i > e
      BY <3>1, Zenon DEF Filled
    <3> QED BY <1>3, <3>1, <3>2, Zenon
  <2>3. e = Len(right) \/ right[e + 1] = PAD
    <3>1. e # EXT => e + 1 \in 1 .. EXT /\ e + 1 > e
      BY <1>1, Fields
    <3>2. e + 1 \in 1 .. EXT => (f[NAME + (e + 1)] = PAD <=> e + 1 > e)
      BY Zenon DEF Filled
    <3> QED BY <1>3, <3>1, <3>2, Zenon
  <2> QED BY <1>3, <2>1, <2>2, <2>3, UpToIs
<1>6. f[NAME + 1] = PAD <=> e = 0
  <2>1. 1 \in 1 .. EXT
    BY Fields
  <2>2. f[NAME + 1] = PAD <=> 1 > e
    BY <2>1 DEF Filled
  <2> QED BY <1>1, <2>2
<1>7. _fat12_8_3to_normal(f) = IF e = 0 THEN base ELSE base \o <<DOT>> \o ext
  BY <1>4, <1>5, <1>6, Zenon DEF _fat12_8_3to_normal, left, right
<1>8. base \in Seq(STRING) /\ Len(base) = b /\ \A i \in 1 .. b : base[i] = f[i]
  BY <1>1, <1>2, Fields
<1>9. ext \in Seq(STRING) /\ Len(ext) = e /\ \A i \in 1 .. e : ext[i] = f[NAME + i]
  BY <1>1, <1>3, Fields
<1> HIDE DEF base, ext
<1>10. CASE e = 0
  BY <1>7, <1>8, <1>10, Zenon DEF LongForm
<1>11. CASE e # 0
  <2>1. PICK s : s = base \o <<DOT>> \o ext
    OBVIOUS
  <2>2. Joined(STRING, s, base, DOT, ext, b, e)
    BY <1>8, <1>9, <2>1, Fields, JoinedIs, Zenon
  <2>3. _fat12_8_3to_normal(f) = s
    BY <1>7, <1>11, <2>1, Zenon
  <2> QED BY <1>8, <1>9, <1>11, <2>2, <2>3, Zenon DEF Joined, LongForm
<1> QED BY <1>10, <1>11

\* Fields that spell the same name are the same.
LEMMA SpellsOnce ==
    ASSUME NEW f \in [1 .. NAME + EXT -> STRING], NEW g \in [1 .. NAME + EXT -> STRING],
           NEW s, NEW b, NEW e, Spells(f, s, b, e), Spells(g, s, b, e)
    PROVE  f = g
<1>1. \A i \in 1 .. NAME : f[i] = g[i]
  BY Zenon DEF Spells
<1>2. \A i \in 1 .. EXT : f[NAME + i] = g[NAME + i]
  BY Zenon DEF Spells
<1>3. ASSUME NEW i \in 1 .. NAME + EXT PROVE f[i] = g[i]
  <2>1. CASE i <= NAME
    BY <1>1, <2>1, Fields
  <2>2. CASE i > NAME
    <3>1. i - NAME \in 1 .. EXT /\ NAME + (i - NAME) = i
      BY <2>2, Fields
    <3> QED BY <1>2, <3>1
  <2> QED BY <2>1, <2>2, Fields
<1>4. \A i \in 1 .. NAME + EXT : f[i] = g[i]
  BY <1>3, Zenon
<1>5. NAME + EXT \in Nat
  BY Fields
<1> QED BY <1>4, <1>5, SameFunction

(***************************************************************************)
(* The two conversions agree: the fields of an entry are those of a name   *)
(* that fits exactly if the entry's long form is that name.                *)
(***************************************************************************)
LEMMA SameName ==
    ASSUME NEW f, IsName(f), NEW s \in Seq(STRING), ValidName(s)
    PROVE  f = _fat12_normal_to_8_3(s) <=> _fat12_8_3to_normal(f) = s
<1>1. PICK b \in 1 .. NAME, e \in 0 .. EXT : Split(s, b, e)
  BY Zenon DEF ValidName, Split
<1>2. PICK c \in 0 .. NAME, x \in 0 .. EXT : Filled(f, c, x)
  BY Zenon DEF IsName
<1>3. f \in [1 .. NAME + EXT -> STRING] /\ \A i \in 1 .. NAME + EXT : f[i] # DOT
  <2>1. f \in [1 .. NAME + EXT -> STRING] /\ DOT \notin {f[i] : i \in DOMAIN f}
    BY Zenon DEF IsName, Range
  <2> QED BY <2>1
<1>4. /\ _fat12_normal_to_8_3(s) \in [1 .. NAME + EXT -> STRING]
      /\ Spells(_fat12_normal_to_8_3(s), s, b, e)
  BY <1>1, ShortName
<1>5. PICK t : t = _fat12_8_3to_normal(f)
  OBVIOUS
<1>6. /\ t \in Seq(STRING) /\ Len(t) = IF x = 0 THEN c ELSE c + 1 + x
      /\ \A i \in 1 .. c : t[i] = f[i]
      /\ x # 0 => t[c + 1] = DOT /\ \A i \in 1 .. x : t[c + 1 + i] = f[NAME + i]
  <2>1. LongForm(t, f, c, x)
    BY <1>2, <1>3, <1>5, LongName, Zenon
  <2> QED BY <2>1, Zenon DEF LongForm
<1>7. /\ Len(s) = IF e = 0 THEN b ELSE b + 1 + e
      /\ \A i \in 1 .. Len(s) : s[i] # PAD /\ (s[i] = DOT <=> i = b + 1)
  BY <1>1 DEF Split
<1>8. /\ b \in Nat /\ b >= 1 /\ b <= NAME /\ e \in Nat /\ e <= EXT
      /\ c \in Nat /\ c <= NAME /\ x \in Nat /\ x <= EXT
  BY Fields
<1>9. ASSUME f = _fat12_normal_to_8_3(s) PROVE t = s
  <2>1. Spells(f, s, b, e)
    BY <1>4, <1>9
  <2>2. ASSUME NEW i \in 1 .. NAME PROVE f[i] = PAD <=> i > b
    <3>1. (i <= b => i \in 1 .. Len(s)) /\ (i <= b <=> ~(i > b))
      BY <1>7, <1>8, Fields
    <3>2. f[i] = IF i <= b THEN s[i] ELSE PAD
      BY <2>1, Zenon DEF Spells
    <3> QED BY <1>7, <3>1, <3>2, Zenon
  <2>3. c = b
    <3>1. \A i \in 1 .. NAME : i > c <=> i > b
      BY <1>2, <2>2 DEF Filled
    <3>2. c < b => FALSE
      <4>1. b \in 1 .. NAME
        OBVIOUS
      <4>2. b > c <=> b > b
        BY <3>1, <4>1
      <4> QED BY <1>8, <4>2
    <3>3. b < c => FALSE
      <4>1. b < c => c \in 1 .. NAME
        BY <1>8, Fields
      <4>2. b < c => (c > c <=> c > b)
        BY <3>1, <4>1
      <4> QED BY <1>8, <4>2
    <3> QED BY <1>8, <3>2, <3>3
  <2>4. ASSUME NEW i \in 1 .. EXT PROVE f[NAME + i] = PAD <=> i > e
    <3>1. (i <= e => b + 1 + i \in 1 .. Len(s)) /\ (i <= e <=> ~(i > e))
      BY <1>7, <1>8, Fields
    <3>2. f[NAME + i] = IF i <= e THEN s[b + 1 + i] ELSE PAD
      BY <2>1, Zenon DEF Spells
    <3> QED BY <1>7, <3>1, <3>2, Zenon
  <2>5. x = e
    <3>1. \A i \in 1 .. EXT : i > x <=> i > e
      BY <1>2, <2>4 DEF Filled
    <3>2. x < e => FALSE
      <4>1. x < e => e \in 1 .. EXT
        BY <1>8, Fields
      <4>2. x < e => (e > x <=> e > e)
        BY <3>1, <4>1
      <4> QED BY <1>8, <4>2
    <3>3. e < x => FALSE
      <4>1. e < x => x \in 1 .. EXT
        BY <1>8, Fields
      <4>2. e < x => (x > x <=> x > e)
        BY <3>1, <4>1
      <4> QED BY <1>8, <4>2
    <3> QED BY <1>8, <3>2, <3>3
  <2>6. Len(t) = Len(s) /\ Len(s) \in Nat
    BY <1>6, <1>7, <2>3, <2>5
  <2>7. \A i \in 1 .. b : t[i] = s[i]
    <3>1. \A i \in 1 .. b : i \in 1 .. NAME /\ i <= b
      BY <1>8, Fields
    <3>2. \A i \in 1 .. b : f[i] = s[i]
      BY <2>1, <3>1, Zenon DEF Spells
    <3> QED BY <1>6, <2>3, <3>2, Zenon
  <2>8. e # 0 => t[b + 1] = DOT /\ s[b + 1] = DOT
    <3>1. e # 0 => b + 1 \in 1 .. Len(s)
      BY <1>7, <1>8
    <3> QED BY <1>6, <1>7, <2>3, <2>5, <3>1, Zenon
  <2>9. \A i \in 1 .. e : t[b + 1 + i] = s[b + 1 + i]
    <3>1. \A i \in 1 .. e : i \in 1 .. EXT /\ i <= e /\ e # 0
      BY <1>8, Fields
    <3>2. \A i \in 1 .. e : f[NAME + i] = s[b + 1 + i]
      BY <2>1, <3>1, Zenon DEF Spells
    <3> QED BY <1>6, <2>3, <2>5, <3>1, <3>2, Zenon
  <2>10. ASSUME NEW i \in 1 .. Len(s) PROVE t[i] = s[i]
    <3>1. i \in 1 .. b \/ (e # 0 /\ i = b + 1) \/ (i - (b + 1) \in 1 .. e /\ b + 1 + (i - (b + 1)) = i)
      BY <1>7, <1>8
    <3>2. CASE i \in 1 .. b
      BY <2>7, <3>2, Zenon
    <3>3. CASE e # 0 /\ i = b + 1
      BY <2>8, <3>3, Zenon
    <3>4. CASE i - (b + 1) \in 1 .. e /\ b + 1 + (i - (b + 1)) = i
      <4>1. t[b + 1 + (i - (b + 1))] = s[b + 1 + (i - (b + 1))]
        BY <2>9, <3>4, Zenon
      <4> QED BY <3>4, <4>1, Zenon
    <3> QED BY <3>1, <3>2, <3>3, <3>4, Zenon
  <2>11. \A i \in 1 .. Len(s) : t[i] = s[i]
    BY <2>10, Zenon
  <2> QED BY <1>6, <2>6, <2>11
<1>10. ASSUME t = s PROVE f = _fat12_normal_to_8_3(s)
  <2>1. Len(s) = IF x = 0 THEN c ELSE c + 1 + x
    BY <1>6, <1>10
  <2>2. c = b /\ x = e
    <3>1. CASE x = 0
      <4>1. Len(s) = c
        BY <2>1, <3>1
      <4>2. \A i \in 1 .. c : s[i] # DOT
        <5>1. \A i \in 1 .. c : i \in 1 .. NAME + EXT
          BY <1>8, Fields
        <5> QED BY <1>3, <1>6, <1>10, <5>1, Zenon
      <4>3. ~(b + 1 \in 1 .. c)
        BY <1>7, <4>1, <4>2, Zenon
      <4> QED BY <1>7, <1>8, <3>1, <4>1, <4>3
    <3>2. CASE x # 0
      <4>1. s[c + 1] = DOT /\ Len(s) = c + 1 + x
        BY <1>6, <1>10, <2>1, <3>2, Zenon
      <4>2. c + 1 \in 1 .. Len(s)
        BY <1>8, <4>1
      <4>3. c + 1 = b + 1
        BY <1>7, <4>1, <4>2, Zenon
      <4> QED BY <1>7, <1>8, <3>2, <4>1, <4>3
    <3> QED BY <3>1, <3>2
  <2>3. ASSUME NEW i \in 1 .. NAME PROVE f[i] = IF i <= b THEN s[i] ELSE PAD
    <3>1. CASE i <= b
      <4>1. i \in 1 .. c
        BY <1>8, <2>2, <3>1, Fields
      <4> QED BY <1>6, <1>10, <3>1, <4>1
    <3>2. CASE i > b
      <4>1. f[i] = PAD
        BY <1>2, <2>2, <3>2 DEF Filled
      <4>2. ~(i <= b)
        BY <1>8, <3>2, Fields
      <4> QED BY <4>1, <4>2
    <3>3. i <= b \/ i > b
      BY <1>8, Fields
    <3> QED BY <3>1, <3>2, <3>3, Zenon
  <2>4. ASSUME NEW i \in 1 .. EXT PROVE f[NAME + i] = IF i <= e THEN s[b + 1 + i] ELSE PAD
    <3>1. CASE i <= e
      <4>1. i \in 1 .. x /\ x # 0
        BY <1>8, <2>2, <3>1, Fields
      <4>2. s[c + 1 + i] = f[NAME + i]
        BY <1>6, <1>10, <4>1, Zenon
      <4> QED BY <2>2, <3>1, <4>2
    <3>2. CASE i > e
      <4>1. f[NAME + i] = PAD
        BY <1>2, <2>2, <3>2 DEF Filled
      <4>2. ~(i <= e)
        BY <1>8, <3>2, Fields
      <4> QED BY <4>1, <4>2
    <3>3. i <= e \/ i > e
      BY <1>8, Fields
    <3> QED BY <3>1, <3>2, <3>3, Zenon
  <2>5. Spells(f, s, b, e)
    BY <2>3, <2>4, Zenon DEF Spells
  <2> QED BY <1>3, <1>4, <2>5, SpellsOnce, Zenon
<1> QED BY <1>5, <1>9, <1>10, Zenon

-----------------------------------------------------------------------------
(***************************************************************************)
(* The lookup.  Sought is the name, Due that a lookup of it is promised to *)
(* be exact.  While the directory is scanned no entry in front of the next *)
(* sector stops the scan; afterwards the answer stays what it was.         *)
(***************************************************************************)
Sought == NameOf(result.rel_path)

Due ==
    /\ ~harmed /\ ~oom /\ Supported
    /\ result # NULL /\ result.mount = MountedAt /\ ValidName(Sought)

StopAt(i, name) ==
    \/ disk.dir[i].kind = "end"
    \/ ~Skipped(disk.dir[i]) /\ disk.dir[i].name = _fat12_normal_to_8_3(name)

NoStop(n, name) == n <= Len(disk.dir) /\ \A i \in 1 .. n : ~StopAt(i, name)

Answer(name) ==
    IF Live(name) = {} THEN NULL
    ELSE LET k == Min(Live(name)) - 1 IN
         [dir_entry  |-> disk.dir[k + 1],
          dir_sector |-> Layout(disk.bpb).root_dir_start + k \div EntriesPerSector,
          dir_offset |-> k % EntriesPerSector]

Mounting == {"down", "bootsector", "device", "fat_table", "load", "vroot", "mount_at"}

LookupExact ==
    /\ pc \in Mounting => result = NULL
    /\ pc = "scan" /\ Due => found = NULL /\ NoStop(sector * EntriesPerSector, Sought)
    /\ pc \in {"mounted", "loop", "return"} /\ Due => found = Answer(Sought)

\* The name looked up is a string.
LEMMA SoughtIsString ==
    ASSUME Resolved, result # NULL
    PROVE  Sought \in Seq(STRING)
<1>1. path \in Seq(STRING) /\ result = _vfs_resolve_mountpoint(path)
  BY DEF Resolved
<1>2. PICK token \in Mounts : result.rel_path = rel_path_of(path, token)
  <2> DEFINE tok == strtok_r(Copied(path, PathMax))
  <2>1. tok \in Mounts /\ result = [mount |-> tok, rel_path |-> rel_path_of(path, tok)]
    BY <1>1, Zenon DEF _vfs_resolve_mountpoint
  <2> HIDE DEF tok
  <2>2. result.rel_path = rel_path_of(path, tok)
    BY <2>1
  <2> QED BY <2>1, <2>2, Zenon
<1>3. token \in Seq(STRING) /\ PathMax \in Nat \ {0}
  BY PathAssumption
<1> DEFINE start == SubSeq(path, Len(token) + 2, Len(path))
<1>4. start \in Seq(STRING)
  <2>1. Len(token) + 2 \in Int /\ Len(path) \in Int
        /\ \A i \in Len(token) + 2 .. Len(path) : i \in 1 .. Len(path)
    BY <1>1, <1>3
  <2>2. \A i \in Len(token) + 2 .. Len(path) : path[i] \in STRING
    BY <1>1, <2>1, ElementOfSeq, Zenon
  <2> QED BY <2>1, <2>2, SubSeqProperties, Zenon
<1> HIDE DEF start
<1>5. PICK m \in 0 .. Len(start) : Copied(start, PathMax) = SubSeq(start, 1, m)
  BY <1>3, <1>4, CopiedIs
<1>6. SubSeq(start, 1, m) \in Seq(STRING)
  <2>1. 1 \in Int /\ m \in Int /\ \A i \in 1 .. m : i \in 1 .. Len(start)
    BY <1>4
  <2>2. \A i \in 1 .. m : start[i] \in STRING
    BY <1>4, <2>1, ElementOfSeq, Zenon
  <2> QED BY <2>1, <2>2, SubSeqProperties, Zenon
<1>7. result.rel_path = <<SEP>> \/ result.rel_path \in Seq(STRING)
  BY <1>2, <1>5, <1>6, Zenon DEF rel_path_of, start
<1>8. PICK q : q = result.rel_path
  OBVIOUS
<1> DEFINE rest == {i \in 1 .. Len(q) : q[i] # SEP}
<1>9. Sought = IF rest = {} THEN << >> ELSE SubSeq(q, Min(rest), Len(q))
  BY <1>8, Zenon DEF Sought, NameOf
<1>10. q = <<SEP>> => rest = {}
  OBVIOUS
<1>11. \A i \in rest : i \in 1 .. Len(q)
  OBVIOUS
<1> HIDE DEF rest
<1>12. CASE rest = {}
  <2>1. Sought = << >>
    BY <1>9, <1>12, Zenon
  <2> QED BY <2>1, EmptySeq, Zenon
<1>13. CASE rest # {}
  <2>1. q \in Seq(STRING)
    BY <1>7, <1>8, <1>10, <1>13, Zenon
  <2>2. Len(q) \in Nat /\ 1 .. Len(q) \subseteq Nat
    BY <2>1
  <2>3. rest \in SUBSET Nat
    BY <1>11, <2>2, Zenon
  <2>4. PICK k \in 1 .. Len(q) : k = Min(rest)
    BY <1>11, <1>13, <2>3, MinNat, Zenon
  <2>5. k \in Int /\ Len(q) \in Int /\ \A i \in k .. Len(q) : i \in 1 .. Len(q)
    BY <2>2
  <2>6. \A i \in k .. Len(q) : q[i] \in STRING
    BY <2>1, <2>5, ElementOfSeq, Zenon
  <2>7. SubSeq(q, k, Len(q)) \in Seq(STRING)
    BY <2>5, <2>6, SubSeqProperties, Zenon
  <2> QED BY <1>9, <1>13, <2>4, <2>7, Zenon
<1> QED BY <1>12, <1>13

LEMMA Cancel ==
    ASSUME NEW a \in Nat \ {0}, NEW b \in Nat, NEW c \in Nat, a * b = a * c
    PROVE  b = c
<1>1. CASE b < c
  <2>1. PICK d \in Nat : c = b + 1 + d
    BY <1>1
  <2>2. a * c = a * b + a + a * d /\ a * d \in Nat /\ a * b \in Nat
    BY <2>1
  <2> QED BY <2>2
<1>2. CASE c < b
  <2>1. PICK d \in Nat : b = c + 1 + d
    BY <1>2
  <2>2. a * b = a * c + a + a * d /\ a * d \in Nat /\ a * c \in Nat
    BY <2>1
  <2> QED BY <2>2
<1> QED BY <1>1, <1>2

\* The sectors of the directory hold just the entries there may be.
LEMMA RootEntries ==
    ASSUME Formatted(disk), Supported
    PROVE  /\ EntriesPerSector \in Nat \ {0}
           /\ Layout(disk.bpb).root_dir_sectors \in Nat
           /\ Layout(disk.bpb).root_dir_sectors * EntriesPerSector = disk.bpb.max_root_dir_entries
<1> DEFINE n == EntriesPerSector
           m == disk.bpb.max_root_dir_entries
           r == Layout(disk.bpb).root_dir_sectors
<1>1. disk.bpb \in BootSectors /\ m \in Nat
  BY DEF Formatted, BootSectors
<1>2. r \in Nat /\ r = (m * EntrySize + BlockSize - 1) \div BlockSize
  <2>1. r \in Nat
    BY <1>1, LayoutTyped
  <2> QED BY <2>1 DEF Layout
<1>3. BlockSize % EntrySize = 0 /\ n = BlockSize \div EntrySize
  BY Fat12Assumption DEF EntriesPerSector
<1> HIDE DEF n, m, r
<1>4. n \in Nat /\ BlockSize = EntrySize * n
  BY <1>3, Sizes
<1>5. n # 0
  BY <1>4, Sizes
<1>6. PICK x \in Nat : x = m * EntrySize
  BY <1>1, Sizes
<1>7. x % BlockSize = 0
  BY <1>6 DEF Supported, m
<1>8. r = x \div BlockSize
  BY <1>2, <1>6, <1>7, Sizes, WholeSectors
<1>9. x = BlockSize * r
  BY <1>7, <1>8, Sizes
<1>10. EntrySize * (n * r) = EntrySize * m
  BY <1>1, <1>2, <1>4, <1>6, <1>9, Sizes
<1>11. n * r \in Nat /\ n * r = r * n
  BY <1>2, <1>4
<1>12. n * r = m
  BY <1>1, <1>10, <1>11, Sizes, Cancel
<1> QED BY <1>2, <1>4, <1>5, <1>11, <1>12 DEF n, m, r

\* Entry i of the directory's sector s is entry s * n + i of the directory.
LEMMA DirSectorIs ==
    ASSUME Formatted(disk), NEW s \in Nat, NEW n \in Nat \ {0}, n = EntriesPerSector
    PROVE  LET now == DirSector(Layout(disk.bpb).root_dir_start + s) IN
           /\ Len(now) = n
           /\ \A i \in 1 .. n :
                now[i] = IF s * n + i <= Len(disk.dir) THEN disk.dir[s * n + i] ELSE End
<1>1. PICK lba : lba = Layout(disk.bpb).root_dir_start + s
  OBVIOUS
<1> DEFINE first == (lba - Layout(disk.bpb).root_dir_start) * EntriesPerSector
           now == [i \in 1 .. EntriesPerSector |->
                    IF first >= 0 /\ first + i <= Len(disk.dir) THEN disk.dir[first + i] ELSE End]
<1>2. DirSector(lba) = now
  BY DEF DirSector
<1>3. first = s * n /\ first >= 0
  <2>1. PICK root \in Nat : root = Layout(disk.bpb).root_dir_start
    BY LayoutTyped DEF Formatted
  <2>2. lba - root = s
    BY <1>1, <2>1
  <2>3. lba - Layout(disk.bpb).root_dir_start = s
    BY <2>1, <2>2
  <2> QED BY <2>3
<1> HIDE DEF first
<1>4. Len(now) = n
  OBVIOUS
<1>5. ASSUME NEW i \in 1 .. n
      PROVE  now[i] = IF s * n + i <= Len(disk.dir) THEN disk.dir[s * n + i] ELSE End
  BY <1>3
<1> HIDE DEF now
<1> QED BY <1>1, <1>2, <1>4, <1>5, Zenon

\* A live entry stops the scan, and every one in front of it is no end.
LEMMA LiveStops ==
    ASSUME Formatted(disk), NEW name \in Seq(STRING), ValidName(name), NEW i \in Live(name)
    PROVE  /\ i \in 1 .. Len(disk.dir) /\ i <= disk.bpb.max_root_dir_entries
           /\ StopAt(i, name) /\ \A j \in 1 .. i : disk.dir[j].kind # "end"
<1>1. Len(disk.dir) \in Nat /\ disk.bpb.max_root_dir_entries \in Nat
  BY DEF Formatted, BootSectors
<1>2. PICK m \in {Len(disk.dir), disk.bpb.max_root_dir_entries} :
        /\ m = Min({Len(disk.dir), disk.bpb.max_root_dir_entries})
        /\ m <= Len(disk.dir) /\ m <= disk.bpb.max_root_dir_entries
  <2>1. /\ {Len(disk.dir), disk.bpb.max_root_dir_entries} \in SUBSET Nat
        /\ {Len(disk.dir), disk.bpb.max_root_dir_entries} # {}
    BY <1>1
  <2> QED BY <2>1, MinNat, Zenon
<1>3. /\ i \in 1 .. m /\ disk.dir[i].kind \in {"file", "directory"}
      /\ _fat12_8_3to_normal(disk.dir[i].name) = name
      /\ \A j \in 1 .. i : disk.dir[j].kind # "end"
  BY <1>2, Zenon DEF Live
<1>4. i \in 1 .. Len(disk.dir) /\ i <= disk.bpb.max_root_dir_entries
  BY <1>1, <1>2, <1>3
<1>5. IsName(disk.dir[i].name)
  BY <1>4, Zenon DEF Formatted
<1>6. disk.dir[i].name = _fat12_normal_to_8_3(name)
  BY <1>3, <1>5, SameName, Zenon
<1>7. ~Skipped(disk.dir[i])
  BY <1>3 DEF Skipped
<1> QED BY <1>3, <1>4, <1>6, <1>7, Zenon DEF StopAt

\* The first stop, if it is no end marker, is the first live entry.
LEMMA FirstStopIsLive ==
    ASSUME Formatted(disk), NEW name \in Seq(STRING), ValidName(name),
           NEW m \in 1 .. Len(disk.dir), m <= disk.bpb.max_root_dir_entries,
           \A i \in 1 .. m - 1 : ~StopAt(i, name), StopAt(m, name), disk.dir[m].kind # "end"
    PROVE  Live(name) # {} /\ Min(Live(name)) = m
<1>1. Len(disk.dir) \in Nat /\ disk.bpb.max_root_dir_entries \in Nat
  BY DEF Formatted, BootSectors
<1>2. IsName(disk.dir[m].name) /\ disk.dir[m].kind \in Kinds
  BY Zenon DEF Formatted, IsEntry
<1>3. ~Skipped(disk.dir[m]) /\ disk.dir[m].name = _fat12_normal_to_8_3(name)
  BY Zenon DEF StopAt
<1>4. disk.dir[m].kind \in {"file", "directory"}
  BY <1>2, <1>3 DEF Skipped, Kinds
<1>5. _fat12_8_3to_normal(disk.dir[m].name) = name
  BY <1>2, <1>3, SameName, Zenon
<1>6. m \in 1 .. Min({Len(disk.dir), disk.bpb.max_root_dir_entries})
  <2>1. /\ {Len(disk.dir), disk.bpb.max_root_dir_entries} \in SUBSET Nat
        /\ {Len(disk.dir), disk.bpb.max_root_dir_entries} # {}
    BY <1>1
  <2>2. PICK x \in {Len(disk.dir), disk.bpb.max_root_dir_entries} :
          x = Min({Len(disk.dir), disk.bpb.max_root_dir_entries})
    BY <2>1, MinNat, Zenon
  <2>3. m \in 1 .. x
    BY <1>1
  <2> QED BY <2>2, <2>3
<1>7. \A j \in 1 .. m : disk.dir[j].kind # "end"
  <2>1. \A j \in 1 .. m : j = m \/ j \in 1 .. m - 1
    BY <1>1
  <2> QED BY <2>1, Zenon DEF StopAt
<1>8. m \in Live(name)
  BY <1>4, <1>5, <1>6, <1>7, Zenon DEF Live
<1>9. ASSUME NEW i \in Live(name) PROVE i \in Nat /\ m <= i
  <2>1. i \in 1 .. Len(disk.dir) /\ StopAt(i, name)
    BY LiveStops
  <2>2. i \notin 1 .. m - 1
    BY <2>1, Zenon
  <2> QED BY <1>1, <2>1, <2>2
<1>10. Live(name) \in SUBSET Nat /\ \A i \in Live(name) : m <= i
  BY <1>9, Zenon
<1> QED BY <1>8, <1>10, MinIs, Zenon

\* There is none where the entries in front of an end marker do not stop the
\* scan, or where all that there may be do not.
LEMMA NoneLive ==
    ASSUME Formatted(disk), NEW name \in Seq(STRING), ValidName(name), NEW m \in Nat,
           \A i \in 1 .. m : ~StopAt(i, name),
           \/ m >= Len(disk.dir) \/ m >= disk.bpb.max_root_dir_entries
           \/ m + 1 \in 1 .. Len(disk.dir) /\ disk.dir[m + 1].kind = "end"
    PROVE  Live(name) = {}
<1>1. Len(disk.dir) \in Nat /\ disk.bpb.max_root_dir_entries \in Nat
  BY DEF Formatted, BootSectors
<1>2. ASSUME NEW i \in Live(name) PROVE FALSE
  <2>1. /\ i \in 1 .. Len(disk.dir) /\ i <= disk.bpb.max_root_dir_entries
        /\ StopAt(i, name) /\ \A j \in 1 .. i : disk.dir[j].kind # "end"
    BY LiveStops
  <2>2. i \notin 1 .. m
    BY <2>1, Zenon
  <2>3. i >= m + 1 /\ m + 1 \in 1 .. i
    BY <1>1, <2>1, <2>2
  <2>4. disk.dir[m + 1].kind # "end"
    BY <2>1, <2>3, Zenon
  <2> QED BY <1>1, <2>1, <2>3, <2>4
<1> QED BY <1>2, Zenon

\* One sector: the scan goes on past it, or ends with the right answer.
ScanEnds(s, name, lba, now, stops) ==
    /\ stops = {} => NoStop((s + 1) * EntriesPerSector, name)
    /\ stops # {} /\ now[Min(stops)].kind = "end" => Answer(name) = NULL
    /\ stops # {} /\ now[Min(stops)].kind # "end" =>
        Answer(name) = [dir_entry |-> now[Min(stops)], dir_sector |-> lba,
                        dir_offset |-> Min(stops) - 1]

LEMMA ScanTurn ==
    ASSUME Formatted(disk), Supported, NEW name \in Seq(STRING), ValidName(name),
           NEW s \in Nat, s < Layout(disk.bpb).root_dir_sectors,
           NoStop(s * EntriesPerSector, name),
           NEW lba, lba = Layout(disk.bpb).root_dir_start + s, NEW now, now = DirSector(lba)
    PROVE  ScanEnds(s, name, lba, now, Stops(now, name))
<1>0. PICK n, stops : n = EntriesPerSector /\ stops = Stops(now, name)
  OBVIOUS
<1> DEFINE L == Len(disk.dir)
           max == disk.bpb.max_root_dir_entries
           r == Layout(disk.bpb).root_dir_sectors
<1>1. n \in Nat \ {0} /\ r \in Nat /\ r * n = max /\ s < r
  BY <1>0, RootEntries
<1>2. L \in Nat /\ max \in Nat
  BY DEF Formatted, BootSectors
<1>3. PICK first \in Nat : first = s * n
  BY <1>1
<1>4. first <= L /\ \A i \in 1 .. first : ~StopAt(i, name)
  BY <1>0, <1>3, Zenon DEF NoStop
<1>5. (s + 1) * n = first + n /\ first + n <= max
  <2> HIDE DEF r, max
  <2>1. PICK d \in Nat : r = s + 1 + d
    BY <1>1
  <2>2. (s + 1) * n = s * n + n /\ r * n = s * n + n + d * n /\ d * n \in Nat
    BY <1>1, <2>1
  <2> QED BY <1>1, <1>2, <1>3, <2>2
<1>6. Len(now) = n /\ \A i \in 1 .. n : now[i] = IF first + i <= L THEN disk.dir[first + i] ELSE End
  BY <1>0, <1>1, <1>3, DirSectorIs
<1>7. ASSUME NEW i \in 1 .. n, first + i <= L
      PROVE  now[i] = disk.dir[first + i] /\ (i \in stops <=> StopAt(first + i, name))
  <2>1. now[i] = disk.dir[first + i]
    BY <1>6, <1>7
  <2>2. i \in stops <=> \/ now[i].kind = "end"
                        \/ ~Skipped(now[i]) /\ now[i].name = _fat12_normal_to_8_3(name)
    BY <1>0, <1>6, Zenon DEF Stops
  <2> QED BY <2>1, <2>2, Zenon DEF StopAt
<1>8. ASSUME NEW i \in 1 .. n, ~(first + i <= L) PROVE now[i].kind = "end" /\ i \in stops
  <2>1. now[i] = End
    BY <1>6, <1>8
  <2>2. End.kind = "end"
    BY DEF End
  <2> QED BY <1>0, <1>6, <2>1, <2>2, Zenon DEF Stops
<1> HIDE DEF L, max, r
<1>9. ASSUME NEW k \in 0 .. n, \A i \in 1 .. k : i \notin stops
      PROVE  first + k <= L /\ \A j \in 1 .. first + k : ~StopAt(j, name)
  <2>1. \A i \in 1 .. k : i \in 1 .. n
    BY <1>1
  <2>2. \A i \in 1 .. k : first + i <= L /\ ~StopAt(first + i, name)
    BY <1>7, <1>8, <1>9, <2>1, Zenon
  <2>3. first + k <= L
    <3>1. k = 0 \/ k \in 1 .. k
      BY <1>1
    <3>2. k = 0 => first + k <= L
      BY <1>4, <1>2
    <3> QED BY <2>2, <3>1, <3>2, Zenon
  <2>4. ASSUME NEW j \in 1 .. first + k PROVE ~StopAt(j, name)
    <3>1. j \in 1 .. first \/ (j - first \in 1 .. k /\ first + (j - first) = j)
      BY <1>1
    <3>2. CASE j \in 1 .. first
      BY <1>4, <3>2, Zenon
    <3>3. CASE j - first \in 1 .. k /\ first + (j - first) = j
      <4>1. ~StopAt(first + (j - first), name)
        BY <2>2, <3>3, Zenon
      <4> QED BY <3>3, <4>1, Zenon
    <3> QED BY <3>1, <3>2, <3>3, Zenon
  <2> QED BY <2>3, <2>4, Zenon
<1>10. stops = {} => NoStop((s + 1) * n, name)
  <2>1. n \in 0 .. n
    BY <1>1
  <2>2. stops = {} => first + n <= L /\ \A j \in 1 .. first + n : ~StopAt(j, name)
    BY <1>9, <2>1, Zenon
  <2> QED BY <1>5, <2>2, Zenon DEF NoStop, L
<1>11. ASSUME stops # {}, NEW k, k = Min(stops)
       PROVE  /\ now[k].kind = "end" => Answer(name) = NULL
              /\ now[k].kind # "end" =>
                    Answer(name) = [dir_entry |-> now[k], dir_sector |-> lba, dir_offset |-> k - 1]
  <2>1. stops \in SUBSET Nat /\ stops \subseteq 1 .. n
    BY <1>0, <1>1, <1>6 DEF Stops
  <2>2. k \in stops /\ k \in 1 .. n /\ \A j \in stops : k <= j
    BY <1>11, <2>1, MinNat, Zenon
  <2>3. k - 1 \in 0 .. n /\ \A i \in 1 .. k - 1 : ~(k <= i)
    BY <1>1, <2>2
  <2>4. \A i \in 1 .. k - 1 : i \notin stops
    BY <2>2, <2>3, Zenon
  <2>5. PICK m \in Nat : m = first + (k - 1) /\ m + 1 = first + k
    BY <1>1, <2>2
  <2>6. m <= L /\ \A j \in 1 .. m : ~StopAt(j, name)
    BY <1>9, <2>3, <2>4, <2>5, Zenon
  <2>7. CASE ~(first + k <= L)
    <3>1. now[k].kind = "end"
      BY <1>8, <2>2, <2>7, Zenon
    <3>2. m >= L
      BY <1>2, <2>5, <2>7
    <3>3. Live(name) = {}
      BY <2>6, <3>2, NoneLive DEF L
    <3> QED BY <3>1, <3>3, Zenon DEF Answer
  <2>8. CASE first + k <= L /\ now[k].kind = "end"
    <3>1. disk.dir[m + 1].kind = "end"
      BY <1>7, <2>2, <2>5, <2>8, Zenon
    <3>2. m + 1 \in 1 .. L
      BY <1>2, <2>5, <2>8
    <3>3. Live(name) = {}
      BY <2>6, <3>1, <3>2, NoneLive DEF L
    <3> QED BY <2>8, <3>3, Zenon DEF Answer
  <2>9. CASE first + k <= L /\ now[k].kind # "end"
    <3>1. PICK e : e = first + k
      OBVIOUS
    <3>2. now[k] = disk.dir[e] /\ StopAt(e, name) /\ disk.dir[e].kind # "end"
      BY <1>7, <2>2, <2>9, <3>1, Zenon
    <3>3. e \in 1 .. L /\ e <= max /\ e - 1 = m
      BY <1>1, <1>2, <1>5, <2>2, <2>5, <2>9, <3>1
    <3>4. \A i \in 1 .. e - 1 : ~StopAt(i, name)
      BY <2>6, <3>3
    <3>5. Live(name) # {} /\ Min(Live(name)) = e
      BY <3>2, <3>3, <3>4, FirstStopIsLive DEF L, max
    <3>6. m \div n = s /\ m % n = k - 1
      <4>1. k - 1 \in 0 .. n - 1 /\ m = n * s + (k - 1) /\ s \in Int
        BY <1>1, <1>3, <2>2, <2>5
      <4> QED BY <1>1, <4>1, DivModIs
    <3>7. Answer(name) = [dir_entry |-> disk.dir[m + 1],
                          dir_sector |-> Layout(disk.bpb).root_dir_start + m \div n,
                          dir_offset |-> m % n]
      BY <1>0, <3>3, <3>5, Zenon DEF Answer
    <3> QED BY <2>5, <2>9, <3>1, <3>2, <3>6, <3>7, Zenon
  <2> QED BY <2>7, <2>8, <2>9
<1> QED BY <1>0, <1>10, <1>11, Zenon DEF ScanEnds

\* A step that leaves disk, workload and path alone promises no more than
\* before, and the answer is the same.
LEMMA SameLookup ==
    ASSUME disk' = disk, oom' = oom, result' = result, ~harmed' => ~harmed
    PROVE  /\ Due' => Due
           /\ Sought' = Sought
           /\ Answer(Sought)' = Answer(Sought)
           /\ \A n : NoStop(n, Sought) => NoStop(n, Sought)'
<1>1. Sought' = Sought
  BY Zenon DEF Sought
<1>2. Supported' <=> Supported
  BY DEF Supported
<1>3. Due' => Due
  BY <1>1, <1>2, Zenon DEF Due, ValidName
<1>4. Live(Sought)' = Live(Sought)
  BY <1>1 DEF Live
<1>5. Answer(Sought)' = Answer(Sought)
  BY <1>4 DEF Answer
<1>6. \A n : NoStop(n, Sought) => NoStop(n, Sought)'
  BY <1>1, Zenon DEF NoStop, StopAt
<1> QED BY <1>1, <1>3, <1>5, <1>6, Zenon

LEMMA LookupTurn ==
    ASSUME Typed, Geometry, Resolved, LookupExact, NEW driver_ok \in BOOLEAN, NEW alloc \in Allocs,
           _fat12_lookup(result.rel_path, driver_ok, alloc), UNCHANGED <<inputs, oom, path, result>>
    PROVE  LookupExact'
<1> DEFINE lba   == fs.root_dir_start + sector
           ok    == blkread(fs.block_dev, lba, driver_ok)
           now   == IF ok THEN DirSector(lba) ELSE entries
           stops == Stops(now, Sought)
           hit   == now[Min(stops)]
<1>1. /\ pc = "scan" /\ sector < fs.root_dir_sectors /\ disk' = disk /\ fs' = fs
      /\ harmed' = (harmed \/ ~driver_ok)
      /\ \/ stops = {} /\ sector' = sector + 1 /\ pc' = pc /\ found' = found
         \/ stops # {} /\ hit.kind = "end" /\ pc' = "mounted" /\ found' = found
         \/ /\ stops # {} /\ hit.kind # "end" /\ pc' = "mounted"
            /\ found' = IF {"vnode", "inode"} \subseteq alloc
                        THEN [dir_entry |-> hit, dir_sector |-> lba, dir_offset |-> Min(stops) - 1]
                        ELSE NULL
  BY Zenon DEF _fat12_lookup, Sought
<1>2. pc' \notin Mounting
  BY <1>1 DEF Mounting
<1>3. CASE ~Due'
  BY <1>2, <1>3, Zenon DEF LookupExact
<1>4. CASE Due'
  <2>1. ~harmed /\ driver_ok
    BY <1>1, <1>4, Zenon DEF Due
  <2>2. Due /\ Sought' = Sought /\ Answer(Sought)' = Answer(Sought)
        /\ \A n : NoStop(n, Sought) => NoStop(n, Sought)'
    BY <1>1, <1>4, <2>1, SameLookup, Zenon
  <2>3. Supported /\ ValidName(Sought) /\ result # NULL /\ ~oom
    BY <2>2, Zenon DEF Due
  <2>4. Formatted(disk) /\ sector \in Nat
    BY Zenon DEF Typed, InputsTyped, Control
  <2>5. Sought \in Seq(STRING)
    BY <2>3, SoughtIsString, Zenon
  <2>6. /\ fs.root_dir_start = Layout(disk.bpb).root_dir_start
        /\ fs.root_dir_sectors = Layout(disk.bpb).root_dir_sectors
    BY <1>1, <2>1, <2>3, <2>4, SupportedLayout DEF Geometry, WithHandle
  <2>7. lba < NumBlocks
    <3>1. disk.bpb \in BootSectors
      BY <2>4 DEF Formatted
    <3>2. /\ fs.root_dir_start \in Nat /\ fs.root_dir_sectors \in Nat
          /\ fs.root_dir_start + fs.root_dir_sectors <= NumBlocks
      BY <2>3, <2>6, <3>1, LayoutTyped DEF Supported
    <3> QED BY <1>1, <2>4, <3>2, VolumeAssumption
  <2>8. fs.block_dev # NULL /\ fs.block_dev.num_blocks = NumBlocks
    <3>1. fs \in Handles(Tables(fs.bpb.sectors_per_fat * BlockSize)) /\ fs.block_dev # NULL
      BY <1>1 DEF Typed, HandleTyped, Control, WithHandle, WithTable
    <3>2. fs.block_dev \in Devices
      BY <3>1 DEF Handles
    <3> QED BY <3>1, <3>2 DEF Devices
  <2>9. ok
    BY <2>1, <2>7, <2>8 DEF blkread, InRange
  <2>10. now = DirSector(lba)
    BY <2>9, Zenon
  <2>11. found = NULL /\ NoStop(sector * EntriesPerSector, Sought)
    BY <1>1, <2>2, Zenon DEF LookupExact
  <2>12. {"vnode", "inode"} \subseteq alloc
    <3>1. alloc = Allocations
      BY <2>3, Zenon DEF Allocs
    <3> QED BY <3>1 DEF Allocations, NeverFreed
  <2>13. lba = Layout(disk.bpb).root_dir_start + sector /\ sector < Layout(disk.bpb).root_dir_sectors
    BY <1>1, <2>6
  <2> HIDE DEF lba, ok, now
  <2>14. /\ stops = {} => NoStop((sector + 1) * EntriesPerSector, Sought)
         /\ stops # {} /\ hit.kind = "end" => Answer(Sought) = NULL
         /\ stops # {} /\ hit.kind # "end" =>
                Answer(Sought) = [dir_entry |-> hit, dir_sector |-> lba,
                                  dir_offset |-> Min(stops) - 1]
    <3>1. ScanEnds(sector, Sought, lba, now, stops)
      BY <2>3, <2>4, <2>5, <2>10, <2>11, <2>13, ScanTurn, Zenon
    <3> QED BY <3>1, Zenon DEF ScanEnds
  <2> HIDE DEF stops, hit
  <2>15. CASE stops = {} /\ sector' = sector + 1 /\ pc' = pc /\ found' = found
    <3>1. sector' * EntriesPerSector = (sector + 1) * EntriesPerSector
      BY <2>15, Zenon
    <3>2. NoStop(sector * EntriesPerSector, Sought)'
      BY <2>2, <2>14, <2>15, <3>1, Zenon
    <3>3. pc' = "scan" /\ found' = NULL
      BY <1>1, <2>11, <2>15, Zenon
    <3> QED BY <1>2, <3>2, <3>3 DEF LookupExact
  <2>16. CASE pc' = "mounted" /\ found' = Answer(Sought)
    BY <1>2, <2>2, <2>16 DEF LookupExact
  <2> QED BY <1>1, <2>11, <2>12, <2>14, <2>15, <2>16, Zenon
<1> QED BY <1>3, <1>4

\* A step that keeps the answer, and one after which no lookup is due.
KeepsAnswer ==
    /\ disk' = disk /\ oom' = oom /\ result' = result /\ found' = found
    /\ ~harmed' => ~harmed
    /\ pc \in {"mounted", "loop", "return"} /\ pc' \in {"mounted", "loop", "return", "fault"}

LEMMA AnswerKept == LookupExact /\ KeepsAnswer => LookupExact'
<1> SUFFICES ASSUME LookupExact, KeepsAnswer PROVE LookupExact'
  OBVIOUS
<1>1. pc' \notin Mounting /\ pc' # "scan"
  BY DEF KeepsAnswer, Mounting
<1>2. Due' => Due /\ Answer(Sought)' = Answer(Sought)
  BY SameLookup, Zenon DEF KeepsAnswer
<1>3. Due' => found' = Answer(Sought)'
  BY <1>2, Zenon DEF LookupExact, KeepsAnswer
<1> QED BY <1>1, <1>3, Zenon DEF LookupExact

LEMMA NoneDue ==
    ASSUME result' = NULL \/ (pc' \notin Mounting /\ result'.mount # MountedAt)
    PROVE  LookupExact'
<1>1. ~Due'
  BY Zenon DEF Due
<1> QED BY <1>1, Zenon DEF LookupExact

LEMMA LookupExactStep == Typed /\ Geometry /\ Resolved /\ LookupExact /\ [Next]_vars => LookupExact'
<1> SUFFICES ASSUME Typed, Geometry, Resolved, LookupExact, [Next]_vars PROVE LookupExact'
  OBVIOUS
<1>1. pc \in Mounting /\ result' = result => LookupExact'
  BY NoneDue, Zenon DEF LookupExact
<1>2. {"down", "bootsector", "device", "fat_table", "load", "vroot", "mount_at"} \subseteq Mounting
  BY DEF Mounting
<1>3. Register \/ Mount \/ MountReads => pc \in Mounting /\ result' = result
  <2>1. Register => pc = "down" /\ result' = result
    BY Zenon DEF Register
  <2>2. ASSUME NEW alloc PROVE
          /\ fat12_mount(alloc) => pc = "down"
          /\ fat12_mount_bootsector(alloc) => pc = "bootsector"
          /\ fat12_mount_vfs(alloc) => pc = "load"
          /\ fat12_mount_root(alloc) => pc = "vroot"
          /\ vfs_mount_at(alloc) => pc = "mount_at"
          /\ fat12_mount_fails("fd0", alloc) => pc \in {"bootsector", "device", "fat_table", "load"}
    BY Zenon DEF fat12_mount, fat12_mount_bootsector, fat12_mount_vfs, fat12_mount_root,
                 vfs_mount_at, fat12_mount_fails
  <2>3. ASSUME NEW alloc, NEW junk, fat12_mount_fat_table(alloc, junk) PROVE pc = "fat_table"
    BY <2>3, Zenon DEF fat12_mount_fat_table
  <2>4. Mount => pc \in Mounting /\ result' = result
    BY <1>2, <2>2, <2>3, Zenon DEF Mount
  <2>5. ASSUME NEW driver_ok, NEW garbage, fat12_mount_device("fd0", driver_ok, garbage)
        PROVE  pc = "device"
    BY <2>5, Zenon DEF fat12_mount_device
  <2>6. ASSUME NEW driver_ok, fat12_mount_load(driver_ok) PROVE pc = "load"
    BY <2>6, Zenon DEF fat12_mount_load
  <2>7. MountReads => pc \in Mounting /\ result' = result
    BY <1>2, <2>5, <2>6, Zenon DEF MountReads
  <2> QED BY <1>2, <2>1, <2>4, <2>7, Zenon
<1>4. ASSUME NEW p \in Input.paths, vfs_open(p) PROVE LookupExact'
  <2>1. CASE result' # NULL /\ result'.mount = MountedAt
    <3>1. PICK stack : fat12_open(stack)
      BY <1>4, <2>1, Zenon DEF vfs_open
    <3>2. pc' = "scan" /\ sector' = 0 /\ found' = NULL /\ disk' = disk
      BY <3>1, Zenon DEF fat12_open
    <3>3. NoStop(sector * EntriesPerSector, Sought)'
      <4>1. EntriesPerSector \in Nat
        BY Sizes DEF EntriesPerSector
      <4>2. sector' * EntriesPerSector = 0 /\ \A i \in 1 .. 0 : FALSE
        BY <3>2, <4>1
      <4>3. 0 <= Len(disk.dir)
        BY DEF Typed, InputsTyped, Formatted
      <4> QED BY <3>2, <4>2, <4>3, Zenon DEF NoStop
    <3>4. pc' \notin Mounting
      BY <3>2 DEF Mounting
    <3> QED BY <3>2, <3>3, <3>4 DEF LookupExact
  <2>2. CASE ~(result' # NULL /\ result'.mount = MountedAt)
    <3>1. pc' = pc /\ pc = "mounted"
      BY <1>4, <2>2, Zenon DEF vfs_open
    <3>2. pc' \notin Mounting
      BY <3>1 DEF Mounting
    <3> QED BY <2>2, <3>2, NoneDue, Zenon
  <2> QED BY <2>1, <2>2
<1>5. ASSUME Lookup PROVE LookupExact'
  <2>1. UNCHANGED <<inputs, oom, path, result>>
    BY <1>5, Zenon DEF Lookup
  <2>2. DriverAnswers \subseteq BOOLEAN
    BY Zenon DEF DriverAnswers
  <2>3. CASE \E driver_ok \in DriverAnswers, alloc \in Allocs :
                _fat12_lookup(result.rel_path, driver_ok, alloc)
    BY <2>1, <2>2, <2>3, LookupTurn, Zenon
  <2>4. CASE _fat12_lookup_fails
    <3>1. /\ pc = "scan" /\ sector >= fs.root_dir_sectors /\ pc' = "mounted"
          /\ disk' = disk /\ fs' = fs /\ harmed' = harmed /\ found' = found
      BY <2>4, Zenon DEF _fat12_lookup_fails
    <3>2. pc' \notin Mounting
      BY <3>1 DEF Mounting
    <3>3. CASE ~Due'
      BY <3>2, <3>3, Zenon DEF LookupExact
    <3>4. CASE Due'
      <4>1. Due /\ Answer(Sought)' = Answer(Sought)
        BY <2>1, <3>1, <3>4, SameLookup, Zenon
      <4>2. Supported /\ ValidName(Sought) /\ result # NULL /\ ~harmed
        BY <4>1, Zenon DEF Due
      <4>3. Formatted(disk) /\ sector \in Nat
        BY Zenon DEF Typed, InputsTyped, Control
      <4>4. fs.root_dir_sectors = Layout(disk.bpb).root_dir_sectors
        BY <3>1, <4>2, <4>3, SupportedLayout DEF Geometry, WithHandle
      <4>5. found = NULL /\ NoStop(sector * EntriesPerSector, Sought)
        BY <3>1, <4>1, Zenon DEF LookupExact
      <4>6. /\ sector * EntriesPerSector \in Nat
            /\ sector * EntriesPerSector >= disk.bpb.max_root_dir_entries
        <5>1. PICK n \in Nat \ {0}, r \in Nat : /\ n = EntriesPerSector /\ r = fs.root_dir_sectors
                                              /\ r * n = disk.bpb.max_root_dir_entries
          BY <4>2, <4>3, <4>4, RootEntries
        <5>2. PICK d \in Nat : sector = r + d
          <6>1. sector - r \in Nat /\ sector = r + (sector - r)
            BY <3>1, <4>3, <5>1
          <6> QED BY <6>1, Zenon
        <5>3. sector * n = r * n + d * n /\ d * n \in Nat /\ r * n \in Nat
          BY <5>2
        <5> QED BY <5>1, <5>3
      <4>7. Sought \in Seq(STRING)
        BY <4>2, SoughtIsString, Zenon
      <4>8. Live(Sought) = {}
        <5>1. PICK m \in Nat : m = sector * EntriesPerSector /\ m >= disk.bpb.max_root_dir_entries
          BY <4>6, Zenon
        <5>2. \A i \in 1 .. m : ~StopAt(i, Sought)
          BY <4>5, <5>1, Zenon DEF NoStop
        <5> QED BY <4>2, <4>3, <4>7, <5>1, <5>2, NoneLive
      <4>9. found' = Answer(Sought)'
        BY <3>1, <4>1, <4>5, <4>8, Zenon DEF Answer
      <4> QED BY <3>1, <3>2, <4>9 DEF LookupExact
    <3> QED BY <3>3, <3>4
  <2> QED BY <1>5, <2>3, <2>4, Zenon DEF Lookup
<1>6. Read => KeepsAnswer
  <2>1. ASSUME NEW o, NEW n, NEW alloc PROVE
          fat12_read(o, n, alloc) \/ fat12_read_nothing(o, n, alloc) \/ fat12_read_faults(o, n)
            => /\ disk' = disk /\ found' = found /\ harmed' = harmed
               /\ pc = "mounted" /\ pc' \in {"mounted", "loop", "fault"}
    BY Zenon DEF fat12_read, fat12_read_nothing, fat12_read_faults
  <2>2. fat12_read_overruns \/ fat12_read_return
            => /\ disk' = disk /\ found' = found /\ harmed' = harmed
               /\ pc \in {"loop", "return"} /\ pc' \in {"mounted", "fault"}
    BY Zenon DEF fat12_read_overruns, fat12_read_return
  <2> QED BY <2>1, <2>2, Zenon DEF Read, KeepsAnswer
<1>7. ReadLoop => KeepsAnswer
  BY Zenon DEF ReadLoop, fat12_read_cluster, KeepsAnswer
<1>8. Unmount => LookupExact'
  BY NoneDue, Zenon DEF Unmount
<1>9. ASSUME UNCHANGED vars PROVE LookupExact'
  <2>1. /\ disk' = disk /\ oom' = oom /\ result' = result /\ found' = found /\ harmed' = harmed
        /\ pc' = pc /\ sector' = sector
    BY <1>9, Zenon DEF vars, fat12_vars
  <2>2. /\ Due' => Due
        /\ Sought' = Sought
        /\ Answer(Sought)' = Answer(Sought)
        /\ \A n : NoStop(n, Sought) => NoStop(n, Sought)'
    BY <2>1, SameLookup, Zenon
  <2>3. NoStop(sector * EntriesPerSector, Sought) => NoStop(sector * EntriesPerSector, Sought)'
    BY <2>1, <2>2, Zenon
  <2> QED BY <2>1, <2>2, <2>3, Zenon DEF LookupExact
<1> QED BY <1>1, <1>3, <1>4, <1>5, <1>6, <1>7, <1>8, <1>9, AnswerKept, Zenon DEF Next

(***************************************************************************)
(* fat12_open: on every formatted disk, a lookup whose reads and           *)
(* allocations succeed finds the first live entry of the name in front of  *)
(* the end marker, and none if there is none.                              *)
(***************************************************************************)
THEOREM VolumeLookupFindsTheFile == Spec => []LookupFindsTheFile
<1>1. Init => LookupExact /\ Resolved
  BY Zenon DEF Init, Fat12Init, LookupExact, Due, Resolved
<1>2. Typed /\ Geometry /\ Resolved /\ LookupExact /\ [Next]_vars => Resolved' /\ LookupExact'
  BY LookupExactStep, ResolvedStep, Zenon DEF Typed
<1>3. LookupExact => LookupFindsTheFile
  <2> SUFFICES ASSUME LookupExact, pc = "mounted", Due PROVE found = Answer(Sought)
    BY Zenon DEF LookupFindsTheFile, Due, Sought, Answer
  <2> QED BY DEF LookupExact
<1>4. Spec => [](Resolved /\ LookupExact)
  BY <1>1, <1>2, VolumeTyped, VolumeKnows, PTL DEF Spec
<1> QED BY <1>3, <1>4, PTL
=============================================================================
