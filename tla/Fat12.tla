------------------------------- MODULE Fat12 -------------------------------
(***************************************************************************)
(* The FAT12 filesystem, fs/fat12.c: mounting and unmounting, the lookup   *)
(* of a file in the root directory, and reads, on top of the block layer.  *)
(*                                                                         *)
(* The disk, the variable disk, is fixed in a behaviour: its boot sector's *)
(* parameters, the entries of the root directory, and the clusters of the  *)
(* file, in order.  A byte of the disk is known by its place, <<sector,    *)
(* offset>>, so that a wrong byte in a buffer is told from the right one;  *)
(* only the bytes of the FAT have values.  Sectors are as long as the      *)
(* blocks of the device.                                                   *)
(***************************************************************************)
EXTENDS Block, Fat12Dir

CONSTANTS Clusters,         \* data clusters of the disk, from 2 on
          BlockSize,        \* bytes of a sector (512)
          EntrySize,        \* bytes of a directory entry (32)
          JunkBytes,        \* what memory fresh from malloc may hold
          Word              \* 2^32: uint32_t arithmetic wraps here

ASSUME Fat12Assumption ==
    /\ Clusters \subseteq 2 .. 4079 /\ JunkBytes \subseteq 0 .. 255
    /\ BlockSize \in Nat \ {0} /\ EntrySize \in Nat \ {0} /\ Word \in Nat \ {0}
    /\ BlockSize % EntrySize = 0

EOC == 4095            \* FAT12_EOC
FAT12_EOC_MIN == 4088
Short == 256 * 256     \* 2^16: uint16_t arithmetic wraps here
JUNK == -1             \* a buffer malloc returned, not yet read into

EntriesPerSector == BlockSize \div EntrySize   \* "read 16 entries at a time"

VARIABLES disk,
          pc,         \* where the filesystem's code is
          heap,       \* the memory of the mount and its files that is allocated
          fs,         \* fat12_handle_t
          sector,     \* turn of the loop over the FAT's or the directory's sectors
          entries,    \* the sector of the directory in the stack buffer
          harmed,     \* a read of this mount failed: nothing is promised any more
          found,      \* the inode the lookup made, NULL if it found none
          offs, size, curr_cluster, cluster_count, clusters_to_read,
          read_buf,   \* the sector in the cluster buffer
          buf,        \* the caller's buffer
          ret

call == <<offs, size, curr_cluster, cluster_count, clusters_to_read, read_buf, buf, ret>>
fat12_vars == <<disk, pc, heap, fs, sector, entries, harmed, found, call, block_devices>>

Steps == {"down", "bootsector", "device", "fat_table", "load", "vfs", "vroot", "root_inode",
          "mount_at", "mounted", "scan", "loop", "return", "fault"}

\* What a mount allocates and an unmount frees, and what nobody frees: the
\* vnode vfs_mount makes for the mount point, and the vnode and inode of an
\* opened file (fat12_close is empty).  A second one of a kind is not told
\* from the first.
Memory == {"handle", "bootsector", "fat_table", "vfs", "vroot", "root_inode"}
NeverFreed == {"mount_at", "vnode", "inode"}

NoCall ==
    /\ offs = 0 /\ size = 0 /\ buf = << >> /\ ret = 0 /\ read_buf = JUNK
    /\ curr_cluster = 0 /\ cluster_count = 0 /\ clusters_to_read = 0

Fat12Init ==
    /\ BlockInit /\ NoCall
    /\ pc = "down" /\ heap = {} /\ fs = NULL /\ sector = 0 /\ entries = << >>
    /\ harmed = FALSE /\ found = NULL

-----------------------------------------------------------------------------
(***************************************************************************)
(* What is on the disk.                                                    *)
(***************************************************************************)

\* The parameters of a boot sector, and a directory entry.
BootSectors ==
    [hidden_sectors : Nat, rsrvd_cnt : Nat, num_fats : Nat, sectors_per_fat : Nat,
     max_root_dir_entries : Nat, bytes_per_sector : {0, BlockSize}, sectors_per_cluster : Nat]

IsEntry(e) == e.kind \in Kinds /\ e.cluster \in Nat /\ e.size \in Nat

\* The areas, as the FAT12 format defines them: reserved sectors, the FATs,
\* the root directory (its last sector perhaps in part), the data.
Layout(bpb) ==
    LET fat_start == bpb.hidden_sectors + bpb.rsrvd_cnt
        root      == fat_start + bpb.num_fats * bpb.sectors_per_fat
        sectors   == (bpb.max_root_dir_entries * EntrySize + BlockSize - 1) \div BlockSize
    IN  [fat_start |-> fat_start, root_dir_start |-> root,
         root_dir_sectors |-> sectors, data_area_start |-> root + sectors]

\* The links of a file that occupies the clusters ch.
LinkOf(ch, c) ==
    IF c \notin Range(ch) THEN 0
    ELSE LET i == CHOOSE i \in DOMAIN ch : ch[i] = c
         IN  IF i = Len(ch) THEN EOC ELSE ch[i + 1]

\* Byte i of a FAT: two entries of 12 bits in three bytes.
FatByte(ch, i) ==
    LET e == 2 * (i \div 3) IN
    CASE i % 3 = 0 -> LinkOf(ch, e) % 256
      [] i % 3 = 1 -> LinkOf(ch, e) \div 256 + 16 * (LinkOf(ch, e + 1) % 16)
      [] i % 3 = 2 -> LinkOf(ch, e + 1) \div 16

\* Byte o of a sector, where the values of bytes matter: in a FAT.
DiskByte(lba, o) ==
    LET at == Layout(disk.bpb) IN
    IF lba \in at.fat_start .. at.root_dir_start - 1
    THEN FatByte(disk.chain, ((lba - at.fat_start) % disk.bpb.sectors_per_fat) * BlockSize + o)
    ELSE 0

End == [kind |-> "end", name |-> [i \in 1 .. NAME + EXT |-> PAD], cluster |-> 0, size |-> 0]

\* The directory entries in a sector; past the last there are zeros, and so
\* there are where no directory is.
DirSector(lba) ==
    LET first == (lba - Layout(disk.bpb).root_dir_start) * EntriesPerSector IN
    [i \in 1 .. EntriesPerSector |->
        IF first >= 0 /\ first + i <= Len(disk.dir) THEN disk.dir[first + i] ELSE End]

-----------------------------------------------------------------------------
(***************************************************************************)
(* fat12_mount.  No result of a read is looked at.                         *)
(***************************************************************************)

\* The first allocation.
fat12_mount(alloc) ==
    /\ pc = "down"
    /\ "handle" \in alloc
    /\ pc' = "bootsector" /\ heap' = heap \cup {"handle"} /\ harmed' = FALSE
    /\ UNCHANGED <<disk, fs, sector, entries, found, call, block_devices>>

fat12_mount_bootsector(alloc) ==
    /\ pc = "bootsector"
    /\ "bootsector" \in alloc
    /\ pc' = "device" /\ heap' = heap \cup {"bootsector"}
    /\ UNCHANGED <<disk, fs, sector, entries, harmed, found, call, block_devices>>

\* Mutant of Handle: the root directory behind the first FAT.
Handle_one_fat(dev, bpb) ==
    LET fat_start == (bpb.hidden_sectors % 256) + bpb.rsrvd_cnt
        root      == fat_start + bpb.sectors_per_fat
        sectors   == (bpb.max_root_dir_entries * EntrySize) \div bpb.bytes_per_sector
    IN  [block_dev |-> dev, bpb |-> bpb, fat_start |-> fat_start, root_dir_start |-> root,
         root_dir_sectors |-> sectors, data_area_start |-> root + sectors,
         fat_table |-> NULL]

\* The areas as the code computes them: lba_begin is a uint8_t, and the
\* sectors of the directory are rounded down.
Handle(dev, bpb) ==
    LET fat_start == (bpb.hidden_sectors % 256) + bpb.rsrvd_cnt
        root      == fat_start + bpb.num_fats * bpb.sectors_per_fat
        sectors   == (bpb.max_root_dir_entries * EntrySize) \div bpb.bytes_per_sector
    IN  [block_dev |-> dev, bpb |-> bpb, fat_start |-> fat_start, root_dir_start |-> root,
         root_dir_sectors |-> sectors, data_area_start |-> root + sectors,
         fat_table |-> NULL]

\* The boot sector is read, or what malloc returned is taken for one: a
\* sector size of 0 there is a division by zero.
fat12_mount_device(name, driver_ok, garbage) ==
    LET dev == blkdev_get_by_name(name)
        bpb == IF blkread(dev, 0, driver_ok) THEN disk.bpb ELSE garbage
    IN
    /\ pc = "device" /\ dev # NULL
    /\ harmed' = ~driver_ok
    /\ \/ /\ bpb.bytes_per_sector = 0
          /\ pc' = "fault" /\ UNCHANGED fs
       \/ /\ bpb.bytes_per_sector # 0
          /\ pc' = "fat_table" /\ fs' = Handle(dev, bpb)
    /\ UNCHANGED <<disk, heap, sector, entries, found, call, block_devices>>

fat12_mount_fat_table(alloc, junk) ==
    /\ pc = "fat_table"
    /\ "fat_table" \in alloc
    /\ pc' = "load" /\ heap' = heap \cup {"fat_table"} /\ sector' = 0
    /\ fs' = [fs EXCEPT !.fat_table =
                [bytes |-> [i \in 0 .. fs.bpb.sectors_per_fat * BlockSize - 1 |-> junk],
                 beyond |-> junk]]
    /\ UNCHANGED <<disk, entries, harmed, found, call, block_devices>>

\* One turn of the loop that reads the FAT.
fat12_mount_load(driver_ok) ==
    LET lba == fs.fat_start + sector
        ok  == blkread(fs.block_dev, lba, driver_ok)
    IN
    /\ pc = "load" /\ sector < fs.bpb.sectors_per_fat
    /\ fs' = IF ~ok THEN fs
             ELSE [fs EXCEPT !.fat_table.bytes =
                    [i \in DOMAIN @ |-> IF i \div BlockSize = sector
                                        THEN DiskByte(lba, i % BlockSize) ELSE @[i]]]
    /\ harmed' = (harmed \/ ~driver_ok)
    /\ sector' = sector + 1
    /\ UNCHANGED <<disk, pc, heap, entries, found, call, block_devices>>

fat12_mount_vfs(alloc) ==
    /\ pc = "load" /\ sector >= fs.bpb.sectors_per_fat
    /\ "vfs" \in alloc
    /\ pc' = "vroot" /\ heap' = heap \cup {"vfs"} /\ sector' = 0
    /\ UNCHANGED <<disk, fs, entries, harmed, found, call, block_devices>>

\* The root vnode and its inode; neither allocation is checked.
fat12_mount_root(alloc) ==
    /\ pc = "vroot"
    /\ \/ /\ {"vroot", "root_inode"} \subseteq alloc
          /\ pc' = "mount_at" /\ heap' = heap \cup {"vroot", "root_inode"}
       \/ /\ ~({"vroot", "root_inode"} \subseteq alloc)
          /\ pc' = "fault" /\ UNCHANGED heap
    /\ UNCHANGED <<disk, fs, sector, entries, harmed, found, call, block_devices>>

\* Mutant of CleanUp: the FAT is forgotten when the vfs cannot be allocated.
CleanUp_forgets ==
    CASE pc = "bootsector" -> {"handle"}
      [] OTHER -> {"handle", "bootsector"}

\* What each error path frees.
CleanUp ==
    CASE pc = "bootsector" -> {"handle"}
      [] pc \in {"device", "fat_table"} -> {"handle", "bootsector"}
      [] pc = "load" -> {"handle", "bootsector", "fat_table"}

\* No memory, or no such device: mounting ends with NULL.
fat12_mount_fails(name, alloc) ==
    /\ \/ pc = "bootsector" /\ "bootsector" \notin alloc
       \/ pc = "device" /\ blkdev_get_by_name(name) = NULL
       \/ pc = "fat_table" /\ "fat_table" \notin alloc
       \/ pc = "load" /\ sector >= fs.bpb.sectors_per_fat /\ "vfs" \notin alloc
    /\ pc' = "down" /\ heap' = heap \ CleanUp /\ fs' = NULL /\ sector' = 0
    /\ UNCHANGED <<disk, entries, harmed, found, call, block_devices>>

\* fat12_unmount frees what fat12_mount allocated.
fat12_unmount ==
    /\ pc = "mounted"
    /\ pc' = "down" /\ fs' = NULL /\ found' = NULL /\ entries' = << >>
    /\ heap' = heap \ {"fat_table", "bootsector", "handle", "root_inode", "vroot", "vfs"}
    /\ UNCHANGED <<disk, sector, harmed, block_devices>>
    /\ offs' = 0 /\ size' = 0 /\ buf' = << >> /\ ret' = 0 /\ read_buf' = JUNK
    /\ curr_cluster' = 0 /\ cluster_count' = 0 /\ clusters_to_read' = 0

-----------------------------------------------------------------------------
(***************************************************************************)
(* fat12_open: the lookup, one sector of the root directory at a time.     *)
(***************************************************************************)

\* The sector buffer starts as the stack left it.
fat12_open(stack) ==
    /\ pc = "mounted"
    /\ pc' = "scan" /\ sector' = 0 /\ entries' = stack /\ found' = NULL
    /\ UNCHANGED <<disk, heap, fs, harmed, block_devices>>
    /\ offs' = 0 /\ size' = 0 /\ buf' = << >> /\ ret' = 0 /\ read_buf' = JUNK
    /\ curr_cluster' = 0 /\ cluster_count' = 0 /\ clusters_to_read' = 0

\* A sector is read, or the buffer keeps what it had; then it is scanned.
\* Without memory for the inode the vnode of the file is freed again.
_fat12_lookup(path, driver_ok, alloc) ==
    LET lba   == fs.root_dir_start + sector
        ok    == blkread(fs.block_dev, lba, driver_ok)
        now   == IF ok THEN DirSector(lba) ELSE entries
        stops == Stops(now, NameOf(path))
        hit   == now[Min(stops)]
    IN
    /\ pc = "scan" /\ sector < fs.root_dir_sectors
    /\ entries' = now
    /\ harmed' = (harmed \/ ~driver_ok)
    /\ \/ /\ stops = {}
          /\ sector' = sector + 1 /\ UNCHANGED <<pc, heap, found>>
       \/ /\ stops # {} /\ hit.kind = "end"
          /\ pc' = "mounted" /\ UNCHANGED <<sector, heap, found>>
       \/ /\ stops # {} /\ hit.kind # "end"
          /\ pc' = "mounted" /\ UNCHANGED sector
          /\ IF {"vnode", "inode"} \subseteq alloc
             THEN /\ found' = [dir_entry |-> hit, dir_sector |-> lba,
                               dir_offset |-> Min(stops) - 1]
                  /\ heap' = heap \cup {"vnode", "inode"}
             ELSE found' = NULL /\ UNCHANGED heap
    /\ UNCHANGED <<disk, fs, call, block_devices>>

_fat12_lookup_fails ==
    /\ pc = "scan" /\ sector >= fs.root_dir_sectors
    /\ pc' = "mounted"
    /\ UNCHANGED <<disk, heap, fs, sector, entries, harmed, found, call, block_devices>>

-----------------------------------------------------------------------------
(***************************************************************************)
(* fat12_read of the file that was opened, its loop one cluster at a time. *)
(***************************************************************************)
file_size == found.dir_entry.size
BytesPerCluster == fs.bpb.sectors_per_cluster * fs.bpb.bytes_per_sector

\* Mutant of _fat12_get_fentry: odd and even the wrong way round.
_fat12_get_fentry_swapped(cluster) ==
    LET tbl == fs.fat_table
        at(i) == IF i \in DOMAIN tbl.bytes THEN tbl.bytes[i] ELSE tbl.beyond
        fat_offset == (cluster * 3) \div 2
        entry == at(fat_offset) + 256 * at(fat_offset + 1)
    IN  IF cluster % 2 = 0 THEN entry \div 16 ELSE entry % 4096

\* Two entries of 12 bits in three bytes; nothing keeps the offset in the
\* table.
_fat12_get_fentry(cluster) ==
    LET tbl == fs.fat_table
        at(i) == IF i \in DOMAIN tbl.bytes THEN tbl.bytes[i] ELSE tbl.beyond
        fat_offset == (cluster * 3) \div 2
        entry == at(fat_offset) + 256 * at(fat_offset + 1)
    IN  IF cluster % 2 = 1 THEN entry \div 16 ELSE entry % 4096

\* 0, the boot sector, for the two reserved cluster numbers.
_fat12_cluster_to_lba(cluster) ==
    IF cluster < 2 THEN 0
    ELSE fs.data_area_start + (cluster - 2) * fs.bpb.sectors_per_cluster

\* An empty request, one at or past the end of the file, a directory, or no
\* memory for the cluster buffer.
fat12_read_nothing(o, n, alloc) ==
    /\ pc = "mounted" /\ found # NULL
    /\ \/ /\ \/ n = 0 \/ found.dir_entry.kind = "directory"
             \/ o < file_size /\ BytesPerCluster # 0 /\ "read_buf" \notin alloc
          /\ ret' = -1
       \/ /\ n # 0 /\ found.dir_entry.kind # "directory" /\ o >= file_size
          /\ ret' = 0
    /\ offs' = o /\ size' = 0 /\ buf' = << >>
    /\ UNCHANGED <<disk, pc, heap, fs, sector, entries, harmed, found, block_devices,
                   curr_cluster, cluster_count, clusters_to_read, read_buf>>

\* Mutant of CutSize: the request is never cut.
CutSize_never(o, n) == n

\* Mutant of CutSize: the difference taken the wrong way round.
CutSize_reversed(o, n) == IF (o + n) % Word > file_size THEN o - file_size ELSE n

\* The request is cut at the end of the file; the sum is a uint32_t.
CutSize(o, n) == IF (o + n) % Word > file_size THEN file_size - o ELSE n

\* The first cluster to read, by its number, not by following the chain.
StartCluster(o) == (found.dir_entry.cluster + o \div BytesPerCluster) % Short

\* Bytes from the start of the first cluster to the end of the request.
Wanted(o, n) == ((o % BytesPerCluster) + CutSize(o, n)) % Word

\* The computations before the loop.
fat12_read(o, n, alloc) ==
    /\ pc = "mounted" /\ found # NULL
    /\ n # 0 /\ found.dir_entry.kind # "directory" /\ o < file_size /\ "read_buf" \in alloc
    /\ BytesPerCluster # 0
    /\ pc' = "loop"
    /\ offs' = o /\ size' = CutSize(o, n)
    /\ curr_cluster' = StartCluster(o)
    /\ cluster_count' = 0
    /\ clusters_to_read' = (Wanted(o, n) \div BytesPerCluster
                             + (IF Wanted(o, n) % BytesPerCluster = 0 THEN 0 ELSE 1)) % Short
    /\ read_buf' = JUNK
    /\ buf' = << >> /\ ret' = 0
    /\ UNCHANGED <<disk, heap, fs, sector, entries, harmed, found, block_devices>>

\* A boot sector that was not read may say that clusters have no bytes: a
\* division by zero.
fat12_read_faults(o, n) ==
    /\ pc = "mounted" /\ found # NULL
    /\ n # 0 /\ found.dir_entry.kind # "directory" /\ o < file_size
    /\ BytesPerCluster = 0
    /\ pc' = "fault"
    /\ UNCHANGED <<disk, heap, fs, sector, entries, harmed, found, call, block_devices>>

\* Which bytes of the cluster buffer are copied; the sum is a uint32_t.
CopyStart == IF cluster_count = 0 THEN offs % BytesPerCluster ELSE 0
CopyEnd ==
    LET last == ((offs + size) % Word) % BytesPerCluster
    IN  IF cluster_count = clusters_to_read - 1 /\ last # 0 THEN last ELSE BytesPerCluster

\* After a request that wraps the end may be in front of the start: memcpy
\* is called with a length of almost 2^32.
fat12_read_overruns ==
    /\ pc = "loop" /\ cluster_count < clusters_to_read /\ CopyEnd < CopyStart
    /\ pc' = "fault"
    /\ UNCHANGED <<disk, heap, fs, sector, entries, harmed, found, call, block_devices>>

\* One turn of the loop: read one sector into the cluster buffer, whatever
\* the size of a cluster (an offset past it is a byte nobody read), copy, and
\* on to the next cluster, unless the cluster just read was an end marker.
fat12_read_cluster(driver_ok) ==
    LET lba == _fat12_cluster_to_lba(curr_cluster)
        ok  == blkread(fs.block_dev, lba, driver_ok)
    IN
    /\ pc = "loop" /\ cluster_count < clusters_to_read /\ CopyStart <= CopyEnd
    /\ harmed' = (harmed \/ ~driver_ok)
    /\ read_buf' = IF ok THEN lba ELSE read_buf
    /\ buf' = buf \o [i \in 1 .. CopyEnd - CopyStart |-> <<read_buf', CopyStart + i - 1>>]
    /\ cluster_count' = cluster_count + 1
    /\ \/ /\ curr_cluster >= FAT12_EOC_MIN
          /\ pc' = "return" /\ UNCHANGED curr_cluster
       \/ /\ curr_cluster < FAT12_EOC_MIN
          /\ curr_cluster' = _fat12_get_fentry(curr_cluster)
          /\ pc' = pc
    /\ UNCHANGED <<disk, heap, fs, sector, entries, found, block_devices,
                   offs, size, clusters_to_read, ret>>

\* The answer is the size asked for, whatever was copied; it is an int32_t.
fat12_read_return ==
    /\ \/ pc = "loop" /\ cluster_count >= clusters_to_read
       \/ pc = "return"
    /\ pc' = "mounted"
    /\ ret' = IF size < Word \div 2 THEN size ELSE size - Word
    /\ UNCHANGED <<disk, heap, fs, sector, entries, harmed, found, block_devices,
                   offs, size, curr_cluster, cluster_count, clusters_to_read, read_buf, buf>>
=============================================================================
