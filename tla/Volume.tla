------------------------------- MODULE Volume -------------------------------
(***************************************************************************)
(* A FAT12 volume from the registration of its device to its unmounting:   *)
(* the block layer (Block), the filesystem (Fat12, Fat12Dir) and the path  *)
(* resolution of the VFS (VfsPath) in front of it, composed the way        *)
(* fdc_init, vfs_mount, vfs_open, vfs_read and vfs_unmount call them.      *)
(*                                                                         *)
(* What is in the drive and what is asked of it is a workload: a disk, how *)
(* many reads of the driver may fail, whether the heap may run out, and    *)
(* which inputs there are: the devices that register, the paths opened and *)
(* the requests read, and what uninitialised memory may hold.              *)
(***************************************************************************)
EXTENDS Fat12, VfsPath

CONSTANTS Workloads,    \* what a behaviour starts with
          Inputs,       \* the inputs a workload names
          MountedAt,    \* the mount point of the volume
          NumBlocks     \* sectors of the device that holds it

\* What a formatted disk has: sectors of the device's size, a FAT with an
\* entry for every cluster, and one file in some of them.
Formatted(d) ==
    /\ d.bpb \in BootSectors /\ d.bpb.bytes_per_sector = BlockSize /\ d.bpb.num_fats > 0
    /\ \A c \in Clusters : (c * 3) \div 2 + 1 < d.bpb.sectors_per_fat * BlockSize
    /\ Len(d.dir) \in Nat
    /\ \A i \in 1 .. Len(d.dir) : IsEntry(d.dir[i]) /\ IsName(d.dir[i].name)
    /\ d.chain \in Seq(Clusters) /\ IsInjective(d.chain)

ASSUME VolumeAssumption ==
    /\ MountedAt \in Mounts /\ NumBlocks \in Nat \ {0}
    /\ \A w \in Workloads :
        Formatted(w.disk) /\ w.faults \in Nat /\ w.oom \in BOOLEAN /\ w.inputs \in DOMAIN Inputs
    /\ \A k \in DOMAIN Inputs :
        /\ Inputs[k].devices \subseteq STRING /\ Inputs[k].garbage \subseteq BootSectors
        /\ Inputs[k].requests \subseteq (0 .. Word - 1) \X (0 .. Word - 1)
        /\ \A stack \in Inputs[k].stack :
            Len(stack) \in Nat /\ \A i \in 1 .. Len(stack) : IsEntry(stack[i])
        /\ \A p \in Inputs[k].paths : p \in Seq(STRING)

VARIABLES inputs, oom,   \* of this behaviour's workload
          faults,   \* reads of the driver that may still fail
          path, result

vars == <<fat12_vars, inputs, oom, faults, path, result>>

Input == Inputs[inputs]

Allocations == Memory \cup NeverFreed \cup {"table", "device", "read_buf"}

\* The allocations that succeed in one call.
Allocs == {Allocations} \cup IF oom THEN {Allocations \ {m} : m \in Allocations} ELSE {}

DriverAnswers == IF faults > 0 THEN BOOLEAN ELSE {TRUE}

Counted(driver_ok) == faults' = IF driver_ok THEN faults ELSE faults - 1

Places == (JUNK .. NumBlocks - 1) \X Nat

TypeOK ==
    /\ pc \in Steps /\ heap \subseteq Memory \cup NeverFreed
    /\ sector \in Nat
    /\ harmed \in BOOLEAN /\ faults \in Nat
    /\ offs \in Nat /\ size \in Nat /\ ret \in Int
    /\ curr_cluster \in 0 .. Short - 1
    /\ cluster_count \in 0 .. Short - 1 /\ clusters_to_read \in 0 .. Short - 1
    /\ read_buf \in JUNK .. NumBlocks - 1
    /\ buf \in Seq(Places)
    /\ fs # NULL => fs.block_dev # NULL
    /\ found # NULL => found.dir_entry.kind \in {"file", "directory"}

Init ==
    /\ \E work \in Workloads :
        /\ disk = work.disk /\ faults = work.faults
        /\ inputs = work.inputs /\ oom = work.oom
    /\ Fat12Init
    /\ path = << >> /\ result = NULL

\* fdc_init and ide_init register their devices.
Register ==
    /\ pc = "down"
    /\ \E name \in Input.devices, alloc \in Allocs : blkdev_register(name, NumBlocks, alloc)
    /\ UNCHANGED <<disk, pc, heap, fs, sector, entries, harmed, found, call,
                   inputs, oom, faults, path, result>>

\* vfs_mount's own part: the vnode of the mount point, an allocation that is
\* not checked either.
vfs_mount_at(alloc) ==
    /\ pc = "mount_at"
    /\ \/ /\ "mount_at" \in alloc
          /\ pc' = "mounted" /\ heap' = heap \cup {"mount_at"}
       \/ /\ "mount_at" \notin alloc
          /\ pc' = "fault" /\ UNCHANGED heap
    /\ UNCHANGED <<disk, fs, sector, entries, harmed, found, call, block_devices>>

\* vfs_mount("fd0", ...): fat12_mount, one allocation or sector at a time.
Mount ==
    /\ \E alloc \in Allocs :
        \/ fat12_mount(alloc)
        \/ fat12_mount_bootsector(alloc)
        \/ \E junk \in JunkBytes : fat12_mount_fat_table(alloc, junk)
        \/ fat12_mount_vfs(alloc)
        \/ fat12_mount_root(alloc)
        \/ vfs_mount_at(alloc)
        \/ fat12_mount_fails("fd0", alloc)
    /\ UNCHANGED <<inputs, oom, faults, path, result>>

MountReads ==
    /\ \E driver_ok \in DriverAnswers :
        /\ Counted(driver_ok)
        /\ \/ \E garbage \in Input.garbage : fat12_mount_device("fd0", driver_ok, garbage)
           \/ fat12_mount_load(driver_ok)
    /\ UNCHANGED <<inputs, oom, path, result>>

\* vfs_open: the path is resolved and what is left of it looked up, unless
\* it leads to another filesystem or nowhere.  Bound: one file is opened
\* while the volume is mounted; a lookup leaves nothing to a later one but
\* the stack, which is one of the inputs.
vfs_open(p) ==
    /\ pc = "mounted" /\ path = << >> /\ result = NULL
    /\ path' = p /\ result' = _vfs_resolve_mountpoint(p)
    /\ IF result' # NULL /\ result'.mount = MountedAt
       THEN \E stack \in Input.stack : fat12_open(stack)
       ELSE found' = NULL /\ UNCHANGED <<disk, pc, heap, fs, sector, entries, harmed, call,
                                         block_devices>>
    /\ UNCHANGED <<inputs, oom, faults>>

Lookup ==
    /\ \/ \E driver_ok \in DriverAnswers, alloc \in Allocs :
            _fat12_lookup(result.rel_path, driver_ok, alloc) /\ Counted(driver_ok)
       \/ _fat12_lookup_fails /\ UNCHANGED faults
    /\ UNCHANGED <<inputs, oom, path, result>>

Read ==
    /\ \/ \E r \in Input.requests, alloc \in Allocs :
            \/ fat12_read(r[1], r[2], alloc) \/ fat12_read_nothing(r[1], r[2], alloc)
            \/ fat12_read_faults(r[1], r[2])
       \/ fat12_read_overruns \/ fat12_read_return
    /\ UNCHANGED <<inputs, oom, faults, path, result>>

ReadLoop ==
    /\ \E driver_ok \in DriverAnswers : fat12_read_cluster(driver_ok) /\ Counted(driver_ok)
    /\ UNCHANGED <<inputs, oom, path, result>>

Unmount ==
    /\ Input.unmount
    /\ fat12_unmount
    /\ path' = << >> /\ result' = NULL
    /\ UNCHANGED <<inputs, oom, faults>>

Next ==
    \/ Register \/ Mount \/ MountReads
    \/ \E p \in Input.paths : vfs_open(p)
    \/ Lookup \/ Read \/ ReadLoop \/ Unmount

Spec == Init /\ [][Next]_vars

-----------------------------------------------------------------------------
(***************************************************************************)
(* Every path that starts with one separator is taken apart without loss:  *)
(* it is "/", its first component, and the path handed to the filesystem,  *)
(* cut at the size of the buffer and never ending inside the name.         *)
(***************************************************************************)
SplitsExactly ==
    result # NULL /\ Len(path) > 1 /\ path[2] # SEP =>
        /\ result.rel_path[1] = SEP
        /\ LET whole == <<SEP>> \o result.mount \o result.rel_path
           IN  \/ whole = path
               \/ whole = path \o <<SEP>>
               \/ IsPrefix(whole, path) /\ Len(result.rel_path) = PathMax - 1

-----------------------------------------------------------------------------
\* What the format allows and the code supports: a directory that fills its
\* sectors, on a volume whose hidden sectors fit a byte; and the device is
\* large enough for it.
Supported ==
    /\ disk.bpb.hidden_sectors < 256 /\ Layout(disk.bpb).data_area_start <= NumBlocks
    /\ (disk.bpb.max_root_dir_entries * EntrySize) % BlockSize = 0

(***************************************************************************)
(* A mount whose reads all succeeded knows the disk: every area starts     *)
(* where the format puts it, and the links of all clusters are in memory   *)
(* as they are on the disk (fat12_mount's geometry and FAT loop together   *)
(* with _fat12_get_fentry).                                                *)
(***************************************************************************)
MountKnowsTheDisk ==
    pc = "mounted" /\ ~harmed /\ Supported =>
        /\ \A area \in DOMAIN Layout(disk.bpb) : fs[area] = Layout(disk.bpb)[area]
        /\ \A c \in Clusters : _fat12_get_fentry(c) = LinkOf(disk.chain, c)

(***************************************************************************)
(* Memory: of what fat12_mount allocates, a mount that failed, wherever it *)
(* did, and a volume that was unmounted hold nothing; what is left is the  *)
(* vnode of the mount point and vnode and inode of an opened file, which   *)
(* nothing in the kernel frees.  A mounted volume holds its six objects    *)
(* and its mount point, and a file that is open its vnode and inode.       *)
(***************************************************************************)
NothingLeftBehind ==
    /\ pc = "down" => heap \subseteq NeverFreed
    /\ pc = "mounted" => Memory \cup {"mount_at"} \subseteq heap
    /\ pc # "fault" /\ found # NULL => {"vnode", "inode"} \subseteq heap

-----------------------------------------------------------------------------
\* The names that fit an entry: a base, and perhaps a dot and an extension.
ValidName(s) ==
    \E b \in 1 .. NAME, e \in 0 .. EXT :
        /\ Len(s) = IF e = 0 THEN b ELSE b + 1 + e
        /\ \A i \in 1 .. Len(s) : s[i] # PAD /\ (s[i] = DOT <=> i = b + 1)

\* The live entries of this name in front of the end marker.
Live(s) ==
    {i \in 1 .. Min({Len(disk.dir), disk.bpb.max_root_dir_entries}) :
        /\ disk.dir[i].kind \in {"file", "directory"} /\ _fat12_8_3to_normal(disk.dir[i].name) = s
        /\ \A j \in 1 .. i : disk.dir[j].kind # "end"}

(***************************************************************************)
(* For a name that fits 8.3, a lookup whose reads and allocations succeed  *)
(* finds an entry exactly if a live one of that name is in front of the    *)
(* end marker, whatever deleted entries and labels of the same name        *)
(* precede it and in whichever sector it is; it finds the first, and       *)
(* remembers where it is.                                                  *)
(***************************************************************************)
LookupFindsTheFile ==
    LET name == NameOf(result.rel_path) IN
    pc = "mounted" /\ ~harmed /\ ~oom /\ Supported
      /\ result # NULL /\ result.mount = MountedAt /\ ValidName(name) =>
        IF Live(name) = {} THEN found = NULL
        ELSE LET k == Min(Live(name)) - 1 IN
             found = [dir_entry  |-> disk.dir[k + 1],
                      dir_sector |-> Layout(disk.bpb).root_dir_start + k \div EntriesPerSector,
                      dir_offset |-> k % EntriesPerSector]

-----------------------------------------------------------------------------
\* Where byte j of the file is: in the cluster the chain leads to.
Place(j) ==
    LET cluster == BlockSize * disk.bpb.sectors_per_cluster
        k == j % cluster
    IN  <<Layout(disk.bpb).data_area_start
            + (disk.chain[j \div cluster + 1] - 2) * disk.bpb.sectors_per_cluster
            + k \div BlockSize,
          k % BlockSize>>

Expected == [i \in 1 .. size |-> Place(offs + i - 1)]

Contiguous == \A i \in 1 .. Len(disk.chain) - 1 : disk.chain[i + 1] = disk.chain[i] + 1

\* The end of the request is a number of 32 bits.  If it is not, fat12_read
\* does not notice that the request passes the end of the file.
Fits == offs + size < Word

\* The open file is the one of the disk, and its clusters are on the device.
TheFile ==
    /\ disk.chain # << >> /\ found.dir_entry.cluster = disk.chain[1]
    /\ file_size <= Len(disk.chain) * (BlockSize * disk.bpb.sectors_per_cluster)
    /\ \A i \in 1 .. Len(disk.chain) :
        Layout(disk.bpb).data_area_start + (disk.chain[i] - 1) * disk.bpb.sectors_per_cluster
            <= NumBlocks

\* A read of it is over.
ReadDone == pc = "mounted" /\ ~harmed /\ Supported /\ Fits /\ ret > 0 /\ TheFile

(***************************************************************************)
(* "read from the given vnode (file), into the buffer, returning bytes     *)
(* read": a read that returns n > 0 has put exactly the n bytes of the     *)
(* file from the offset on into the buffer, however the file lies on the   *)
(* disk.                                                                   *)
(***************************************************************************)
ReadReturnsFileBytes == ReadDone => ret = size /\ buf = Expected

(***************************************************************************)
(* The same for what the code supports: clusters of one sector, and a file *)
(* in consecutive clusters, or a read that starts in the first, from where *)
(* the FAT is followed.                                                    *)
(***************************************************************************)
ReadReturnsFileBytesUnlessScattered ==
    disk.bpb.sectors_per_cluster = 1 /\ (Contiguous \/ offs < BlockSize)
        => ReadReturnsFileBytes

(***************************************************************************)
(* "adjust size to read only till EOF": the loop never stores more bytes   *)
(* into the caller's buffer than the file has past the offset, also when   *)
(* reads fail.                                                             *)
(***************************************************************************)
NeverPastEndOfFile == buf # << >> /\ Fits => offs + Len(buf) <= file_size
=============================================================================
