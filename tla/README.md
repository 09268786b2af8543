# LeanixOS in TLA+

LeanixOS is a 32-bit x86 teaching kernel in C. This directory holds a
specification of the parts of it whose source is published: TLA+ modules
translated from the C, TLC configurations that check them on small instances,
and TLAPS proofs of the most important results. Everything is checked by
`tlc -config X.cfg MCY` and `tlapm YProofs.tla`; `PROJECT.json` lists the runs,
the lines each definition models, the hazards and the theorems.

## 1. Inventory

| Component | State it keeps | Operations | What makes it correct |
|---|---|---|---|
| List library (`libc/kernel/list.c`) | head, tail, size of a list; links inside the elements | init, append, prepend, insert after/before/sorted, remove, remove head/tail | the links form one chain in both directions; each call changes the sequence as its name says |
| Floppy driver (`driver/fdc.c`) | the IRQ6 flag, one DMA buffer, the drive number | init, reset, recalibrate, seek, read and write a sector, IRQ handler | one interrupt for each wait; 0 means the sector was moved; nothing else is written; motor off afterwards; every call returns |
| IDE driver (`driver/ide.c`) | two devices and their geometry | detect, read and write a sector by polled I/O | the same; and no command to a busy drive |
| Block layer (`driver/block.c`) | table of up to 16 named devices | register, find, read, write | names unique, requests within the device |
| VFS (`fs/vfs.c`) | array of mounted filesystems, open files with offset | mount, unmount, create, mkdir, remove, open, close, read, write | pointers in the table are alive; a path keeps its meaning; offsets stay in the file |
| FAT12 (`fs/fat12.c`) | the FAT and the boot sector in memory | mount, unmount, lookup, open, read | a mount knows the disk and leaves nothing behind when it fails; a lookup finds the named file; a read returns the file's bytes |
| DMA driver (`driver/dma.c`) | two controllers' registers, with a flip-flop each | set address, count, page, mode; mask, reset, disable | a channel is programmed whatever came before; the others are left alone |
| PIC driver (`driver/pic.c`) | two controllers' registers | initialise, end an interrupt | vectors as registered; every request served |
| Serial driver (`driver/serial.c`) | the UART's registers | initialise, send | the text goes out whole |
| Formatted output (`libc/vsprintf.c`) | its place in format, arguments and buffer | `vsnprintf` | within the buffer; the text of a reference |
| String functions (`libc/string.c`) | `strtok`'s position | pure functions but for that | results against a reference |
| User shell (`user/shall.c`) | its line buffer | eleven commands | a line is answered from its own words |
| `kmain`, GDT, boot loader | none of their own | start of the system | order of initialisation |
| Memory, processes, ELF, HFS, interrupts, system calls, keyboard, timer, terminal, kernel shell | | | object files only: no source to model |

How they interact. `kmain` initialises the drivers, which register `fd0`, `hd0`
and `hd1` with the block layer, then mounts `fd0` (FAT12) and `hd1` (HFS). The
ELF loader and the shell open and read files through the VFS; the VFS resolves
the mount and calls the filesystem's operations; the filesystem calls `blkread`
and `blkwrite`, which call the drivers. System calls run with interrupts on and
the timer preempts threads, so two threads may be inside the VFS, a filesystem
or a driver at once. None of these has a lock. `printk` formats with `vsnprintf`
and sends to the serial port; `printf`, in user programs, formats with the same
function and writes through a system call. The floppy driver programs the DMA
controller before a transfer and waits for an interrupt that comes through the
two interrupt controllers.

What is hard: the pairing of interrupts and waits in the floppy driver; calls
that fail half way; time-outs whose answer comes later; the shared registers
and buffers; pointers that outlive what they point to; arithmetic at the
boundaries of clusters, files, buffers and words; port writes that mean what the
chip's state, or another call, makes of them. `PROJECT.json`, "hazards",
lists each at its line with the properties that would show it going wrong.

## 2. Plan

Done, in this order:

1. `ListSpec`, `List`, `ListProofs`: the data structure every part of the
   kernel uses, with an abstract specification and its refinement.
2. `Fdc`, `FdcProofs`: the hardest protocol of the published code.
3. `Vfs`, `VfsProofs`: lifetime of mounts and files.
4. `Ide`, `IdeProofs`: the second driver, polled instead of interrupt driven.
5. `Block`, `Fat12`, `Fat12Dir`, `VfsPath`, composed in `Volume`: a path and a
   volume from the registration of its device to its unmounting. `VolumeProofs`
   has its memory, types and paths, and what a mount knows, a lookup finds and a
   read delivers.
6. `Serial`, `Pic`, `Dma`, composed in `Start`: the start of the kernel as the
   chips see it. `StartProofs` has all its safety.
7. `Printf`, composed with the string functions in `Shell`. `ShellProofs` has
   that no call leaves its buffer.

Worth adding: a specification of a block device ("0 means moved, else
unchanged") that `Fdc` and `Ide` implement.

## 3. Modules

Definitions keep the C names where there is one. Operators whose comment begins
"Mutant of" are plausible mistakes in the operator they name. They are no part
of the specification; each shows that a property can fail.

**ListSpec** is what callers rely on: each list a sequence, each call one change
of one sequence. **List** has the C: `head`, `tail`, `size` by list, `next`,
`prev` by element, one action for each function. The library never checks
membership, so the callers' obligation (insert a free element, remove a member)
is a guard, on the history variable `owner`. `Contents(l)` reads the sequence
off the links; `LS` instantiates `ListSpec` with it.

**Fdc** has threads (`Callers`) whose calls are cut into steps where the code
lets others run: the busy wait for IRQ6, the clearing of its flag behind it
(`fdc.c:224` and `226`, two steps, between which an interrupt may come) and the
sleep after a change of the motor. `pc`, `call`, `tries`, `ret` are a thread's;
`irq_fired` and `dmabuf` the driver's. The controller is external, modelled from
what the driver expects of it: a phase (`command`, `busy`, `result`), the
command, the head's cylinder, the motor, interrupt statuses held for SENSE, the
interrupt line. `Faults` chooses what it may do wrong: "seek" (the head does not
move), "media" (a transfer ends in an error), "fifo" (bytes time out in either
direction). A command of several bytes is lost as a whole. Recalibration is a
seek to cylinder 0.

**Ide** is built the same way: the steps of a call are its accesses to the
channel's shared registers, and IDENTIFY, read and write share them. A wait may
give up when the bit it polls does not come; with the fault "slow" it may also
give up while the drive is still working. Drives are external. A command that
fails ends in ERR (the fault "media"), or in DF, which does not set ERR
(`ide.h:92`, the fault "drive").

**Vfs** has the array `_mountpoints` as allocated (`slots`), the heap objects
alive, and the open files. `wild` records that a pointer to something dead or
never written was followed, or a NULL operation called. After that the behaviour
of the C is undefined and the model stops. `realloc` keeps the old entries and
fills the others with anything. Reads have what `fat12_read` answers: -1 for a
directory or without a cluster buffer, else a number of bytes whose sums and
sign are those of 32-bit words (`Word`). `events`, chosen at the start from the
constant `Events`, says what a behaviour may have beyond the kernel's own use:
unmounting, modifying calls on FAT12, a heap that returns NULL. Properties say
for which events they hold.

**Volume** composes four modules, as `vfs_mount`, `vfs_open`, `vfs_read` and
`vfs_unmount` call them. **Block** has the table of devices, in order of
registration, and the range check. **VfsPath** has `_vfs_resolve_mountpoint`
with `strncpy` and `strtok_r`. **Fat12Dir** has the 8.3 conversions and the scan
of one directory sector. **Fat12** has the filesystem, its functions cut where
they allocate or read a sector, since each of these may fail. `heap` is the
memory of the mount and of its open file, by kind: what `fat12_mount` allocates
(`Memory`), and what no code frees (`NeverFreed`: the vnode `vfs_mount` makes
for the mount point, and the vnode and inode of an opened file). `fs` is the
handle, `entries` and `read_buf` the buffers, which keep what they had when a
read fails. Bytes on the disk are known by their place, so that a wrong byte is
told from the right one; only the bytes of the FAT have values. A workload
(`disk`, `inputs`, `oom`, `faults`) says what is on the disk, what is asked, and
what may fail. `harmed` remembers that a read failed; most properties promise
nothing afterwards, `NothingLeftBehind` and `NeverPastEndOfFile` still do. `pc =
"fault"` is where the C would fault: division by a sector size or a cluster size
of 0, a NULL from an unchecked `malloc`, a copy out of a cluster that is longer
than the buffer.

The volumes are those of `Formatted`: sectors of the device's size, a FAT with
an entry for every cluster, directory entries whose names are as the format has
them (`IsName`: letters, then padding, in either field, and no dot), and one file
with a chain of different clusters. Of a disk like that the properties further
ask only what they need: `Supported` for the geometry; for a read, that the open
file is the disk's and lies on the device (`TheFile`) and that the request ends
at a 32-bit number (`Fits`).

**Start** composes three drivers and the chips. In **Serial**, **Pic** and
**Dma** a driver function is the sequence of port writes `<<value, port>>` it
makes; beside it is what its chip does with a write (external: 8250, 8259A,
8237A and page registers, from what the drivers and headers expect). `Start`
runs `kmain` as a script of prints, calls, transfers and waits, one port write a
step (`outb`), while the UART sends, devices raise lines, and the processor
acknowledges, runs the handler and signals the end of the interrupt. The code
that dispatches interrupts has no source; that it calls `pic_send_eoi` after the
registered handler is taken from the header. The serial port is modelled in both
its modes although `kmain` uses only polling. `wire` is what went out, with the
framing each character had.

**Printf** has `vsnprintf` with one action for each state of its loop; arguments
are stack words, so that a conversion that takes the wrong number of them shows
in the next. The buffer is watched together with the memory behind it. **Shell**
has `main` and `run_cmd` of `shall.c` over the real line buffer: `strtok` cuts it
in place and keeps its position, `echo` and `repeat` join the words again and
print through `Printf`. A behaviour is a session, or one direct call of
`vsnprintf`. A fixed message is one character and so is a row of a dump, which
may also fault (`MdmpFaults`), as any address can be asked for.

`MC*.tla` give the constants that a configuration cannot write down.

## 4. Runs

Passing:

| Run | Instance | Shows |
|---|---|---|
| `list` | 2 lists, 3 elements, two with equal keys | well-formed links, sorted insertion, each call as specified, refinement |
| `fdc` | 1 thread, 3 sectors on 2 cylinders and 2 heads, 2 contents, 3 attempts, seeks may miss | one interrupt for each wait, controller ready between calls, success means moved, only the written sector changes, motor, every call returns |
| `vfs` | 2 names, 2 filesystems, 5 slots, 1 file or directory, requests of every size, every set of events | no wild access in the kernel's use, one slot for each mount, paths keep their meaning, offsets |
| `volume` | disks of 20 sectors of 2 bytes; five families of workloads, below | a path is split without loss, a mount knows the disk, failing mounts and unmounts free what a mount allocated, exact lookup, the right bytes, not past the end |
| `start` | a two-character message, two transfers; interrupts of timer, disk, serial port and floppy at any moment, or any one earlier call of the DMA driver | text and framing on the line, vectors, the floppy's channel, independence of channels, every request served |
| `shell` | int of 8 bits, buffers of 16, lines of up to 5 characters and two more | nothing outside the buffer, text as a reference gives it, a line answered from its own words |
| `ide` | a CD drive and a disk, media errors, drive faults, slow drives | a call that runs to its end moved its sector (or was a write ended by a drive fault), no command to a busy drive, every call returns |

Runs that show the code at odds with what it, or its headers, say (each is a
finding in `PROJECT.json` with the lines quoted):

| Run | What happens |
|---|---|
| `fdc_timeout` | a FIFO time-out is taken for a head on cylinder 0 |
| `ide_two` | two threads in the driver: one overwrites the other's address |
| `vfs_unmount` | a freed filesystem stays in the table and is followed |
| `vfs_sixth` | the sixth mount leaves unwritten entries in the table |
| `fat12_scattered` | clusters are counted from the first, not followed |

The models have further departures of this kind, which their properties exclude
by a condition; widening the constants, or dropping the condition, shows them:

- `fdc_read_sector` returns with the motor on when its seek fails
  (`fdc.c:445-448`; `MotorOffUnlessReadFailed`).
- A transfer the controller reports as failed is returned as 0 (`fdc.c:263-265`;
  `SuccessMeansTransferred` with the fault "media").
- Two threads in the floppy driver share the flag and the DMA buffer
  (`fdc.c:217`, `457`; `SuccessMeansTransferred` with two callers), and both may
  leave their wait on one interrupt, since the flag is tested and cleared in two
  steps (`fdc.c:224-226`; `OneInterruptPerWait` is about one).
- `_ide_blk_read` and `_ide_blk_write` return 0 always (`ide.c:566`, `572`).
- A write that ends in a drive fault runs to its end like one that was made,
  since only ERR is looked at (`ide.c:549-550`; the exception in
  `DoneMeansTransferred`). A read that does so gives up waiting for DRQ.
- Every mount leaves the vnode of its mount point behind (`vfs.c:88`) and every
  opened file its vnode and inode (`fat12.c:210`, `227`; `fat12_close` is empty):
  repeated mounts and opens use up the heap. `NothingLeftBehind` names these
  three and is about everything else. `heap` is a set of kinds, so the model says
  that such objects are left, not how many.
- A second mount at a path succeeds and is never reached (`vfs.c:102`;
  `MountsPersist` says the first keeps the path).
- `vfs_create`, `vfs_mkdir` and `vfs_remove` call NULL on FAT12
  (`fat12.c:31-42`; event "modify").
- A doubled leading slash shifts the relative path (`vfs.c:375`;
  `SplitsExactly` is about paths with one).
- With several sectors in a cluster only the first is read (`fat12.c:498`;
  `ReadReturnsFileBytesUnlessScattered` is about clusters of one sector).
- A volume with 256 or more hidden sectors, or a directory that does not fill its
  last sector, is not understood (`fat12.c:287`, `291`; `Supported`).
- A boot sector that could not be read may divide by zero (`fat12.c:280-292`),
  and the last three allocations of a mount are not checked (`fat12.c:348`,
  `360`, `vfs.c:88`); the model stops in "fault".
- The root directory's inode loses the attribute just stored (`fat12.c:364-366`);
  nothing reads it.
- A refused duplicate registration leaks the structure (`block.c:50-63`).
- Channel 3 of the DMA controller is given channel 1's page register
  (`dma.h:87`; the exception in `ChannelsIndependent`), and `dma_set_mode` leaves
  a channel of the second controller masked (`dma.c:99`, `146`).
- The comments in `pic.c:34-35` speak of automatic end of interrupt; the mode set
  has none, and `pic_send_eoi` is needed (`EveryRequestServed`).
- What `load_msg` prints before `serial_init` may be sent in a changing framing
  (`kmain.c:55-56`; `LineCarriesTheText` asks for the framing of later text
  only).
- `vsnprintf` reads a `long long` for `%hd`, prints a sign for `%+u`, has no
  prefix for `%#b`, does not skip the star of `%.*d`, returns -1 for a format
  that is only `%`, and cuts a `long long` to 32 bits (`vsprintf.c:70`, `87`,
  `99`, `251`, `269`, `309`). `FormatsAsReference` is about calls without these;
  `StaysInBuffer` includes them. For `%#b` the reference has the prefix that
  `vsprintf.c:46` promises ("b on binary") and the property excepts such calls
  (`AltBinary`): without the exception the run fails.
- An empty line makes the shell compare a null pointer (`shall.c:17-20`), where
  the code has "do nothing" (`shall.c:78`); `echo` and `repeat n` without text
  store in front of their array (`shall.c:131`, `145`). `AnswersItsLine` is about
  lines that are not empty. `mdmp` reads any address (`shall.c:62`, `68`) and the
  counter of its loop wraps for counts above 2^32 - 16 (`shall.c:58`); the first
  is a fault of the model, the second is out of reach of the lines typed.
- Offset plus size wraps at 32 bits and the request is not cut to the file
  (`fat12.c:458`; `Fits` excludes it, and the volume run has such a request).
- A name on the disk with a space inside a field is converted to the part in
  front of the space, a name a lookup would not find it by (`fat12.c:92`;
  `IsName` excludes it).
- A name too long for 8.3 finds a file with another name (`fat12.c:110-132`;
  `LookupFindsTheFile` is about names that fit).

Bounds. Three elements and two lists have every shape of list an operation tells
apart (empty, at the head, inside, at the tail, on the other list), and the
proofs lift the bound. Three sectors have both heads and two cylinders; three
attempts have a first, a middle and a last. Five slots are the table at its
first size, ten, in `vfs_sixth`, at its second. There words have three bits, so
that a request can wrap the sum of offset and size and turn its answer negative.

The families of `volume` are each exhaustive in what they are about: every way a
file of up to three clusters lies on five, with every request of up to 7 bytes
at every offset up to 7 (three clusters have a first, a middle and a last;
sectors of two bytes have both boundaries); every directory of up to two entries
over four names and of three entries, in two sectors, over two, with every name
of up to four characters where an entry holds two and an extension of one; every
path of up to seven characters with buffers of six; 72 geometries, each with and
without a read that may fail anywhere and garbage, boot sectors with sizes of 0
among it, in its place, and with a request that wraps (`Word`, 2^32 in the code,
is 16); and a heap that may run out at any allocation, with unmounting, three
devices and a table of two. The families of `start` are separate because an
interrupt and a DMA call have no state in common but the floppy's transfer,
which both have. `LoadMsg` is printed before the port is set up and `LogMsg`, a
newline, twice after. In `shell` an int has eight bits, with its smallest,
largest, and the values around a change of length; a long long has two such
words. Lines are long enough for two words with an empty one between them; later
lines have more words than `args` holds.

`SYMMETRY` is used only on heap objects, which the code never
compares by order, and in runs without liveness.

Deadlock is checked except where the system really stops: after a lost floppy
command (`fdc_timeout`), after a wild access (`vfs`), when no disk was detected,
so that nobody calls the driver (`ide`), at a fault or when nothing more is asked
(`volume`), when `kmain` has become the idle thread (`start`), and after `exit`,
a fault or a direct call (`shell`).

Fairness. `FairSpec` asks weak fairness of each thread's steps inside a call,
since the scheduler is round robin and preemptive, and of the hardware: a
controller that has accepted a command ends it, and the interrupt is delivered.
No fairness is asked of new calls. `Start` asks weak fairness of processor and
chips together: while one of them can go on, something does.
`EveryRequestServed` needs no more, since devices raise lines finitely often and
no step of one can be undone by another; of the devices themselves nothing is
asked. `Fdc!EveryCallReturns` is checked without
FIFO faults, because the wait for the interrupt is unbounded and with a lost
command it does not end. `Ide!EveryCallReturns` holds with slow drives too,
since there every wait is bounded.

## 5. Proofs

**ListProofs**, for any sets of lists and elements, any keys. The invariant is
`ListInv`, which is `TypeOK` and `WellFormed`: each list's links represent some
sequence without repetition that holds exactly the elements it owns. It is
inductive as it stands. The lemmas say how appending to, inserting into and
removing from a sequence show in the links, and that a chain determines its
sequence. From it follow `ListTypes`, `ListWellFormed`, `ListCallsCorrect`,
`ListSortedInsert` and the refinement `ListRefines`.

**FdcProofs**, for any set of sectors, contents, kinds of calls and attempts:

- `AddressesExact`: all 2880 sectors; pure arithmetic.
- `FdcTypes`: any threads, any faults. `TypeOK` is strengthened to `Typed` (a
  command under way is one the driver sends).
- With one thread and a FIFO that answers: `Solo` says, for each `pc`, the phase
  of the controller, what is in flight, what is held for SENSE (`Sync`), and
  where the head is (`Positioned`). From it `FdcOneInterruptPerWait`,
  `FdcReadyBetweenCalls`, `FdcSeekSuccess`, `FdcMotor`.
- `SoloData` adds that the command under way carries the caller's address and
  that a write's data is in the DMA buffer (`Carried`):
  `FdcOnlyTheWrittenSectorChanges`.
- Without media errors also `FdcSuccessMeansTransferred`, whose invariant says
  from the transfer on that buffer and sector agree (`AllDelivered`).

The assumptions are needed. `fdc_timeout` shows a seek that goes wrong without
the one on the FIFO; with two callers, or with the fault "media", TLC finds
`SuccessMeansTransferred` violated within seconds.

**CommonProofs** has the lemmas the modules below share, about minima and
remainders, and about the concatenation of a sequence of sequences.

**VfsProofs**, for any names, objects, filesystems and files, a table of any
size, and every set of events. The invariant is `IInv`: `TypeOK`,
`OffsetWithinFile`, that the free entries of the table are behind those in use
and the entries of its first size are all written, and, without unmounting, that
what table and open files point to is alive and in the table once; if the heap
does not fail either, everything mounted is there. `OffsetWithinFile` is kept by
a request whose end wraps because what is not cut is then at least half of all
words, which is negative as an answer, and a negative answer is not added. From
it `VfsTypes`, `VfsEachMountInOneSlot`, `VfsOffsetWithinFile` and, with one more
lemma about the step that mounts, `VfsMountsPersist`. `VfsNoWildAccess` carries
the condition `_curr_size <= 5`, which is `NoWildAccess` for a table still at
its first size: `vfs_sixth` shows what happens behind it.

**IdeProofs**. `IdeTypes` is for any callers, drives and faults. With one caller
(`OneCaller`) the invariant `Solo` relates the caller's step to the channel: the
registers hold its address, the drive has at most its command, a drive that an
abandoned call left at work is waited for before the next command, and what a
finished write wrote stays, unless the drive is in a drive fault.
`IdeDoneMeansTransferred` and `IdeNoCommandWhileBusy` follow. `ide_two` shows
that one caller is needed.

**VolumeProofs**, for any formatted disks, devices, paths, requests, failing
reads and failing allocations.

- `VolumeNothingLeftBehind`: the invariant gives the set of the mount's objects
  held at each step, and that what nobody frees stays (`HeapByStep`).
- `VolumeTypes` needs `Typed`, which follows handle, FAT, entries and open file
  from the step that fills each, and covers what a failed read leaves there: a
  garbage boot sector, junk bytes for links, stale entries of the stack.
- `VolumeSplitsExactly`: a mount's name is shorter than the buffer, so the cut
  of `strncpy` is never inside the token, and what follows it in the path is
  nothing or begins with a separator.

On top of the types, for any size of sectors, entries and names:

- `VolumeMountKnowsTheDisk`: while no read has failed the handle is computed from
  the disk's boot sector (`Geometry`) and the bytes of the FAT that the loop has
  passed are the disk's (`FatLoaded`). What is left is that unpacking twelve bits
  out of two bytes undoes the packing, in the even and the odd case.
- `VolumeNeverPastEndOfFile`: the read loop's counters stay within the request
  and the request within the file (`Opened`, `InFile`), also when a read fails or
  a junk link leads elsewhere.
- `VolumeReadReturnsFileBytesUnlessScattered`: `ReadExact` says that at each turn
  of the loop the buffer is a prefix of what is expected and the current cluster
  is the one that holds the next byte. The cluster the code computes is right for
  consecutive files, and for all files in their first cluster. Its 16-bit
  counters are wide enough because a chain of different clusters has fewer than
  2^16 of them.
- `VolumeLookupFindsTheFile`: `LookupExact` says that no entry in the sectors
  scanned so far ends the search (`NoStop`) and, once it is over, that the result
  is the first that does (`Answer`). That the code's comparison finds the right
  names is `SameName`: for a name that fits 8.3, the conversions to and from the
  padded form undo each other, so two names agree in one form if and only if they
  do in the other.

The conditions in the last four are those of the properties and are needed:
without them TLC finds the departures listed in section 4, `fat12_scattered`
among them.

**StartProofs**, for any texts, any number of requests raised at any moment,
both modes of the serial port, either state of the flip-flop, and any call of
the DMA driver by another driver (each function, every channel and argument in
the range of its type). First come the drivers and the chips one write at a
time: which writes a function makes, that a write keeps a chip's type, and which
channels it leaves alone (`Local`). The invariant then goes by kmain's step:

- `Inv` is inductive by itself. It has the types, that the writes left are the
  last ones of the driver call kmain is in (`Walk`), that interrupts are enabled
  from `sti` on (`Flags`), and how far `pic_init` has brought the controllers
  (`PicSet`). The last is needed because a line may rise in the middle of the
  initialisation. From it `StartTypes` and `StartChannelsIndependent`.
- `StartInterruptsOnTheirVectors` adds `Vectors`, and `Token`: the end of a
  transfer is in one place at a time, not yet made, on the line, in front of its
  handler, or in the flag. Without it the flag could be left from the transfer
  before.
- `StartFloppyTransferAsProgrammed` adds `FloppySet`, what each register of the
  channel and the flip-flop hold by the number of writes left. Nothing is said
  before `_fdc_init_dma` resets the flip-flop, so nothing the firmware or another
  driver left matters.
- `StartLineCarriesTheText` adds `UartSet`, how far `serial_init` has got with
  the framing; `HoldingEmpty`, that a character is written only to an empty
  holding register; and `Carried`, that line, shift register, holding register,
  the write under way and the rest of the text make up what was printed. It is
  associativity of concatenation from there on, with the lemmas about
  `FlattenSeq` for a text that begins.

The assumptions are those of `StartAssumption`: types, that the drive raises its
line only for a transfer (`raises.floppy` is 0), and that `NULL` is none of the
values it is compared with.

**ShellProofs**, for any formats, sizes, arguments, lines and width of a word.
Lemmas first: a value computed digit by digit is a number and a numeral a text
(by least counterexample, since the provers have no induction), so whatever a
conversion puts has a length. The invariant `Inv` has three parts:

- `CallOk`: the memory behind the buffer is untouched, and a call that has
  returned has ended its text. Each state of the loop keeps it, for every
  character it may find, provided the arguments are of the kinds the format asks
  for (`ArgsMatch`, the contract of a C call; what `va_arg` reads otherwise is
  undefined). `ShellStaysInBuffer` has this as its hypothesis for the direct
  calls, and those of the `shell` run all meet it.
- `InSession`: every `printf` the shell makes, or has still to make, is of one
  fixed message or of `"%s"`, a text and one character, with the text two shorter
  than the buffer; and `Underway` says how far it can have got, so that the
  length returned is one the buffer has, and not a wrapped one.
- `WordsApart`: the words `strtok` has stored lie behind each other, each with
  its end before the next one begins. It is what bounds the text that `strcat`
  joins: from the second word on it is at least two shorter than the line.

`SessionStaysInBuffer` is the same for sessions without any hypothesis, since
there `ArgsMatch` follows from `InSession`. `ShellAssumption` says of the
constants what the code's have: a line no longer than `printf`'s buffer, input
shorter than the line buffer (`getline` reads one less), a buffer of at least
eight that is at most half the numbers of an int, rows that are not empty, and
that `NUL` and `NULL` are not among the values they are compared with.

Only model-checked: liveness, here `EveryRequestServed` and `EveryCallReturns`,
since the proof system does not handle fairness; and `FormatsAsReference` and
`AnswersItsLine`, which compare the code with a reference definition over whole
sequences of items and of words. They would take an induction along those, with
an invariant that relates each place in the loop to the reference; the inputs of
`shell` are exhaustive in the sense of section 4 instead.

## 6. Not modelled

The parts shipped as object files have no source; they appear only as what the
published code sees of them (a heap that may fail, threads that interleave, an
HFS whose operations may fail, a dispatcher of interrupts, a terminal). The boot
loader is sequential BIOS code. The GDT is six constants packed once. Of the
serial driver, receiving and the FIFO are not used by anyone. `fat12_close`,
`fat12_write` and `fat12_readdir` are stubs that return -1. Volumes whose sectors
differ in size from the device's blocks are left out: `fat12_mount` would read
blocks over each other, and no volume of the kernel is one. `Volume` opens one
file for each mount; several open files are in `Vfs`. Two threads that print at
once would interleave their characters, which the code allows; `Start` has one
thread. Overflow in `strtol` and in the width of a format, undefined in C, is out
of reach of the inputs. Log messages are left out, but for their way to the
serial port in `Start`.
