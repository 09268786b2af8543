-------------------------------- MODULE Fdc --------------------------------
(***************************************************************************)
(* The floppy driver of driver/fdc.c, its IRQ6 handler and the controller  *)
(* it drives.  A caller is a kernel thread inside fdc_init, or inside      *)
(* fdc_read_sector / fdc_write_sector by way of _blk_read / _blk_write.    *)
(* The driver's state (the interrupt flag, the one DMA buffer) is shared   *)
(* by all callers and has no lock.  The steps of a call are the stretches  *)
(* between the points where something else must run: the busy wait for     *)
(* IRQ6 and the sleep in _fdc_control_motor.                               *)
(*                                                                         *)
(* `pc' names the next step of a caller, `call' its arguments: buf is the  *)
(* content of the caller's buffer, NULL for a null pointer.  The drive     *)
(* number stays 0, the only value the kernel passes to fdc_set_drive.      *)
(***************************************************************************)
EXTENDS Integers, FiniteSets

CONSTANTS Callers,   \* threads that may be inside the driver
          Sectors,   \* the LBAs they use
          Data,      \* contents of a sector
          Kinds,     \* the calls they make: "read", "write"
          Retries,   \* attempts of _fdc_seek and _fdc_recalibrate (10)
          Faults,    \* what the hardware may do wrong
          NULL

\* The LBAs of a 1.44 MB disk.
DiskSectors == 0 .. 2879

ASSUME FdcAssumption ==
    /\ Sectors \subseteq DiskSectors /\ 0 \in Sectors
    /\ Kinds \subseteq {"read", "write"}
    /\ Retries \in Nat \ {0}
    /\ Faults \subseteq {"seek", "media", "fifo"}
    /\ NULL \notin Data

VARIABLES pc, call, tries, ret,         \* the callers
          irq_fired, dmabuf, registered,\* the driver's static data
          phase, cmd, cyl, motor,       \* the controller and the drive
          pending,                      \* interrupt statuses held for SENSE
          line,                         \* IRQ6 raised, handler not yet run
          disk

driver == <<pc, call, tries, ret, irq_fired, dmabuf, registered>>
hardware == <<phase, cmd, cyl, motor, pending, line, disk>>
vars == <<driver, hardware>>

-----------------------------------------------------------------------------
\* Mutant of fdc_lba_to_chs: sectors counted from 0.
fdc_lba_to_chs_from0(lba) ==
    [cyl |-> (lba \div 36) % 256, head |-> (lba % 36) \div 18, sector |-> lba % 18]

\* The cylinder is cast to uint8_t.
fdc_lba_to_chs(lba) ==
    [cyl    |-> (lba \div (18 * 2)) % 256,
     head   |-> (lba % (2 * 18)) \div 18,
     sector |-> ((lba % (2 * 18)) % 18) + 1]

\* Where a 1.44 MB disk (80 cylinders, 2 heads, 18 sectors) keeps an LBA:
\* cylinders outermost, sectors innermost.
Holds(chs, lba) ==
    /\ chs.cyl \in 0 .. 79 /\ chs.head \in 0 .. 1 /\ chs.sector \in 1 .. 18
    /\ lba = (chs.cyl * 2 + chs.head) * 18 + chs.sector - 1

Cylinders == {fdc_lba_to_chs(s).cyl : s \in Sectors}
Bool01(b) == IF b THEN 1 ELSE 0
Update(f, c, v) == [f EXCEPT ![c] = v]

Calls == [kind : {"init", "read", "write"}, lba : Sectors, buf : Data \cup {NULL}]
Commands ==
    [op : {"reset"}] \cup [op : {"seek"}, cyl : Cylinders]
        \cup [op : {"read", "write"}, chs : {fdc_lba_to_chs(s) : s \in Sectors}]

\* Inside _fdc_wait_for_irq: in its loop, and past it with the flag still set.
Spins == {"reset_wait", "position_wait", "transfer_wait"}
Fired == {"reset_fired", "position_fired", "transfer_fired"}
Waits == Spins \cup Fired
Steps == {"idle", "reset_sense", "position", "position_sense", "transfer",
          "transfer_result", "copy"} \cup Waits

TypeOK ==
    /\ pc \in [Callers -> Steps]
    /\ call \in [Callers -> Calls]
    /\ tries \in [Callers -> 0 .. Retries - 1]
    /\ ret \in [Callers -> {0, -1}]
    /\ irq_fired \in BOOLEAN /\ line \in BOOLEAN
    /\ registered \in BOOLEAN /\ motor \in BOOLEAN
    /\ dmabuf \in Data
    /\ phase \in {"command", "busy", "result"}
    /\ cmd \in Commands \cup {NULL}
    /\ cyl \in Cylinders
    /\ pending \in 0 .. 4
    /\ disk \in [Sectors -> Data]

\* At power on: the head anywhere, the DMA buffer unwritten memory.
Init ==
    /\ pc = [c \in Callers |-> "idle"]
    /\ call = [c \in Callers |-> [kind |-> "init", lba |-> 0, buf |-> NULL]]
    /\ tries = [c \in Callers |-> 0]
    /\ ret = [c \in Callers |-> 0]
    /\ irq_fired = FALSE /\ line = FALSE /\ registered = FALSE /\ motor = FALSE
    /\ dmabuf \in Data
    /\ phase = "command" /\ cmd = NULL /\ pending = 0
    /\ cyl \in Cylinders
    /\ disk \in [Sectors -> Data]

-----------------------------------------------------------------------------
(***************************************************************************)
(* The command and result phases.  _fdc_send_command polls RQM 500 times   *)
(* for each byte and its -1 is ignored: a byte that finds the controller   *)
(* busy or holding results, or that times out, is lost, and with it the    *)
(* command.  _fdc_read_fifo answers 0 after a timeout.                     *)
(***************************************************************************)
_fdc_send_command(cm) ==
    \/ phase = "command" /\ phase' = "busy" /\ cmd' = cm
    \/ /\ phase # "command" \/ "fifo" \in Faults
       /\ UNCHANGED <<phase, cmd>>

\* Mutant of SensedCylinder: the fault-free FIFO also yields 0.
SensedCylinder_zero == {0} \cup {cyl}

\* The cylinder byte of SENSE INTERRUPT, undefined when no status is held.
SensedCylinder ==
    (IF "fifo" \in Faults THEN {0} ELSE {})
        \cup (IF pending > 0 THEN {cyl} ELSE Cylinders)

Return(c, r) ==
    /\ pc' = Update(pc, c, "idle")
    /\ ret' = Update(ret, c, r)

Goal(c) == IF call[c].kind = "init" THEN 0 ELSE fdc_lba_to_chs(call[c].lba).cyl

-----------------------------------------------------------------------------
\* fdc_init up to fdc_reset's wait: the DOR is written 0, then enabled.
fdc_init(c) ==
    /\ ~registered /\ \A d \in Callers : pc[d] = "idle"
    /\ pc' = Update(pc, c, "reset_wait")
    /\ motor' = FALSE /\ pending' = 0
    /\ phase' = "busy" /\ cmd' = [op |-> "reset"]
    /\ UNCHANGED <<call, tries, ret, irq_fired, dmabuf, registered, cyl, line, disk>>

\* _fdc_wait_for_irq spins on the flag; any thread may see it set.
_fdc_wait_for_irq(c) ==
    /\ pc[c] \in Spins /\ irq_fired
    /\ pc' = Update(pc, c, CASE pc[c] = "reset_wait" -> "reset_fired"
                             [] pc[c] = "position_wait" -> "position_fired"
                             [] pc[c] = "transfer_wait" -> "transfer_fired")
    /\ UNCHANGED <<call, tries, ret, irq_fired, dmabuf, registered, hardware>>

\* Mutant of _fdc_clear_irq: the flag is not cleared.
_fdc_clear_irq_not(c) ==
    /\ pc[c] \in Fired
    /\ pc' = Update(pc, c, CASE pc[c] = "reset_fired" -> "reset_sense"
                             [] pc[c] = "position_fired" -> "position_sense"
                             [] pc[c] = "transfer_fired" -> "transfer_result")
    /\ UNCHANGED <<call, tries, ret, irq_fired, dmabuf, registered, hardware>>

\* ... and clears it, in a statement of its own: an interrupt, or another
\* thread, may come in between.
_fdc_clear_irq(c) ==
    /\ pc[c] \in Fired
    /\ irq_fired' = FALSE
    /\ pc' = Update(pc, c, CASE pc[c] = "reset_fired" -> "reset_sense"
                             [] pc[c] = "position_fired" -> "position_sense"
                             [] pc[c] = "transfer_fired" -> "transfer_result")
    /\ UNCHANGED <<call, tries, ret, dmabuf, registered, hardware>>

\* The rest of fdc_reset: four SENSE, CCR, SPECIFY, and the motor on for
\* _fdc_recalibrate.
fdc_reset_sense(c) ==
    /\ pc[c] = "reset_sense"
    /\ pending' \in IF "fifo" \in Faults THEN 0 .. pending ELSE {0}
    /\ motor' = TRUE
    /\ tries' = Update(tries, c, 0)
    /\ pc' = Update(pc, c, "position")
    /\ UNCHANGED <<call, ret, irq_fired, dmabuf, registered, phase, cmd, cyl, line, disk>>

\* fdc_read_sector and fdc_write_sector up to the sleep after motor on.  A
\* write refuses a null buffer and fills the DMA buffer first.
fdc_read_sector(c) ==
    /\ registered /\ pc[c] = "idle"
    /\ \E s \in Sectors, b \in Data \cup {NULL} :
        call' = Update(call, c, [kind |-> "read", lba |-> s, buf |-> b])
    /\ motor' = TRUE
    /\ tries' = Update(tries, c, 0)
    /\ pc' = Update(pc, c, "position")
    /\ UNCHANGED <<ret, irq_fired, dmabuf, registered, phase, cmd, cyl, pending, line, disk>>

fdc_write_sector(c) ==
    /\ registered /\ pc[c] = "idle"
    /\ \E s \in Sectors, b \in Data :
        /\ call' = Update(call, c, [kind |-> "write", lba |-> s, buf |-> b])
        /\ dmabuf' = b
    /\ motor' = TRUE
    /\ tries' = Update(tries, c, 0)
    /\ pc' = Update(pc, c, "position")
    /\ UNCHANGED <<ret, irq_fired, registered, phase, cmd, cyl, pending, line, disk>>

fdc_write_sector_null(c) ==
    /\ registered /\ pc[c] = "idle"
    /\ \E s \in Sectors :
        call' = Update(call, c, [kind |-> "write", lba |-> s, buf |-> NULL])
    /\ Return(c, -1)
    /\ UNCHANGED <<tries, irq_fired, dmabuf, registered, hardware>>

\* One attempt of _fdc_seek, or of _fdc_recalibrate in fdc_init.
_fdc_position(c) ==
    /\ pc[c] = "position"
    /\ _fdc_send_command([op |-> "seek", cyl |-> Goal(c)])
    /\ pc' = Update(pc, c, "position_wait")
    /\ UNCHANGED <<call, tries, ret, irq_fired, dmabuf, registered,
                   cyl, motor, pending, line, disk>>

\* Mutant of _fdc_seek_failed: fdc_write_sector leaves the motor on as well.
_fdc_seek_failed_motor(c) ==
    /\ Return(c, -1) /\ motor' = (motor /\ call[c].kind # "init")
    /\ registered' = TRUE /\ tries' = tries

\* The last attempt failed: _fdc_recalibrate and fdc_write_sector stop the
\* motor, fdc_read_sector does not.  fdc_reset ignores the failure.
_fdc_seek_failed(c) ==
    /\ Return(c, IF call[c].kind = "init" THEN 0 ELSE -1)
    /\ motor' = (motor /\ call[c].kind = "read")
    /\ registered' = TRUE
    /\ tries' = tries

\* Mutant of _fdc_retry: the attempt is not counted.
_fdc_retry_uncounted(c) ==
    /\ tries[c] + 1 < Retries /\ tries' = tries
    /\ pc' = Update(pc, c, "position") /\ UNCHANGED <<ret, motor, registered>>

\* Mutant of _fdc_retry: one attempt too many.
_fdc_retry_extra(c) ==
    /\ tries[c] + 1 <= Retries /\ tries' = Update(tries, c, tries[c] + 1)
    /\ pc' = Update(pc, c, "position") /\ UNCHANGED <<ret, motor, registered>>

_fdc_retry(c) ==
    /\ tries[c] + 1 < Retries
    /\ tries' = Update(tries, c, tries[c] + 1)
    /\ pc' = Update(pc, c, "position")
    /\ UNCHANGED <<ret, motor, registered>>

\* The head is where it should be: fdc_init stops the motor and registers
\* fd0, a sector call goes on to its transfer.
_fdc_seek_done(c) ==
    \/ /\ call[c].kind = "init"
       /\ Return(c, 0) /\ motor' = FALSE /\ registered' = TRUE /\ tries' = tries
    \/ /\ call[c].kind # "init"
       /\ pc' = Update(pc, c, "transfer") /\ UNCHANGED <<ret, motor, registered, tries>>

\* SENSE INTERRUPT after a seek or a recalibration, and the loop's decision.
_fdc_position_sense(c) ==
    /\ pc[c] = "position_sense"
    /\ pending' \in IF "fifo" \in Faults THEN {0, pending} ELSE {0}
    /\ \E n \in SensedCylinder :
        \/ n = Goal(c) /\ _fdc_seek_done(c)
        \/ n # Goal(c) /\ _fdc_retry(c)
        \/ n # Goal(c) /\ tries[c] + 1 = Retries /\ _fdc_seek_failed(c)
    /\ UNCHANGED <<call, irq_fired, dmabuf, phase, cmd, cyl, line, disk>>

\* Mutant of _fdc_sector_chs: a read sends the WRITE command.
_fdc_sector_chs_write(c) ==
    /\ pc[c] = "transfer"
    /\ _fdc_send_command([op |-> "write", chs |-> fdc_lba_to_chs(call[c].lba)])
    /\ pc' = Update(pc, c, "transfer_wait")
    /\ UNCHANGED <<call, tries, ret, irq_fired, dmabuf, registered,
                   cyl, motor, pending, line, disk>>

\* _fdc_read_sector_chs / _fdc_write_sector_chs up to the wait: the DMA
\* channel is programmed and the nine command bytes are sent.
_fdc_sector_chs(c) ==
    /\ pc[c] = "transfer"
    /\ _fdc_send_command([op |-> call[c].kind, chs |-> fdc_lba_to_chs(call[c].lba)])
    /\ pc' = Update(pc, c, "transfer_wait")
    /\ UNCHANGED <<call, tries, ret, irq_fired, dmabuf, registered,
                   cyl, motor, pending, line, disk>>

\* Mutant of _fdc_results: the seven result bytes are not read.
_fdc_results_unread == phase' = phase

\* Seven result bytes and a SENSE, all discarded.
_fdc_results ==
    \/ phase = "result" /\ phase' = "command"
    \/ (phase # "result" \/ "fifo" \in Faults) /\ phase' = phase

\* The end of a transfer, and the motor off.
_fdc_sector_chs_end(c) ==
    /\ pc[c] = "transfer_result"
    /\ _fdc_results
    /\ pending' = IF phase = "result" THEN 0 ELSE pending
    /\ motor' = FALSE
    /\ pc' = Update(pc, c, "copy")
    /\ UNCHANGED <<call, tries, ret, irq_fired, dmabuf, registered, cmd, cyl, line, disk>>

\* After the sleep: a read copies the DMA buffer out, a null buffer is only
\* noticed now.
fdc_sector_return(c) ==
    /\ pc[c] = "copy"
    /\ \/ /\ call[c].kind = "read" /\ call[c].buf # NULL
          /\ call' = Update(call, c, [call[c] EXCEPT !.buf = dmabuf])
          /\ Return(c, 0)
       \/ /\ call[c].kind = "read" /\ call[c].buf = NULL
          /\ call' = call
          /\ Return(c, -1)
       \/ /\ call[c].kind = "write"
          /\ call' = call
          /\ Return(c, 0)
    /\ UNCHANGED <<tries, irq_fired, dmabuf, registered, hardware>>

-----------------------------------------------------------------------------
\* The controller finishes a reset: one interrupt, a status for each drive.
ResetDone ==
    /\ phase = "busy" /\ cmd.op = "reset"
    /\ phase' = "command" /\ cmd' = NULL /\ pending' = 4 /\ line' = TRUE
    /\ UNCHANGED <<driver, cyl, motor, disk>>

\* A seek ends at its goal, or, with the fault, where the head was.
SeekDone ==
    /\ phase = "busy" /\ cmd.op = "seek"
    /\ cyl' \in {cmd.cyl} \cup (IF "seek" \in Faults THEN {cyl} ELSE {})
    /\ phase' = "command" /\ cmd' = NULL /\ pending' = 1 /\ line' = TRUE
    /\ UNCHANGED <<driver, motor, disk>>

\* A transfer moves the addressed sector if the drive turns and the head is
\* on its cylinder; otherwise, or with the fault, it ends in an error.
TransferDone ==
    /\ phase = "busy" /\ cmd.op \in {"read", "write"}
    /\ \/ \E s \in Sectors :
            /\ motor /\ cyl = cmd.chs.cyl /\ Holds(cmd.chs, s)
            /\ dmabuf' = IF cmd.op = "read" THEN disk[s] ELSE dmabuf
            /\ disk' = IF cmd.op = "write" THEN [disk EXCEPT ![s] = dmabuf] ELSE disk
       \/ /\ \/ "media" \in Faults \/ ~motor \/ cyl # cmd.chs.cyl
             \/ \A s \in Sectors : ~Holds(cmd.chs, s)
          /\ UNCHANGED <<dmabuf, disk>>
    /\ phase' = "result" /\ cmd' = NULL /\ line' = TRUE
    /\ UNCHANGED <<pc, call, tries, ret, irq_fired, registered, cyl, motor, pending>>

\* IRQ6 is delivered.
_fdc_irq_handler ==
    /\ line /\ line' = FALSE
    /\ irq_fired' = TRUE
    /\ UNCHANGED <<pc, call, tries, ret, dmabuf, registered,
                   phase, cmd, cyl, motor, pending, disk>>

Hardware == ResetDone \/ SeekDone \/ TransferDone \/ _fdc_irq_handler

Driver(c) ==
    \/ _fdc_wait_for_irq(c) \/ _fdc_clear_irq(c)
    \/ fdc_reset_sense(c) \/ _fdc_position(c)
    \/ _fdc_position_sense(c) \/ _fdc_sector_chs(c) \/ _fdc_sector_chs_end(c)
    \/ fdc_sector_return(c)

NewCall(c) ==
    \/ fdc_init(c)
    \/ "read" \in Kinds /\ fdc_read_sector(c)
    \/ "write" \in Kinds /\ (fdc_write_sector(c) \/ fdc_write_sector_null(c))

Next == Hardware \/ \E c \in Callers : NewCall(c) \/ Driver(c)

Spec == Init /\ [][Next]_vars

\* The controller ends its commands, IRQ6 reaches the CPU, and the
\* round-robin scheduler runs every thread.
FairSpec == Spec /\ WF_vars(Hardware) /\ \A c \in Callers : WF_vars(Driver(c))

-----------------------------------------------------------------------------
Idle == \A c \in Callers : pc[c] = "idle"

(***************************************************************************)
(* From its command to the moment it clears the flag a caller is owed      *)
(* exactly one interrupt, which is either still to come from the busy      *)
(* controller, on its way, or in the flag.  So no command is ever issued   *)
(* with a stale flag, which _fdc_wait_for_irq, that never clears the flag  *)
(* before the command, would take for the end of that command.  With two   *)
(* callers this fails: both can leave the loop on one interrupt.           *)
(***************************************************************************)
OneInterruptPerWait ==
    Bool01(phase = "busy") + Bool01(line) + Bool01(irq_fired)
        = Cardinality({c \in Callers : pc[c] \in Waits})

(***************************************************************************)
(* Between calls the controller is ready for a command byte: a call that   *)
(* ends, well or not, has drained the result phase of its command, or else *)
(* every byte of the next command would be lost.                           *)
(***************************************************************************)
ReadyBetweenCalls == Idle => phase = "command" /\ cmd = NULL

(***************************************************************************)
(* A call that returned 0 did what it is for: after a read the buffer      *)
(* holds what the disk holds at the LBA asked for, after a write the disk  *)
(* holds the buffer.                                                       *)
(***************************************************************************)
SuccessMeansTransferred ==
    \A c \in Callers :
        pc[c] = "idle" /\ call[c].kind # "init" /\ ret[c] = 0
            => call[c].buf = disk[call[c].lba]

(***************************************************************************)
(* The disk changes only while a write of that very sector, of these very  *)
(* data, waits for its transfer: no read, no failed seek and no retry      *)
(* writes anything.                                                        *)
(***************************************************************************)
OnlyTheWrittenSectorChanges ==
    [][\A s \in Sectors : disk'[s] # disk[s] =>
        \E c \in Callers :
            /\ pc[c] = "transfer_wait"
            /\ call[c] = [kind |-> "write", lba |-> s, buf |-> disk'[s]]]_vars

(***************************************************************************)
(* A call that started the motor stops it before it returns, on every path *)
(* but one: fdc_read_sector returns from a failed seek without doing so.   *)
(***************************************************************************)
MotorOffUnlessReadFailed ==
    [][\A c \in Callers :
        pc[c] # "idle" /\ pc'[c] = "idle" /\ motor'
            => call[c].kind = "read" /\ ret'[c] = -1]_vars

(***************************************************************************)
(* "seek successful": when _fdc_seek returns 0 the head is on the cylinder *)
(* asked for.                                                              *)
(***************************************************************************)
SeekSuccessMeansThere ==
    \A c \in Callers : pc[c] = "transfer" => cyl = Goal(c)

(***************************************************************************)
(* Every call returns, its seek retries included: the busy wait of         *)
(* _fdc_wait_for_irq has no timeout, so it hangs as soon as an interrupt   *)
(* it waits for was taken by an earlier wait.                              *)
(***************************************************************************)
EveryCallReturns == \A c \in Callers : pc[c] # "idle" ~> pc[c] = "idle"

\* The address conversion is exact on the whole 1.44 MB disk.
ChsExact == \A lba \in DiskSectors : Holds(fdc_lba_to_chs(lba), lba)
=============================================================================
