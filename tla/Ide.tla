-------------------------------- MODULE Ide --------------------------------
(***************************************************************************)
(* The PIO driver of driver/ide.c and the two drives of the primary        *)
(* channel.  A caller is a thread in ide_init (kind "identify"), or in     *)
(* ide_read_sector / ide_write_sector by way of _ide_blk_read /            *)
(* _ide_blk_write.  All three go through the same steps: select the drive, *)
(* wait for DRDY, write the address registers, write the command, wait for *)
(* BSY to clear, look at ERR, wait for DRQ, move the data; a write waits   *)
(* for DRQ first and for BSY after the data.                               *)
(*                                                                         *)
(* Every wait polls the status register 100000 times and gives up.  The    *)
(* registers of the channel are shared by both drives and all callers, and *)
(* have no lock.  IRQ14 only reads the status register, and changes        *)
(* nothing here.                                                           *)
(***************************************************************************)
EXTENDS Integers

CONSTANTS Callers, Sectors, Data,
          Attached,  \* what is on the channel: [0 .. 1 -> none, ata, atapi]
          Faults     \* "media": commands end with ERR; "drive": with DF, which
                     \* does not set ERR; "slow": drives outlast a poll

Drives == {0, 1}

ASSUME IdeAssumption ==
    /\ Sectors \subseteq Nat /\ 0 \in Sectors
    /\ Attached \in [Drives -> {"none", "ata", "atapi"}]
    /\ Faults \subseteq {"media", "drive", "slow"}

VARIABLES pc, call, buf, outcome,     \* the callers
          probed, present, registered,\* the driver: drives seen by ide_init
          sel, lba_regs,              \* the channel's registers
          st, cmd,                    \* each drive: its state, its command
          disk

callers == <<pc, call, buf, outcome>>
driver  == <<probed, present, registered>>
channel == <<sel, lba_regs>>
drives  == <<st, cmd, disk>>
vars == <<callers, driver, channel, drives>>

Steps == {"idle", "select", "drdy", "regs", "command", "bsy", "drq", "data"}
Calls == [kind : {"identify", "read", "write"}, drive : Drives, lba : Sectors]
Commands == [op : {"identify", "read", "write"}, lba : Sectors, data : Data]

TypeOK ==
    /\ pc \in [Callers -> Steps]
    /\ call \in [Callers -> Calls]
    /\ buf \in [Callers -> Data]
    /\ outcome \in [Callers -> {"none", "done", "failed"}]
    /\ probed \in 0 .. 2 /\ present \subseteq Drives /\ registered \subseteq Drives
    /\ sel \in Drives /\ lba_regs \in Sectors
    /\ st \in [Drives -> {"ready", "busy", "drq", "writing", "err", "df"}]
    /\ cmd \in [Drives -> Commands]
    /\ disk \in [Drives -> [Sectors -> Data]]

Init ==
    /\ pc = [c \in Callers |-> "idle"]
    /\ call = [c \in Callers |-> [kind |-> "identify", drive |-> 0, lba |-> 0]]
    /\ buf \in [Callers -> Data]
    /\ outcome = [c \in Callers |-> "none"]
    /\ probed = 0 /\ present = {} /\ registered = {}
    /\ sel = 0 /\ lba_regs = 0            \* ide_reset selects the master
    /\ st = [d \in Drives |-> "ready"]
    /\ \E b \in Data : cmd = [d \in Drives |-> [op |-> "identify", lba |-> 0, data |-> b]]
    /\ disk \in [Drives -> [Sectors -> Data]]

-----------------------------------------------------------------------------
\* The status register of the selected drive; it reads 0 if there is none.
BSY == Attached[sel] # "none" /\ st[sel] \in {"busy", "writing"}
DRQ == Attached[sel] # "none" /\ st[sel] = "drq"

\* Mutant of RDY: BSY is not looked at.
RDY_only == Attached[sel] # "none"
RDY == Attached[sel] # "none" /\ ~BSY

\* Mutant of ERR: the error bit is not looked at.
ERR_ignored == FALSE
ERR == Attached[sel] # "none" /\ st[sel] = "err"

Goto(c, step) == pc' = [pc EXCEPT ![c] = step]
Kind(c) == call[c].kind

\* The call ends; ide_init goes on to the next drive.
Return(c, how) ==
    /\ Goto(c, "idle")
    /\ outcome' = [outcome EXCEPT ![c] = how]
    /\ probed' = probed + (IF Kind(c) = "identify" THEN 1 ELSE 0)

Failed(c) ==
    /\ Return(c, "failed")
    /\ UNCHANGED <<call, buf, present, registered, channel, drives>>

-----------------------------------------------------------------------------
\* Mutant of ide_init: the loop runs once too often (i <= IDE_MAX_DEVICES).
ide_init_third(c) ==
    /\ probed < 3 /\ \A d \in Callers : pc[d] = "idle"
    /\ call' = [call EXCEPT ![c] = [kind |-> "identify", drive |-> probed, lba |-> 0]]
    /\ Goto(c, "select")
    /\ UNCHANGED <<buf, outcome, driver, channel, drives>>

\* One turn of ide_init's loop over the drives.
ide_init(c) ==
    /\ probed < 2 /\ \A d \in Callers : pc[d] = "idle"
    /\ call' = [call EXCEPT ![c] = [kind |-> "identify", drive |-> probed, lba |-> 0]]
    /\ Goto(c, "select")
    /\ UNCHANGED <<buf, outcome, driver, channel, drives>>

\* ide_read_sector, ide_write_sector: the device is present, a hard disk,
\* and the sector in range.
ide_sector(c, kind, d, s, b) ==
    /\ probed = 2 /\ pc[c] = "idle" /\ d \in registered
    /\ call' = [call EXCEPT ![c] = [kind |-> kind, drive |-> d, lba |-> s]]
    /\ buf' = [buf EXCEPT ![c] = b]
    /\ Goto(c, "select")
    /\ UNCHANGED <<outcome, driver, channel, drives>>

_ide_select_drive(c) ==
    /\ pc[c] = "select"
    /\ sel' = call[c].drive
    /\ Goto(c, "drdy")
    /\ UNCHANGED <<call, buf, outcome, driver, lba_regs, drives>>

_ide_wait_drdy(c) ==
    /\ pc[c] = "drdy" /\ RDY
    /\ Goto(c, IF Kind(c) = "identify" THEN "command" ELSE "regs")
    /\ UNCHANGED <<call, buf, outcome, driver, channel, drives>>

\* Sector count and the low 24 bits of the LBA.
_ide_write_lbaregs(c) ==
    /\ pc[c] = "regs"
    /\ lba_regs' = call[c].lba
    /\ Goto(c, "command")
    /\ UNCHANGED <<call, buf, outcome, driver, sel, drives>>

\* The device register (which selects the drive again; IDENTIFY does not
\* write it), then the command register.
_ide_write_command(c) ==
    LET d == IF Kind(c) = "identify" THEN sel ELSE call[c].drive IN
    /\ pc[c] = "command"
    /\ sel' = d
    /\ st' = [st EXCEPT ![d] = "busy"]
    /\ cmd' = [cmd EXCEPT ![d] = [op |-> Kind(c), lba |-> lba_regs, data |-> @.data]]
    /\ Goto(c, IF Kind(c) = "write" THEN "drq" ELSE "bsy")
    /\ UNCHANGED <<call, buf, outcome, driver, lba_regs, disk>>

\* BSY is clear and so is ERR.  A write is then complete.
_ide_wait_bsy(c) ==
    /\ pc[c] = "bsy" /\ ~BSY /\ ~ERR
    /\ \/ /\ Kind(c) # "write"
          /\ Goto(c, "drq") /\ UNCHANGED <<outcome, probed>>
       \/ /\ Kind(c) = "write"
          /\ Return(c, "done")
    /\ UNCHANGED <<call, buf, present, registered, channel, drives>>

\* BSY is clear and ERR is set.
_ide_error(c) ==
    /\ pc[c] = "bsy" /\ ~BSY /\ ERR
    /\ Failed(c)

_ide_wait_drq(c) ==
    /\ pc[c] = "drq" /\ DRQ
    /\ Goto(c, "data")
    /\ UNCHANGED <<call, buf, outcome, driver, channel, drives>>

\* Mutant of _ide_timeout: the wait for DRQ has no limit.
_ide_timeout_no_drq(c) ==
    /\ \/ pc[c] = "drdy" /\ ~RDY
       \/ pc[c] = "bsy" /\ BSY
    /\ BSY => "slow" \in Faults
    /\ Failed(c)

\* A wait gives up: the bit will not change, or not within the polls.
_ide_timeout(c) ==
    /\ \/ pc[c] = "drdy" /\ ~RDY
       \/ pc[c] = "bsy" /\ BSY
       \/ pc[c] = "drq" /\ ~DRQ
    /\ BSY => "slow" \in Faults
    /\ Failed(c)

\* The 256 words.  IDENTIFY: the drive is present, and a hard disk is
\* registered as a block device.
_ide_data(c) ==
    /\ pc[c] = "data"
    /\ \/ /\ Kind(c) = "identify"
          /\ Return(c, "done")
          /\ present' = present \cup {call[c].drive}
          /\ registered' = registered
                \cup (IF Attached[sel] = "ata" THEN {call[c].drive} ELSE {})
          /\ st' = [st EXCEPT ![sel] = "ready"]
          /\ UNCHANGED <<buf, cmd>>
       \/ /\ Kind(c) = "read"
          /\ Return(c, "done")
          /\ buf' = [buf EXCEPT ![c] = disk[sel][cmd[sel].lba]]
          /\ st' = [st EXCEPT ![sel] = "ready"]
          /\ UNCHANGED <<present, registered, cmd>>
       \/ /\ Kind(c) = "write"
          /\ Goto(c, "bsy")
          /\ st' = [st EXCEPT ![sel] = "writing"]
          /\ cmd' = [cmd EXCEPT ![sel].data = buf[c]]
          /\ UNCHANGED <<buf, outcome, driver>>
    /\ UNCHANGED <<call, channel, disk>>

-----------------------------------------------------------------------------
\* A drive answers a command: ready for data, in error (an ATAPI drive
\* refuses IDENTIFY), or with a drive fault.
DriveAnswers(d) ==
    /\ Attached[d] # "none" /\ st[d] = "busy"
    /\ \/ Attached[d] = "ata" /\ st' = [st EXCEPT ![d] = "drq"]
       \/ (Attached[d] = "atapi" \/ "media" \in Faults) /\ st' = [st EXCEPT ![d] = "err"]
       \/ "drive" \in Faults /\ st' = [st EXCEPT ![d] = "df"]
    /\ UNCHANGED <<callers, driver, channel, cmd, disk>>

\* A drive has written its sector, or failed to.
DriveWrites(d) ==
    /\ st[d] = "writing"
    /\ \/ /\ st' = [st EXCEPT ![d] = "ready"]
          /\ disk' = [disk EXCEPT ![d][cmd[d].lba] = cmd[d].data]
       \/ /\ "media" \in Faults
          /\ st' = [st EXCEPT ![d] = "err"]
          /\ UNCHANGED disk
       \/ /\ "drive" \in Faults
          /\ st' = [st EXCEPT ![d] = "df"]
          /\ UNCHANGED disk
    /\ UNCHANGED <<callers, driver, channel, cmd>>

NewCall(c) ==
    \/ ide_init(c)
    \/ \E kind \in {"read", "write"}, d \in Drives, s \in Sectors, b \in Data :
        ide_sector(c, kind, d, s, b)

Driver(c) ==
    \/ _ide_select_drive(c) \/ _ide_wait_drdy(c) \/ _ide_write_lbaregs(c)
    \/ _ide_write_command(c) \/ _ide_wait_bsy(c) \/ _ide_error(c)
    \/ _ide_wait_drq(c) \/ _ide_timeout(c) \/ _ide_data(c)

Hardware == \E d \in Drives : DriveAnswers(d) \/ DriveWrites(d)

Next == Hardware \/ \E c \in Callers : NewCall(c) \/ Driver(c)

Spec == Init /\ [][Next]_vars

\* The scheduler runs every thread, and polls are bounded: a slow drive
\* needs no fairness, one that is not slow answers.
FairSpec == Spec /\ WF_vars(Hardware) /\ \A c \in Callers : WF_vars(Driver(c))

-----------------------------------------------------------------------------
(***************************************************************************)
(* A call that runs to its end has moved its sector: the buffer of a read  *)
(* is what the drive holds at that LBA, and after a write the drive holds  *)
(* the buffer, whatever earlier calls gave up and left behind; unless the  *)
(* drive ended it with a drive fault, which ide_write_sector does not look *)
(* at: such a write runs to its end with nothing written.                  *)
(***************************************************************************)
DoneMeansTransferred ==
    \A c \in Callers :
        pc[c] = "idle" /\ outcome[c] = "done" /\ Kind(c) # "identify"
            => \/ Kind(c) = "write" /\ st[call[c].drive] = "df"
               \/ buf[c] = disk[call[c].drive][call[c].lba]

(***************************************************************************)
(* No command is written to a drive that is still busy with one, not even  *)
(* after a timeout abandoned it: DRDY is waited for with BSY clear.        *)
(***************************************************************************)
NoCommandWhileBusy ==
    [][\A c \in Callers :
        _ide_write_command(c) => st[sel'] \notin {"busy", "writing"}]_vars

\* Every call returns, however the drives behave: all waits are bounded.
EveryCallReturns == \A c \in Callers : pc[c] # "idle" ~> pc[c] = "idle"
=============================================================================
