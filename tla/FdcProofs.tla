----------------------------- MODULE FdcProofs -----------------------------
(***************************************************************************)
(* Theorems about the floppy driver of Fdc: for any set of sectors, any    *)
(* number of retries and, where it says so, any number of threads and any  *)
(* faults of the hardware.                                                 *)
(***************************************************************************)
EXTENDS Fdc, FiniteSetTheorems, TLAPS

(***************************************************************************)
(* fdc_lba_to_chs addresses the sector it is asked for, on every LBA of a  *)
(* 1.44 MB disk: the cast of the cylinder to uint8_t loses nothing.        *)
(***************************************************************************)
THEOREM AddressesExact == ChsExact
<1>1. ASSUME NEW lba \in DiskSectors PROVE Holds(fdc_lba_to_chs(lba), lba)
  <2> DEFINE q == lba \div 36
             r == lba % 36
             h == r \div 18
             t == r % 18
  <2>2. q \in 0 .. 79 /\ r \in 0 .. 35 /\ lba = q * 36 + r
    BY SMTT(30) DEF DiskSectors
  <2>3. h \in 0 .. 1 /\ t \in 0 .. 17 /\ r = h * 18 + t
    BY <2>2
  <2>4. q % 256 = q
    BY <2>2
  <2>5. fdc_lba_to_chs(lba) = [cyl |-> q, head |-> h, sector |-> t + 1]
    BY <2>4 DEF fdc_lba_to_chs
  <2> HIDE DEF q, r, h, t
  <2>6. lba = (q * 2 + h) * 18 + (t + 1) - 1
    BY <2>2, <2>3
  <2> QED BY <2>2, <2>3, <2>5, <2>6 DEF Holds
<1> QED BY <1>1, Zenon DEF ChsExact

-----------------------------------------------------------------------------
\* A command under way is a command (TypeOK alone lets it be NULL), and only
\* a call for a sector gets as far as its transfer.
Typed ==
    /\ TypeOK
    /\ phase = "busy" => cmd \in Commands
    /\ \A c \in Callers : pc[c] = "transfer" => call[c].kind \in {"read", "write"}

\* The cylinder a caller seeks is one of those the sectors lie on.
LEMMA GoalType ==
    ASSUME TypeOK, NEW c \in Callers
    PROVE  Goal(c) \in Cylinders
<1>1. fdc_lba_to_chs(0).cyl = 0
  BY DEF fdc_lba_to_chs
<1>2. call[c].lba \in Sectors
  BY DEF TypeOK, Calls
<1>3. 0 \in Sectors
  BY FdcAssumption
<1>4. \A s \in Sectors : fdc_lba_to_chs(s).cyl \in Cylinders
  BY DEF Cylinders
<1>5. CASE call[c].kind = "init"
  BY <1>1, <1>3, <1>4, <1>5 DEF Goal
<1>6. CASE call[c].kind # "init"
  BY <1>2, <1>4, <1>6 DEF Goal
<1> QED BY <1>5, <1>6

\* The commands the driver sends are commands.
LEMMA CommandTypes ==
    /\ [op |-> "reset"] \in Commands
    /\ \A n \in Cylinders : [op |-> "seek", cyl |-> n] \in Commands
    /\ \A s \in Sectors, k \in {"read", "write"} :
        [op |-> k, chs |-> fdc_lba_to_chs(s)] \in Commands
  BY DEF Commands

\* A seek command names a cylinder.
LEMMA SeekCommand ==
    ASSUME NEW cm \in Commands, cm.op = "seek"
    PROVE  cm.cyl \in Cylinders
  BY DEF Commands

\* The calls the driver takes are calls.
LEMMA CallTypes ==
    \A k \in {"read", "write"}, s \in Sectors, b \in Data \cup {NULL} :
        [kind |-> k, lba |-> s, buf |-> b] \in Calls
  BY DEF Calls

\* Sending a command, or losing it, keeps the controller's types.
LEMMA SendTyped ==
    ASSUME TypeOK, phase = "busy" => cmd \in Commands,
           NEW cm \in Commands, _fdc_send_command(cm)
    PROVE  /\ phase' \in {"command", "busy", "result"}
           /\ cmd' \in Commands \cup {NULL}
           /\ phase' = "busy" => cmd' \in Commands
  BY DEF _fdc_send_command, TypeOK

\* A new call keeps the types.
LEMMA NewCallTyped ==
    ASSUME Typed, NEW c \in Callers, NewCall(c)
    PROVE  Typed'
<1>0. 0 \in 0 .. Retries - 1
  BY FdcAssumption
<1>1. CASE fdc_init(c)
  <2>1. pc' \in [Callers -> Steps]
    BY <1>1 DEF Typed, fdc_init, TypeOK, Update, Steps, Waits, Spins, Fired
  <2>2. \A d \in Callers : pc'[d] = "transfer" => pc[d] = "transfer"
    BY <1>1 DEF Typed, fdc_init, TypeOK, Update
  <2>3. cmd' \in Commands
    BY <1>1, CommandTypes DEF fdc_init
  <2>4. TypeOK'
    <3>1. /\ UNCHANGED <<call, tries, ret, irq_fired, dmabuf, registered, cyl, line, disk>>
          /\ pending' \in 0 .. 4 /\ phase' = "busy"
      BY <1>1 DEF fdc_init
    <3>2. motor' \in BOOLEAN
      BY <1>1, Zenon DEF fdc_init
    <3> QED BY <2>1, <2>3, <3>1, <3>2 DEF Typed, TypeOK
  <2>5. \A d \in Callers : pc'[d] = "transfer" => call'[d].kind \in {"read", "write"}
    BY <1>1, <2>2 DEF Typed, fdc_init
  <2> QED BY <2>3, <2>4, <2>5 DEF Typed
<1>2. CASE fdc_read_sector(c)
  <2>1. pc' \in [Callers -> Steps] /\ tries' \in [Callers -> 0 .. Retries - 1]
    BY <1>0, <1>2 DEF Typed, fdc_read_sector, TypeOK, Update, Steps
  <2>2. \A d \in Callers : pc'[d] = "transfer" => d # c /\ pc[d] = "transfer"
    BY <1>2 DEF Typed, fdc_read_sector, TypeOK, Update
  <2>3. PICK s \in Sectors, b \in Data \cup {NULL} :
          call' = Update(call, c, [kind |-> "read", lba |-> s, buf |-> b])
    BY <1>2 DEF fdc_read_sector
  <2>4. call' \in [Callers -> Calls] /\ \A d \in Callers : d # c => call'[d] = call[d]
    BY <2>3, CallTypes DEF Typed, TypeOK, Update
  <2> QED BY <1>2, <2>1, <2>2, <2>4 DEF Typed, fdc_read_sector, TypeOK
<1>3. CASE fdc_write_sector(c)
  <2>1. pc' \in [Callers -> Steps] /\ tries' \in [Callers -> 0 .. Retries - 1]
    BY <1>0, <1>3 DEF Typed, fdc_write_sector, TypeOK, Update, Steps
  <2>2. \A d \in Callers : pc'[d] = "transfer" => d # c /\ pc[d] = "transfer"
    BY <1>3 DEF Typed, fdc_write_sector, TypeOK, Update
  <2>3. PICK s \in Sectors, b \in Data :
          /\ call' = Update(call, c, [kind |-> "write", lba |-> s, buf |-> b])
          /\ dmabuf' = b
    BY <1>3 DEF fdc_write_sector
  <2>4. call' \in [Callers -> Calls] /\ \A d \in Callers : d # c => call'[d] = call[d]
    BY <2>3, CallTypes DEF Typed, TypeOK, Update
  <2> QED BY <1>3, <2>1, <2>2, <2>3, <2>4 DEF Typed, fdc_write_sector, TypeOK
<1>4. CASE fdc_write_sector_null(c)
  <2>1. pc' \in [Callers -> Steps] /\ ret' \in [Callers -> {0, -1}]
    BY <1>4 DEF Typed, fdc_write_sector_null, Return, TypeOK, Update, Steps
  <2>2. \A d \in Callers : pc'[d] = "transfer" => d # c /\ pc[d] = "transfer"
    BY <1>4 DEF Typed, fdc_write_sector_null, Return, TypeOK, Update
  <2>3. PICK s \in Sectors :
          call' = Update(call, c, [kind |-> "write", lba |-> s, buf |-> NULL])
    BY <1>4 DEF fdc_write_sector_null
  <2>4. call' \in [Callers -> Calls] /\ \A d \in Callers : d # c => call'[d] = call[d]
    BY <2>3, CallTypes DEF Typed, TypeOK, Update
  <2> QED BY <1>4, <2>1, <2>2, <2>4 DEF Typed, fdc_write_sector_null, TypeOK, hardware
<1> QED BY <1>1, <1>2, <1>3, <1>4 DEF NewCall

\* A step of a call under way keeps the types.
LEMMA DriverTyped ==
    ASSUME Typed, NEW c \in Callers, Driver(c)
    PROVE  Typed'
<1>1. CASE _fdc_wait_for_irq(c)
  <2>1. \E s \in Steps \ {"transfer"} : pc' = Update(pc, c, s)
    BY <1>1 DEF _fdc_wait_for_irq, Waits, Spins, Fired, Steps
  <2>2. pc' \in [Callers -> Steps] /\ \A d \in Callers : pc'[d] = "transfer" => pc[d] = "transfer"
    BY <2>1 DEF Typed, TypeOK, Update
  <2> QED BY <1>1, <2>2 DEF Typed, _fdc_wait_for_irq, TypeOK, hardware
<1>8. CASE _fdc_clear_irq(c)
  <2>1. \E s \in Steps \ {"transfer"} : pc' = Update(pc, c, s)
    BY <1>8 DEF _fdc_clear_irq, Fired, Steps
  <2>2. pc' \in [Callers -> Steps] /\ \A d \in Callers : pc'[d] = "transfer" => pc[d] = "transfer"
    BY <2>1 DEF Typed, TypeOK, Update
  <2>3. irq_fired' \in BOOLEAN
    BY <1>8, Zenon DEF _fdc_clear_irq
  <2> QED BY <1>8, <2>2, <2>3 DEF Typed, _fdc_clear_irq, TypeOK, hardware
<1>2. CASE fdc_reset_sense(c)
  <2>1. tries' \in [Callers -> 0 .. Retries - 1] /\ pending' \in 0 .. 4
    BY <1>2, FdcAssumption DEF fdc_reset_sense, Typed, TypeOK, Update
  <2>2. pc' \in [Callers -> Steps] /\ \A d \in Callers : pc'[d] = "transfer" => pc[d] = "transfer"
    BY <1>2 DEF fdc_reset_sense, Typed, TypeOK, Update, Steps
  <2> QED BY <1>2, <2>1, <2>2 DEF fdc_reset_sense, Typed, TypeOK
<1>3. CASE _fdc_position(c)
  <2>1. [op |-> "seek", cyl |-> Goal(c)] \in Commands
    BY GoalType, CommandTypes DEF Typed
  <2>2. /\ phase' \in {"command", "busy", "result"} /\ cmd' \in Commands \cup {NULL}
        /\ phase' = "busy" => cmd' \in Commands
    BY <1>3, <2>1, SendTyped DEF Typed, _fdc_position
  <2>3. pc' \in [Callers -> Steps] /\ \A d \in Callers : pc'[d] = "transfer" => pc[d] = "transfer"
    BY <1>3 DEF _fdc_position, Typed, TypeOK, Update, Steps, Waits, Spins, Fired
  <2> QED BY <1>3, <2>2, <2>3 DEF _fdc_position, Typed, TypeOK
<1>4. CASE _fdc_position_sense(c)
  <2>1. pending' \in 0 .. 4
    BY <1>4 DEF _fdc_position_sense, Typed, TypeOK
  <2>2. \/ _fdc_seek_done(c) \/ _fdc_retry(c) \/ _fdc_seek_failed(c)
    BY <1>4 DEF _fdc_position_sense
  <2>3. tries' \in [Callers -> 0 .. Retries - 1]
    <3>1. CASE _fdc_retry(c)
      <4>1. tries[c] + 1 \in 0 .. Retries - 1
        BY <3>1, FdcAssumption DEF _fdc_retry, Typed, TypeOK
      <4> QED BY <3>1, <4>1 DEF _fdc_retry, Typed, TypeOK, Update
    <3>2. CASE ~_fdc_retry(c)
      BY <2>2, <3>2 DEF _fdc_seek_done, _fdc_seek_failed, Typed, TypeOK
    <3> QED BY <3>1, <3>2
  <2>4. ret' \in [Callers -> {0, -1}] /\ motor' \in BOOLEAN /\ registered' \in BOOLEAN
    BY <2>2 DEF _fdc_seek_done, _fdc_retry, _fdc_seek_failed, Return, Typed, TypeOK, Update
  <2>5. \/ pc' = Update(pc, c, "idle") \/ pc' = Update(pc, c, "position")
        \/ pc' = Update(pc, c, "transfer") /\ call[c].kind # "init"
    BY <2>2 DEF _fdc_seek_done, _fdc_retry, _fdc_seek_failed, Return
  <2>6. call[c].kind \in {"init", "read", "write"}
    BY DEF Typed, TypeOK, Calls
  <2>7. pc' \in [Callers -> Steps]
    BY <2>5 DEF Typed, TypeOK, Update, Steps
  <2>8. \A d \in Callers : pc'[d] = "transfer" => call[d].kind \in {"read", "write"}
    BY <2>5, <2>6 DEF Typed, TypeOK, Update
  <2> QED BY <1>4, <2>1, <2>3, <2>4, <2>7, <2>8 DEF _fdc_position_sense, Typed, TypeOK
<1>5. CASE _fdc_sector_chs(c)
  <2>1. call[c].lba \in Sectors /\ call[c].kind \in {"read", "write"}
    BY <1>5 DEF _fdc_sector_chs, Typed, TypeOK, Calls
  <2>2. [op |-> call[c].kind, chs |-> fdc_lba_to_chs(call[c].lba)] \in Commands
    BY <2>1, CommandTypes
  <2>3. /\ phase' \in {"command", "busy", "result"} /\ cmd' \in Commands \cup {NULL}
        /\ phase' = "busy" => cmd' \in Commands
    BY <1>5, <2>2, SendTyped DEF Typed, _fdc_sector_chs
  <2>4. pc' \in [Callers -> Steps] /\ \A d \in Callers : pc'[d] = "transfer" => pc[d] = "transfer"
    BY <1>5 DEF _fdc_sector_chs, Typed, TypeOK, Update, Steps, Waits, Spins, Fired
  <2> QED BY <1>5, <2>3, <2>4 DEF _fdc_sector_chs, Typed, TypeOK
<1>6. CASE _fdc_sector_chs_end(c)
  <2>1. pc' \in [Callers -> Steps] /\ \A d \in Callers : pc'[d] = "transfer" => pc[d] = "transfer"
    BY <1>6 DEF _fdc_sector_chs_end, Typed, TypeOK, Update, Steps
  <2>2. phase' \in {"command", phase} /\ pending' \in 0 .. 4
    BY <1>6 DEF _fdc_sector_chs_end, _fdc_results, Typed, TypeOK
  <2> QED BY <1>6, <2>1, <2>2 DEF _fdc_sector_chs_end, Typed, TypeOK
<1>7. CASE fdc_sector_return(c)
  <2>1. call' \in [Callers -> Calls] /\ \A d \in Callers : d # c => call'[d] = call[d]
    <3>1. [call[c] EXCEPT !.buf = dmabuf] \in Calls
      BY DEF Typed, TypeOK, Calls
    <3> QED BY <1>7, <3>1 DEF fdc_sector_return, Typed, TypeOK, Update
  <2>2. /\ pc' \in [Callers -> Steps] /\ ret' \in [Callers -> {0, -1}]
        /\ \A d \in Callers : pc'[d] = "transfer" => d # c /\ pc[d] = "transfer"
    BY <1>7 DEF fdc_sector_return, Return, Typed, TypeOK, Update, Steps
  <2> QED BY <1>7, <2>1, <2>2 DEF fdc_sector_return, Typed, TypeOK, hardware
<1> QED BY <1>1, <1>2, <1>3, <1>4, <1>5, <1>6, <1>7, <1>8 DEF Driver

\* A step of the controller, or of the interrupt handler, keeps the types.
LEMMA HardwareTyped ==
    ASSUME Typed, Hardware
    PROVE  Typed'
<1>1. CASE ResetDone
  BY <1>1 DEF ResetDone, driver, Typed, TypeOK
<1>2. CASE SeekDone
  <2>1. cyl' \in Cylinders
    BY <1>2, SeekCommand DEF SeekDone, Typed, TypeOK
  <2> QED BY <1>2, <2>1 DEF SeekDone, driver, Typed, TypeOK
<1>3. CASE TransferDone
  <2>1. dmabuf' \in Data /\ disk' \in [Sectors -> Data]
    BY <1>3 DEF TransferDone, Typed, TypeOK
  <2> QED BY <1>3, <2>1 DEF TransferDone, Typed, TypeOK
<1>4. CASE _fdc_irq_handler
  BY <1>4 DEF _fdc_irq_handler, Typed, TypeOK
<1> QED BY <1>1, <1>2, <1>3, <1>4 DEF Hardware

\* The types hold at power on.
LEMMA InitTyped == Init => Typed
<1> SUFFICES ASSUME Init PROVE Typed
  OBVIOUS
<1>1. [kind |-> "init", lba |-> 0, buf |-> NULL] \in Calls
  BY FdcAssumption DEF Calls
<1>2. 0 \in 0 .. Retries - 1
  BY FdcAssumption
<1>3. pc \in [Callers -> Steps] /\ \A c \in Callers : pc[c] # "transfer"
  BY DEF Init, Steps
<1>4. tries \in [Callers -> 0 .. Retries - 1] /\ ret \in [Callers -> {0, -1}]
  BY <1>2 DEF Init
<1>5. call \in [Callers -> Calls]
  BY <1>1 DEF Init
<1>6. irq_fired \in BOOLEAN /\ line \in BOOLEAN /\ registered \in BOOLEAN /\ motor \in BOOLEAN
  BY Zenon DEF Init
<1>7. /\ dmabuf \in Data /\ phase = "command" /\ cmd \in Commands \cup {NULL} /\ cyl \in Cylinders
      /\ pending \in 0 .. 4 /\ disk \in [Sectors -> Data]
  BY DEF Init
<1> QED BY <1>3, <1>4, <1>5, <1>6, <1>7 DEF Typed, TypeOK

\* Every step keeps the types.
LEMMA StepTyped == Typed /\ [Next]_vars => Typed'
<1> SUFFICES ASSUME Typed, [Next]_vars PROVE Typed'
  OBVIOUS
<1>1. CASE UNCHANGED vars
  BY <1>1 DEF vars, driver, hardware, Typed, TypeOK
<1>2. CASE Next
  BY <1>2, NewCallTyped, DriverTyped, HardwareTyped DEF Next
<1> QED BY <1>1, <1>2

(***************************************************************************)
(* The types of the driver's and the controller's state are kept, whatever *)
(* number of threads call the driver and whatever the hardware does: the   *)
(* retries of _fdc_seek and _fdc_recalibrate stay below their limit, the   *)
(* head stays on the cylinders asked for, and every command is one of      *)
(* those the controller knows.                                             *)
(***************************************************************************)
THEOREM FdcTypes == Spec => []TypeOK
<1>1. Typed => TypeOK
  BY DEF Typed
<1> QED BY <1>1, InitTyped, StepTyped, PTL DEF Spec

-----------------------------------------------------------------------------
(***************************************************************************)
(* One thread in the driver, and no byte lost on its way to or from the    *)
(* controller.  The controller and the thread are then in step: Sync ties  *)
(* the phase of the controller and the command it is busy with to the      *)
(* place the thread waits at, and counts the interrupts on their way.      *)
(***************************************************************************)
InFlight == Bool01(phase = "busy") + Bool01(line) + Bool01(irq_fired)

Sent(c) ==
    CASE pc[c] = "reset_wait"    -> [op |-> "reset"]
      [] pc[c] = "position_wait" -> [op |-> "seek", cyl |-> Goal(c)]
      [] OTHER -> [op |-> call[c].kind, chs |-> fdc_lba_to_chs(call[c].lba)]

Sync(c) ==
    /\ InFlight = Bool01(pc[c] \in Waits)
    /\ cmd = IF phase = "busy" THEN Sent(c) ELSE NULL
    /\ pc[c] \in Fired => irq_fired
    /\ pc[c] \in {"reset_wait", "reset_fired", "position_wait", "position_fired"}
        => phase # "result"
    /\ pc[c] \in {"transfer_wait", "transfer_fired"} => phase # "command"
    /\ pc[c] = "transfer_result" => phase = "result"
    /\ pc[c] \notin Waits \cup {"transfer_result"} => phase = "command"
    /\ pc[c] \in {"transfer", "transfer_wait", "transfer_fired", "transfer_result", "copy"}
        => call[c].kind \in {"read", "write"}

\* The step an update takes its caller to.
LEMMA Moved ==
    ASSUME TypeOK, NEW c \in Callers, NEW v, pc' = Update(pc, c, v)
    PROVE  pc'[c] = v
  BY DEF TypeOK, Update

\* Controller and thread stay in step.
LEMMA StepSync ==
    ASSUME NEW c, Callers = {c}, "fifo" \notin Faults, Typed, Sync(c), [Next]_vars
    PROVE  Sync(c)'
<1> c \in Callers
  OBVIOUS
<1> TypeOK
  BY DEF Typed
<1>1. CASE UNCHANGED vars
  BY <1>1 DEF vars, driver, hardware, Sync, InFlight, Sent, Goal
<1>2. CASE ResetDone
  BY <1>2 DEF ResetDone, driver, Sync, InFlight, Bool01, Sent, Goal, Waits, Spins, Fired
<1>3. CASE SeekDone
  BY <1>3 DEF SeekDone, driver, Sync, InFlight, Bool01, Sent, Goal, Waits, Spins, Fired
<1>4. CASE TransferDone
  BY <1>4 DEF TransferDone, driver, Sync, InFlight, Bool01, Sent, Goal, Waits, Spins, Fired
<1>5. CASE _fdc_irq_handler
  BY <1>5 DEF _fdc_irq_handler, Sync, InFlight, Bool01, Sent, Goal, Waits, Spins, Fired
<1>6. CASE fdc_init(c)
  <2>1. pc'[c] = "reset_wait"
    BY <1>6, Moved DEF fdc_init
  <2> QED BY <1>6, <2>1 DEF fdc_init, Sync, InFlight, Bool01, Sent, Waits, Spins, Fired
<1>7. CASE fdc_read_sector(c) \/ fdc_write_sector(c)
  <2>1. pc'[c] = "position" /\ pc[c] = "idle"
    BY <1>7, Moved DEF fdc_read_sector, fdc_write_sector
  <2> QED BY <1>7, <2>1
          DEF fdc_read_sector, fdc_write_sector, Sync, InFlight, Bool01, Waits, Spins, Fired
<1>8. CASE fdc_write_sector_null(c)
  <2>1. pc'[c] = "idle" /\ pc[c] = "idle"
    BY <1>8, Moved DEF fdc_write_sector_null, Return
  <2> QED BY <1>8, <2>1 DEF fdc_write_sector_null, hardware, Sync, InFlight, Bool01, Waits, Spins, Fired
<1>9. CASE _fdc_wait_for_irq(c)
  <2>1. /\ pc[c] = "reset_wait" => pc'[c] = "reset_fired"
        /\ pc[c] = "position_wait" => pc'[c] = "position_fired"
        /\ pc[c] = "transfer_wait" => pc'[c] = "transfer_fired"
    BY <1>9, Moved DEF _fdc_wait_for_irq, Spins
  <2> QED BY <1>9, <2>1 DEF _fdc_wait_for_irq, hardware, Sync, InFlight, Bool01, Waits, Spins, Fired, TypeOK
<1>10. CASE fdc_reset_sense(c)
  <2>1. pc'[c] = "position"
    BY <1>10, Moved DEF fdc_reset_sense
  <2> QED BY <1>10, <2>1 DEF fdc_reset_sense, Sync, InFlight, Bool01, Waits, Spins, Fired
<1>11. CASE _fdc_position(c)
  <2>1. pc'[c] = "position_wait" /\ phase = "command" /\ Goal(c)' = Goal(c)
    BY <1>11, Moved DEF _fdc_position, Sync, Waits, Spins, Fired, Goal
  <2>2. phase' = "busy" /\ cmd' = [op |-> "seek", cyl |-> Goal(c)]
    BY <1>11, <2>1 DEF _fdc_position, _fdc_send_command
  <2> QED BY <1>11, <2>1, <2>2 DEF _fdc_position, Sync, InFlight, Bool01, Sent, Waits, Spins, Fired
<1>12. CASE _fdc_position_sense(c)
  <2>1. \/ pc'[c] = "idle" \/ pc'[c] = "position"
        \/ pc'[c] = "transfer" /\ call[c].kind # "init"
    <3>1. \/ pc' = Update(pc, c, "idle") \/ pc' = Update(pc, c, "position")
          \/ pc' = Update(pc, c, "transfer") /\ call[c].kind # "init"
      BY <1>12 DEF _fdc_position_sense, _fdc_seek_done, _fdc_retry, _fdc_seek_failed, Return
    <3> QED BY <3>1, Moved
  <2>2. call[c].kind \in {"init", "read", "write"}
    BY DEF TypeOK, Calls
  <2> QED BY <1>12, <2>1, <2>2 DEF _fdc_position_sense, Sync, InFlight, Bool01, Waits, Spins, Fired
<1>13. CASE _fdc_sector_chs(c)
  <2>1. pc'[c] = "transfer_wait" /\ phase = "command"
    BY <1>13, Moved DEF _fdc_sector_chs, Sync, Waits, Spins, Fired
  <2>2. phase' = "busy" /\ cmd' = [op |-> call[c].kind, chs |-> fdc_lba_to_chs(call[c].lba)]
    BY <1>13, <2>1 DEF _fdc_sector_chs, _fdc_send_command
  <2> QED BY <1>13, <2>1, <2>2 DEF _fdc_sector_chs, Sync, InFlight, Bool01, Sent, Waits, Spins, Fired
<1>14. CASE _fdc_sector_chs_end(c)
  <2>1. pc'[c] = "copy" /\ phase = "result" /\ phase' = "command"
    BY <1>14, Moved DEF _fdc_sector_chs_end, _fdc_results, Sync
  <2> QED BY <1>14, <2>1 DEF _fdc_sector_chs_end, Sync, InFlight, Bool01, Waits, Spins, Fired
<1>15. CASE fdc_sector_return(c)
  <2>1. pc'[c] = "idle"
    BY <1>15, Moved DEF fdc_sector_return, Return
  <2> QED BY <1>15, <2>1 DEF fdc_sector_return, hardware, Sync, InFlight, Bool01, Waits, Spins, Fired
<1>16. CASE _fdc_clear_irq(c)
  <2>1. /\ pc[c] = "reset_fired" => pc'[c] = "reset_sense"
        /\ pc[c] = "position_fired" => pc'[c] = "position_sense"
        /\ pc[c] = "transfer_fired" => pc'[c] = "transfer_result"
        /\ pc[c] \in Fired
    BY <1>16, Moved DEF _fdc_clear_irq, Fired
  <2>2. phase # "busy" /\ ~line
    BY <2>1 DEF Sync, InFlight, Bool01, Waits, TypeOK
  <2> QED BY <1>16, <2>1, <2>2
          DEF _fdc_clear_irq, hardware, Sync, InFlight, Bool01, Waits, Spins, Fired, TypeOK
<1> QED BY <1>1, <1>2, <1>3, <1>4, <1>5, <1>6, <1>7, <1>8, <1>9, <1>10, <1>11, <1>12,
           <1>13, <1>14, <1>15, <1>16 DEF Next, Hardware, NewCall, Driver

\* Controller and thread start in step.
LEMMA InitSync ==
    ASSUME NEW c, Callers = {c}, Init PROVE Sync(c)
  BY DEF Init, Sync, InFlight, Bool01, Waits, Spins, Fired

-----------------------------------------------------------------------------
(***************************************************************************)
(* Where the head and the motor are: a status is held for each seek that   *)
(* ended, so that SENSE INTERRUPT reports the cylinder the head is on; the *)
(* motor turns from the start of a call to the end of its transfer.        *)
(***************************************************************************)
Positioned(c) ==
    /\ pc[c] = "position_wait" /\ phase = "command" => pending > 0
    /\ pc[c] \in {"position_fired", "position_sense"} => pending > 0
    /\ pc[c] \in {"transfer", "transfer_wait"} => cyl = Goal(c)
    /\ pc[c] \in {"position", "position_wait", "position_fired", "position_sense",
                 "transfer", "transfer_wait"}
        => motor
    /\ pc[c] = "copy" => ~motor

\* A step keeps the head and the motor where the call needs them.
LEMMA StepPositioned ==
    ASSUME NEW c, Callers = {c}, "fifo" \notin Faults, Typed, Sync(c), Positioned(c),
           [Next]_vars
    PROVE  Positioned(c)'
<1> c \in Callers
  OBVIOUS
<1> TypeOK
  BY DEF Typed
<1>1. CASE UNCHANGED vars
  BY <1>1 DEF vars, driver, hardware, Positioned, Goal
<1>2. CASE ResetDone
  BY <1>2 DEF ResetDone, driver, Positioned, Sync, Sent, InFlight, Bool01, Waits, Spins, Fired, Goal
<1>3. CASE SeekDone
  <2>1. pc[c] \notin {"transfer", "transfer_wait"}
    BY <1>3 DEF SeekDone, Sync, Sent, InFlight, Bool01, Waits, Spins, Fired
  <2> QED BY <1>3, <2>1 DEF SeekDone, driver, Positioned
<1>4. CASE TransferDone
  BY <1>4 DEF TransferDone, driver, Positioned, Goal
<1>5. CASE _fdc_irq_handler
  BY <1>5 DEF _fdc_irq_handler, Positioned, Goal
<1>6. CASE fdc_init(c)
  <2>1. pc'[c] = "reset_wait"
    BY <1>6, Moved DEF fdc_init
  <2> QED BY <2>1 DEF Positioned
<1>7. CASE fdc_read_sector(c) \/ fdc_write_sector(c)
  <2>1. pc'[c] = "position" /\ motor'
    BY <1>7, Moved DEF fdc_read_sector, fdc_write_sector
  <2> QED BY <2>1 DEF Positioned
<1>8. CASE fdc_write_sector_null(c)
  <2>1. pc'[c] = "idle"
    BY <1>8, Moved DEF fdc_write_sector_null, Return
  <2> QED BY <2>1 DEF Positioned
<1>9. CASE _fdc_wait_for_irq(c)
  <2>1. /\ pc[c] = "reset_wait" => pc'[c] = "reset_fired"
        /\ pc[c] = "position_wait" => pc'[c] = "position_fired"
        /\ pc[c] = "transfer_wait" => pc'[c] = "transfer_fired"
        /\ pc[c] \in Spins
    BY <1>9, Moved DEF _fdc_wait_for_irq, Spins
  <2>2. pc[c] = "position_wait" => phase = "command"
    BY <1>9 DEF _fdc_wait_for_irq, Sync, InFlight, Bool01, Waits, Spins, Fired, TypeOK
  <2> QED BY <1>9, <2>1, <2>2 DEF _fdc_wait_for_irq, hardware, Positioned, Waits, Spins, Fired
<1>10. CASE fdc_reset_sense(c)
  <2>1. pc'[c] = "position" /\ motor'
    BY <1>10, Moved DEF fdc_reset_sense
  <2> QED BY <2>1 DEF Positioned
<1>11. CASE _fdc_position(c)
  <2>1. pc'[c] = "position_wait" /\ phase' = "busy" /\ motor' = motor /\ pc[c] = "position"
    BY <1>11, Moved DEF _fdc_position, _fdc_send_command, Sync, Waits, Spins, Fired
  <2> QED BY <2>1 DEF Positioned
<1>12. CASE _fdc_position_sense(c)
  <2>1. SensedCylinder = {cyl} /\ pc[c] = "position_sense"
    BY <1>12 DEF _fdc_position_sense, SensedCylinder, Positioned
  <2>2. \/ pc'[c] = "idle"
        \/ pc'[c] = "position" /\ motor' = motor
        \/ pc'[c] = "transfer" /\ motor' = motor /\ cyl = Goal(c)
    <3>1. \/ pc' = Update(pc, c, "idle")
          \/ pc' = Update(pc, c, "position") /\ motor' = motor
          \/ pc' = Update(pc, c, "transfer") /\ motor' = motor /\ cyl = Goal(c)
      BY <1>12, <2>1 DEF _fdc_position_sense, _fdc_seek_done, _fdc_retry, _fdc_seek_failed, Return
    <3> QED BY <3>1, Moved
  <2>3. cyl' = cyl /\ Goal(c)' = Goal(c)
    BY <1>12 DEF _fdc_position_sense, Goal
  <2> QED BY <2>1, <2>2, <2>3 DEF Positioned
<1>13. CASE _fdc_sector_chs(c)
  <2>1. pc'[c] = "transfer_wait" /\ motor' = motor /\ cyl' = cyl /\ Goal(c)' = Goal(c)
    BY <1>13, Moved DEF _fdc_sector_chs, Goal
  <2> QED BY <1>13, <2>1 DEF _fdc_sector_chs, Positioned
<1>14. CASE _fdc_sector_chs_end(c)
  <2>1. pc'[c] = "copy" /\ ~motor'
    BY <1>14, Moved DEF _fdc_sector_chs_end
  <2> QED BY <2>1 DEF Positioned
<1>15. CASE fdc_sector_return(c)
  <2>1. pc'[c] = "idle"
    BY <1>15, Moved DEF fdc_sector_return, Return
  <2> QED BY <2>1 DEF Positioned
<1>16. CASE _fdc_clear_irq(c)
  <2>1. /\ pc[c] = "reset_fired" => pc'[c] = "reset_sense"
        /\ pc[c] = "position_fired" => pc'[c] = "position_sense"
        /\ pc[c] = "transfer_fired" => pc'[c] = "transfer_result"
        /\ pc[c] \in Fired
    BY <1>16, Moved DEF _fdc_clear_irq, Fired
  <2> QED BY <1>16, <2>1 DEF _fdc_clear_irq, hardware, Positioned, Fired
<1> QED BY <1>1, <1>2, <1>3, <1>4, <1>5, <1>6, <1>7, <1>8, <1>9, <1>10, <1>11, <1>12,
           <1>13, <1>14, <1>15, <1>16 DEF Next, Hardware, NewCall, Driver

(***************************************************************************)
(* The assumption, and the invariant of a driver with one caller, without  *)
(* the data.                                                               *)
(***************************************************************************)
OneCaller == \E c : Callers = {c}
Solo == Typed /\ \A c \in Callers : Sync(c) /\ Positioned(c)

\* It is an invariant.
LEMMA SoloInvariant ==
    ASSUME OneCaller, "fifo" \notin Faults
    PROVE  Spec => []Solo
<1> PICK c : Callers = {c}
  BY DEF OneCaller
<1>1. Init => Solo
  <2> SUFFICES ASSUME Init PROVE Solo
    OBVIOUS
  <2>1. pc[c] = "idle"
    BY DEF Init
  <2>2. Positioned(c)
    BY <2>1 DEF Positioned
  <2> QED BY <2>2, InitTyped, InitSync DEF Solo
<1>2. Solo /\ [Next]_vars => Solo'
  BY StepTyped, StepSync, StepPositioned DEF Solo
<1> QED BY <1>1, <1>2, PTL DEF Spec

(***************************************************************************)
(* With one thread in the driver and no lost byte, each wait is owed       *)
(* exactly one interrupt, from its command until it clears the flag.       *)
(***************************************************************************)
THEOREM FdcOneInterruptPerWait ==
    ASSUME OneCaller, "fifo" \notin Faults
    PROVE  Spec => []OneInterruptPerWait
<1>1. Solo => OneInterruptPerWait
  <2> SUFFICES ASSUME Solo PROVE OneInterruptPerWait
    OBVIOUS
  <2> PICK c : Callers = {c}
    BY DEF OneCaller
  <2>1. InFlight = Bool01(pc[c] \in Waits)
    BY DEF Solo, Sync
  <2>2. CASE pc[c] \in Waits
    <3>1. {d \in Callers : pc[d] \in Waits} = {c}
      BY <2>2
    <3>2. Cardinality({c}) = 1
      BY FS_Singleton
    <3> QED BY <2>1, <2>2, <3>1, <3>2 DEF OneInterruptPerWait, InFlight, Bool01
  <2>3. CASE pc[c] \notin Waits
    <3>1. {d \in Callers : pc[d] \in Waits} = {}
      BY <2>3
    <3> QED BY <2>1, <2>3, <3>1, FS_EmptySet DEF OneInterruptPerWait, InFlight, Bool01
  <2> QED BY <2>2, <2>3
<1> QED BY <1>1, SoloInvariant, PTL

(***************************************************************************)
(* Between its calls the controller is ready for the next command.         *)
(***************************************************************************)
THEOREM FdcReadyBetweenCalls ==
    ASSUME OneCaller, "fifo" \notin Faults
    PROVE  Spec => []ReadyBetweenCalls
<1>1. Solo => ReadyBetweenCalls
  BY DEF OneCaller, Solo, Sync, ReadyBetweenCalls, Idle, Waits, Spins, Fired
<1> QED BY <1>1, SoloInvariant, PTL

(***************************************************************************)
(* When _fdc_seek has succeeded the head is on the cylinder asked for,     *)
(* however often the drive missed it.                                      *)
(***************************************************************************)
THEOREM FdcSeekSuccess ==
    ASSUME OneCaller, "fifo" \notin Faults
    PROVE  Spec => []SeekSuccessMeansThere
<1>1. Solo => SeekSuccessMeansThere
  BY DEF Solo, Positioned, SeekSuccessMeansThere
<1> QED BY <1>1, SoloInvariant, PTL

\* A step that ends a call with the motor on is a read's failed seek.
LEMMA ReturnStopsMotor ==
    ASSUME NEW c, Callers = {c}, Solo, [Next]_vars,
           pc[c] # "idle", pc'[c] = "idle", motor'
    PROVE  call[c].kind = "read" /\ ret'[c] = -1
<1> c \in Callers
  OBVIOUS
<1> TypeOK
  BY DEF Solo, Typed
<1>1. CASE _fdc_position_sense(c)
  <2>1. \/ _fdc_seek_done(c) \/ _fdc_retry(c) \/ _fdc_seek_failed(c)
    BY <1>1 DEF _fdc_position_sense
  <2>2. CASE _fdc_seek_done(c)
    BY <2>2, Moved DEF _fdc_seek_done
  <2>3. CASE _fdc_retry(c)
    BY <2>3, Moved DEF _fdc_retry
  <2>4. CASE _fdc_seek_failed(c)
    BY <2>4 DEF _fdc_seek_failed, Return, Update, TypeOK
  <2> QED BY <2>1, <2>2, <2>3, <2>4
<1>2. CASE fdc_sector_return(c)
  BY <1>2 DEF fdc_sector_return, hardware, Solo, Positioned
<1>3. CASE _fdc_wait_for_irq(c)
  BY <1>3, Moved DEF _fdc_wait_for_irq, Waits, Spins, Fired
<1>4. CASE \/ fdc_init(c) \/ fdc_read_sector(c) \/ fdc_write_sector(c)
           \/ fdc_write_sector_null(c)
  BY <1>4 DEF fdc_init, fdc_read_sector, fdc_write_sector, fdc_write_sector_null
<1>5. CASE \/ fdc_reset_sense(c) \/ _fdc_position(c) \/ _fdc_sector_chs(c)
           \/ _fdc_sector_chs_end(c)
  BY <1>5, Moved DEF fdc_reset_sense, _fdc_position, _fdc_sector_chs, _fdc_sector_chs_end
<1>6. Hardware \/ UNCHANGED vars => UNCHANGED pc
  BY DEF Hardware, ResetDone, SeekDone, TransferDone, _fdc_irq_handler, vars, driver
<1>7. CASE _fdc_clear_irq(c)
  BY <1>7, Moved DEF _fdc_clear_irq, Fired
<1> QED BY <1>1, <1>2, <1>3, <1>4, <1>5, <1>6, <1>7 DEF Next, NewCall, Driver

(***************************************************************************)
(* A call that started the motor stops it on every path but the failed     *)
(* seek of fdc_read_sector.                                                *)
(***************************************************************************)
THEOREM FdcMotor ==
    ASSUME OneCaller, "fifo" \notin Faults
    PROVE  Spec => MotorOffUnlessReadFailed
<1>1. Solo /\ [Next]_vars =>
        [\A c \in Callers : pc[c] # "idle" /\ pc'[c] = "idle" /\ motor'
            => call[c].kind = "read" /\ ret'[c] = -1]_vars
  BY ReturnStopsMotor DEF OneCaller
<1> QED BY <1>1, SoloInvariant, PTL DEF Spec, MotorOffUnlessReadFailed

-----------------------------------------------------------------------------
(***************************************************************************)
(* The data.  fdc_init is over before the first sector call.  A write has  *)
(* its data in the DMA buffer from start to end; where no transfer fails,  *)
(* the DMA buffer and the sector agree once the transfer is done, and so   *)
(* do the caller's buffer and the sector once the call returned 0.         *)
(***************************************************************************)
Carried(c) ==
    /\ ~registered \/ pc[c] \in {"reset_wait", "reset_fired", "reset_sense"} => call[c].kind = "init"
    /\ pc[c] # "idle" /\ call[c].kind = "write" => dmabuf = call[c].buf

Delivered(c) ==
    /\ pc[c] = "transfer_wait" /\ phase = "result" => dmabuf = disk[call[c].lba]
    /\ pc[c] \in {"transfer_fired", "transfer_result", "copy"} => dmabuf = disk[call[c].lba]
    /\ pc[c] = "idle" /\ call[c].kind # "init" /\ ret[c] = 0
        => call[c].buf = disk[call[c].lba]

\* The sector a command addresses is the one the call is about.
LEMMA HoldsOnly ==
    ASSUME NEW l \in Sectors, NEW s \in Sectors
    PROVE  Holds(fdc_lba_to_chs(l), s) <=> s = l
<1>1. l \in DiskSectors /\ s \in DiskSectors
  BY FdcAssumption
<1>2. Holds(fdc_lba_to_chs(l), l)
  BY <1>1, AddressesExact DEF ChsExact
<1>3. l \in Int /\ s \in Int
  BY <1>1 DEF DiskSectors
<1>4. ASSUME NEW chs, Holds(chs, l), Holds(chs, s) PROVE s = l
  BY <1>4 DEF Holds
<1> QED BY <1>2, <1>4

\* What a transfer does, with one caller: it is that caller's, and moves its
\* sector, or fails and moves nothing.
LEMMA TransferOfCaller ==
    ASSUME NEW c, Callers = {c}, Solo, TransferDone
    PROVE  /\ pc[c] = "transfer_wait" /\ call[c].lba \in Sectors
           /\ \/ /\ call[c].kind = "read" /\ dmabuf' = disk[call[c].lba] /\ disk' = disk
              \/ /\ call[c].kind = "write" /\ dmabuf' = dmabuf
                 /\ disk' = [disk EXCEPT ![call[c].lba] = dmabuf]
              \/ "media" \in Faults /\ dmabuf' = dmabuf /\ disk' = disk
<1> DEFINE l == call[c].lba
<1>1. phase = "busy" /\ cmd = Sent(c) /\ pc[c] \in Waits
  BY DEF TransferDone, Solo, Sync, InFlight, Bool01
<1>9. pc[c] \notin Fired
  BY <1>1 DEF Solo, Sync, InFlight, Bool01
<1>2. pc[c] = "transfer_wait"
  BY <1>1, <1>9 DEF TransferDone, Sent, Waits, Spins
<1>3. cmd.op = call[c].kind /\ cmd.chs = fdc_lba_to_chs(l)
  BY <1>1, <1>2 DEF Sent
<1>4. l \in Sectors /\ call[c].kind \in {"read", "write"}
  BY <1>2 DEF Solo, Sync, Typed, TypeOK, Calls
<1>5. motor /\ cyl = cmd.chs.cyl
  BY <1>2, <1>3, <1>4 DEF Solo, Positioned, Goal
<1>6. \A s \in Sectors : Holds(cmd.chs, s) <=> s = l
  BY <1>3, <1>4, HoldsOnly
<1>7. CASE \E s \in Sectors :
            /\ motor /\ cyl = cmd.chs.cyl /\ Holds(cmd.chs, s)
            /\ dmabuf' = IF cmd.op = "read" THEN disk[s] ELSE dmabuf
            /\ disk' = IF cmd.op = "write" THEN [disk EXCEPT ![s] = dmabuf] ELSE disk
  BY <1>2, <1>3, <1>4, <1>6, <1>7
<1>8. CASE /\ \/ "media" \in Faults \/ ~motor \/ cyl # cmd.chs.cyl
              \/ \A s \in Sectors : ~Holds(cmd.chs, s)
           /\ UNCHANGED <<dmabuf, disk>>
  BY <1>2, <1>4, <1>5, <1>6, <1>8
<1> QED BY <1>7, <1>8 DEF TransferDone

\* A step keeps a write's data in the DMA buffer.
LEMMA StepCarried ==
    ASSUME NEW c, Callers = {c}, Solo, Carried(c), [Next]_vars
    PROVE  Carried(c)'
<1> c \in Callers
  OBVIOUS
<1> TypeOK
  BY DEF Solo, Typed
<1>1. CASE UNCHANGED vars
  BY <1>1 DEF vars, driver, hardware, Carried
<1>2. CASE ResetDone \/ SeekDone \/ _fdc_irq_handler
  BY <1>2 DEF ResetDone, SeekDone, _fdc_irq_handler, driver, Carried
<1>3. CASE TransferDone
  <2>1. call[c].kind = "write" => dmabuf' = dmabuf
    BY <1>3, TransferOfCaller
  <2> QED BY <1>3, <2>1 DEF TransferDone, Carried
<1>4. CASE fdc_init(c)
  <2>1. call' = call /\ call[c].kind = "init"
    BY <1>4 DEF fdc_init, Carried
  <2> QED BY <2>1 DEF Carried
<1>5. CASE fdc_read_sector(c)
  <2>1. pc'[c] = "position" /\ registered' /\ call'[c].kind = "read"
    BY <1>5, Moved DEF fdc_read_sector, Update, TypeOK
  <2> QED BY <2>1 DEF Carried
<1>6. CASE fdc_write_sector(c)
  <2>1. pc'[c] = "position" /\ registered' /\ call'[c].buf = dmabuf'
    BY <1>6, Moved DEF fdc_write_sector, Update, TypeOK
  <2> QED BY <2>1 DEF Carried
<1>7. CASE fdc_write_sector_null(c)
  <2>1. pc'[c] = "idle" /\ registered'
    BY <1>7, Moved DEF fdc_write_sector_null, Return
  <2> QED BY <2>1 DEF Carried
<1>8. CASE _fdc_wait_for_irq(c)
  <2>1. /\ pc[c] = "reset_wait" => pc'[c] = "reset_fired"
        /\ pc[c] = "position_wait" => pc'[c] = "position_fired"
        /\ pc[c] = "transfer_wait" => pc'[c] = "transfer_fired"
        /\ pc[c] \in Spins
    BY <1>8, Moved DEF _fdc_wait_for_irq, Spins
  <2> QED BY <1>8, <2>1 DEF _fdc_wait_for_irq, Carried, Waits, Spins, Fired
<1>9. CASE \/ fdc_reset_sense(c) \/ _fdc_position(c) \/ _fdc_sector_chs(c)
           \/ _fdc_sector_chs_end(c)
  <2>1. pc'[c] \in {"position", "position_wait", "transfer_wait", "copy"} /\ pc[c] # "idle"
    BY <1>9, Moved DEF fdc_reset_sense, _fdc_position, _fdc_sector_chs, _fdc_sector_chs_end
  <2> QED BY <1>9, <2>1 DEF fdc_reset_sense, _fdc_position, _fdc_sector_chs,
                            _fdc_sector_chs_end, Carried
<1>10. CASE _fdc_position_sense(c)
  <2>1. pc'[c] \in {"idle", "position", "transfer"} /\ (registered' = registered \/ registered')
    <3>1. \/ pc' = Update(pc, c, "idle") \/ pc' = Update(pc, c, "position")
          \/ pc' = Update(pc, c, "transfer")
      BY <1>10 DEF _fdc_position_sense, _fdc_seek_done, _fdc_retry, _fdc_seek_failed, Return
    <3>2. registered' = registered \/ registered'
      BY <1>10 DEF _fdc_position_sense, _fdc_seek_done, _fdc_retry, _fdc_seek_failed
    <3> QED BY <3>1, <3>2, Moved
  <2> QED BY <1>10, <2>1 DEF _fdc_position_sense, Carried
<1>11. CASE fdc_sector_return(c)
  <2>1. pc'[c] = "idle" /\ registered' = registered
    BY <1>11, Moved DEF fdc_sector_return, Return
  <2>2. call'[c].kind = call[c].kind
    <3>1. \/ call' = call
          \/ call' = Update(call, c, [call[c] EXCEPT !.buf = dmabuf])
      BY <1>11 DEF fdc_sector_return
    <3>2. [call[c] EXCEPT !.buf = dmabuf].kind = call[c].kind
      BY DEF TypeOK, Calls
    <3> QED BY <3>1, <3>2 DEF Update, TypeOK
  <2> QED BY <2>1, <2>2 DEF Carried
<1>12. CASE _fdc_clear_irq(c)
  <2>1. /\ pc[c] = "reset_fired" => pc'[c] = "reset_sense"
        /\ pc[c] = "position_fired" => pc'[c] = "position_sense"
        /\ pc[c] = "transfer_fired" => pc'[c] = "transfer_result"
        /\ pc[c] \in Fired
    BY <1>12, Moved DEF _fdc_clear_irq, Fired
  <2> QED BY <1>12, <2>1 DEF _fdc_clear_irq, Carried, Fired
<1> QED BY <1>1, <1>2, <1>3, <1>4, <1>5, <1>6, <1>7, <1>8, <1>9, <1>10, <1>11, <1>12
        DEF Next, Hardware, NewCall, Driver

\* The invariant with a write's data.
AllCarried == \A c \in Callers : Carried(c)
SoloData == Solo /\ AllCarried

\* It is an invariant.
LEMMA SoloDataInvariant ==
    ASSUME OneCaller, "fifo" \notin Faults
    PROVE  Spec => []SoloData
<1> PICK c : Callers = {c}
  BY DEF OneCaller
<1>1. Init => AllCarried
  BY DEF Init, Carried, AllCarried
<1>2. Solo /\ AllCarried /\ [Next]_vars => AllCarried'
  BY StepCarried DEF AllCarried
<1> QED BY <1>1, <1>2, SoloInvariant, PTL DEF Spec, SoloData

(***************************************************************************)
(* The disk changes only by the transfer of a write call, in the sector it *)
(* is for and to the data it was given.                                    *)
(***************************************************************************)
THEOREM FdcOnlyTheWrittenSectorChanges ==
    ASSUME OneCaller, "fifo" \notin Faults
    PROVE  Spec => OnlyTheWrittenSectorChanges
<1>1. ASSUME SoloData, [Next]_vars, NEW s \in Sectors, disk'[s] # disk[s]
      PROVE  \E c \in Callers :
                /\ pc[c] = "transfer_wait"
                /\ call[c] = [kind |-> "write", lba |-> s, buf |-> disk'[s]]
  <2> PICK c : Callers = {c}
    BY DEF OneCaller
  <2> Solo /\ Carried(c) /\ c \in Callers
    BY <1>1 DEF SoloData, AllCarried
  <2>1. TransferDone
    BY <1>1 DEF Next, Hardware, ResetDone, SeekDone, _fdc_irq_handler, NewCall, Driver,
                fdc_init, fdc_read_sector, fdc_write_sector, fdc_write_sector_null,
                _fdc_wait_for_irq, _fdc_clear_irq, fdc_reset_sense, _fdc_position, _fdc_position_sense,
                _fdc_sector_chs, _fdc_sector_chs_end, fdc_sector_return, hardware, vars
  <2>2. /\ pc[c] = "transfer_wait" /\ call[c].kind = "write"
        /\ disk' = [disk EXCEPT ![call[c].lba] = dmabuf]
    BY <1>1, <2>1, TransferOfCaller
  <2>3. disk \in [Sectors -> Data] /\ call[c] \in Calls
    BY DEF Solo, Typed, TypeOK
  <2>4. s = call[c].lba /\ disk'[s] = dmabuf
    BY <1>1, <2>2, <2>3
  <2>5. call[c].buf = dmabuf
    BY <2>2 DEF Carried
  <2>6. call[c] = [kind |-> "write", lba |-> s, buf |-> disk'[s]]
    BY <2>2, <2>3, <2>4, <2>5 DEF Calls
  <2> QED BY <2>2, <2>6
<1>2. SoloData /\ [Next]_vars =>
        [\A s \in Sectors : disk'[s] # disk[s] =>
            \E c \in Callers :
                /\ pc[c] = "transfer_wait"
                /\ call[c] = [kind |-> "write", lba |-> s, buf |-> disk'[s]]]_vars
  BY <1>1
<1> QED BY <1>2, SoloDataInvariant, PTL DEF Spec, OnlyTheWrittenSectorChanges

-----------------------------------------------------------------------------
\* A step keeps the sector, the DMA buffer and the caller's buffer in
\* agreement, where transfers do not fail.
LEMMA StepDelivered ==
    ASSUME NEW c, Callers = {c}, "fifo" \notin Faults, "media" \notin Faults,
           Solo, Carried(c), Delivered(c), [Next]_vars
    PROVE  Delivered(c)'
<1> c \in Callers
  OBVIOUS
<1> TypeOK /\ Sync(c)
  BY DEF Solo, Typed
<1>1. CASE UNCHANGED vars
  BY <1>1 DEF vars, driver, hardware, Delivered
<1>2. CASE ResetDone \/ SeekDone \/ _fdc_irq_handler
  <2>1. ResetDone \/ SeekDone => phase' = "command"
    BY DEF ResetDone, SeekDone
  <2> QED BY <1>2, <2>1 DEF ResetDone, SeekDone, _fdc_irq_handler, driver, Delivered
<1>3. CASE TransferDone
  <2>1. pc'[c] = "transfer_wait" /\ call' = call
    BY <1>3, TransferOfCaller DEF TransferDone
  <2>2. dmabuf' = disk'[call[c].lba]
    <3>1. disk \in [Sectors -> Data]
      BY DEF TypeOK
    <3> QED BY <1>3, <3>1, TransferOfCaller
  <2> QED BY <2>1, <2>2 DEF Delivered
<1>4. CASE fdc_init(c)
  <2>1. pc'[c] = "reset_wait"
    BY <1>4, Moved DEF fdc_init
  <2> QED BY <2>1 DEF Delivered
<1>5. CASE fdc_read_sector(c) \/ fdc_write_sector(c)
  <2>1. pc'[c] = "position"
    BY <1>5, Moved DEF fdc_read_sector, fdc_write_sector
  <2> QED BY <2>1 DEF Delivered
<1>6. CASE fdc_write_sector_null(c)
  <2>1. pc'[c] = "idle" /\ ret'[c] = -1
    BY <1>6, Moved DEF fdc_write_sector_null, Return, Update, TypeOK
  <2> QED BY <2>1 DEF Delivered
<1>7. CASE _fdc_wait_for_irq(c)
  <2>1. /\ pc[c] = "reset_wait" => pc'[c] = "reset_fired"
        /\ pc[c] = "position_wait" => pc'[c] = "position_fired"
        /\ pc[c] = "transfer_wait" => pc'[c] = "transfer_fired"
        /\ pc[c] \in Spins
    BY <1>7, Moved DEF _fdc_wait_for_irq, Spins
  <2>2. pc[c] = "transfer_wait" => phase = "result"
    BY <1>7 DEF _fdc_wait_for_irq, Sync, InFlight, Bool01, Waits, Spins, Fired, TypeOK
  <2>3. call' = call /\ dmabuf' = dmabuf /\ disk' = disk
    BY <1>7 DEF _fdc_wait_for_irq, hardware
  <2>4. pc[c] = "transfer_wait" => dmabuf = disk[call[c].lba]
    BY <2>2 DEF Delivered
  <2> QED BY <2>1, <2>3, <2>4 DEF Delivered, Waits, Spins, Fired
<1>8. CASE fdc_reset_sense(c) \/ _fdc_position(c)
  <2>1. pc'[c] \in {"position", "position_wait"}
    BY <1>8, Moved DEF fdc_reset_sense, _fdc_position
  <2> QED BY <2>1 DEF Delivered
<1>9. CASE _fdc_position_sense(c)
  <2>1. \/ _fdc_seek_done(c) \/ _fdc_retry(c) \/ _fdc_seek_failed(c)
    BY <1>9 DEF _fdc_position_sense
  <2>2. call' = call
    BY <1>9 DEF _fdc_position_sense
  <2>3. CASE _fdc_seek_done(c)
    <3>1. \/ pc'[c] = "idle" /\ call[c].kind = "init"
          \/ pc'[c] = "transfer"
      BY <2>3, Moved DEF _fdc_seek_done, Return
    <3> QED BY <2>2, <3>1 DEF Delivered
  <2>4. CASE _fdc_retry(c)
    <3>1. pc'[c] = "position"
      BY <2>4, Moved DEF _fdc_retry
    <3> QED BY <3>1 DEF Delivered
  <2>5. CASE _fdc_seek_failed(c)
    <3>1. pc'[c] = "idle" /\ (call[c].kind = "init" \/ ret'[c] = -1)
      BY <2>5, Moved DEF _fdc_seek_failed, Return, Update, TypeOK
    <3> QED BY <2>2, <3>1 DEF Delivered
  <2> QED BY <2>1, <2>3, <2>4, <2>5
<1>10. CASE _fdc_sector_chs(c)
  <2>1. pc'[c] = "transfer_wait" /\ phase' = "busy"
    BY <1>10, Moved DEF _fdc_sector_chs, _fdc_send_command, Sync, Waits, Spins, Fired
  <2> QED BY <2>1 DEF Delivered
<1>11. CASE _fdc_sector_chs_end(c)
  <2>1. pc'[c] = "copy" /\ pc[c] = "transfer_result"
    BY <1>11, Moved DEF _fdc_sector_chs_end
  <2> QED BY <1>11, <2>1 DEF _fdc_sector_chs_end, Delivered
<1>12. CASE fdc_sector_return(c)
  <2>1. pc'[c] = "idle" /\ pc[c] = "copy" /\ disk' = disk
    BY <1>12, Moved DEF fdc_sector_return, Return, hardware
  <2>2. dmabuf = disk[call[c].lba]
    BY <2>1 DEF Delivered
  <2>3. CASE call[c].kind = "read" /\ call[c].buf # NULL
    <3>1. call' = Update(call, c, [call[c] EXCEPT !.buf = dmabuf])
      BY <1>12, <2>3 DEF fdc_sector_return
    <3>2. call'[c] = [call[c] EXCEPT !.buf = dmabuf]
      BY <3>1 DEF Update, TypeOK
    <3>3. call'[c].buf = dmabuf /\ call'[c].lba = call[c].lba
      BY <3>2 DEF TypeOK, Calls
    <3> QED BY <2>1, <2>2, <3>3 DEF Delivered
  <2>4. CASE call[c].kind = "read" /\ call[c].buf = NULL
    <3>1. ret'[c] = -1
      BY <1>12, <2>4 DEF fdc_sector_return, Return, Update, TypeOK
    <3> QED BY <2>1, <3>1 DEF Delivered
  <2>5. CASE call[c].kind = "write"
    <3>1. call' = call
      BY <1>12, <2>5 DEF fdc_sector_return
    <3>2. call[c].buf = dmabuf
      BY <2>1, <2>5 DEF Carried
    <3> QED BY <2>1, <2>2, <3>1, <3>2 DEF Delivered
  <2> QED BY <1>12, <2>3, <2>4, <2>5 DEF fdc_sector_return
<1>13. CASE _fdc_clear_irq(c)
  <2>1. /\ pc[c] = "reset_fired" => pc'[c] = "reset_sense"
        /\ pc[c] = "position_fired" => pc'[c] = "position_sense"
        /\ pc[c] = "transfer_fired" => pc'[c] = "transfer_result"
        /\ pc[c] \in Fired
    BY <1>13, Moved DEF _fdc_clear_irq, Fired
  <2> QED BY <1>13, <2>1 DEF _fdc_clear_irq, hardware, Delivered, Fired
<1> QED BY <1>1, <1>2, <1>3, <1>4, <1>5, <1>6, <1>7, <1>8, <1>9, <1>10, <1>11, <1>12, <1>13
        DEF Next, Hardware, NewCall, Driver

\* The invariant with the data of reads as well.
AllDelivered == \A c \in Callers : Delivered(c)

(***************************************************************************)
(* Reads and writes are correct: with one thread in the driver, no lost    *)
(* byte and no failing transfer, however often seeks miss, a call that     *)
(* returns 0 has moved the sector it was asked for between the disk and    *)
(* the caller's buffer.                                                    *)
(***************************************************************************)
THEOREM FdcSuccessMeansTransferred ==
    ASSUME OneCaller, "fifo" \notin Faults, "media" \notin Faults
    PROVE  Spec => []SuccessMeansTransferred
<1> PICK c : Callers = {c}
  BY DEF OneCaller
<1>1. Init => AllDelivered
  BY DEF Init, Delivered, AllDelivered
<1>2. SoloData /\ AllDelivered /\ [Next]_vars => AllDelivered'
  BY StepDelivered DEF AllDelivered, SoloData, AllCarried
<1>3. AllDelivered => SuccessMeansTransferred
  BY DEF AllDelivered, Delivered, SuccessMeansTransferred
<1> QED BY <1>1, <1>2, <1>3, SoloDataInvariant, PTL DEF Spec
=============================================================================
