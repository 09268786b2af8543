----------------------------- MODULE IdeProofs -----------------------------
(***************************************************************************)
(* Theorems about the IDE driver of Ide: for any sectors and data, any     *)
(* drives on the channel, and any of the faults.                           *)
(***************************************************************************)
EXTENDS Ide, TLAPS

\* While ide_init is at work it is alone, and has a drive to look at.
Probing ==
    \A c \in Callers : pc[c] # "idle" /\ Kind(c) = "identify" =>
        probed < 2 /\ \A d \in Callers : d # c => pc[d] = "idle"

Typed == TypeOK /\ Probing

\* Where a step leaves its caller and the others.
LEMMA Moved ==
    ASSUME TypeOK, NEW c \in Callers, NEW step \in Steps, Goto(c, step)
    PROVE  /\ pc' \in [Callers -> Steps] /\ pc'[c] = step
           /\ \A d \in Callers : d # c => pc'[d] = pc[d]
BY DEF Goto, TypeOK

LEMMA Returned ==
    ASSUME Typed, NEW c \in Callers, NEW how \in {"done", "failed"},
           Return(c, how), pc[c] # "idle", call' = call
    PROVE  /\ pc' \in [Callers -> Steps] /\ pc'[c] = "idle"
           /\ outcome' \in [Callers -> {"none", "done", "failed"}] /\ outcome'[c] = how
           /\ probed' \in 0 .. 2
           /\ Probing'
<1>1. /\ pc' \in [Callers -> Steps] /\ pc'[c] = "idle"
      /\ \A d \in Callers : d # c => pc'[d] = pc[d]
  BY Moved DEF Return, Steps, Typed
<1>2. outcome' \in [Callers -> {"none", "done", "failed"}] /\ outcome'[c] = how
  BY DEF Return, Typed, TypeOK
<1>3. CASE Kind(c) = "identify"
  <2>1. probed < 2 /\ \A d \in Callers : d # c => pc[d] = "idle"
    BY <1>3 DEF Typed, Probing
  <2>2. probed' = probed + 1
    BY <1>3 DEF Return
  <2>3. \A d \in Callers : pc'[d] = "idle"
    BY <1>1, <2>1
  <2> QED BY <1>1, <1>2, <2>1, <2>2, <2>3 DEF Probing, Typed, TypeOK
<1>4. CASE Kind(c) # "identify"
  <2>1. probed' = probed
    BY <1>4 DEF Return, Typed, TypeOK
  <2>2. Probing'
    BY <1>1, <2>1 DEF Probing, Kind, Typed
  <2> QED BY <1>1, <1>2, <2>1, <2>2 DEF Typed, TypeOK
<1> QED BY <1>3, <1>4

LEMMA FailedTyped ==
    ASSUME Typed, NEW c \in Callers, Failed(c), pc[c] # "idle"
    PROVE  Typed'
<1>1. Return(c, "failed") /\ UNCHANGED <<call, buf, present, registered, channel, drives>>
  BY DEF Failed
<1>2. /\ pc' \in [Callers -> Steps] /\ probed' \in 0 .. 2 /\ Probing'
      /\ outcome' \in [Callers -> {"none", "done", "failed"}]
  BY <1>1, Returned
<1> QED BY <1>1, <1>2 DEF Typed, TypeOK, channel, drives

\* A step that moves one caller on to another step of the same call.
LEMMA OnwardProbing ==
    ASSUME Typed, NEW c \in Callers, NEW step \in Steps, Goto(c, step),
           pc[c] # "idle", call' = call, probed' = probed
    PROVE  pc' \in [Callers -> Steps] /\ Probing'
<1>1. /\ pc' \in [Callers -> Steps] /\ pc'[c] = step
      /\ \A d \in Callers : d # c => pc'[d] = pc[d]
  BY Moved DEF Typed
<1> QED BY <1>1 DEF Probing, Kind, Typed

-----------------------------------------------------------------------------
LEMMA NewCallTyped ==
    ASSUME Typed, NEW c \in Callers, NewCall(c)
    PROVE  Typed'
<1>1. CASE ide_init(c)
  <2>1. /\ probed \in Drives /\ probed < 2
        /\ \A d \in Callers : pc[d] = "idle"
        /\ call' = [call EXCEPT ![c] = [kind |-> "identify", drive |-> probed, lba |-> 0]]
        /\ Goto(c, "select")
        /\ UNCHANGED <<buf, outcome, driver, channel, drives>>
    BY <1>1 DEF ide_init, Typed, TypeOK, Drives
  <2>2. /\ pc' \in [Callers -> Steps] /\ \A d \in Callers : d # c => pc'[d] = "idle"
    BY <2>1, Moved DEF Typed, Steps
  <2>3. call' \in [Callers -> Calls]
    <3>1. [kind |-> "identify", drive |-> probed, lba |-> 0] \in Calls
      BY <2>1, IdeAssumption DEF Calls
    <3> QED BY <2>1, <3>1 DEF Typed, TypeOK
  <2>4. TypeOK'
    BY <2>1, <2>2, <2>3 DEF Typed, TypeOK, driver, channel, drives
  <2>5. Probing'
    BY <2>1, <2>2 DEF Probing, driver
  <2> QED BY <2>4, <2>5 DEF Typed
<1>2. ASSUME NEW kind \in {"read", "write"}, NEW d \in Drives, NEW s \in Sectors, NEW b \in Data,
             ide_sector(c, kind, d, s, b)
      PROVE  Typed'
  <2> DEFINE new == [kind |-> kind, drive |-> d, lba |-> s]
  <2>1. /\ probed = 2 /\ pc[c] = "idle"
        /\ call' = [call EXCEPT ![c] = new]
        /\ buf' = [buf EXCEPT ![c] = b]
        /\ Goto(c, "select")
        /\ UNCHANGED <<outcome, driver, channel, drives>>
    BY <1>2 DEF ide_sector
  <2>2. /\ pc' \in [Callers -> Steps] /\ \A e \in Callers : e # c => pc'[e] = pc[e]
    BY <2>1, Moved DEF Typed, Steps
  <2>3. new \in Calls /\ new.kind # "identify"
    BY DEF Calls
  <2> HIDE DEF new
  <2>4. /\ call' \in [Callers -> Calls] /\ call'[c] = new
        /\ \A e \in Callers : e # c => call'[e] = call[e]
    BY <2>1, <2>3 DEF Typed, TypeOK
  <2>5. TypeOK'
    BY <2>1, <2>2, <2>4 DEF Typed, TypeOK, driver, channel, drives
  <2>6. Probing'
    BY <2>1, <2>2, <2>3, <2>4 DEF Probing, Kind, Typed, driver
  <2> QED BY <2>5, <2>6 DEF Typed
<1> QED BY <1>1, <1>2 DEF NewCall

LEMMA HardwareTyped ==
    ASSUME Typed, Hardware
    PROVE  Typed'
<1> PICK d \in Drives : DriveAnswers(d) \/ DriveWrites(d)
  BY DEF Hardware
<1>1. UNCHANGED <<pc, call, buf, outcome, probed, present, registered, sel, lba_regs, cmd>>
  BY DEF DriveAnswers, DriveWrites, callers, driver, channel
<1>2. st' \in [Drives -> {"ready", "busy", "drq", "writing", "err", "df"}]
  BY DEF DriveAnswers, DriveWrites, Typed, TypeOK
<1>3. disk' \in [Drives -> [Sectors -> Data]]
  <2>1. CASE disk' = disk
    BY <2>1 DEF Typed, TypeOK
  <2>2. CASE disk' = [disk EXCEPT ![d][cmd[d].lba] = cmd[d].data]
    <3>1. cmd[d].lba \in Sectors /\ cmd[d].data \in Data /\ disk[d] \in [Sectors -> Data]
      BY DEF Typed, TypeOK, Commands
    <3> QED BY <2>2, <3>1 DEF Typed, TypeOK
  <2> QED BY <2>1, <2>2 DEF DriveAnswers, DriveWrites
<1>4. TypeOK'
  BY <1>1, <1>2, <1>3 DEF Typed, TypeOK
<1>5. Probing'
  BY <1>1 DEF Typed, Probing, Kind
<1> QED BY <1>4, <1>5 DEF Typed

LEMMA DriverTyped ==
    ASSUME Typed, NEW c \in Callers, Driver(c)
    PROVE  Typed'
<1>0. call[c] \in Calls /\ call[c].drive \in Drives /\ call[c].lba \in Sectors
      /\ Kind(c) \in {"identify", "read", "write"}
  BY DEF Typed, TypeOK, Calls, Kind
<1>1. CASE _ide_select_drive(c)
  <2>1. pc' \in [Callers -> Steps] /\ Probing'
    BY <1>1, OnwardProbing DEF _ide_select_drive, Steps, driver
  <2> QED BY <1>0, <1>1, <2>1 DEF _ide_select_drive, Typed, TypeOK, driver, drives
<1>2. CASE _ide_wait_drdy(c)
  <2>1. pc' \in [Callers -> Steps] /\ Probing'
    BY <1>2, OnwardProbing DEF _ide_wait_drdy, Steps, driver
  <2> QED BY <1>2, <2>1 DEF _ide_wait_drdy, Typed, TypeOK, driver, channel, drives
<1>3. CASE _ide_write_lbaregs(c)
  <2>1. pc' \in [Callers -> Steps] /\ Probing'
    BY <1>3, OnwardProbing DEF _ide_write_lbaregs, Steps, driver
  <2> QED BY <1>0, <1>3, <2>1 DEF _ide_write_lbaregs, Typed, TypeOK, driver, drives
<1>4. CASE _ide_write_command(c)
  <2> DEFINE d == IF Kind(c) = "identify" THEN sel ELSE call[c].drive
             new == [op |-> Kind(c), lba |-> lba_regs, data |-> cmd[d].data]
  <2>1. pc' \in [Callers -> Steps] /\ Probing'
    BY <1>4, OnwardProbing DEF _ide_write_command, Steps, driver
  <2>2. d \in Drives /\ new \in Commands
    BY <1>0 DEF Typed, TypeOK, Commands
  <2>3. sel' = d /\ st' = [st EXCEPT ![d] = "busy"] /\ cmd' = [cmd EXCEPT ![d] = new]
    BY <1>4, <2>2 DEF _ide_write_command, Typed, TypeOK
  <2>4. UNCHANGED <<call, buf, outcome, driver, lba_regs, disk>>
    BY <1>4 DEF _ide_write_command
  <2> HIDE DEF d, new
  <2> QED BY <2>1, <2>2, <2>3, <2>4 DEF Typed, TypeOK, driver
<1>5. CASE _ide_wait_bsy(c)
  <2>1. pc[c] = "bsy" /\ UNCHANGED <<call, buf, present, registered, channel, drives>>
    BY <1>5 DEF _ide_wait_bsy
  <2>2. CASE Goto(c, "drq") /\ UNCHANGED <<outcome, probed>>
    <3>1. pc' \in [Callers -> Steps] /\ Probing'
      BY <2>1, <2>2, OnwardProbing DEF Steps
    <3> QED BY <2>1, <2>2, <3>1 DEF Typed, TypeOK, channel, drives
  <2>3. CASE Return(c, "done")
    <3>1. /\ pc' \in [Callers -> Steps] /\ probed' \in 0 .. 2 /\ Probing'
          /\ outcome' \in [Callers -> {"none", "done", "failed"}]
      BY <2>1, <2>3, Returned
    <3> QED BY <2>1, <3>1 DEF Typed, TypeOK, channel, drives
  <2> QED BY <1>5, <2>2, <2>3 DEF _ide_wait_bsy
<1>6. CASE _ide_error(c) \/ _ide_timeout(c)
  BY <1>6, FailedTyped DEF _ide_error, _ide_timeout
<1>7. CASE _ide_wait_drq(c)
  <2>1. pc' \in [Callers -> Steps] /\ Probing'
    BY <1>7, OnwardProbing DEF _ide_wait_drq, Steps, driver
  <2> QED BY <1>7, <2>1 DEF _ide_wait_drq, Typed, TypeOK, driver, channel, drives
<1>8. CASE _ide_data(c)
  <2>0. pc[c] = "data" /\ UNCHANGED <<call, channel, disk>>
    BY <1>8 DEF _ide_data
  <2>1. CASE /\ Return(c, "done")
             /\ present' = present \cup {call[c].drive}
             /\ registered' = registered
                    \cup (IF Attached[sel] = "ata" THEN {call[c].drive} ELSE {})
             /\ st' = [st EXCEPT ![sel] = "ready"]
             /\ UNCHANGED <<buf, cmd>>
    <3>1. /\ pc' \in [Callers -> Steps] /\ probed' \in 0 .. 2 /\ Probing'
          /\ outcome' \in [Callers -> {"none", "done", "failed"}]
      BY <2>0, <2>1, Returned
    <3> QED BY <1>0, <2>0, <2>1, <3>1 DEF Typed, TypeOK, channel
  <2>2. CASE /\ Return(c, "done")
             /\ buf' = [buf EXCEPT ![c] = disk[sel][cmd[sel].lba]]
             /\ st' = [st EXCEPT ![sel] = "ready"]
             /\ UNCHANGED <<present, registered, cmd>>
    <3>1. /\ pc' \in [Callers -> Steps] /\ probed' \in 0 .. 2 /\ Probing'
          /\ outcome' \in [Callers -> {"none", "done", "failed"}]
      BY <2>0, <2>2, Returned
    <3>2. disk[sel][cmd[sel].lba] \in Data
      BY DEF Typed, TypeOK, Commands
    <3> QED BY <2>0, <2>2, <3>1, <3>2 DEF Typed, TypeOK, channel
  <2>3. CASE /\ Goto(c, "bsy")
             /\ st' = [st EXCEPT ![sel] = "writing"]
             /\ cmd' = [cmd EXCEPT ![sel].data = buf[c]]
             /\ UNCHANGED <<buf, outcome, driver>>
    <3>1. pc' \in [Callers -> Steps] /\ Probing'
      BY <2>0, <2>3, OnwardProbing DEF Steps, driver
    <3>2. cmd' \in [Drives -> Commands]
      BY <2>3 DEF Typed, TypeOK, Commands
    <3> QED BY <2>0, <2>3, <3>1, <3>2 DEF Typed, TypeOK, channel, driver
  <2> QED BY <1>8, <2>1, <2>2, <2>3 DEF _ide_data
<1> QED BY <1>1, <1>2, <1>3, <1>4, <1>5, <1>6, <1>7, <1>8 DEF Driver

LEMMA TypedStep == Typed /\ [Next]_vars => Typed'
<1> SUFFICES ASSUME Typed, [Next]_vars PROVE Typed'
  OBVIOUS
<1>1. CASE UNCHANGED vars
  <2>1. UNCHANGED <<pc, call, buf, outcome, probed, present, registered, sel, lba_regs, st, cmd, disk>>
    BY <1>1 DEF vars, callers, driver, channel, drives
  <2> QED BY <2>1 DEF Typed, TypeOK, Probing, Kind
<1> QED BY <1>1, NewCallTyped, HardwareTyped, DriverTyped DEF Next

LEMMA TypedInit == Init => Typed
<1> SUFFICES ASSUME Init PROVE Typed
  OBVIOUS
<1>1. pc \in [Callers -> Steps] /\ call \in [Callers -> Calls]
  BY IdeAssumption DEF Init, Steps, Calls, Drives
<1>2. cmd \in [Drives -> Commands]
  BY IdeAssumption DEF Init, Commands
<1>3. TypeOK
  BY <1>1, <1>2, IdeAssumption DEF Init, TypeOK, Drives
<1>4. Probing
  BY DEF Init, Probing
<1> QED BY <1>3, <1>4 DEF Typed

\* The variables of Ide stay in their types, with any number of callers.
THEOREM IdeTypes == Spec => []TypeOK
<1>1. Typed => TypeOK
  BY DEF Typed
<1> QED BY <1>1, TypedInit, TypedStep, PTL DEF Spec

-----------------------------------------------------------------------------
\* A drive that a command may be written to, and that changes no sector.
Quiet(d) == st[d] \in {"ready", "drq", "err", "df"}

(***************************************************************************)
(* The one caller and the channel agree: the registers and the command are *)
(* those of its call, the drive has at most that one command, and what a   *)
(* finished write wrote is on the disk and stays there.  An abandoned call *)
(* leaves a drive in any state; the wait for DRDY is where that ends.      *)
(***************************************************************************)
Registers(c) ==
    /\ pc[c] \notin {"idle", "select"} => sel = call[c].drive
    /\ pc[c] = "regs" => Kind(c) # "identify"
    /\ pc[c] = "command" /\ Kind(c) # "identify" => lba_regs = call[c].lba
    /\ pc[c] \in {"bsy", "drq", "data"} /\ Kind(c) # "identify" =>
        cmd[call[c].drive].lba = call[c].lba

InStep(c) ==
    LET d == call[c].drive IN
    /\ pc[c] \in {"regs", "command", "bsy", "drq", "data"} => Attached[d] # "none"
    /\ pc[c] \in {"regs", "command"} => Quiet(d)
    /\ pc[c] = "drq" \/ (pc[c] = "bsy" /\ Kind(c) # "write") => st[d] \in {"busy", "drq", "err", "df"}
    /\ pc[c] = "data" => st[d] = "drq"
    /\ pc[c] = "bsy" /\ Kind(c) = "write" =>
        \/ st[d] = "writing" /\ cmd[d].data = buf[c]
        \/ st[d] \in {"err", "df"}
        \/ st[d] = "ready" /\ buf[c] = disk[d][call[c].lba]
    /\ pc[c] = "idle" /\ outcome[c] = "done" /\ Kind(c) # "identify" =>
        /\ Quiet(d)
        /\ buf[c] = disk[d][call[c].lba] \/ (Kind(c) = "write" /\ st[d] = "df")

OneCaller == \E c : Callers = {c}
Solo == Typed /\ \A c \in Callers : Registers(c) /\ InStep(c)

\* Drives at work: only the one whose command is under way changes for c.
LEMMA HardwareSolo ==
    ASSUME Typed, NEW c \in Callers, Registers(c), InStep(c), Hardware
    PROVE  Registers(c)' /\ InStep(c)'
<1> PICK e \in Drives : DriveAnswers(e) \/ DriveWrites(e)
  BY DEF Hardware
<1> DEFINE d == call[c].drive
<1>1. UNCHANGED <<pc, call, buf, outcome, sel, lba_regs, cmd>>
  BY DEF DriveAnswers, DriveWrites, callers, channel
<1>2. d \in Drives /\ call[c].lba \in Sectors
  BY DEF Typed, TypeOK, Calls
<1>3. Registers(c)'
  BY <1>1 DEF Registers, Kind
<1>4. CASE DriveAnswers(e)
  <2>1. disk' = disk /\ st[e] = "busy" /\ st'[e] \in {"drq", "err", "df"}
        /\ \A x \in Drives : x # e => st'[x] = st[x]
    BY <1>4 DEF DriveAnswers, Typed, TypeOK
  <2>2. st'[d] = st[d] \/ (st[d] = "busy" /\ st'[d] \in {"drq", "err", "df"})
    BY <1>2, <2>1
  <2> QED BY <1>1, <1>3, <2>1, <2>2 DEF InStep, Kind, Quiet
<1>5. CASE DriveWrites(e)
  <2>1. st[e] = "writing" /\ \A x \in Drives : x # e => st'[x] = st[x] /\ disk'[x] = disk[x]
    BY <1>5 DEF DriveWrites, Typed, TypeOK
  <2>2. CASE e # d
    BY <1>1, <1>2, <1>3, <2>1, <2>2 DEF InStep, Kind, Quiet
  <2>3. CASE e = d
    <3>1. st[d] = "writing"
      BY <2>1, <2>3
    <3>2. \/ st'[d] \in {"err", "df"}
          \/ st'[d] = "ready" /\ disk' = [disk EXCEPT ![d][cmd[d].lba] = cmd[d].data]
      BY <1>2, <1>5, <2>3 DEF DriveWrites, Typed, TypeOK
    <3>3. pc[c] \notin {"regs", "command", "drq", "data"}
          /\ ~(pc[c] = "bsy" /\ Kind(c) # "write")
          /\ ~(pc[c] = "idle" /\ outcome[c] = "done" /\ Kind(c) # "identify")
      BY <3>1 DEF InStep, Quiet
    <3>4. CASE pc[c] = "bsy" /\ Kind(c) = "write"
      <4>1. cmd[d].lba = call[c].lba /\ cmd[d].data = buf[c] /\ Attached[d] # "none"
        BY <3>1, <3>4 DEF InStep, Registers
      <4>2. st'[d] \in {"err", "df"} \/ (st'[d] = "ready" /\ disk'[d][call[c].lba] = buf[c])
        BY <1>2, <3>2, <4>1 DEF Typed, TypeOK
      <4> QED BY <1>1, <1>3, <3>4, <4>1, <4>2 DEF InStep, Kind
    <3>5. CASE ~(pc[c] = "bsy" /\ Kind(c) = "write")
      BY <1>1, <1>3, <3>3, <3>5 DEF InStep, Kind
    <3> QED BY <3>4, <3>5
  <2> QED BY <2>2, <2>3
<1> QED BY <1>4, <1>5

LEMMA NewCallSolo ==
    ASSUME Typed, NEW c \in Callers, NewCall(c)
    PROVE  Registers(c)' /\ InStep(c)'
<1>1. Goto(c, "select")
  BY DEF NewCall, ide_init, ide_sector
<1>2. pc'[c] = "select"
  BY <1>1, Moved DEF Typed, Steps
<1> QED BY <1>2 DEF Registers, InStep

LEMMA FailedSolo ==
    ASSUME Typed, NEW c \in Callers, Failed(c)
    PROVE  Registers(c)' /\ InStep(c)'
<1>1. Goto(c, "idle") /\ outcome' = [outcome EXCEPT ![c] = "failed"]
  BY DEF Failed, Return
<1>2. pc'[c] = "idle"
  BY <1>1, Moved DEF Typed, Steps
<1>3. outcome'[c] = "failed"
  BY <1>1 DEF Typed, TypeOK
<1> QED BY <1>2, <1>3 DEF Registers, InStep

LEMMA DriverSolo ==
    ASSUME Typed, NEW c \in Callers, Registers(c), InStep(c), Driver(c)
    PROVE  Registers(c)' /\ InStep(c)'
<1> DEFINE d == call[c].drive
<1>0. d \in Drives /\ call[c].lba \in Sectors /\ Kind(c) \in {"identify", "read", "write"}
  BY DEF Typed, TypeOK, Calls, Kind
<1>1. CASE _ide_select_drive(c)
  <2>1. pc'[c] = "drdy" /\ call' = call /\ sel' = d
    BY <1>1, Moved DEF _ide_select_drive, Typed, Steps
  <2> QED BY <2>1 DEF Registers, InStep
<1>2. CASE _ide_wait_drdy(c)
  <2>1. UNCHANGED <<call, buf, outcome, sel, lba_regs, st, cmd, disk>>
    BY <1>2 DEF _ide_wait_drdy, channel, drives
  <2>2. pc[c] = "drdy" /\ Attached[sel] # "none" /\ st[sel] \notin {"busy", "writing"}
    BY <1>2 DEF _ide_wait_drdy, RDY, BSY
  <2>3. sel = d
    BY <2>2 DEF Registers
  <2>4. Quiet(d) /\ Attached[d] # "none"
    BY <1>0, <2>2, <2>3 DEF Quiet, Typed, TypeOK
  <2>5. \/ pc'[c] = "command" /\ Kind(c) = "identify"
        \/ pc'[c] = "regs" /\ Kind(c) # "identify"
    BY <1>2, Moved DEF _ide_wait_drdy, Typed, Steps
  <2>6. Registers(c)'
    BY <2>1, <2>3, <2>5 DEF Registers, Kind
  <2> QED BY <2>1, <2>4, <2>5, <2>6 DEF InStep, Kind, Quiet
<1>3. CASE _ide_write_lbaregs(c)
  <2>1. UNCHANGED <<call, buf, outcome, sel, st, cmd, disk>> /\ lba_regs' = call[c].lba
    BY <1>3 DEF _ide_write_lbaregs, drives
  <2>2. pc[c] = "regs" /\ pc'[c] = "command"
    BY <1>3, Moved DEF _ide_write_lbaregs, Typed, Steps
  <2> QED BY <2>1, <2>2 DEF Registers, InStep, Kind, Quiet
<1>4. CASE _ide_write_command(c)
  <2>1. pc[c] = "command" /\ UNCHANGED <<call, buf, outcome, lba_regs, disk>>
    BY <1>4 DEF _ide_write_command
  <2>2. sel = d /\ (Kind(c) # "identify" => lba_regs = call[c].lba) /\ Attached[d] # "none"
    BY <2>1 DEF Registers, InStep
  <2>3. /\ sel' = d /\ st' = [st EXCEPT ![d] = "busy"]
        /\ cmd' = [cmd EXCEPT ![d] = [op |-> Kind(c), lba |-> lba_regs, data |-> @.data]]
    BY <1>4, <2>2 DEF _ide_write_command
  <2>4. st'[d] = "busy" /\ cmd'[d].lba = lba_regs
    BY <1>0, <2>3 DEF Typed, TypeOK
  <2>5. \/ pc'[c] = "drq" /\ Kind(c) = "write"
        \/ pc'[c] = "bsy" /\ Kind(c) # "write"
    BY <1>4, Moved DEF _ide_write_command, Typed, Steps
  <2> QED BY <2>1, <2>2, <2>3, <2>4, <2>5 DEF Registers, InStep, Kind
<1>5. CASE _ide_wait_bsy(c)
  <2>1. /\ pc[c] = "bsy" /\ ~BSY /\ ~ERR
        /\ UNCHANGED <<call, buf, sel, lba_regs, st, cmd, disk>>
    BY <1>5 DEF _ide_wait_bsy, channel, drives
  <2>2. sel = d /\ Attached[d] # "none"
    BY <2>1 DEF Registers, InStep
  <2>3. st[d] \notin {"busy", "writing", "err"}
    BY <2>1, <2>2 DEF BSY, ERR
  <2>4. CASE Kind(c) # "write" /\ Goto(c, "drq")
    <3>1. pc'[c] = "drq"
      BY <2>4, Moved DEF Typed, Steps
    <3>2. st[d] \in {"busy", "drq", "err", "df"}
      BY <2>1, <2>4 DEF InStep
    <3> QED BY <2>1, <2>2, <2>4, <3>1, <3>2 DEF Registers, InStep, Kind
  <2>5. CASE Kind(c) = "write" /\ Return(c, "done")
    <3>1. pc'[c] = "idle"
      BY <2>5, Moved DEF Return, Typed, Steps
    <3>2. \/ st[d] = "df"
          \/ st[d] = "ready" /\ buf[c] = disk[d][call[c].lba]
      BY <2>1, <2>3, <2>5 DEF InStep
    <3> QED BY <2>1, <2>5, <3>1, <3>2 DEF Registers, InStep, Quiet, Kind
  <2> QED BY <1>5, <2>4, <2>5 DEF _ide_wait_bsy
<1>6. CASE _ide_error(c) \/ _ide_timeout(c)
  BY <1>6, FailedSolo DEF _ide_error, _ide_timeout
<1>7. CASE _ide_wait_drq(c)
  <2>1. UNCHANGED <<call, buf, outcome, sel, lba_regs, st, cmd, disk>> /\ pc[c] = "drq" /\ DRQ
    BY <1>7 DEF _ide_wait_drq, channel, drives
  <2>2. pc'[c] = "data"
    BY <1>7, Moved DEF _ide_wait_drq, Typed, Steps
  <2>3. sel = d /\ st[d] = "drq"
    BY <2>1 DEF Registers, DRQ
  <2> QED BY <2>1, <2>2, <2>3 DEF Registers, InStep, Kind
<1>8. CASE _ide_data(c)
  <2>1. pc[c] = "data" /\ UNCHANGED <<call, sel, lba_regs, disk>>
    BY <1>8 DEF _ide_data, channel
  <2>2. sel = d /\ Attached[d] # "none" /\ (Kind(c) # "identify" => cmd[d].lba = call[c].lba)
    BY <2>1 DEF Registers, InStep
  <2>3. CASE Kind(c) = "identify" /\ Return(c, "done")
    <3>1. pc'[c] = "idle"
      BY <2>3, Moved DEF Return, Typed, Steps
    <3> QED BY <2>1, <2>3, <3>1 DEF Registers, InStep, Kind
  <2>4. CASE /\ Kind(c) = "read" /\ Return(c, "done")
             /\ buf' = [buf EXCEPT ![c] = disk[sel][cmd[sel].lba]]
             /\ st' = [st EXCEPT ![sel] = "ready"]
    <3>1. pc'[c] = "idle"
      BY <2>4, Moved DEF Return, Typed, Steps
    <3>2. buf'[c] = disk[d][call[c].lba] /\ st'[d] = "ready"
      BY <1>0, <2>2, <2>4 DEF Typed, TypeOK
    <3> QED BY <2>1, <3>1, <3>2 DEF Registers, InStep, Quiet
  <2>5. CASE /\ Kind(c) = "write" /\ Goto(c, "bsy")
             /\ st' = [st EXCEPT ![sel] = "writing"]
             /\ cmd' = [cmd EXCEPT ![sel].data = buf[c]]
             /\ UNCHANGED buf
    <3>1. pc'[c] = "bsy"
      BY <2>5, Moved DEF Typed, Steps
    <3>2. cmd'[d].lba = cmd[d].lba /\ cmd'[d].data = buf[c] /\ st'[d] = "writing"
      BY <1>0, <2>2, <2>5 DEF Typed, TypeOK, Commands
    <3> QED BY <2>1, <2>2, <2>5, <3>1, <3>2 DEF Registers, InStep, Kind
  <2> QED BY <1>8, <2>3, <2>4, <2>5 DEF _ide_data
<1> QED BY <1>1, <1>2, <1>3, <1>4, <1>5, <1>6, <1>7, <1>8 DEF Driver

LEMMA SoloInvariant ==
    ASSUME OneCaller
    PROVE  Spec => []Solo
<1> PICK c : Callers = {c}
  BY DEF OneCaller
<1>1. Init => Solo
  <2> SUFFICES ASSUME Init PROVE Solo
    OBVIOUS
  <2>1. \A e \in Callers : pc[e] = "idle" /\ outcome[e] = "none"
    BY DEF Init
  <2> QED BY <2>1, TypedInit DEF Solo, Registers, InStep
<1>2. Solo /\ [Next]_vars => Solo'
  <2> SUFFICES ASSUME Solo, [Next]_vars PROVE Registers(c)' /\ InStep(c)'
    BY TypedStep DEF Solo
  <2>1. CASE UNCHANGED vars
    <3>1. UNCHANGED <<pc, call, buf, outcome, sel, lba_regs, st, cmd, disk>>
      BY <2>1 DEF vars, callers, channel, drives
    <3> QED BY <3>1 DEF Solo, Registers, InStep, Kind, Quiet
  <2> QED BY <2>1, HardwareSolo, NewCallSolo, DriverSolo DEF Next, Solo
<1> QED BY <1>1, <1>2, PTL DEF Spec

(***************************************************************************)
(* With one thread in the driver, a call that runs to its end has moved    *)
(* its sector, whichever drives there are, whatever fails or takes too     *)
(* long, and whatever abandoned calls left behind on the channel, unless   *)
(* the drive shows a drive fault.                                          *)
(***************************************************************************)
THEOREM IdeDoneMeansTransferred ==
    ASSUME OneCaller
    PROVE  Spec => []DoneMeansTransferred
<1>1. Solo => DoneMeansTransferred
  BY DEF Solo, InStep, DoneMeansTransferred
<1> QED BY <1>1, SoloInvariant, PTL

(***************************************************************************)
(* And no command is ever written to a drive that is busy with another.    *)
(***************************************************************************)
THEOREM IdeNoCommandWhileBusy ==
    ASSUME OneCaller
    PROVE  Spec => NoCommandWhileBusy
<1> DEFINE Waits == \A c \in Callers :
                        _ide_write_command(c) => st[sel'] \notin {"busy", "writing"}
<1>1. Solo => Waits
  <2> SUFFICES ASSUME Solo, NEW c \in Callers, _ide_write_command(c)
               PROVE  st[sel'] \notin {"busy", "writing"}
    OBVIOUS
  <2>1. pc[c] = "command"
    BY DEF _ide_write_command
  <2>2. sel = call[c].drive /\ Quiet(call[c].drive)
    BY <2>1 DEF Solo, Registers, InStep
  <2>3. sel' = call[c].drive
    BY <2>2 DEF _ide_write_command
  <2> QED BY <2>2, <2>3 DEF Quiet
<1>2. Solo => [Waits]_vars
  BY <1>1
<1> QED BY <1>2, SoloInvariant, PTL DEF NoCommandWhileBusy
=============================================================================
