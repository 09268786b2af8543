-------------------------------- MODULE Pic --------------------------------
(***************************************************************************)
(* The driver of the two interrupt controllers, driver/pic.c, and the two  *)
(* 8259A chips: their initialisation words, masks, pending requests and    *)
(* interrupts in service.  Driver functions are sequences of port writes   *)
(* <<value, port>>.                                                        *)
(***************************************************************************)
EXTENDS Common

VARIABLE pic

MASTER_PIC_COMMAND_PORT == 32
MASTER_PIC_DATA_PORT == 33
SLAVE_PIC_COMMAND_PORT == 160
SLAVE_PIC_DATA_PORT == 161
PicPorts == {32, 33, 160, 161}

PIC_ICW1_INIT == 17             \* PIC_ICW1_START_INIT | PIC_ICW1_EXPECT_ICW4
Bit(k) == <<1, 2, 4, 8, 16, 32, 64, 128>>[k + 1]
PIC_ICW3_PRIM_SLAVE_PIN(pin) == Bit(pin)
PIC_ICW3_SEC_MASTER_PIN(pin) == pin
PIC_ICW4_8086_MODE == 1
PIC_OCW2_EOI == 32

\* The chips.  word is the initialisation word expected next (0: none).
Chip(base, masked) ==
    [word |-> 0, base |-> base, cascade |-> 0, auto |-> FALSE,
     imr |-> masked, irr |-> {}, isr |-> {}]

Lines == 0 .. 7
Bits(value) == {k \in Lines : (value \div Bit(k)) % 2 = 1}

\* What one chip does with a command byte and with a data byte.
CommandByte(chip, value) ==
    IF 4 \in Bits(value)
    THEN [chip EXCEPT !.word = 2, !.imr = {}, !.irr = {}, !.isr = {}, !.auto = FALSE]
    ELSE IF value = PIC_OCW2_EOI /\ chip.isr # {}
    THEN [chip EXCEPT !.isr = @ \ {Min(@)}]
    ELSE chip

DataByte(chip, value) ==
    CASE chip.word = 0 -> [chip EXCEPT !.imr = Bits(value)]
      [] chip.word = 2 -> [chip EXCEPT !.word = 3, !.base = 8 * (value \div 8)]
      [] chip.word = 3 -> [chip EXCEPT !.word = 4, !.cascade = value]
      [] chip.word = 4 -> [chip EXCEPT !.word = 0, !.auto = 1 \in Bits(value)]

PicOut(p, value, port) ==
    CASE port = MASTER_PIC_COMMAND_PORT -> [p EXCEPT !.master = CommandByte(@, value)]
      [] port = MASTER_PIC_DATA_PORT -> [p EXCEPT !.master = DataByte(@, value)]
      [] port = SLAVE_PIC_COMMAND_PORT -> [p EXCEPT !.slave = CommandByte(@, value)]
      [] port = SLAVE_PIC_DATA_PORT -> [p EXCEPT !.slave = DataByte(@, value)]

\* A device raises its line; lines 8 to 15 are the slave's.
Raised(p, line) ==
    IF line < 8 THEN [p EXCEPT !.master.irr = @ \cup {line}]
    ELSE [p EXCEPT !.slave.irr = @ \cup {line - 8}]

\* The requests a chip passes on: not masked, of higher priority than
\* whatever is in service.
Passed(chip, requests) ==
    {k \in requests \ chip.imr : chip.word = 0 /\ \A s \in chip.isr : k < s}

SlavePasses(p) == Passed(p.slave, p.slave.irr)
MasterPasses(p) ==
    Passed(p.master, p.master.irr
                       \cup IF SlavePasses(p) = {} THEN {} ELSE Bits(p.master.cascade))

\* The processor acknowledges: the line, its vector, and the chips after it.
Served(chip, k) == [chip EXCEPT !.irr = @ \ {k}, !.isr = IF chip.auto THEN @ ELSE @ \cup {k}]
Acknowledged(p) ==
    LET k == Min(MasterPasses(p)) IN
    IF k \in Bits(p.master.cascade) /\ p.slave.cascade = k
    THEN LET s == Min(SlavePasses(p))
         IN  [line |-> 8 + s, vector |-> p.slave.base + s,
              pic |-> [master |-> Served(p.master, k), slave |-> Served(p.slave, s)]]
    ELSE [line |-> k, vector |-> p.master.base + k, pic |-> [p EXCEPT !.master = Served(@, k)]]

-----------------------------------------------------------------------------
\* Mutant of pic_init: the chips are told their vectors after their wiring.
pic_init_swapped(master_base, slave_base) ==
    << <<PIC_ICW1_INIT, MASTER_PIC_COMMAND_PORT>>, <<PIC_ICW1_INIT, SLAVE_PIC_COMMAND_PORT>>,
       <<PIC_ICW3_PRIM_SLAVE_PIN(2), MASTER_PIC_DATA_PORT>>,
       <<PIC_ICW3_SEC_MASTER_PIN(2), SLAVE_PIC_DATA_PORT>>,
       <<master_base, MASTER_PIC_DATA_PORT>>, <<slave_base, SLAVE_PIC_DATA_PORT>>,
       <<PIC_ICW4_8086_MODE, MASTER_PIC_DATA_PORT>>, <<PIC_ICW4_8086_MODE, SLAVE_PIC_DATA_PORT>>,
       <<0, MASTER_PIC_DATA_PORT>>, <<0, SLAVE_PIC_DATA_PORT>> >>

pic_init(master_base, slave_base) ==
    << <<PIC_ICW1_INIT, MASTER_PIC_COMMAND_PORT>>, <<PIC_ICW1_INIT, SLAVE_PIC_COMMAND_PORT>>,
       <<master_base, MASTER_PIC_DATA_PORT>>, <<slave_base, SLAVE_PIC_DATA_PORT>>,
       <<PIC_ICW3_PRIM_SLAVE_PIN(2), MASTER_PIC_DATA_PORT>>,
       <<PIC_ICW3_SEC_MASTER_PIN(2), SLAVE_PIC_DATA_PORT>>,
       <<PIC_ICW4_8086_MODE, MASTER_PIC_DATA_PORT>>, <<PIC_ICW4_8086_MODE, SLAVE_PIC_DATA_PORT>>,
       <<0, MASTER_PIC_DATA_PORT>>, <<0, SLAVE_PIC_DATA_PORT>> >>

\* Mutant of pic_send_eoi: a slave interrupt is ended at the slave alone.
pic_send_eoi_either(int_no) ==
    IF int_no >= 40 THEN << <<PIC_OCW2_EOI, SLAVE_PIC_COMMAND_PORT>> >>
    ELSE << <<PIC_OCW2_EOI, MASTER_PIC_COMMAND_PORT>> >>

pic_send_eoi(int_no) ==
    (IF int_no >= 40 THEN << <<PIC_OCW2_EOI, SLAVE_PIC_COMMAND_PORT>> >> ELSE << >>)
      \o << <<PIC_OCW2_EOI, MASTER_PIC_COMMAND_PORT>> >>
=============================================================================
