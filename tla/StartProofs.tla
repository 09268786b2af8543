---------------------------- MODULE StartProofs ----------------------------
(***************************************************************************)
(* Proofs about the kernel's start, module Start: for every workload, text *)
(* and call of other drivers.  First the port writes of the drivers and    *)
(* the chips one by one: what they are, that they keep the chips' types,   *)
(* and which DMA channel they touch.  Then the inductive invariant Inv: at *)
(* each step of kmain the writes left are the last ones of the driver call *)
(* it is in, and the controllers are as far as that says.  The properties  *)
(* follow with a part each: Vectors, Token, UartSet, FloppySet, Carried.   *)
(***************************************************************************)
EXTENDS Start, CommonProofs

-----------------------------------------------------------------------------
\* What the drivers write.

LEMMA ScriptIs ==
    ASSUME NEW m \in BOOLEAN
    PROVE  /\ Len(Script[m]) = 13
           /\ Script[m][1] = Prints(LoadMsg)
           /\ Script[m][2] = Call(serial_init(m))
           /\ Script[m][3] = Prints(LogMsg)
           /\ Script[m][4] = Call(pic_init(32, 40))
           /\ Script[m][5] = [op |-> "sti"]
           /\ Script[m][6] = Prints(LogMsg)
           /\ Script[m][7] = [op |-> "others"]
           /\ Script[m][8] = Program(FALSE)
           /\ Script[m][9] = Command(FALSE)
           /\ Script[m][10] = Wait
           /\ Script[m][11] = Program(TRUE)
           /\ Script[m][12] = Command(TRUE)
           /\ Script[m][13] = Wait
BY DEF Script

LEMMA SerialWrites ==
    ASSUME NEW m \in BOOLEAN
    PROVE  LET s == serial_init(m) IN
           /\ Len(s) = IF m THEN 9 ELSE 8
           /\ s[1] = <<0, 1017>> /\ s[2] = <<64, 1018>> /\ s[3] = <<128, 1019>> /\ s[4] = <<12, 1016>>
           /\ s[5] = <<0, 1017>> /\ s[6] = <<0, 1019>> /\ s[7] = <<3, 1019>> /\ s[8] = <<8, 1020>>
BY DEF serial_init, _serial_disable_intrs, _serial_disable_fifo, _serial_set_rate, _serial_set_params,
       _serial_set_modemctrl, _serial_enable_intrs, LINECTRL_DLAB, LINECTRL_8N1, INTREN_XMIT_EMPTY,
       MODEMCTRL_OUT2, INTRID_FIFO_UNUSABLE, SERIAL_BASE_FREQ, SERIAL_DEFAULT_BAUD, SERIAL_XMITBUF,
       SERIAL_IER, SERIAL_FIFOCTRL, SERIAL_LINECTRL, SERIAL_MODEMCTRL, COM1_IO_BASE

LEMMA SerialLast == \A m \in BOOLEAN : m => serial_init(m)[9] = <<2, 1017>>
BY DEF serial_init, _serial_disable_intrs, _serial_disable_fifo, _serial_set_rate, _serial_set_params,
       _serial_set_modemctrl, _serial_enable_intrs, LINECTRL_DLAB, LINECTRL_8N1, INTREN_XMIT_EMPTY,
       MODEMCTRL_OUT2, INTRID_FIFO_UNUSABLE, SERIAL_BASE_FREQ, SERIAL_DEFAULT_BAUD, SERIAL_XMITBUF,
       SERIAL_IER, SERIAL_FIFOCTRL, SERIAL_LINECTRL, SERIAL_MODEMCTRL, COM1_IO_BASE

LEMMA PicWrites ==
    LET s == pic_init(32, 40) IN
    /\ Len(s) = 10
    /\ s[1] = <<17, 32>> /\ s[2] = <<17, 160>> /\ s[3] = <<32, 33>> /\ s[4] = <<40, 161>>
    /\ s[5] = <<4, 33>> /\ s[6] = <<2, 161>> /\ s[7] = <<1, 33>> /\ s[8] = <<1, 161>>
    /\ s[9] = <<0, 33>> /\ s[10] = <<0, 161>>
BY DEF pic_init, PIC_ICW1_INIT, PIC_ICW3_PRIM_SLAVE_PIN, PIC_ICW3_SEC_MASTER_PIN, PIC_ICW4_8086_MODE, Bit,
       MASTER_PIC_COMMAND_PORT, MASTER_PIC_DATA_PORT, SLAVE_PIC_COMMAND_PORT, SLAVE_PIC_DATA_PORT

LEMMA FdcWrites ==
    ASSUME NEW w \in BOOLEAN
    PROVE  LET s == _fdc_init_dma(511, w) IN
           /\ Len(s) = 12
           /\ s[1] = <<6, 10>> /\ s[2] = <<255, 12>> /\ s[3] = <<0, 4>> /\ s[4] = <<16, 4>>
           /\ s[5] = <<255, 12>> /\ s[6] = <<255, 5>> /\ s[7] = <<1, 5>> /\ s[8] = <<0, 129>>
           /\ s[9] = <<6, 10>> /\ s[10] = <<IF w THEN 74 ELSE 70, 11>> /\ s[11] = <<0, 14>> /\ s[12] = <<0, 14>>
BY DEF _fdc_init_dma, dma_mask_channel, dma_reset_flipflop, dma_set_address, dma_set_count,
       dma_set_external_pagereg, dma_setup_write, dma_setup_read, dma_set_mode, dma_unmask_all,
       TwoBytes, ADDR, COUNT, PAGE, CHANMASK, MODE, Channels, DMA_CHAN_FLOPPY, FLOPPY_DMA_BUFFER,
       DMA_MODE_READ, DMA_MODE_WRITE, DMA_MODE_SINGLE

-----------------------------------------------------------------------------
Ports == SerialPorts \cup PicPorts \cup DmaPorts
Word16 == [1 .. 2 -> Bytes]
Uarts == [ier : Bytes, fifo : Bytes, lcr : Bytes, mcr : Bytes, dll : Bytes, dlm : Bytes,
          thr : Bytes \cup {NULL}, shift : Bytes \cup {NULL}]
PicChips == [word : {0, 2, 3, 4}, base : Bytes, cascade : Bytes, auto : BOOLEAN,
             imr : SUBSET Lines, irr : SUBSET Lines, isr : SUBSET Lines]
DmaChips == [flipflop : {0, 1}, address : [0 .. 3 -> Word16], count : [0 .. 3 -> Word16],
             mode : [0 .. 3 -> Bytes], mask : SUBSET (0 .. 3), disabled : BOOLEAN]
Dmas == [chip : [Controllers -> DmaChips], page : [PagePorts -> Bytes]]

UartTyped == uart \in Uarts
Pics == [master : PicChips, slave : PicChips]
PicTyped == pic \in Pics
DmaTyped == dma \in Dmas

LEMMA UartOutTyped ==
    ASSUME NEW u \in Uarts, NEW value \in Bytes, NEW port
    PROVE  UartOut(u, value, port) \in Uarts
<1>1. value % 2 \in Bytes
  BY DEF Bytes
<1> QED BY <1>1 DEF UartOut, Uarts

LEMMA BitsTyped == \A value : Bits(value) \in SUBSET Lines
BY DEF Bits

LEMMA CommandByteTyped ==
    ASSUME NEW c \in PicChips, NEW value \in Bytes
    PROVE  CommandByte(c, value) \in PicChips
<1> DEFINE served == c.isr \ {Min(c.isr)}
<1>1. served \in SUBSET Lines
  BY DEF PicChips
<1>2. CommandByte(c, value) \in
        {[c EXCEPT !.word = 2, !.imr = {}, !.irr = {}, !.isr = {}, !.auto = FALSE],
         [c EXCEPT !.isr = served], c}
  BY Zenon DEF CommandByte
<1> HIDE DEF served
<1> QED BY <1>1, <1>2 DEF PicChips

LEMMA DataByteTyped ==
    ASSUME NEW c \in PicChips, NEW value \in Bytes
    PROVE  DataByte(c, value) \in PicChips
<1>1. 8 * (value \div 8) \in Bytes
  BY DEF Bytes
<1> DEFINE base == 8 * (value \div 8)
           auto == 1 \in Bits(value)
<1>2. c.word \in {0, 2, 3, 4}
  BY DEF PicChips
<1>3. DataByte(c, value) \in
        {[c EXCEPT !.imr = Bits(value)], [c EXCEPT !.word = 3, !.base = base],
         [c EXCEPT !.word = 4, !.cascade = value], [c EXCEPT !.word = 0, !.auto = auto]}
  BY <1>2, Zenon DEF DataByte
<1>4. auto \in BOOLEAN
  OBVIOUS
<1>5. Bits(value) \in SUBSET Lines
  BY BitsTyped
<1> HIDE DEF base, auto
<1> QED BY <1>1, <1>3, <1>4, <1>5 DEF PicChips, base

LEMMA PicOutTyped ==
    ASSUME NEW p \in Pics, NEW value \in Bytes, NEW port \in PicPorts
    PROVE  PicOut(p, value, port) \in Pics
<1>1. /\ CommandByte(p.master, value) \in PicChips /\ DataByte(p.master, value) \in PicChips
      /\ CommandByte(p.slave, value) \in PicChips /\ DataByte(p.slave, value) \in PicChips
  BY CommandByteTyped, DataByteTyped DEF Pics
<1> QED BY <1>1 DEF Pics, PicOut, PicPorts, MASTER_PIC_COMMAND_PORT, MASTER_PIC_DATA_PORT,
               SLAVE_PIC_COMMAND_PORT, SLAVE_PIC_DATA_PORT

LEMMA ChipOutTyped ==
    ASSUME NEW c \in DmaChips, NEW value \in Bytes, NEW reg \in 0 .. 15
    PROVE  ChipOut(c, value, reg) \in DmaChips
<1> DEFINE k == IF reg < 8 THEN reg \div 2 ELSE value % 4
           half == c.flipflop + 1
<1>1. k \in 0 .. 3 /\ half \in 1 .. 2 /\ 1 - c.flipflop \in {0, 1}
  BY DEF DmaChips, Bytes
<1> HIDE DEF k, half
<1>2. [c.address EXCEPT ![k][half] = value] \in [0 .. 3 -> Word16]
  BY <1>1 DEF DmaChips, Word16
<1>3. [c.count EXCEPT ![k][half] = value] \in [0 .. 3 -> Word16]
  BY <1>1 DEF DmaChips, Word16
<1>4. [c.mode EXCEPT ![k] = value] \in [0 .. 3 -> Bytes]
  BY <1>1 DEF DmaChips
<1>5. (c.mask \cup {k}) \in SUBSET (0 .. 3) /\ (c.mask \ {k}) \in SUBSET (0 .. 3)
  BY <1>1 DEF DmaChips
<1>6. ChipOut(c, value, reg) \in
        {[c EXCEPT !.address[k][half] = value, !.flipflop = 1 - @],
         [c EXCEPT !.count[k][half] = value, !.flipflop = 1 - @],
         [c EXCEPT !.disabled = (value \div 4) % 2 = 1],
         [c EXCEPT !.mask = @ \cup {k}], [c EXCEPT !.mask = @ \ {k}],
         [c EXCEPT !.mode[k] = value], [c EXCEPT !.flipflop = 0],
         [c EXCEPT !.flipflop = 0, !.mask = 0 .. 3, !.disabled = FALSE],
         [c EXCEPT !.mask = {}], c}
  BY Zenon DEF ChipOut, k, half
<1> QED BY <1>1, <1>2, <1>3, <1>4, <1>5, <1>6, ZenonT(60) DEF DmaChips

LEMMA DmaOutTyped ==
    ASSUME NEW d \in Dmas,
           NEW value \in Bytes, NEW port \in DmaPorts
    PROVE  DmaOut(d, value, port) \in Dmas
<1>1. CASE port \in PagePorts
  <2>1. [d.page EXCEPT ![port] = value] \in [PagePorts -> Bytes]
    BY <1>1 DEF Dmas
  <2>2. DmaOut(d, value, port) = [d EXCEPT !.page = [d.page EXCEPT ![port] = value]]
    <3>1. ~(port < 16)
      BY <1>1 DEF PagePorts
    <3> QED BY <1>1, <3>1 DEF DmaOut, Dmas
  <2> QED BY <2>1, <2>2 DEF Dmas
<1>2. CASE port \notin PagePorts /\ port < 16
  <2>1. port \in 0 .. 15
    BY <1>2 DEF DmaPorts, PagePorts
  <2>2. ChipOut(d.chip[0], value, port) \in DmaChips
    BY <2>1, ChipOutTyped DEF Controllers, Dmas
  <2> QED BY <1>2, <2>2 DEF DmaOut, Controllers, Dmas
<1>3. CASE port \notin PagePorts /\ ~(port < 16)
  <2>1. (port - 192) \div 2 \in 0 .. 15
    <3>1. PICK i \in 0 .. 15 : port = 192 + 2 * i
      BY <1>3 DEF DmaPorts, PagePorts
    <3> QED BY <3>1
  <2>2. ChipOut(d.chip[1], value, (port - 192) \div 2) \in DmaChips
    BY <2>1, ChipOutTyped DEF Controllers, Dmas
  <2> QED BY <1>3, <2>2 DEF DmaOut, Controllers, Dmas
<1> QED BY <1>1, <1>2, <1>3

\* The machine's write of a byte to a port keeps all chips in their types.
LEMMA OutbTyped ==
    ASSUME UartTyped, PicTyped, DmaTyped, NEW write \in Bytes \X Ports, outb(write)
    PROVE  UartTyped' /\ PicTyped' /\ DmaTyped'
<1> DEFINE value == write[1]
           port == write[2]
<1>1. value \in Bytes
  OBVIOUS
<1>2. UartTyped'
  <2>1. CASE port \in SerialPorts
    BY <1>1, <2>1, UartOutTyped DEF outb, UartTyped
  <2>2. CASE port \notin SerialPorts
    BY <2>2 DEF outb, UartTyped
  <2> QED BY <2>1, <2>2
<1>3. PicTyped'
  <2>1. CASE port \in PicPorts
    BY <1>1, <2>1, PicOutTyped DEF outb, PicTyped
  <2>2. CASE port \notin PicPorts
    BY <2>2 DEF outb, PicTyped
  <2> QED BY <2>1, <2>2
<1>4. DmaTyped'
  <2>1. CASE port \in DmaPorts
    BY <1>1, <2>1, DmaOutTyped DEF outb, DmaTyped
  <2>2. CASE port \notin DmaPorts
    BY <2>2 DEF outb, DmaTyped
  <2> QED BY <2>1, <2>2
<1> QED BY <1>2, <1>3, <1>4

-----------------------------------------------------------------------------
(***************************************************************************)
(* Channels.  A write is local to a channel if it leaves the registers of  *)
(* all others alone, in whatever state the chips are.                      *)
(***************************************************************************)
SameRegisters(d, e, c) == Programmed(e, c) = Programmed(d, c)
SameButPage(d, e, c) == [Programmed(e, c) EXCEPT !.page = 0] = [Programmed(d, c) EXCEPT !.page = 0]

Local(ch, write) ==
    \A d \in Dmas, c \in Channels :
        LET e == DmaOut(d, write[1], write[2]) IN
        SameRegisters(d, e, c) \/ ch = c \/ (c = 1 /\ ch = 3 /\ SameButPage(d, e, c))

\* Which registers of a chip a write changes.
LEMMA ChipOutChanges ==
    ASSUME NEW c \in DmaChips, NEW value \in Bytes, NEW reg \in 0 .. 15, NEW j \in 0 .. 3,
           \/ reg < 8 /\ j # reg \div 2
           \/ reg = 11 /\ j # value % 4
           \/ reg \in {8, 10, 12, 13, 14}
    PROVE  LET e == ChipOut(c, value, reg) IN
           e.address[j] = c.address[j] /\ e.count[j] = c.count[j] /\ e.mode[j] = c.mode[j]
<1> DEFINE k == IF reg < 8 THEN reg \div 2 ELSE value % 4
           half == c.flipflop + 1
           e == ChipOut(c, value, reg)
<1>1. k \in 0 .. 3
  BY DEF DmaChips, Bytes
<1>2. CASE reg \in {0, 2, 4, 6}
  <2>1. j # k
    BY <1>2
  <2>2. e = [c EXCEPT !.address[k][half] = value, !.flipflop = 1 - @]
    BY <1>2 DEF ChipOut
  <2> HIDE DEF k, half, e
  <2> QED BY <1>1, <2>1, <2>2 DEF DmaChips, e
<1>3. CASE reg \in {1, 3, 5, 7}
  <2>1. j # k
    BY <1>3
  <2>2. e = [c EXCEPT !.count[k][half] = value, !.flipflop = 1 - @]
    BY <1>3 DEF ChipOut
  <2> HIDE DEF k, half, e
  <2> QED BY <1>1, <2>1, <2>2 DEF DmaChips, e
<1>4. CASE reg = 11
  <2>1. j # k
    BY <1>4
  <2>2. e = [c EXCEPT !.mode[k] = value]
    BY <1>4 DEF ChipOut
  <2> HIDE DEF k, half, e
  <2> QED BY <1>1, <2>1, <2>2 DEF DmaChips, e
<1>5. CASE reg \in {8, 10, 12, 13, 14}
  <2>1. e.address = c.address /\ e.count = c.count /\ e.mode = c.mode
    BY <1>5 DEF ChipOut, DmaChips
  <2> QED BY <2>1
<1> QED BY <1>2, <1>3, <1>4, <1>5

\* The chip, register and value a write of the driver reaches: of one
\* controller's registers, only what belongs to channel ch.
LEMMA ChipWriteLocal ==
    ASSUME NEW n \in Controllers, NEW ch \in Bytes, NEW value \in Bytes, NEW reg \in 0 .. 15,
           NEW port \in DmaPorts \ PagePorts, port = IF n = 0 THEN reg ELSE 192 + 2 * reg,
           \/ ch \in Channels /\ n = ch \div 4 /\ reg < 8 /\ reg \div 2 = ch % 4
           \/ ch \in Channels /\ n = ch \div 4 /\ reg = 11 /\ value % 4 = ch % 4
           \/ reg \in {8, 10, 12, 13, 14}
    PROVE  Local(ch, <<value, port>>)
<1> SUFFICES ASSUME NEW d \in Dmas, NEW c \in Channels, ch # c
             PROVE  SameRegisters(d, DmaOut(d, value, port), c)
  BY DEF Local
<1> DEFINE e == DmaOut(d, value, port)
           old == d.chip[n]
           new == ChipOut(old, value, reg)
<1>1. e = [d EXCEPT !.chip[n] = new]
  <2>1. CASE n = 0
    BY <2>1 DEF DmaOut
  <2>2. CASE n = 1
    <3>1. port = 192 + 2 * reg /\ ~(port < 16) /\ (port - 192) \div 2 = reg
      BY <2>2
    <3> QED BY <2>2, <3>1 DEF DmaOut
  <2> QED BY <2>1, <2>2 DEF Controllers
<1>2. old \in DmaChips /\ d.chip \in [Controllers -> DmaChips] /\ DOMAIN d = {"chip", "page"}
  BY DEF Dmas
<1>3. e.page = d.page /\ e.chip[n] = new /\ \A m \in Controllers : m # n => e.chip[m] = d.chip[m]
  <2> HIDE DEF new, e
  <2> QED BY <1>1, <1>2
<1>4. c \div 4 \in Controllers /\ c % 4 \in 0 .. 3
  BY DEF Channels, Controllers
<1>5. LET x == e.chip[c \div 4]
          y == d.chip[c \div 4]
          k == c % 4
      IN  x.address[k] = y.address[k] /\ x.count[k] = y.count[k] /\ x.mode[k] = y.mode[k]
  <2>1. CASE c \div 4 # n
    <3> HIDE DEF e
    <3> QED BY <1>3, <1>4, <2>1
  <2>2. CASE c \div 4 = n
    <3>1. \/ reg < 8 /\ c % 4 # reg \div 2
          \/ reg = 11 /\ c % 4 # value % 4
          \/ reg \in {8, 10, 12, 13, 14}
      BY <2>2 DEF Channels
    <3>2. /\ new.address[c % 4] = old.address[c % 4] /\ new.count[c % 4] = old.count[c % 4]
          /\ new.mode[c % 4] = old.mode[c % 4]
      BY <1>2, <1>4, <3>1, ChipOutChanges, ZenonT(40)
    <3> HIDE DEF e, new
    <3> QED BY <1>3, <2>2, <3>2
  <2> QED BY <2>1, <2>2
<1> HIDE DEF e
<1> QED BY <1>3, <1>5, SMTT(40) DEF SameRegisters, Programmed, e

LEMMA PageWriteLocal ==
    ASSUME NEW ch \in Channels \ {4}, NEW value \in Bytes
    PROVE  Local(ch, <<value, PAGE(ch)>>)
<1> DEFINE port == PAGE(ch)
<1>1. port \in PagePorts
  BY DEF PAGE, PagePorts, Channels
<1> SUFFICES ASSUME NEW d \in Dmas, NEW c \in Channels, ch # c
             PROVE  LET e == DmaOut(d, value, port) IN
                    SameRegisters(d, e, c) \/ (c = 1 /\ ch = 3 /\ SameButPage(d, e, c))
  BY DEF Local
<1> DEFINE e == DmaOut(d, value, port)
<1>2. e = [d EXCEPT !.page[port] = value]
  <2>1. ~(port < 16)
    BY <1>1 DEF PagePorts
  <2> HIDE DEF port
  <2> QED BY <1>1, <2>1 DEF DmaOut
<1>3. d.page \in [PagePorts -> Bytes] /\ DOMAIN d = {"chip", "page"}
  BY DEF Dmas
<1>4. e.chip = d.chip /\ \A p \in PagePorts : p # port => e.page[p] = d.page[p]
  <2> HIDE DEF e, port
  <2> QED BY <1>2, <1>3
<1>5. PageOf(c) \in PagePorts
  BY DEF PageOf, PagePorts, Channels
<1>6. CASE PageOf(c) # port
  <2>1. e.page[PageOf(c)] = d.page[PageOf(c)]
    BY <1>4, <1>5, <1>6, Zenon
  <2> HIDE DEF e
  <2>2. SameRegisters(d, e, c)
    BY <1>4, <2>1, Zenon DEF SameRegisters, Programmed
  <2> QED BY <2>2 DEF e
<1>7. CASE PageOf(c) = port
  <2>1. c = 1 /\ ch = 3
    BY <1>7 DEF PageOf, PAGE, Channels
  <2> HIDE DEF e
  <2>2. e.chip = d.chip
    BY <1>4, Zenon
  <2> DEFINE k == d.chip[c \div 4]
             A == k.address[c % 4][1] + 256 * k.address[c % 4][2]
             N == k.count[c % 4][1] + 256 * k.count[c % 4][2]
             M == k.mode[c % 4]
  <2>3. /\ Programmed(d, c) = [address |-> A, page |-> d.page[PageOf(c)], count |-> N, mode |-> M]
        /\ Programmed(e, c) = [address |-> A, page |-> e.page[PageOf(c)], count |-> N, mode |-> M]
    BY <2>2, Zenon DEF Programmed
  <2> HIDE DEF A, N, M
  <2>4. SameButPage(d, e, c)
    BY ONLY <2>3, SMT DEF SameButPage
  <2> QED BY <2>1, <2>4 DEF e
<1> QED BY <1>6, <1>7

\* The writes of a call for channel ch.
LocalWrites(ch) == {w \in Bytes \X DmaPorts : Local(ch, w)}

LEMMA ChipPorts ==
    ASSUME NEW reg \in 0 .. 15
    PROVE  reg \in DmaPorts \ PagePorts /\ 192 + 2 * reg \in DmaPorts \ PagePorts
<1>1. 192 + 2 * reg \in {192 + 2 * i : i \in 0 .. 15}
  OBVIOUS
<1>2. reg \notin PagePorts /\ 192 + 2 * reg \notin PagePorts
  BY DEF PagePorts
<1> QED BY <1>1, <1>2 DEF DmaPorts

\* The port of a register of a chip.
ChipPort(n, reg) == IF n = 0 THEN reg ELSE 192 + 2 * reg

LEMMA ChipWriteIn ==
    ASSUME NEW n \in Controllers, NEW ch \in Bytes, NEW value \in Bytes, NEW reg \in 0 .. 15,
           \/ ch \in Channels /\ n = ch \div 4 /\ reg < 8 /\ reg \div 2 = ch % 4
           \/ ch \in Channels /\ n = ch \div 4 /\ reg = 11 /\ value % 4 = ch % 4
           \/ reg \in {8, 10, 12, 13, 14}
    PROVE  <<value, ChipPort(n, reg)>> \in LocalWrites(ch)
<1> DEFINE port == ChipPort(n, reg)
<1>1. port \in DmaPorts \ PagePorts
  BY ChipPorts, SMT DEF ChipPort
<1>2. Local(ch, <<value, port>>)
  <2>1. port = IF n = 0 THEN reg ELSE 192 + 2 * reg
    BY SMT DEF ChipPort
  <2> HIDE DEF port
  <2> QED BY <1>1, <2>1, ChipWriteLocal, SMT
<1> HIDE DEF port
<1>3. <<value, port>> \in Bytes \X DmaPorts
  BY <1>1, SMT
<1>4. <<value, port>> \in LocalWrites(ch)
  BY <1>2, <1>3, Zenon DEF LocalWrites
<1> QED BY <1>4 DEF port

\* The ports of a channel's registers, and where they are in the chip.
LEMMA ChannelPorts ==
    ASSUME NEW ch \in Channels
    PROVE  /\ ch \in Bytes /\ ch \div 4 \in Controllers /\ ch % 4 \in 0 .. 3
           /\ ADDR(ch) = ChipPort(ch \div 4, 2 * (ch % 4))
           /\ COUNT(ch) = ChipPort(ch \div 4, 2 * (ch % 4) + 1)
           /\ MODE(ch) = ChipPort(ch \div 4, 11)
           /\ CHANMASK(ch) = ChipPort(ch \div 4, 10)
<1>1. ch \in Bytes /\ ch \div 4 \in Controllers /\ ch % 4 \in 0 .. 3
  BY SMT DEF Channels, Bytes, Controllers
<1>2. ch = 0 \/ ch = 1 \/ ch = 2 \/ ch = 3 \/ ch = 4 \/ ch = 5 \/ ch = 6 \/ ch = 7
  BY SMT DEF Channels
<1>3. ADDR(ch) = ChipPort(ch \div 4, 2 * (ch % 4))
  BY <1>2, SMT DEF ADDR, ChipPort
<1>4. COUNT(ch) = ChipPort(ch \div 4, 2 * (ch % 4) + 1)
  BY <1>2, SMT DEF COUNT, ChipPort
<1>5. MODE(ch) = ChipPort(ch \div 4, 11) /\ CHANMASK(ch) = ChipPort(ch \div 4, 10)
  BY <1>2, SMT DEF MODE, CHANMASK, ChipPort
<1> QED BY <1>1, <1>3, <1>4, <1>5, Zenon

\* The two bytes of a word: the bound is all the arithmetic below needs.
LEMMA WordsAre ==
    ASSUME NEW w \in Words
    PROVE  w \in Nat /\ w < 65536
<1>1. UINT16_MAX \in Nat /\ UINT16_MAX < 65536
  BY SMT DEF UINT16_MAX
<1> QED BY <1>1, SMT DEF Words

LEMMA ByteIs ==
    ASSUME NEW x \in Int, 0 <= x, x < 256
    PROVE  x \in Bytes
BY SMT DEF Bytes

LEMMA TwoBytesTyped ==
    ASSUME NEW word \in Words, NEW port, NEW L, \A value \in Bytes : <<value, port>> \in L
    PROVE  TwoBytes(word, port) \in Seq(L)
<1> DEFINE lo == word % 256
           hi == word \div 256
<1>1. hi \in Int /\ hi < 256
  BY WordsAre, SMT
<1>2. 0 <= hi
  BY WordsAre, SMT
<1>3. lo \in Bytes
  <2> HIDE DEF hi
  <2>1. lo \in Int /\ lo < 256
    BY WordsAre, SMT
  <2>2. 0 <= lo
    BY WordsAre, SMT
  <2> HIDE DEF lo
  <2> QED BY <2>1, <2>2, ByteIs, Zenon
<1>4. TwoBytes(word, port) = << <<lo, port>>, <<hi, port>> >>
  BY SMT DEF TwoBytes
<1> HIDE DEF lo, hi
<1>5. hi \in Bytes
  BY <1>1, <1>2, ByteIs, Zenon
<1> QED BY <1>3, <1>4, <1>5, SMT

LEMMA TwoBytesLocal ==
    ASSUME NEW ch \in Channels, NEW word \in Words
    PROVE  /\ TwoBytes(word, ADDR(ch)) \in Seq(LocalWrites(ch))
           /\ TwoBytes(word, COUNT(ch)) \in Seq(LocalWrites(ch))
<1> DEFINE n == ch \div 4
           a == 2 * (ch % 4)
           b == 2 * (ch % 4) + 1
<1>1. a \in 0 .. 15 /\ a < 8 /\ a \div 2 = ch % 4
  BY SMT DEF Channels
<1>2. b \in 0 .. 15 /\ b < 8 /\ b \div 2 = ch % 4
  BY SMT DEF Channels
<1>3. n \in Controllers /\ ch \in Bytes /\ n = ch \div 4 /\ ADDR(ch) = ChipPort(n, a) /\ COUNT(ch) = ChipPort(n, b)
  BY ChannelPorts, Zenon
<1> HIDE DEF n, a, b
<1>4. ASSUME NEW value \in Bytes
      PROVE  <<value, ChipPort(n, a)>> \in LocalWrites(ch) /\ <<value, ChipPort(n, b)>> \in LocalWrites(ch)
  BY <1>1, <1>2, <1>3, ChipWriteIn, Zenon
<1> QED BY <1>3, <1>4, TwoBytesTyped, Zenon

\* The registers no channel has of its own.
LEMMA CommonLocal ==
    ASSUME NEW ch \in Bytes, NEW value \in Bytes, NEW reg \in {8, 10, 12, 13, 14}, NEW n \in Controllers
    PROVE  <<value, ChipPort(n, reg)>> \in LocalWrites(ch)
<1>1. reg \in 0 .. 15
  BY SMT
<1> QED BY <1>1, ChipWriteIn, Zenon

LEMMA ModeLocal ==
    ASSUME NEW ch \in Channels, NEW mode \in {68, 72}
    PROVE  dma_set_mode(ch, mode) \in Seq(LocalWrites(ch))
<1> DEFINE n == ch \div 4
           value == mode + (ch % 4)
           mask == 4 + (ch % 4)
           L == LocalWrites(ch)
<1>1. value \in Bytes /\ value % 4 = ch % 4
  BY SMT DEF Channels, Bytes
<1>2. mask \in Bytes /\ 0 \in Bytes
  BY SMT DEF Channels, Bytes
<1>3. 11 \in 0 .. 15 /\ 11 = 11 /\ 0 \in Controllers
  BY SMT DEF Controllers
<1>4. n \in Controllers /\ ch \in Bytes /\ n = ch \div 4 /\ MODE(ch) = ChipPort(n, 11) /\ CHANMASK(ch) = ChipPort(n, 10)
  BY ChannelPorts, Zenon
<1> DEFINE x == <<mask, CHANMASK(ch)>>
           y == <<value, MODE(ch)>>
           z == <<0, 14>>
<1>5. dma_set_mode(ch, mode) = <<x>> \o <<y>> \o <<z>>
  BY Zenon DEF dma_set_mode, dma_mask_channel, dma_unmask_all
<1> HIDE DEF n, value, mask
<1>6. <<value, ChipPort(n, 11)>> \in L
  BY <1>1, <1>3, <1>4, ChipWriteIn, Zenon
<1>7. <<mask, ChipPort(n, 10)>> \in L /\ <<0, ChipPort(0, 14)>> \in L
  BY <1>2, <1>3, <1>4, CommonLocal, Zenon
<1>8. ChipPort(0, 14) = 14
  BY SMT DEF ChipPort
<1>9. x \in L /\ y \in L /\ z \in L
  BY <1>4, <1>6, <1>7, <1>8, Zenon
<1> HIDE DEF x, y, z, L
<1>10. <<x>> \o <<y>> \o <<z>> \in Seq(L)
  BY <1>9, SMT
<1> QED BY <1>5, <1>10, Zenon DEF L

LEMMA PageLocal ==
    ASSUME NEW ch \in Bytes, NEW value \in Bytes
    PROVE  dma_set_external_pagereg(ch, value) \in Seq(LocalWrites(ch))
<1>1. CASE ch \in Channels \ {4}
  <2>1. Local(ch, <<value, PAGE(ch)>>)
    BY <1>1, PageWriteLocal, Zenon
  <2>2. PAGE(ch) \in DmaPorts
    BY <1>1, SMT DEF PAGE, DmaPorts, PagePorts, Channels
  <2>3. <<value, PAGE(ch)>> \in LocalWrites(ch)
    BY <2>1, <2>2, Zenon DEF LocalWrites
  <2>4. dma_set_external_pagereg(ch, value) = << <<value, PAGE(ch)>> >>
    BY <1>1, Zenon DEF dma_set_external_pagereg
  <2> QED BY <2>3, <2>4, SMT
<1>2. CASE ch \notin Channels \ {4}
  BY <1>2 DEF dma_set_external_pagereg
<1> QED BY <1>1, <1>2

LEMMA MaskLocal ==
    ASSUME NEW ch \in Bytes
    PROVE  /\ dma_mask_channel(ch) \in Seq(LocalWrites(ch))
           /\ dma_unmask_channel(ch) \in Seq(LocalWrites(ch))
<1>1. CASE ch \in Channels
  <2> DEFINE x == <<4 + (ch % 4), CHANMASK(ch)>>
             y == <<ch % 4, CHANMASK(ch)>>
             n == ch \div 4
  <2>1. dma_mask_channel(ch) = <<x>> /\ dma_unmask_channel(ch) = <<y>>
    BY <1>1, Zenon DEF dma_mask_channel, dma_unmask_channel
  <2>2. 4 + (ch % 4) \in Bytes /\ ch % 4 \in Bytes
    BY <1>1, SMT DEF Channels, Bytes
  <2>3. n \in Controllers /\ CHANMASK(ch) = ChipPort(n, 10)
    BY <1>1, ChannelPorts, Zenon
  <2> HIDE DEF n
  <2>4. x \in LocalWrites(ch) /\ y \in LocalWrites(ch)
    BY <2>2, <2>3, CommonLocal, Zenon
  <2> HIDE DEF x, y
  <2> QED BY <2>1, <2>4, SMT
<1>2. CASE ch \notin Channels
  BY <1>2 DEF dma_mask_channel, dma_unmask_channel
<1> QED BY <1>1, <1>2

\* The commands to a controller as a whole.
LEMMA ControllerLocal ==
    ASSUME NEW ch \in Bytes, NEW dmac
    PROVE  /\ dma_reset_flipflop(dmac) \in Seq(LocalWrites(ch))
           /\ dma_reset(dmac) \in Seq(LocalWrites(ch))
           /\ dma_disable(dmac) \in Seq(LocalWrites(ch))
           /\ dma_unmask_all \in Seq(LocalWrites(ch))
<1> DEFINE n == IF dmac = 0 THEN 0 ELSE 1
<1>1. n \in Controllers /\ 0 \in Controllers
  BY DEF Controllers
<1>2. /\ (IF dmac = 0 THEN 12 ELSE 216) = ChipPort(n, 12) /\ (IF dmac = 0 THEN 13 ELSE 218) = ChipPort(n, 13)
      /\ (IF dmac = 0 THEN 8 ELSE 208) = ChipPort(n, 8) /\ ChipPort(0, 14) = 14
  BY SMT DEF ChipPort
<1>3. 255 \in Bytes /\ 4 \in Bytes /\ 0 \in Bytes
  BY SMT DEF Bytes
<1> DEFINE ff == 255
<1>4. /\ dma_reset_flipflop(dmac) = << <<ff, ChipPort(n, 12)>> >> /\ dma_reset(dmac) = << <<ff, ChipPort(n, 13)>> >>
      /\ dma_disable(dmac) = << <<4, ChipPort(n, 8)>> >> /\ dma_unmask_all = << <<0, ChipPort(0, 14)>> >>
  BY <1>2, SMT DEF dma_reset_flipflop, dma_reset, dma_disable, dma_unmask_all, DMA_CMD_DISABLE
<1>5. ff \in Bytes
  BY <1>3
<1> HIDE DEF n, ff
<1>6. /\ <<ff, ChipPort(n, 12)>> \in LocalWrites(ch) /\ <<ff, ChipPort(n, 13)>> \in LocalWrites(ch)
      /\ <<4, ChipPort(n, 8)>> \in LocalWrites(ch) /\ <<0, ChipPort(0, 14)>> \in LocalWrites(ch)
  <2>1. 12 \in {8, 10, 12, 13, 14} /\ 13 \in {8, 10, 12, 13, 14} /\ 8 \in {8, 10, 12, 13, 14} /\ 14 \in {8, 10, 12, 13, 14}
    OBVIOUS
  <2>2. 4 \in Bytes /\ 0 \in Bytes
    BY SMT DEF Bytes
  <2> QED BY <1>1, <1>5, <2>1, <2>2, CommonLocal, Zenon
<1> QED BY <1>4, <1>6, SMT

\* Every call another driver can make of the DMA driver.
LEMMA DmaCallLocal ==
    ASSUME NEW c \in OtherCalls
    PROVE  c.channel \in Bytes /\ DmaCall(c) \in Seq(LocalWrites(c.channel))
<1> DEFINE ch == c.channel
           word == c.arg
           L == LocalWrites(ch)
<1>1. c \in [name : DmaFunctions, channel : Bytes, arg : Words]
  BY StartAssumption, Zenon
<1>2. ch \in Bytes /\ word \in Words /\ c.name \in DmaFunctions
  BY <1>1
<1>3. word % 256 \in Bytes
  <2> HIDE DEF word
  <2>1. word % 256 \in Int /\ word % 256 < 256
    BY <1>2, WordsAre, SMT
  <2>2. 0 <= word % 256
    BY <1>2, WordsAre, SMT
  <2> QED BY <2>1, <2>2, ByteIs, Zenon
<1> DEFINE lo == word % 256
<1>4. DmaCall(c) \in {dma_set_address(ch, word), dma_set_count(ch, word), dma_set_external_pagereg(ch, lo),
                      dma_mask_channel(ch), dma_unmask_channel(ch), dma_setup_read(ch), dma_setup_write(ch),
                      dma_reset_flipflop(ch \div 4), dma_reset(ch \div 4), dma_disable(ch \div 4)}
  BY <1>2, Zenon DEF DmaCall, DmaFunctions
<1>5. dma_set_address(ch, word) \in Seq(L) /\ dma_set_count(ch, word) \in Seq(L)
  <2>1. CASE ch \in Channels
    BY <1>2, <2>1, TwoBytesLocal, Zenon DEF dma_set_address, dma_set_count
  <2>2. CASE ch \notin Channels
    BY <2>2, SMT DEF dma_set_address, dma_set_count
  <2> QED BY <2>1, <2>2
<1>6. dma_set_external_pagereg(ch, lo) \in Seq(L)
  <2> HIDE DEF lo
  <2>1. lo \in Bytes
    BY <1>3 DEF lo
  <2> QED BY <1>2, <2>1, PageLocal, Zenon
<1>7. dma_setup_read(ch) \in Seq(L) /\ dma_setup_write(ch) \in Seq(L)
  <2>1. CASE ch \in Channels
    <3>1. DMA_MODE_READ + DMA_MODE_SINGLE \in {68, 72} /\ DMA_MODE_WRITE + DMA_MODE_SINGLE \in {68, 72}
      BY SMT DEF DMA_MODE_READ, DMA_MODE_SINGLE, DMA_MODE_WRITE
    <3> QED BY <2>1, <3>1, ModeLocal, ZenonT(40) DEF dma_setup_read, dma_setup_write
  <2>2. CASE ch \notin Channels
    BY <2>2, SMT DEF dma_setup_read, dma_setup_write, dma_set_mode
  <2> QED BY <2>1, <2>2
<1>8. dma_mask_channel(ch) \in Seq(L) /\ dma_unmask_channel(ch) \in Seq(L)
  BY <1>2, MaskLocal, Zenon
<1>9. dma_reset_flipflop(ch \div 4) \in Seq(L) /\ dma_reset(ch \div 4) \in Seq(L) /\ dma_disable(ch \div 4) \in Seq(L)
  BY <1>2, ControllerLocal, Zenon
<1> HIDE DEF ch, word, lo, L
<1>10. DmaCall(c) \in Seq(L)
  BY <1>4, <1>5, <1>6, <1>7, <1>8, <1>9, Zenon
<1> QED BY <1>2, <1>10, Zenon DEF ch, L

\* The floppy driver's programming of its channel.
LEMMA FdcLocal ==
    ASSUME NEW w \in BOOLEAN
    PROVE  _fdc_init_dma(511, w) \in Seq(LocalWrites(DMA_CHAN_FLOPPY))
<1> DEFINE L == LocalWrites(2)
<1>1. 2 \in Channels /\ 2 \in Bytes /\ 0 \in Bytes /\ DMA_CHAN_FLOPPY = 2
  BY SMT DEF Channels, Bytes, DMA_CHAN_FLOPPY
<1>2. FLOPPY_DMA_BUFFER \in Words /\ 511 \in Words
  BY SMT DEF FLOPPY_DMA_BUFFER, Words, UINT16_MAX
<1> DEFINE count == 511
<1>3. count \in Words
  BY <1>2
<1> HIDE DEF count
<1> DEFINE s1 == dma_mask_channel(2)
           s2 == dma_reset_flipflop(0)
           s3 == dma_set_address(2, FLOPPY_DMA_BUFFER)
           s4 == dma_set_count(2, count)
           s5 == dma_set_external_pagereg(2, 0)
           s6 == IF w THEN dma_setup_write(2) ELSE dma_setup_read(2)
           s7 == dma_unmask_all
<1>4. s1 \in Seq(L)
  BY <1>1, MaskLocal, Zenon
<1>5. s2 \in Seq(L) /\ s7 \in Seq(L)
  BY <1>1, ControllerLocal, Zenon
<1>6. s3 \in Seq(L)
  BY <1>1, <1>2, TwoBytesLocal, Zenon DEF dma_set_address
<1>7. s4 \in Seq(L)
  BY <1>1, <1>3, TwoBytesLocal, Zenon DEF dma_set_count
<1>8. s5 \in Seq(L)
  BY <1>1, PageLocal, Zenon
<1>9. s6 \in Seq(L)
  <2>1. DMA_MODE_READ + DMA_MODE_SINGLE \in {68, 72} /\ DMA_MODE_WRITE + DMA_MODE_SINGLE \in {68, 72}
    BY SMT DEF DMA_MODE_READ, DMA_MODE_SINGLE, DMA_MODE_WRITE
  <2>2. dma_setup_write(2) \in Seq(L) /\ dma_setup_read(2) \in Seq(L)
    BY <1>1, <2>1, ModeLocal, ZenonT(40) DEF dma_setup_read, dma_setup_write
  <2> QED BY <2>2, Zenon
<1>10. _fdc_init_dma(count, w) = s1 \o s2 \o s3 \o s2 \o s4 \o s5 \o s6 \o s7
  BY <1>1, Zenon DEF _fdc_init_dma
<1> HIDE DEF s1, s2, s3, s4, s5, s6, s7, L
<1>11. s1 \o s2 \o s3 \o s2 \o s4 \o s5 \o s6 \o s7 \in Seq(L)
  BY <1>4, <1>5, <1>6, <1>7, <1>8, <1>9, SMT
<1>12. _fdc_init_dma(count, w) \in Seq(LocalWrites(DMA_CHAN_FLOPPY))
  BY <1>1, <1>10, <1>11, Zenon DEF L
<1> QED BY <1>12 DEF count

-----------------------------------------------------------------------------
(***************************************************************************)
(* The inductive invariant.  Typed gives every variable its type, and Walk *)
(* what kmain can be in the middle of at each step: of a call, the writes  *)
(* still to be made are the last ones of the driver function.              *)
(***************************************************************************)
Eois == {NULL, << >>, pic_send_eoi(32), pic_send_eoi(40)}
Handlers == [line : Nat, vector : Nat, eoi : Eois]
Sent == [char : Bytes, framing : [divisor : Nat, lcr : Bytes]]

ChipsTyped == UartTyped /\ PicTyped /\ DmaTyped
KernelTyped ==
    /\ work \in Workloads /\ step \in 1 .. 14 /\ todo \in Seq(Bytes \X Ports) /\ text \in Seq(Bytes)
    /\ enabled \in BOOLEAN /\ handler \in {NULL} \cup Handlers /\ _fdc_irq_fired \in BOOLEAN
DevicesTyped ==
    /\ drive \in {NULL, "read", "write"} /\ raises \in [Devices -> Nat] /\ raises["floppy"] = 0
    /\ waiting \in SUBSET Devices /\ wire \in Seq(Sent)
Typed == ChipsTyped /\ KernelTyped /\ DevicesTyped

\* What is left of a call's writes.
RestIs(rest, writes) ==
    /\ Len(rest) <= Len(writes)
    /\ \A i \in 1 .. Len(rest) : rest[i] = writes[Len(writes) - Len(rest) + i]

SerialInit == serial_init(work.intr_mode)
PicInit == pic_init(32, 40)
FloppyRead == _fdc_init_dma(511, FALSE)
FloppyWrite == _fdc_init_dma(511, TRUE)

Printing(rest) == Len(rest) <= 1 /\ \A i \in 1 .. Len(rest) : rest[i][2] = SERIAL_XMITBUF
NoDma(rest) == \A i \in 1 .. Len(rest) : rest[i][2] \in SerialPorts \cup PicPorts

Walk ==
    /\ text # << >> => step \in {2, 4, 7}
    /\ step \in {1, 6, 10, 11, 13, 14} => todo = << >>
    /\ step \in {2, 4, 7} => Printing(todo)
    /\ step = 3 => RestIs(todo, SerialInit)
    /\ step = 5 => RestIs(todo, PicInit)
    /\ step = 9 => RestIs(todo, FloppyRead)
    /\ step = 12 => RestIs(todo, FloppyWrite)
    /\ step < 8 => NoDma(todo)
    /\ step >= 8 => todo \in Seq(LocalWrites(channel))

Flags == (enabled <=> step >= 6) /\ (handler # NULL => enabled)

\* How far serial_init has got with the framing.
LineSet(u, m) ==
    /\ u.lcr = (IF m \in 3 .. 5 THEN 128 ELSE IF m = 6 THEN 0 ELSE 3)
    /\ m >= 4 => u.dll = 12
    /\ m >= 5 => u.dlm = 0
UartSet ==
    /\ step < 3 => LineSet(uart, 0)
    /\ step = 3 => LineSet(uart, Len(SerialInit) - Len(todo))
    /\ step > 3 => LineSet(uart, 9)

\* How far pic_init has got.
PicChipSet(chip, m, base, cascade) ==
    /\ chip.word = (IF m < 1 \/ m >= 7 THEN 0 ELSE IF m < 3 THEN 2 ELSE IF m < 5 THEN 3 ELSE 4)
    /\ m >= 3 => chip.base = base
    /\ m >= 5 => chip.cascade = cascade
PicsSet(p, m) == PicChipSet(p.master, m, 32, 4) /\ PicChipSet(p.slave, m - 1, 40, 2)
Requests(p) == p.master.irr \subseteq {0, 4, 6} /\ p.slave.irr \subseteq {6}
PicSet ==
    /\ Requests(pic)
    /\ step < 5 => PicsSet(pic, 0)
    /\ step = 5 => PicsSet(pic, 10 - Len(todo))
    /\ step > 5 => PicsSet(pic, 10)

\* The end of a transfer is in one place at a time: the drive has not made
\* it, its line is up, its handler is about to run, or the flag is set.
Unserviced == handler # NULL /\ handler.eoi = NULL /\ handler.vector = 38
Asked == drive # NULL
Pending == 6 \in pic.master.irr
Token ==
    /\ Asked \/ Pending \/ Unserviced \/ _fdc_irq_fired => step \in {10, 13}
    /\ Asked => ~Pending /\ ~Unserviced /\ ~_fdc_irq_fired
    /\ Pending => ~Unserviced /\ ~_fdc_irq_fired
    /\ Unserviced => ~_fdc_irq_fired
    /\ Asked => drive = IF step = 10 THEN "read" ELSE "write"
Vectors ==
    handler # NULL => \E d \in Devices : handler.line = LineOf[d] /\ handler.vector = IRQ[d]

\* How far _fdc_init_dma has got: n writes are left.
ChannelSet(d, n, mode) ==
    LET c == d.chip[0] IN
    /\ n \in {7, 10} => c.flipflop = 0
    /\ n \in {6, 9} => c.flipflop = 1
    /\ n <= 9 => c.address[2][1] = 0
    /\ n <= 8 => c.address[2][2] = 16
    /\ n <= 6 => c.count[2][1] = 255
    /\ n <= 5 => c.count[2][2] = 1
    /\ n <= 4 => d.page[129] = 0
    /\ n <= 2 => c.mode[2] = mode
    /\ n <= 1 => 2 \notin c.mask
FloppySet ==
    /\ step \in {9, 10} => ChannelSet(dma, Len(todo), 70)
    /\ step \in {12, 13} => ChannelSet(dma, Len(todo), 74)

-----------------------------------------------------------------------------
\* Facts about kmain.

LEMMA PutsTyped ==
    ASSUME NEW str \in Seq(Bytes)
    PROVE  serial_puts(str) \in Seq(Bytes)
<1> DEFINE chars == [i \in 1 .. Len(str) |-> IF str[i] = LF THEN <<CR, LF>> ELSE <<str[i]>>]
<1>1. CR \in Bytes /\ LF \in Bytes
  BY SMT DEF CR, LF, Bytes
<1>2. <<CR, LF>> \in Seq(Bytes)
  BY <1>1, SMT
<1>3. \A i \in 1 .. Len(str) : chars[i] \in Seq(Bytes)
  BY <1>2, SMT
<1>4. chars \in Seq(Seq(Bytes))
  <2>1. chars \in [1 .. Len(str) -> Seq(Bytes)] /\ Len(str) \in Nat
    BY <1>3, SMT
  <2> HIDE DEF chars
  <2> QED BY <2>1, SMT
<1> HIDE DEF chars
<1>5. FlattenSeq(chars) \in Seq(Bytes)
  BY <1>4, FlattenSeqType, Zenon
<1> QED BY <1>5, Zenon DEF serial_puts, chars

LEMMA MessagesTyped == serial_puts(LoadMsg) \in Seq(Bytes) /\ serial_puts(LogMsg) \in Seq(Bytes)
BY StartAssumption, PutsTyped, Zenon

LEMMA KmainIs ==
    ASSUME Typed
    PROVE  /\ work.intr_mode \in BOOLEAN /\ Len(kmain) = 13
           /\ kmain[1] = Prints(LoadMsg) /\ kmain[2] = Call(SerialInit)
           /\ kmain[3] = Prints(LogMsg) /\ kmain[4] = Call(PicInit)
           /\ kmain[5] = [op |-> "sti"] /\ kmain[6] = Prints(LogMsg) /\ kmain[7] = [op |-> "others"]
           /\ kmain[8] = Program(FALSE) /\ kmain[9] = Command(FALSE) /\ kmain[10] = Wait
           /\ kmain[11] = Program(TRUE) /\ kmain[12] = Command(TRUE) /\ kmain[13] = Wait
<1>1. work \in Workloads
  BY Zenon DEF Typed, KernelTyped
<1>2. work.intr_mode \in BOOLEAN
  BY <1>1, StartAssumption, Zenon
<1> QED BY <1>2, ScriptIs, Zenon DEF kmain, SerialInit, PicInit

LEMMA Ops ==
    ASSUME Typed
    PROVE  /\ \A k \in {1, 3, 6} : kmain[k].op = "print"
           /\ \A k \in {2, 4, 8, 11} : kmain[k].op = "call"
           /\ \A k \in {9, 12} : kmain[k].op = "command"
           /\ \A k \in {10, 13} : kmain[k].op = "wait"
           /\ kmain[5].op = "sti" /\ kmain[7].op = "others"
BY KmainIs, SMT DEF Prints, Call, Program, Command, Wait

LEMMA BeginsAt ==
    ASSUME Typed, NEW op, Begins(op)
    PROVE  /\ step \in 1 .. 13 /\ step' = step + 1 /\ handler = NULL /\ todo = << >> /\ text = << >>
           /\ op = "print" => step \in {1, 3, 6}
           /\ op = "call" => step \in {2, 4, 8, 11}
           /\ op = "command" => step \in {9, 12}
           /\ op = "wait" => step \in {10, 13}
           /\ op = "sti" => step = 5
           /\ op = "others" => step = 7
<1>1. step \in 1 .. 13 /\ step' = step + 1 /\ kmain[step].op = op
  <2>1. Len(kmain) = 13
    BY KmainIs, Zenon
  <2>2. step \in 1 .. 14
    BY Zenon DEF Typed, KernelTyped
  <2>3. step <= Len(kmain) /\ kmain[step].op = op /\ step' = step + 1
    BY Zenon DEF Begins
  <2> HIDE DEF kmain
  <2> QED BY <2>1, <2>2, <2>3, SMT
<1>2. step \in {1, 3, 6} \cup {2, 4, 8, 11} \cup {9, 12} \cup {10, 13} \cup {5, 7}
  BY <1>1, SMT
<1>3. handler = NULL /\ todo = << >> /\ text = << >>
  BY Zenon DEF Begins
<1> QED BY <1>1, <1>2, <1>3, Ops, SMT

LEMMA PortsDisjoint ==
    ASSUME NEW p
    PROVE  /\ p \in SerialPorts => p \notin PicPorts /\ p \notin DmaPorts
           /\ p \in PicPorts => p \notin DmaPorts /\ p \notin SerialPorts
BY SMT DEF SerialPorts, PicPorts, DmaPorts, PagePorts, COM1_IO_BASE

\* The writes of the drivers' functions go to their ports.
LEMMA CallsTyped ==
    /\ \A m \in BOOLEAN : serial_init(m) \in Seq(Bytes \X SerialPorts)
    /\ pic_init(32, 40) \in Seq(Bytes \X PicPorts)
    /\ \A w \in BOOLEAN : _fdc_init_dma(511, w) \in Seq(LocalWrites(DMA_CHAN_FLOPPY))
<1>1. ASSUME NEW m \in BOOLEAN
      PROVE  serial_init(m) \in Seq(Bytes \X SerialPorts)
  <2> DEFINE S == Bytes \X SerialPorts
  <2>1. /\ <<0, 1017>> \in S /\ <<64, 1018>> \in S /\ <<128, 1019>> \in S /\ <<12, 1016>> \in S
        /\ <<0, 1019>> \in S /\ <<3, 1019>> \in S /\ <<8, 1020>> \in S /\ <<2, 1017>> \in S
    BY SMT DEF Bytes, SerialPorts, COM1_IO_BASE
  <2>2. /\ _serial_disable_intrs = << <<0, 1017>> >> /\ _serial_disable_fifo = << <<64, 1018>> >>
        /\ _serial_set_rate(9600) = << <<128, 1019>>, <<12, 1016>>, <<0, 1017>>, <<0, 1019>> >>
        /\ _serial_set_params(3) = << <<3, 1019>> >> /\ _serial_set_modemctrl(8) = << <<8, 1020>> >>
        /\ _serial_enable_intrs(2) = << <<2, 1017>> >>
    BY SMT DEF _serial_disable_intrs, _serial_disable_fifo, _serial_set_rate, _serial_set_params,
       _serial_set_modemctrl, _serial_enable_intrs, LINECTRL_DLAB, INTRID_FIFO_UNUSABLE, SERIAL_BASE_FREQ,
       SERIAL_XMITBUF, SERIAL_IER, SERIAL_FIFOCTRL, SERIAL_LINECTRL, SERIAL_MODEMCTRL, COM1_IO_BASE
  <2> HIDE DEF S
  <2>3. /\ _serial_disable_intrs \in Seq(S) /\ _serial_disable_fifo \in Seq(S) /\ _serial_set_rate(9600) \in Seq(S)
        /\ _serial_set_params(3) \in Seq(S) /\ _serial_set_modemctrl(8) \in Seq(S)
        /\ _serial_enable_intrs(2) \in Seq(S)
    <3>2. ASSUME NEW a \in S, NEW b \in S, NEW c \in S, NEW d \in S
          PROVE  <<a, b, c, d>> \in Seq(S)
      OBVIOUS
    <3> DEFINE a == <<128, 1019>>
               b == <<12, 1016>>
               c == <<0, 1017>>
               d == <<0, 1019>>
    <3>3. a \in S /\ b \in S /\ c \in S /\ d \in S /\ _serial_set_rate(9600) = <<a, b, c, d>>
      BY <2>1, <2>2
    <3>4. _serial_set_rate(9600) \in Seq(S)
      <4> HIDE DEF a, b, c, d
      <4> QED BY <3>2, <3>3, SMTT(40)
    <3>5. _serial_disable_intrs \in Seq(S) /\ _serial_disable_fifo \in Seq(S)
      BY <2>1, <2>2, SMT
    <3>6. _serial_set_params(3) \in Seq(S) /\ _serial_set_modemctrl(8) \in Seq(S)
      BY <2>1, <2>2, SMT
    <3>7. _serial_enable_intrs(2) \in Seq(S)
      <4>1. <<2, 1017>> \in S /\ _serial_enable_intrs(2) = << <<2, 1017>> >>
        BY <2>1, <2>2
      <4> QED BY <4>1, SMT
    <3> QED BY <3>4, <3>5, <3>6, <3>7
  <2> DEFINE s1 == _serial_disable_intrs
             s2 == _serial_disable_fifo
             s3 == _serial_set_rate(9600)
             s4 == _serial_set_params(3)
             s5 == _serial_set_modemctrl(8)
             s6 == IF m THEN _serial_enable_intrs(2) ELSE << >>
  <2>4. serial_init(m) = s1 \o s2 \o s3 \o s4 \o s5 \o s6
    BY SMT DEF serial_init, LINECTRL_8N1, INTREN_XMIT_EMPTY, MODEMCTRL_OUT2, SERIAL_DEFAULT_BAUD
  <2>5. s6 \in Seq(S)
    BY <2>3, SMT
  <2>6. s1 \in Seq(S) /\ s2 \in Seq(S) /\ s3 \in Seq(S) /\ s4 \in Seq(S) /\ s5 \in Seq(S)
    BY <2>3
  <2> HIDE DEF s1, s2, s3, s4, s5, s6
  <2>7. serial_init(m) \in Seq(S)
    BY <2>4, <2>5, <2>6, SMT
  <2> QED BY <2>7 DEF S
<1>2. pic_init(32, 40) \in Seq(Bytes \X PicPorts)
  <2> DEFINE S == Bytes \X PicPorts
  <2>1. \A v \in {17, 32, 40, 4, 2, 1, 0}, p \in PicPorts : <<v, p>> \in S
    BY SMT DEF Bytes
  <2> HIDE DEF S
  <2>2. pic_init(32, 40) \in Seq(S)
    BY <2>1, SMT DEF pic_init, PIC_ICW1_INIT, PIC_ICW3_PRIM_SLAVE_PIN, PIC_ICW3_SEC_MASTER_PIN, PIC_ICW4_8086_MODE,
       Bit, PicPorts, MASTER_PIC_COMMAND_PORT, MASTER_PIC_DATA_PORT, SLAVE_PIC_COMMAND_PORT, SLAVE_PIC_DATA_PORT
  <2> QED BY <2>2 DEF S
<1> QED BY <1>1, <1>2, FdcLocal, Zenon

\* The steps that call a driver.
LEMMA CallIs ==
    ASSUME Typed
    PROVE  /\ kmain[2].writes = SerialInit /\ kmain[4].writes = PicInit
           /\ kmain[8].writes = FloppyRead /\ kmain[11].writes = FloppyWrite
           /\ kmain[8].channel = DMA_CHAN_FLOPPY /\ kmain[11].channel = DMA_CHAN_FLOPPY
           /\ kmain[1].text = serial_puts(LoadMsg) /\ kmain[3].text = serial_puts(LogMsg)
           /\ kmain[6].text = serial_puts(LogMsg)
           /\ kmain[9].is_write = FALSE /\ kmain[12].is_write = TRUE
<1>1. kmain[2].writes = SerialInit /\ kmain[4].writes = PicInit
  BY KmainIs, SMT DEF Call
<1>2. Program(FALSE).writes = FloppyRead /\ Program(TRUE).writes = FloppyWrite
        /\ Program(FALSE).channel = DMA_CHAN_FLOPPY /\ Program(TRUE).channel = DMA_CHAN_FLOPPY
  BY SMT DEF Program, FloppyRead, FloppyWrite
<1>3. kmain[8] = Program(FALSE) /\ kmain[11] = Program(TRUE) /\ kmain[9] = Command(FALSE) /\ kmain[12] = Command(TRUE)
  BY KmainIs, Zenon
<1>4. /\ kmain[1].text = serial_puts(LoadMsg) /\ kmain[3].text = serial_puts(LogMsg)
      /\ kmain[6].text = serial_puts(LogMsg)
  BY KmainIs, SMT DEF Prints
<1>5. Command(FALSE).is_write = FALSE /\ Command(TRUE).is_write = TRUE
  BY DEF Command
<1> QED BY <1>1, <1>2, <1>3, <1>4, <1>5, Zenon

LEMMA InitsTyped ==
    ASSUME Typed
    PROVE  /\ SerialInit \in Seq(Bytes \X SerialPorts) /\ PicInit \in Seq(Bytes \X PicPorts)
           /\ FloppyRead \in Seq(LocalWrites(DMA_CHAN_FLOPPY)) /\ FloppyWrite \in Seq(LocalWrites(DMA_CHAN_FLOPPY))
           /\ Len(PicInit) = 10 /\ Len(FloppyRead) = 12 /\ Len(FloppyWrite) = 12
<1>1. work.intr_mode \in BOOLEAN
  BY KmainIs, Zenon
<1>2. SerialInit \in Seq(Bytes \X SerialPorts)
  BY <1>1, CallsTyped, Zenon DEF SerialInit
<1>3. PicInit \in Seq(Bytes \X PicPorts)
  BY CallsTyped DEF PicInit
<1>4. FloppyRead \in Seq(LocalWrites(DMA_CHAN_FLOPPY)) /\ FloppyWrite \in Seq(LocalWrites(DMA_CHAN_FLOPPY))
  BY CallsTyped DEF FloppyRead, FloppyWrite
<1>5. Len(PicInit) = 10
  BY PicWrites DEF PicInit
<1>6. Len(FloppyRead) = 12 /\ Len(FloppyWrite) = 12
  BY SMT DEF FloppyRead, FloppyWrite, _fdc_init_dma, dma_mask_channel, dma_reset_flipflop, dma_set_address,
       dma_set_count, dma_set_external_pagereg, dma_setup_write, dma_setup_read, dma_set_mode, dma_unmask_all,
       TwoBytes, Channels, DMA_CHAN_FLOPPY
<1> QED BY <1>2, <1>3, <1>4, <1>5, <1>6

LEMMA RestTail ==
    ASSUME NEW S, NEW T, NEW ws \in Seq(S), NEW rest \in Seq(T), RestIs(rest, ws), rest # << >>
    PROVE  /\ Head(rest) = ws[Len(ws) - Len(rest) + 1] /\ Tail(rest) \in Seq(T) /\ Len(Tail(rest)) = Len(rest) - 1
           /\ Len(rest) \in 1 .. Len(ws) /\ RestIs(Tail(rest), ws)
<1>1. Len(rest) \in 1 .. Len(ws) /\ Tail(rest) \in Seq(T) /\ Len(Tail(rest)) = Len(rest) - 1
  BY SMT DEF RestIs
<1>2. Head(rest) = ws[Len(ws) - Len(rest) + 1]
  BY <1>1, SMT DEF RestIs
<1>3. RestIs(Tail(rest), ws)
  BY <1>1, SMT DEF RestIs
<1> QED BY <1>1, <1>2, <1>3

LEMMA LocalTyped ==
    ASSUME NEW ch, NEW s \in Seq(LocalWrites(ch))
    PROVE  s \in Seq(Bytes \X Ports) /\ \A i \in 1 .. Len(s) : Local(ch, s[i])
<1>1. LocalWrites(ch) \subseteq Bytes \X Ports
  BY DEF LocalWrites, Ports
<1>2. \A i \in 1 .. Len(s) : s[i] \in LocalWrites(ch)
  BY SMT
<1>3. s \in Seq(Bytes \X Ports)
  BY <1>1, SMT
<1>4. \A w \in LocalWrites(ch) : Local(ch, w)
  BY Zenon DEF LocalWrites
<1> QED BY <1>2, <1>3, <1>4, Zenon

-----------------------------------------------------------------------------
\* The interrupt controllers.

LEMMA MinIn ==
    ASSUME NEW S \in SUBSET Lines, S # {}
    PROVE  Min(S) \in S
<1>1. \E x \in S : \A y \in S : x <= y
  <2>1. PICK k \in S : TRUE
    OBVIOUS
  <2>2. S \subseteq 0 .. 7
    BY DEF Lines
  <2>3. CASE 0 \in S
    BY <2>2, <2>3, SMT
  <2>4. CASE 0 \notin S /\ 1 \in S
    BY <2>2, <2>4, SMT
  <2>5. CASE 0 \notin S /\ 1 \notin S /\ 2 \in S
    BY <2>2, <2>5, SMT
  <2>6. CASE 0 \notin S /\ 1 \notin S /\ 2 \notin S /\ 3 \in S
    BY <2>2, <2>6, SMT
  <2>7. CASE \A j \in 0 .. 3 : j \notin S
    <3>1. S \subseteq 4 .. 7
      BY <2>2, <2>7, SMT
    <3>2. CASE 4 \in S
      BY <3>1, <3>2, SMT
    <3>3. CASE 4 \notin S /\ 5 \in S
      BY <3>1, <3>3, SMT
    <3>4. CASE 4 \notin S /\ 5 \notin S /\ 6 \in S
      BY <3>1, <3>4, SMT
    <3>5. CASE 4 \notin S /\ 5 \notin S /\ 6 \notin S
      BY <2>1, <3>1, <3>5, SMT
    <3> QED BY <3>2, <3>3, <3>4, <3>5
  <2> QED BY <2>3, <2>4, <2>5, <2>6, <2>7, SMT
<1> QED BY <1>1, Zenon DEF Min

LEMMA BitsOf == Bits(4) = {2} /\ 4 \in Bits(17) /\ 4 \notin Bits(32)
<1>1. 2 \in Bits(4) /\ 4 \in Bits(17) /\ 4 \notin Bits(32)
  BY SMT DEF Bits, Lines, Bit
<1>2. ASSUME NEW k \in Bits(4)
      PROVE  k = 2
  <2>1. k \in 0 .. 7 /\ (4 \div Bit(k)) % 2 = 1
    BY Zenon DEF Bits, Lines
  <2>2. k = 0 \/ k = 1 \/ k = 2 \/ k = 3 \/ k = 4 \/ k = 5 \/ k = 6 \/ k = 7
    BY <2>1, SMT
  <2> QED BY <2>1, <2>2, SMT DEF Bit
<1> QED BY <1>1, <1>2, Zenon

LEMMA PicChipSetIs ==
    ASSUME NEW c, NEW base, NEW cascade
    PROVE  /\ PicChipSet(c, -1, base, cascade) <=> c.word = 0
           /\ PicChipSet(c, 0, base, cascade) <=> c.word = 0
           /\ PicChipSet(c, 1, base, cascade) <=> c.word = 2
           /\ PicChipSet(c, 2, base, cascade) <=> c.word = 2
           /\ PicChipSet(c, 3, base, cascade) <=> c.word = 3 /\ c.base = base
           /\ PicChipSet(c, 4, base, cascade) <=> c.word = 3 /\ c.base = base
           /\ PicChipSet(c, 5, base, cascade) <=> c.word = 4 /\ c.base = base /\ c.cascade = cascade
           /\ PicChipSet(c, 6, base, cascade) <=> c.word = 4 /\ c.base = base /\ c.cascade = cascade
           /\ PicChipSet(c, 7, base, cascade) <=> c.word = 0 /\ c.base = base /\ c.cascade = cascade
           /\ PicChipSet(c, 8, base, cascade) <=> c.word = 0 /\ c.base = base /\ c.cascade = cascade
           /\ PicChipSet(c, 9, base, cascade) <=> c.word = 0 /\ c.base = base /\ c.cascade = cascade
           /\ PicChipSet(c, 10, base, cascade) <=> c.word = 0 /\ c.base = base /\ c.cascade = cascade
<1>1. /\ PicChipSet(c, -1, base, cascade) <=> c.word = 0
      /\ PicChipSet(c, 0, base, cascade) <=> c.word = 0
      /\ PicChipSet(c, 1, base, cascade) <=> c.word = 2
      /\ PicChipSet(c, 2, base, cascade) <=> c.word = 2
  BY SMT DEF PicChipSet
<1>2. /\ PicChipSet(c, 3, base, cascade) <=> c.word = 3 /\ c.base = base
      /\ PicChipSet(c, 4, base, cascade) <=> c.word = 3 /\ c.base = base
  BY SMT DEF PicChipSet
<1>3. /\ PicChipSet(c, 5, base, cascade) <=> c.word = 4 /\ c.base = base /\ c.cascade = cascade
      /\ PicChipSet(c, 6, base, cascade) <=> c.word = 4 /\ c.base = base /\ c.cascade = cascade
      /\ PicChipSet(c, 7, base, cascade) <=> c.word = 0 /\ c.base = base /\ c.cascade = cascade
  BY SMT DEF PicChipSet
<1>4. /\ PicChipSet(c, 8, base, cascade) <=> c.word = 0 /\ c.base = base /\ c.cascade = cascade
      /\ PicChipSet(c, 9, base, cascade) <=> c.word = 0 /\ c.base = base /\ c.cascade = cascade
      /\ PicChipSet(c, 10, base, cascade) <=> c.word = 0 /\ c.base = base /\ c.cascade = cascade
  BY SMT DEF PicChipSet
<1> QED BY <1>1, <1>2, <1>3, <1>4, Zenon

LEMMA PicsSetDone ==
    ASSUME NEW p
    PROVE  PicsSet(p, 10) <=> /\ p.master.word = 0 /\ p.master.base = 32 /\ p.master.cascade = 4
                              /\ p.slave.word = 0 /\ p.slave.base = 40 /\ p.slave.cascade = 2
<1>1. 10 - 1 = 9
  OBVIOUS
<1>2. PicChipSet(p.master, 10, 32, 4) <=> p.master.word = 0 /\ p.master.base = 32 /\ p.master.cascade = 4
  BY SMT DEF PicChipSet
<1>3. PicChipSet(p.slave, 9, 40, 2) <=> p.slave.word = 0 /\ p.slave.base = 40 /\ p.slave.cascade = 2
  BY SMT DEF PicChipSet
<1>4. PicsSet(p, 10) <=> PicChipSet(p.master, 10, 32, 4) /\ PicChipSet(p.slave, 9, 40, 2)
  BY <1>1 DEF PicsSet
<1> QED BY <1>2, <1>3, <1>4, Zenon

LEMMA PicFields ==
    ASSUME NEW c \in PicChips
    PROVE  DOMAIN c = {"word", "base", "cascade", "auto", "imr", "irr", "isr"}
BY DEF PicChips

\* An interrupt served: it is no longer requested.
LEMMA ServedIs ==
    ASSUME NEW c \in PicChips, NEW k \in Lines
    PROVE  LET e == Served(c, k) IN
           /\ e \in PicChips /\ e.irr = c.irr \ {k}
           /\ e.word = c.word /\ e.base = c.base /\ e.cascade = c.cascade
<1> DEFINE e == Served(c, k)
           irr == c.irr \ {k}
           isr == IF c.auto THEN c.isr ELSE c.isr \cup {k}
<1>1. e = [c EXCEPT !.irr = irr, !.isr = isr]
  BY PicFields, Zenon DEF Served
<1>2. irr \in SUBSET Lines /\ isr \in SUBSET Lines
  <2>1. c.irr \in SUBSET Lines /\ c.isr \in SUBSET Lines
    BY DEF PicChips
  <2> QED BY <2>1, Zenon
<1> HIDE DEF e, irr, isr
<1>3. e \in PicChips
  BY <1>1, <1>2 DEF PicChips
<1>4. e.irr = irr /\ e.word = c.word /\ e.base = c.base /\ e.cascade = c.cascade
  BY <1>1, PicFields, SMT
<1> QED BY <1>3, <1>4 DEF e, irr

\* A device raises its line.
LEMMA RaisedIs ==
    ASSUME NEW p \in Pics, NEW d \in Devices
    PROVE  LET q == Raised(p, LineOf[d]) IN
           /\ q \in Pics /\ (Requests(p) => Requests(q))
           /\ \A m : PicsSet(p, m) => PicsSet(q, m)
           /\ (d # "floppy" /\ 6 \in q.master.irr => 6 \in p.master.irr)
<1> DEFINE q == Raised(p, LineOf[d])
<1>1. d \in {"timer", "serial", "floppy", "disk"}
  BY DEF Devices, IRQ
<1>2. d = "disk" => q = [p EXCEPT !.slave.irr = @ \cup {6}]
  BY SMT DEF Raised, LineOf
<1>3. d # "disk" => \E k \in {0, 4, 6} : (d = "floppy" \/ k # 6) /\ q = [p EXCEPT !.master.irr = @ \cup {k}]
  <2>1. d = "timer" => q = [p EXCEPT !.master.irr = @ \cup {0}]
    BY SMT DEF Raised, LineOf
  <2>2. d = "serial" => q = [p EXCEPT !.master.irr = @ \cup {4}]
    BY SMT DEF Raised, LineOf
  <2>3. d = "floppy" => q = [p EXCEPT !.master.irr = @ \cup {6}]
    BY SMT DEF Raised, LineOf
  <2> HIDE DEF q
  <2> QED BY <1>1, <2>1, <2>2, <2>3
<1>4. p.master \in PicChips /\ p.slave \in PicChips
  BY DEF Pics
<1> HIDE DEF q
<1>5. CASE d = "disk"
  <2>1. q.master = p.master /\ q.slave = [p.slave EXCEPT !.irr = p.slave.irr \cup {6}] /\ q = [master |-> p.master, slave |-> q.slave]
    BY <1>2, <1>5, SMT DEF Pics
  <2>2. q.slave \in PicChips /\ q.slave.word = p.slave.word /\ q.slave.base = p.slave.base /\ q.slave.cascade = p.slave.cascade
          /\ q.slave.irr = p.slave.irr \cup {6}
    BY <1>4, <2>1, SMT DEF PicChips, Lines
  <2>3. q \in Pics
    BY <1>4, <2>1, <2>2 DEF Pics
  <2>4. Requests(p) => Requests(q)
    BY <2>1, <2>2 DEF Requests
  <2>5. \A m : PicsSet(p, m) => PicsSet(q, m)
    BY <2>1, <2>2, Zenon DEF PicsSet, PicChipSet
  <2> QED BY <2>1, <2>3, <2>4, <2>5 DEF q
<1>6. CASE d # "disk"
  <2>1. PICK k \in {0, 4, 6} : (d = "floppy" \/ k # 6) /\ q = [p EXCEPT !.master.irr = @ \cup {k}]
    BY <1>3, <1>6
  <2>2. q.slave = p.slave /\ q.master = [p.master EXCEPT !.irr = p.master.irr \cup {k}] /\ q = [master |-> q.master, slave |-> p.slave]
    BY <2>1, SMT DEF Pics
  <2>3. q.master \in PicChips /\ q.master.word = p.master.word /\ q.master.base = p.master.base /\ q.master.cascade = p.master.cascade
          /\ q.master.irr = p.master.irr \cup {k}
    BY <1>4, <2>2, SMT DEF PicChips, Lines
  <2>4. q \in Pics
    BY <1>4, <2>2, <2>3 DEF Pics
  <2>5. Requests(p) => Requests(q)
    BY <2>2, <2>3 DEF Requests
  <2>6. \A m : PicsSet(p, m) => PicsSet(q, m)
    BY <2>2, <2>3, Zenon DEF PicsSet, PicChipSet
  <2> QED BY <2>1, <2>3, <2>4, <2>5, <2>6 DEF q
<1> QED BY <1>5, <1>6

\* The processor acknowledges an interrupt of initialised controllers.
LEMMA AcknowledgedIs ==
    ASSUME NEW p \in Pics, Requests(p), PicsSet(p, 10), MasterPasses(p) # {}
    PROVE  LET a == Acknowledged(p) IN
           /\ \E d \in Devices : a.line = LineOf[d] /\ a.vector = IRQ[d]
           /\ a.pic \in Pics /\ Requests(a.pic) /\ PicsSet(a.pic, 10)
           /\ (6 \in a.pic.master.irr => 6 \in p.master.irr)
           /\ (a.vector = 38 => 6 \in p.master.irr /\ 6 \notin a.pic.master.irr)
<1> DEFINE a == Acknowledged(p)
           k == Min(MasterPasses(p))
           s == Min(SlavePasses(p))
           cascaded == k \in Bits(p.master.cascade) /\ p.slave.cascade = k
<1>1. p.master \in PicChips /\ p.slave \in PicChips /\ p.master.irr \subseteq {0, 4, 6} /\ p.slave.irr \subseteq {6}
  BY DEF Pics, Requests
<1>2. /\ p.master.word = 0 /\ p.master.base = 32 /\ p.master.cascade = 4
      /\ p.slave.word = 0 /\ p.slave.base = 40 /\ p.slave.cascade = 2
  BY PicsSetDone, Zenon
<1>3. Bits(p.master.cascade) = {2}
  BY <1>2, BitsOf
<1>4. MasterPasses(p) \subseteq {0, 2, 4, 6} /\ (2 \in MasterPasses(p) => SlavePasses(p) # {})
  BY <1>1, <1>3 DEF MasterPasses, Passed
<1>5. k \in MasterPasses(p) /\ k \in {0, 2, 4, 6} /\ k \in Lines
  <2>1. MasterPasses(p) \subseteq Lines
    BY <1>4, SMT DEF Lines
  <2>2. k \in MasterPasses(p)
    BY <2>1, MinIn, Zenon
  <2> QED BY <1>4, <2>1, <2>2, Zenon
<1>6. cascaded <=> k = 2
  BY <1>2, <1>3
<1>7. k # 2 => k \in p.master.irr
  BY <1>3, <1>5 DEF MasterPasses, Passed
<1>8. CASE k = 2
  <2>1. SlavePasses(p) # {} /\ SlavePasses(p) \subseteq {6}
    BY <1>1, <1>4, <1>5, <1>8 DEF SlavePasses, Passed
  <2>2. s = 6
    <3>1. SlavePasses(p) \subseteq Lines
      BY <2>1, SMT DEF Lines
    <3>2. s \in SlavePasses(p)
      BY <2>1, <3>1, MinIn, Zenon
    <3> QED BY <2>1, <3>2, Zenon
  <2>3. a = [line |-> 8 + s, vector |-> p.slave.base + s,
             pic |-> [master |-> Served(p.master, k), slave |-> Served(p.slave, s)]]
    BY <1>6, <1>8, Zenon DEF Acknowledged
  <2>4. s \in Lines
    BY <2>2, SMT DEF Lines
  <2> HIDE DEF a, k, s, cascaded
  <2>6. a.line = 14 /\ a.vector = 46 /\ a.pic.master = Served(p.master, k) /\ a.pic.slave = Served(p.slave, s)
          /\ a.pic = [master |-> Served(p.master, k), slave |-> Served(p.slave, s)]
    BY <1>2, <2>2, <2>3, SMT
  <2>7. /\ Served(p.master, k) \in PicChips /\ Served(p.slave, s) \in PicChips
        /\ Served(p.master, k).irr = p.master.irr \ {k} /\ Served(p.slave, s).irr = p.slave.irr \ {s}
        /\ Served(p.master, k).word = p.master.word /\ Served(p.slave, s).word = p.slave.word
        /\ Served(p.master, k).base = p.master.base /\ Served(p.slave, s).base = p.slave.base
        /\ Served(p.master, k).cascade = p.master.cascade /\ Served(p.slave, s).cascade = p.slave.cascade
    BY <1>1, <1>5, <2>4, ServedIs, Zenon
  <2>8. a.pic \in Pics
    BY <2>6, <2>7 DEF Pics
  <2>9. Requests(a.pic)
    BY <1>1, <2>6, <2>7 DEF Requests
  <2>10. PicsSet(a.pic, 10)
    <3>1. /\ a.pic.master.word = 0 /\ a.pic.master.base = 32 /\ a.pic.master.cascade = 4
          /\ a.pic.slave.word = 0 /\ a.pic.slave.base = 40 /\ a.pic.slave.cascade = 2
      BY <1>2, <2>6, <2>7
    <3> QED BY <3>1, PicsSetDone, Zenon
  <2>11. "disk" \in Devices /\ LineOf["disk"] = 14 /\ IRQ["disk"] = 46
    BY SMT DEF Devices, LineOf, IRQ
  <2>12. 6 \in a.pic.master.irr => 6 \in p.master.irr
    BY <2>6, <2>7
  <2>13. a.vector # 38
    BY <2>6, SMT
  <2>14. \E d \in Devices : a.line = LineOf[d] /\ a.vector = IRQ[d]
    BY <2>6, <2>11
  <2> QED BY <2>8, <2>9, <2>10, <2>12, <2>13, <2>14, Zenon DEF a
<1>9. CASE k # 2
  <2>1. a = [line |-> k, vector |-> p.master.base + k, pic |-> [p EXCEPT !.master = Served(p.master, k)]]
    BY <1>6, <1>9, Zenon DEF Acknowledged
  <2> HIDE DEF a, k, s, cascaded
  <2>4. a.line = k /\ a.vector = 32 + k /\ a.pic.master = Served(p.master, k) /\ a.pic.slave = p.slave
          /\ a.pic = [master |-> Served(p.master, k), slave |-> p.slave]
    BY <1>2, <2>1, SMT DEF Pics
  <2>5. /\ Served(p.master, k) \in PicChips /\ Served(p.master, k).irr = p.master.irr \ {k}
        /\ Served(p.master, k).word = p.master.word /\ Served(p.master, k).base = p.master.base
        /\ Served(p.master, k).cascade = p.master.cascade
    BY <1>1, <1>5, ServedIs, Zenon
  <2>6. a.pic \in Pics
    BY <1>1, <2>4, <2>5 DEF Pics
  <2>7. Requests(a.pic)
    BY <1>1, <2>4, <2>5 DEF Requests
  <2>8. PicsSet(a.pic, 10)
    <3>1. /\ a.pic.master.word = 0 /\ a.pic.master.base = 32 /\ a.pic.master.cascade = 4
          /\ a.pic.slave.word = 0 /\ a.pic.slave.base = 40 /\ a.pic.slave.cascade = 2
      BY <1>2, <2>4, <2>5
    <3> QED BY <3>1, PicsSetDone, Zenon
  <2>9. k \in {0, 4, 6}
    BY <1>5, <1>9
  <2>10. \E d \in Devices : a.line = LineOf[d] /\ a.vector = IRQ[d]
    <3>1. "timer" \in Devices /\ LineOf["timer"] = 0 /\ IRQ["timer"] = 32
      BY SMT DEF Devices, LineOf, IRQ
    <3>2. "serial" \in Devices /\ LineOf["serial"] = 4 /\ IRQ["serial"] = 36
      BY SMT DEF Devices, LineOf, IRQ
    <3>3. "floppy" \in Devices /\ LineOf["floppy"] = 6 /\ IRQ["floppy"] = 38
      BY SMT DEF Devices, LineOf, IRQ
    <3> QED BY <2>4, <2>9, <3>1, <3>2, <3>3, SMT
  <2>11. 6 \in a.pic.master.irr => 6 \in p.master.irr
    BY <2>4, <2>5
  <2>12. a.vector = 38 => 6 \in p.master.irr /\ 6 \notin a.pic.master.irr
    <3>1. a.vector = 38 => k = 6
      BY <2>4, <2>9, SMT
    <3> QED BY <1>7, <1>9, <2>4, <2>5, <3>1
  <2> QED BY <2>6, <2>7, <2>8, <2>10, <2>11, <2>12, Zenon DEF a
<1> QED BY <1>8, <1>9

\* The end of an interrupt: nothing but the interrupts in service change.
LEMMA EoiIs ==
    ASSUME NEW p \in Pics, NEW port \in {MASTER_PIC_COMMAND_PORT, SLAVE_PIC_COMMAND_PORT}
    PROVE  LET q == PicOut(p, PIC_OCW2_EOI, port) IN
           /\ q.master.irr = p.master.irr /\ q.slave.irr = p.slave.irr
           /\ \A m : PicsSet(p, m) => PicsSet(q, m)
<1> DEFINE q == PicOut(p, PIC_OCW2_EOI, port)
           cm == CommandByte(p.master, PIC_OCW2_EOI)
           cs == CommandByte(p.slave, PIC_OCW2_EOI)
<1>1. PIC_OCW2_EOI = 32 /\ 4 \notin Bits(PIC_OCW2_EOI)
  BY BitsOf DEF PIC_OCW2_EOI
<1>2. ASSUME NEW c \in PicChips
      PROVE  LET e == CommandByte(c, PIC_OCW2_EOI) IN
             e.word = c.word /\ e.base = c.base /\ e.cascade = c.cascade /\ e.irr = c.irr
  <2> DEFINE served == c.isr \ {Min(c.isr)}
             e == CommandByte(c, PIC_OCW2_EOI)
  <2>1. e \in {[c EXCEPT !.isr = served], c}
    BY <1>1, Zenon DEF CommandByte
  <2> HIDE DEF served, e
  <2>2. e.word = c.word /\ e.base = c.base /\ e.cascade = c.cascade /\ e.irr = c.irr
    BY <2>1, SMT DEF PicChips
  <2> QED BY <2>2 DEF e
<1>3. p.master \in PicChips /\ p.slave \in PicChips
  BY DEF Pics
<1>4. \/ q = [p EXCEPT !.master = cm]
      \/ q = [p EXCEPT !.slave = cs]
  BY SMT DEF PicOut, MASTER_PIC_COMMAND_PORT, MASTER_PIC_DATA_PORT, SLAVE_PIC_COMMAND_PORT, SLAVE_PIC_DATA_PORT
<1> HIDE DEF q, cm, cs
<1>5. (q.master = cm /\ q.slave = p.slave) \/ (q.master = p.master /\ q.slave = cs)
  BY <1>4, SMT DEF Pics
<1>6. /\ cm.word = p.master.word /\ cm.base = p.master.base /\ cm.cascade = p.master.cascade /\ cm.irr = p.master.irr
      /\ cs.word = p.slave.word /\ cs.base = p.slave.base /\ cs.cascade = p.slave.cascade /\ cs.irr = p.slave.irr
  BY <1>2, <1>3 DEF cm, cs
<1>7. q.master.irr = p.master.irr /\ q.slave.irr = p.slave.irr
  BY <1>5, <1>6
<1>8. /\ q.master.word = p.master.word /\ q.master.base = p.master.base /\ q.master.cascade = p.master.cascade
      /\ q.slave.word = p.slave.word /\ q.slave.base = p.slave.base /\ q.slave.cascade = p.slave.cascade
  BY <1>5, <1>6
<1>9. \A m : PicsSet(p, m) => PicsSet(q, m)
  BY <1>8, Zenon DEF PicsSet, PicChipSet
<1> QED BY <1>7, <1>9 DEF q

\* pic_init takes the chips from word to word.
LEMMA MasterInit ==
    ASSUME NEW p \in Pics, NEW value \in Bytes
    PROVE  /\ PicOut(p, value, 32) = [p EXCEPT !.master = CommandByte(p.master, value)]
           /\ PicOut(p, value, 33) = [p EXCEPT !.master = DataByte(p.master, value)]
           /\ PicOut(p, value, 160) = [p EXCEPT !.slave = CommandByte(p.slave, value)]
           /\ PicOut(p, value, 161) = [p EXCEPT !.slave = DataByte(p.slave, value)]
BY SMT DEF PicOut, MASTER_PIC_COMMAND_PORT, MASTER_PIC_DATA_PORT, SLAVE_PIC_COMMAND_PORT, SLAVE_PIC_DATA_PORT

\* One chip: the words it is sent, with how many it has been sent before.
LEMMA ChipInit ==
    ASSUME NEW c \in PicChips, NEW base \in {32, 40}, NEW cascade \in Bytes, NEW mask \in Bytes
    PROVE  /\ \A m \in {0, -1} : PicChipSet(c, m, base, cascade) =>
                  PicChipSet(CommandByte(c, 17), 1, base, cascade) /\ CommandByte(c, 17).irr = {}
           /\ PicChipSet(c, 2, base, cascade) =>
                  PicChipSet(DataByte(c, base), 3, base, cascade) /\ DataByte(c, base).irr = c.irr
           /\ PicChipSet(c, 4, base, cascade) =>
                  PicChipSet(DataByte(c, cascade), 5, base, cascade) /\ DataByte(c, cascade).irr = c.irr
           /\ PicChipSet(c, 6, base, cascade) =>
                  PicChipSet(DataByte(c, 1), 7, base, cascade) /\ DataByte(c, 1).irr = c.irr
           /\ PicChipSet(c, 8, base, cascade) =>
                  PicChipSet(DataByte(c, mask), 9, base, cascade) /\ DataByte(c, mask).irr = c.irr
<1>1. ASSUME NEW m \in {0, -1}, PicChipSet(c, m, base, cascade)
      PROVE  PicChipSet(CommandByte(c, 17), 1, base, cascade) /\ CommandByte(c, 17).irr = {}
  <2>1. CommandByte(c, 17) = [c EXCEPT !.word = 2, !.imr = {}, !.irr = {}, !.isr = {}, !.auto = FALSE]
    BY BitsOf, Zenon DEF CommandByte
  <2>2. CommandByte(c, 17).word = 2 /\ CommandByte(c, 17).irr = {}
    BY <2>1, PicFields, ZenonT(60)
  <2> QED BY <2>2, PicChipSetIs, Zenon
<1>2. ASSUME PicChipSet(c, 2, base, cascade)
      PROVE  PicChipSet(DataByte(c, base), 3, base, cascade) /\ DataByte(c, base).irr = c.irr
  <2>1. c.word = 2 /\ 8 * (base \div 8) = base
    <3>1. c.word = 2
      BY <1>2, PicChipSetIs, Zenon
    <3> QED BY <3>1, SMT
  <2>2. DataByte(c, base) = [c EXCEPT !.word = 3, !.base = 8 * (base \div 8)]
    <3>1. c.word = 2 /\ c.word # 0 /\ c.word # 3 /\ c.word # 4
      BY <2>1, SMT
    <3> QED BY <3>1, Zenon DEF DataByte
  <2>3. DataByte(c, base).word = 3 /\ DataByte(c, base).irr = c.irr /\ DataByte(c, base).base = base
    BY <2>1, <2>2, PicFields
  <2> QED BY <2>3, PicChipSetIs, Zenon
<1>3. ASSUME PicChipSet(c, 4, base, cascade)
      PROVE  PicChipSet(DataByte(c, cascade), 5, base, cascade) /\ DataByte(c, cascade).irr = c.irr
  <2>1. c.word = 3 /\ c.base = base
    BY <1>3, PicChipSetIs, Zenon
  <2>2. DataByte(c, cascade) = [c EXCEPT !.word = 4, !.cascade = cascade]
    BY <2>1, SMT DEF DataByte
  <2>3. DataByte(c, cascade).word = 4 /\ DataByte(c, cascade).irr = c.irr /\ DataByte(c, cascade).base = base
          /\ DataByte(c, cascade).cascade = cascade
    BY <2>1, <2>2, PicFields
  <2> QED BY <2>3, PicChipSetIs, Zenon
<1>4. ASSUME PicChipSet(c, 6, base, cascade)
      PROVE  PicChipSet(DataByte(c, 1), 7, base, cascade) /\ DataByte(c, 1).irr = c.irr
  <2>1. c.word = 4 /\ c.base = base /\ c.cascade = cascade
    BY <1>4, PicChipSetIs, Zenon
  <2> DEFINE auto == 1 \in Bits(1)
  <2>2. DataByte(c, 1) = [c EXCEPT !.word = 0, !.auto = auto]
    BY <2>1, SMT DEF DataByte
  <2> HIDE DEF auto
  <2>3. DataByte(c, 1).word = 0 /\ DataByte(c, 1).irr = c.irr /\ DataByte(c, 1).base = base
          /\ DataByte(c, 1).cascade = cascade
    BY <2>1, <2>2, PicFields
  <2> QED BY <2>3, PicChipSetIs, Zenon
<1>5. ASSUME PicChipSet(c, 8, base, cascade)
      PROVE  PicChipSet(DataByte(c, mask), 9, base, cascade) /\ DataByte(c, mask).irr = c.irr
  <2>1. c.word = 0 /\ c.base = base /\ c.cascade = cascade
    BY <1>5, PicChipSetIs, Zenon
  <2> DEFINE imr == Bits(mask)
  <2>2. DataByte(c, mask) = [c EXCEPT !.imr = imr]
    BY <2>1, SMT DEF DataByte
  <2> HIDE DEF imr
  <2>3. DataByte(c, mask).word = 0 /\ DataByte(c, mask).irr = c.irr /\ DataByte(c, mask).base = base
          /\ DataByte(c, mask).cascade = cascade
    BY <2>1, <2>2, PicFields
  <2> QED BY <2>3, PicChipSetIs, Zenon
<1> QED BY <1>1, <1>2, <1>3, <1>4, <1>5, Zenon

\* One write of pic_init.
LEMMA PicInitStep ==
    ASSUME NEW p \in Pics, NEW m \in 0 .. 9, PicsSet(p, m), Requests(p)
    PROVE  LET w == pic_init(32, 40)[m + 1]
               q == PicOut(p, w[1], w[2])
           IN  q \in Pics /\ PicsSet(q, m + 1) /\ Requests(q)
<1>1. p.master \in PicChips /\ p.slave \in PicChips
  BY DEF Pics
<1> DEFINE w == pic_init(32, 40)[m + 1]
           q == PicOut(p, w[1], w[2])
           M(c, j) == PicChipSet(c, j, 32, 4)
           S(c, j) == PicChipSet(c, j, 40, 2)
<1>2. 17 \in Bytes /\ 32 \in Bytes /\ 40 \in Bytes /\ 4 \in Bytes /\ 2 \in Bytes /\ 1 \in Bytes /\ 0 \in Bytes
  BY SMT DEF Bytes
<1>3. w \in Bytes \X PicPorts
  <2>1. pic_init(32, 40) \in Seq(Bytes \X PicPorts) /\ Len(pic_init(32, 40)) = 10
    BY CallsTyped, PicWrites
  <2> QED BY <2>1, SMT
<1>4. q \in Pics
  BY <1>3, PicOutTyped DEF Pics
<1>5. ASSUME NEW c \in PicChips, q = [p EXCEPT !.master = c]
      PROVE  q.master = c /\ q.slave = p.slave
  BY <1>5, SMT DEF Pics
<1>6. ASSUME NEW c \in PicChips, q = [p EXCEPT !.slave = c]
      PROVE  q.slave = c /\ q.master = p.master
  BY <1>6, SMT DEF Pics
<1>7. /\ M(p.master, 0) => M(CommandByte(p.master, 17), 1) /\ CommandByte(p.master, 17).irr = {}
      /\ M(p.master, 2) => M(DataByte(p.master, 32), 3) /\ DataByte(p.master, 32).irr = p.master.irr
      /\ M(p.master, 4) => M(DataByte(p.master, 4), 5) /\ DataByte(p.master, 4).irr = p.master.irr
      /\ M(p.master, 6) => M(DataByte(p.master, 1), 7) /\ DataByte(p.master, 1).irr = p.master.irr
      /\ M(p.master, 8) => M(DataByte(p.master, 0), 9) /\ DataByte(p.master, 0).irr = p.master.irr
  BY <1>1, <1>2, ChipInit, SMT
<1>8. /\ S(p.slave, 0) => S(CommandByte(p.slave, 17), 1) /\ CommandByte(p.slave, 17).irr = {}
      /\ S(p.slave, 2) => S(DataByte(p.slave, 40), 3) /\ DataByte(p.slave, 40).irr = p.slave.irr
      /\ S(p.slave, 4) => S(DataByte(p.slave, 2), 5) /\ DataByte(p.slave, 2).irr = p.slave.irr
      /\ S(p.slave, 6) => S(DataByte(p.slave, 1), 7) /\ DataByte(p.slave, 1).irr = p.slave.irr
      /\ S(p.slave, 8) => S(DataByte(p.slave, 0), 9) /\ DataByte(p.slave, 0).irr = p.slave.irr
  BY <1>1, <1>2, ChipInit, SMT
<1>9. M(p.master, m) /\ S(p.slave, m - 1) /\ p.master.irr \subseteq {0, 4, 6} /\ p.slave.irr \subseteq {6}
  BY DEF PicsSet, Requests
<1>10. m = 0 \/ m = 1 \/ m = 2 \/ m = 3 \/ m = 4 \/ m = 5 \/ m = 6 \/ m = 7 \/ m = 8 \/ m = 9
  BY SMT
<1>11. /\ \A v \in Bytes : CommandByte(p.master, v) \in PicChips /\ DataByte(p.master, v) \in PicChips
       /\ \A v \in Bytes : CommandByte(p.slave, v) \in PicChips /\ DataByte(p.slave, v) \in PicChips
  BY <1>1, CommandByteTyped, DataByteTyped, Zenon
<1>12. /\ M(p.master, 1) => M(p.master, 2)
       /\ M(p.master, 3) => M(p.master, 4)
       /\ M(p.master, 5) => M(p.master, 6)
       /\ M(p.master, 7) => M(p.master, 8)
       /\ M(p.master, 9) => M(p.master, 10)
  BY PicChipSetIs, SMT
<1>13. /\ S(p.slave, -1) => S(p.slave, 0)
       /\ S(p.slave, 1) => S(p.slave, 2)
       /\ S(p.slave, 3) => S(p.slave, 4)
       /\ S(p.slave, 5) => S(p.slave, 6)
       /\ S(p.slave, 7) => S(p.slave, 8)
  BY PicChipSetIs, SMT
<1>14. /\ 0 - 1 = -1 /\ 1 - 1 = 0 /\ 2 - 1 = 1 /\ 3 - 1 = 2 /\ 4 - 1 = 3 /\ 5 - 1 = 4 /\ 6 - 1 = 5
       /\ 7 - 1 = 6 /\ 8 - 1 = 7 /\ 9 - 1 = 8 /\ 10 - 1 = 9
  BY SMT
<1>15. PicsSet(q, m + 1) <=> M(q.master, m + 1) /\ S(q.slave, m)
  BY SMT DEF PicsSet
<1> SUFFICES M(q.master, m + 1) /\ S(q.slave, m) /\ q.master.irr \subseteq {0, 4, 6} /\ q.slave.irr \subseteq {6}
  BY <1>4, <1>15, SMT DEF Requests
<1>16. CASE m = 0
  <2>1. w[1] = 17 /\ w[2] = 32
    BY <1>16, PicWrites, SMT
  <2>2. q = [p EXCEPT !.master = CommandByte(p.master, 17)]
    BY <1>2, <2>1, MasterInit, SMT
  <2> DEFINE c == CommandByte(p.master, 17)
  <2>3. c \in PicChips
    BY <1>2, <1>11, SMT
  <2>4. q.master = c /\ q.slave = p.slave
    BY <2>2, <2>3, <1>5, Zenon
  <2> HIDE DEF M, S, q, w
  <2>5. M(c, 1) /\ S(p.slave, 0) /\ c.irr \subseteq p.master.irr
    BY <1>7, <1>8, <1>9, <1>12, <1>13, <1>14, <1>16
  <2> HIDE DEF c
  <2>6. q.master.irr \subseteq {0, 4, 6} /\ q.slave.irr \subseteq {6}
    BY <1>9, <2>4, <2>5
  <2> QED BY <1>16, <2>4, <2>5, <2>6
<1>17. CASE m = 1
  <2>1. w[1] = 17 /\ w[2] = 160
    BY <1>17, PicWrites, SMT
  <2>2. q = [p EXCEPT !.slave = CommandByte(p.slave, 17)]
    BY <1>2, <2>1, MasterInit, SMT
  <2> DEFINE c == CommandByte(p.slave, 17)
  <2>3. c \in PicChips
    BY <1>2, <1>11, SMT
  <2>4. q.slave = c /\ q.master = p.master
    BY <2>2, <2>3, <1>6, Zenon
  <2> HIDE DEF M, S, q, w
  <2>5. S(c, 1) /\ M(p.master, 2) /\ c.irr \subseteq p.slave.irr
    BY <1>7, <1>8, <1>9, <1>12, <1>13, <1>14, <1>17
  <2> HIDE DEF c
  <2>6. q.master.irr \subseteq {0, 4, 6} /\ q.slave.irr \subseteq {6}
    BY <1>9, <2>4, <2>5
  <2> QED BY <1>17, <2>4, <2>5, <2>6
<1>18. CASE m = 2
  <2>1. w[1] = 32 /\ w[2] = 33
    BY <1>18, PicWrites, SMT
  <2>2. q = [p EXCEPT !.master = DataByte(p.master, 32)]
    BY <1>2, <2>1, MasterInit, SMT
  <2> DEFINE c == DataByte(p.master, 32)
  <2>3. c \in PicChips
    BY <1>2, <1>11, SMT
  <2>4. q.master = c /\ q.slave = p.slave
    BY <2>2, <2>3, <1>5, Zenon
  <2> HIDE DEF M, S, q, w
  <2>5. M(c, 3) /\ S(p.slave, 2) /\ c.irr \subseteq p.master.irr
    BY <1>7, <1>8, <1>9, <1>12, <1>13, <1>14, <1>18
  <2> HIDE DEF c
  <2>6. q.master.irr \subseteq {0, 4, 6} /\ q.slave.irr \subseteq {6}
    BY <1>9, <2>4, <2>5
  <2> QED BY <1>18, <2>4, <2>5, <2>6
<1>19. CASE m = 3
  <2>1. w[1] = 40 /\ w[2] = 161
    BY <1>19, PicWrites, SMT
  <2>2. q = [p EXCEPT !.slave = DataByte(p.slave, 40)]
    BY <1>2, <2>1, MasterInit, SMT
  <2> DEFINE c == DataByte(p.slave, 40)
  <2>3. c \in PicChips
    BY <1>2, <1>11, SMT
  <2>4. q.slave = c /\ q.master = p.master
    BY <2>2, <2>3, <1>6, Zenon
  <2> HIDE DEF M, S, q, w
  <2>5. S(c, 3) /\ M(p.master, 4) /\ c.irr \subseteq p.slave.irr
    BY <1>7, <1>8, <1>9, <1>12, <1>13, <1>14, <1>19
  <2> HIDE DEF c
  <2>6. q.master.irr \subseteq {0, 4, 6} /\ q.slave.irr \subseteq {6}
    BY <1>9, <2>4, <2>5
  <2> QED BY <1>19, <2>4, <2>5, <2>6
<1>20. CASE m = 4
  <2>1. w[1] = 4 /\ w[2] = 33
    BY <1>20, PicWrites, SMT
  <2>2. q = [p EXCEPT !.master = DataByte(p.master, 4)]
    BY <1>2, <2>1, MasterInit, SMT
  <2> DEFINE c == DataByte(p.master, 4)
  <2>3. c \in PicChips
    BY <1>2, <1>11, SMT
  <2>4. q.master = c /\ q.slave = p.slave
    BY <2>2, <2>3, <1>5, Zenon
  <2> HIDE DEF M, S, q, w
  <2>5. M(c, 5) /\ S(p.slave, 4) /\ c.irr \subseteq p.master.irr
    BY <1>7, <1>8, <1>9, <1>12, <1>13, <1>14, <1>20
  <2> HIDE DEF c
  <2>6. q.master.irr \subseteq {0, 4, 6} /\ q.slave.irr \subseteq {6}
    BY <1>9, <2>4, <2>5
  <2> QED BY <1>20, <2>4, <2>5, <2>6
<1>21. CASE m = 5
  <2>1. w[1] = 2 /\ w[2] = 161
    BY <1>21, PicWrites, SMT
  <2>2. q = [p EXCEPT !.slave = DataByte(p.slave, 2)]
    BY <1>2, <2>1, MasterInit, SMT
  <2> DEFINE c == DataByte(p.slave, 2)
  <2>3. c \in PicChips
    BY <1>2, <1>11, SMT
  <2>4. q.slave = c /\ q.master = p.master
    BY <2>2, <2>3, <1>6, Zenon
  <2> HIDE DEF M, S, q, w
  <2>5. S(c, 5) /\ M(p.master, 6) /\ c.irr \subseteq p.slave.irr
    BY <1>7, <1>8, <1>9, <1>12, <1>13, <1>14, <1>21
  <2> HIDE DEF c
  <2>6. q.master.irr \subseteq {0, 4, 6} /\ q.slave.irr \subseteq {6}
    BY <1>9, <2>4, <2>5
  <2> QED BY <1>21, <2>4, <2>5, <2>6
<1>22. CASE m = 6
  <2>1. w[1] = 1 /\ w[2] = 33
    BY <1>22, PicWrites, SMT
  <2>2. q = [p EXCEPT !.master = DataByte(p.master, 1)]
    BY <1>2, <2>1, MasterInit, SMT
  <2> DEFINE c == DataByte(p.master, 1)
  <2>3. c \in PicChips
    BY <1>2, <1>11, SMT
  <2>4. q.master = c /\ q.slave = p.slave
    BY <2>2, <2>3, <1>5, Zenon
  <2> HIDE DEF M, S, q, w
  <2>5. M(c, 7) /\ S(p.slave, 6) /\ c.irr \subseteq p.master.irr
    BY <1>7, <1>8, <1>9, <1>12, <1>13, <1>14, <1>22
  <2> HIDE DEF c
  <2>6. q.master.irr \subseteq {0, 4, 6} /\ q.slave.irr \subseteq {6}
    BY <1>9, <2>4, <2>5
  <2> QED BY <1>22, <2>4, <2>5, <2>6
<1>23. CASE m = 7
  <2>1. w[1] = 1 /\ w[2] = 161
    BY <1>23, PicWrites, SMT
  <2>2. q = [p EXCEPT !.slave = DataByte(p.slave, 1)]
    BY <1>2, <2>1, MasterInit, SMT
  <2> DEFINE c == DataByte(p.slave, 1)
  <2>3. c \in PicChips
    BY <1>2, <1>11, SMT
  <2>4. q.slave = c /\ q.master = p.master
    BY <2>2, <2>3, <1>6, Zenon
  <2> HIDE DEF M, S, q, w
  <2>5. S(c, 7) /\ M(p.master, 8) /\ c.irr \subseteq p.slave.irr
    BY <1>7, <1>8, <1>9, <1>12, <1>13, <1>14, <1>23
  <2> HIDE DEF c
  <2>6. q.master.irr \subseteq {0, 4, 6} /\ q.slave.irr \subseteq {6}
    BY <1>9, <2>4, <2>5
  <2> QED BY <1>23, <2>4, <2>5, <2>6
<1>24. CASE m = 8
  <2>1. w[1] = 0 /\ w[2] = 33
    BY <1>24, PicWrites, SMT
  <2>2. q = [p EXCEPT !.master = DataByte(p.master, 0)]
    BY <1>2, <2>1, MasterInit, SMT
  <2> DEFINE c == DataByte(p.master, 0)
  <2>3. c \in PicChips
    BY <1>2, <1>11, SMT
  <2>4. q.master = c /\ q.slave = p.slave
    BY <2>2, <2>3, <1>5, Zenon
  <2> HIDE DEF M, S, q, w
  <2>5. M(c, 9) /\ S(p.slave, 8) /\ c.irr \subseteq p.master.irr
    BY <1>7, <1>8, <1>9, <1>12, <1>13, <1>14, <1>24
  <2> HIDE DEF c
  <2>6. q.master.irr \subseteq {0, 4, 6} /\ q.slave.irr \subseteq {6}
    BY <1>9, <2>4, <2>5
  <2> QED BY <1>24, <2>4, <2>5, <2>6
<1>25. CASE m = 9
  <2>1. w[1] = 0 /\ w[2] = 161
    BY <1>25, PicWrites, SMT
  <2>2. q = [p EXCEPT !.slave = DataByte(p.slave, 0)]
    BY <1>2, <2>1, MasterInit, SMT
  <2> DEFINE c == DataByte(p.slave, 0)
  <2>3. c \in PicChips
    BY <1>2, <1>11, SMT
  <2>4. q.slave = c /\ q.master = p.master
    BY <2>2, <2>3, <1>6, Zenon
  <2> HIDE DEF M, S, q, w
  <2>5. S(c, 9) /\ M(p.master, 10) /\ c.irr \subseteq p.slave.irr
    BY <1>7, <1>8, <1>9, <1>12, <1>13, <1>14, <1>25
  <2> HIDE DEF c
  <2>6. q.master.irr \subseteq {0, 4, 6} /\ q.slave.irr \subseteq {6}
    BY <1>9, <2>4, <2>5
  <2> QED BY <1>25, <2>4, <2>5, <2>6
<1> QED BY <1>10, <1>16, <1>17, <1>18, <1>19, <1>20, <1>21, <1>22, <1>23, <1>24, <1>25

-----------------------------------------------------------------------------
\* The serial port: one write of serial_init.  The divisor bytes do not go
\* out as characters.
LEMMA SerialInitStep ==
    ASSUME NEW u \in Uarts, NEW intr_mode \in BOOLEAN, NEW m \in 0 .. 8,
           m < Len(serial_init(intr_mode)), LineSet(u, m)
    PROVE  LET w == serial_init(intr_mode)[m + 1]
               q == UartOut(u, w[1], w[2])
           IN  LineSet(q, m + 1) /\ q.thr = u.thr /\ q.shift = u.shift
<1> DEFINE w == serial_init(intr_mode)[m + 1]
           q == UartOut(u, w[1], w[2])
<1> SUFFICES LineSet(q, m + 1) /\ q.thr = u.thr /\ q.shift = u.shift
  OBVIOUS
<1>1. DOMAIN u = {"ier", "fifo", "lcr", "mcr", "dll", "dlm", "thr", "shift"}
  BY DEF Uarts
<1>2. m = 0 \/ m = 1 \/ m = 2 \/ m = 3 \/ m = 4 \/ m = 5 \/ m = 6 \/ m = 7 \/ m = 8
  BY SMT
<1>3. CASE m = 0
  <2>1. w[1] = 0 /\ w[2] = 1017
    BY <1>3, SerialWrites, SMT
  <2>2. q = [u EXCEPT !.ier = 0]
    BY <1>3, <2>1, SMT DEF UartOut, LineSet, LINECTRL_DLAB, SERIAL_XMITBUF, SERIAL_IER, SERIAL_FIFOCTRL,
       SERIAL_LINECTRL, SERIAL_MODEMCTRL, COM1_IO_BASE
  <2> HIDE DEF q, w
  <2>3. /\ q.lcr = u.lcr /\ q.dll = u.dll
        /\ q.dlm = u.dlm /\ q.thr = u.thr /\ q.shift = u.shift
    BY <1>1, <2>2, SMT
  <2> QED BY <1>3, <2>3, SMT DEF LineSet
<1>4. CASE m = 1
  <2>1. w[1] = 64 /\ w[2] = 1018
    BY <1>4, SerialWrites, SMT
  <2>2. q = [u EXCEPT !.fifo = 0]
    BY <1>4, <2>1, SMT DEF UartOut, LineSet, LINECTRL_DLAB, SERIAL_XMITBUF, SERIAL_IER, SERIAL_FIFOCTRL,
       SERIAL_LINECTRL, SERIAL_MODEMCTRL, COM1_IO_BASE
  <2> HIDE DEF q, w
  <2>3. /\ q.lcr = u.lcr /\ q.dll = u.dll
        /\ q.dlm = u.dlm /\ q.thr = u.thr /\ q.shift = u.shift
    BY <1>1, <2>2, SMT
  <2> QED BY <1>4, <2>3, SMT DEF LineSet
<1>5. CASE m = 2
  <2>1. w[1] = 128 /\ w[2] = 1019
    BY <1>5, SerialWrites, SMT
  <2>2. q = [u EXCEPT !.lcr = 128]
    BY <1>5, <2>1, SMT DEF UartOut, LineSet, LINECTRL_DLAB, SERIAL_XMITBUF, SERIAL_IER, SERIAL_FIFOCTRL,
       SERIAL_LINECTRL, SERIAL_MODEMCTRL, COM1_IO_BASE
  <2> HIDE DEF q, w
  <2>3. /\ q.lcr = 128 /\ q.dll = u.dll
        /\ q.dlm = u.dlm /\ q.thr = u.thr /\ q.shift = u.shift
    BY <1>1, <2>2, SMT
  <2> QED BY <1>5, <2>3, SMT DEF LineSet
<1>6. CASE m = 3
  <2>1. w[1] = 12 /\ w[2] = 1016
    BY <1>6, SerialWrites, SMT
  <2>2. q = [u EXCEPT !.dll = 12]
    BY <1>6, <2>1, SMT DEF UartOut, LineSet, LINECTRL_DLAB, SERIAL_XMITBUF, SERIAL_IER, SERIAL_FIFOCTRL,
       SERIAL_LINECTRL, SERIAL_MODEMCTRL, COM1_IO_BASE
  <2> HIDE DEF q, w
  <2>3. /\ q.lcr = u.lcr /\ q.dll = 12
        /\ q.dlm = u.dlm /\ q.thr = u.thr /\ q.shift = u.shift
    BY <1>1, <2>2, SMT
  <2> QED BY <1>6, <2>3, SMT DEF LineSet
<1>7. CASE m = 4
  <2>1. w[1] = 0 /\ w[2] = 1017
    BY <1>7, SerialWrites, SMT
  <2>2. q = [u EXCEPT !.dlm = 0]
    BY <1>7, <2>1, SMT DEF UartOut, LineSet, LINECTRL_DLAB, SERIAL_XMITBUF, SERIAL_IER, SERIAL_FIFOCTRL,
       SERIAL_LINECTRL, SERIAL_MODEMCTRL, COM1_IO_BASE
  <2> HIDE DEF q, w
  <2>3. /\ q.lcr = u.lcr /\ q.dll = u.dll
        /\ q.dlm = 0 /\ q.thr = u.thr /\ q.shift = u.shift
    BY <1>1, <2>2, SMT
  <2> QED BY <1>7, <2>3, SMT DEF LineSet
<1>8. CASE m = 5
  <2>1. w[1] = 0 /\ w[2] = 1019
    BY <1>8, SerialWrites, SMT
  <2>2. q = [u EXCEPT !.lcr = 0]
    BY <1>8, <2>1, SMT DEF UartOut, LineSet, LINECTRL_DLAB, SERIAL_XMITBUF, SERIAL_IER, SERIAL_FIFOCTRL,
       SERIAL_LINECTRL, SERIAL_MODEMCTRL, COM1_IO_BASE
  <2> HIDE DEF q, w
  <2>3. /\ q.lcr = 0 /\ q.dll = u.dll
        /\ q.dlm = u.dlm /\ q.thr = u.thr /\ q.shift = u.shift
    BY <1>1, <2>2, SMT
  <2> QED BY <1>8, <2>3, SMT DEF LineSet
<1>9. CASE m = 6
  <2>1. w[1] = 3 /\ w[2] = 1019
    BY <1>9, SerialWrites, SMT
  <2>2. q = [u EXCEPT !.lcr = 3]
    BY <1>9, <2>1, SMT DEF UartOut, LineSet, LINECTRL_DLAB, SERIAL_XMITBUF, SERIAL_IER, SERIAL_FIFOCTRL,
       SERIAL_LINECTRL, SERIAL_MODEMCTRL, COM1_IO_BASE
  <2> HIDE DEF q, w
  <2>3. /\ q.lcr = 3 /\ q.dll = u.dll
        /\ q.dlm = u.dlm /\ q.thr = u.thr /\ q.shift = u.shift
    BY <1>1, <2>2, SMT
  <2> QED BY <1>9, <2>3, SMT DEF LineSet
<1>10. CASE m = 7
  <2>1. w[1] = 8 /\ w[2] = 1020
    BY <1>10, SerialWrites, SMT
  <2>2. q = [u EXCEPT !.mcr = 8]
    BY <1>10, <2>1, SMT DEF UartOut, LineSet, LINECTRL_DLAB, SERIAL_XMITBUF, SERIAL_IER, SERIAL_FIFOCTRL,
       SERIAL_LINECTRL, SERIAL_MODEMCTRL, COM1_IO_BASE
  <2> HIDE DEF q, w
  <2>3. /\ q.lcr = u.lcr /\ q.dll = u.dll
        /\ q.dlm = u.dlm /\ q.thr = u.thr /\ q.shift = u.shift
    BY <1>1, <2>2, SMT
  <2> QED BY <1>10, <2>3, SMT DEF LineSet
<1>11. CASE m = 8
  <2>1. w[1] = 2 /\ w[2] = 1017
    <3>1. Len(serial_init(intr_mode)) = IF intr_mode THEN 9 ELSE 8
      BY SerialWrites, SMT
    <3>2. intr_mode
      BY <1>11, <3>1, SMT
    <3>3. serial_init(intr_mode)[9] = <<2, 1017>>
      BY <3>2, SerialLast, ZenonT(60)
    <3> QED BY <1>11, <3>3, SMT
  <2>2. q = [u EXCEPT !.ier = 2]
    BY <1>11, <2>1, SMT DEF UartOut, LineSet, LINECTRL_DLAB, SERIAL_XMITBUF, SERIAL_IER, SERIAL_FIFOCTRL,
       SERIAL_LINECTRL, SERIAL_MODEMCTRL, COM1_IO_BASE
  <2> HIDE DEF q, w
  <2>3. /\ q.lcr = u.lcr /\ q.dll = u.dll
        /\ q.dlm = u.dlm /\ q.thr = u.thr /\ q.shift = u.shift
    BY <1>1, <2>2, SMT
  <2> QED BY <1>11, <2>3, SMT DEF LineSet
<1> QED BY <1>2, <1>3, <1>4, <1>5, <1>6, <1>7, <1>8, <1>9, <1>10, <1>11

-----------------------------------------------------------------------------
\* The DMA channel of the floppy: one write of _fdc_init_dma.
LEMMA ChipFields ==
    ASSUME NEW d \in Dmas
    PROVE  LET c == d.chip[0] IN
           /\ c \in DmaChips
           /\ DOMAIN c = {"flipflop", "address", "count", "mode", "mask", "disabled"}
           /\ DOMAIN c.address = 0 .. 3 /\ DOMAIN c.count = 0 .. 3 /\ DOMAIN c.mode = 0 .. 3
           /\ DOMAIN c.address[2] = 1 .. 2 /\ DOMAIN c.count[2] = 1 .. 2
           /\ c.flipflop \in {0, 1}
<1> DEFINE c == d.chip[0]
<1>1. c \in DmaChips
  BY DEF Dmas, Controllers
<1> HIDE DEF c
<1>2. DOMAIN c = {"flipflop", "address", "count", "mode", "mask", "disabled"} /\ c.flipflop \in {0, 1}
  BY <1>1 DEF DmaChips
<1>3. c.address \in [0 .. 3 -> Word16] /\ c.count \in [0 .. 3 -> Word16] /\ c.mode \in [0 .. 3 -> Bytes]
  BY <1>1 DEF DmaChips
<1>4. c.address[2] \in Word16 /\ c.count[2] \in Word16
  BY <1>3, SMT
<1>5. DOMAIN c.address[2] = 1 .. 2 /\ DOMAIN c.count[2] = 1 .. 2
  BY <1>4 DEF Word16
<1> QED BY <1>1, <1>2, <1>3, <1>5 DEF c

LEMMA ChannelStep ==
    ASSUME NEW d \in Dmas, NEW is_write \in BOOLEAN, NEW n \in 1 .. 12,
           ChannelSet(d, n, IF is_write THEN 74 ELSE 70)
    PROVE  LET w == _fdc_init_dma(511, is_write)[13 - n]
               e == DmaOut(d, w[1], w[2])
           IN  ChannelSet(e, n - 1, IF is_write THEN 74 ELSE 70)
<1> DEFINE w == _fdc_init_dma(511, is_write)[13 - n]
           e == DmaOut(d, w[1], w[2])
           mode == IF is_write THEN 74 ELSE 70
           old == d.chip[0]
<1> SUFFICES ChannelSet(e, n - 1, mode)
  OBVIOUS
<1>1. /\ old \in DmaChips
      /\ DOMAIN old = {"flipflop", "address", "count", "mode", "mask", "disabled"}
      /\ DOMAIN old.address = 0 .. 3 /\ DOMAIN old.count = 0 .. 3 /\ DOMAIN old.mode = 0 .. 3
      /\ DOMAIN old.address[2] = 1 .. 2 /\ DOMAIN old.count[2] = 1 .. 2
      /\ old.flipflop \in {0, 1}
  BY ChipFields
<1>2. mode \in {70, 74} /\ mode % 4 = 2
  BY SMT
<1>0. ChannelSet(d, n, mode)
  OBVIOUS
<1>3. n = 12 \/ n = 11 \/ n = 10 \/ n = 9 \/ n = 8 \/ n = 7 \/ n = 6 \/ n = 5 \/ n = 4 \/ n = 3 \/ n = 2 \/ n = 1
  BY SMT
<1>4. ASSUME NEW c, NEW value, NEW reg \in 0 .. 15, w[1] = value, w[2] = reg, c = ChipOut(old, value, reg)
      PROVE  e.chip[0] = c /\ e.page = d.page
  <2>1. e = [d EXCEPT !.chip[0] = c]
    BY <1>4, SMT DEF DmaOut, PagePorts
  <2>2. DOMAIN d = {"chip", "page"} /\ DOMAIN d.chip = {0, 1}
    BY DEF Dmas, Controllers
  <2> HIDE DEF e
  <2> QED BY <2>1, <2>2, SMT
<1>5. /\ w[1] = (IF n = 12 \/ n = 4 THEN 6 ELSE IF n \in {11, 8, 7} THEN 255 ELSE IF n = 9 THEN 16 ELSE IF n = 6 THEN 1
                   ELSE IF n = 3 THEN mode ELSE 0)
      /\ w[2] = (IF n = 12 \/ n = 4 THEN 10 ELSE IF n = 11 \/ n = 8 THEN 12 ELSE IF n = 10 \/ n = 9 THEN 4
                   ELSE IF n = 7 \/ n = 6 THEN 5 ELSE IF n = 5 THEN 129 ELSE IF n = 3 THEN 11 ELSE 14)
  BY FdcWrites, <1>3, SMT
<1> HIDE DEF w
<1>6. CASE n = 12 \/ n = 4
  <2>1. w[1] = 6 /\ w[2] = 10
    BY <1>6, <1>5, SMT
  <2> DEFINE c == ChipOut(old, 6, 10)
  <2>2. e.chip[0] = c /\ e.page = d.page
    BY <1>4, <2>1, SMT
  <2>3. c = [old EXCEPT !.mask = old.mask \cup {2}]
    BY <1>6, <1>1, SMT DEF ChipOut, ChannelSet
  <2> HIDE DEF c, old, e, mode
  <2>4. c.flipflop = old.flipflop /\ c.address = old.address /\ c.count = old.count /\ c.mode = old.mode
    BY <1>1, <2>3, SMT
  <2> QED BY <1>6, <2>2, <2>4, <1>0, SMT DEF ChannelSet, old
<1>7. CASE n = 11 \/ n = 8
  <2>1. w[1] = 255 /\ w[2] = 12
    BY <1>7, <1>5, SMT
  <2> DEFINE c == ChipOut(old, 255, 12)
  <2>2. e.chip[0] = c /\ e.page = d.page
    BY <1>4, <2>1, SMT
  <2>3. c = [old EXCEPT !.flipflop = 0]
    BY <1>7, <1>1, SMT DEF ChipOut, ChannelSet
  <2> HIDE DEF c, old, e, mode
  <2>4. c.flipflop = 0 /\ c.address = old.address /\ c.count = old.count /\ c.mode = old.mode /\ c.mask = old.mask
    BY <1>1, <2>3, SMT
  <2> QED BY <1>7, <2>2, <2>4, <1>0, SMT DEF ChannelSet, old
<1>8. CASE n = 10
  <2>1. w[1] = 0 /\ w[2] = 4
    BY <1>8, <1>5, SMT
  <2> DEFINE c == ChipOut(old, 0, 4)
  <2>2. e.chip[0] = c /\ e.page = d.page
    BY <1>4, <2>1, SMT
  <2>3. c = [old EXCEPT !.address[2][1] = 0, !.flipflop = 1]
    <3>1. old.flipflop = 0
      BY <1>8, <1>0, SMT DEF ChannelSet
    <3>2. c = [old EXCEPT !.address[2][old.flipflop + 1] = 0, !.flipflop = 1 - @]
      BY SMT DEF ChipOut
    <3> HIDE DEF c, old
    <3> QED BY <1>1, <3>1, <3>2, SMT
  <2> HIDE DEF c, old, e, mode
  <2>4. c.address[2][1] = 0 /\ c.flipflop = 1 /\ c.count = old.count /\ c.mode = old.mode /\ c.mask = old.mask
    BY <1>1, <2>3, SMT
  <2> QED BY <1>8, <2>2, <2>4, <1>0, SMT DEF ChannelSet, old
<1>9. CASE n = 9
  <2>1. w[1] = 16 /\ w[2] = 4
    BY <1>9, <1>5, SMT
  <2> DEFINE c == ChipOut(old, 16, 4)
  <2>2. e.chip[0] = c /\ e.page = d.page
    BY <1>4, <2>1, SMT
  <2>3. c = [old EXCEPT !.address[2][2] = 16, !.flipflop = 0]
    <3>1. old.flipflop = 1
      BY <1>9, <1>0, SMT DEF ChannelSet
    <3>2. c = [old EXCEPT !.address[2][old.flipflop + 1] = 16, !.flipflop = 1 - @]
      BY SMT DEF ChipOut
    <3> HIDE DEF c, old
    <3> QED BY <1>1, <3>1, <3>2, SMT
  <2> HIDE DEF c, old, e, mode
  <2>4. c.address[2][2] = 16 /\ c.address[2][1] = old.address[2][1] /\ c.count = old.count /\ c.mode = old.mode /\ c.mask = old.mask
    BY <1>1, <2>3, SMT
  <2> QED BY <1>9, <2>2, <2>4, <1>0, SMT DEF ChannelSet, old
<1>10. CASE n = 7
  <2>1. w[1] = 255 /\ w[2] = 5
    BY <1>10, <1>5, SMT
  <2> DEFINE c == ChipOut(old, 255, 5)
  <2>2. e.chip[0] = c /\ e.page = d.page
    BY <1>4, <2>1, SMT
  <2>3. c = [old EXCEPT !.count[2][1] = 255, !.flipflop = 1]
    <3>1. old.flipflop = 0
      BY <1>10, <1>0, SMT DEF ChannelSet
    <3>2. c = [old EXCEPT !.count[2][old.flipflop + 1] = 255, !.flipflop = 1 - @]
      BY SMT DEF ChipOut
    <3> HIDE DEF c, old
    <3> QED BY <1>1, <3>1, <3>2, SMT
  <2> HIDE DEF c, old, e, mode
  <2>4. c.count[2][1] = 255 /\ c.flipflop = 1 /\ c.address = old.address /\ c.mode = old.mode /\ c.mask = old.mask
    BY <1>1, <2>3, SMT
  <2> QED BY <1>10, <2>2, <2>4, <1>0, SMT DEF ChannelSet, old
<1>11. CASE n = 6
  <2>1. w[1] = 1 /\ w[2] = 5
    BY <1>11, <1>5, SMT
  <2> DEFINE c == ChipOut(old, 1, 5)
  <2>2. e.chip[0] = c /\ e.page = d.page
    BY <1>4, <2>1, SMT
  <2>3. c = [old EXCEPT !.count[2][2] = 1, !.flipflop = 0]
    <3>1. old.flipflop = 1
      BY <1>11, <1>0, SMT DEF ChannelSet
    <3>2. c = [old EXCEPT !.count[2][old.flipflop + 1] = 1, !.flipflop = 1 - @]
      BY SMT DEF ChipOut
    <3> HIDE DEF c, old
    <3> QED BY <1>1, <3>1, <3>2, SMT
  <2> HIDE DEF c, old, e, mode
  <2>4. c.count[2][2] = 1 /\ c.count[2][1] = old.count[2][1] /\ c.address = old.address /\ c.mode = old.mode /\ c.mask = old.mask
    BY <1>1, <2>3, SMT
  <2> QED BY <1>11, <2>2, <2>4, <1>0, SMT DEF ChannelSet, old
<1>12. CASE n = 3
  <2>1. w[1] = mode /\ w[2] = 11
    BY <1>12, <1>5, SMT
  <2> DEFINE c == ChipOut(old, mode, 11)
  <2>2. e.chip[0] = c /\ e.page = d.page
    BY <1>4, <2>1, SMT
  <2>3. c = [old EXCEPT !.mode[2] = mode]
    BY <1>2, <1>12, <1>1, SMT DEF ChipOut, ChannelSet
  <2> HIDE DEF c, old, e, mode
  <2>4. c.mode[2] = mode /\ c.flipflop = old.flipflop /\ c.address = old.address /\ c.count = old.count /\ c.mask = old.mask
    BY <1>1, <2>3, SMT
  <2> QED BY <1>12, <2>2, <2>4, <1>0, SMT DEF ChannelSet, old
<1>13. CASE n = 2 \/ n = 1
  <2>1. w[1] = 0 /\ w[2] = 14
    BY <1>13, <1>5, SMT
  <2> DEFINE c == ChipOut(old, 0, 14)
  <2>2. e.chip[0] = c /\ e.page = d.page
    BY <1>4, <2>1, SMT
  <2>3. c = [old EXCEPT !.mask = {}]
    BY <1>13, <1>1, SMT DEF ChipOut, ChannelSet
  <2> HIDE DEF c, old, e, mode
  <2>4. c.mask = {} /\ c.flipflop = old.flipflop /\ c.address = old.address /\ c.count = old.count /\ c.mode = old.mode
    BY <1>1, <2>3, SMT
  <2> QED BY <1>13, <2>2, <2>4, <1>0, SMT DEF ChannelSet, old
<1>14. CASE n = 5
  <2>1. w[1] = 0 /\ w[2] = 129
    BY <1>14, <1>5, SMT
  <2>2. e = [d EXCEPT !.page[129] = 0]
    BY <2>1, SMT DEF DmaOut, PagePorts
  <2>3. DOMAIN d = {"chip", "page"} /\ DOMAIN d.page = PagePorts /\ 129 \in PagePorts
    BY SMT DEF Dmas, PagePorts
  <2> HIDE DEF e
  <2>4. e.page[129] = 0 /\ e.chip = d.chip
    BY <2>2, <2>3, SMT
  <2> QED BY <1>14, <2>4, <1>0, SMT DEF ChannelSet
<1> QED BY <1>3, <1>6, <1>7, <1>8, <1>9, <1>10, <1>11, <1>12, <1>13, <1>14

-----------------------------------------------------------------------------
(***************************************************************************)
(* The first part of the invariant: the types, where kmain is, and the     *)
(* interrupt controllers.  One lemma for each action.                      *)
(***************************************************************************)
Inv == Typed /\ Walk /\ Flags /\ PicSet

LEMMA InvInit == Init => Inv
<1> SUFFICES ASSUME Init PROVE Inv
  OBVIOUS
<1>1. UartTyped
  BY SMT DEF Init, UartTyped, Uarts, Uart, LINECTRL_8N1, Bytes
<1>2. PicTyped
  BY SMT DEF Init, PicTyped, Pics, PicChips, Chip, Bytes, Lines
<1>3. DmaTyped
  <2>1. work.flipflop \in {0, 1}
    BY StartAssumption, Zenon DEF Init
  <2> DEFINE A == [k \in 0 .. 3 |-> <<0, 0>>]
             Z == [k \in 0 .. 3 |-> 0]
             M == [Z EXCEPT ![0] = 192]
  <2>2. A \in [0 .. 3 -> Word16] /\ Z \in [0 .. 3 -> Bytes] /\ M \in [0 .. 3 -> Bytes]
    BY SMT DEF Word16, Bytes
  <2>3. ASSUME NEW f \in {0, 1}
        PROVE  Idle8237(f) \in DmaChips
    BY <2>2, SMT DEF Idle8237, DmaChips
  <2>4. Cascading \in DmaChips
    <3> DEFINE I == Idle8237(0)
    <3>1. I \in DmaChips /\ I.mode = Z
      BY <2>3, SMT DEF Idle8237
    <3>2. Cascading = [I EXCEPT !.mask = 1 .. 3, !.mode = [I.mode EXCEPT ![0] = 192]]
      BY SMT DEF Cascading, Idle8237
    <3>3. [I.mode EXCEPT ![0] = 192] = M /\ 1 .. 3 \in SUBSET (0 .. 3)
      BY <3>1, SMT
    <3> HIDE DEF A, M, Z, I
    <3>4. Cascading = [I EXCEPT !.mask = 1 .. 3, !.mode = M]
      BY <3>2, <3>3
    <3> QED BY <2>2, <3>1, <3>3, <3>4 DEF DmaChips
  <2>5. dma.chip \in [Controllers -> DmaChips]
    BY <2>1, <2>3, <2>4, SMT DEF Init, Controllers
  <2>6. dma.page \in [PagePorts -> Bytes]
    BY SMT DEF Init, Bytes
  <2>7. dma = [chip |-> dma.chip, page |-> dma.page]
    BY DEF Init
  <2> QED BY <2>5, <2>6, <2>7 DEF DmaTyped, Dmas
<1>4. DevicesTyped
  <2>1. work.raises \in [Devices -> Nat] /\ work.raises["floppy"] = 0
    BY StartAssumption, Zenon DEF Init
  <2> QED BY <2>1, SMT DEF Init, DevicesTyped
<1>5. KernelTyped
  <2>1. step \in 1 .. 14 /\ todo \in Seq(Bytes \X Ports) /\ text \in Seq(Bytes)
    BY SMT DEF Init
  <2> QED BY <2>1, Zenon DEF Init, KernelTyped
<1>6. Walk
  BY SMT DEF Init, Walk, NoDma
<1>7. PicSet
  <2>1. pic.master.word = 0 /\ pic.slave.word = 0 /\ pic.master.irr = {} /\ pic.slave.irr = {} /\ step = 1
    BY SMT DEF Init, Chip
  <2>2. PicsSet(pic, 0)
    <3>1. 0 - 1 = -1
      BY SMT
    <3> QED BY <2>1, <3>1, PicChipSetIs, SMT DEF PicsSet
  <2> QED BY <2>1, <2>2, SMT DEF PicSet, Requests
<1>8. Flags
  <2>1. ~(step >= 6)
    BY SMT DEF Init
  <2> QED BY <2>1, Zenon DEF Flags, Init
<1> QED BY <1>1, <1>2, <1>3, <1>4, <1>5, <1>6, <1>7, <1>8 DEF Inv, Typed, ChipsTyped

\* kmain begins its next step: the controllers are as far as it was.
LEMMA BeginsPic ==
    ASSUME Inv, NEW op, Begins(op), UNCHANGED pic, step = 4 => Len(todo') = 10
    PROVE  PicSet'
<1>1. step \in 1 .. 13 /\ step' = step + 1 /\ todo = << >>
  BY BeginsAt DEF Inv
<1>2. Requests(pic)'
  BY Zenon DEF Inv, PicSet, Requests
<1>3. CASE step < 4
  BY <1>1, <1>2, <1>3, SMT DEF Inv, PicSet
<1>4. CASE step = 4
  <2>1. PicsSet(pic', 0)
    BY <1>4, SMT DEF Inv, PicSet
  <2>2. 10 - Len(todo') = 0
    BY <1>4, SMT
  <2>3. PicsSet(pic', 10 - Len(todo'))
    BY <2>1, <2>2, Zenon
  <2> QED BY <1>1, <1>2, <1>4, <2>3, SMT DEF PicSet
<1>5. CASE step >= 5
  <2>1. 10 - Len(todo) = 10
    BY <1>1
  <2>2. PicsSet(pic', 10)
    BY <1>1, <1>5, <2>1, SMT DEF Inv, PicSet
  <2> QED BY <1>1, <1>2, <1>5, <2>2, SMT DEF PicSet
<1> QED BY <1>1, <1>3, <1>4, <1>5, SMT

LEMMA SameTyped ==
    /\ ChipsTyped /\ UNCHANGED <<uart, pic, dma>> => ChipsTyped'
    /\ DevicesTyped /\ UNCHANGED <<drive, raises, waiting, wire>> => DevicesTyped'
<1>1. ChipsTyped /\ UNCHANGED <<uart, pic, dma>> => ChipsTyped'
  BY DEF ChipsTyped, UartTyped, PicTyped, DmaTyped
<1>2. DevicesTyped /\ UNCHANGED <<drive, raises, waiting, wire>> => DevicesTyped'
  BY DEF DevicesTyped
<1> QED BY <1>1, <1>2

\* kmain goes on, without touching the interrupt flag.
LEMMA BeginsFlags ==
    ASSUME Inv, NEW op, Begins(op), UNCHANGED <<enabled, handler>>, step # 5
    PROVE  Flags'
<1>1. step \in 1 .. 13 /\ step' = step + 1 /\ handler = NULL
  BY BeginsAt DEF Inv
<1>2. step >= 6 <=> step' >= 6
  BY <1>1, SMT
<1> QED BY <1>1, <1>2, Zenon DEF Inv, Flags

LEMMA InvPrintk ==
    ASSUME Inv, printk
    PROVE  Inv'
<1>1. step \in {1, 3, 6} /\ step' = step + 1 /\ handler = NULL /\ todo = << >> /\ text = << >>
  BY BeginsAt, Zenon DEF Inv, printk
<1>2. text' \in Seq(Bytes)
  <2>1. text' = kmain[step].text
    BY Zenon DEF printk
  <2>2. kmain[1].text = serial_puts(LoadMsg) /\ kmain[3].text = serial_puts(LogMsg) /\ kmain[6].text = serial_puts(LogMsg)
    BY CallIs, Zenon DEF Inv
  <2> QED BY <1>1, <2>1, <2>2, MessagesTyped, Zenon
<1>3. ChipsTyped' /\ DevicesTyped'
  BY SameTyped, Zenon DEF Inv, Typed, printk
<1>4. KernelTyped'
  BY <1>1, <1>2, SMT DEF Inv, Typed, KernelTyped, printk
<1>5. Walk'
  <2>1. step' \in {2, 4, 7} /\ todo' = << >>
    BY <1>1, SMT DEF printk
  <2> QED BY <2>1, SMT DEF Walk, Printing, NoDma
<1>6. PicSet'
  BY <1>1, BeginsPic, SMT DEF printk
<1>7. Flags'
  BY <1>1, BeginsFlags, SMT DEF printk
<1> QED BY <1>3, <1>4, <1>5, <1>6, <1>7 DEF Inv, Typed

LEMMA InvCalls ==
    ASSUME Inv, Calls
    PROVE  Inv'
<1>1. step \in {2, 4, 8, 11} /\ step' = step + 1 /\ handler = NULL /\ todo = << >> /\ text = << >>
  BY BeginsAt, Zenon DEF Inv, Calls
<1>2. todo' = kmain[step].writes /\ SerialInit' = SerialInit /\ text' = text
  BY Zenon DEF Calls, SerialInit
<1>3. /\ step = 2 => todo' = SerialInit
      /\ step = 4 => todo' = PicInit
      /\ step = 8 => todo' = FloppyRead
      /\ step = 11 => todo' = FloppyWrite
  BY <1>2, CallIs, Zenon DEF Inv
<1>4. /\ SerialInit \in Seq(Bytes \X SerialPorts) /\ PicInit \in Seq(Bytes \X PicPorts)
      /\ FloppyRead \in Seq(Bytes \X Ports) /\ FloppyWrite \in Seq(Bytes \X Ports)
  BY InitsTyped, LocalTyped, Zenon DEF Inv
<1>5. todo' \in Seq(Bytes \X Ports) /\ RestIs(todo', todo') /\ (step < 8 => NoDma(todo'))
  <2>1. CASE step = 2
    <3>1. todo' \in Seq(Bytes \X SerialPorts)
      BY <1>3, <1>4, <2>1
    <3> QED BY <3>1, SMT DEF Ports, RestIs, NoDma
  <2>2. CASE step = 4
    <3>1. todo' \in Seq(Bytes \X PicPorts)
      BY <1>3, <1>4, <2>2
    <3> QED BY <3>1, SMT DEF Ports, RestIs, NoDma
  <2>3. CASE step = 8 \/ step = 11
    <3>1. todo' \in Seq(Bytes \X Ports)
      BY <1>3, <1>4, <2>3
    <3> QED BY <2>3, <3>1, SMT DEF RestIs
  <2> QED BY <1>1, <2>1, <2>2, <2>3
<1>6. ChipsTyped' /\ DevicesTyped'
  BY SameTyped, Zenon DEF Inv, Typed, Calls
<1>7. KernelTyped'
  BY <1>1, <1>5, SMT DEF Inv, Typed, KernelTyped, Calls
<1>8. Walk'
  <2>1. CASE step = 2
    <3>1. step' = 3 /\ RestIs(todo', SerialInit') /\ NoDma(todo')
      BY <1>1, <1>2, <1>3, <1>5, <2>1, SMT
    <3> QED BY <1>1, <1>2, <3>1, SMT DEF Walk
  <2>2. CASE step = 4
    <3>1. step' = 5 /\ RestIs(todo', PicInit) /\ NoDma(todo')
      BY <1>1, <1>2, <1>3, <1>5, <2>2, SMT
    <3> QED BY <1>1, <1>2, <3>1, SMT DEF Walk
  <2>3. step \in {8, 11} => todo' \in Seq(LocalWrites(channel'))
    <3>1. step \in {8, 11} => channel' = DMA_CHAN_FLOPPY
      BY CallIs, SMT DEF Calls, Inv
    <3> QED BY <1>3, <3>1, InitsTyped DEF Inv
  <2>4. CASE step = 8
    <3>1. step' = 9 /\ RestIs(todo', FloppyRead)
      BY <1>1, <1>2, <1>3, <1>5, <2>4, SMT
    <3> QED BY <1>1, <1>2, <2>3, <2>4, <3>1, SMT DEF Walk
  <2>5. CASE step = 11
    <3>1. step' = 12 /\ RestIs(todo', FloppyWrite)
      BY <1>1, <1>2, <1>3, <1>5, <2>5, SMT
    <3> QED BY <1>1, <1>2, <2>3, <2>5, <3>1, SMT DEF Walk
  <2> QED BY <1>1, <2>1, <2>2, <2>4, <2>5
<1>9. PicSet'
  <2>1. step = 4 => Len(todo') = 10
    BY <1>3, InitsTyped DEF Inv
  <2> QED BY <2>1, BeginsPic, Zenon DEF Calls
<1>10. Flags'
  <2>1. step # 5
    BY <1>1
  <2> QED BY <2>1, BeginsFlags, Zenon DEF Calls
<1> QED BY <1>6, <1>7, <1>8, <1>9, <1>10 DEF Inv, Typed

LEMMA InvOthersCall ==
    ASSUME Inv, OthersCall
    PROVE  Inv'
<1>1. step = 7 /\ step' = 8 /\ handler = NULL /\ todo = << >> /\ text = << >>
  <2>1. step = 7 /\ step' = step + 1 /\ handler = NULL /\ todo = << >> /\ text = << >>
    BY BeginsAt, Zenon DEF Inv, OthersCall
  <2> QED BY <2>1, SMT
<1>2. todo' \in Seq(LocalWrites(channel'))
  <2>1. CASE \E c \in OtherCalls : todo' = DmaCall(c) /\ channel' = c.channel
    BY <2>1, DmaCallLocal, Zenon
  <2>2. CASE todo' = todo
    BY <1>1, <2>2, SMT
  <2> QED BY <2>1, <2>2, Zenon DEF OthersCall
<1>3. todo' \in Seq(Bytes \X Ports)
  BY <1>2, LocalTyped, Zenon
<1>4. ChipsTyped' /\ DevicesTyped'
  BY SameTyped, Zenon DEF Inv, Typed, OthersCall
<1>5. KernelTyped'
  BY <1>1, <1>3, SMT DEF Inv, Typed, KernelTyped, OthersCall
<1>6. Walk'
  <2>1. text' = << >>
    BY <1>1 DEF OthersCall
  <2> QED BY <1>1, <1>2, <2>1, SMT DEF Walk
<1>7. PicSet'
  <2>1. step # 4
    BY <1>1
  <2> QED BY <2>1, BeginsPic, Zenon DEF OthersCall
<1>8. Flags'
  <2>1. step # 5
    BY <1>1
  <2> QED BY <2>1, BeginsFlags, Zenon DEF OthersCall
<1> QED BY <1>4, <1>5, <1>6, <1>7, <1>8 DEF Inv, Typed

LEMMA InvSti ==
    ASSUME Inv, Sti
    PROVE  Inv'
<1>1. step = 5 /\ step' = 6 /\ handler = NULL /\ todo = << >> /\ text = << >>
  <2>1. step = 5 /\ step' = step + 1 /\ handler = NULL /\ todo = << >> /\ text = << >>
    BY BeginsAt, Zenon DEF Inv, Sti
  <2> QED BY <2>1, SMT
<1>2. ChipsTyped' /\ DevicesTyped'
  BY SameTyped, Zenon DEF Inv, Typed, Sti
<1>3. KernelTyped'
  BY <1>1, SMT DEF Inv, Typed, KernelTyped, Sti
<1>4. Walk'
  <2>1. text' = << >> /\ todo' = << >>
    BY <1>1 DEF Sti
  <2> QED BY <1>1, <2>1, SMT DEF Walk, NoDma
<1>5. PicSet'
  <2>1. step # 4
    BY <1>1
  <2> QED BY <2>1, BeginsPic, Zenon DEF Sti
<1>6. Flags'
  <2>1. step' >= 6
    BY <1>1
  <2> QED BY <1>1, <2>1, Zenon DEF Sti, Flags
<1> QED BY <1>2, <1>3, <1>4, <1>5, <1>6 DEF Inv, Typed

LEMMA InvSendCommand ==
    ASSUME Inv, SendCommand
    PROVE  Inv'
<1>1. step \in {9, 12} /\ step' = step + 1 /\ handler = NULL /\ todo = << >> /\ text = << >>
  BY BeginsAt, Zenon DEF Inv, SendCommand
<1>2. ChipsTyped'
  BY SameTyped, Zenon DEF Inv, Typed, SendCommand
<1>3. DevicesTyped'
  BY Zenon DEF Inv, Typed, DevicesTyped, SendCommand
<1>4. KernelTyped'
  BY <1>1, SMT DEF Inv, Typed, KernelTyped, SendCommand
<1>5. Walk'
  <2>1. text' = << >> /\ todo' = << >>
    BY <1>1 DEF SendCommand
  <2> QED BY <1>1, <2>1, SMT DEF Walk, NoDma
<1>6. PicSet'
  <2>1. step # 4
    BY <1>1
  <2> QED BY <2>1, BeginsPic, Zenon DEF SendCommand
<1>7. Flags'
  <2>1. step # 5
    BY <1>1
  <2> QED BY <2>1, BeginsFlags, Zenon DEF SendCommand
<1> QED BY <1>2, <1>3, <1>4, <1>5, <1>6, <1>7 DEF Inv, Typed

LEMMA InvWait ==
    ASSUME Inv, _fdc_wait_for_irq
    PROVE  Inv'
<1>1. step \in {10, 13} /\ step' = step + 1 /\ handler = NULL /\ todo = << >> /\ text = << >>
  BY BeginsAt, Zenon DEF Inv, _fdc_wait_for_irq
<1>2. ChipsTyped' /\ DevicesTyped'
  BY SameTyped, Zenon DEF Inv, Typed, _fdc_wait_for_irq
<1>3. KernelTyped'
  <2>1. step' \in 1 .. 14
    BY <1>1
  <2> QED BY <2>1, Zenon DEF Inv, Typed, KernelTyped, _fdc_wait_for_irq
<1>4. Walk'
  <2>1. text' = << >> /\ todo' = << >>
    BY <1>1 DEF _fdc_wait_for_irq
  <2> QED BY <1>1, <2>1, SMT DEF Walk, NoDma
<1>5. PicSet'
  <2>1. step # 4
    BY <1>1
  <2> QED BY <2>1, BeginsPic, Zenon DEF _fdc_wait_for_irq
<1>6. Flags'
  <2>1. step # 5
    BY <1>1
  <2> QED BY <2>1, BeginsFlags, Zenon DEF _fdc_wait_for_irq
<1> QED BY <1>2, <1>3, <1>4, <1>5, <1>6 DEF Inv, Typed

\* The write kmain makes next, and to which chip it goes.
LEMMA HeadIs ==
    ASSUME Inv, todo # << >>
    PROVE  /\ Head(todo) \in Bytes \X Ports /\ Tail(todo) \in Seq(Bytes \X Ports)
           /\ step \in {2, 4, 7} => Head(todo)[2] = SERIAL_XMITBUF /\ Tail(todo) = << >>
           /\ step = 3 => Head(todo)[2] \in SerialPorts
           /\ step = 5 => Head(todo)[2] \in PicPorts
           /\ step >= 8 => Head(todo)[2] \in DmaPorts /\ Local(channel, Head(todo))
           /\ step \in {2, 3, 4, 5, 7, 8, 9, 12}
<1>1. todo \in Seq(Bytes \X Ports) /\ step \in 1 .. 14
  BY Zenon DEF Inv, Typed, KernelTyped
<1>2. Head(todo) \in Bytes \X Ports /\ Tail(todo) \in Seq(Bytes \X Ports) /\ Head(todo) = todo[1] /\ 1 \in 1 .. Len(todo)
  BY <1>1, SMT
<1>3. step \in {2, 3, 4, 5, 7, 8, 9, 12}
  BY <1>1, SMT DEF Inv, Walk
<1>4. step \in {2, 4, 7} => Head(todo)[2] = SERIAL_XMITBUF /\ Tail(todo) = << >>
  BY <1>1, <1>2, SMT DEF Inv, Walk, Printing
<1>5. step = 3 => Head(todo)[2] \in SerialPorts
  <2> SUFFICES ASSUME step = 3 PROVE Head(todo)[2] \in SerialPorts
    OBVIOUS
  <2>1. SerialInit \in Seq(Bytes \X SerialPorts) /\ RestIs(todo, SerialInit)
    BY InitsTyped, Zenon DEF Inv, Walk
  <2>2. Head(todo) = SerialInit[Len(SerialInit) - Len(todo) + 1] /\ Len(todo) \in 1 .. Len(SerialInit)
    BY <1>1, <2>1, SMT DEF RestIs
  <2> QED BY <2>1, <2>2, SMT
<1>6. step = 5 => Head(todo)[2] \in PicPorts
  <2> SUFFICES ASSUME step = 5 PROVE Head(todo)[2] \in PicPorts
    OBVIOUS
  <2>1. PicInit \in Seq(Bytes \X PicPorts) /\ RestIs(todo, PicInit)
    BY InitsTyped, Zenon DEF Inv, Walk
  <2>2. Head(todo) = PicInit[Len(PicInit) - Len(todo) + 1] /\ Len(todo) \in 1 .. Len(PicInit)
    BY <1>1, <2>1, SMT DEF RestIs
  <2> QED BY <2>1, <2>2, SMT
<1>7. step >= 8 => Head(todo)[2] \in DmaPorts /\ Local(channel, Head(todo))
  <2> SUFFICES ASSUME step >= 8 PROVE Head(todo)[2] \in DmaPorts /\ Local(channel, Head(todo))
    OBVIOUS
  <2>1. todo \in Seq(LocalWrites(channel))
    BY Zenon DEF Inv, Walk
  <2>2. Head(todo) \in LocalWrites(channel)
    BY <2>1, SMT
  <2> QED BY <2>2 DEF LocalWrites
<1> QED BY <1>2, <1>3, <1>4, <1>5, <1>6, <1>7, Zenon

\* One chip takes it.
LEMMA HeadOut ==
    ASSUME Inv, todo # << >>, outb(Head(todo))
    PROVE  LET w == Head(todo) IN
           /\ step \in {2, 3, 4, 7} => UNCHANGED <<pic, dma>> /\ uart' = UartOut(uart, w[1], w[2])
           /\ step = 5 => UNCHANGED <<uart, dma>> /\ pic' = PicOut(pic, w[1], w[2])
           /\ step >= 8 => UNCHANGED <<uart, pic>> /\ dma' = DmaOut(dma, w[1], w[2])
<1> DEFINE port == Head(todo)[2]
<1>1. SERIAL_XMITBUF \in SerialPorts
  BY SMT DEF SERIAL_XMITBUF, SerialPorts, COM1_IO_BASE
<1>2. step \in {2, 3, 4, 7} => port \in SerialPorts /\ port \notin PicPorts /\ port \notin DmaPorts
  BY <1>1, HeadIs, PortsDisjoint
<1>3. step = 5 => port \in PicPorts /\ port \notin SerialPorts /\ port \notin DmaPorts
  BY HeadIs, PortsDisjoint
<1>4. step >= 8 => port \in DmaPorts /\ port \notin SerialPorts /\ port \notin PicPorts
  BY HeadIs, PortsDisjoint
<1> QED BY <1>2, <1>3, <1>4, Zenon DEF outb

LEMMA InvPortWrite ==
    ASSUME Inv, PortWrite
    PROVE  Inv'
<1>1. handler = NULL /\ todo # << >> /\ outb(Head(todo)) /\ todo' = Tail(todo)
        /\ UNCHANGED <<work, step, channel, text, enabled, handler, _fdc_irq_fired, drive, raises, waiting, wire>>
  BY Zenon DEF PortWrite
<1>2. todo \in Seq(Bytes \X Ports) /\ Head(todo) \in Bytes \X Ports /\ todo' \in Seq(Bytes \X Ports)
        /\ step \in {2, 3, 4, 5, 7, 8, 9, 12}
  BY <1>1, HeadIs, Zenon DEF Inv, Typed, KernelTyped
<1>3. ChipsTyped'
  BY <1>1, <1>2, OutbTyped, Zenon DEF Inv, Typed, ChipsTyped
<1>4. DevicesTyped'
  BY <1>1, SameTyped, Zenon DEF Inv, Typed
<1>5. KernelTyped'
  BY <1>1, <1>2, Zenon DEF Inv, Typed, KernelTyped
<1>6. Flags'
  BY <1>1, Zenon DEF Inv, Flags
<1>7. Len(todo') = Len(todo) - 1 /\ \A i \in 1 .. Len(todo') : todo'[i] = todo[i + 1]
  BY <1>1, <1>2, SMT
<1>8. Walk'
  <2>1. step' = step /\ text' = text /\ SerialInit' = SerialInit /\ channel' = channel
    BY <1>1, Zenon DEF SerialInit
  <2>2. /\ SerialInit \in Seq(Bytes \X SerialPorts) /\ PicInit \in Seq(Bytes \X PicPorts)
        /\ FloppyRead \in Seq(LocalWrites(DMA_CHAN_FLOPPY)) /\ FloppyWrite \in Seq(LocalWrites(DMA_CHAN_FLOPPY))
    BY InitsTyped, Zenon DEF Inv
  <2>3. /\ step = 3 => RestIs(todo', SerialInit)
        /\ step = 5 => RestIs(todo', PicInit)
        /\ step = 9 => RestIs(todo', FloppyRead)
        /\ step = 12 => RestIs(todo', FloppyWrite)
    BY <1>1, <1>2, <2>2, RestTail, Zenon DEF Inv, Walk
  <2>4. step \in {2, 4, 7} => Printing(todo')
    <3>1. step \in {2, 4, 7} => todo' = << >>
      BY <1>1, HeadIs, Zenon
    <3> QED BY <3>1, SMT DEF Printing
  <2>5. step < 8 => NoDma(todo')
    <3>1. step < 8 => NoDma(todo)
      BY Zenon DEF Inv, Walk
    <3>2. \A i \in 1 .. Len(todo') : i + 1 \in 1 .. Len(todo)
      BY <1>2, <1>7, SMT
    <3> QED BY <1>7, <3>1, <3>2, Zenon DEF NoDma
  <2>6. step >= 8 => todo' \in Seq(LocalWrites(channel))
    <3>1. step >= 8 => todo \in Seq(LocalWrites(channel))
      BY Zenon DEF Inv, Walk
    <3> QED BY <1>1, <3>1, SMT
  <2>7. text # << >> => step \in {2, 4, 7}
    BY Zenon DEF Inv, Walk
  <2> QED BY <1>2, <2>1, <2>3, <2>4, <2>5, <2>6, <2>7, SMT DEF Walk
<1>9. PicSet'
  <2>1. CASE step = 5
    <3> DEFINE m == 10 - Len(todo)
    <3>1. RestIs(todo, PicInit) /\ PicInit \in Seq(Bytes \X PicPorts)
      BY <2>1, InitsTyped, Zenon DEF Inv, Walk
    <3>2. Head(todo) = PicInit[Len(PicInit) - Len(todo) + 1] /\ Len(todo) \in 1 .. Len(PicInit)
      <4>1. todo # << >> /\ todo \in Seq(Bytes \X Ports)
        BY <1>1, <1>2, Zenon
      <4> HIDE DEF m
      <4> QED BY <3>1, <4>1, SMT DEF RestIs
    <3>3. m \in 0 .. 9 /\ Head(todo) = PicInit[m + 1] /\ 10 - Len(todo') = m + 1
      <4>1. Len(PicInit) = 10
        BY InitsTyped, Zenon DEF Inv
      <4>2. Len(todo) \in 1 .. 10
        BY <3>2, <4>1, Zenon
      <4>3. m \in 0 .. 9
        <5>1. \A k \in 1 .. 10 : 10 - k \in 0 .. 9
          BY SMT
        <5> QED BY <4>2, <5>1, Zenon
      <4>4. 10 - Len(todo) + 1 = m + 1
        OBVIOUS
      <4>5. Len(todo') = Len(todo) - 1
        BY <1>7
      <4>6. 10 - (Len(todo) - 1) = m + 1
        BY <4>2, SMT
      <4> HIDE DEF m
      <4> QED BY <3>2, <4>1, <4>3, <4>4, <4>5, <4>6, Zenon
    <3>4. pic' = PicOut(pic, PicInit[m + 1][1], PicInit[m + 1][2])
      BY <1>1, <2>1, <3>3, HeadOut, Zenon
    <3>5. pic \in Pics /\ PicsSet(pic, m) /\ Requests(pic)
      BY <2>1, Zenon DEF Inv, Typed, ChipsTyped, PicTyped, PicSet
    <3> HIDE DEF m
    <3>6. PicsSet(pic', m + 1) /\ Requests(pic')
      BY <3>3, <3>4, <3>5, PicInitStep DEF PicInit
    <3>7. PicsSet(pic', 10 - Len(todo'))
      BY <3>3, <3>6, Zenon
    <3> QED BY <1>1, <2>1, <3>6, <3>7, SMT DEF PicSet
  <2>2. CASE step # 5
    <3>1. pic' = pic
      <4>1. step \in {2, 3, 4, 7} \/ step >= 8
        BY <1>2, <2>2, SMT
      <4> QED BY <1>1, <4>1, HeadOut, Zenon
    <3> QED BY <1>1, <2>2, <3>1, Zenon DEF Inv, PicSet
  <2> QED BY <2>1, <2>2
<1> QED BY <1>3, <1>4, <1>5, <1>6, <1>8, <1>9 DEF Inv, Typed

\* The steps of the machine that leave kmain where it is.
LEMMA SameWalk ==
    /\ Walk /\ UNCHANGED <<work, kernel>> => Walk'
    /\ Flags /\ UNCHANGED <<step, enabled, handler>> => Flags'
    /\ PicSet /\ UNCHANGED <<pic, step, todo>> => PicSet'
<1>1. Walk /\ UNCHANGED <<work, kernel>> => Walk'
  <2> SUFFICES ASSUME Walk, UNCHANGED <<work, kernel>> PROVE Walk'
    OBVIOUS
  <2>1. step' = step /\ todo' = todo /\ channel' = channel /\ text' = text /\ SerialInit' = SerialInit
    BY DEF kernel, SerialInit
  <2>2. /\ text' # << >> => step' \in {2, 4, 7}
        /\ step' \in {1, 6, 10, 11, 13, 14} => todo' = << >>
        /\ step' \in {2, 4, 7} => Printing(todo')
    BY <2>1, Zenon DEF Walk
  <2>3. /\ step' = 3 => RestIs(todo', SerialInit')
        /\ step' = 5 => RestIs(todo', PicInit)
    BY <2>1, Zenon DEF Walk
  <2>4. /\ step' = 9 => RestIs(todo', FloppyRead)
        /\ step' = 12 => RestIs(todo', FloppyWrite)
    BY <2>1, Zenon DEF Walk
  <2>5. /\ step' < 8 => NoDma(todo')
        /\ step' >= 8 => todo' \in Seq(LocalWrites(channel'))
    BY <2>1, Zenon DEF Walk
  <2> QED BY <2>2, <2>3, <2>4, <2>5 DEF Walk
<1>2. Flags /\ UNCHANGED <<step, enabled, handler>> => Flags'
  <2> SUFFICES ASSUME Flags, UNCHANGED <<step, enabled, handler>> PROVE Flags'
    OBVIOUS
  <2>1. step' = step /\ (enabled' <=> enabled) /\ handler' = handler
    OBVIOUS
  <2> QED BY <2>1, Zenon DEF Flags
<1>3. PicSet /\ UNCHANGED <<pic, step, todo>> => PicSet'
  BY Zenon DEF PicSet
<1> QED BY <1>1, <1>2, <1>3

LEMMA InvPollEnds ==
    ASSUME Inv, PollEnds
    PROVE  Inv'
<1>1. text # << >> /\ todo' = serial_putc(Head(text)) /\ text' = Tail(text)
        /\ UNCHANGED <<uart, pic, dma, work, step, channel, enabled, handler, _fdc_irq_fired, drive, raises, waiting, wire>>
  BY Zenon DEF PollEnds
<1>2. step \in {2, 4, 7} /\ text \in Seq(Bytes)
  BY <1>1, Zenon DEF Inv, Walk, Typed, KernelTyped
<1>3. text' \in Seq(Bytes) /\ Head(text) \in Bytes
  BY <1>1, <1>2, SMT
<1>4. SERIAL_XMITBUF \in SerialPorts
  BY SMT DEF SERIAL_XMITBUF, SerialPorts, COM1_IO_BASE
<1>5. todo' = << <<Head(text), SERIAL_XMITBUF>> >>
  BY <1>1 DEF serial_putc
<1>6. todo' \in Seq(Bytes \X Ports) /\ Printing(todo') /\ NoDma(todo')
  <2> DEFINE h == Head(text)
             x == SERIAL_XMITBUF
  <2>1. x \in Ports /\ h \in Bytes /\ todo' = << <<h, x>> >> /\ x \in SerialPorts
    BY <1>3, <1>4, <1>5 DEF Ports
  <2> HIDE DEF h
  <2>2. todo' \in Seq(Bytes \X Ports)
    BY <2>1, SMT
  <2>3. Printing(todo') /\ NoDma(todo')
    BY <2>1, SMT DEF Printing, NoDma
  <2> QED BY <2>2, <2>3
<1>7. ChipsTyped' /\ DevicesTyped'
  BY <1>1, SameTyped, Zenon DEF Inv, Typed
<1>8. KernelTyped'
  BY <1>1, <1>3, <1>6, Zenon DEF Inv, Typed, KernelTyped
<1>9. Walk'
  <2>1. step' \in {2, 4, 7}
    BY <1>1, <1>2, Zenon
  <2> QED BY <1>6, <2>1, SMT DEF Walk
<1>10. Flags'
  BY <1>1, SameWalk, Zenon DEF Inv
<1>11. PicSet'
  <2>1. step # 5
    BY <1>2
  <2> QED BY <1>1, <2>1, Zenon DEF Inv, PicSet
<1> QED BY <1>7, <1>8, <1>9, <1>10, <1>11 DEF Inv, Typed

\* A line is raised.
LEMMA InvRaise ==
    ASSUME Inv, NEW d \in Devices, Raise(d), UNCHANGED <<step, todo>>
    PROVE  PicTyped' /\ PicSet' /\ waiting' \in SUBSET Devices
<1>1. pic' = Raised(pic, LineOf[d]) /\ pic \in Pics /\ PicSet /\ waiting \in SUBSET Devices
  BY Zenon DEF Raise, Inv, Typed, ChipsTyped, PicTyped, DevicesTyped
<1>2. pic' \in Pics /\ (Requests(pic) => Requests(pic')) /\ \A m : PicsSet(pic, m) => PicsSet(pic', m)
  BY <1>1, RaisedIs, Zenon
<1>3. PicSet'
  BY <1>1, <1>2, Zenon DEF PicSet
<1>4. waiting' \in SUBSET Devices
  BY <1>1, Zenon DEF Raise
<1> QED BY <1>2, <1>3, <1>4 DEF PicTyped

LEMMA InvDeviceRaises ==
    ASSUME Inv, NEW d \in Devices, DeviceRaises(d)
    PROVE  Inv'
<1>1. /\ raises[d] > 0 /\ raises' = [raises EXCEPT ![d] = @ - 1] /\ Raise(d)
      /\ UNCHANGED <<uart, dma, work, kernel, enabled, handler, _fdc_irq_fired, drive, wire>>
  BY Zenon DEF DeviceRaises
<1>2. raises' \in [Devices -> Nat] /\ raises'["floppy"] = 0
  BY <1>1, SMT DEF Inv, Typed, DevicesTyped
<1>3. UNCHANGED <<step, todo>>
  BY <1>1 DEF kernel
<1>4. PicTyped' /\ PicSet' /\ waiting' \in SUBSET Devices
  BY <1>1, <1>3, InvRaise, Zenon
<1>5. ChipsTyped'
  BY <1>1, <1>4 DEF Inv, Typed, ChipsTyped, UartTyped, DmaTyped
<1>6. DevicesTyped'
  BY <1>1, <1>2, <1>4, Zenon DEF Inv, Typed, DevicesTyped
<1>7. KernelTyped'
  BY <1>1, Zenon DEF Inv, Typed, KernelTyped, kernel
<1>8. Walk' /\ Flags'
  BY <1>1, <1>3, SameWalk, Zenon DEF Inv
<1> QED BY <1>4, <1>5, <1>6, <1>7, <1>8 DEF Inv, Typed

LEMMA InvUartTakes ==
    ASSUME Inv, UartTakes
    PROVE  Inv'
<1>1. /\ uart' = [uart EXCEPT !.thr = NULL, !.shift = uart.thr]
      /\ (Raise("serial") \/ UNCHANGED <<pic, waiting>>)
      /\ UNCHANGED <<dma, work, kernel, enabled, handler, _fdc_irq_fired, drive, raises, wire>>
  BY Zenon DEF UartTakes
<1>2. UNCHANGED <<step, todo>>
  BY <1>1 DEF kernel
<1>3. PicTyped' /\ PicSet' /\ waiting' \in SUBSET Devices
  <2>1. CASE Raise("serial")
    <3>1. "serial" \in Devices
      BY DEF Devices, IRQ
    <3> QED BY <1>2, <2>1, <3>1, InvRaise, Zenon
  <2>2. CASE UNCHANGED <<pic, waiting>>
    BY <1>2, <2>2, SameWalk, Zenon DEF Inv, Typed, ChipsTyped, PicTyped, DevicesTyped
  <2> QED BY <1>1, <2>1, <2>2
<1>4. UartTyped'
  <2>1. uart \in Uarts /\ uart' = [uart EXCEPT !.thr = NULL, !.shift = uart.thr]
    BY <1>1, Zenon DEF Inv, Typed, ChipsTyped, UartTyped
  <2>2. uart.thr \in Bytes \cup {NULL} /\ NULL \in Bytes \cup {NULL}
    BY <2>1 DEF Uarts
  <2> DEFINE x == uart.thr
             o == [uart EXCEPT !.thr = NULL]
  <2>3. o \in Uarts
    BY <2>1, <2>2 DEF Uarts
  <2>4. uart' = [o EXCEPT !.shift = x]
    BY <2>1 DEF Uarts
  <2> HIDE DEF x, o
  <2>5. x \in Bytes \cup {NULL}
    BY <2>2 DEF x
  <2> QED BY <2>3, <2>4, <2>5 DEF UartTyped, Uarts
<1>5. ChipsTyped'
  BY <1>1, <1>3, <1>4 DEF Inv, Typed, ChipsTyped, DmaTyped
<1>6. DevicesTyped'
  BY <1>1, <1>3, Zenon DEF Inv, Typed, DevicesTyped
<1>7. KernelTyped'
  BY <1>1, Zenon DEF Inv, Typed, KernelTyped, kernel
<1>8. Walk' /\ Flags'
  BY <1>1, <1>2, SameWalk, Zenon DEF Inv
<1> QED BY <1>3, <1>5, <1>6, <1>7, <1>8 DEF Inv, Typed

LEMMA InvUartSends ==
    ASSUME Inv, UartSends
    PROVE  Inv'
<1>1. /\ uart.shift # NULL /\ wire' = Append(wire, [char |-> uart.shift, framing |-> Framing(uart)])
      /\ uart' = [uart EXCEPT !.shift = NULL]
      /\ UNCHANGED <<pic, dma, work, kernel, enabled, handler, _fdc_irq_fired, drive, raises, waiting>>
  BY Zenon DEF UartSends
<1>2. UNCHANGED <<step, todo>>
  BY <1>1 DEF kernel
<1>3. uart \in Uarts
  BY Zenon DEF Inv, Typed, ChipsTyped, UartTyped
<1>4. UartTyped'
  BY <1>1, <1>3, SMT DEF UartTyped, Uarts
<1>5. ChipsTyped'
  BY <1>1, <1>4 DEF Inv, Typed, ChipsTyped, PicTyped, DmaTyped
<1>6. wire' \in Seq(Sent)
  <2>1. uart.shift \in Bytes /\ uart.dll \in Bytes /\ uart.dlm \in Bytes /\ uart.lcr \in Bytes
    BY <1>1, <1>3 DEF Uarts
  <2>2. uart.dll + 256 * uart.dlm \in Nat
    <3>1. \A a, b \in Bytes : a + 256 * b \in Nat
      BY SMT DEF Bytes
    <3> QED BY <2>1, <3>1
  <2>3. [char |-> uart.shift, framing |-> Framing(uart)] \in Sent
    BY <2>1, <2>2 DEF Sent, Framing
  <2>4. wire \in Seq(Sent)
    BY Zenon DEF Inv, Typed, DevicesTyped
  <2> DEFINE x == [char |-> uart.shift, framing |-> Framing(uart)]
  <2> HIDE DEF x
  <2>5. wire' = Append(wire, x) /\ x \in Sent
    BY <1>1, <2>3 DEF x
  <2> QED BY <2>4, <2>5, SMT
<1>7. DevicesTyped'
  BY <1>1, <1>6, Zenon DEF Inv, Typed, DevicesTyped
<1>8. KernelTyped'
  BY <1>1, Zenon DEF Inv, Typed, KernelTyped, kernel
<1>9. Walk' /\ Flags' /\ PicSet'
  BY <1>1, <1>2, SameWalk, Zenon DEF Inv
<1> QED BY <1>5, <1>7, <1>8, <1>9 DEF Inv, Typed

LEMMA InvDriveTransfers ==
    ASSUME Inv, DriveTransfers
    PROVE  Inv'
<1>1. /\ drive' = NULL /\ Raise("floppy")
      /\ UNCHANGED <<uart, dma, work, kernel, enabled, handler, _fdc_irq_fired, raises, wire>>
  BY Zenon DEF DriveTransfers
<1>2. UNCHANGED <<step, todo>>
  BY <1>1 DEF kernel
<1>3. PicTyped' /\ PicSet' /\ waiting' \in SUBSET Devices
  <2>1. "floppy" \in Devices
    BY DEF Devices, IRQ
  <2> QED BY <1>1, <1>2, <2>1, InvRaise, Zenon
<1>4. ChipsTyped'
  BY <1>1, <1>3 DEF Inv, Typed, ChipsTyped, UartTyped, DmaTyped
<1>5. DevicesTyped'
  BY <1>1, <1>3, Zenon DEF Inv, Typed, DevicesTyped
<1>6. KernelTyped'
  BY <1>1, Zenon DEF Inv, Typed, KernelTyped, kernel
<1>7. Walk' /\ Flags'
  BY <1>1, <1>2, SameWalk, Zenon DEF Inv
<1> QED BY <1>3, <1>4, <1>5, <1>6, <1>7 DEF Inv, Typed

\* The writes that end an interrupt.
LEMMA Eoi ==
    LET m == <<32, MASTER_PIC_COMMAND_PORT>>
        s == <<32, SLAVE_PIC_COMMAND_PORT>>
    IN  /\ pic_send_eoi(32) = <<m>> /\ pic_send_eoi(40) = <<s, m>>
        /\ \A v \in Nat : pic_send_eoi(v) \in {pic_send_eoi(32), pic_send_eoi(40)}
        /\ PIC_OCW2_EOI = 32
<1> DEFINE m == <<PIC_OCW2_EOI, MASTER_PIC_COMMAND_PORT>>
           s == <<PIC_OCW2_EOI, SLAVE_PIC_COMMAND_PORT>>
<1>1. ASSUME NEW a, NEW b
      PROVE  << >> \o <<b>> = <<b>> /\ <<a>> \o <<b>> = <<a, b>>
  <2>1. <<a>> \in Seq({a, b}) /\ <<b>> \in Seq({a, b}) /\ b \in {a, b}
    OBVIOUS
  <2>2. << >> \o <<b>> = <<b>>
    BY <2>1, ConcatEmptySeq, Zenon
  <2>3. <<a>> \o <<b>> = Append(<<a>>, b)
    BY <2>1, AppendIsConcat, Zenon
  <2>4. Append(<<a>>, b) = <<a, b>>
    <3> DEFINE l == Append(<<a>>, b)
               r == <<a, b>>
    <3>1. l \in Seq({a, b}) /\ Len(l) = 2 /\ l[1] = a /\ l[2] = b
      BY SMT
    <3>2. r \in Seq({a, b}) /\ Len(r) = 2 /\ r[1] = a /\ r[2] = b
      BY SMT
    <3>3. \A i \in 1 .. Len(l) : i = 1 \/ i = 2
      BY <3>1, SMT
    <3> HIDE DEF l, r
    <3>4. Len(l) = Len(r) /\ \A i \in 1 .. Len(l) : l[i] = r[i]
      BY <3>1, <3>2, <3>3
    <3>5. l = r
      BY <3>1, <3>2, <3>4, SeqEqual, Zenon
    <3> QED BY <3>5 DEF l, r
  <2> QED BY <2>2, <2>3, <2>4
<1>2. ~(32 >= 40) /\ 40 >= 40
  BY SMT
<1>3. pic_send_eoi(32) = << >> \o <<m>> /\ pic_send_eoi(40) = <<s>> \o <<m>>
  BY <1>2, Zenon DEF pic_send_eoi
<1>4. \A v \in Nat : pic_send_eoi(v) \in {<< >> \o <<m>>, <<s>> \o <<m>>}
  BY Zenon DEF pic_send_eoi
<1>5. PIC_OCW2_EOI = 32
  BY DEF PIC_OCW2_EOI
<1> QED BY <1>1, <1>3, <1>4, <1>5, Zenon

LEMMA EoiSteps ==
    ASSUME NEW e \in Eois, e # NULL, e # << >>
    PROVE  /\ Head(e) \in Bytes \X PicPorts /\ Head(e)[1] = PIC_OCW2_EOI
           /\ Head(e)[2] \in {MASTER_PIC_COMMAND_PORT, SLAVE_PIC_COMMAND_PORT}
           /\ Tail(e) \in Eois \ {NULL}
<1> DEFINE m == <<32, MASTER_PIC_COMMAND_PORT>>
           s == <<32, SLAVE_PIC_COMMAND_PORT>>
<1>1. pic_send_eoi(32) = <<m>> /\ pic_send_eoi(40) = <<s, m>> /\ PIC_OCW2_EOI = 32
  BY Eoi, Zenon
<1>2. e = <<m>> \/ e = <<s, m>>
  BY <1>1, Zenon DEF Eois
<1>3. m \in Bytes \X PicPorts /\ s \in Bytes \X PicPorts /\ m[1] = 32 /\ s[1] = 32
        /\ m[2] = MASTER_PIC_COMMAND_PORT /\ s[2] = SLAVE_PIC_COMMAND_PORT
  BY SMT DEF Bytes, PicPorts, MASTER_PIC_COMMAND_PORT, SLAVE_PIC_COMMAND_PORT
<1>4. ASSUME NEW a, NEW b
      PROVE  Head(<<a>>) = a /\ Tail(<<a>>) = << >> /\ Head(<<a, b>>) = a /\ Tail(<<a, b>>) = <<b>>
  OBVIOUS
<1>5. << >> \in Eois \ {NULL} /\ <<m>> \in Eois \ {NULL}
  BY <1>1, StartAssumption, Zenon DEF Eois
<1> HIDE DEF m, s
<1>6. (Head(e) = m /\ Tail(e) = << >>) \/ (Head(e) = s /\ Tail(e) = <<m>>)
  BY <1>2, <1>4, ZenonT(40)
<1> QED BY <1>1, <1>3, <1>5, <1>6, Zenon

LEMMA InvInterrupt ==
    ASSUME Inv, Interrupt
    PROVE  Inv' /\ Vectors'
<1> DEFINE ack == Acknowledged(pic)
<1>1. /\ enabled /\ handler = NULL /\ MasterPasses(pic) # {} /\ pic' = ack.pic
      /\ handler' = [line |-> ack.line, vector |-> ack.vector, eoi |-> NULL]
      /\ UNCHANGED <<uart, dma, work, kernel, enabled, _fdc_irq_fired, drive, raises, waiting, wire>>
  BY Zenon DEF Interrupt
<1>2. step >= 6 /\ pic \in Pics /\ Requests(pic) /\ step \in 1 .. 14
  BY <1>1, Zenon DEF Inv, Flags, Typed, ChipsTyped, KernelTyped, PicTyped, PicSet
<1>3. PicsSet(pic, 10)
  <2>1. step > 5
    BY <1>2, SMT
  <2> QED BY <2>1, Zenon DEF Inv, PicSet
<1>4. /\ \E d \in Devices : ack.line = LineOf[d] /\ ack.vector = IRQ[d]
      /\ ack.pic \in Pics /\ Requests(ack.pic) /\ PicsSet(ack.pic, 10)
  BY <1>1, <1>2, <1>3, AcknowledgedIs, Zenon
<1> HIDE DEF ack
<1>5. handler' \in Handlers
  <2>1. \A d \in Devices : LineOf[d] \in Nat /\ IRQ[d] \in Nat
    BY SMT DEF Devices, LineOf, IRQ
  <2>2. ack.line \in Nat /\ ack.vector \in Nat
    BY <1>4, <2>1, Zenon
  <2>3. NULL \in Eois
    BY Zenon DEF Eois
  <2> QED BY <1>1, <2>2, <2>3, SMT DEF Handlers
<1>6. UNCHANGED <<step, todo>>
  BY <1>1 DEF kernel
<1>7. PicSet'
  <2>1. step' > 5
    BY <1>2, <1>6, SMT
  <2>2. ~(step' < 5) /\ ~(step' = 5)
    BY <1>2, <1>6, SMT
  <2> QED BY <1>1, <1>4, <2>1, <2>2, Zenon DEF PicSet
<1>8. ChipsTyped'
  BY <1>1, <1>4, Zenon DEF Inv, Typed, ChipsTyped, UartTyped, DmaTyped, PicTyped
<1>9. DevicesTyped'
  BY <1>1, SameTyped, Zenon DEF Inv, Typed, DevicesTyped
<1>10. KernelTyped'
  BY <1>1, <1>5, Zenon DEF Inv, Typed, KernelTyped, kernel
<1>11. Walk'
  BY <1>1, SameWalk, Zenon DEF Inv
<1>12. Flags'
  BY <1>1, <1>2, <1>6, Zenon DEF Flags
<1>13. handler'.line = ack.line /\ handler'.vector = ack.vector
  BY <1>1
<1>14. Vectors'
  BY <1>4, <1>13, Zenon DEF Vectors
<1> QED BY <1>7, <1>8, <1>9, <1>10, <1>11, <1>12, <1>14 DEF Inv, Typed

LEMMA InvService ==
    ASSUME Inv, Service
    PROVE  Inv' /\ (Vectors => Vectors')
<1>1. /\ handler # NULL /\ handler.eoi = NULL
      /\ _fdc_irq_fired' = (_fdc_irq_fired \/ handler.vector = IRQ.floppy)
      /\ waiting' = {d \in waiting : IRQ[d] # handler.vector}
      /\ handler' = [handler EXCEPT !.eoi = pic_send_eoi(handler.vector)]
      /\ UNCHANGED <<uart, pic, dma, work, kernel, enabled, drive, raises, wire>>
  BY Zenon DEF Service
<1>2. handler \in Handlers
  BY <1>1, Zenon DEF Inv, Typed, KernelTyped
<1>3. pic_send_eoi(handler.vector) \in Eois
  <2>1. handler.vector \in Nat
    BY <1>2 DEF Handlers
  <2> QED BY <2>1, Eoi, Zenon DEF Eois
<1> DEFINE e == pic_send_eoi(handler.vector)
<1> HIDE DEF e
<1>4. handler' \in Handlers /\ handler'.line = handler.line /\ handler'.vector = handler.vector
  <2>1. handler' = [handler EXCEPT !.eoi = e] /\ e \in Eois
    BY <1>1, <1>3 DEF e
  <2> QED BY <1>2, <2>1, SMT DEF Handlers
<1>5. ChipsTyped'
  BY <1>1, SameTyped, Zenon DEF Inv, Typed
<1>6. waiting' \in SUBSET Devices
  BY <1>1, Zenon DEF Inv, Typed, DevicesTyped
<1>7. DevicesTyped'
  BY <1>1, <1>6, Zenon DEF Inv, Typed, DevicesTyped
<1>8. KernelTyped'
  <2>1. _fdc_irq_fired' \in BOOLEAN
    BY <1>1, Zenon
  <2> QED BY <1>1, <1>4, <2>1, Zenon DEF Inv, Typed, KernelTyped, kernel
<1>9. UNCHANGED <<step, todo>>
  BY <1>1 DEF kernel
<1>10. Walk' /\ PicSet'
  BY <1>1, <1>9, SameWalk, Zenon DEF Inv
<1>11. Flags'
  BY <1>1, <1>9, Zenon DEF Inv, Flags
<1>12. Vectors => Vectors'
  BY <1>1, <1>4, Zenon DEF Vectors
<1> QED BY <1>5, <1>7, <1>8, <1>10, <1>11, <1>12 DEF Inv, Typed

\* What an end-of-interrupt write changes: the interrupts in service.
LEMMA EndIs ==
    ASSUME Inv, EndOfInterrupt
    PROVE  /\ ChipsTyped' /\ UNCHANGED <<uart, dma>> /\ PicSet'
           /\ pic'.master.irr = pic.master.irr
           /\ handler' # NULL => /\ handler' \in Handlers /\ handler'.eoi # NULL
                                 /\ handler'.line = handler.line /\ handler'.vector = handler.vector
           /\ handler' \in {NULL} \cup Handlers
<1>1. /\ handler # NULL /\ handler.eoi # NULL
      /\ UNCHANGED <<work, kernel, enabled, _fdc_irq_fired, drive, raises, waiting, wire>>
  BY Zenon DEF EndOfInterrupt
<1>2. handler \in Handlers /\ pic \in Pics /\ step \in 1 .. 14 /\ step >= 6
  BY <1>1, Zenon DEF Inv, Typed, KernelTyped, ChipsTyped, PicTyped, Flags
<1>3. UNCHANGED <<step, todo>>
  BY <1>1 DEF kernel
<1>4. CASE handler.eoi = << >>
  <2>1. handler' = NULL /\ UNCHANGED <<uart, pic, dma>>
    BY <1>4, Zenon DEF EndOfInterrupt
  <2>2. PicSet'
    BY <1>3, <2>1, SameWalk, Zenon DEF Inv
  <2> QED BY <2>1, <2>2, SameTyped, Zenon DEF Inv, Typed
<1>5. CASE handler.eoi # << >>
  <2> DEFINE w == Head(handler.eoi)
             t == Tail(handler.eoi)
  <2>1. outb(w) /\ handler' = [handler EXCEPT !.eoi = Tail(@)]
    BY <1>5, Zenon DEF EndOfInterrupt
  <2>2. handler.eoi \in Eois
    BY <1>2 DEF Handlers
  <2>3. w \in Bytes \X PicPorts /\ w[1] = PIC_OCW2_EOI /\ w[2] \in {MASTER_PIC_COMMAND_PORT, SLAVE_PIC_COMMAND_PORT}
          /\ t \in Eois \ {NULL}
    BY <1>1, <1>5, <2>2, EoiSteps, Zenon
  <2>4. handler' = [handler EXCEPT !.eoi = t]
    BY <2>1
  <2> HIDE DEF w, t
  <2>5. w[2] \in PicPorts /\ w[2] \notin SerialPorts /\ w[2] \notin DmaPorts /\ w \in Bytes \X Ports
    <3>1. w[2] \in PicPorts
      BY <2>3
    <3>2. w \in Bytes \X Ports
      BY <2>3 DEF Ports
    <3> QED BY <3>1, <3>2, PortsDisjoint
  <2>6. UNCHANGED <<uart, dma>> /\ pic' = PicOut(pic, PIC_OCW2_EOI, w[2])
    BY <2>1, <2>3, <2>5, Zenon DEF outb
  <2>7. ChipsTyped'
    BY <2>1, <2>5, OutbTyped, Zenon DEF Inv, Typed, ChipsTyped
  <2>8. /\ pic'.master.irr = pic.master.irr /\ pic'.slave.irr = pic.slave.irr
        /\ \A m : PicsSet(pic, m) => PicsSet(pic', m)
    BY <1>2, <2>3, <2>6, EoiIs, Zenon
  <2>9. PicSet'
    <3>1. Requests(pic) => Requests(pic')
      BY <2>8, Zenon DEF Requests
    <3> QED BY <1>3, <2>8, <3>1, Zenon DEF Inv, PicSet
  <2>10. handler' \in Handlers /\ handler'.eoi = t /\ handler'.line = handler.line /\ handler'.vector = handler.vector
    <3>1. t \in Eois
      BY <2>3
    <3> QED BY <1>2, <2>4, <3>1, SMT DEF Handlers
  <2> QED BY <2>3, <2>6, <2>7, <2>8, <2>9, <2>10, Zenon
<1> QED BY <1>4, <1>5

LEMMA InvEndOfInterrupt ==
    ASSUME Inv, EndOfInterrupt
    PROVE  Inv' /\ (Vectors => Vectors')
<1>1. /\ handler # NULL /\ handler.eoi # NULL
      /\ UNCHANGED <<work, kernel, enabled, _fdc_irq_fired, drive, raises, waiting, wire>>
  BY Zenon DEF EndOfInterrupt
<1>2. ChipsTyped' /\ PicSet' /\ handler' \in {NULL} \cup Handlers
        /\ (handler' # NULL => handler'.line = handler.line /\ handler'.vector = handler.vector)
  BY EndIs, Zenon
<1>3. UNCHANGED <<step, todo>>
  BY <1>1 DEF kernel
<1>4. DevicesTyped'
  BY <1>1, SameTyped, Zenon DEF Inv, Typed
<1>5. KernelTyped'
  BY <1>1, <1>2, Zenon DEF Inv, Typed, KernelTyped, kernel
<1>6. Walk'
  BY <1>1, SameWalk, Zenon DEF Inv
<1>7. Flags'
  BY <1>1, <1>3, Zenon DEF Inv, Flags
<1>8. Vectors => Vectors'
  BY <1>1, <1>2, Zenon DEF Vectors
<1> QED BY <1>2, <1>4, <1>5, <1>6, <1>7, <1>8 DEF Inv, Typed

LEMMA InvNext == Inv /\ [Next]_vars => Inv'
<1> SUFFICES ASSUME Inv, [Next]_vars PROVE Inv'
  OBVIOUS
<1>1. CASE Kernel
  BY <1>1, InvPrintk, InvCalls, InvOthersCall, InvSti, InvSendCommand, InvWait, InvPortWrite, InvPollEnds, Zenon DEF Kernel
<1>2. CASE Handler
  BY <1>2, InvInterrupt, InvService, InvEndOfInterrupt, Zenon DEF Handler
<1>3. CASE Hardware
  BY <1>3, InvUartTakes, InvUartSends, InvDriveTransfers, Zenon DEF Hardware
<1>4. CASE \E d \in Devices : DeviceRaises(d)
  BY <1>4, InvDeviceRaises, Zenon
<1>5. CASE UNCHANGED vars
  <2>1. UNCHANGED <<uart, pic, dma, work, kernel, enabled, handler, _fdc_irq_fired, drive, raises, waiting, wire>>
    BY <1>5, Zenon DEF vars
  <2>2. UNCHANGED <<step, todo, channel, text>>
    BY <2>1, Zenon DEF kernel
  <2>3. ChipsTyped' /\ DevicesTyped' /\ Walk' /\ Flags' /\ PicSet'
    BY <2>1, <2>2, SameTyped, SameWalk, Zenon DEF Inv, Typed
  <2>4. KernelTyped'
    BY <2>1, <2>2, Zenon DEF Inv, Typed, KernelTyped
  <2> QED BY <2>3, <2>4 DEF Inv, Typed
<1> QED BY <1>1, <1>2, <1>3, <1>4, <1>5, Zenon DEF Next

LEMMA InvHolds == Spec => []Inv
BY InvInit, InvNext, PTL DEF Spec

-----------------------------------------------------------------------------
(***************************************************************************)
(* From here on Inv is known; each property needs a part of its own more.  *)
(***************************************************************************)

\* In kmain's steps the handler is not touched, and the machine's devices
\* leave kmain where it is.
LEMMA Leaves ==
    /\ Kernel => UNCHANGED <<work, handler, raises, waiting, wire>>
    /\ Handler => UNCHANGED <<uart, dma, work, kernel, enabled, drive, raises, wire>> \/ EndOfInterrupt
    /\ Hardware => UNCHANGED <<dma, work, kernel, enabled, handler, _fdc_irq_fired, raises>>
    /\ \A d \in Devices :
        DeviceRaises(d) => UNCHANGED <<uart, dma, work, kernel, enabled, handler, _fdc_irq_fired, drive, wire>>
<1>1. Kernel => UNCHANGED <<work, handler, raises, waiting, wire>>
  BY Zenon DEF Kernel, printk, Calls, OthersCall, Sti, SendCommand, _fdc_wait_for_irq, PortWrite, PollEnds
<1>2. Handler => UNCHANGED <<uart, dma, work, kernel, enabled, drive, raises, wire>> \/ EndOfInterrupt
  BY Zenon DEF Handler, Interrupt, Service
<1>3. Hardware => UNCHANGED <<dma, work, kernel, enabled, handler, _fdc_irq_fired, raises>>
  BY Zenon DEF Hardware, UartTakes, UartSends, DriveTransfers
<1>4. \A d \in Devices :
        DeviceRaises(d) => UNCHANGED <<uart, dma, work, kernel, enabled, handler, _fdc_irq_fired, drive, wire>>
  BY Zenon DEF DeviceRaises
<1> QED BY <1>1, <1>2, <1>3, <1>4

LEMMA TypeHolds == Inv => TypeOK
<1> SUFFICES ASSUME Inv PROVE TypeOK
  OBVIOUS
<1>1. step \in 1 .. Len(kmain) + 1
  <2>1. Len(kmain) = 13
    BY KmainIs, Zenon DEF Inv
  <2>2. 1 .. 13 + 1 = 1 .. 14
    BY SMT
  <2> QED BY <2>1, <2>2, Zenon DEF Inv, Typed, KernelTyped
<1>2. todo \in Seq(Bytes \X (SerialPorts \cup PicPorts \cup DmaPorts)) /\ text \in Seq(Bytes)
  BY Zenon DEF Inv, Typed, KernelTyped, Ports
<1>3. /\ uart.thr \in Bytes \cup {NULL} /\ uart.shift \in Bytes \cup {NULL}
      /\ uart.dll \in Bytes /\ uart.dlm \in Bytes /\ uart.lcr \in Bytes
  <2>1. uart \in Uarts
    BY Zenon DEF Inv, Typed, ChipsTyped, UartTyped
  <2> QED BY <2>1 DEF Uarts
<1>4. \A c \in {"master", "slave"} : pic[c].base \in Bytes /\ pic[c].word \in {0, 2, 3, 4}
  <2>1. pic \in Pics
    BY Zenon DEF Inv, Typed, ChipsTyped, PicTyped
  <2> QED BY <2>1 DEF Pics, PicChips
<1>5. \A c \in Controllers : dma.chip[c].flipflop \in {0, 1} /\ dma.chip[c].mask \subseteq 0 .. 3
  <2>1. dma \in Dmas
    BY Zenon DEF Inv, Typed, ChipsTyped, DmaTyped
  <2>2. \A c \in Controllers : dma.chip[c] \in DmaChips
    BY <2>1 DEF Dmas
  <2> QED BY <2>2 DEF DmaChips
<1>6. /\ enabled \in BOOLEAN /\ _fdc_irq_fired \in BOOLEAN
      /\ waiting \subseteq Devices /\ drive \in {NULL, "read", "write"}
  BY Zenon DEF Inv, Typed, KernelTyped, DevicesTyped
<1> QED BY <1>1, <1>2, <1>3, <1>4, <1>5, <1>6, Zenon DEF TypeOK

LEMMA VectorsHold == Spec => []Vectors
<1>1. Init => Vectors
  BY DEF Init, Vectors
<1>2. Inv /\ Vectors /\ [Next]_vars => Vectors'
  <2> SUFFICES ASSUME Inv, Vectors, [Next]_vars PROVE Vectors'
    OBVIOUS
  <2>1. handler' = handler => Vectors'
    BY Zenon DEF Vectors
  <2>2. CASE Handler
    BY <2>2, InvInterrupt, InvService, InvEndOfInterrupt, Zenon DEF Handler
  <2>3. CASE UNCHANGED vars
    BY <2>1, <2>3 DEF vars
  <2>4. ~Handler /\ Next => handler' = handler
    BY Leaves, Zenon DEF Next
  <2> QED BY <2>1, <2>2, <2>3, <2>4, Zenon
<1> QED BY <1>1, <1>2, InvHolds, PTL DEF Spec

\* A port write never raises a request.
LEMMA PicOutRequests ==
    ASSUME NEW p \in Pics, NEW w \in Bytes \X PicPorts
    PROVE  PicOut(p, w[1], w[2]).master.irr \subseteq p.master.irr
<1> DEFINE v == w[1]
           port == w[2]
<1>1. p.master \in PicChips /\ DOMAIN p = {"master", "slave"} /\ p.master.word \in {0, 2, 3, 4}
  BY DEF Pics, PicChips
<1>2. DOMAIN p.master = {"word", "base", "cascade", "auto", "imr", "irr", "isr"}
  BY <1>1 DEF PicChips
<1> DEFINE c == p.master
<1>3. CommandByte(c, v).irr \subseteq c.irr
  <2> HIDE DEF c, v
  <2> QED BY <1>2 DEF CommandByte, c
<1>4. DataByte(c, v).irr \subseteq c.irr
  <2> HIDE DEF v
  <2>1. c.word = 0 \/ c.word = 2 \/ c.word = 3 \/ c.word = 4
    BY <1>1
  <2> HIDE DEF c
  <2> QED BY <1>2, <2>1 DEF DataByte, c
<1>5. port = 32 \/ port = 33 \/ port = 160 \/ port = 161
  BY DEF PicPorts
<1> DEFINE cb == CommandByte(c, v)
           db == DataByte(c, v)
           sb == CommandByte(p.slave, v)
           tb == DataByte(p.slave, v)
<1> DEFINE q == PicOut(p, v, port)
<1>6. (q = [p EXCEPT !.master = cb]) \/ (q = [p EXCEPT !.master = db]) \/ (q = [p EXCEPT !.slave = sb]) \/ (q = [p EXCEPT !.slave = tb])
  <2> HIDE DEF port, v
  <2> QED BY <1>5 DEF PicOut, MASTER_PIC_COMMAND_PORT, MASTER_PIC_DATA_PORT, SLAVE_PIC_COMMAND_PORT, SLAVE_PIC_DATA_PORT
<1> HIDE DEF cb, db, sb, tb, q
<1>7. q.master = cb \/ q.master = db \/ q.master = c
  BY <1>1, <1>6
<1>8. q.master.irr \subseteq c.irr
  BY <1>3, <1>4, <1>7, Zenon DEF cb, db
<1> QED BY <1>8 DEF q

(***************************************************************************)
(* Every variable of the machine keeps its type: at whatever step of       *)
(* kmain, the writes left are of bytes to the chips' ports, the UART's     *)
(* registers are bytes or empty, and both controllers stay where their     *)
(* initialisation can be.  For every workload, text and call of other      *)
(* drivers.                                                                *)
(***************************************************************************)
THEOREM StartTypes == Spec => []TypeOK
BY InvHolds, TypeHolds, PTL

-----------------------------------------------------------------------------
(***************************************************************************)
(* The floppy's interrupt.  Token says in which one place the end of a     *)
(* transfer is; only a handler on vector 38 sets the flag, and only for    *)
(* line 6.                                                                 *)
(***************************************************************************)

Quiet == ~Asked /\ ~Pending /\ ~Unserviced /\ ~_fdc_irq_fired

\* The end of a transfer goes from place to place, or stays where it is.
LEMMA TokenQuiet ==
    /\ Token /\ step \notin {10, 13} => Quiet
    /\ Quiet' => Token'
<1>1. Token /\ step \notin {10, 13} => Quiet
  BY Zenon DEF Token, Quiet
<1>2. Quiet' => Token'
  BY Zenon DEF Token, Quiet
<1> QED BY <1>1, <1>2

LEMMA TokenStays ==
    ASSUME Token, UNCHANGED <<step, drive>>, Pending' => Pending, Unserviced' => Unserviced,
           _fdc_irq_fired' => _fdc_irq_fired
    PROVE  Token'
<1>1. Asked' => Asked
  BY Zenon DEF Asked
<1>2. /\ Asked' \/ Pending' \/ Unserviced' \/ _fdc_irq_fired' => step' \in {10, 13}
      /\ Asked' => ~Pending' /\ ~Unserviced' /\ ~_fdc_irq_fired'
      /\ Pending' => ~Unserviced' /\ ~_fdc_irq_fired'
      /\ Unserviced' => ~_fdc_irq_fired'
      /\ Asked' => drive' = IF step' = 10 THEN "read" ELSE "write"
  BY <1>1, Zenon DEF Token
<1> QED BY <1>2, Zenon DEF Token

LEMMA TokenNext == Inv /\ Token /\ [Next]_vars => Token'
<1> SUFFICES ASSUME Inv, Token, [Next]_vars PROVE Token'
  OBVIOUS
<1>1. UNCHANGED <<pic, handler, drive, _fdc_irq_fired>> => (Pending' => Pending) /\ (Unserviced' => Unserviced)
        /\ (_fdc_irq_fired' => _fdc_irq_fired) /\ (Quiet => Quiet')
  <2> SUFFICES ASSUME UNCHANGED <<pic, handler, drive, _fdc_irq_fired>>
               PROVE  (Pending' => Pending) /\ (Unserviced' => Unserviced)
                        /\ (_fdc_irq_fired' => _fdc_irq_fired) /\ (Quiet => Quiet')
    OBVIOUS
  <2>1. (_fdc_irq_fired' <=> _fdc_irq_fired) /\ pic' = pic /\ handler' = handler /\ drive' = drive
    OBVIOUS
  <2>2. (Pending' <=> Pending) /\ (Unserviced' <=> Unserviced) /\ (Asked' <=> Asked)
    BY <2>1, Zenon DEF Pending, Unserviced, Asked
  <2> QED BY <2>1, <2>2, Zenon DEF Quiet
<1>2. CASE printk \/ Calls \/ OthersCall \/ Sti
  <2>1. step \notin {10, 13}
    <3>1. step \in {1, 3, 6} \/ step \in {2, 4, 8, 11} \/ step = 7 \/ step = 5
      BY <1>2, BeginsAt, Zenon DEF Inv, printk, Calls, OthersCall, Sti
    <3> QED BY <3>1
  <2>2. UNCHANGED <<pic, handler, drive, _fdc_irq_fired>>
    BY <1>2, Zenon DEF printk, Calls, OthersCall, Sti
  <2> QED BY <1>1, <2>1, <2>2, TokenQuiet, Zenon
<1>3. CASE SendCommand
  <2>1. step \in {9, 12} /\ step' = step + 1
    BY <1>3, BeginsAt, Zenon DEF Inv, SendCommand
  <2>2. Quiet
    <3>1. step \notin {10, 13}
      BY <2>1
    <3> QED BY <3>1, TokenQuiet, Zenon
  <2>3. drive' = IF step' = 10 THEN "read" ELSE "write"
    <3>1. step = 9 => kmain[step].is_write = FALSE
      BY KmainIs, SMT DEF Inv, Command
    <3>2. step = 12 => kmain[step].is_write = TRUE
      BY KmainIs, SMT DEF Inv, Command
    <3>3. drive' = IF kmain[step].is_write THEN "write" ELSE "read"
      BY <1>3, Zenon DEF SendCommand
    <3>4. (step = 9 => step' = 10) /\ (step = 12 => step' # 10)
      BY <2>1, SMT
    <3> QED BY <2>1, <3>1, <3>2, <3>3, <3>4, Zenon
  <2>4. step' \in {10, 13}
    BY <2>1
  <2>5. ~Pending' /\ ~Unserviced' /\ ~_fdc_irq_fired'
    BY <1>3, <2>2, Zenon DEF SendCommand, Quiet, Pending, Unserviced
  <2> QED BY <2>3, <2>4, <2>5, Zenon DEF Token
<1>4. CASE _fdc_wait_for_irq
  <2>1. _fdc_irq_fired /\ ~_fdc_irq_fired' /\ UNCHANGED <<pic, drive, handler>>
    BY <1>4, Zenon DEF _fdc_wait_for_irq
  <2>2. ~Asked /\ ~Pending /\ ~Unserviced
    BY <2>1, Zenon DEF Token
  <2>3. Quiet'
    BY <2>1, <2>2, Zenon DEF Quiet, Asked, Pending, Unserviced
  <2> QED BY <2>3, TokenQuiet, Zenon
<1>5. CASE PortWrite
  <2>1. todo # << >> /\ outb(Head(todo)) /\ UNCHANGED <<handler, drive, _fdc_irq_fired>>
    BY <1>5, Zenon DEF PortWrite
  <2>2. step \in {2, 3, 4, 5, 7, 8, 9, 12}
    BY <2>1, HeadIs, Zenon
  <2>3. Quiet
    <3>1. step \notin {10, 13}
      BY <2>2
    <3> QED BY <3>1, TokenQuiet, Zenon
  <2>4. Pending' => Pending
    <3>1. CASE step = 5
      <4>1. Head(todo) \in Bytes \X Ports /\ Head(todo)[2] \in PicPorts /\ pic \in Pics
        BY <2>1, <3>1, HeadIs, Zenon DEF Inv, Typed, ChipsTyped, PicTyped
      <4>2. Head(todo) \in Bytes \X PicPorts
        <5> DEFINE w == Head(todo)
        <5> HIDE DEF w
        <5>1. w \in Bytes \X Ports /\ w[2] \in PicPorts
          BY <4>1 DEF w
        <5>2. w \in Bytes \X PicPorts
          BY <5>1
        <5> QED BY <5>2 DEF w
      <4>3. pic' = PicOut(pic, Head(todo)[1], Head(todo)[2])
        BY <2>1, <3>1, HeadOut, Zenon
      <4>4. pic'.master.irr \subseteq pic.master.irr
        BY <4>1, <4>2, <4>3, PicOutRequests, Zenon
      <4> QED BY <4>4, Zenon DEF Pending
    <3>2. CASE step # 5
      <4>1. step \in {2, 3, 4, 7} \/ step >= 8
        BY <2>2, <3>2, SMT
      <4>2. pic' = pic
        BY <2>1, <4>1, HeadOut, Zenon
      <4> QED BY <4>2, Zenon DEF Pending
    <3> QED BY <3>1, <3>2
  <2>5. Quiet'
    BY <2>1, <2>3, <2>4, Zenon DEF Quiet, Asked, Unserviced
  <2> QED BY <2>5, TokenQuiet, Zenon
<1>6. CASE PollEnds
  <2>1. UNCHANGED <<step, pic, handler, drive, _fdc_irq_fired>>
    BY <1>6, Zenon DEF PollEnds
  <2> QED BY <1>1, <2>1, TokenStays, Zenon
<1>7. ASSUME NEW d \in Devices, Raise(d), d # "floppy" PROVE Pending' => Pending
  <2>1. pic' = Raised(pic, LineOf[d]) /\ pic \in Pics
    BY <1>7, Zenon DEF Raise, Inv, Typed, ChipsTyped, PicTyped
  <2> QED BY <1>7, <2>1, RaisedIs, Zenon DEF Pending
<1>8. ASSUME NEW d \in Devices, DeviceRaises(d) PROVE Token'
  <2>1. Raise(d) /\ raises[d] > 0 /\ UNCHANGED <<kernel, drive, handler, _fdc_irq_fired>>
    BY <1>8, Zenon DEF DeviceRaises
  <2>2. raises["floppy"] = 0
    BY Zenon DEF Inv, Typed, DevicesTyped
  <2>3. d # "floppy"
    <3>1. ~(0 > 0)
      BY SMT
    <3> QED BY <2>1, <2>2, <3>1, Zenon
  <2>4. Pending' => Pending
    BY <1>7, <2>1, <2>3, Zenon
  <2>5. step' = step /\ (Unserviced' => Unserviced) /\ (_fdc_irq_fired' => _fdc_irq_fired)
    BY <2>1, Zenon DEF kernel, Unserviced
  <2> QED BY <2>1, <2>4, <2>5, TokenStays, Zenon
<1>9. CASE UartTakes
  <2>1. (Raise("serial") \/ UNCHANGED <<pic, waiting>>) /\ UNCHANGED <<kernel, drive, handler, _fdc_irq_fired>>
    BY <1>9, Zenon DEF UartTakes
  <2>2. Pending' => Pending
    <3>1. "serial" \in Devices /\ "serial" # "floppy"
      BY DEF Devices, IRQ
    <3>2. UNCHANGED pic => (Pending' => Pending)
      BY Zenon DEF Pending
    <3> QED BY <1>7, <2>1, <3>1, <3>2, Zenon
  <2>3. step' = step /\ (Unserviced' => Unserviced) /\ (_fdc_irq_fired' => _fdc_irq_fired)
    BY <2>1, Zenon DEF kernel, Unserviced
  <2> QED BY <2>1, <2>2, <2>3, TokenStays, Zenon
<1>10. CASE UartSends
  <2>1. UNCHANGED <<kernel, pic, handler, drive, _fdc_irq_fired>>
    BY <1>10, Zenon DEF UartSends
  <2>2. step' = step
    BY <2>1, Zenon DEF kernel
  <2> QED BY <1>1, <2>1, <2>2, TokenStays, Zenon
<1>11. CASE DriveTransfers
  <2>1. Asked /\ drive' = NULL /\ UNCHANGED <<kernel, handler, _fdc_irq_fired>>
    BY <1>11, Zenon DEF DriveTransfers, Asked
  <2>2. step \in {10, 13} /\ ~Unserviced /\ ~_fdc_irq_fired
    BY <2>1, Zenon DEF Token
  <2>3. step' \in {10, 13} /\ ~Unserviced' /\ ~_fdc_irq_fired' /\ ~Asked'
    BY <2>1, <2>2, Zenon DEF Unserviced, Asked, kernel
  <2> QED BY <2>3, Zenon DEF Token
<1>12. CASE Interrupt
  <2> DEFINE ack == Acknowledged(pic)
  <2>1. /\ handler = NULL /\ MasterPasses(pic) # {} /\ pic' = ack.pic
        /\ handler' = [line |-> ack.line, vector |-> ack.vector, eoi |-> NULL]
        /\ UNCHANGED <<kernel, _fdc_irq_fired, drive>> /\ enabled
    BY <1>12, Zenon DEF Interrupt
  <2>2. step >= 6 /\ pic \in Pics /\ Requests(pic) /\ step \in 1 .. 14
    BY <2>1, Zenon DEF Inv, Flags, Typed, ChipsTyped, KernelTyped, PicTyped, PicSet
  <2>3. PicsSet(pic, 10)
    <3>1. step > 5
      BY <2>2, SMT
    <3> QED BY <3>1, Zenon DEF Inv, PicSet
  <2>4. (6 \in ack.pic.master.irr => 6 \in pic.master.irr)
          /\ (ack.vector = 38 => 6 \in pic.master.irr /\ 6 \notin ack.pic.master.irr)
    BY <2>1, <2>2, <2>3, AcknowledgedIs, Zenon
  <2> HIDE DEF ack
  <2>5. handler'.vector = ack.vector
    BY <2>1
  <2>6. (Pending' => Pending) /\ (Unserviced' => Pending /\ ~Pending')
    BY <2>1, <2>4, <2>5, Zenon DEF Pending, Unserviced
  <2>7. ~Unserviced /\ step' = step /\ (Asked' <=> Asked) /\ (_fdc_irq_fired' <=> _fdc_irq_fired)
    BY <2>1, Zenon DEF Unserviced, kernel, Asked
  <2>8. /\ Asked' \/ Pending' \/ Unserviced' \/ _fdc_irq_fired' => step' \in {10, 13}
        /\ Asked' => ~Pending' /\ ~Unserviced' /\ ~_fdc_irq_fired'
        /\ Pending' => ~Unserviced' /\ ~_fdc_irq_fired'
        /\ Unserviced' => ~_fdc_irq_fired'
    BY <2>6, <2>7, Zenon DEF Token
  <2>9. Asked' => drive' = IF step' = 10 THEN "read" ELSE "write"
    BY <2>1, <2>7, Zenon DEF Token
  <2> QED BY <2>8, <2>9, Zenon DEF Token
<1>13. CASE Service
  <2>1. /\ handler # NULL /\ handler.eoi = NULL
        /\ _fdc_irq_fired' = (_fdc_irq_fired \/ handler.vector = IRQ.floppy)
        /\ handler' = [handler EXCEPT !.eoi = pic_send_eoi(handler.vector)]
        /\ UNCHANGED <<pic, kernel, drive>>
    BY <1>13, Zenon DEF Service
  <2>2. handler \in Handlers
    BY <2>1, Zenon DEF Inv, Typed, KernelTyped
  <2>3. handler.vector \in Nat
    BY <2>2 DEF Handlers
  <2>4. pic_send_eoi(handler.vector) # NULL
    BY <2>3, Eoi, StartAssumption, Zenon
  <2>5. handler'.eoi = pic_send_eoi(handler.vector)
    BY <2>1, <2>2 DEF Handlers
  <2>6. ~Unserviced'
    BY <2>4, <2>5, Zenon DEF Unserviced
  <2>7. IRQ.floppy = 38
    BY DEF IRQ
  <2>8. _fdc_irq_fired' => _fdc_irq_fired \/ Unserviced
    BY <2>1, <2>7, Zenon DEF Unserviced
  <2>9. step' = step /\ (Asked' <=> Asked) /\ (Pending' <=> Pending)
    BY <2>1, Zenon DEF Asked, Pending, kernel
  <2>10. /\ Asked' \/ Pending' \/ Unserviced' \/ _fdc_irq_fired' => step' \in {10, 13}
         /\ Asked' => ~Pending' /\ ~Unserviced' /\ ~_fdc_irq_fired'
         /\ Pending' => ~Unserviced' /\ ~_fdc_irq_fired'
         /\ Unserviced' => ~_fdc_irq_fired'
    BY <2>6, <2>8, <2>9, Zenon DEF Token
  <2>11. Asked' => drive' = IF step' = 10 THEN "read" ELSE "write"
    BY <2>1, <2>9, Zenon DEF Token
  <2> QED BY <2>10, <2>11, Zenon DEF Token
<1>14. CASE EndOfInterrupt
  <2>1. UNCHANGED <<kernel, _fdc_irq_fired, drive>>
    BY <1>14, Zenon DEF EndOfInterrupt
  <2>2. pic'.master.irr = pic.master.irr /\ (handler' # NULL => handler'.eoi # NULL)
    BY <1>14, EndIs, Zenon
  <2>3. ~Unserviced' /\ (Pending' => Pending)
    BY <2>2, Zenon DEF Unserviced, Pending
  <2>4. step' = step /\ (_fdc_irq_fired' => _fdc_irq_fired)
    BY <2>1, Zenon DEF kernel
  <2> QED BY <2>1, <2>3, <2>4, TokenStays, Zenon
<1>15. CASE UNCHANGED vars
  <2>1. UNCHANGED <<kernel, pic, handler, drive, _fdc_irq_fired>>
    BY <1>15, Zenon DEF vars
  <2>2. step' = step
    BY <2>1, Zenon DEF kernel
  <2> QED BY <1>1, <2>1, <2>2, TokenStays, Zenon
<1> QED BY <1>2, <1>3, <1>4, <1>5, <1>6, <1>8, <1>9, <1>10, <1>11, <1>12, <1>13, <1>14, <1>15, Zenon
        DEF Next, Kernel, Handler, Hardware

LEMMA TokenHolds == Spec => []Token
<1>1. Init => Token
  <2>1. Init => ~Asked /\ ~Pending /\ ~Unserviced /\ ~_fdc_irq_fired
    BY SMT DEF Init, Asked, Pending, Unserviced, Chip
  <2> QED BY <2>1, Zenon DEF Token
<1> QED BY <1>1, TokenNext, InvHolds, PTL DEF Spec

(***************************************************************************)
(* pic_init: an interrupt is taken only on the vector its device's driver  *)
(* registered for, and the floppy driver finds its flag set only once the  *)
(* drive has finished (_fdc_wait_for_irq cannot run ahead of the           *)
(* transfer).                                                              *)
(***************************************************************************)
THEOREM StartInterruptsOnTheirVectors == Spec => []InterruptsOnTheirVectors
<1>1. Vectors /\ Token => InterruptsOnTheirVectors
  BY Zenon DEF Vectors, Token, Asked, InterruptsOnTheirVectors
<1> QED BY <1>1, VectorsHold, TokenHolds, PTL

-----------------------------------------------------------------------------
(***************************************************************************)
(* The serial port.  UartSet says how far serial_init has got.             *)
(***************************************************************************)

LEMMA LineSetEnds == \A u : \A m \in {8, 9} : LineSet(u, m) <=> LineSet(u, 9)
<1> SUFFICES ASSUME NEW u PROVE LineSet(u, 8) <=> LineSet(u, 9)
  BY Zenon
<1>1. 8 \notin 3 .. 5 /\ 9 \notin 3 .. 5 /\ 8 # 6 /\ 9 # 6 /\ 8 >= 4 /\ 9 >= 4 /\ 8 >= 5 /\ 9 >= 5
  BY SMT
<1> QED BY <1>1, Zenon DEF LineSet

LEMMA SerialLength ==
    ASSUME Inv
    PROVE  Len(SerialInit) \in {8, 9}
<1>1. work.intr_mode \in BOOLEAN
  BY KmainIs, Zenon DEF Inv
<1> QED BY <1>1, SerialWrites DEF SerialInit

\* kmain goes on: the port is as far as it was.
LEMMA BeginsUart ==
    ASSUME Inv, UartSet, NEW op, Begins(op), UNCHANGED <<uart, work>>, step = 2 => todo' = SerialInit
    PROVE  UartSet'
<1>1. step \in 1 .. 13 /\ step' = step + 1 /\ todo = << >> /\ uart' = uart /\ SerialInit' = SerialInit
  BY BeginsAt DEF Inv, SerialInit
<1>2. CASE step < 2
  <2>1. LineSet(uart', 0) /\ step' = 2
    <3>1. step < 3 /\ step' = 2
      BY <1>1, <1>2, SMT
    <3> QED BY <1>1, <3>1, Zenon DEF UartSet
  <2> QED BY <2>1, SMT DEF UartSet
<1>3. CASE step = 2
  <2>1. LineSet(uart', 0) /\ step' = 3
    <3>1. step < 3 /\ step' = 3
      BY <1>1, <1>3, SMT
    <3> QED BY <1>1, <3>1, Zenon DEF UartSet
  <2>2. Len(SerialInit') - Len(todo') = 0
    <3>1. Len(SerialInit) \in {8, 9} /\ SerialInit' = SerialInit /\ todo' = SerialInit
      BY <1>1, <1>3, SerialLength, Zenon
    <3> QED BY <3>1, SMT
  <2> QED BY <2>1, <2>2, SMT DEF UartSet
<1>4. CASE step >= 3
  <2>1. LineSet(uart', 9)
    <3>1. CASE step = 3
      <4>1. Len(SerialInit) \in {8, 9}
        BY SerialLength, Zenon
      <4>2. Len(SerialInit) - Len(todo) = Len(SerialInit)
        BY <1>1, <4>1, SMT
      <4>3. LineSet(uart, Len(SerialInit))
        BY <3>1, <4>2, Zenon DEF UartSet
      <4> QED BY <1>1, <4>1, <4>3, LineSetEnds, Zenon
    <3>2. CASE step > 3
      BY <1>1, <3>2, Zenon DEF UartSet
    <3> QED BY <1>1, <1>4, <3>1, <3>2, SMT
  <2>2. step' > 3
    BY <1>1, <1>4, SMT
  <2>3. ~(step' < 3) /\ step' # 3
    BY <2>2, <1>1, SMT
  <2> QED BY <2>1, <2>2, <2>3, Zenon DEF UartSet
<1> QED BY <1>1, <1>2, <1>3, <1>4, SMT

\* A step that leaves the framing alone.
LEMMA SameUart ==
    ASSUME UartSet, UNCHANGED <<work, step>>, step = 3 => todo' = todo,
           uart'.lcr = uart.lcr, uart'.dll = uart.dll, uart'.dlm = uart.dlm
    PROVE  UartSet'
<1>1. \A m : LineSet(uart, m) => LineSet(uart', m)
  BY Zenon DEF LineSet
<1>2. SerialInit' = SerialInit /\ step' = step
  BY DEF SerialInit
<1> QED BY <1>1, <1>2, Zenon DEF UartSet

\* What kmain's write does to the port.
LEMMA WriteUart ==
    ASSUME Inv, UartSet, PortWrite
    PROVE  /\ UartSet' /\ uart'.shift = uart.shift
           /\ step \in {2, 4, 7} => uart'.thr = Head(todo)[1]
           /\ step \notin {2, 4, 7} => uart'.thr = uart.thr
<1> DEFINE w == Head(todo)
<1>1. todo # << >> /\ outb(w) /\ todo' = Tail(todo) /\ UNCHANGED <<work, step>> /\ uart \in Uarts
        /\ todo \in Seq(Bytes \X Ports)
  BY Zenon DEF PortWrite, Inv, Typed, ChipsTyped, UartTyped, KernelTyped
<1>2. step \in {2, 3, 4, 5, 7, 8, 9, 12}
  BY <1>1, HeadIs, Zenon
<1>3. CASE step \in {2, 4, 7}
  <2>1. uart' = UartOut(uart, w[1], SERIAL_XMITBUF)
    BY <1>1, <1>3, HeadOut, HeadIs, Zenon
  <2>2. uart.lcr = 3
    <3>1. 0 \notin 3 .. 5 /\ 0 # 6 /\ 9 \notin 3 .. 5 /\ 9 # 6
      BY SMT
    <3>2. step < 3 \/ step > 3
      BY <1>3, SMT
    <3> QED BY <3>1, <3>2, Zenon DEF UartSet, LineSet
  <2>3. ~(3 >= LINECTRL_DLAB)
    BY SMT DEF LINECTRL_DLAB
  <2>4. uart' = [uart EXCEPT !.thr = w[1]]
    <3>1. \A u, v : u.lcr = 3 => UartOut(u, v, SERIAL_XMITBUF) = [u EXCEPT !.thr = v]
      BY <2>3, SMT DEF UartOut, SERIAL_XMITBUF, SERIAL_IER, SERIAL_FIFOCTRL, SERIAL_LINECTRL, SERIAL_MODEMCTRL, COM1_IO_BASE
    <3> QED BY <2>1, <2>2, <3>1, Zenon
  <2> HIDE DEF w
  <2>5. /\ uart'.lcr = uart.lcr /\ uart'.dll = uart.dll /\ uart'.dlm = uart.dlm
        /\ uart'.shift = uart.shift /\ uart'.thr = w[1]
    BY <1>1, <2>4 DEF Uarts
  <2>6. step # 3
    BY <1>3
  <2>7. UartSet'
    BY <1>1, <2>5, <2>6, SameUart, Zenon
  <2> QED BY <1>3, <2>5, <2>7 DEF w
<1>4. CASE step = 3
  <2> DEFINE L == Len(SerialInit)
             n == Len(todo)
             m == L - n
  <2>1. RestIs(todo, SerialInit) /\ work.intr_mode \in BOOLEAN /\ L \in {8, 9}
    BY <1>4, SerialLength, KmainIs, Zenon DEF Inv, Walk
  <2>2. n \in 1 .. L /\ w = SerialInit[L - n + 1] /\ Len(todo') = n - 1
    <3>1. todo # << >> /\ todo \in Seq(Bytes \X Ports) /\ todo' = Tail(todo)
      BY <1>1, Zenon
    <3> QED BY <2>1, <3>1, SMT DEF RestIs
  <2> HIDE DEF L, n, w
  <2>3. m \in 0 .. 8 /\ m < L /\ L - Len(todo') = m + 1
    BY <2>1, <2>2, SMT
  <2>4. w = SerialInit[m + 1]
    BY <2>2
  <2>5. LineSet(uart, m)
    BY <1>4, Zenon DEF UartSet, L, n
  <2>6. uart' = UartOut(uart, w[1], w[2])
    BY <1>1, <1>4, HeadOut, Zenon DEF w
  <2> HIDE DEF m
  <2>7. LineSet(uart', m + 1) /\ uart'.thr = uart.thr /\ uart'.shift = uart.shift
    <3>1. w = serial_init(work.intr_mode)[m + 1] /\ m < Len(serial_init(work.intr_mode))
      BY <2>3, <2>4 DEF SerialInit, L
    <3> QED BY <1>1, <2>1, <2>3, <2>5, <2>6, <3>1, SerialInitStep, Zenon
  <2>8. SerialInit' = SerialInit
    BY <1>1 DEF SerialInit
  <2>9. LineSet(uart', Len(SerialInit') - Len(todo'))
    BY <2>3, <2>7, <2>8 DEF L
  <2>10. UartSet'
    <3>1. step' = 3 /\ ~(step' < 3) /\ ~(step' > 3)
      BY <1>1, <1>4, SMT
    <3> QED BY <2>9, <3>1, Zenon DEF UartSet
  <2> QED BY <1>4, <2>7, <2>10
<1>5. CASE step \notin {2, 3, 4, 7}
  <2>1. step = 5 \/ step >= 8
    BY <1>2, <1>5, SMT
  <2>2. uart' = uart
    BY <1>1, <2>1, HeadOut, Zenon
  <2>3. step # 3
    BY <1>5
  <2>4. UartSet'
    BY <1>1, <2>2, <2>3, SameUart, Zenon
  <2> QED BY <1>5, <2>2, <2>4
<1> QED BY <1>3, <1>4, <1>5, Zenon

LEMMA UartNext == Inv /\ UartSet /\ [Next]_vars => UartSet'
<1> SUFFICES ASSUME Inv, UartSet, [Next]_vars PROVE UartSet'
  OBVIOUS
<1>1. UNCHANGED <<uart, work, step>> /\ (step = 3 => todo' = todo) => UartSet'
  BY SameUart, Zenon
<1>2. CASE printk \/ OthersCall \/ Sti \/ SendCommand \/ _fdc_wait_for_irq
  <2>1. \E op : Begins(op) /\ op \in {"print", "others", "sti", "command", "wait"}
    BY <1>2, Zenon DEF printk, OthersCall, Sti, SendCommand, _fdc_wait_for_irq
  <2>2. PICK op : Begins(op) /\ op \in {"print", "others", "sti", "command", "wait"}
    BY <2>1
  <2>3. step # 2
    <3>1. step \in {1, 3, 6} \/ step = 7 \/ step = 5 \/ step \in {9, 12} \/ step \in {10, 13}
      BY <2>2, BeginsAt, Zenon DEF Inv
    <3> QED BY <3>1
  <2>4. UNCHANGED <<uart, work>>
    BY <1>2, Zenon DEF printk, OthersCall, Sti, SendCommand, _fdc_wait_for_irq
  <2> QED BY <2>2, <2>3, <2>4, BeginsUart, Zenon
<1>3. CASE Calls
  <2>1. step = 2 => todo' = SerialInit
    BY <1>3, CallIs, Zenon DEF Calls, Inv
  <2> QED BY <1>3, <2>1, BeginsUart, Zenon DEF Calls
<1>4. CASE PortWrite
  BY <1>4, WriteUart, Zenon
<1>5. CASE PollEnds
  <2>1. step # 3
    <3>1. step \in {2, 4, 7}
      BY <1>5, Zenon DEF Inv, Walk, PollEnds
    <3> QED BY <3>1
  <2> QED BY <1>1, <1>5, <2>1, Zenon DEF PollEnds
<1>6. CASE Handler
  <2>1. UNCHANGED <<uart, work, kernel>>
    BY <1>6, EndIs, Zenon DEF Handler, Interrupt, Service, EndOfInterrupt
  <2>2. UNCHANGED <<step, todo>>
    BY <2>1, Zenon DEF kernel
  <2> QED BY <1>1, <2>1, <2>2, Zenon
<1>7. CASE DriveTransfers \/ (\E d \in Devices : DeviceRaises(d)) \/ UNCHANGED vars
  <2>1. UNCHANGED <<uart, work, kernel>>
    BY <1>7, Zenon DEF DriveTransfers, DeviceRaises, vars
  <2>2. UNCHANGED <<step, todo>>
    BY <2>1, Zenon DEF kernel
  <2> QED BY <1>1, <2>1, <2>2, Zenon
<1>8. CASE UartTakes \/ UartSends
  <2>1. UNCHANGED <<work, kernel>> /\ (uart' = [uart EXCEPT !.thr = NULL, !.shift = uart.thr] \/ uart' = [uart EXCEPT !.shift = NULL])
    BY <1>8, Zenon DEF UartTakes, UartSends
  <2>2. uart \in Uarts
    BY Zenon DEF Inv, Typed, ChipsTyped, UartTyped
  <2>3. uart'.lcr = uart.lcr /\ uart'.dll = uart.dll /\ uart'.dlm = uart.dlm
    BY <2>1, <2>2 DEF Uarts
  <2>4. UNCHANGED <<step, todo>>
    BY <2>1, Zenon DEF kernel
  <2> QED BY <2>1, <2>3, <2>4, SameUart, Zenon
<1> QED BY <1>2, <1>3, <1>4, <1>5, <1>6, <1>7, <1>8, Zenon DEF Next, Kernel, Hardware

LEMMA UartHolds == Spec => []UartSet
<1>1. Init => UartSet
  <2> SUFFICES ASSUME Init PROVE UartSet
    OBVIOUS
  <2>1. step = 1 /\ uart.lcr = 3
    BY DEF Init, Uart, LINECTRL_8N1
  <2>2. LineSet(uart, 0)
    BY <2>1, SMT DEF LineSet
  <2> QED BY <2>1, <2>2, SMT DEF UartSet
<1> QED BY <1>1, UartNext, InvHolds, PTL DEF Spec

-----------------------------------------------------------------------------
(***************************************************************************)
(* The floppy's DMA channel.  FloppySet says how far _fdc_init_dma has     *)
(* got.                                                                    *)
(***************************************************************************)

LEMMA ChannelUnset == \A d, mode : ChannelSet(d, 12, mode)
<1>1. ~(12 <= 9) /\ ~(12 <= 8) /\ ~(12 <= 6) /\ ~(12 <= 5) /\ ~(12 <= 4) /\ ~(12 <= 2) /\ ~(12 <= 1)
        /\ 12 \notin {7, 10} /\ 12 \notin {6, 9}
  BY SMT
<1> QED BY <1>1, Zenon DEF ChannelSet

\* The writes of _fdc_init_dma, for either direction.
FdcInit(is_write) == _fdc_init_dma(511, is_write)

LEMMA FdcInitIs ==
    /\ FloppyRead = FdcInit(FALSE) /\ FloppyWrite = FdcInit(TRUE)
    /\ \A w \in BOOLEAN : Len(FdcInit(w)) = 12
<1>1. FloppyRead = FdcInit(FALSE) /\ FloppyWrite = FdcInit(TRUE)
  BY DEF FloppyRead, FloppyWrite, FdcInit
<1>2. ASSUME NEW w \in BOOLEAN PROVE Len(FdcInit(w)) = 12
  BY FdcWrites DEF FdcInit
<1> QED BY <1>1, <1>2

LEMMA FdcInitStep ==
    ASSUME NEW d \in Dmas, NEW is_write \in BOOLEAN, NEW n \in 1 .. 12,
           ChannelSet(d, n, IF is_write THEN 74 ELSE 70)
    PROVE  ChannelSet(DmaOut(d, FdcInit(is_write)[13 - n][1], FdcInit(is_write)[13 - n][2]), n - 1,
                      IF is_write THEN 74 ELSE 70)
BY ChannelStep DEF FdcInit

LEMMA HeadLen ==
    ASSUME NEW S, NEW s \in Seq(S), s # << >>
    PROVE  Len(s) \in Nat \ {0} /\ Head(s) = s[1] /\ Len(Tail(s)) = Len(s) - 1
OBVIOUS

\* kmain makes the n-th write from the end of _fdc_init_dma.
LEMMA WriteChannel ==
    ASSUME Inv, PortWrite, NEW is_write \in BOOLEAN,
           step = (IF is_write THEN 12 ELSE 9),
           ChannelSet(dma, Len(todo), IF is_write THEN 74 ELSE 70)
    PROVE  ChannelSet(dma', Len(todo'), IF is_write THEN 74 ELSE 70)
<1> DEFINE w == Head(todo)
           s == FdcInit(is_write)
           n == Len(todo)
           mode == IF is_write THEN 74 ELSE 70
<1>1. todo # << >> /\ outb(w) /\ todo' = Tail(todo) /\ dma \in Dmas /\ todo \in Seq(Bytes \X Ports)
  BY Zenon DEF PortWrite, Inv, Typed, ChipsTyped, DmaTyped, KernelTyped
<1>2. RestIs(todo, s)
  <2>1. is_write = TRUE \/ is_write = FALSE
    OBVIOUS
  <2>2. CASE is_write = TRUE
    BY <2>2, FdcInitIs, Zenon DEF Inv, Walk
  <2>3. CASE is_write = FALSE
    BY <2>3, FdcInitIs, Zenon DEF Inv, Walk
  <2> QED BY <2>1, <2>2, <2>3
<1>3. Len(s) = 12
  BY FdcInitIs, Zenon
<1> HIDE DEF s, mode
<1>4. n \in 1 .. 12 /\ w = s[13 - n] /\ Len(todo') = n - 1
  <2>1. n \in 1 .. 12 /\ w = todo[1] /\ Len(todo') = n - 1
    <3>1. todo # << >> /\ todo' = Tail(todo) /\ todo \in Seq(Bytes \X Ports) /\ Len(todo) <= 12
      BY <1>1, <1>2, <1>3, Zenon DEF RestIs
    <3>2. Len(todo) \in Nat \ {0} /\ Head(todo) = todo[1] /\ Len(Tail(todo)) = Len(todo) - 1
      BY <3>1, HeadLen, Zenon
    <3>3. \A k \in Nat \ {0} : k <= 12 => k \in 1 .. 12
      BY SMT
    <3> QED BY <3>1, <3>2, <3>3, Zenon
  <2>2. todo[1] = s[12 - n + 1]
    BY <1>2, <1>3, <2>1, SMT DEF RestIs
  <2>3. 12 - n + 1 = 13 - n
    BY <2>1, SMT
  <2> QED BY <2>1, <2>2, <2>3
<1>5. step >= 8
  <2>1. 9 >= 8 /\ 12 >= 8
    BY SMT
  <2> QED BY <2>1, Zenon
<1>6. dma' = DmaOut(dma, w[1], w[2])
  BY <1>1, <1>5, HeadOut, Zenon
<1>7. ChannelSet(dma, n, IF is_write THEN 74 ELSE 70)
  OBVIOUS
<1> HIDE DEF n, w
<1>8. ChannelSet(DmaOut(dma, s[13 - n][1], s[13 - n][2]), n - 1, IF is_write THEN 74 ELSE 70)
  BY <1>1, <1>4, <1>7, FdcInitStep, Zenon DEF s
<1> QED BY <1>4, <1>6, <1>8, Zenon

LEMMA FloppyNext == Inv /\ FloppySet /\ [Next]_vars => FloppySet'
<1> SUFFICES ASSUME Inv, FloppySet, [Next]_vars PROVE FloppySet'
  OBVIOUS
<1>1. UNCHANGED <<dma, step, todo>> => FloppySet'
  BY Zenon DEF FloppySet
<1>2. CASE printk \/ OthersCall \/ Sti \/ _fdc_wait_for_irq
  <2>1. step' \notin {9, 10, 12, 13}
    <3>1. step \in {1, 3, 5, 6, 7, 10, 13} /\ step' = step + 1
      BY <1>2, BeginsAt, Zenon DEF Inv, printk, OthersCall, Sti, _fdc_wait_for_irq
    <3> QED BY <3>1, SMT
  <2> QED BY <2>1, Zenon DEF FloppySet
<1>3. CASE SendCommand
  <2>1. step \in {9, 12} /\ step' = step + 1 /\ UNCHANGED <<dma, todo>>
    BY <1>3, BeginsAt, Zenon DEF Inv, SendCommand
  <2>2. (step = 9 /\ step' = 10) \/ (step = 12 /\ step' = 13)
    BY <2>1, SMT
  <2>3. (10 \notin {12, 13}) /\ (13 \notin {9, 10})
    OBVIOUS
  <2>4. CASE step = 9 /\ step' = 10
    BY <2>1, <2>3, <2>4, Zenon DEF FloppySet
  <2>5. CASE step = 12 /\ step' = 13
    BY <2>1, <2>3, <2>5, Zenon DEF FloppySet
  <2> QED BY <2>2, <2>4, <2>5
<1>4. CASE Calls
  <2>1. step \in {2, 4, 8, 11} /\ step' = step + 1 /\ todo' = kmain[step].writes
    BY <1>4, BeginsAt, Zenon DEF Inv, Calls
  <2>2. step \in {8, 11} => Len(todo') = 12
    BY <2>1, CallIs, InitsTyped, Zenon DEF Inv
  <2>3. (step \in {8, 11}) \/ step' \notin {9, 10, 12, 13}
    BY <2>1, SMT
  <2> QED BY <2>2, <2>3, ChannelUnset, ZenonT(40) DEF FloppySet
<1>5. CASE PortWrite
  <2>1. todo # << >> /\ step' = step
    BY <1>5, Zenon DEF PortWrite
  <2>2. step \in {2, 3, 4, 5, 7, 8, 9, 12}
    BY <2>1, HeadIs, Zenon
  <2>3. CASE step = 9
    <3>1. ChannelSet(dma, Len(todo), 70)
      BY <2>3, Zenon DEF FloppySet
    <3>2. ChannelSet(dma', Len(todo'), 70)
      BY <1>5, <2>3, <3>1, WriteChannel, Zenon
    <3>3. step' \notin {12, 13}
      BY <2>1, <2>3
    <3> QED BY <3>2, <3>3, Zenon DEF FloppySet
  <2>4. CASE step = 12
    <3>1. ChannelSet(dma, Len(todo), 74)
      BY <2>4, Zenon DEF FloppySet
    <3>2. ChannelSet(dma', Len(todo'), 74)
      BY <1>5, <2>4, <3>1, WriteChannel, Zenon
    <3>3. step' \notin {9, 10}
      BY <2>1, <2>4
    <3> QED BY <3>2, <3>3, Zenon DEF FloppySet
  <2>5. CASE step \notin {9, 12}
    <3>1. step' \notin {9, 10, 12, 13}
      BY <2>1, <2>2, <2>5
    <3> QED BY <3>1, Zenon DEF FloppySet
  <2> QED BY <2>3, <2>4, <2>5
<1>6. CASE PollEnds
  <2>1. step' \notin {9, 10, 12, 13}
    <3>1. step \in {2, 4, 7} /\ step' = step
      BY <1>6, Zenon DEF Inv, Walk, PollEnds
    <3> QED BY <3>1
  <2> QED BY <2>1, Zenon DEF FloppySet
<1>7. CASE Handler
  <2>1. UNCHANGED <<dma, kernel>>
    BY <1>7, EndIs, Zenon DEF Handler, Interrupt, Service, EndOfInterrupt
  <2> QED BY <1>1, <2>1, Zenon DEF kernel
<1>8. CASE Hardware \/ (\E d \in Devices : DeviceRaises(d)) \/ UNCHANGED vars
  <2>1. UNCHANGED <<dma, kernel>>
    BY <1>8, Leaves, Zenon DEF vars
  <2> QED BY <1>1, <2>1, Zenon DEF kernel
<1> QED BY <1>2, <1>3, <1>4, <1>5, <1>6, <1>7, <1>8, Zenon DEF Next, Kernel

LEMMA FloppyHolds == Spec => []FloppySet
<1>1. Init => FloppySet
  BY SMT DEF Init, FloppySet
<1> QED BY <1>1, FloppyNext, InvHolds, PTL DEF Spec

LEMMA ProgrammedIs ==
    ASSUME Inv, NEW mode, ChannelSet(dma, 0, mode)
    PROVE  /\ Programmed(dma, 2) = [address |-> 4096, page |-> 0, count |-> 511, mode |-> mode]
           /\ 2 \notin dma.chip[0].mask
<1> DEFINE c == dma.chip[0]
<1>1. 0 <= 9 /\ 0 <= 8 /\ 0 <= 6 /\ 0 <= 5 /\ 0 <= 4 /\ 0 <= 2 /\ 0 <= 1
  BY SMT
<1>2. /\ c.address[2][1] = 0 /\ c.address[2][2] = 16 /\ c.count[2][1] = 255 /\ c.count[2][2] = 1
      /\ dma.page[129] = 0 /\ c.mode[2] = mode /\ 2 \notin c.mask
  BY <1>1, Zenon DEF ChannelSet
<1>3. 2 \div 4 = 0 /\ 2 % 4 = 2 /\ PageOf(2) = 129
  BY SMT DEF PageOf
<1>4. 0 + 256 * 16 = 4096 /\ 255 + 256 * 1 = 511
  BY SMT
<1> QED BY <1>2, <1>3, <1>4 DEF Programmed

LEMMA TransferHolds == Inv /\ Token /\ FloppySet => FloppyTransferAsProgrammed
<1> SUFFICES ASSUME Inv, Token, FloppySet, drive # NULL
             PROVE  /\ Programmed(dma, DMA_CHAN_FLOPPY) =
                        [address |-> FLOPPY_DMA_BUFFER, page |-> 0, count |-> 511,
                         mode |-> DMA_CHAN_FLOPPY + DMA_MODE_SINGLE
                                    + IF drive = "write" THEN DMA_MODE_WRITE ELSE DMA_MODE_READ]
                    /\ Cascaded(dma) /\ ~dma.chip[0].disabled => Ready(dma, DMA_CHAN_FLOPPY)
  BY DEF FloppyTransferAsProgrammed
<1>1. step \in {10, 13} /\ drive = IF step = 10 THEN "read" ELSE "write"
  BY Zenon DEF Token, Asked
<1>2. todo = << >>
  BY <1>1, Zenon DEF Inv, Walk
<1>3. Len(todo) = 0
  BY <1>2
<1> DEFINE mode == IF drive = "write" THEN 74 ELSE 70
<1>4. ChannelSet(dma, 0, mode)
  <2>1. step = 10 => drive # "write"
    BY <1>1
  <2>2. step # 10 => drive = "write" /\ step = 13
    BY <1>1
  <2> QED BY <1>3, <2>1, <2>2, Zenon DEF FloppySet
<1>5. DMA_CHAN_FLOPPY = 2 /\ FLOPPY_DMA_BUFFER = 4096
  BY DEF DMA_CHAN_FLOPPY, FLOPPY_DMA_BUFFER
<1>6. DMA_CHAN_FLOPPY + DMA_MODE_SINGLE + (IF drive = "write" THEN DMA_MODE_WRITE ELSE DMA_MODE_READ) = mode
  BY SMT DEF DMA_CHAN_FLOPPY, DMA_MODE_SINGLE, DMA_MODE_WRITE, DMA_MODE_READ
<1> HIDE DEF mode
<1>7. /\ Programmed(dma, 2) = [address |-> 4096, page |-> 0, count |-> 511, mode |-> mode]
      /\ 2 \notin dma.chip[0].mask
  BY <1>4, ProgrammedIs
<1>8. Cascaded(dma) /\ ~dma.chip[0].disabled => Ready(dma, DMA_CHAN_FLOPPY)
  <2>1. 2 \div 4 = 0 /\ 2 % 4 = 2
    BY SMT
  <2>2. 2 \notin dma.chip[0].mask
    BY <1>7
  <2>3. DMA_CHAN_FLOPPY = 2
    BY <1>5
  <2> QED BY <2>1, <2>2, <2>3, Zenon DEF Ready, Open
<1> QED BY <1>5, <1>6, <1>7, <1>8

LEMMA OthersAlone == Inv /\ [Next]_vars => [LeavesOthersAlone]_dma
<1> SUFFICES ASSUME Inv, [Next]_vars, dma' # dma PROVE LeavesOthersAlone
  BY Zenon
<1>1. PortWrite
  <2>1. ~Handler
    <3>1. Handler => dma' = dma
      BY EndIs, Zenon DEF Handler, Interrupt, Service
    <3> QED BY <3>1
  <2>2. ~Hardware /\ ~(\E d \in Devices : DeviceRaises(d)) /\ ~(UNCHANGED vars)
    BY Leaves, Zenon DEF vars
  <2>3. Kernel
    BY <2>1, <2>2, Zenon DEF Next
  <2> QED BY <2>3, Zenon DEF Kernel, printk, Calls, OthersCall, Sti, SendCommand, _fdc_wait_for_irq, PollEnds
<1> DEFINE w == Head(todo)
<1>2. todo # << >> /\ outb(w) /\ dma \in Dmas
  BY <1>1, Zenon DEF PortWrite, Inv, Typed, ChipsTyped, DmaTyped
<1>3. step >= 8
  <2>1. step \in {2, 3, 4, 5, 7, 8, 9, 12}
    BY <1>2, HeadIs, Zenon
  <2>2. step \notin {2, 3, 4, 5, 7}
    BY <1>2, HeadOut, Zenon
  <2> QED BY <2>1, <2>2, SMT
<1>4. dma' = DmaOut(dma, w[1], w[2]) /\ Local(channel, w)
  BY <1>2, <1>3, HeadOut, HeadIs, Zenon
<1>5. ASSUME NEW c \in Channels
      PROVE  Programmed(dma', c) = Programmed(dma, c) \/ channel = c
               \/ (c = 1 /\ channel = 3 /\ [Programmed(dma', c) EXCEPT !.page = 0] = [Programmed(dma, c) EXCEPT !.page = 0])
  BY <1>2, <1>4, Zenon DEF Local, SameRegisters, SameButPage
<1> QED BY <1>5, Zenon DEF LeavesOthersAlone

(***************************************************************************)
(* _fdc_init_dma: when a command goes to the drive its channel moves the   *)
(* 512 bytes of the sector in the direction of the command, whatever the   *)
(* flip-flop and the registers held and whatever other drivers called.     *)
(***************************************************************************)
THEOREM StartFloppyTransferAsProgrammed == Spec => []FloppyTransferAsProgrammed
BY InvHolds, TokenHolds, FloppyHolds, TransferHolds, PTL

(***************************************************************************)
(* dma.c: no write of a call for one channel changes what another channel  *)
(* is programmed to do, but for the page of channel 1, whose port the      *)
(* driver also gives to channel 3.                                         *)
(***************************************************************************)
THEOREM StartChannelsIndependent == Spec => ChannelsIndependent
<1>1. Inv /\ [Next]_vars => [LeavesOthersAlone]_dma
  BY OthersAlone
<1> QED BY <1>1, InvHolds, PTL DEF Spec, ChannelsIndependent

-----------------------------------------------------------------------------
(***************************************************************************)
(* The text on the line.  What kmain has said is FlattenSeq of the         *)
(* messages it has begun; a character moves from kmain's text to the       *)
(* pending write, the holding register, the shift register and the line.   *)
(***************************************************************************)

\* The n-th step of kmain, as far as its text goes.
Piece(m, i) == IF Script[m][i].op = "print" THEN Script[m][i].text ELSE << >>

LEMMA PieceIs ==
    ASSUME NEW m \in BOOLEAN
    PROVE  /\ Piece(m, 1) = serial_puts(LoadMsg)
           /\ \A i \in {3, 6} : Piece(m, i) = serial_puts(LogMsg)
           /\ \A i \in {2, 4, 5, 7, 8, 9, 10, 11, 12, 13} : Piece(m, i) = << >>
           /\ \A i \in 1 .. 13 : Piece(m, i) \in Seq(Bytes)
<1> DEFINE k == Script[m]
<1>0. /\ k[1] = Prints(LoadMsg) /\ k[2] = Call(serial_init(m)) /\ k[3] = Prints(LogMsg)
      /\ k[4] = Call(pic_init(32, 40)) /\ k[5] = [op |-> "sti"] /\ k[6] = Prints(LogMsg)
      /\ k[7] = [op |-> "others"] /\ k[8] = Program(FALSE) /\ k[9] = Command(FALSE) /\ k[10] = Wait
      /\ k[11] = Program(TRUE) /\ k[12] = Command(TRUE) /\ k[13] = Wait
  BY ScriptIs, Zenon
<1>1. /\ k[1].op = "print" /\ k[3].op = "print" /\ k[6].op = "print"
      /\ k[1].text = serial_puts(LoadMsg)
      /\ k[3].text = serial_puts(LogMsg) /\ k[6].text = serial_puts(LogMsg)
  <2>1. \A x : Prints(x).op = "print" /\ Prints(x).text = serial_puts(x)
    BY DEF Prints
  <2> QED BY <1>0, <2>1, Zenon
<1>2. \A i \in {2, 4, 5, 7, 8, 9, 10, 11, 12, 13} : k[i].op # "print"
  <2> HIDE DEF k
  <2>1. \A x, y : Call(x).op = "call" /\ Program(y).op = "call" /\ Command(y).op = "command" /\ Wait.op = "wait"
    BY DEF Call, Program, Command, Wait
  <2>2. k[2].op = "call" /\ k[4].op = "call" /\ k[8].op = "call" /\ k[11].op = "call"
    BY <1>0, <2>1, Zenon
  <2>3. k[9].op = "command" /\ k[12].op = "command" /\ k[10].op = "wait" /\ k[13].op = "wait"
    BY <1>0, <2>1, Zenon
  <2>4. k[5].op = "sti" /\ k[7].op = "others"
    <3>1. \A x, y : x = [op |-> y] => x.op = y
      OBVIOUS
    <3> QED BY <1>0, <3>1, Zenon
  <2> QED BY <2>2, <2>3, <2>4
<1>3. Piece(m, 1) = serial_puts(LoadMsg) /\ \A i \in {3, 6} : Piece(m, i) = serial_puts(LogMsg)
  BY <1>1, Zenon DEF Piece
<1>4. \A i \in {2, 4, 5, 7, 8, 9, 10, 11, 12, 13} : Piece(m, i) = << >>
  BY <1>2, Zenon DEF Piece
<1>5. << >> \in Seq(Bytes)
  OBVIOUS
<1>6. \A i \in 1 .. 13 : i = 1 \/ i \in {3, 6} \/ i \in {2, 4, 5, 7, 8, 9, 10, 11, 12, 13}
  BY SMT
<1> QED BY <1>3, <1>4, <1>5, <1>6, MessagesTyped, Zenon

LEMMA FunIsSeq ==
    ASSUME NEW S, NEW n \in Nat, NEW s \in [1 .. n -> S]
    PROVE  s \in Seq(S) /\ Len(s) = n
OBVIOUS

LEMMA TextsStep ==
    ASSUME NEW m \in BOOLEAN
    PROVE  /\ Texts[m][0] = << >>
           /\ \A n \in 0 .. 13 : Texts[m][n] \in Seq(Bytes)
           /\ \A n \in 0 .. 12 : Texts[m][n + 1] = Texts[m][n] \o Piece(m, n + 1)
<1> DEFINE Pieces(n) == [i \in 1 .. n |-> Piece(m, i)]
<1>1. \A n \in 0 .. 13 : Texts[m][n] = FlattenSeq(Pieces(n))
  <2>1. Len(Script[m]) = 13
    BY ScriptIs, Zenon
  <2>2. Texts[m] = [n \in 0 .. Len(Script[m]) |->
            FlattenSeq([i \in 1 .. n |-> IF Script[m][i].op = "print" THEN Script[m][i].text ELSE << >>])]
    BY Zenon DEF Texts
  <2>3. Texts[m] = [n \in 0 .. 13 |-> FlattenSeq([i \in 1 .. n |-> IF Script[m][i].op = "print" THEN Script[m][i].text ELSE << >>])]
    BY <2>1, <2>2, Zenon
  <2> QED BY <2>3, Zenon DEF Piece
<1>2. \A n \in 0 .. 13 : Pieces(n) \in Seq(Seq(Bytes)) /\ Len(Pieces(n)) = n
  <2>1. \A i \in 1 .. 13 : Piece(m, i) \in Seq(Bytes)
    BY PieceIs, Zenon
  <2>2. ASSUME NEW n \in 0 .. 13 PROVE Pieces(n) \in Seq(Seq(Bytes)) /\ Len(Pieces(n)) = n
    <3>1. n \in Nat /\ \A i \in 1 .. n : Piece(m, i) \in Seq(Bytes)
      <4>1. \A i \in 1 .. n : i \in 1 .. 13
        BY SMT
      <4>2. n \in Nat
        BY SMT
      <4> QED BY <2>1, <4>1, <4>2, Zenon
    <3> DEFINE T == Seq(Bytes)
               s == Pieces(n)
    <3>2. s \in [1 .. n -> T]
      BY <3>1, Zenon
    <3> HIDE DEF s, T
    <3>3. s \in Seq(T) /\ Len(s) = n
      BY <3>1, <3>2, FunIsSeq, Zenon
    <3> QED BY <3>3 DEF s, T
  <2> QED BY <2>2
<1>3. \A n \in 0 .. 12 : Pieces(n + 1) = Append(Pieces(n), Piece(m, n + 1))
  <2> SUFFICES ASSUME NEW n \in 0 .. 12 PROVE Pieces(n + 1) = Append(Pieces(n), Piece(m, n + 1))
    OBVIOUS
  <2> DEFINE x == Piece(m, n + 1)
             s == Pieces(n)
             t == Pieces(n + 1)
  <2>1. n \in 0 .. 13 /\ n + 1 \in 0 .. 13 /\ n + 1 \in 1 .. 13
    BY SMT
  <2>2. s \in Seq(Seq(Bytes)) /\ Len(s) = n /\ t \in Seq(Seq(Bytes)) /\ Len(t) = n + 1
    BY <1>2, <2>1
  <2>3. x \in Seq(Bytes)
    BY <2>1, PieceIs, Zenon
  <2>4. \A i \in 1 .. n + 1 : t[i] = Piece(m, i)
    OBVIOUS
  <2>5. \A i \in 1 .. n : s[i] = Piece(m, i)
    OBVIOUS
  <2>6. t[n + 1] = x
    <3>1. n + 1 \in 1 .. n + 1
      BY SMT
    <3> QED BY <2>4, <3>1
  <2> HIDE DEF s, t, x
  <2> DEFINE a == Append(s, x)
  <2>7. a \in Seq(Seq(Bytes)) /\ Len(a) = n + 1 /\ a[n + 1] = x /\ \A i \in 1 .. n : a[i] = s[i]
    BY <2>2, <2>3, AppendProperties
  <2> HIDE DEF a
  <2>8. \A i \in 1 .. n + 1 : i \in 1 .. n \/ i = n + 1
    BY SMT
  <2>9. \A i \in 1 .. Len(t) : t[i] = a[i]
    BY <2>2, <2>4, <2>5, <2>6, <2>7, <2>8, Zenon
  <2>10. t = a
    BY <2>2, <2>7, <2>9, SeqEqual, Zenon
  <2> QED BY <2>10 DEF a, t, s, x
<1>4. Pieces(0) = << >>
  BY SMT
<1>5. Texts[m][0] = << >>
  <2>1. 0 \in 0 .. 13
    BY SMT
  <2> QED BY <1>1, <1>4, <2>1, FlattenSeqEmpty, Zenon
<1> HIDE DEF Pieces
<1>6. \A n \in 0 .. 13 : Texts[m][n] \in Seq(Bytes)
  BY <1>1, <1>2, FlattenSeqType, Zenon
<1>7. \A n \in 0 .. 12 : Texts[m][n + 1] = Texts[m][n] \o Piece(m, n + 1)
  <2> SUFFICES ASSUME NEW n \in 0 .. 12 PROVE Texts[m][n + 1] = Texts[m][n] \o Piece(m, n + 1)
    OBVIOUS
  <2>1. n \in 0 .. 13 /\ n + 1 \in 0 .. 13 /\ n + 1 \in 1 .. 13
    BY SMT
  <2>2. Piece(m, n + 1) \in Seq(Bytes)
    BY <2>1, PieceIs, Zenon
  <2>3. FlattenSeq(Append(Pieces(n), Piece(m, n + 1))) = FlattenSeq(Pieces(n)) \o Piece(m, n + 1)
    BY <1>2, <2>1, <2>2, FlattenSeqAppend, Zenon
  <2> QED BY <1>1, <1>3, <2>1, <2>3, Zenon
<1> QED BY <1>5, <1>6, <1>7

\* What kmain has said grows when it begins to print.
LEMMA SaidIs ==
    ASSUME Inv
    PROVE  /\ Said \in Seq(Bytes)
           /\ step = 1 => Said = << >>
           /\ step \in {2, 3} => Said = serial_puts(LoadMsg)
<1> DEFINE m == work.intr_mode
<1>1. m \in BOOLEAN /\ step \in 1 .. 14
  BY KmainIs, Zenon DEF Inv, Typed, KernelTyped
<1>2. \A k \in 1 .. 14 : k - 1 \in 0 .. 13
  BY SMT
<1>3. Said = Texts[m][step - 1]
  BY Zenon DEF Said
<1> HIDE DEF m
<1>4. Said \in Seq(Bytes)
  BY <1>1, <1>2, <1>3, TextsStep, Zenon
<1>5. Texts[m][0] = << >> /\ Texts[m][1] = serial_puts(LoadMsg) /\ Texts[m][2] = serial_puts(LoadMsg)
  <2> DEFINE p == serial_puts(LoadMsg)
  <2>0. 0 \in 0 .. 12 /\ 1 \in 0 .. 12 /\ 0 + 1 = 1 /\ 1 + 1 = 2
    BY SMT
  <2>1. Texts[m][0] = << >>
    BY <1>1, TextsStep, Zenon
  <2>2. Texts[m][1] = Texts[m][0] \o Piece(m, 1) /\ Texts[m][2] = Texts[m][1] \o Piece(m, 2)
    BY <1>1, <2>0, TextsStep, Zenon
  <2>3. Piece(m, 1) = p /\ Piece(m, 2) = << >> /\ p \in Seq(Bytes)
    BY <1>1, PieceIs, MessagesTyped, Zenon
  <2>4. << >> \o p = p /\ p \o << >> = p
    BY <2>3, ConcatEmptySeq, Zenon
  <2> QED BY <2>1, <2>2, <2>3, <2>4, Zenon
<1>6. 1 - 1 = 0 /\ 2 - 1 = 1 /\ 3 - 1 = 2
  BY SMT
<1> QED BY <1>3, <1>4, <1>5, <1>6, Zenon

LEMMA SaidStep ==
    ASSUME Inv, NEW op, Begins(op), work' = work
    PROVE  Said' = Said \o Piece(work.intr_mode, step)
<1> DEFINE m == work.intr_mode
<1>1. m \in BOOLEAN /\ step \in 1 .. 13 /\ step' = step + 1
  BY KmainIs, BeginsAt, Zenon DEF Inv
<1>2. Said = Texts[m][step - 1] /\ Said' = Texts[m][step' - 1]
  BY Zenon DEF Said
<1>3. \A k \in 1 .. 13 : k - 1 \in 0 .. 12 /\ (k - 1) + 1 = k /\ (k + 1) - 1 = k
  BY SMT
<1> HIDE DEF m
<1>4. Texts[m][(step - 1) + 1] = Texts[m][step - 1] \o Piece(m, (step - 1) + 1)
  BY <1>1, <1>3, TextsStep, Zenon
<1>5. Said' = Said \o Piece(m, step)
  BY <1>1, <1>2, <1>3, <1>4, Zenon
<1> QED BY <1>5 DEF m

\* Concatenation and what the text needs of it.
Cat(a, b) == a \o b

LEMMA CatIs ==
    ASSUME NEW S
    PROVE  /\ \A a, b \in Seq(S) : Cat(a, b) \in Seq(S) /\ Len(Cat(a, b)) = Len(a) + Len(b)
           /\ \A a \in Seq(S) : Cat(a, << >>) = a /\ Cat(<< >>, a) = a
           /\ \A a, b, c \in Seq(S) : Cat(Cat(a, b), c) = Cat(a, Cat(b, c))
<1>1. \A a, b \in Seq(S) : Cat(a, b) \in Seq(S) /\ Len(Cat(a, b)) = Len(a) + Len(b)
  BY ConcatProperties, Zenon DEF Cat
<1>2. \A a \in Seq(S) : Cat(a, << >>) = a /\ Cat(<< >>, a) = a
  BY ConcatEmptySeq, Zenon DEF Cat
<1>3. ASSUME NEW a \in Seq(S), NEW b \in Seq(S), NEW c \in Seq(S)
      PROVE  Cat(Cat(a, b), c) = Cat(a, Cat(b, c))
  BY SMT DEF Cat
<1> QED BY <1>1, <1>2, <1>3

\* The parts of the text, from the line back to kmain.
Chars == [i \in 1 .. Len(wire) |-> wire[i].char]
Pend == IF todo # << >> /\ step \in {2, 4, 7} THEN <<Head(todo)[1]>> ELSE << >>
Line(chars, shift, thr, pend, rest) == Cat(chars, Cat(shift, Cat(thr, Cat(pend, rest))))
Carried == Line(Chars, One(uart.shift), One(uart.thr), Pend, text) = Said
HoldingEmpty == step \in {2, 4, 7} /\ todo # << >> => uart.thr = NULL
Framed ==
    \A i \in Len(serial_puts(LoadMsg)) + 1 .. Len(wire) :
        wire[i].framing = [divisor |-> 12, lcr |-> LINECTRL_8N1]

LEMMA OneIs ==
    /\ One(NULL) = << >>
    /\ \A c \in Bytes : c # NULL /\ One(c) = <<c>>
    /\ \A c \in Bytes \cup {NULL} : One(c) \in Seq(Bytes)
<1>1. One(NULL) = << >>
  BY Zenon DEF One
<1>2. \A c \in Bytes : c # NULL /\ One(c) = <<c>>
  BY StartAssumption, Zenon DEF One
<1>3. << >> \in Seq(Bytes) /\ \A c \in Bytes : <<c>> \in Seq(Bytes)
  OBVIOUS
<1> QED BY <1>1, <1>2, <1>3, Zenon

LEMMA PartsTyped ==
    ASSUME Inv
    PROVE  /\ Chars \in Seq(Bytes) /\ Len(Chars) = Len(wire) /\ One(uart.shift) \in Seq(Bytes)
           /\ One(uart.thr) \in Seq(Bytes) /\ Pend \in Seq(Bytes) /\ text \in Seq(Bytes)
<1>1. wire \in Seq(Sent) /\ uart \in Uarts /\ text \in Seq(Bytes) /\ todo \in Seq(Bytes \X Ports)
  BY Zenon DEF Inv, Typed, ChipsTyped, UartTyped, KernelTyped, DevicesTyped
<1>2. Chars \in Seq(Bytes) /\ Len(Chars) = Len(wire)
  <2>1. Len(wire) \in Nat /\ \A i \in 1 .. Len(wire) : wire[i].char \in Bytes
    <3>1. Len(wire) \in Nat /\ \A i \in 1 .. Len(wire) : wire[i] \in Sent
      BY <1>1, ElementOfSeq, LenProperties, Zenon
    <3> QED BY <3>1 DEF Sent
  <2>2. Chars \in [1 .. Len(wire) -> Bytes]
    BY <2>1, Zenon DEF Chars
  <2> QED BY <2>1, <2>2, FunIsSeq, Zenon
<1>3. uart.shift \in Bytes \cup {NULL} /\ uart.thr \in Bytes \cup {NULL}
  BY <1>1 DEF Uarts
<1>4. Pend \in Seq(Bytes)
  <2>1. todo # << >> => <<Head(todo)[1]>> \in Seq(Bytes)
    BY <1>1, SMT
  <2>2. << >> \in Seq(Bytes)
    OBVIOUS
  <2> QED BY <2>1, <2>2, Zenon DEF Pend
<1> QED BY <1>1, <1>2, <1>3, <1>4, OneIs, Zenon

LEMMA HeldIs ==
    ASSUME Inv
    PROVE  Chars \o Held = Line(Chars, One(uart.shift), One(uart.thr), Pend, text)
<1> DEFINE s == One(uart.shift)
           h == One(uart.thr)
           p == Pend
<1>1. Held = ((s \o h) \o p) \o text
  <2>1. todo # << >> => step \in {2, 3, 4, 5, 7, 8, 9, 12}
    BY HeadIs, Zenon
  <2>2. step \in {2, 4, 7} => kmain[step - 1].op = "print"
    <3>1. step \in {2, 4, 7} => step - 1 \in {1, 3, 6}
      BY SMT
    <3> QED BY <3>1, Ops, Zenon DEF Inv
  <2>3. step \in {3, 5, 8, 9, 12} => kmain[step - 1].op # "print"
    <3>1. step \in {3, 5, 8, 9, 12} => step - 1 \in {2, 4, 8, 11} \/ step - 1 = 7
      BY SMT
    <3>2. "call" # "print" /\ "others" # "print"
      OBVIOUS
    <3> QED BY <3>1, <3>2, Ops, Zenon DEF Inv
  <2>4. \A x \in {2, 3, 4, 5, 7, 8, 9, 12} : x \in {2, 4, 7} \/ (x \in {3, 5, 8, 9, 12} /\ x \notin {2, 4, 7})
    OBVIOUS
  <2>5. todo # << >> => (kmain[step - 1].op = "print" <=> step \in {2, 4, 7})
    BY <2>1, <2>2, <2>3, <2>4, Zenon
  <2>6. Pend = IF todo # << >> /\ kmain[step - 1].op = "print" THEN <<Head(todo)[1]>> ELSE << >>
    BY <2>5, Zenon DEF Pend
  <2> QED BY <2>6, Zenon DEF Held
<1>2. Chars \in Seq(Bytes) /\ s \in Seq(Bytes) /\ h \in Seq(Bytes) /\ p \in Seq(Bytes) /\ text \in Seq(Bytes)
  BY PartsTyped, Zenon
<1> HIDE DEF s, h, p
<1>3. Cat(s, h) \in Seq(Bytes) /\ Cat(p, text) \in Seq(Bytes)
  BY <1>2, CatIs, Zenon
<1>4. Cat(Cat(Cat(s, h), p), text) = Cat(Cat(s, h), Cat(p, text))
  BY <1>2, <1>3, CatIs, SMT
<1>5. Cat(Cat(s, h), Cat(p, text)) = Cat(s, Cat(h, Cat(p, text)))
  BY <1>2, <1>3, CatIs, SMT
<1>6. Held = Cat(Cat(Cat(s, h), p), text)
  BY <1>1 DEF Cat
<1>7. Chars \o Held = Cat(Chars, Cat(s, Cat(h, Cat(p, text))))
  <2>1. Held = Cat(s, Cat(h, Cat(p, text)))
    BY <1>4, <1>5, <1>6, Zenon
  <2> QED BY <2>1, Zenon DEF Cat
<1> QED BY <1>7, Zenon DEF Line, s, h, p

\* How a character moves along.
LEMMA LineMoves ==
    ASSUME NEW S, NEW c \in Seq(S), NEW h \in Seq(S), NEW p \in Seq(S), NEW t \in Seq(S), NEW x \in S
    PROVE  /\ Line(Cat(c, <<x>>), << >>, h, p, t) = Line(c, <<x>>, h, p, t)
           /\ Line(c, <<x>>, << >>, p, t) = Line(c, << >>, <<x>>, p, t)
           /\ Line(c, h, <<x>>, << >>, t) = Line(c, h, << >>, <<x>>, t)
           /\ Line(c, h, p, <<x>>, t) = Line(c, h, p, << >>, Cat(<<x>>, t))
<1> DEFINE one == <<x>>
           E == << >>
<1>0. one \in Seq(S) /\ E \in Seq(S)
  OBVIOUS
<1>1. \A a \in Seq(S) : Cat(a, E) = a /\ Cat(E, a) = a
  BY CatIs, Zenon
<1> HIDE DEF one, E
<1>2. \A a, b, d \in Seq(S) : Cat(Cat(a, b), d) = Cat(a, Cat(b, d))
  BY CatIs, Zenon
<1>3. Cat(p, t) \in Seq(S) /\ Cat(one, t) \in Seq(S)
  BY <1>0, CatIs, Zenon
<1>4. Cat(h, Cat(p, t)) \in Seq(S) /\ Cat(one, Cat(p, t)) \in Seq(S)
  BY <1>0, <1>3, CatIs, Zenon
<1>5. Line(Cat(c, one), E, h, p, t) = Line(c, one, h, p, t)
  BY <1>0, <1>1, <1>2, <1>4, SMT DEF Line
<1>6. Line(c, one, E, p, t) = Line(c, E, one, p, t)
  BY <1>1, <1>3, <1>4, Zenon DEF Line
<1>7. Line(c, h, one, E, t) = Line(c, h, E, one, t)
  BY <1>1, <1>3, Zenon DEF Line
<1>8. Line(c, h, p, one, t) = Line(c, h, p, E, Cat(one, t))
  BY <1>1, <1>3, Zenon DEF Line
<1> QED BY <1>5, <1>6, <1>7, <1>8 DEF one, E

\* The same for the text of bytes, a move at a time.
LEMMA MoveSent ==
    ASSUME NEW c \in Seq(Bytes), NEW x \in Bytes, NEW h \in Seq(Bytes), NEW p \in Seq(Bytes), NEW t \in Seq(Bytes)
    PROVE  Line(Cat(c, <<x>>), << >>, h, p, t) = Line(c, <<x>>, h, p, t)
BY LineMoves
LEMMA MoveTaken ==
    ASSUME NEW c \in Seq(Bytes), NEW x \in Bytes, NEW p \in Seq(Bytes), NEW t \in Seq(Bytes)
    PROVE  Line(c, <<x>>, << >>, p, t) = Line(c, << >>, <<x>>, p, t)
BY LineMoves
LEMMA MoveWritten ==
    ASSUME NEW c \in Seq(Bytes), NEW s \in Seq(Bytes), NEW x \in Bytes, NEW t \in Seq(Bytes)
    PROVE  Line(c, s, <<x>>, << >>, t) = Line(c, s, << >>, <<x>>, t)
BY LineMoves
LEMMA MovePolled ==
    ASSUME NEW c \in Seq(Bytes), NEW s \in Seq(Bytes), NEW h \in Seq(Bytes), NEW x \in Bytes, NEW t \in Seq(Bytes)
    PROVE  Line(c, s, h, <<x>>, t) = Line(c, s, h, << >>, Cat(<<x>>, t))
BY LineMoves
LEMMA MoveSaid ==
    ASSUME NEW c \in Seq(Bytes), NEW s \in Seq(Bytes), NEW h \in Seq(Bytes), NEW t \in Seq(Bytes)
    PROVE  Line(c, s, h, << >>, t) = Cat(Line(c, s, h, << >>, << >>), t)
<1> DEFINE E == << >>
<1>1. E \in Seq(Bytes)
  OBVIOUS
<1>2. \A a \in Seq(Bytes) : Cat(a, E) = a /\ Cat(E, a) = a
  BY CatIs, Zenon
<1> HIDE DEF E
<1>3. \A a, b, d \in Seq(Bytes) : Cat(Cat(a, b), d) = Cat(a, Cat(b, d))
  BY CatIs, Zenon
<1>4. Cat(s, h) \in Seq(Bytes)
  BY CatIs, Zenon
<1>5. Line(c, s, h, E, t) = Cat(c, Cat(s, Cat(h, t)))
  BY <1>2, Zenon DEF Line
<1>6. Line(c, s, h, E, E) = Cat(c, Cat(s, h))
  BY <1>1, <1>2, Zenon DEF Line
<1>7. Cat(Cat(c, Cat(s, h)), t) = Cat(c, Cat(Cat(s, h), t))
  BY <1>3, <1>4, SMT
<1>8. Cat(Cat(s, h), t) = Cat(s, Cat(h, t))
  BY <1>3, Zenon
<1>9. Line(c, s, h, E, t) = Cat(Line(c, s, h, E, E), t)
  BY <1>5, <1>6, <1>7, <1>8, Zenon
<1> QED BY <1>9 DEF E

\* The length of the text, at least that of its first two parts.
LEMMA LineLength ==
    ASSUME NEW S, NEW c \in Seq(S), NEW s \in Seq(S), NEW h \in Seq(S), NEW p \in Seq(S), NEW t \in Seq(S)
    PROVE  Len(Line(c, s, h, p, t)) >= Len(c) + Len(s)
<1> DEFINE r == Cat(h, Cat(p, t))
<1>1. Cat(p, t) \in Seq(S)
  BY CatIs, Zenon
<1>2. r \in Seq(S)
  BY <1>1, CatIs, Zenon
<1>3. Cat(s, r) \in Seq(S) /\ Len(Cat(s, r)) = Len(s) + Len(r)
  BY <1>2, CatIs, ZenonT(40)
<1>4. Len(Cat(c, Cat(s, r))) = Len(c) + Len(Cat(s, r))
  <2> DEFINE q == Cat(s, r)
  <2>1. q \in Seq(S)
    BY <1>3
  <2> HIDE DEF q
  <2>2. Len(Cat(c, q)) = Len(c) + Len(q)
    BY <2>1, CatIs, ZenonT(40)
  <2> QED BY <2>2 DEF q
<1>5. Len(r) \in Nat /\ Len(c) \in Nat /\ Len(s) \in Nat
  BY <1>2, LenProperties, Zenon
<1> HIDE DEF r
<1>6. Len(Cat(c, Cat(s, r))) >= Len(c) + Len(s)
  BY <1>3, <1>4, <1>5, SMT
<1> QED BY <1>6 DEF Line, r

LEMMA CarriedBegins ==
    ASSUME Inv, Inv', Carried, NEW op, Begins(op), UNCHANGED <<uart, work, wire>>, op # "print" => text' = text,
           op = "print" => text' = kmain[step].text /\ todo' = todo
    PROVE  Carried'
<1> DEFINE m == work.intr_mode
           c == Chars
           s == One(uart.shift)
           h == One(uart.thr)
           E == << >>
<1>1. todo = << >> /\ text = << >> /\ step \in 1 .. 13 /\ step' = step + 1
        /\ (op = "print" => step \in {1, 3, 6}) /\ m \in BOOLEAN
  BY BeginsAt, KmainIs, Zenon DEF Inv
<1>2. c \in Seq(Bytes) /\ s \in Seq(Bytes) /\ h \in Seq(Bytes) /\ text' \in Seq(Bytes)
  BY PartsTyped, Zenon DEF Inv, Typed, KernelTyped
<1>3. Chars' = c /\ One(uart'.shift) = s /\ One(uart'.thr) = h
  BY Zenon DEF Chars
<1>4. Said = Line(c, s, h, E, E)
  BY <1>1, Zenon DEF Carried, Pend
<1>5. text' = Piece(m, step)
  <2>1. kmain[step].op = op /\ kmain = Script[m]
    BY Zenon DEF Begins, kmain
  <2> QED BY <1>1, <2>1, Zenon DEF Piece
<1>6. Said' = Cat(Said, text')
  BY <1>5, SaidStep, Zenon DEF Cat
<1>7. Pend' = E
  <2>1. CASE op = "print"
    BY <1>1, <2>1, Zenon DEF Pend
  <2>2. CASE op # "print"
    <3>1. step \notin {1, 3, 6}
      <4>1. kmain[step].op = op
        BY Zenon DEF Begins
      <4> QED BY <2>2, <4>1, Ops, Zenon DEF Inv
    <3>2. step' \notin {2, 4, 7}
      BY <1>1, <3>1, SMT
    <3> QED BY <3>2, Zenon DEF Pend
  <2> QED BY <2>1, <2>2
<1> HIDE DEF c, s, h, E, m
<1>8. Line(c, s, h, E, text') = Cat(Line(c, s, h, E, E), text')
  <2>1. 0 \in Bytes
    BY SMT DEF Bytes
  <2> QED BY <1>2, <2>1, MoveSaid DEF E
<1> QED BY <1>3, <1>4, <1>6, <1>7, <1>8, Zenon DEF Carried

LEMMA CarriedPoll ==
    ASSUME Inv, Carried, PollEnds
    PROVE  Carried'
<1> DEFINE c == Chars
           s == One(uart.shift)
           h == One(uart.thr)
           x == Head(text)
           t == Tail(text)
           E == << >>
<1>1. todo = << >> /\ text # << >> /\ todo' = serial_putc(x) /\ text' = t
        /\ UNCHANGED <<uart, work, step, wire>>
  BY Zenon DEF PollEnds
<1>2. c \in Seq(Bytes) /\ s \in Seq(Bytes) /\ h \in Seq(Bytes) /\ text \in Seq(Bytes)
  BY PartsTyped, Zenon
<1>3. x \in Bytes /\ t \in Seq(Bytes) /\ text = <<x>> \o t
  BY <1>1, <1>2, SMT
<1>4. step \in {2, 4, 7}
  BY <1>1, Zenon DEF Inv, Walk
<1>5. Pend = E
  BY <1>1, Zenon DEF Pend
<1>6. Pend' = <<x>>
  <2>1. todo' = << <<x, SERIAL_XMITBUF>> >>
    BY <1>1, Zenon DEF serial_putc
  <2>2. todo' # << >> /\ Head(todo')[1] = x
    BY <2>1
  <2>3. step' \in {2, 4, 7}
    BY <1>1, <1>4, Zenon
  <2> QED BY <2>2, <2>3, Zenon DEF Pend
<1>7. Chars' = c /\ One(uart'.shift) = s /\ One(uart'.thr) = h /\ Said' = Said
  BY <1>1, Zenon DEF Chars, Said
<1> HIDE DEF c, s, h, x, t, E
<1>8. Line(c, s, h, <<x>>, t) = Line(c, s, h, E, Cat(<<x>>, t))
  BY <1>2, <1>3, MovePolled DEF E
<1>9. text = Cat(<<x>>, t)
  BY <1>3, Zenon DEF Cat
<1>10. Line(c, s, h, E, text) = Said
  BY <1>5, Zenon DEF Carried, c, s, h
<1> QED BY <1>1, <1>6, <1>7, <1>8, <1>9, <1>10, Zenon DEF Carried

LEMMA CarriedWrite ==
    ASSUME Inv, UartSet, HoldingEmpty, Carried, PortWrite
    PROVE  Carried'
<1> DEFINE c == Chars
           s == One(uart.shift)
           h == One(uart.thr)
           x == Head(todo)[1]
           E == << >>
<1>1. todo # << >> /\ todo' = Tail(todo) /\ UNCHANGED <<work, step, text, wire>>
  BY Zenon DEF PortWrite
<1>2. c \in Seq(Bytes) /\ s \in Seq(Bytes) /\ h \in Seq(Bytes) /\ text \in Seq(Bytes)
  BY PartsTyped, Zenon
<1>3. uart'.shift = uart.shift /\ (step \in {2, 4, 7} => uart'.thr = x) /\ (step \notin {2, 4, 7} => uart'.thr = uart.thr)
  BY WriteUart, Zenon
<1>4. Chars' = c /\ One(uart'.shift) = s /\ Said' = Said /\ text' = text
  BY <1>1, <1>3, Zenon DEF Chars, Said
<1>5. CASE step \in {2, 4, 7}
  <2>1. uart.thr = NULL /\ h = E
    BY <1>1, <1>5, OneIs, Zenon DEF HoldingEmpty
  <2>2. x \in Bytes /\ todo' = << >>
    <3>1. Head(todo) \in Bytes \X Ports /\ Tail(todo) = << >>
      BY <1>1, <1>5, HeadIs, Zenon
    <3>2. \A w \in Bytes \X Ports : w[1] \in Bytes
      OBVIOUS
    <3> QED BY <1>1, <3>1, <3>2, Zenon
  <2>3. Pend = <<x>> /\ Pend' = E
    BY <1>1, <1>5, <2>2, Zenon DEF Pend
  <2>4. One(uart'.thr) = <<x>>
    BY <1>3, <1>5, <2>2, OneIs, Zenon
  <2>5. Line(c, s, E, <<x>>, text) = Said
    BY <2>1, <2>3, Zenon DEF Carried
  <2> HIDE DEF c, s, h, x, E
  <2>6. Line(c, s, <<x>>, E, text) = Line(c, s, E, <<x>>, text)
    BY <1>2, <2>2, MoveWritten DEF E
  <2> QED BY <1>4, <2>3, <2>4, <2>5, <2>6, Zenon DEF Carried
<1>6. CASE step \notin {2, 4, 7}
  <2>1. Pend = E /\ Pend' = E
    BY <1>1, <1>6, Zenon DEF Pend
  <2>2. One(uart'.thr) = h
    BY <1>3, <1>6, Zenon
  <2>3. Line(c, s, h, E, text) = Said
    BY <2>1, Zenon DEF Carried
  <2> HIDE DEF c, s, h, E
  <2> QED BY <1>4, <2>1, <2>2, <2>3, Zenon DEF Carried
<1> QED BY <1>5, <1>6

LEMMA CarriedUart ==
    ASSUME Inv, Carried, UartTakes \/ UartSends
    PROVE  Carried'
<1> DEFINE c == Chars
           s == One(uart.shift)
           h == One(uart.thr)
           p == Pend
           E == << >>
<1>1. c \in Seq(Bytes) /\ s \in Seq(Bytes) /\ h \in Seq(Bytes) /\ p \in Seq(Bytes) /\ text \in Seq(Bytes)
  BY PartsTyped, Zenon
<1>2. UNCHANGED <<work, kernel>> /\ uart \in Uarts
  BY Zenon DEF UartTakes, UartSends, Inv, Typed, ChipsTyped, UartTyped
<1>3. UNCHANGED <<work, step, todo, text>>
  BY <1>2, Zenon DEF kernel
<1>4. Pend' = p /\ Said' = Said /\ text' = text
  BY <1>3, Zenon DEF Pend, Said
<1>5. Line(c, s, h, p, text) = Said
  BY Zenon DEF Carried
<1>6. CASE UartTakes
  <2> DEFINE x == uart.thr
  <2>1. x # NULL /\ uart.shift = NULL /\ wire' = wire /\ uart' = [uart EXCEPT !.thr = NULL, !.shift = uart.thr]
    BY <1>6, Zenon DEF UartTakes
  <2>2. uart'.thr = NULL /\ uart'.shift = x /\ x \in Bytes
    BY <1>2, <2>1 DEF Uarts
  <2>3. s = E /\ h = <<x>> /\ One(uart'.shift) = <<x>> /\ One(uart'.thr) = E /\ Chars' = c
    BY <2>1, <2>2, OneIs, Zenon DEF Chars
  <2> HIDE DEF c, s, h, p, E, x
  <2>4. Line(c, <<x>>, E, p, text) = Line(c, E, <<x>>, p, text)
    BY <1>1, <2>2, MoveTaken DEF E
  <2> QED BY <1>4, <1>5, <2>3, <2>4, Zenon DEF Carried
<1>7. CASE UartSends
  <2> DEFINE x == uart.shift
             y == [char |-> uart.shift, framing |-> Framing(uart)]
  <2>1. x # NULL /\ wire' = Append(wire, y) /\ uart' = [uart EXCEPT !.shift = NULL]
    BY <1>7, Zenon DEF UartSends
  <2>2. uart'.thr = uart.thr /\ uart'.shift = NULL /\ x \in Bytes
    BY <1>2, <2>1 DEF Uarts
  <2>3. s = <<x>> /\ One(uart'.shift) = E /\ One(uart'.thr) = h
    BY <2>2, OneIs, Zenon
  <2>4. Chars' = Cat(c, <<x>>)
    <3>1. wire \in Seq(Sent) /\ y.char = x
      BY Zenon DEF Inv, Typed, DevicesTyped
    <3>2. Inv'
      BY <1>7, InvUartSends, Zenon
    <3> HIDE DEF y
    <3>3. Chars' \in Seq(Bytes) /\ Len(Chars') = Len(wire')
      <4>1. wire' \in Seq(Sent)
        BY <3>2, Zenon DEF Inv, Typed, DevicesTyped
      <4>2. Len(wire') \in Nat /\ \A i \in 1 .. Len(wire') : wire'[i] \in Sent
        BY <4>1, ElementOfSeq, LenProperties, Zenon
      <4>3. \A e \in Sent : e.char \in Bytes
        BY DEF Sent
      <4>4. Chars' \in [1 .. Len(wire') -> Bytes]
        BY <4>2, <4>3, Zenon DEF Chars
      <4> QED BY <4>2, <4>4, FunIsSeq, Zenon
    <3>4. Len(wire') = Len(wire) + 1 /\ wire'[Len(wire) + 1] = y /\ \A i \in 1 .. Len(wire) : wire'[i] = wire[i]
      BY <2>1, <3>1, SMT
    <3>5. Len(wire) \in Nat
      BY <3>1, LenProperties, Zenon
    <3>6. \A i \in 1 .. Len(wire) + 1 : i \in 1 .. Len(wire) \/ i = Len(wire) + 1
      BY <3>5, SMT
    <3>7. Len(wire) + 1 \in 1 .. Len(wire) + 1
      BY <3>5, SMT
    <3> DEFINE a == Append(c, x)
    <3>8. a \in Seq(Bytes) /\ Len(a) = Len(wire) + 1 /\ a[Len(wire) + 1] = x /\ \A i \in 1 .. Len(wire) : a[i] = c[i]
      <4>1. c \in Seq(Bytes) /\ Len(c) = Len(wire) /\ x \in Bytes
        BY <2>2, PartsTyped, Zenon
      <4> HIDE DEF c, x
      <4>2. /\ a \in Seq(Bytes) /\ Len(a) = Len(c) + 1 /\ a[Len(c) + 1] = x
            /\ \A i \in 1 .. Len(c) : a[i] = c[i]
        BY <4>1, AppendProperties
      <4> QED BY <4>1, <4>2, Zenon
    <3> HIDE DEF a
    <3>9. \A i \in 1 .. Len(wire) + 1 : Chars'[i] = wire'[i].char
      BY <3>4, Zenon DEF Chars
    <3>10. \A i \in 1 .. Len(wire) : c[i] = wire[i].char
      BY Zenon DEF Chars
    <3> HIDE DEF c, x
    <3>11. \A i \in 1 .. Len(wire) + 1 : Chars'[i] = a[i]
      BY <3>1, <3>4, <3>6, <3>8, <3>9, <3>10, Zenon
    <3>12. Chars' = a
      BY <3>3, <3>4, <3>8, <3>11, SeqEqual, Zenon
    <3>13. a = Cat(c, <<x>>)
      BY <1>1, <2>2, AppendIsConcat, Zenon DEF Cat, a
    <3> QED BY <3>12, <3>13
  <2> HIDE DEF c, s, h, p, E, x
  <2>5. Line(Cat(c, <<x>>), E, h, p, text) = Line(c, <<x>>, h, p, text)
    BY <1>1, <2>2, MoveSent DEF E
  <2> QED BY <1>4, <1>5, <2>3, <2>4, <2>5, Zenon DEF Carried
<1> QED BY <1>6, <1>7

LEMMA CarriedNext == Inv /\ UartSet /\ HoldingEmpty /\ Carried /\ [Next]_vars => Carried'
<1> SUFFICES ASSUME Inv, UartSet, HoldingEmpty, Carried, [Next]_vars PROVE Carried'
  OBVIOUS
<1>1. Inv'
  BY InvNext, Zenon
<1>2. CASE printk
  BY <1>1, <1>2, CarriedBegins, Zenon DEF printk
<1>3. CASE Calls \/ OthersCall \/ Sti \/ SendCommand \/ _fdc_wait_for_irq
  <2>1. /\ \E op : Begins(op) /\ op # "print"
        /\ UNCHANGED <<uart, work, wire, text>>
    <3>1. "call" # "print" /\ "others" # "print" /\ "sti" # "print" /\ "command" # "print" /\ "wait" # "print"
      OBVIOUS
    <3> QED BY <1>3, <3>1, Zenon DEF Calls, OthersCall, Sti, SendCommand, _fdc_wait_for_irq
  <2> QED BY <1>1, <2>1, CarriedBegins, Zenon
<1>4. CASE PortWrite
  BY <1>4, CarriedWrite, Zenon
<1>5. CASE PollEnds
  BY <1>5, CarriedPoll, Zenon
<1>6. CASE UartTakes \/ UartSends
  BY <1>6, CarriedUart, Zenon
<1>7. CASE Handler \/ DriveTransfers \/ (\E d \in Devices : DeviceRaises(d)) \/ UNCHANGED vars
  <2>1. UNCHANGED <<uart, work, kernel, wire>>
    BY <1>7, EndIs, Zenon DEF Handler, Interrupt, Service, EndOfInterrupt, DriveTransfers, DeviceRaises, vars
  <2>2. UNCHANGED <<uart, work, step, todo, text, wire>>
    BY <2>1, Zenon DEF kernel
  <2> QED BY <2>2, Zenon DEF Carried, Chars, Pend, Said
<1> QED BY <1>2, <1>3, <1>4, <1>5, <1>6, <1>7, Zenon DEF Next, Kernel, Hardware

LEMMA HoldingNext == Inv /\ HoldingEmpty /\ [Next]_vars => HoldingEmpty'
<1> SUFFICES ASSUME Inv, HoldingEmpty, [Next]_vars PROVE HoldingEmpty'
  OBVIOUS
<1>1. UNCHANGED <<step, todo>> /\ (uart.thr = NULL => uart'.thr = NULL) => HoldingEmpty'
  BY Zenon DEF HoldingEmpty
<1>2. CASE printk \/ Calls \/ OthersCall \/ Sti \/ SendCommand \/ _fdc_wait_for_irq
  <2>1. CASE printk
    BY <2>1, BeginsAt, Zenon DEF Inv, printk, HoldingEmpty
  <2>2. CASE Calls \/ OthersCall \/ Sti \/ SendCommand \/ _fdc_wait_for_irq
    <3>1. step \in {2, 4, 5, 7, 8, 9, 10, 11, 12, 13} /\ step' = step + 1
      BY <2>2, BeginsAt, Zenon DEF Inv, Calls, OthersCall, Sti, SendCommand, _fdc_wait_for_irq
    <3>2. step' \notin {2, 4, 7}
      BY <3>1, SMT
    <3> QED BY <3>2, Zenon DEF HoldingEmpty
  <2> QED BY <1>2, <2>1, <2>2
<1>3. CASE PortWrite
  <2>1. todo # << >> /\ todo' = Tail(todo) /\ step' = step
    BY <1>3, Zenon DEF PortWrite
  <2>2. step' \in {2, 4, 7} => todo' = << >>
    BY <2>1, HeadIs, Zenon
  <2> QED BY <2>2, Zenon DEF HoldingEmpty
<1>4. CASE PollEnds
  BY <1>4, Zenon DEF PollEnds, serial_ready, HoldingEmpty
<1>5. CASE UartTakes \/ UartSends
  <2>1. UNCHANGED kernel /\ (uart' = [uart EXCEPT !.thr = NULL, !.shift = uart.thr] \/ uart' = [uart EXCEPT !.shift = NULL])
    BY <1>5, Zenon DEF UartTakes, UartSends
  <2>2. uart \in Uarts
    BY Zenon DEF Inv, Typed, ChipsTyped, UartTyped
  <2>3. uart'.thr = NULL \/ uart'.thr = uart.thr
    BY <2>1, <2>2 DEF Uarts
  <2> QED BY <1>1, <2>1, <2>3, Zenon DEF kernel
<1>6. CASE Handler \/ DriveTransfers \/ (\E d \in Devices : DeviceRaises(d)) \/ UNCHANGED vars
  <2>1. UNCHANGED <<uart, kernel>>
    BY <1>6, EndIs, Zenon DEF Handler, Interrupt, Service, EndOfInterrupt, DriveTransfers, DeviceRaises, vars
  <2> QED BY <1>1, <2>1, Zenon DEF kernel
<1> QED BY <1>2, <1>3, <1>4, <1>5, <1>6, Zenon DEF Next, Kernel, Hardware

LEMMA FramedNext == Inv /\ UartSet /\ Carried /\ Framed /\ [Next]_vars => Framed'
<1> SUFFICES ASSUME Inv, UartSet, Carried, Framed, [Next]_vars PROVE Framed'
  OBVIOUS
<1> DEFINE P == Len(serial_puts(LoadMsg))
           F == [divisor |-> 12, lcr |-> LINECTRL_8N1]
<1>1. CASE wire' = wire
  BY <1>1, Zenon DEF Framed
<1>2. CASE UartSends
  <2> DEFINE y == [char |-> uart.shift, framing |-> Framing(uart)]
  <2>1. uart.shift # NULL /\ wire' = Append(wire, y) /\ wire \in Seq(Sent) /\ uart \in Uarts
    BY <1>2, Zenon DEF UartSends, Inv, Typed, DevicesTyped, ChipsTyped, UartTyped
  <2>2. y.framing = Framing(uart)
    OBVIOUS
  <2> HIDE DEF y
  <2>3. Len(wire') = Len(wire) + 1 /\ wire'[Len(wire) + 1] = y /\ \A i \in 1 .. Len(wire) : wire'[i] = wire[i]
    BY <2>1, SMT
  <2>4. Len(wire) \in Nat /\ P \in Nat
    BY <2>1, LenProperties, MessagesTyped, Zenon
  <2>5. Len(wire) >= P => Framing(uart) = F
    <3> SUFFICES ASSUME Len(wire) >= P PROVE Framing(uart) = F
      OBVIOUS
    <3>1. One(uart.shift) = <<uart.shift>>
      BY <2>1, Zenon DEF One
    <3>2. Len(One(uart.shift)) = 1
      BY <3>1
    <3>3. Len(Said) >= Len(Chars) + Len(One(uart.shift)) /\ Len(Chars) = Len(wire)
      BY PartsTyped, LineLength, Zenon DEF Carried
    <3>4. Said \in Seq(Bytes) /\ (step = 1 => Said = << >>) /\ (step \in {2, 3} => Said = serial_puts(LoadMsg))
      BY SaidIs, Zenon
    <3> HIDE DEF P
    <3>5. Len(Said) > P
      <4>1. Len(Said) \in Nat /\ Len(Said) >= Len(wire) + 1
        BY <3>2, <3>3, <3>4, LenProperties, Zenon
      <4> QED BY <2>4, <4>1, SMT
    <3>6. ~(P > P) /\ ~(0 > P)
      BY <2>4, SMT
    <3>7. Len(<< >>) = 0
      OBVIOUS
    <3>8. step \notin {1, 2, 3}
      BY <3>4, <3>5, <3>6, <3>7, Zenon DEF P
    <3>9. step > 3
      <4>1. step \in 1 .. 14
        BY Zenon DEF Inv, Typed, KernelTyped
      <4> QED BY <3>8, <4>1, SMT
    <3>10. LineSet(uart, 9)
      BY <3>9, Zenon DEF UartSet
    <3>11. uart.lcr = 3 /\ uart.dll = 12 /\ uart.dlm = 0
      BY <3>10, SMT DEF LineSet
    <3>12. uart.dll + 256 * uart.dlm = 12
      BY <3>11, SMT
    <3> QED BY <3>11, <3>12 DEF Framing, LINECTRL_8N1
  <2> HIDE DEF P, F
  <2>6. ASSUME NEW i \in P + 1 .. Len(wire')
        PROVE  wire'[i].framing = F
    <3>1. CASE i = Len(wire) + 1
      <4>1. Len(wire) >= P
        BY <2>4, <3>1, SMT
      <4> QED BY <2>2, <2>3, <2>5, <3>1, <4>1, Zenon
    <3>2. CASE i # Len(wire) + 1
      <4>1. i \in P + 1 .. Len(wire) /\ i \in 1 .. Len(wire)
        BY <2>3, <2>4, <3>2, SMT
      <4> QED BY <2>3, <4>1, Zenon DEF Framed, P, F
    <3> QED BY <3>1, <3>2
  <2> QED BY <2>6, Zenon DEF Framed, P, F
<1>3. UartSends \/ wire' = wire
  BY Leaves, Zenon DEF Next, Handler, EndOfInterrupt, Hardware, UartTakes, DriveTransfers, vars
<1> QED BY <1>1, <1>2, <1>3

LEMMA LineInit == Init => HoldingEmpty /\ Carried /\ Framed
<1> SUFFICES ASSUME Init PROVE HoldingEmpty /\ Carried /\ Framed
  OBVIOUS
<1>1. Inv
  BY InvInit, Zenon
<1>2. step = 1 /\ todo = << >> /\ text = << >> /\ wire = << >> /\ uart.shift = NULL /\ uart.thr = NULL
  BY DEF Init, Uart
<1>3. Len(wire) = 0
  BY <1>2
<1>4. Chars = << >>
  BY <1>3, SMT DEF Chars
<1>5. One(uart.shift) = << >> /\ One(uart.thr) = << >> /\ Pend = << >> /\ Said = << >>
  BY <1>1, <1>2, OneIs, SaidIs, Zenon DEF Pend
<1>6. Cat(<< >>, << >>) = << >>
  <2>1. << >> \in Seq(Bytes)
    OBVIOUS
  <2> QED BY <2>1, CatIs, Zenon
<1>7. Carried
  BY <1>2, <1>4, <1>5, <1>6, Zenon DEF Carried, Line
<1>8. Framed
  <2>1. Len(serial_puts(LoadMsg)) \in Nat
    BY MessagesTyped, LenProperties, Zenon
  <2>2. Len(serial_puts(LoadMsg)) + 1 .. 0 = {}
    BY <2>1, SMT
  <2> QED BY <1>3, <2>2, Zenon DEF Framed
<1> QED BY <1>2, <1>7, <1>8, Zenon DEF HoldingEmpty

LEMMA CarriesHolds == Inv /\ Carried /\ Framed => LineCarriesTheText
BY HeldIs, Zenon DEF Carried, Framed, LineCarriesTheText, Chars

(***************************************************************************)
(* serial_puts: the line carries what kmain printed, in order, no          *)
(* character lost or doubled, and from serial_init on at 9600 baud, 8N1.   *)
(***************************************************************************)
THEOREM StartLineCarriesTheText == Spec => []LineCarriesTheText
<1>1. Inv /\ UartSet /\ HoldingEmpty /\ Carried /\ Framed /\ [Next]_vars => (HoldingEmpty /\ Carried /\ Framed)'
  BY HoldingNext, CarriedNext, FramedNext
<1>2. Spec => [](HoldingEmpty /\ Carried /\ Framed)
  BY <1>1, LineInit, InvHolds, UartHolds, PTL DEF Spec
<1> QED BY <1>2, InvHolds, CarriesHolds, PTL
=============================================================================
