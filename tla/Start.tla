------------------------------- MODULE Start -------------------------------
(***************************************************************************)
(* The start of the kernel, kmain of init/kmain.c, as the chips see it:    *)
(* the text it prints goes to the serial port, it sets up the interrupt    *)
(* controllers, and mounting the floppy makes DMA transfers that end in an *)
(* interrupt.  The modules Serial, Pic and Dma give the port writes of     *)
(* each driver call; here they are performed one at a time, while the UART *)
(* sends, devices raise their lines and handlers run in between.           *)
(*                                                                         *)
(* A workload says what the model leaves open: the mode of the serial port,*)
(* how often devices raise their lines, what the flip-flop was left with,  *)
(* and whether another driver calls the DMA driver before the floppy's.    *)
(***************************************************************************)
EXTENDS Serial, Pic, Dma

CONSTANTS Workloads, LoadMsg, LogMsg,   \* texts; they stand for all of kmain's
          OtherCalls                    \* of the DMA driver, by other drivers

Bytes == 0 .. 255
UINT16_MAX == 65535
Words == 0 .. UINT16_MAX

\* The lines of the devices, and the numbers their drivers register for.
LineOf == [timer |-> 0, serial |-> 4, floppy |-> 6, disk |-> 14]
IRQ == [timer |-> 32, serial |-> 36, floppy |-> 38, disk |-> 46]
Devices == DOMAIN IRQ

DmaFunctions == {"set_address", "set_count", "set_pagereg", "mask_channel", "unmask_channel",
                 "setup_read", "setup_write", "reset_flipflop", "reset", "disable"}

\* The floppy drive raises its line only when it has made a transfer.
ASSUME StartAssumption ==
    /\ LoadMsg \in Seq(Bytes) /\ LogMsg \in Seq(Bytes)
    /\ OtherCalls \subseteq [name : DmaFunctions, channel : Bytes, arg : Words]
    /\ \A w \in Workloads :
        /\ w.intr_mode \in BOOLEAN /\ w.others \in BOOLEAN /\ w.flipflop \in {0, 1}
        /\ w.raises \in [Devices -> Nat] /\ w.raises.floppy = 0
    /\ NULL \notin Bytes /\ NULL \notin {"read", "write"}
    /\ NULL \notin {<< >>, pic_send_eoi(32), pic_send_eoi(40)}

VARIABLES work,      \* the workload
          step,      \* of kmain
          todo,      \* port writes left of the driver call it is in
          channel,   \* the DMA channel that call is for, or NULL
          text,      \* characters left of the serial_puts it is in
          enabled,   \* the interrupt flag
          handler,   \* the interrupt being handled, or NULL
          _fdc_irq_fired,
          drive,     \* the floppy drive: the transfer it is to make, or NULL
          raises,    \* how often each device may still raise its line
          waiting,   \* devices whose request has not been handled
          wire       \* what the UART has sent: characters and their framing

kernel == <<step, todo, channel, text>>
vars == <<uart, pic, dma, work, kernel, enabled, handler, _fdc_irq_fired, drive, raises,
          waiting, wire>>

-----------------------------------------------------------------------------
\* The calls of the DMA driver other drivers may make.
DmaCall(c) ==
    CASE c.name = "set_address" -> dma_set_address(c.channel, c.arg)
      [] c.name = "set_count" -> dma_set_count(c.channel, c.arg)
      [] c.name = "set_pagereg" -> dma_set_external_pagereg(c.channel, c.arg % 256)
      [] c.name = "mask_channel" -> dma_mask_channel(c.channel)
      [] c.name = "unmask_channel" -> dma_unmask_channel(c.channel)
      [] c.name = "setup_read" -> dma_setup_read(c.channel)
      [] c.name = "setup_write" -> dma_setup_write(c.channel)
      [] c.name = "reset_flipflop" -> dma_reset_flipflop(c.channel \div 4)
      [] c.name = "reset" -> dma_reset(c.channel \div 4)
      [] c.name = "disable" -> dma_disable(c.channel \div 4)

Prints(message) == [op |-> "print", text |-> serial_puts(message)]
Call(writes) == [op |-> "call", writes |-> writes, channel |-> NULL]
Program(is_write) ==
    [op |-> "call", writes |-> _fdc_init_dma(511, is_write), channel |-> DMA_CHAN_FLOPPY]
Command(is_write) == [op |-> "command", is_write |-> is_write]
Wait == [op |-> "wait"]

\* kmain, as far as the chips are concerned.  The IDT, the rest of the
\* interrupt setup and the other subsystems it starts touch none of them.
Script ==
    [intr_mode \in BOOLEAN |->
        <<Prints(LoadMsg), Call(serial_init(intr_mode)), Prints(LogMsg),
          Call(pic_init(32, 40)), [op |-> "sti"], Prints(LogMsg), [op |-> "others"],
          Program(FALSE), Command(FALSE), Wait, Program(TRUE), Command(TRUE), Wait>>]
kmain == Script[work.intr_mode]

Init ==
    /\ work \in Workloads
    /\ uart = Uart(0, LINECTRL_8N1, 1)
    /\ pic = [master |-> Chip(8, {}), slave |-> Chip(112, {})]
    /\ dma = [chip |-> [c \in Controllers |-> IF c = 0 THEN Idle8237(work.flipflop) ELSE Cascading],
              page |-> [p \in PagePorts |-> 0]]
    /\ step = 1 /\ todo = << >> /\ channel = NULL /\ text = << >>
    /\ enabled = FALSE /\ handler = NULL /\ _fdc_irq_fired = FALSE
    /\ drive = NULL /\ raises = work.raises /\ waiting = {} /\ wire = << >>

-----------------------------------------------------------------------------
\* outb: the chip behind the port takes the value.
outb(write) ==
    LET value == write[1]
        port == write[2]
    IN  /\ uart' = IF port \in SerialPorts THEN UartOut(uart, value, port) ELSE uart
        /\ pic' = IF port \in PicPorts THEN PicOut(pic, value, port) ELSE pic
        /\ dma' = IF port \in DmaPorts THEN DmaOut(dma, value, port) ELSE dma

\* kmain goes on; it runs when no handler does.
Begins(op) ==
    /\ handler = NULL /\ todo = << >> /\ text = << >>
    /\ step <= Len(kmain) /\ kmain[step].op = op
    /\ step' = step + 1

printk ==
    /\ Begins("print") /\ text' = kmain[step].text
    /\ UNCHANGED <<uart, pic, dma, work, todo, channel, enabled, handler, _fdc_irq_fired, drive, raises,
                   waiting, wire>>

Calls ==
    /\ Begins("call") /\ todo' = kmain[step].writes /\ channel' = kmain[step].channel
    /\ UNCHANGED <<uart, pic, dma, work, text, enabled, handler, _fdc_irq_fired, drive, raises,
                   waiting, wire>>

\* Another driver makes a call of the DMA driver, or none.
OthersCall ==
    /\ Begins("others")
    /\ \/ \E c \in OtherCalls : work.others /\ todo' = DmaCall(c) /\ channel' = c.channel
       \/ UNCHANGED <<todo, channel>>
    /\ UNCHANGED <<uart, pic, dma, work, text, enabled, handler, _fdc_irq_fired, drive, raises,
                   waiting, wire>>

\* The end of setup_x86_interrutps.
Sti ==
    /\ Begins("sti") /\ enabled' = TRUE
    /\ UNCHANGED <<uart, pic, dma, work, todo, channel, text, handler, _fdc_irq_fired, drive, raises,
                   waiting, wire>>

\* The command bytes have reached the drive (module Fdc has them one by one).
SendCommand ==
    /\ Begins("command") /\ drive' = IF kmain[step].is_write THEN "write" ELSE "read"
    /\ UNCHANGED <<uart, pic, dma, work, todo, channel, text, enabled, handler, _fdc_irq_fired, raises,
                   waiting, wire>>

_fdc_wait_for_irq ==
    /\ Begins("wait") /\ _fdc_irq_fired /\ _fdc_irq_fired' = FALSE
    /\ UNCHANGED <<uart, pic, dma, work, todo, channel, text, enabled, handler, drive, raises, waiting, wire>>

PortWrite ==
    /\ handler = NULL /\ todo # << >>
    /\ outb(Head(todo)) /\ todo' = Tail(todo)
    /\ UNCHANGED <<work, step, channel, text, enabled, handler, _fdc_irq_fired, drive, raises, waiting, wire>>

\* The poll in serial_putc that ends: the character is written next.
PollEnds ==
    /\ handler = NULL /\ todo = << >> /\ text # << >> /\ serial_ready
    /\ todo' = serial_putc(Head(text)) /\ text' = Tail(text)
    /\ UNCHANGED <<uart, pic, dma, work, step, channel, enabled, handler, _fdc_irq_fired, drive, raises,
                   waiting, wire>>

-----------------------------------------------------------------------------
\* A request counts once the controllers are set up; their initialisation
\* forgets those that came before.
SetUp == \A c \in {"master", "slave"} : pic[c].word = 0 /\ pic[c].cascade # 0
Raise(device) ==
    /\ pic' = Raised(pic, LineOf[device])
    /\ waiting' = IF SetUp THEN waiting \cup {device} ELSE waiting

DeviceRaises(device) ==
    /\ raises[device] > 0 /\ raises' = [raises EXCEPT ![device] = @ - 1]
    /\ Raise(device)
    /\ UNCHANGED <<uart, dma, work, kernel, enabled, handler, _fdc_irq_fired, drive, wire>>

\* The UART takes the character to send, and has sent it.
UartTakes ==
    /\ uart.thr # NULL /\ uart.shift = NULL
    /\ uart' = [uart EXCEPT !.thr = NULL, !.shift = uart.thr]
    /\ IF UartInterrupts(uart) THEN Raise("serial") ELSE UNCHANGED <<pic, waiting>>
    /\ UNCHANGED <<dma, work, kernel, enabled, handler, _fdc_irq_fired, drive, raises, wire>>

UartSends ==
    /\ uart.shift # NULL
    /\ wire' = Append(wire, [char |-> uart.shift, framing |-> Framing(uart)])
    /\ uart' = [uart EXCEPT !.shift = NULL]
    /\ UNCHANGED <<pic, dma, work, kernel, enabled, handler, _fdc_irq_fired, drive, raises, waiting>>

\* The drive transfers the sector when its channel lets it, and says so.
DriveTransfers ==
    /\ drive # NULL /\ Ready(dma, DMA_CHAN_FLOPPY)
    /\ drive' = NULL /\ Raise("floppy")
    /\ UNCHANGED <<uart, dma, work, kernel, enabled, handler, _fdc_irq_fired, raises, wire>>

\* The processor takes an interrupt: its gate clears the interrupt flag.
Interrupt ==
    /\ enabled /\ handler = NULL /\ MasterPasses(pic) # {}
    /\ LET ack == Acknowledged(pic)
       IN  /\ pic' = ack.pic
           /\ handler' = [line |-> ack.line, vector |-> ack.vector, eoi |-> NULL]
    /\ UNCHANGED <<uart, dma, work, kernel, enabled, _fdc_irq_fired, drive, raises, waiting, wire>>

\* The registered service: the floppy's sets the flag, the serial port's
\* reads the identification register, the others are not modelled.
Service ==
    /\ handler # NULL /\ handler.eoi = NULL
    /\ _fdc_irq_fired' = (_fdc_irq_fired \/ handler.vector = IRQ.floppy)
    /\ waiting' = {d \in waiting : IRQ[d] # handler.vector}
    /\ handler' = [handler EXCEPT !.eoi = pic_send_eoi(handler.vector)]
    /\ UNCHANGED <<uart, pic, dma, work, kernel, enabled, drive, raises, wire>>

EndOfInterrupt ==
    /\ handler # NULL /\ handler.eoi # NULL
    /\ IF handler.eoi = << >> THEN handler' = NULL /\ UNCHANGED <<uart, pic, dma>>
       ELSE outb(Head(handler.eoi)) /\ handler' = [handler EXCEPT !.eoi = Tail(@)]
    /\ UNCHANGED <<work, kernel, enabled, _fdc_irq_fired, drive, raises, waiting, wire>>

Kernel == printk \/ Calls \/ OthersCall \/ Sti \/ SendCommand \/ _fdc_wait_for_irq \/ PortWrite \/ PollEnds
Handler == Interrupt \/ Service \/ EndOfInterrupt
Hardware == UartTakes \/ UartSends \/ DriveTransfers

Next == Kernel \/ Handler \/ Hardware \/ \E d \in Devices : DeviceRaises(d)

\* The processor and the chips do not stop while they have something to do.
Fairness == WF_vars(Kernel \/ Handler \/ Hardware)

Spec == Init /\ [][Next]_vars /\ Fairness

-----------------------------------------------------------------------------
TypeOK ==
    /\ step \in 1 .. Len(kmain) + 1
    /\ todo \in Seq(Bytes \X (SerialPorts \cup PicPorts \cup DmaPorts)) /\ text \in Seq(Bytes)
    /\ uart.thr \in Bytes \cup {NULL} /\ uart.shift \in Bytes \cup {NULL}
    /\ uart.dll \in Bytes /\ uart.dlm \in Bytes /\ uart.lcr \in Bytes
    /\ \A c \in {"master", "slave"} : pic[c].base \in Bytes /\ pic[c].word \in {0, 2, 3, 4}
    /\ \A c \in Controllers : dma.chip[c].flipflop \in {0, 1} /\ dma.chip[c].mask \subseteq 0 .. 3
    /\ enabled \in BOOLEAN /\ _fdc_irq_fired \in BOOLEAN
    /\ waiting \subseteq Devices /\ drive \in {NULL, "read", "write"}

\* The characters of the messages kmain has begun to print.
Texts ==
    [intr_mode \in BOOLEAN |->
        [n \in 0 .. Len(Script[intr_mode]) |->
            FlattenSeq([i \in 1 .. n |-> IF Script[intr_mode][i].op = "print"
                                         THEN Script[intr_mode][i].text ELSE << >>])]]
Said == Texts[work.intr_mode][step - 1]

\* The characters the driver and the UART still hold, in order.
One(c) == IF c = NULL THEN << >> ELSE <<c>>
Held ==
    One(uart.shift) \o One(uart.thr)
      \o (IF todo # << >> /\ kmain[step - 1].op = "print" THEN <<Head(todo)[1]>> ELSE << >>)
      \o text

(***************************************************************************)
(* serial_puts: the line carries what was printed, no character lost,      *)
(* doubled or out of order and every newline after a carriage return; and  *)
(* from serial_init on at 9600 baud, 8N1.  The text printed before it      *)
(* (load_msg) goes out as the firmware left the port, or, for what is      *)
(* still being sent when serial_init runs, in whatever framing it meets.   *)
(***************************************************************************)
LineCarriesTheText ==
    /\ [i \in 1 .. Len(wire) |-> wire[i].char] \o Held = Said
    /\ \A i \in Len(serial_puts(LoadMsg)) + 1 .. Len(wire) :
        wire[i].framing = [divisor |-> 12, lcr |-> LINECTRL_8N1]

(***************************************************************************)
(* pic_init: whatever is raised when, a vector is never taken but for the  *)
(* line of the device whose driver registered for it (interrupts.h), and   *)
(* so the floppy driver sees its flag only after its drive has finished.   *)
(***************************************************************************)
InterruptsOnTheirVectors ==
    /\ handler # NULL =>
        \E d \in Devices : handler.line = LineOf[d] /\ handler.vector = IRQ[d]
    /\ _fdc_irq_fired => drive = NULL

(***************************************************************************)
(* _fdc_init_dma: when a command goes to the drive, the channel is set to  *)
(* move the 512 bytes of the sector between the drive and the DMA buffer,  *)
(* in the direction of the command, one byte at a time and upwards; it is  *)
(* open unless another driver has closed the cascade or the controller.    *)
(* Whatever was left in the flip-flop and in the registers by the firmware *)
(* or by other drivers' calls makes no difference.                         *)
(***************************************************************************)
FloppyTransferAsProgrammed ==
    drive # NULL =>
        /\ Programmed(dma, DMA_CHAN_FLOPPY) =
            [address |-> FLOPPY_DMA_BUFFER, page |-> 0, count |-> 511,
             mode |-> DMA_CHAN_FLOPPY + DMA_MODE_SINGLE
                        + IF drive = "write" THEN DMA_MODE_WRITE ELSE DMA_MODE_READ]
        /\ Cascaded(dma) /\ ~dma.chip[0].disabled => Ready(dma, DMA_CHAN_FLOPPY)

(***************************************************************************)
(* dma.c: a call for one channel leaves the address, count, mode and page  *)
(* of the others alone.  The exception is the page of channel 1, for which *)
(* the driver gives channel 3 the same port.                               *)
(***************************************************************************)
LeavesOthersAlone ==
    \A c \in Channels :
        \/ Programmed(dma, c)' = Programmed(dma, c)
        \/ channel = c
        \/ c = 1 /\ channel = 3
             /\ [Programmed(dma, c) EXCEPT !.page = 0]' = [Programmed(dma, c) EXCEPT !.page = 0]
ChannelsIndependent == [][LeavesOthersAlone]_dma

(***************************************************************************)
(* Every request raised once the controllers are set up is handled (its    *)
(* end is signalled to the right chips, or those behind it would wait for  *)
(* ever), every text gets out, and a transfer whose channel is open ends:  *)
(* as devices raise their lines finitely often, again and again nothing is *)
(* left to be done.                                                        *)
(***************************************************************************)
Quiescent ==
    /\ waiting = {} /\ text = << >>
    /\ drive # NULL => ~Ready(dma, DMA_CHAN_FLOPPY)
EveryRequestServed == []<>Quiescent
=============================================================================
