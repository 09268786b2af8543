------------------------------- MODULE Serial -------------------------------
(***************************************************************************)
(* The serial driver, driver/serial.c, and the 8250 UART behind its ports. *)
(* A driver function that only writes ports is the sequence of its writes  *)
(* <<value, port>>, which the machine (module Start) performs one at a     *)
(* time while the UART goes on sending.  Characters are byte values.       *)
(***************************************************************************)
EXTENDS Common

VARIABLE uart   \* the registers of COM1; thr and shift are NULL when empty

COM1_IO_BASE == 1016
SERIAL_XMITBUF == COM1_IO_BASE          \* the low divisor byte when DLAB is set
SERIAL_IER == COM1_IO_BASE + 1          \* the high divisor byte when DLAB is set
SERIAL_FIFOCTRL == COM1_IO_BASE + 2
SERIAL_LINECTRL == COM1_IO_BASE + 3
SERIAL_MODEMCTRL == COM1_IO_BASE + 4
SerialPorts == COM1_IO_BASE .. COM1_IO_BASE + 7

LINECTRL_DLAB == 128
LINECTRL_8N1 == 3        \* LINECTRL_DATABIT_8 | PARITY_NONE | STOPBIT_1
INTREN_XMIT_EMPTY == 2
MODEMCTRL_OUT2 == 8
INTRID_FIFO_UNUSABLE == 64
SERIAL_BASE_FREQ == 115200
SERIAL_DEFAULT_BAUD == 9600

Uart(ier, lcr, dll) ==
    [ier |-> ier, fifo |-> 0, lcr |-> lcr, mcr |-> 0, dll |-> dll, dlm |-> 0,
     thr |-> NULL, shift |-> NULL]

\* What a write to one of the ports does to the UART.  A character written
\* while the holding register is full replaces the one in it.
UartOut(u, value, port) ==
    LET dlab == u.lcr >= LINECTRL_DLAB IN
    CASE port = SERIAL_XMITBUF -> IF dlab THEN [u EXCEPT !.dll = value] ELSE [u EXCEPT !.thr = value]
      [] port = SERIAL_IER -> IF dlab THEN [u EXCEPT !.dlm = value] ELSE [u EXCEPT !.ier = value]
      [] port = SERIAL_FIFOCTRL -> [u EXCEPT !.fifo = value % 2]
      [] port = SERIAL_LINECTRL -> [u EXCEPT !.lcr = value]
      [] port = SERIAL_MODEMCTRL -> [u EXCEPT !.mcr = value]
      [] OTHER -> u

\* How the UART frames what it sends now.
Framing(u) == [divisor |-> u.dll + 256 * u.dlm, lcr |-> u.lcr]

\* IRQ4 goes out when the holding register has emptied, if enabled.
UartInterrupts(u) == u.mcr = MODEMCTRL_OUT2 /\ (u.ier \div INTREN_XMIT_EMPTY) % 2 = 1

-----------------------------------------------------------------------------
_serial_set_rate(baud) ==
    LET divisor == SERIAL_BASE_FREQ \div baud IN
    << <<LINECTRL_DLAB, SERIAL_LINECTRL>>, <<divisor % 256, SERIAL_XMITBUF>>,
       <<divisor \div 256, SERIAL_IER>>, <<0, SERIAL_LINECTRL>> >>

_serial_set_params(params) == << <<params, SERIAL_LINECTRL>> >>
_serial_enable_intrs(intrs) == << <<intrs, SERIAL_IER>> >>
_serial_disable_intrs == << <<0, SERIAL_IER>> >>
_serial_disable_fifo == << <<INTRID_FIFO_UNUSABLE, SERIAL_FIFOCTRL>> >>
_serial_set_modemctrl(bits) == << <<bits, SERIAL_MODEMCTRL>> >>

serial_init(intr_mode) ==
    _serial_disable_intrs \o _serial_disable_fifo
      \o _serial_set_rate(SERIAL_DEFAULT_BAUD) \o _serial_set_params(LINECTRL_8N1)
      \o _serial_set_modemctrl(MODEMCTRL_OUT2)
      \o (IF intr_mode THEN _serial_enable_intrs(INTREN_XMIT_EMPTY) ELSE << >>)

\* Mutant of serial_ready: the character is written without a look.
serial_ready_unasked == TRUE

\* serial_putc's poll of the line status sees the holding register empty.
serial_ready == uart.thr = NULL

\* The write of a character, once it did.
serial_putc(c) == << <<c, SERIAL_XMITBUF>> >>

\* The characters serial_puts sends for a string.
CR == 13
LF == 10
serial_puts(str) == FlattenSeq([i \in 1 .. Len(str) |->
                                  IF str[i] = LF THEN <<CR, LF>> ELSE <<str[i]>>])
=============================================================================
