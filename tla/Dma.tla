-------------------------------- MODULE Dma --------------------------------
(***************************************************************************)
(* The driver of the two DMA controllers, driver/dma.c, with the one user  *)
(* it has, _fdc_init_dma of driver/fdc.c, and the two 8237A chips and page *)
(* registers behind the ports.  Driver functions are sequences of port     *)
(* writes <<value, port>>.                                                 *)
(***************************************************************************)
EXTENDS Common

VARIABLE dma   \* [chip |-> the two controllers, page |-> by port]

DMA_CHAN_FLOPPY == 2
FLOPPY_DMA_BUFFER == 4096
DMA_CMD_DISABLE == 4
DMA_MODE_READ == 4     \* the device's data goes to memory
DMA_MODE_WRITE == 8
DMA_MODE_SINGLE == 64

Channels == 0 .. 7
\* Mutant of ADDR: channel 3 has the port of channel 2.
ADDR_twice(channel) == <<0, 2, 4, 4, 192, 196, 200, 204>>[channel + 1]

\* The ports the driver uses for each channel; channel 4 has no page register.
ADDR(channel) == <<0, 2, 4, 6, 192, 196, 200, 204>>[channel + 1]
COUNT(channel) == <<1, 3, 5, 7, 194, 198, 202, 206>>[channel + 1]
PAGE(channel) == <<135, 131, 129, 131, 143, 139, 137, 138>>[channel + 1]
CHANMASK(channel) == IF channel < 4 THEN 10 ELSE 212
MODE(channel) == IF channel < 4 THEN 11 ELSE 214

\* The chips: a flip-flop selects the byte of a 16 bit register.
PagePorts == 128 .. 143
DmaPorts == 0 .. 15 \cup {192 + 2 * i : i \in 0 .. 15} \cup PagePorts
Controllers == {0, 1}
Idle8237(flipflop) ==
    [flipflop |-> flipflop, address |-> [k \in 0 .. 3 |-> <<0, 0>>],
     count |-> [k \in 0 .. 3 |-> <<0, 0>>], mode |-> [k \in 0 .. 3 |-> 0],
     mask |-> 0 .. 3, disabled |-> FALSE]

\* The firmware leaves channel 4 open: controller 0 is cascaded there.
Cascading == [Idle8237(0) EXCEPT !.mask = 1 .. 3, !.mode[0] = 192]

\* What a write to register reg of a chip does.
ChipOut(chip, value, reg) ==
    LET k == IF reg < 8 THEN reg \div 2 ELSE value % 4
        half == chip.flipflop + 1
    IN  CASE reg \in {0, 2, 4, 6} ->
                [chip EXCEPT !.address[k][half] = value, !.flipflop = 1 - @]
          [] reg \in {1, 3, 5, 7} ->
                [chip EXCEPT !.count[k][half] = value, !.flipflop = 1 - @]
          [] reg = 8 -> [chip EXCEPT !.disabled = (value \div 4) % 2 = 1]
          [] reg = 10 -> [chip EXCEPT !.mask = IF (value \div 4) % 2 = 1 THEN @ \cup {k} ELSE @ \ {k}]
          [] reg = 11 -> [chip EXCEPT !.mode[k] = value]
          [] reg = 12 -> [chip EXCEPT !.flipflop = 0]
          [] reg = 13 -> [chip EXCEPT !.flipflop = 0, !.mask = 0 .. 3, !.disabled = FALSE]
          [] reg = 14 -> [chip EXCEPT !.mask = {}]
          [] OTHER -> chip

DmaOut(d, value, port) ==
    CASE port \in PagePorts -> [d EXCEPT !.page[port] = value]
      [] port < 16 -> [d EXCEPT !.chip[0] = ChipOut(@, value, port)]
      [] OTHER -> [d EXCEPT !.chip[1] = ChipOut(@, value, (port - 192) \div 2)]

\* The page register the hardware uses for a channel.
PageOf(channel) == <<135, 131, 129, 130, 143, 139, 137, 138>>[channel + 1]

\* What a channel would do now.
Programmed(d, channel) ==
    LET c == d.chip[channel \div 4]
        k == channel % 4
    IN  [address |-> c.address[k][1] + 256 * c.address[k][2],
         page |-> d.page[PageOf(channel)],
         count |-> c.count[k][1] + 256 * c.count[k][2],
         mode |-> c.mode[k]]

\* It may: it is not masked and its controller is enabled, and for one of
\* the first four so is the cascade.
Open(c, k) == k \notin c.mask /\ ~c.disabled
Cascaded(d) == Open(d.chip[1], 0) /\ d.chip[1].mode[0] >= 192
Ready(d, channel) ==
    Open(d.chip[channel \div 4], channel % 4) /\ (channel < 4 => Cascaded(d))

-----------------------------------------------------------------------------
\* Mutant of TwoBytes: the low byte is not cut out.
TwoBytes_uncut(word, port) == << <<word, port>>, <<word \div 256, port>> >>

\* The low byte, then the high byte.
TwoBytes(word, port) == << <<word % 256, port>>, <<word \div 256, port>> >>

dma_set_address(channel, address) ==
    IF channel \in Channels THEN TwoBytes(address, ADDR(channel)) ELSE << >>

dma_set_count(channel, count) ==
    IF channel \in Channels THEN TwoBytes(count, COUNT(channel)) ELSE << >>

dma_set_external_pagereg(channel, page) ==
    IF channel \in Channels \ {4} THEN << <<page, PAGE(channel)>> >> ELSE << >>

dma_mask_channel(channel) ==
    IF channel \in Channels THEN << <<4 + (channel % 4), CHANMASK(channel)>> >> ELSE << >>

dma_unmask_channel(channel) ==
    IF channel \in Channels THEN << <<channel % 4, CHANMASK(channel)>> >> ELSE << >>

\* "only need to clear master": controller 0, whichever was meant.
dma_unmask_all == << <<0, 14>> >>

dma_set_mode(channel, mode) ==
    IF channel \in Channels
    THEN dma_mask_channel(channel) \o << <<mode + (channel % 4), MODE(channel)>> >> \o dma_unmask_all
    ELSE << >>

dma_setup_read(channel) == dma_set_mode(channel, DMA_MODE_READ + DMA_MODE_SINGLE)
dma_setup_write(channel) == dma_set_mode(channel, DMA_MODE_WRITE + DMA_MODE_SINGLE)
dma_reset_flipflop(dmac) == << <<255, IF dmac = 0 THEN 12 ELSE 216>> >>
dma_reset(dmac) == << <<255, IF dmac = 0 THEN 13 ELSE 218>> >>
dma_disable(dmac) == << <<DMA_CMD_DISABLE, IF dmac = 0 THEN 8 ELSE 208>> >>

\* Mutant of _fdc_init_dma: the flip-flop is taken as it is found.
_fdc_init_dma_flipflop(count, is_write) ==
    dma_mask_channel(DMA_CHAN_FLOPPY)
      \o dma_set_address(DMA_CHAN_FLOPPY, FLOPPY_DMA_BUFFER)
      \o dma_set_count(DMA_CHAN_FLOPPY, count)
      \o dma_set_external_pagereg(DMA_CHAN_FLOPPY, 0)
      \o (IF is_write THEN dma_setup_write(DMA_CHAN_FLOPPY) ELSE dma_setup_read(DMA_CHAN_FLOPPY))
      \o dma_unmask_all

_fdc_init_dma(count, is_write) ==
    dma_mask_channel(DMA_CHAN_FLOPPY)
      \o dma_reset_flipflop(0) \o dma_set_address(DMA_CHAN_FLOPPY, FLOPPY_DMA_BUFFER)
      \o dma_reset_flipflop(0) \o dma_set_count(DMA_CHAN_FLOPPY, count)
      \o dma_set_external_pagereg(DMA_CHAN_FLOPPY, 0)
      \o (IF is_write THEN dma_setup_write(DMA_CHAN_FLOPPY) ELSE dma_setup_read(DMA_CHAN_FLOPPY))
      \o dma_unmask_all
=============================================================================
