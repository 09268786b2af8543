------------------------------ MODULE MCStart ------------------------------
(***************************************************************************)
(* Two families of workloads.  In the first, devices raise their lines at  *)
(* any moment, with the serial port in either mode.  In the second, any    *)
(* one call of the DMA driver, for any channel and for one that does not   *)
(* exist, comes before the floppy's, from either state of the flip-flop.   *)
(***************************************************************************)
EXTENDS Start

MCLoadMsg == <<97>>
MCLogMsg == <<LF>>

MCOtherCalls == [name : DmaFunctions, channel : 0 .. 8, arg : {4660}]
Quiet == [d \in Devices |-> 0]

Interrupted ==
    [intr_mode : BOOLEAN, others : {FALSE}, flipflop : {0},
     raises : {[Quiet EXCEPT !.timer = 1, !.disk = 1]}]
Programming ==
    [intr_mode : {FALSE}, others : {TRUE}, flipflop : {0, 1}, raises : {Quiet}]
MCWorkloads == Interrupted \cup Programming
=============================================================================
