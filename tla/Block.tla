------------------------------- MODULE Block -------------------------------
(***************************************************************************)
(* The block layer, driver/block.c: the table of registered devices and    *)
(* the range check in front of a driver.                                   *)
(***************************************************************************)
EXTENDS Common

CONSTANT MaxDevices   \* max_block_devices (16)

ASSUME BlockAssumption == MaxDevices \in Nat \ {0}

VARIABLE block_devices   \* NULL before the first call, then the devices in order

BlockInit == block_devices = NULL

\* The device found by name, NULL if there is none.
blkdev_get_by_name(name) ==
    LET hits == IF block_devices = NULL THEN {}
                ELSE {i \in 1 .. Len(block_devices) : block_devices[i].name = name}
    IN  IF hits = {} THEN NULL ELSE block_devices[Min(hits)]

(***************************************************************************)
(* Registration.  The first call makes the table.  It is refused when the  *)
(* table is full, when the heap is (alloc says which allocations succeed)  *)
(* or when the name is taken; the structure allocated for a taken name is  *)
(* never freed.                                                            *)
(***************************************************************************)
blkdev_register(name, num_blocks, alloc) ==
    LET table == IF block_devices = NULL THEN << >> ELSE block_devices IN
    block_devices' =
        CASE block_devices = NULL /\ "table" \notin alloc -> NULL
          [] Len(table) >= MaxDevices \/ "device" \notin alloc -> table
          [] blkdev_get_by_name(name) # NULL -> table
          [] OTHER -> Append(table, [name |-> name, num_blocks |-> num_blocks])

\* What blkread and blkwrite demand before they call the driver.
InRange(dev, lba) == dev # NULL /\ lba < dev.num_blocks

\* A read: refused here, or passed to the driver, which may fail.
blkread(dev, lba, driver_ok) == InRange(dev, lba) /\ driver_ok
=============================================================================
