---------------------------- MODULE MCDriverTests ----------------------------
(* Three CPU fifos each way, two DMA nodes, two adders of two ports, and   *)
(* the two halves of a test node.  A DMA buffer is larger than the fifo of *)
(* the CPU node that it is written to.                                     *)
EXTENDS DriverTests

MCDevices  == [r |-> 3, w |-> 3, dr |-> 2, dw |-> 2]
MCCounted  == [r |-> 3, w |-> 3]
MCPorts    == {a(0), a(1), b(0), b(1), generator, checker}
MCCapacity == [r |-> 3, w |-> 1, dr |-> 4, dw |-> 4, port |-> 1]
MCTests    == DOMAIN Main
=============================================================================
