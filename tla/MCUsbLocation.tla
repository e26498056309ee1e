---------------------------- MODULE MCUsbLocation ----------------------------
(* Model values for UsbLocation.tla: of three controllers, for which there are *)
(* not enough numbers, two have ports, and two hubs can trade places.          *)
EXTENDS UsbLocation

CONSTANTS c1, c2, h, h2

McFunctionOf == [f \in Functions |-> CHOOSE d \in Devices : TRUE]
McSockets == [up : {c1, c2, h, h2}, port : {1}] \cup {[up |-> c1, port |-> 2]}
=============================================================================
