--------------------------- MODULE MCPeripherals ---------------------------
(* call_queue holds three, so that it is full at times.                    *)
EXTENDS Peripherals

Anything == EventKinds
=============================================================================
