--------------------------- MODULE MCGaugeAccess ---------------------------
(* Gauges of either byte order, with settings other than what the firmware *)
(* wants, with the bytes of PackConfiguration alike or not.                *)
EXTENDS GaugeAccess

SomeBlocks ==
    {[high_first |-> first, b0 |-> bytes[1], b1 |-> bytes[2], c |-> bytes[3], rest |-> "whole"] :
        first \in BOOLEAN, bytes \in {<<{}, {0, 5}, {0}>>, <<{0, 5, 6}, {4}, {4}>>, <<{5}, {5}, {0}>>}}
=============================================================================
