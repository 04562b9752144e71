----------------------------- MODULE MCEncoder -----------------------------
(* Words of four values and two wheels, of which one turns farther than   *)
(* half a word and the other as little as it can.                          *)
EXTENDS Encoder

WheelReach == [e \in Encoders |-> IF e = 0 THEN 2 ELSE 0]
=============================================================================
