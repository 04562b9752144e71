------------------------------ MODULE MCCrc16 ------------------------------
(* Frames of up to three bytes; every single bit, two edge bits and all of  *)
(* a byte flipped.                                                         *)
EXTENDS Crc16

MCBytes == {{}, {0, 2, 7}}
MCNoise == {{}, {0, 7}, 0 .. 7} \cup {{bit} : bit \in 0 .. 7}
=============================================================================
