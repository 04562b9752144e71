---------------------------- MODULE MCLogBuffer ----------------------------
(* Three slots, at most three characters a line and six in all, so that    *)
(* both limits of the ring are reached; messages that are empty, short     *)
(* and cut.                                                                *)
EXTENDS LogBuffer

CONSTANTS c0, c1, empty, short, long

MCCores == {c0, c1}
MCMessages == {empty, short, long}
MCFormatted == [m \in MCMessages |-> CASE m = empty -> 0
                                       [] m = short -> 1
                                       [] m = long  -> 5]
=============================================================================
