------------------------------- MODULE Crc16 -------------------------------
(***************************************************************************)
(* crc16_ccitt of crc.c, turn by turn, over a frame as its sender has it   *)
(* and as its receiver gets it, with some bits flipped on the way.  A byte *)
(* or a uint16_t is the set of the positions of its 1 bits: ^ is Plus, and *)
(* << is Shifted.                                                          *)
(***************************************************************************)
EXTENDS Integers, Sequences

CONSTANTS
    Bytes,          \* byte values sent
    Noise,          \* what may be flipped in a byte
    Length          \* most bytes in a frame, a bound for TLC

ASSUME FrameAssumption ==
    /\ Bytes \subseteq SUBSET (0 .. 7)
    /\ Noise \subseteq SUBSET (0 .. 7)
    /\ Length \in Nat

Ends == {"sender", "receiver"}

VARIABLES
    frame,          \* the bytes so far, at each end
    crc,            \* the checksum each end has computed of them
    turns,          \* how many turns of the inner loop are left for the last byte
    quotient        \* history: the turns in which the top bit was set, a digit for each

vars == <<frame, crc, turns, quotient>>

Plus(p, q) == (p \ q) \cup (q \ p)
Shifted(p, n) == {k + n : k \in p}

CRC16_INIT == 0 .. 15
POLY == {0, 5, 12}      \* 0x1021

(* Mutant: the top bit is looked at after the shift. *)
ShiftBitLate(value) ==
    LET doubled == Shifted(value, 1) \ {16}
    IN  IF 15 \in doubled THEN Plus(doubled, POLY) ELSE doubled

(* What a turn of the inner loop does to a uint16_t. *)
ShiftBit(value) ==
    LET doubled == Shifted(value, 1) \ {16}
    IN  IF 15 \in value THEN Plus(doubled, POLY) ELSE doubled

Init ==
    /\ frame = [end \in Ends |-> <<>>]
    /\ crc = [end \in Ends |-> CRC16_INIT]
    /\ turns = 0
    /\ quotient = [end \in Ends |-> {}]

Got(byte, noise) == [end \in Ends |-> IF end = "sender" THEN byte ELSE Plus(byte, noise)]

(* Mutant: the inner loop is one turn short. *)
AddByteSevenTurns(byte, noise) ==
    /\ turns = 0
    /\ Len(frame["sender"]) < Length
    /\ frame' = [end \in Ends |-> Append(frame[end], Got(byte, noise)[end])]
    /\ crc' = [end \in Ends |-> Plus(crc[end], Shifted(Got(byte, noise)[end], 8))]
    /\ turns' = 7
    /\ UNCHANGED quotient

(* The outer loop. *)
AddByte(byte, noise) ==
    /\ turns = 0
    /\ Len(frame["sender"]) < Length
    /\ frame' = [end \in Ends |-> Append(frame[end], Got(byte, noise)[end])]
    /\ crc' = [end \in Ends |-> Plus(crc[end], Shifted(Got(byte, noise)[end], 8))]
    /\ turns' = 8
    /\ UNCHANGED quotient

(* The inner loop. *)
Turn ==
    /\ turns > 0
    /\ crc' = [end \in Ends |-> ShiftBit(crc[end])]
    /\ turns' = turns - 1
    /\ quotient' = [end \in Ends |-> Shifted(quotient[end], 1) \cup {0 : bit \in crc[end] \cap {15}}]
    /\ UNCHANGED frame

Next ==
    \/ \E byte \in Bytes, noise \in Noise : AddByte(byte, noise)
    \/ Turn

Spec == Init /\ [][Next]_vars

-----------------------------------------------------------------------------
(* The quotient has had a digit for each turn. *)
TypeOK ==
    /\ frame \in [Ends -> Seq(SUBSET (0 .. 7))]
    /\ Len(frame["sender"]) <= Length /\ Len(frame["receiver"]) = Len(frame["sender"])
    /\ crc \in [Ends -> SUBSET (0 .. 15)]
    /\ turns \in 0 .. 8
    /\ quotient \in [Ends -> SUBSET Nat]
    /\ \A end \in Ends : quotient[end] \subseteq 0 .. (8 * Len(frame[end]) - turns - 1)

(* Polynomials over GF(2) are the sets of their exponents.  A frame is     *)
(* one, its first bit the highest, ...                                     *)
Frame(bytes) ==
    UNION {Shifted(bytes[i], 8 * (Len(bytes) - i)) : i \in DOMAIN bytes}

(* ... and what is divided is the frame times x^16 and CRC16_INIT in front *)
(* of it, by x^16 + x^12 + x^5 + 1.                                        *)
Dividend(bytes) == Plus(Shifted(Frame(bytes), 16), Shifted(CRC16_INIT, 8 * Len(bytes)))
TimesDivisor(p) == Plus(Plus(Shifted(p, 16), Shifted(p, 12)), Plus(Shifted(p, 5), p))

(* The loops of crc.c compute the CCITT checksum of every frame: the rest  *)
(* that the division leaves, of a lower degree than the divisor.           *)
CrcIsRemainder ==
    turns = 0 =>
        \A end \in Ends :
            /\ Dividend(frame[end]) = Plus(TimesDivisor(quotient[end]), crc[end])
            /\ crc[end] \subseteq 0 .. 15

Flipped == Plus(Frame(frame["sender"]), Frame(frame["receiver"]))

(* The checksum of PROTOCOL.md is worth sending: a frame in which one bit, *)
(* or any bits no more than 16 apart, are flipped never passes             *)
(* (serial_comm_manager.c:164).                                            *)
BurstsDetected ==
    /\ turns = 0
    /\ Flipped # {}
    /\ \A d, e \in Flipped : d - e < 16
    => crc["sender"] # crc["receiver"]
=============================================================================
