---------------------------- MODULE MCSerialComm ----------------------------
(* Real marker and command bytes; rx_buffer cut to three bytes, so that a  *)
(* frame of four is oversized.  What matters of the checksum is that no    *)
(* two of the strings compared collide: a polynomial modulo 2^16 does (the *)
(* real one is Crc16's).                                                   *)
EXTENDS SerialComm, SequencesExt

MCCrc(data) == FoldLeft(LAMBDA acc, byte : (acc * 263 + byte + 1) % 65536, 0, data)

MCVersion == <<1, 2, 0>>
MCLogText == <<120>>

Corrupt(s) == [s EXCEPT ![Len(s)] = (@ + 1) % 256]

SetMotor == Packet(SET_MOTOR_LEVEL, <<START_MARKER, 7>>)
Oversized == Packet(9, <<START_MARKER>> \o SubSeq(Packet(GET_LOG, <<>>), 2, 6))

(* Every command; a wrong size, CRC and command; marker bytes in the       *)
(* payload; no length at all; a whole GET_LOG inside a frame too long; and *)
(* bytes that are no frame.                                                *)
MCSlowFrames == {
    SetMotor,
    Packet(GET_LOG, <<>>),
    Packet(GET_STATE, <<>>),
    Corrupt(Packet(SET_MOTOR_LEVEL, <<9, 9>>)),
    Packet(GET_LOG, <<START_MARKER>>),
    <<START_MARKER, 0, 0, 1, 1>> }

MCFrames == MCSlowFrames \cup {
    Packet(RESET_STATE, <<>>),
    Packet(GET_VERSION, <<>>),
    Packet(SET_MOTOR_LEVEL, <<9>>),
    Packet(5, <<>>),
    Packet(9, <<9, 9, 9>>),
    Oversized,
    <<7>> }

(* The hypotheses of the theorems of SerialComm_proofs about the host.     *)
ASSUME HostAssumption == PlainHost /\ NothingNested
=============================================================================
