----------------------------- MODULE SerialComm -----------------------------
(***************************************************************************)
(* The framed request/reply protocol of serial_comm_manager.c, byte by     *)
(* byte: get_block reads a frame from the host, answers NACK to whatever   *)
(* is not one, and hands the rest to handle_packet.  The host sends frames *)
(* back to back or one at a time, cut short, and, when slow, with pauses   *)
(* longer than FRAME_BYTE_TIMEOUT_US between any two bytes.  The log is    *)
(* LogBuffer's, here one block of characters; sensors are left out.        *)
(***************************************************************************)
EXTENDS Integers, Sequences, FiniteSets

CONSTANTS
    Frames,         \* byte strings the host sends, whole or cut
    SlowFrames,     \* those it may send with pauses
    Window,         \* most frames sent before the line goes quiet
    Buffer,         \* most bytes sent and not yet read
    MaxPayload,     \* MAX_PAYLOAD_SIZE
    LogText,        \* what the log holds when it is not empty
    Version,        \* FW_VERSION_MAJOR, _MINOR, _PATCH
    Crc(_)          \* crc16_ccitt of a byte string from 0xFFFF

Byte == 0 .. 255
UINT16_MAX == 65535

ASSUME FramesAssumption ==
    /\ Frames \subseteq Seq(Byte) \ {<<>>}
    /\ SlowFrames \subseteq Frames
    /\ Window \in Nat \ {0}
    /\ Buffer \in Nat \ {0}
ASSUME SizesAssumption ==
    /\ MaxPayload \in 3 .. UINT16_MAX
    /\ LogText \in Seq(Byte)
    /\ Version \in Seq(Byte)

START_MARKER == 254
GET_LOG == 0
SET_MOTOR_LEVEL == 1
RESET_STATE == 2
GET_STATE == 3
GET_VERSION == 6
NACK == 252
ACK == 253

VARIABLES
    rest,       \* bytes the host has yet to send
    rx,         \* bytes sent and not read
    slow,       \* the host pauses between bytes
    sent,       \* what the host has sent since the line was last quiet
    replies,    \* the frames sent back since then
    pc,         \* where get_block is
    len,        \* the length field, its first byte until the second is read
    body,       \* rx_buffer: command and payload read so far
    crc,        \* the first CRC byte
    left,       \* bytes discard_bytes has yet to drop
    motor,      \* levels last given to set_motor_levels
    control,    \* ControlValues of outgoingPacketToAndroid.state
    log         \* the log's text

host == <<rest, slow, sent>>
frame == <<pc, len, body, crc, left>>
device == <<motor, control, log>>
vars == <<host, rx, replies, frame, device>>

(* Little-endian bytes of a uint16_t. *)
LoHi(word) == <<word % 256, word \div 256>>

(* send_framed_packet *)
Packet(cmd, data) ==
    LET covered == LoHi((Len(data) + 1) % 65536) \o <<cmd>> \o data
    IN  <<START_MARKER>> \o covered \o LoHi(Crc(covered))

Init ==
    /\ rest = <<>> /\ rx = <<>> /\ slow = FALSE /\ sent = <<>> /\ replies = <<>>
    /\ pc = "marker" /\ len = 0 /\ body = <<>> /\ crc = 0 /\ left = 0
    /\ motor = <<0, 0>> /\ control = <<0, 0>> /\ log = <<>>

-----------------------------------------------------------------------------
(* The host *)

Quiet == rest = <<>> /\ rx = <<>> /\ pc = "marker"

(* As long as its length field says, or not a frame at all. *)
Whole(s) ==
    \/ s[1] # START_MARKER
    \/ Len(s) >= 3 /\ Len(s) = 5 + s[2] + 256 * s[3]

SendFrame(f, upto) ==
    LET bytes == SubSeq(f, 1, upto)
    IN  /\ ~Quiet
        /\ rest = <<>> /\ ~slow
        /\ Len(sent) < Window
        /\ Whole(sent[Len(sent)])
        /\ rest' = bytes
        /\ sent' = Append(sent, bytes)
        /\ UNCHANGED <<rx, slow, replies, frame, device>>

(* The first frame after the line has been quiet. *)
SendFirst(f, upto) ==
    LET bytes == SubSeq(f, 1, upto)
    IN  /\ Quiet
        /\ rest' = bytes
        /\ sent' = <<bytes>>
        /\ replies' = <<>>
        /\ slow' \in IF f \in SlowFrames THEN BOOLEAN ELSE {FALSE}
        /\ UNCHANGED <<rx, frame, device>>

SendByte ==
    /\ rest # <<>>
    /\ Len(rx) < Buffer
    /\ rx' = Append(rx, Head(rest))
    /\ rest' = Tail(rest)
    /\ UNCHANGED <<slow, sent, replies, frame, device>>

-----------------------------------------------------------------------------
(* get_block *)

(* read_byte returns the next byte. *)
Read(point) ==
    /\ pc = point
    /\ rx # <<>>
    /\ rx' = Tail(rx)
    /\ UNCHANGED host

Got == Head(rx)

(* get_block returns: its locals are gone, and what rx_buffer holds is not *)
(* read again.                                                             *)
Return == pc' = "marker" /\ len' = 0 /\ body' = <<>> /\ crc' = 0 /\ left' = 0

Reply(packet) == replies' = Append(replies, packet)

Reject ==
    /\ Reply(Packet(NACK, <<>>))
    /\ UNCHANGED device

ReadMarker ==
    /\ Read("marker")
    /\ pc' = IF Got = START_MARKER THEN "len_lo" ELSE "marker"
    /\ UNCHANGED <<replies, len, body, crc, left, device>>

ReadLengthLow ==
    /\ Read("len_lo")
    /\ len' = Got
    /\ pc' = "len_hi"
    /\ UNCHANGED <<replies, body, crc, left, device>>

(* Mutants: the length may exceed rx_buffer by one; a frame with a bad     *)
(* length is not drained.                                                  *)
ReadLengthHighOffByOne ==
    /\ Read("len_hi")
    /\ len' = len + 256 * Got
    /\ IF len' = 0 \/ len' > MaxPayload + 1
       THEN /\ Reject
            /\ left' = len' + 2
            /\ pc' = "discard"
       ELSE /\ pc' = "body"
            /\ UNCHANGED <<replies, left, device>>
    /\ UNCHANGED <<body, crc>>

ReadLengthHighNoDrain ==
    /\ Read("len_hi")
    /\ IF len + 256 * Got = 0 \/ len + 256 * Got > MaxPayload
       THEN /\ Reject
            /\ Return
       ELSE /\ pc' = "body"
            /\ len' = len + 256 * Got
            /\ UNCHANGED <<replies, left, body, crc, device>>

ReadLengthHigh ==
    /\ Read("len_hi")
    /\ len' = len + 256 * Got
    /\ IF len' = 0 \/ len' > MaxPayload
       THEN /\ Reject
            /\ left' = len' + 2
            /\ pc' = "discard"
       ELSE /\ pc' = "body"
            /\ UNCHANGED <<replies, left, device>>
    /\ UNCHANGED <<body, crc>>

(* discard_bytes *)
Discard ==
    /\ Read("discard")
    /\ IF left = 1 THEN Return
       ELSE left' = left - 1 /\ UNCHANGED <<pc, len, body, crc>>
    /\ UNCHANGED <<replies, device>>

ReadBody ==
    /\ Read("body")
    /\ body' = Append(body, Got)
    /\ pc' = IF Len(body') = len THEN "crc_lo" ELSE "body"
    /\ UNCHANGED <<replies, len, crc, left, device>>

ReadCrcLow ==
    /\ Read("crc_lo")
    /\ crc' = Got
    /\ pc' = "crc_hi"
    /\ UNCHANGED <<replies, len, body, left, device>>

(* The payload size handle_packet asks of each command it validates. *)
SizeAllowed(cmd, size) ==
    /\ cmd = SET_MOTOR_LEVEL => size = 2
    /\ cmd \in {GET_LOG, GET_STATE, GET_VERSION, RESET_STATE} => size = 0

SetMotorLevel(payload) ==
    /\ motor' = payload
    /\ control' = payload
    /\ Reply(Packet(SET_MOTOR_LEVEL, payload))
    /\ UNCHANGED log

(* The whole state is cleared, then get_state fills in the sensors. *)
GetState ==
    /\ control' = <<0, 0>>
    /\ Reply(Packet(GET_STATE, control'))
    /\ UNCHANGED <<motor, log>>

(* send_log_packet *)
GetLog ==
    /\ Reply(Packet(GET_LOG, log))
    /\ log' = <<>>
    /\ UNCHANGED <<motor, control>>

HandlePacket(cmd, payload) ==
    IF ~SizeAllowed(cmd, Len(payload)) THEN Reject
    ELSE \/ cmd = GET_LOG /\ GetLog
         \/ cmd = SET_MOTOR_LEVEL /\ SetMotorLevel(payload)
         \/ cmd = GET_STATE /\ GetState
         \/ cmd = GET_VERSION /\ Reply(Packet(GET_VERSION, Version)) /\ UNCHANGED device
         \/ cmd = RESET_STATE /\ Reply(Packet(ACK, <<>>)) /\ UNCHANGED device
         \/ /\ cmd \notin {GET_LOG, SET_MOTOR_LEVEL, GET_STATE, GET_VERSION, RESET_STATE}
            /\ Reject

(* Mutant: the CRC is read and not compared. *)
ReadCrcHighUnchecked ==
    /\ Read("crc_hi")
    /\ Return
    /\ HandlePacket(Head(body), Tail(body))

ReadCrcHigh ==
    /\ Read("crc_hi")
    /\ Return
    /\ IF Crc(LoHi(len) \o body) = crc + 256 * Got
       THEN HandlePacket(Head(body), Tail(body))
       ELSE Reject

(* Mutant: discard_bytes waits for the bytes it was told to drop. *)
TimeoutExceptDiscard ==
    /\ rx = <<>>
    /\ slow \/ rest = <<>>
    /\ pc \notin {"marker", "discard"}
    /\ Return
    /\ Reject
    /\ UNCHANGED <<host, rx>>

(* read_byte gives up: nothing has come for FRAME_BYTE_TIMEOUT_US.  A host *)
(* that is not slow keeps the bytes of a frame closer than that.           *)
Timeout ==
    /\ rx = <<>>
    /\ slow \/ rest = <<>>
    /\ pc # "marker"
    /\ Return
    /\ IF pc = "discard" THEN UNCHANGED <<replies, device>> ELSE Reject
    /\ UNCHANGED <<host, rx>>

-----------------------------------------------------------------------------
(* rp2040_log, on either core *)
LogLine ==
    /\ log = <<>>
    /\ log' = LogText
    /\ UNCHANGED <<host, rx, replies, frame, motor, control>>

GetBlock ==
    \/ ReadMarker \/ ReadLengthLow \/ ReadLengthHigh \/ Discard
    \/ ReadBody \/ ReadCrcLow \/ ReadCrcHigh \/ Timeout

Next ==
    \/ \E f \in Frames : \E upto \in 1 .. Len(f) : SendFirst(f, upto) \/ SendFrame(f, upto)
    \/ SendByte
    \/ GetBlock
    \/ LogLine

Spec == Init /\ [][Next]_vars

(* main calls get_block for ever and read_byte gives up by itself; a frame *)
(* begun is sent to its (cut) end.                                         *)
FairSpec == Spec /\ WF_vars(GetBlock) /\ WF_vars(SendByte)

-----------------------------------------------------------------------------
(* No byte is stored past the end of rx_buffer, no count goes below zero,  *)
(* and a frame being read is never longer than it said it would be.        *)
TypeOK ==
    /\ rest \in Seq(Byte) /\ rx \in Seq(Byte)
    /\ slow \in BOOLEAN
    /\ sent \in Seq(Seq(Byte))
    /\ pc \in {"marker", "len_lo", "len_hi", "body", "crc_lo", "crc_hi", "discard"}
    /\ len \in 0 .. UINT16_MAX
    /\ pc \in {"body", "crc_lo", "crc_hi"} => len \in 1 .. MaxPayload
    /\ body \in Seq(Byte)
    /\ Len(body) <= MaxPayload
    /\ pc = "body" => Len(body) < len
    /\ pc \in {"crc_lo", "crc_hi"} => Len(body) = len
    /\ crc \in Byte
    /\ left \in 0 .. UINT16_MAX + 2
    /\ pc = "discard" => left > 0
    /\ motor \in Byte \X Byte
    /\ control \in Byte \X Byte
    /\ log \in {<<>>, LogText}

(* The request of PROTOCOL.md a byte string is, if it is one. *)
Command(s) == s[4]
Arguments(s) == SubSeq(s, 5, Len(s) - 2)
Intact(s) ==
    /\ Len(s) \in 6 .. 5 + MaxPayload
    /\ s = Packet(Command(s), Arguments(s))
    /\ Command(s) \in {GET_LOG, SET_MOTOR_LEVEL, GET_STATE, GET_VERSION, RESET_STATE}
    /\ Len(Arguments(s)) = IF Command(s) = SET_MOTOR_LEVEL THEN 2 ELSE 0

Answers(reply, s) ==
    IF ~Intact(s) THEN reply = Packet(NACK, <<>>)
    ELSE CASE Command(s) = GET_LOG -> reply \in {Packet(GET_LOG, text) : text \in {<<>>, LogText}}
           [] Command(s) = SET_MOTOR_LEVEL -> reply = Packet(SET_MOTOR_LEVEL, Arguments(s))
           [] Command(s) = GET_STATE -> Len(reply) > 4 /\ reply[4] = GET_STATE
           [] Command(s) = GET_VERSION -> reply = Packet(GET_VERSION, Version)
           [] Command(s) = RESET_STATE -> reply = Packet(ACK, <<>>)

(* What the host must be for the two properties below to hold: a frame it  *)
(* sends is no longer than its length field says, and only frames hold     *)
(* markers.                                                                *)
Asking(s) == s[1] = START_MARKER
Plain(s) ==
    IF Asking(s) THEN Len(s) >= 3 => Len(s) <= 5 + s[2] + 256 * s[3]
    ELSE \A j \in 1 .. Len(s) : s[j] # START_MARKER
PlainHost == \A f \in Frames : Plain(f)

(* For the second, no frame it may send with pauses holds another.         *)
NothingNested ==
    \A f \in SlowFrames : \A a, b \in 1 .. Len(f) :
        Intact(SubSeq(f, a, b)) => a = 1 /\ b = Len(f)

(* How many of the first n strings the host sent ask for a reply.          *)
Asked(n) == Cardinality({i \in 1 .. n : Asking(sent[i])})

(* A host that does not pause gets one reply to each frame, in order and   *)
(* of the right kind: what is cut, corrupt, oversized, empty, unknown or   *)
(* ill-sized gets exactly one NACK, whatever markers it contains, and      *)
(* never eats into or answers for a neighbour, whatever came before the    *)
(* line was last quiet.                                                    *)
OneReplyEach ==
    ~slow =>
        /\ Len(replies) <= Asked(Len(sent))
        /\ \A i \in DOMAIN sent :
               Asking(sent[i]) /\ Asked(i) <= Len(replies) => Answers(replies[Asked(i)], sent[i])
        /\ Quiet => Len(replies) = Asked(Len(sent))

(* The motors change, and the log is drained, only for an intact frame the *)
(* host sent that asks for it, even when pauses make get_block look for    *)
(* markers in the middle of frames.                                        *)
OnlyIntactFramesAct ==
    [][ /\ motor' # motor =>
            \E i \in DOMAIN sent : /\ Intact(sent[i])
                                   /\ Command(sent[i]) = SET_MOTOR_LEVEL
                                   /\ motor' = Arguments(sent[i])
        /\ log # <<>> /\ log' = <<>> =>
            \E i \in DOMAIN sent : Intact(sent[i]) /\ Command(sent[i]) = GET_LOG ]_vars

(* get_block always comes back to look for a marker, so main never hangs   *)
(* on a host that stopped in the middle of a frame.                        *)
BackToMarker == pc # "marker" ~> pc = "marker"
=============================================================================
