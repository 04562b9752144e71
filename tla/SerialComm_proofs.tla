------------------------- MODULE SerialComm_proofs -------------------------
(***************************************************************************)
(* Theorems about SerialComm for every size of rx_buffer, every host and   *)
(* every checksum function: first the types, then, for a host that does    *)
(* not contradict its own length fields, that each frame gets its one      *)
(* reply and that only an intact frame is obeyed.                          *)
(***************************************************************************)
EXTENDS SerialComm, SequenceTheorems, FiniteSetTheorems, TLAPS

(* Sequences are equal if they are as long and their elements are equal.   *)
LEMMA SameSequence ==
    ASSUME NEW S, NEW s \in Seq(S), NEW t \in Seq(S), Len(s) = Len(t),
           \A i \in 1 .. Len(s) : s[i] = t[i]
    PROVE  s = t
OBVIOUS

LEMMA TailElements ==
    ASSUME NEW S, NEW s \in Seq(S), s # <<>>
    PROVE  /\ Tail(s) \in Seq(S) /\ Len(Tail(s)) = Len(s) - 1
           /\ \A i \in 1 .. Len(s) - 1 : Tail(s)[i] = s[i + 1]
OBVIOUS

LEMMA AppendElements ==
    ASSUME NEW S, NEW s \in Seq(S), NEW e \in S
    PROVE  /\ Append(s, e) \in Seq(S) /\ Len(Append(s, e)) = Len(s) + 1
           /\ \A i \in 1 .. Len(s) : Append(s, e)[i] = s[i]
           /\ Append(s, e)[Len(s) + 1] = e
OBVIOUS

-----------------------------------------------------------------------------

(* A payload of two bytes is a pair of levels. *)
LEMMA TwoBytes ==
    ASSUME NEW payload \in Seq(Byte), Len(payload) = 2
    PROVE  payload \in Byte \X Byte
<1>1. payload = <<payload[1], payload[2]>>
  OBVIOUS
<1>2. payload[1] \in Byte /\ payload[2] \in Byte
  OBVIOUS
<1>3. QED
  BY <1>1, <1>2

(* What a host sends of a frame is bytes. *)
LEMMA CutFrame ==
    ASSUME NEW f \in Frames, NEW upto \in 1 .. Len(f)
    PROVE  SubSeq(f, 1, upto) \in Seq(Byte)
<1>1. f \in Seq(Byte)
  BY FramesAssumption
<1>2. \A i \in 1 .. upto : f[i] \in Byte
  BY <1>1
<1>3. QED
  BY <1>1, <1>2

(* The frames sent, after one more. *)
LEMMA SentTyped ==
    ASSUME NEW frames \in Seq(Seq(Byte)), NEW bytes \in Seq(Byte)
    PROVE  <<bytes>> \in Seq(Seq(Byte)) /\ Append(frames, bytes) \in Seq(Seq(Byte))
<1> DEFINE S == Seq(Byte)
<1>1. frames \in Seq(S) /\ bytes \in S
  OBVIOUS
<1> HIDE DEF S
<1>2. <<bytes>> \in Seq(S) /\ Append(frames, bytes) \in Seq(S)
  BY <1>1
<1>3. QED
  BY <1>2 DEF S

-----------------------------------------------------------------------------
(* TypeOK is inductive together with two facts about the steps before the  *)
(* body: nothing of it has been read, and the length field's first byte is *)
(* one byte.  In parts: the line, get_block's locals, the device.          *)
LineTyped ==
    /\ rest \in Seq(Byte) /\ rx \in Seq(Byte)
    /\ slow \in BOOLEAN
    /\ sent \in Seq(Seq(Byte))

Ranges ==
    /\ pc \in {"marker", "len_lo", "len_hi", "body", "crc_lo", "crc_hi", "discard"}
    /\ len \in Nat /\ len <= UINT16_MAX
    /\ crc \in Byte
    /\ left \in Nat /\ left <= UINT16_MAX + 2
    /\ pc = "discard" => left > 0

Fits ==
    /\ body \in Seq(Byte)
    /\ pc \in {"body", "crc_lo", "crc_hi"} => len \in 1 .. MaxPayload
    /\ Len(body) <= MaxPayload
    /\ pc = "body" => Len(body) < len
    /\ pc \in {"crc_lo", "crc_hi"} => Len(body) = len

Before ==
    /\ pc \in {"marker", "len_lo", "len_hi"} => body = <<>>
    /\ pc = "len_hi" => len \in Byte

FrameTyped == Ranges /\ Fits /\ Before

DeviceTyped ==
    /\ motor \in Byte \X Byte
    /\ control \in Byte \X Byte
    /\ log \in {<<>>, LogText}

Typed == LineTyped /\ FrameTyped /\ DeviceTyped

-----------------------------------------------------------------------------
(* What a step does to get_block's locals, one lemma per shape of step.    *)

LEMMA ReturnTyped == Return => FrameTyped'
<1>1. SUFFICES ASSUME Return PROVE Ranges' /\ Fits' /\ Before'
  BY DEF FrameTyped
<1>2. pc' = "marker" /\ len' = 0 /\ body' = <<>> /\ crc' = 0 /\ left' = 0
  BY <1>1 DEF Return
<1>3. Ranges'
  BY <1>2 DEF Ranges, Byte, UINT16_MAX
<1>4. Fits'
  BY <1>2, SizesAssumption DEF Fits
<1>5. Before'
  BY <1>2 DEF Before
<1>6. QED
  BY <1>3, <1>4, <1>5

LEMMA LocalsKept ==
    ASSUME FrameTyped, pc' = pc, len' = len, body' = body, crc' = crc, left' = left
    PROVE  FrameTyped'
<1>1. Ranges'
  BY DEF FrameTyped, Ranges
<1>2. Fits'
  BY DEF FrameTyped, Fits
<1>3. Before'
  BY DEF FrameTyped, Before
<1>4. QED
  BY <1>1, <1>2, <1>3 DEF FrameTyped

(* A marker is read, and the length field follows.                         *)
LEMMA LengthBegins ==
    ASSUME Ranges, Fits, Before, pc = "marker", pc' = "len_lo",
           len' = len, body' = body, crc' = crc, left' = left
    PROVE  FrameTyped'
<1>1. Ranges'
  BY DEF Ranges
<1>2. Fits'
  BY DEF Fits
<1>3. Before'
  BY DEF Before
<1>4. QED
  BY <1>1, <1>2, <1>3 DEF FrameTyped

(* The first byte of the length field.                                     *)
LEMMA LengthLowRead ==
    ASSUME Ranges, Fits, Before, pc = "len_lo", pc' = "len_hi", len' \in Byte,
           body' = body, crc' = crc, left' = left
    PROVE  FrameTyped'
<1>1. len' \in Nat /\ len' <= UINT16_MAX
  BY DEF Byte, UINT16_MAX
<1>2. Ranges'
  BY <1>1 DEF Ranges
<1>3. Fits'
  BY DEF Fits
<1>4. Before'
  BY DEF Before
<1>5. QED
  BY <1>2, <1>3, <1>4 DEF FrameTyped

(* Both bytes of the length field make a uint16_t.                         *)
LEMMA ByteSum ==
    ASSUME NEW low \in Byte, NEW high \in Byte
    PROVE  low + 256 * high \in Nat /\ low + 256 * high <= UINT16_MAX
BY SMT DEF Byte, UINT16_MAX

LEMMA TwoMore ==
    ASSUME NEW n \in Nat, n <= UINT16_MAX
    PROVE  n + 2 \in Nat /\ n + 2 > 0 /\ n + 2 <= UINT16_MAX + 2
BY DEF UINT16_MAX

(* The length field is refused, and the bytes it announces are dropped.    *)
LEMMA RefusedTyped ==
    ASSUME Ranges, Before, pc = "len_hi", pc' = "discard",
           len' \in Nat, len' <= UINT16_MAX, left' = len' + 2, body' = body, crc' = crc
    PROVE  FrameTyped'
<1>1. Ranges'
  <2>1. left' \in Nat /\ left' > 0 /\ left' <= UINT16_MAX + 2
    BY TwoMore, Zenon
  <2>2. pc' \in {"marker", "len_lo", "len_hi", "body", "crc_lo", "crc_hi", "discard"}
    OBVIOUS
  <2>3. crc' \in Byte
    BY Zenon DEF Ranges
  <2>4. QED
    BY <2>1, <2>2, <2>3, Zenon DEF Ranges
<1>2. body = <<>>
  BY DEF Before
<1>3. Fits'
  BY <1>2, SizesAssumption DEF Fits
<1>4. Before'
  BY DEF Before
<1>5. QED
  BY <1>1, <1>3, <1>4 DEF FrameTyped

(* It is accepted, and there is room for what it announces.                *)
LEMMA AcceptedTyped ==
    ASSUME Ranges, Before, pc = "len_hi", pc' = "body",
           len' \in Nat, len' <= UINT16_MAX, len' \in 1 .. MaxPayload,
           left' = left, body' = body, crc' = crc
    PROVE  FrameTyped'
<1>1. Ranges'
  BY DEF Ranges
<1>2. body = <<>>
  BY DEF Before
<1>3. Fits'
  BY <1>2, SizesAssumption DEF Fits
<1>4. Before'
  BY DEF Before
<1>5. QED
  BY <1>1, <1>3, <1>4 DEF FrameTyped

(* A byte of the body: there was room for it.                              *)
LEMMA StoredTyped ==
    ASSUME Ranges, Fits, NEW got \in Byte, pc = "body",
           body' = Append(body, got), pc' = IF Len(body') = len THEN "crc_lo" ELSE "body",
           len' = len, crc' = crc, left' = left
    PROVE  FrameTyped'
<1>1. body' \in Seq(Byte) /\ Len(body') = Len(body) + 1 /\ Len(body) \in Nat
  BY DEF Fits
<1>2. Ranges'
  BY <1>1 DEF Ranges
<1>3. Fits'
  <2>1. len \in 1 .. MaxPayload /\ Len(body) < len
    BY DEF Fits
  <2>2. CASE Len(body') = len
    BY <1>1, <2>1, <2>2, SizesAssumption DEF Fits
  <2>3. CASE Len(body') # len
    BY <1>1, <2>1, <2>3, SizesAssumption DEF Fits
  <2>4. QED
    BY <2>2, <2>3
<1>4. Before'
  BY DEF Before
<1>5. QED
  BY <1>2, <1>3, <1>4 DEF FrameTyped

(* The first CRC byte.                                                     *)
LEMMA CrcByteTyped ==
    ASSUME Ranges, Fits, pc = "crc_lo", pc' = "crc_hi", crc' \in Byte,
           len' = len, body' = body, left' = left
    PROVE  FrameTyped'
<1>1. Ranges'
  BY DEF Ranges
<1>2. Fits'
  BY DEF Fits
<1>3. Before'
  BY DEF Before
<1>4. QED
  BY <1>1, <1>2, <1>3 DEF FrameTyped

LEMMA OneLess ==
    ASSUME NEW n \in Nat, n > 0, n # 1, n <= UINT16_MAX + 2
    PROVE  n - 1 \in Nat /\ n - 1 > 0 /\ n - 1 <= UINT16_MAX + 2
BY DEF UINT16_MAX

(* One of several bytes dropped.                                           *)
LEMMA DroppedTyped ==
    ASSUME Ranges, Fits, pc = "discard", left # 1, left' = left - 1,
           pc' = pc, len' = len, body' = body, crc' = crc
    PROVE  FrameTyped'
<1>1. Ranges'
  <2>1. left' \in Nat /\ left' > 0 /\ left' <= UINT16_MAX + 2
    BY OneLess, Zenon DEF Ranges
  <2>2. QED
    BY <2>1, Zenon DEF Ranges
<1>2. Fits'
  BY DEF Fits
<1>3. Before'
  BY DEF Before
<1>4. QED
  BY <1>1, <1>2, <1>3 DEF FrameTyped

-----------------------------------------------------------------------------
LEMMA Nothing == <<>> \in Seq(Byte) /\ <<>> \in Seq(Seq(Byte))
OBVIOUS

LEMMA TypedInit == Init => Typed
<1>1. SUFFICES ASSUME Init PROVE LineTyped /\ Ranges /\ Fits /\ Before /\ DeviceTyped
  BY DEF Typed, FrameTyped
<1>2. LineTyped
  <2>1. rest \in Seq(Byte) /\ rx \in Seq(Byte) /\ slow \in BOOLEAN
    BY <1>1, Nothing, Zenon DEF Init
  <2>2. sent \in Seq(Seq(Byte))
    BY <1>1, Nothing, Zenon DEF Init
  <2>3. QED
    BY <2>1, <2>2 DEF LineTyped
<1>3. Ranges
  BY <1>1 DEF Init, Ranges, Byte, UINT16_MAX
<1>4. Fits
  BY <1>1, SizesAssumption DEF Init, Fits
<1>5. Before
  BY <1>1 DEF Init, Before
<1>6. DeviceTyped
  BY <1>1 DEF Init, DeviceTyped, Byte
<1>7. QED
  BY <1>2, <1>3, <1>4, <1>5, <1>6

LEMMA ReadByte ==
    ASSUME LineTyped, NEW point, Read(point)
    PROVE  LineTyped' /\ Got \in Byte
BY DEF LineTyped, Read, Got, host

LEMMA DeviceKept ==
    ASSUME DeviceTyped, UNCHANGED device
    PROVE  DeviceTyped'
BY DEF DeviceTyped, device

LEMMA FrameKept ==
    ASSUME FrameTyped, UNCHANGED frame
    PROVE  FrameTyped'
<1>1. pc' = pc /\ len' = len /\ body' = body /\ crc' = crc /\ left' = left
  BY DEF frame
<1>2. QED
  BY <1>1, LocalsKept

(* handle_packet leaves levels and a log behind, whatever it is given. *)
LEMMA HandlePacketTyped ==
    ASSUME DeviceTyped, NEW cmd, NEW payload \in Seq(Byte), HandlePacket(cmd, payload)
    PROVE  DeviceTyped'
<1>1. CASE UNCHANGED device
  BY <1>1, DeviceKept
<1>2. CASE GetLog
  BY <1>2 DEF GetLog, DeviceTyped
<1>3. CASE SizeAllowed(cmd, Len(payload)) /\ cmd = SET_MOTOR_LEVEL /\ SetMotorLevel(payload)
  <2>1. Len(payload) = 2
    BY <1>3 DEF SizeAllowed
  <2>2. payload \in Byte \X Byte
    BY <2>1, TwoBytes
  <2>3. QED
    BY <1>3, <2>2 DEF SetMotorLevel, DeviceTyped
<1>4. CASE GetState
  BY <1>4 DEF GetState, DeviceTyped, Byte
<1>5. QED
  BY <1>1, <1>2, <1>3, <1>4 DEF HandlePacket, Reject

-----------------------------------------------------------------------------
(* The host's steps and get_block's *)

LEMMA HostTyped ==
    ASSUME LineTyped, FrameTyped, DeviceTyped, NEW f \in Frames, NEW upto \in 1 .. Len(f),
           SendFirst(f, upto) \/ SendFrame(f, upto)
    PROVE  Typed'
<1>1. SubSeq(f, 1, upto) \in Seq(Byte)
  BY CutFrame
<1>2. rx' = rx /\ UNCHANGED frame /\ UNCHANGED device
  BY DEF SendFirst, SendFrame
<1>3. rest' = SubSeq(f, 1, upto) /\ slow' \in BOOLEAN
  BY DEF SendFirst, SendFrame, LineTyped
<1>4. sent' = <<SubSeq(f, 1, upto)>> \/ sent' = Append(sent, SubSeq(f, 1, upto))
  BY DEF SendFirst, SendFrame
<1>5. sent' \in Seq(Seq(Byte))
  BY <1>1, <1>4, SentTyped DEF LineTyped
<1>6. LineTyped'
  BY <1>1, <1>2, <1>3, <1>5 DEF LineTyped
<1>7. QED
  BY <1>2, <1>6, FrameKept, DeviceKept DEF Typed

LEMMA MarkerTyped ==
    ASSUME FrameTyped, ReadMarker
    PROVE  FrameTyped' /\ UNCHANGED device
<1>1. pc = "marker" /\ pc' \in {"marker", "len_lo"} /\ UNCHANGED device
  BY DEF ReadMarker, Read
<1>2. len' = len /\ body' = body /\ crc' = crc /\ left' = left
  BY DEF ReadMarker
<1>3. CASE pc' = "marker"
  <2>1. pc' = pc
    BY <1>1, <1>3
  <2>2. QED
    BY <1>1, <1>2, <2>1, LocalsKept
<1>4. CASE pc' = "len_lo"
  BY <1>1, <1>2, <1>4, LengthBegins DEF FrameTyped
<1>5. QED
  BY <1>1, <1>3, <1>4

LEMMA LengthLowTyped ==
    ASSUME LineTyped, FrameTyped, ReadLengthLow
    PROVE  FrameTyped' /\ UNCHANGED device
<1>1. Read("len_lo") /\ len' = Got /\ UNCHANGED device
  BY DEF ReadLengthLow
<1>2. len' \in Byte /\ pc = "len_lo" /\ pc' = "len_hi"
  BY <1>1, ReadByte DEF Read, ReadLengthLow
<1>3. body' = body /\ crc' = crc /\ left' = left
  BY DEF ReadLengthLow
<1>4. QED
  BY <1>1, <1>2, <1>3, LengthLowRead DEF FrameTyped

LEMMA LengthHighTyped ==
    ASSUME LineTyped, FrameTyped, ReadLengthHigh
    PROVE  FrameTyped' /\ UNCHANGED device
<1>1. Read("len_hi") /\ len' = len + 256 * Got
  BY DEF ReadLengthHigh
<1>2. Got \in Byte /\ pc = "len_hi"
  BY <1>1, ReadByte DEF Read
<1>3. len \in Byte
  BY <1>2 DEF FrameTyped, Before
<1>4. len' \in Nat /\ len' <= UINT16_MAX
  BY <1>1, <1>2, <1>3, ByteSum
<1>5. body' = body /\ crc' = crc
  BY DEF ReadLengthHigh
<1>6. CASE len' = 0 \/ len' > MaxPayload
  <2>1. pc' = "discard" /\ left' = len' + 2 /\ UNCHANGED device
    BY <1>6 DEF ReadLengthHigh, Reject
  <2>2. QED
    BY <1>2, <1>4, <1>5, <2>1, RefusedTyped DEF FrameTyped
<1>7. CASE ~(len' = 0 \/ len' > MaxPayload)
  <2>1. pc' = "body" /\ left' = left /\ UNCHANGED device
    BY <1>7 DEF ReadLengthHigh
  <2>2. len' \in 1 .. MaxPayload
    BY SizesAssumption, <1>4, <1>7
  <2>3. QED
    BY <1>2, <1>4, <1>5, <2>1, <2>2, AcceptedTyped DEF FrameTyped
<1>8. QED
  BY <1>6, <1>7

LEMMA DiscardTyped ==
    ASSUME FrameTyped, Discard
    PROVE  FrameTyped' /\ UNCHANGED device
<1>1. UNCHANGED device /\ pc = "discard"
  BY DEF Discard, Read
<1>2. CASE left = 1
  BY <1>1, <1>2, ReturnTyped DEF Discard
<1>3. CASE left # 1
  <2>1. left' = left - 1 /\ pc' = pc /\ len' = len /\ body' = body /\ crc' = crc
    BY <1>3 DEF Discard
  <2>2. QED
    BY <1>1, <1>3, <2>1, DroppedTyped DEF FrameTyped
<1>4. QED
  BY <1>2, <1>3

LEMMA BodyTyped ==
    ASSUME LineTyped, FrameTyped, ReadBody
    PROVE  FrameTyped' /\ UNCHANGED device
<1>1. Read("body") /\ body' = Append(body, Got) /\ UNCHANGED device
  BY DEF ReadBody
<1>2. Got \in Byte /\ pc = "body"
  BY <1>1, ReadByte DEF Read
<1>3. len' = len /\ crc' = crc /\ left' = left
  BY DEF ReadBody
<1>4. pc' = IF Len(body') = len THEN "crc_lo" ELSE "body"
  BY DEF ReadBody
<1>5. QED
  BY <1>1, <1>2, <1>3, <1>4, StoredTyped DEF FrameTyped

LEMMA CrcLowTyped ==
    ASSUME LineTyped, FrameTyped, ReadCrcLow
    PROVE  FrameTyped' /\ UNCHANGED device
<1>1. Read("crc_lo") /\ crc' = Got /\ UNCHANGED device
  BY DEF ReadCrcLow
<1>2. crc' \in Byte /\ pc = "crc_lo" /\ pc' = "crc_hi"
  BY <1>1, ReadByte DEF Read, ReadCrcLow
<1>3. len' = len /\ body' = body /\ left' = left
  BY DEF ReadCrcLow
<1>4. QED
  BY <1>1, <1>2, <1>3, CrcByteTyped DEF FrameTyped

LEMMA CrcHighTyped ==
    ASSUME FrameTyped, DeviceTyped, ReadCrcHigh
    PROVE  FrameTyped' /\ DeviceTyped'
<1>1. FrameTyped'
  BY ReturnTyped DEF ReadCrcHigh
<1>2. Tail(body) \in Seq(Byte)
  <2>1. pc = "crc_hi" /\ Fits
    BY DEF ReadCrcHigh, Read, FrameTyped
  <2>2. body \in Seq(Byte) /\ body # <<>>
    BY <2>1, SizesAssumption DEF Fits
  <2>3. QED
    BY <2>2
<1>3. HandlePacket(Head(body), Tail(body)) \/ Reject
  BY DEF ReadCrcHigh
<1>4. CASE HandlePacket(Head(body), Tail(body))
  BY <1>1, <1>2, <1>4, HandlePacketTyped
<1>5. CASE Reject
  BY <1>1, <1>5, DeviceKept DEF Reject
<1>6. QED
  BY <1>3, <1>4, <1>5

LEMMA TimeoutTyped ==
    ASSUME Timeout
    PROVE  FrameTyped' /\ UNCHANGED device
BY ReturnTyped DEF Timeout, Reject

LEMMA GetBlockTyped ==
    ASSUME LineTyped, FrameTyped, DeviceTyped, GetBlock
    PROVE  Typed'
<1>1. LineTyped'
  <2>1. CASE Timeout
    BY <2>1 DEF Timeout, host, LineTyped
  <2>2. CASE \E point : Read(point)
    BY <2>2, ReadByte
  <2>3. QED
    BY <2>1, <2>2 DEF GetBlock, ReadMarker, ReadLengthLow, ReadLengthHigh, Discard,
                      ReadBody, ReadCrcLow, ReadCrcHigh
<1>2. CASE ReadCrcHigh
  BY <1>1, <1>2, CrcHighTyped DEF Typed
<1>3. CASE ~ReadCrcHigh
  <2>1. FrameTyped' /\ UNCHANGED device
    BY <1>3, MarkerTyped, LengthLowTyped, LengthHighTyped, DiscardTyped, BodyTyped,
       CrcLowTyped, TimeoutTyped DEF GetBlock
  <2>2. QED
    BY <1>1, <2>1, DeviceKept DEF Typed
<1>4. QED
  BY <1>2, <1>3

LEMMA TypedStep == Typed /\ [Next]_vars => Typed'
<1> SUFFICES ASSUME Typed, [Next]_vars
             PROVE  Typed'
  OBVIOUS
<1>1. LineTyped /\ FrameTyped /\ DeviceTyped
  BY DEF Typed
<1>2. ASSUME NEW f \in Frames, NEW upto \in 1 .. Len(f), SendFirst(f, upto) \/ SendFrame(f, upto)
      PROVE  Typed'
  BY <1>1, <1>2, HostTyped
<1>3. CASE SendByte
  <2>1. LineTyped'
    BY <1>1, <1>3 DEF SendByte, LineTyped
  <2>2. QED
    BY <1>1, <1>3, <2>1, FrameKept, DeviceKept DEF SendByte, Typed
<1>4. CASE GetBlock
  BY <1>1, <1>4, GetBlockTyped
<1>5. CASE LogLine
  <2>1. LineTyped'
    BY <1>1, <1>5 DEF LogLine, host, LineTyped
  <2>2. DeviceTyped'
    BY <1>1, <1>5 DEF LogLine, DeviceTyped
  <2>3. QED
    BY <1>1, <1>5, <2>1, <2>2, FrameKept DEF LogLine, Typed
<1>6. CASE UNCHANGED vars
  BY <1>1, <1>6, FrameKept, DeviceKept DEF vars, host, LineTyped, Typed
<1>7. QED
  BY <1>2, <1>3, <1>4, <1>5, <1>6 DEF Next

LEMMA Limits == UINT16_MAX \in Nat /\ UINT16_MAX + 2 \in Nat
BY DEF UINT16_MAX

(* A natural number with a bound is in a range. *)
LEMMA UpTo ==
    ASSUME NEW n \in Nat, NEW max \in Nat, n <= max
    PROVE  n \in 0 .. max
OBVIOUS

(* No host can make get_block store a byte past the end of rx_buffer or    *)
(* discard a negative count, whatever MAX_PAYLOAD_SIZE is.                 *)
THEOREM TypeCorrect == Spec => []TypeOK
<1>1. Typed => TypeOK
  <2>1. SUFFICES ASSUME Typed PROVE TypeOK
    OBVIOUS
  <2>2. LineTyped /\ Ranges /\ Fits /\ DeviceTyped
    BY <2>1 DEF Typed, FrameTyped
  <2>3. /\ len \in Nat /\ len <= UINT16_MAX
        /\ left \in Nat /\ left <= UINT16_MAX + 2
    BY <2>2, Zenon DEF Ranges
  <2>4. len \in 0 .. UINT16_MAX /\ left \in 0 .. UINT16_MAX + 2
    BY <2>3, UpTo, Limits, Zenon
  <2>5. /\ pc \in {"marker", "len_lo", "len_hi", "body", "crc_lo", "crc_hi", "discard"}
        /\ crc \in Byte
        /\ pc = "discard" => left > 0
    BY <2>2, Zenon DEF Ranges
  <2>6. QED
    BY <2>2, <2>3, <2>4, <2>5, Zenon DEF TypeOK, LineTyped, Fits, DeviceTyped
<1>2. QED
  BY TypedInit, TypedStep, <1>1, PTL DEF Spec

-----------------------------------------------------------------------------
(* Packets, byte by byte *)

OfLength(p, n) == p \in Seq(Byte) /\ Len(p) = n

Joined(s, p, m, q, n) ==
    /\ OfLength(s, m + n)
    /\ \A i \in 1 .. m : s[i] = p[i]
    /\ \A i \in m + 1 .. m + n : s[i] = q[i - m]

LEMMA Join ==
    ASSUME NEW p, NEW q, NEW m \in Nat, NEW n \in Nat, OfLength(p, m), OfLength(q, n)
    PROVE  Joined(p \o q, p, m, q, n)
<1>1. /\ p \o q \in Seq(Byte) /\ Len(p \o q) = m + n
      /\ \A i \in 1 .. m + n : (p \o q)[i] = IF i <= m THEN p[i] ELSE q[i - m]
    BY ConcatProperties DEF OfLength
<1> DEFINE s == p \o q
<1>2. \A i \in 1 .. m + n : s[i] = IF i <= m THEN p[i] ELSE q[i - m]
    BY <1>1
<1> HIDE DEF s
<1>3. (\A i \in 1 .. m : s[i] = p[i]) /\ \A i \in m + 1 .. m + n : s[i] = q[i - m]
    BY <1>2
<1> QED
    BY <1>1, <1>3 DEF s, Joined, OfLength

Word == 0 .. UINT16_MAX

LEMMA WordMax == UINT16_MAX \in Nat /\ UINT16_MAX = 65535
BY DEF UINT16_MAX

LEMMA InWord ==
    ASSUME NEW w
    PROVE  w \in Word <=> w \in Int /\ w >= 0 /\ w <= 65535
<1>1. w \in 0 .. UINT16_MAX <=> w \in Int /\ w >= 0 /\ w <= UINT16_MAX
    BY Limits
<1>2. w \in Word <=> w \in Int /\ w >= 0 /\ w <= UINT16_MAX
    BY <1>1, Zenon DEF Word
<1> QED
    BY <1>2, WordMax

LEMMA LoHiIs ==
    ASSUME NEW w \in Word
    PROVE  /\ OfLength(LoHi(w), 2)
           /\ LoHi(w)[1] = w % 256 /\ LoHi(w)[2] = w \div 256
           /\ w % 256 \in Byte /\ w \div 256 \in Byte
           /\ (w % 256) + 256 * (w \div 256) = w
<1>1. /\ w % 256 \in Byte /\ w \div 256 \in Byte
      /\ (w % 256) + 256 * (w \div 256) = w
    <2>1. w \in Int /\ w >= 0 /\ w <= 65535
        BY InWord
    <2> QED
        BY <2>1 DEF Byte
<1> DEFINE lo == w % 256
           hi == w \div 256
<1> HIDE DEF lo, hi
<1>2. lo \in Byte /\ hi \in Byte
    BY <1>1 DEF lo, hi
<1>3. <<lo, hi>> \in Seq(Byte) /\ Len(<<lo, hi>>) = 2 /\ <<lo, hi>>[1] = lo /\ <<lo, hi>>[2] = hi
    BY <1>2
<1> QED
    BY <1>1, <1>3 DEF lo, hi, LoHi, OfLength

(* Two bytes are those of one word only.                                   *)
LEMMA OneWord ==
    ASSUME NEW lo \in Byte, NEW hi \in Byte
    PROVE  /\ lo + 256 * hi \in Word
           /\ (lo + 256 * hi) % 256 = lo /\ (lo + 256 * hi) \div 256 = hi
<1>1. lo \in Int /\ lo >= 0 /\ lo <= 255 /\ hi \in Int /\ hi >= 0 /\ hi <= 255
    BY DEF Byte
<1>2. lo + 256 * hi >= 0 /\ lo + 256 * hi <= 65535
    BY <1>1
<1>3. (lo + 256 * hi) % 256 = lo
    BY <1>1
<1>4. (lo + 256 * hi) \div 256 = hi
    BY <1>1
<1>5. lo + 256 * hi \in Word
    <2> DEFINE w == lo + 256 * hi
    <2>1. w \in Int
        BY <1>1
    <2>2. w >= 0 /\ w <= 65535
        BY <1>2
    <2> HIDE DEF w
    <2>3. w \in Word
        BY <2>1, <2>2, InWord
    <2> QED
        BY <2>3 DEF w
<1> QED
    BY <1>3, <1>4, <1>5, Zenon

(* What a frame's checksum covers *)
Covered(cmd, data) == LoHi((Len(data) + 1) % 65536) \o <<cmd>> \o data

CrcIsWord == \A s \in Seq(Byte) : Crc(s) \in Word

CoveredAs(c, cmd, data, n) ==
    /\ OfLength(c, 3 + n)
    /\ c[1] = (n + 1) % 256 /\ c[2] = (n + 1) \div 256 /\ c[3] = cmd
    /\ \A i \in 3 + 1 .. 3 + n : c[i] = data[i - 3]

LEMMA CoveredIs ==
    ASSUME NEW cmd \in Byte, NEW data, NEW n \in Nat, OfLength(data, n), n + 1 \in Word
    PROVE  CoveredAs(Covered(cmd, data), cmd, data, n)
<1> DEFINE a == LoHi(n + 1)
           b == <<cmd>>
           x == a \o b
           c == x \o data
<1>1. (n + 1) % 65536 = n + 1
    <2>1. n + 1 <= 65535
        BY InWord
    <2> QED
        BY <2>1
<1>2. Covered(cmd, data) = c
    BY <1>1 DEF Covered, OfLength
<1>3. /\ OfLength(a, 2) /\ a[1] = (n + 1) % 256 /\ a[2] = (n + 1) \div 256
      /\ OfLength(b, 1) /\ b[1] = cmd
    BY LoHiIs DEF OfLength
<1> HIDE DEF a, b
<1>4. Joined(x, a, 2, b, 1)
    BY <1>3, Join
<1> HIDE DEF x
<1>5. OfLength(x, 3) /\ x[1] = a[1] /\ x[2] = a[2] /\ x[3] = b[1]
    <2>1. OfLength(x, 2 + 1) /\ x[1] = a[1] /\ x[2] = a[2] /\ x[3] = b[3 - 2]
        BY <1>4 DEF Joined
    <2> QED
        BY <2>1
<1>6. Joined(c, x, 3, data, n)
    BY <1>5, Join
<1> HIDE DEF c
<1>7. /\ c[1] = x[1] /\ c[2] = x[2] /\ c[3] = x[3]
      /\ OfLength(c, 3 + n)
      /\ \A i \in 3 + 1 .. 3 + n : c[i] = data[i - 3]
    BY <1>6 DEF Joined
<1> QED
    BY <1>2, <1>3, <1>5, <1>7 DEF CoveredAs

PacketAs(p, cmd, data, n, crc_) ==
    /\ OfLength(p, n + 6) /\ crc_ \in Word
    /\ p[1] = START_MARKER
    /\ p[2] = (n + 1) % 256 /\ p[3] = (n + 1) \div 256 /\ p[4] = cmd
    /\ \A i \in 5 .. n + 4 : p[i] = data[i - 4]
    /\ p[n + 5] = crc_ % 256 /\ p[n + 6] = crc_ \div 256

LEMMA PacketIs ==
    ASSUME CrcIsWord, NEW cmd \in Byte, NEW data, NEW n \in Nat, OfLength(data, n),
           n + 1 \in Word
    PROVE  PacketAs(Packet(cmd, data), cmd, data, n, Crc(Covered(cmd, data)))
<1> DEFINE m == <<START_MARKER>>
           c == Covered(cmd, data)
           x == m \o c
           w == Crc(c)
           t == LoHi(w)
           p == x \o t
<1>1. Packet(cmd, data) = p
    BY DEF Packet, Covered
<1>2. CoveredAs(c, cmd, data, n)
    BY CoveredIs
<1>3. w \in Word
    BY <1>2 DEF CrcIsWord, CoveredAs, OfLength
<1> HIDE DEF c
<1>4. OfLength(m, 1) /\ m[1] = START_MARKER
    BY DEF START_MARKER, Byte, OfLength
<1> HIDE DEF m, w
<1>5. OfLength(t, 2) /\ t[1] = w % 256 /\ t[2] = w \div 256
    BY <1>3, LoHiIs
<1> HIDE DEF t
<1> DEFINE k == 3 + n
<1>6. OfLength(c, k) /\ k \in Nat
    BY <1>2 DEF CoveredAs
<1> HIDE DEF k
<1>7. Joined(x, m, 1, c, k)
    BY <1>4, <1>6, Join
<1> HIDE DEF x
<1>8. /\ OfLength(x, n + 4) /\ x[1] = m[1]
      /\ \A i \in 2 .. n + 4 : x[i] = c[i - 1]
    <2>1. /\ OfLength(x, 1 + k) /\ x[1] = m[1]
          /\ \A i \in 1 + 1 .. 1 + k : x[i] = c[i - 1]
        BY <1>7 DEF Joined
    <2>2. 1 + k = n + 4
        BY DEF k
    <2> QED
        BY <2>1, <2>2
<1>9. Joined(p, x, n + 4, t, 2)
    BY <1>5, <1>8, Join
<1> HIDE DEF p
<1>10. /\ OfLength(p, n + 4 + 2)
       /\ \A i \in 1 .. n + 4 : p[i] = x[i]
       /\ \A i \in n + 4 + 1 .. n + 4 + 2 : p[i] = t[i - (n + 4)]
    BY <1>9 DEF Joined
<1>11. OfLength(p, n + 6)
    <2>1. n + 4 + 2 = n + 6
        OBVIOUS
    <2> QED
        BY <1>10, <2>1
<1>12. p[1] = m[1] /\ p[2] = c[1] /\ p[3] = c[2] /\ p[4] = c[3]
    <2>1. p[1] = x[1] /\ p[2] = x[2] /\ p[3] = x[3] /\ p[4] = x[4]
        BY <1>10
    <2>2. x[2] = c[2 - 1] /\ x[3] = c[3 - 1] /\ x[4] = c[4 - 1]
        BY <1>8
    <2> QED
        BY <1>8, <2>1, <2>2
<1>13. \A i \in 5 .. n + 4 : p[i] = data[i - 4]
    <2> SUFFICES ASSUME NEW i \in 5 .. n + 4 PROVE p[i] = data[i - 4]
        OBVIOUS
    <2>1. p[i] = x[i] /\ x[i] = c[i - 1]
        BY <1>8, <1>10
    <2>2. i - 1 \in 3 + 1 .. 3 + n /\ i - 1 - 3 = i - 4
        OBVIOUS
    <2>3. c[i - 1] = data[i - 1 - 3]
        BY <1>2, <2>2 DEF CoveredAs
    <2> QED
        BY <2>1, <2>2, <2>3
<1>14. p[n + 5] = t[1] /\ p[n + 6] = t[2]
    <2>1. p[n + 5] = t[n + 5 - (n + 4)] /\ p[n + 6] = t[n + 6 - (n + 4)]
        BY <1>10
    <2>2. n + 5 - (n + 4) = 1 /\ n + 6 - (n + 4) = 2
        OBVIOUS
    <2> QED
        BY <2>1, <2>2
<1>15. c[1] = (n + 1) % 256 /\ c[2] = (n + 1) \div 256 /\ c[3] = cmd
    BY <1>2 DEF CoveredAs
<1>16. PacketAs(p, cmd, data, n, w)
    BY <1>3, <1>4, <1>5, <1>11, <1>12, <1>13, <1>14, <1>15 DEF PacketAs
<1> QED
    BY <1>1, <1>16 DEF w, c
-----------------------------------------------------------------------------
(* Frames and packets *)

(* A whole frame, its length field n and the body read of it.              *)
FrameOf(s, n, read) ==
    /\ OfLength(s, 5 + n) /\ OfLength(read, n)
    /\ s[1] = START_MARKER /\ s[2] + 256 * s[3] = n
    /\ \A j \in 1 .. n : read[j] = s[3 + j]

LEMMA BodyOfFrame ==
    ASSUME NEW s, NEW n \in Nat \ {0}, NEW read, FrameOf(s, n, read)
    PROVE  /\ Head(read) = s[4] /\ s[4] \in Byte
           /\ Tail(read) = SubSeq(s, 5, Len(s) - 2)
           /\ OfLength(Tail(read), n - 1)
           /\ \A j \in 1 .. n - 1 : Tail(read)[j] = s[4 + j]
<1>1. /\ s \in Seq(Byte) /\ Len(s) = 5 + n
      /\ read \in Seq(Byte) /\ Len(read) = n /\ read # <<>>
      /\ \A j \in 1 .. n : read[j] = s[3 + j]
    BY DEF FrameOf, OfLength
<1>2. Head(read) = s[4] /\ s[4] \in Byte
    BY <1>1
<1>3. /\ Tail(read) \in Seq(Byte) /\ Len(Tail(read)) = n - 1
      /\ \A j \in 1 .. n - 1 : Tail(read)[j] = read[j + 1]
    BY <1>1, TailElements
<1>4. \A j \in 1 .. n - 1 : Tail(read)[j] = s[4 + j]
    BY <1>1, <1>3
<1> DEFINE t == SubSeq(s, 5, Len(s) - 2)
<1>5. t \in Seq(Byte) /\ Len(t) = n - 1 /\ \A j \in 1 .. n - 1 : t[j] = s[4 + j]
    BY <1>1
<1> HIDE DEF t
<1>6. Tail(read) = t
    BY <1>3, <1>4, <1>5, SameSequence
<1> QED
    BY <1>2, <1>3, <1>4, <1>6 DEF t, OfLength

(* The checksum covers the length field and the body. *)
LEMMA BodyCovered ==
    ASSUME NEW n \in Nat \ {0}, n \in Word, NEW read, OfLength(read, n)
    PROVE  LoHi(n) \o read = Covered(Head(read), Tail(read))
<1> DEFINE a == LoHi(n)
           x == a \o read
           data == Tail(read)
           cmd == Head(read)
           c == Covered(cmd, data)
           m == n - 1
<1>1. OfLength(a, 2) /\ a[1] = n % 256 /\ a[2] = n \div 256
    BY LoHiIs
<1>2. /\ cmd \in Byte /\ cmd = read[1] /\ OfLength(data, m) /\ m \in Nat /\ m + 1 = n
      /\ \A j \in 1 .. m : data[j] = read[j + 1]
    BY TailElements DEF OfLength
<1> HIDE DEF a, data, cmd
<1>3. Joined(x, a, 2, read, n)
    BY <1>1, Join
<1> HIDE DEF x
<1> HIDE DEF m
<1>4. CoveredAs(c, cmd, data, m)
    BY <1>2, CoveredIs
<1> HIDE DEF c
<1>5. /\ OfLength(x, 2 + n) /\ x[1] = a[1] /\ x[2] = a[2]
      /\ \A i \in 2 + 1 .. 2 + n : x[i] = read[i - 2]
    BY <1>3 DEF Joined
<1>6. /\ OfLength(c, 3 + m) /\ c[1] = n % 256 /\ c[2] = n \div 256 /\ c[3] = cmd
      /\ \A i \in 3 + 1 .. 3 + m : c[i] = data[i - 3]
    BY <1>2, <1>4 DEF CoveredAs
<1>7. 3 + m = 2 + n
    BY <1>2
<1>8. ASSUME NEW i \in 1 .. 2 + n PROVE x[i] = c[i]
    <2>1. CASE i = 1
        BY <1>1, <1>5, <1>6, <2>1
    <2>2. CASE i = 2
        BY <1>1, <1>5, <1>6, <2>2
    <2>3. CASE i = 3
        <3>1. x[3] = read[3 - 2]
            BY <1>5
        <3> QED
            BY <1>2, <1>6, <2>3, <3>1
    <2>4. CASE i >= 4
        <3>1. x[i] = read[i - 2] /\ c[i] = data[i - 3]
            BY <1>5, <1>6, <1>7, <2>4
        <3>2. PICK j \in 1 .. m : j = i - 3
            BY <1>7, <2>4, <1>2
        <3>3. data[j] = read[j + 1] /\ j + 1 = i - 2
            BY <1>2, <3>2
        <3> QED
            BY <3>1, <3>2, <3>3
    <2> QED
        BY <2>1, <2>2, <2>3, <2>4
<1>9. x = c
    <2>1. x \in Seq(Byte) /\ c \in Seq(Byte) /\ Len(x) = 2 + n /\ Len(c) = 2 + n
        BY <1>5, <1>6, <1>7 DEF OfLength
    <2> QED
        BY <1>8, <2>1, SameSequence
<1> QED
    BY <1>9 DEF x, a, c, cmd, data
(* A frame is the packet of its command and its arguments exactly if the   *)
(* checksum it carries is the one computed.                                *)
LEMMA FrameIsPacket ==
    ASSUME CrcIsWord, NEW s, NEW n \in Nat \ {0}, n \in Word, NEW read, FrameOf(s, n, read)
    PROVE  s = Packet(s[4], SubSeq(s, 5, Len(s) - 2)) <=>
               Crc(LoHi(n) \o read) = s[4 + n] + 256 * s[5 + n]
<1> DEFINE cmd == s[4]
           data == Tail(read)
           m == n - 1
           w == Crc(Covered(cmd, data))
           p == Packet(cmd, data)
<1>1. /\ Head(read) = cmd /\ cmd \in Byte /\ data = SubSeq(s, 5, Len(s) - 2)
      /\ OfLength(data, m)
      /\ \A j \in 1 .. m : data[j] = s[4 + j]
    BY BodyOfFrame
<1>2. /\ s \in Seq(Byte) /\ Len(s) = 5 + n /\ OfLength(read, n)
      /\ s[1] = START_MARKER /\ s[2] + 256 * s[3] = n
    BY DEF FrameOf, OfLength
<1>3. Crc(LoHi(n) \o read) = w
    BY <1>1, <1>2, BodyCovered
<1>4. m \in Nat /\ m + 1 = n
    BY DEF m
<1>5. s[2] \in Byte /\ s[3] \in Byte /\ s[4 + n] \in Byte /\ s[5 + n] \in Byte
    BY <1>2
<1>6. s[2] = n % 256 /\ s[3] = n \div 256
    BY <1>2, <1>5, OneWord
<1> HIDE DEF cmd, data, m
<1>7. PacketAs(p, cmd, data, m, w)
    BY <1>1, <1>4, PacketIs
<1> HIDE DEF p, w
<1>8. /\ p \in Seq(Byte) /\ Len(p) = 5 + n /\ w \in Word
      /\ p[1] = START_MARKER
      /\ p[2] = n % 256 /\ p[3] = n \div 256 /\ p[4] = cmd
      /\ \A i \in 5 .. m + 4 : p[i] = data[i - 4]
      /\ p[4 + n] = w % 256 /\ p[5 + n] = w \div 256
    <2>1. m + 6 = 5 + n /\ m + 5 = 4 + n
        BY <1>4
    <2> QED
        BY <1>4, <1>7, <2>1 DEF PacketAs, OfLength
<1>9. ASSUME s = p PROVE w = s[4 + n] + 256 * s[5 + n]
    <2>1. s[4 + n] = w % 256 /\ s[5 + n] = w \div 256
        BY <1>8, <1>9
    <2> QED
        BY <1>8, <2>1, LoHiIs
<1>10. ASSUME w = s[4 + n] + 256 * s[5 + n] PROVE s = p
    <2>1. w % 256 = s[4 + n] /\ w \div 256 = s[5 + n]
        BY <1>5, <1>10, OneWord
    <2>2. ASSUME NEW i \in 1 .. 5 + n PROVE s[i] = p[i]
        <3>1. CASE i \in 5 .. m + 4
            <4>1. PICK j \in 1 .. m : j = i - 4
                BY <1>4, <3>1
            <4>2. data[j] = s[4 + j]
                BY <1>1
            <4>3. 4 + j = i
                BY <4>1
            <4> QED
                BY <1>8, <3>1, <4>1, <4>2, <4>3
        <3>2. CASE i \notin 5 .. m + 4
            <4>1. i = 1 \/ i = 2 \/ i = 3 \/ i = 4 \/ i = 4 + n \/ i = 5 + n
                BY <1>4, <3>2
            <4> QED
                BY <1>2, <1>6, <1>8, <2>1, <4>1 DEF cmd
        <3> QED
            BY <3>1, <3>2
    <2> QED
        BY <1>2, <1>8, <2>2, SameSequence
<1>11. s = p <=> w = s[4 + n] + 256 * s[5 + n]
    BY <1>9, <1>10
<1>12. s = Packet(cmd, data) <=> Crc(LoHi(n) \o read) = s[4 + n] + 256 * s[5 + n]
    BY <1>3, <1>11 DEF p
<1> QED
    BY <1>1, <1>12 DEF cmd

(* An intact frame is as long as its length field says.                    *)
LEMMA IntactLength ==
    ASSUME CrcIsWord, NEW s \in Seq(Byte), Intact(s)
    PROVE  /\ Len(s) \in 6 .. 5 + MaxPayload /\ s[1] = START_MARKER
           /\ s[2] + 256 * s[3] = Len(s) - 5
<1> DEFINE cmd == s[4]
           data == SubSeq(s, 5, Len(s) - 2)
           m == Len(s) - 6
           w == Crc(Covered(cmd, data))
<1>1. Len(s) \in 6 .. 5 + MaxPayload /\ s = Packet(cmd, data)
    BY DEF Intact, Command, Arguments
<1>0. MaxPayload \in Nat /\ MaxPayload <= UINT16_MAX /\ UINT16_MAX \in Nat
    BY SizesAssumption, WordMax
<1>2. m \in Nat /\ m + 1 \in Word /\ cmd \in Byte /\ m + 1 = Len(s) - 5
    <2>1. cmd \in Byte
        BY <1>1
    <2>2. Len(s) \in Int /\ Len(s) >= 6 /\ Len(s) <= 5 + MaxPayload
        BY <1>0, <1>1
    <2> QED
        BY <1>0, <2>1, <2>2 DEF Word
<1>3. OfLength(data, m)
    BY <1>1, <1>2 DEF OfLength
<1> HIDE DEF cmd, data, m
<1>4. PacketAs(Packet(cmd, data), cmd, data, m, w)
    BY <1>2, <1>3, PacketIs
<1>5. s[1] = START_MARKER /\ s[2] = (m + 1) % 256 /\ s[3] = (m + 1) \div 256
    BY <1>1, <1>4 DEF PacketAs
<1>6. s[2] + 256 * s[3] = m + 1
    BY <1>2, <1>5, LoHiIs
<1> QED
    BY <1>1, <1>2, <1>5, <1>6

Commands == {GET_LOG, SET_MOTOR_LEVEL, GET_STATE, GET_VERSION, RESET_STATE}

(* What get_block and handle_packet check is what makes a frame intact.    *)
LEMMA IntactIs ==
    ASSUME CrcIsWord, NEW s, NEW n \in 1 .. MaxPayload, NEW read, FrameOf(s, n, read)
    PROVE  /\ Command(s) = Head(read) /\ Arguments(s) = Tail(read)
           /\ OfLength(Tail(read), n - 1)
           /\ Intact(s) <=> /\ Crc(LoHi(n) \o read) = s[4 + n] + 256 * s[5 + n]
                            /\ SizeAllowed(Head(read), Len(Tail(read)))
                            /\ Head(read) \in Commands
<1>0. MaxPayload \in Nat /\ MaxPayload <= UINT16_MAX /\ UINT16_MAX \in Nat
    BY SizesAssumption, WordMax
<1>1. n \in Nat \ {0} /\ n \in Word /\ Len(s) \in 6 .. 5 + MaxPayload
    <2>1. Len(s) = 5 + n
        BY DEF FrameOf, OfLength
    <2> QED
        BY <1>0, <2>1 DEF Word
<1>2. /\ Command(s) = Head(read) /\ Arguments(s) = Tail(read)
      /\ OfLength(Tail(read), n - 1)
    BY <1>1, BodyOfFrame DEF Command, Arguments
<1>3. s = Packet(Command(s), Arguments(s)) <=> Crc(LoHi(n) \o read) = s[4 + n] + 256 * s[5 + n]
    BY <1>1, FrameIsPacket DEF Command, Arguments
<1> DEFINE cmd == Command(s)
           size == Len(Arguments(s))
<1>4. cmd \in Commands =>
          (SizeAllowed(cmd, size) <=> size = IF cmd = SET_MOTOR_LEVEL THEN 2 ELSE 0)
    BY DEF Commands, SizeAllowed, GET_LOG, SET_MOTOR_LEVEL, GET_STATE, GET_VERSION, RESET_STATE
<1>5. Intact(s) <=> /\ s = Packet(Command(s), Arguments(s))
                    /\ cmd \in Commands
                    /\ size = IF cmd = SET_MOTOR_LEVEL THEN 2 ELSE 0
    BY <1>1 DEF Intact, Commands
<1> HIDE DEF cmd, size
<1>6. cmd = Head(read) /\ size = Len(Tail(read))
    BY <1>2 DEF cmd, size
<1> QED
    BY <1>2, <1>3, <1>4, <1>5, <1>6
-----------------------------------------------------------------------------
(* The line: what has been sent and not read, and where in it the frames   *)
(* sent end, counted from the next byte to be read.                        *)

LEMMA Unread ==
    ASSUME NEW a \in Seq(Byte), NEW b \in Seq(Byte)
    PROVE  /\ a \o b \in Seq(Byte) /\ Len(a \o b) = Len(a) + Len(b)
           /\ \A i \in 1 .. Len(a) + Len(b) : (a \o b)[i] = IF i <= Len(a) THEN a[i] ELSE b[i - Len(a)]
BY ConcatProperties

LEMMA UnreadNone ==
    ASSUME NEW a \in Seq(Byte)
    PROVE  a \o <<>> = a /\ <<>> \o a = a
OBVIOUS

LEMMA UnreadRead ==
    ASSUME NEW a \in Seq(Byte), NEW b \in Seq(Byte), a # <<>>
    PROVE  /\ a \o b # <<>> /\ Head(a \o b) = Head(a)
           /\ Tail(a) \o b = Tail(a \o b)
<1> DEFINE u == a \o b
           t == Tail(a)
           v == t \o b
           k == Len(a)
           l == Len(b)
<1>1. k \in Nat /\ k >= 1 /\ l \in Nat /\ a[1] = Head(a)
    OBVIOUS
<1>2. u \in Seq(Byte) /\ Len(u) = k + l /\ \A i \in 1 .. k + l : u[i] = IF i <= k THEN a[i] ELSE b[i - k]
    BY Unread
<1>3. t \in Seq(Byte) /\ Len(t) = k - 1 /\ \A i \in 1 .. k - 1 : t[i] = a[i + 1]
    BY TailElements
<1> HIDE DEF t
<1>4. v \in Seq(Byte) /\ Len(v) = k - 1 + l
      /\ \A i \in 1 .. k - 1 + l : v[i] = IF i <= k - 1 THEN t[i] ELSE b[i - (k - 1)]
    <2> HIDE DEF k
    <2>1. /\ v \in Seq(Byte) /\ Len(v) = Len(t) + l
          /\ \A i \in 1 .. Len(t) + l : v[i] = IF i <= Len(t) THEN t[i] ELSE b[i - Len(t)]
        BY <1>3, Unread
    <2> HIDE DEF v, l
    <2> QED
        BY <1>3, <2>1
<1> HIDE DEF u, v, k, l
<1>5. u # <<>> /\ Head(u) = u[1] /\ u[1] = a[1]
    BY <1>1, <1>2
<1>6. Tail(u) \in Seq(Byte) /\ Len(Tail(u)) = k + l - 1 /\ \A i \in 1 .. k + l - 1 : Tail(u)[i] = u[i + 1]
    <2>1. /\ Tail(u) \in Seq(Byte) /\ Len(Tail(u)) = Len(u) - 1
          /\ \A i \in 1 .. Len(u) - 1 : Tail(u)[i] = u[i + 1]
        BY <1>2, <1>5, TailElements
    <2> QED
        BY <1>1, <1>2, <2>1
<1>7. ASSUME NEW i \in 1 .. k + l - 1 PROVE v[i] = Tail(u)[i]
    <2>1. Tail(u)[i] = u[i + 1]
        BY <1>6
    <2>2. PICK j \in 2 .. k + l : j = i + 1
        BY <1>1
    <2>3. CASE i <= k - 1
        <3>1. u[j] = a[j]
            BY <1>1, <1>2, <2>2, <2>3
        <3>2. v[i] = t[i] /\ t[i] = a[i + 1]
            BY <1>1, <1>3, <1>4, <2>3
        <3> QED
            BY <2>1, <2>2, <3>1, <3>2
    <2>4. CASE i > k - 1
        <3>1. u[j] = b[j - k]
            BY <1>1, <1>2, <2>2, <2>4
        <3>2. v[i] = b[i - (k - 1)]
            BY <1>1, <1>4, <2>4
        <3>3. i - (k - 1) = j - k
            BY <1>1, <2>2
        <3> QED
            BY <2>1, <2>2, <3>1, <3>2, <3>3
    <2>5. k \in Int /\ i \in Int
        BY <1>1
    <2>6. i <= k - 1 \/ i > k - 1
        BY <2>5
    <2> QED
        BY <2>3, <2>4, <2>6
<1>8. v = Tail(u)
    <2>1. Len(v) = k + l - 1 /\ Len(Tail(u)) = k + l - 1
        BY <1>1, <1>4, <1>6
    <2> QED
        BY <1>4, <1>6, <1>7, <2>1, SameSequence
<1> QED
    BY <1>1, <1>5, <1>8 DEF u, v, t

LEMMA UnreadSent ==
    ASSUME NEW a \in Seq(Byte), NEW b \in Seq(Byte), b # <<>>
    PROVE  Append(a, Head(b)) \o Tail(b) = a \o b
<1>1. Append(a, Head(b)) = a \o <<Head(b)>> /\ <<Head(b)>> \in Seq(Byte) /\ Tail(b) \in Seq(Byte)
    OBVIOUS
<1>2. (a \o <<Head(b)>>) \o Tail(b) = a \o (<<Head(b)>> \o Tail(b))
    BY <1>1, ConcatAssociative
<1>3. <<Head(b)>> \o Tail(b) = b
    OBVIOUS
<1> QED
    BY <1>1, <1>2, <1>3

Ends(e, u, frames) ==
    /\ e \in [0 .. Len(frames) -> Int]
    /\ e[Len(frames)] = Len(u)
    /\ \A i \in 0 .. Len(frames) : e[i] <= Len(u)
    /\ \A i \in 1 .. Len(frames) : e[i] = e[i - 1] + Len(frames[i])
    /\ \A i \in 1 .. Len(frames) : \A j \in 1 .. Len(frames[i]) :
           e[i - 1] + j >= 1 => u[e[i - 1] + j] = frames[i][j]

LEMMA EndsRead ==
    ASSUME NEW frames \in Seq(Seq(Byte)), NEW u \in Seq(Byte), u # <<>>, NEW e, Ends(e, u, frames)
    PROVE  Ends([i \in 0 .. Len(frames) |-> e[i] - 1], Tail(u), frames)
<1> DEFINE n == Len(frames)
           d == [i \in 0 .. n |-> e[i] - 1]
           t == Tail(u)
           m == Len(u)
<1>1. /\ e \in [0 .. n -> Int]
      /\ e[n] = m
      /\ \A i \in 0 .. n : e[i] <= m
      /\ \A i \in 1 .. n : e[i] = e[i - 1] + Len(frames[i])
      /\ \A i \in 1 .. n : \A j \in 1 .. Len(frames[i]) :
             e[i - 1] + j >= 1 => u[e[i - 1] + j] = frames[i][j]
    BY DEF Ends
<1>2. n \in Nat /\ m \in Nat /\ \A i \in 1 .. n : Len(frames[i]) \in Nat
    <2>1. n \in Nat /\ m \in Nat /\ \A i \in 1 .. n : frames[i] \in Seq(Byte)
        OBVIOUS
    <2> QED
        BY <2>1
<1>3. t \in Seq(Byte) /\ Len(t) = m - 1 /\ \A i \in 1 .. m - 1 : t[i] = u[i + 1]
    BY TailElements
<1>4. d \in [0 .. n -> Int] /\ \A i \in 0 .. n : d[i] = e[i] - 1
    BY <1>1
<1> HIDE DEF n, d, t, m
<1>5. d[n] = Len(t) /\ \A i \in 0 .. n : d[i] <= Len(t)
    <2>1. d[n] = m - 1
        BY <1>1, <1>2, <1>4
    <2>2. ASSUME NEW i \in 0 .. n PROVE d[i] <= m - 1
        <3>1. d[i] = e[i] - 1 /\ e[i] <= m /\ e[i] \in Int
            BY <1>1, <1>4
        <3> QED
            BY <1>2, <3>1
    <2> QED
        BY <1>3, <2>1, <2>2
<1>6. ASSUME NEW i \in 1 .. n PROVE d[i] = d[i - 1] + Len(frames[i])
    <2>1. PICK h \in 0 .. n : h = i - 1
        BY <1>2
    <2>2. e[i] = e[h] + Len(frames[i]) /\ e[h] \in Int /\ Len(frames[i]) \in Nat
        BY <1>1, <1>2, <2>1
    <2>3. d[i] = e[i] - 1 /\ d[h] = e[h] - 1
        BY <1>2, <1>4
    <2> QED
        BY <2>1, <2>2, <2>3
<1>7. ASSUME NEW i \in 1 .. n, NEW j \in 1 .. Len(frames[i]), d[i - 1] + j >= 1
      PROVE  t[d[i - 1] + j] = frames[i][j]
    <2>1. PICK h \in 0 .. n : h = i - 1
        BY <1>2
    <2>2. e[i] = e[h] + Len(frames[i]) /\ e[h] \in Int /\ Len(frames[i]) \in Nat /\ e[i] <= m
        BY <1>1, <1>2, <2>1
    <2>3. d[h] = e[h] - 1
        BY <1>4
    <2>4. j \in Nat /\ j <= Len(frames[i])
        BY <2>2
    <2>5. PICK x \in 1 .. m - 1 : x = d[h] + j
        BY <1>2, <1>7, <2>1, <2>2, <2>3, <2>4
    <2>6. t[x] = u[x + 1] /\ x + 1 = e[h] + j
        <3>1. x + 1 = e[h] + j
            BY <2>2, <2>3, <2>4, <2>5
        <3>2. t[x] = u[x + 1]
            BY <1>3
        <3> QED
            BY <3>1, <3>2
    <2>7. u[e[h] + j] = frames[i][j]
        <3>1. e[h] + j >= 1
            BY <2>2, <2>4, <2>5, <2>6
        <3>2. e[i - 1] + j >= 1 => u[e[i - 1] + j] = frames[i][j]
            BY <1>1
        <3> QED
            BY <2>1, <3>1, <3>2
    <2> QED
        BY <2>1, <2>5, <2>6, <2>7
<1>8. Ends(d, t, frames)
    BY <1>4, <1>5, <1>6, <1>7 DEF n, Ends
<1> QED
    BY <1>8 DEF d, t, n

(* Where the frames end once b has been sent too.                          *)
EndsAnd(e, frames, b) ==
    [i \in 0 .. Len(frames) + 1 |-> IF i <= Len(frames) THEN e[i] ELSE e[Len(frames)] + Len(b)]

LEMMA EndsSent ==
    ASSUME NEW frames \in Seq(Seq(Byte)), NEW u \in Seq(Byte), NEW e, Ends(e, u, frames),
           NEW b \in Seq(Byte)
    PROVE  Ends(EndsAnd(e, frames, b), u \o b, Append(frames, b))
<1> DEFINE n == Len(frames)
           d == EndsAnd(e, frames, b)
           f == Append(frames, b)
           m == Len(u)
           l == Len(b)
           v == u \o b
<1>1. /\ e \in [0 .. n -> Int]
      /\ e[n] = m
      /\ \A i \in 0 .. n : e[i] <= m
      /\ \A i \in 1 .. n : e[i] = e[i - 1] + Len(frames[i])
      /\ \A i \in 1 .. n : \A j \in 1 .. Len(frames[i]) :
             e[i - 1] + j >= 1 => u[e[i - 1] + j] = frames[i][j]
    BY DEF Ends
<1>2. n \in Nat /\ m \in Nat /\ l \in Nat
    OBVIOUS
<1>3. /\ Len(f) = n + 1 /\ \A i \in 1 .. n : f[i] = frames[i] /\ Len(frames[i]) \in Nat
      /\ f[n + 1] = b
    <2> DEFINE S == Seq(Byte)
    <2>1. frames \in Seq(S) /\ b \in S
        OBVIOUS
    <2>2. \A i \in 1 .. n : frames[i] \in Seq(Byte)
        OBVIOUS
    <2>3. \A i \in 1 .. n : Len(frames[i]) \in Nat
        BY <2>2
    <2> HIDE DEF S
    <2>4. Len(f) = n + 1 /\ \A i \in 1 .. n : f[i] = frames[i]
        BY <2>1, AppendElements
    <2>5. f[n + 1] = b
        BY <2>1, AppendElements
    <2> QED
        BY <2>3, <2>4, <2>5
<1>4. v \in Seq(Byte) /\ Len(v) = m + l
      /\ \A i \in 1 .. m + l : v[i] = IF i <= m THEN u[i] ELSE b[i - m]
    BY Unread
<1>5. /\ d \in [0 .. n + 1 -> Int] /\ d[n + 1] = m + l
      /\ \A i \in 0 .. n : d[i] = e[i]
    <2>1. \A i \in 0 .. n : e[i] \in Int
        BY <1>1
    <2> HIDE DEF n, m, l
    <2>2. d = [i \in 0 .. n + 1 |-> IF i <= n THEN e[i] ELSE m + l]
        BY <1>1 DEF EndsAnd, n, l
    <2> HIDE DEF d
    <2>3. \A i \in 0 .. n + 1 : (IF i <= n THEN e[i] ELSE m + l) \in Int
        <3>1. ASSUME NEW i \in 0 .. n + 1 PROVE (IF i <= n THEN e[i] ELSE m + l) \in Int
            <4>1. CASE i <= n
                <5>1. i \in 0 .. n
                    BY <1>2, <4>1
                <5> QED
                    BY <2>1, <4>1, <5>1
            <4>2. CASE ~(i <= n)
                BY <1>2, <4>2
            <4> QED
                BY <4>1, <4>2
        <3> QED
            BY <3>1
    <2>4. d \in [0 .. n + 1 -> Int]
        BY <2>2, <2>3
    <2>5. n + 1 \in 0 .. n + 1 /\ ~(n + 1 <= n)
        BY <1>2
    <2>6. d[n + 1] = m + l
        BY <2>2, <2>5
    <2>7. \A i \in 0 .. n : i \in 0 .. n + 1 /\ i <= n
        BY <1>2
    <2>8. \A i \in 0 .. n : d[i] = e[i]
        BY <2>2, <2>7
    <2> QED
        BY <2>4, <2>6, <2>8
<1> HIDE DEF n, d, f, m, l, v
<1>6. ASSUME NEW i \in 0 .. n + 1 PROVE d[i] <= m + l
    <2>1. CASE i = n + 1
        BY <1>2, <1>5, <2>1
    <2>2. CASE i \in 0 .. n
        <3>1. d[i] = e[i] /\ e[i] <= m /\ e[i] \in Int
            BY <1>1, <1>5, <2>2
        <3> QED
            BY <1>2, <3>1
    <2>3. i = n + 1 \/ i \in 0 .. n
        BY <1>2
    <2> QED
        BY <2>1, <2>2, <2>3
<1>7. ASSUME NEW i \in 1 .. n + 1 PROVE d[i] = d[i - 1] + Len(f[i])
    <2>1. PICK h \in 0 .. n : h = i - 1
        BY <1>2
    <2>2. CASE i = n + 1
        <3>1. h = n /\ d[h] = e[h]
            BY <1>2, <1>5, <2>1, <2>2
        <3>2. d[h] = m /\ d[i] = m + l /\ Len(f[i]) = l
            BY <1>1, <1>3, <1>5, <2>2, <3>1 DEF l
        <3> QED
            BY <2>1, <3>2
    <2>3. CASE i \in 1 .. n
        <3>1. d[i] = e[i] /\ d[h] = e[h] /\ f[i] = frames[i]
            BY <1>2, <1>3, <1>5, <2>1, <2>3
        <3>2. e[i] = e[i - 1] + Len(frames[i])
            BY <1>1, <2>3
        <3> QED
            BY <2>1, <3>1, <3>2
    <2> QED
        BY <1>2, <2>2, <2>3
<1>8. ASSUME NEW i \in 1 .. n + 1, NEW j \in 1 .. Len(f[i]), d[i - 1] + j >= 1
      PROVE  v[d[i - 1] + j] = f[i][j]
    <2>1. PICK h \in 0 .. n : h = i - 1
        BY <1>2
    <2>2. d[h] = e[h] /\ d[h] + j >= 1 /\ e[h] \in Int /\ j \in Int
        BY <1>1, <1>5, <1>8, <2>1
    <2>3. CASE i = n + 1
        <3>1. h = n /\ d[h] = m /\ f[i] = b
            BY <1>1, <1>2, <1>3, <2>1, <2>2, <2>3
        <3>2. j \in 1 .. l
            BY <3>1 DEF l
        <3>3. PICK x \in 1 .. m + l : x = m + j
            BY <1>2, <3>2
        <3>4. v[x] = IF x <= m THEN u[x] ELSE b[x - m]
            BY <1>4
        <3>5. ~(x <= m) /\ x - m = j
            BY <1>2, <3>2, <3>3
        <3>6. v[x] = b[j]
            BY <3>4, <3>5
        <3> QED
            BY <2>1, <3>1, <3>3, <3>6
    <2>4. CASE i \in 1 .. n
        <3>1. f[i] = frames[i] /\ Len(frames[i]) \in Nat
            BY <1>3, <2>4
        <3>2. u[e[i - 1] + j] = frames[i][j]
            BY <1>1, <2>1, <2>2, <2>4, <3>1
        <3>3. e[i] <= m /\ e[i] = e[i - 1] + Len(frames[i])
            BY <1>1, <1>2, <2>4
        <3>4. PICK x \in 1 .. m + l : x = e[h] + j /\ x <= m
            <4>1. j \in 1 .. Len(frames[i])
                BY <3>1
            <4>2. j <= Len(frames[i])
                BY <3>1, <4>1
            <4>3. e[h] + Len(frames[i]) <= m
                BY <2>1, <3>3
            <4> DEFINE k == Len(frames[i])
                       x == e[h] + j
            <4>4. k \in Nat /\ j <= k /\ e[h] + k <= m
                BY <3>1, <4>2, <4>3
            <4> HIDE DEF k
            <4>5. e[h] + j \in Int /\ e[h] + j >= 1 /\ e[h] + j <= m /\ e[h] + j <= m + l
                BY <1>2, <2>2, <4>4
            <4> QED
                BY <1>2, <4>5
        <3>5. v[x] = u[x]
            BY <1>4, <3>4
        <3> QED
            BY <2>1, <2>2, <3>1, <3>2, <3>4, <3>5
    <2> QED
        BY <1>2, <2>3, <2>4
<1>9. Ends(d, v, f)
    BY <1>3, <1>4, <1>5, <1>6, <1>7, <1>8 DEF Ends
<1> QED
    BY <1>9 DEF d, v, f

LEMMA EndsNone == Ends([i \in 0 .. 0 |-> 0], <<>>, <<>>)
BY DEF Ends

LEMMA EndsFirst ==
    ASSUME NEW b \in Seq(Byte)
    PROVE  Ends(EndsAnd([i \in 0 .. 0 |-> 0], <<>>, b), b, <<b>>)
<1> DEFINE z == [i \in 0 .. 0 |-> 0]
           d == EndsAnd(z, <<>>, b)
<1>1. Ends(z, <<>>, <<>>) /\ <<>> \in Seq(Seq(Byte)) /\ <<>> \in Seq(Byte)
    BY EndsNone, Nothing
<1> HIDE DEF z
<1>2. Ends(d, <<>> \o b, Append(<<>>, b))
    BY <1>1, EndsSent
<1>3. <<>> \o b = b /\ Append(<<>>, b) = <<b>>
    BY UnreadNone
<1> HIDE DEF d
<1>4. Ends(d, b, <<b>>)
    BY <1>2, <1>3
<1> QED
    BY <1>4 DEF d, z

(* The next byte is the one the ends say.                                  *)
LEMMA NextByte ==
    ASSUME NEW u \in Seq(Byte), u # <<>>, NEW frames, NEW e, Ends(e, u, frames),
           NEW i \in 1 .. Len(frames), NEW j \in 1 .. Len(frames[i]), e[i - 1] + j = 1
    PROVE  Head(u) = frames[i][j]
<1>1. e[i - 1] + j >= 1 => u[e[i - 1] + j] = frames[i][j]
    BY DEF Ends
<1> QED
    BY <1>1
-----------------------------------------------------------------------------
(* How many frames ask for a reply *)

AskingOf(frames, n) == {i \in 1 .. n : Asking(frames[i])}
AskedOf(frames, n) == Cardinality(AskingOf(frames, n))

LEMMA AskedNone ==
    ASSUME NEW frames
    PROVE  AskedOf(frames, 0) = 0
<1>1. AskingOf(frames, 0) = {}
    BY DEF AskingOf
<1> QED
    BY <1>1, FS_EmptySet DEF AskedOf

LEMMA AskingFinite ==
    ASSUME NEW frames, NEW n \in Nat
    PROVE  IsFiniteSet(AskingOf(frames, n)) /\ AskedOf(frames, n) \in Nat
<1>1. IsFiniteSet(1 .. n) /\ AskingOf(frames, n) \in SUBSET (1 .. n)
    BY FS_Interval DEF AskingOf
<1>2. IsFiniteSet(AskingOf(frames, n))
    BY <1>1, FS_Subset
<1> QED
    BY <1>2, FS_CardinalityType DEF AskedOf

LEMMA AskedNext ==
    ASSUME NEW frames, NEW n \in Nat \ {0}
    PROVE  AskedOf(frames, n) = AskedOf(frames, n - 1) + (IF Asking(frames[n]) THEN 1 ELSE 0)
<1> DEFINE old == AskingOf(frames, n - 1)
           new == AskingOf(frames, n)
<1>1. IsFiniteSet(old) /\ Cardinality(old) \in Nat
    BY AskingFinite DEF AskedOf
<1>2. n \notin old
    BY DEF AskingOf
<1>3. \A i \in 1 .. n : i \in 1 .. n - 1 \/ i = n
    OBVIOUS
<1>4. CASE Asking(frames[n])
    <2>1. new = old \cup {n}
        BY <1>3, <1>4 DEF AskingOf
    <2> HIDE DEF old, new
    <2>2. Cardinality(new) = Cardinality(old) + 1
        BY <1>1, <1>2, <2>1, FS_AddElement
    <2> QED
        BY <1>4, <2>2 DEF AskedOf, old, new
<1>5. CASE ~Asking(frames[n])
    <2>1. new = old
        BY <1>3, <1>5 DEF AskingOf
    <2> QED
        BY <1>1, <1>5, <2>1 DEF AskedOf
<1> QED
    BY <1>4, <1>5

LEMMA AskedMore ==
    ASSUME NEW frames, NEW m \in Nat, NEW n \in Nat, m <= n
    PROVE  AskedOf(frames, m) <= AskedOf(frames, n)
<1>1. AskingOf(frames, m) \in SUBSET AskingOf(frames, n)
    BY DEF AskingOf
<1>2. IsFiniteSet(AskingOf(frames, n))
    BY AskingFinite
<1> QED
    BY <1>1, <1>2, FS_Subset DEF AskedOf

LEMMA AskedSame ==
    ASSUME NEW frames, NEW others, NEW n \in Nat, \A i \in 1 .. n : others[i] = frames[i]
    PROVE  AskedOf(others, n) = AskedOf(frames, n)
BY DEF AskedOf, AskingOf, Asking

-----------------------------------------------------------------------------
(* Where in the frames sent get_block is *)

(* get_block has read p bytes of the frame that follows q bytes of s.      *)
Parsing(s, q, p) ==
    /\ q \in Nat /\ p \in Nat \ {0} /\ q + p <= Len(s)
    /\ s[q + 1] = START_MARKER
    /\ pc # "marker"
    /\ pc = "len_lo" => p = 1
    /\ pc = "len_hi" => p = 2 /\ len = s[q + 2]
    /\ pc \in {"body", "crc_lo", "crc_hi", "discard"} => p >= 3 /\ len = s[q + 2] + 256 * s[q + 3]
    /\ \A j \in 1 .. Len(body) : body[j] = s[q + (3 + j)]
    /\ pc = "body" => p = 3 + Len(body)
    /\ pc = "crc_lo" => p = 3 + len
    /\ pc = "crc_hi" => p = 4 + len /\ crc = s[q + (4 + len)]
    /\ pc = "discard" => p + left = 5 + len /\ (len = 0 \/ len > MaxPayload)

(* The frame being read has more to come.                                  *)
LEMMA ParsingOpen ==
    ASSUME FrameTyped, NEW s, NEW q, NEW p, Parsing(s, q, p)
    PROVE  /\ pc \in {"len_lo", "len_hi"} => p < 3
           /\ pc \notin {"len_lo", "len_hi"} => p >= 3 /\ p < 5 + len /\ len = s[q + 2] + 256 * s[q + 3]
<1>1. /\ len \in Nat /\ left \in Nat /\ (pc = "discard" => left > 0)
      /\ pc \in {"marker", "len_lo", "len_hi", "body", "crc_lo", "crc_hi", "discard"}
      /\ (pc = "body" => Len(body) < len) /\ Len(body) \in Nat
    BY DEF FrameTyped, Ranges, Fits
<1>2. /\ p \in Nat /\ (pc = "len_lo" => p = 1) /\ (pc = "len_hi" => p = 2)
      /\ (pc \in {"body", "crc_lo", "crc_hi", "discard"} => p >= 3 /\ len = s[q + 2] + 256 * s[q + 3])
      /\ (pc = "body" => p = 3 + Len(body)) /\ (pc = "crc_lo" => p = 3 + len)
      /\ (pc = "crc_hi" => p = 4 + len) /\ (pc = "discard" => p + left = 5 + len)
      /\ pc # "marker"
    BY DEF Parsing
<1> DEFINE x == s[q + 2] + 256 * s[q + 3]
<1>3. pc \notin {"len_lo", "len_hi"} => p >= 3 /\ len = x
    BY <1>1, <1>2
<1> HIDE DEF x
<1>4. pc \notin {"len_lo", "len_hi"} => p < 5 + len
    BY <1>1, <1>2
<1> QED
    BY <1>2, <1>3, <1>4 DEF x

LEMMA ParsingBegins ==
    ASSUME FrameTyped, NEW s \in Seq(Byte), NEW q \in Nat, q + 1 <= Len(s), Got = s[q + 1],
           ReadMarker, Got = START_MARKER
 PROVE  Parsing(s, q, 1)'
<1>1. pc' = "len_lo" /\ body' = body /\ body = <<>>
    BY DEF ReadMarker, Read, FrameTyped, Before
<1> QED
    BY <1>1 DEF Parsing

LEMMA ParsingMoved ==
    ASSUME NEW s, NEW k, NEW q, NEW p, Parsing(s, q, p)', s = sent'[k]
    PROVE  Parsing(sent[k], q, p)'
BY DEF Parsing

(* A byte read in the middle of a frame.                                   *)
ReadOn ==
    \/ ReadLengthLow \/ ReadLengthHigh \/ ReadBody \/ ReadCrcLow
    \/ Discard /\ left # 1

LEMMA ParsingOn ==
    ASSUME LineTyped, FrameTyped, NEW s \in Seq(Byte), NEW q, NEW p, Parsing(s, q, p),
           q + p + 1 <= Len(s), Got = s[q + (p + 1)], ReadOn
    PROVE  Parsing(s, q, p + 1)'
<1>1. /\ q \in Nat /\ p \in Nat \ {0} /\ q + p <= Len(s) /\ Len(s) \in Nat
      /\ s[q + 1] = START_MARKER
      /\ p + 1 \in Nat \ {0} /\ q + (p + 1) <= Len(s)
    BY DEF Parsing
<1>2. /\ len \in Nat /\ left \in Nat /\ body \in Seq(Byte)
    BY DEF FrameTyped, Ranges, Fits
<1>3. CASE ReadLengthLow
    <2>1. pc = "len_lo" /\ pc' = "len_hi" /\ len' = Got /\ body' = body /\ body = <<>>
        BY <1>3 DEF ReadLengthLow, Read, FrameTyped, Before
    <2>2. p = 1
        BY <2>1 DEF Parsing
    <2> QED
        BY <1>1, <2>1, <2>2 DEF Parsing
<1>4. CASE ReadLengthHigh
    <2>1. pc = "len_hi" /\ len' = len + 256 * Got /\ body' = body /\ body = <<>>
        BY <1>4 DEF ReadLengthHigh, Read, FrameTyped, Before
    <2>2. p = 2 /\ len = s[q + 2]
        BY <2>1 DEF Parsing
    <2>3. len' = s[q + 2] + 256 * s[q + 3] /\ p + 1 = 3
        BY <2>1, <2>2
    <2>4. CASE len' = 0 \/ len' > MaxPayload
        <3>1. pc' = "discard" /\ left' = len' + 2 /\ len' \in Nat
            <4>1. Got \in Byte
                BY <2>1, <1>4, ReadByte DEF ReadLengthHigh
            <4> DEFINE g == Got
            <4>2. len' = len + 256 * g
                BY <2>1
            <4>4. g \in Byte
                BY <4>1
            <4> HIDE DEF g
            <4>5. g \in Nat
                BY <4>4 DEF Byte
            <4>3. len' \in Nat
                BY <1>2, <4>2, <4>5
            <4> QED
                BY <1>4, <2>4, <4>3 DEF ReadLengthHigh
        <3>2. 3 + left' = 5 + len'
            BY <3>1
        <3> QED
            BY <1>1, <2>1, <2>3, <2>4, <3>1, <3>2 DEF Parsing
    <2>5. CASE ~(len' = 0 \/ len' > MaxPayload)
        <3>1. pc' = "body"
            BY <1>4, <2>5 DEF ReadLengthHigh
        <3> QED
            BY <1>1, <2>1, <2>3, <3>1 DEF Parsing
    <2> QED
        BY <2>4, <2>5
<1>5. CASE ReadBody
    <2>1. pc = "body" /\ body' = Append(body, Got) /\ len' = len
          /\ pc' = (IF Len(body') = len THEN "crc_lo" ELSE "body")
        BY <1>5 DEF ReadBody, Read
    <2>2. /\ p = 3 + Len(body) /\ len = s[q + 2] + 256 * s[q + 3]
          /\ \A j \in 1 .. Len(body) : body[j] = s[q + (3 + j)]
        BY <2>1 DEF Parsing
    <2>3. Got \in Byte
        BY <1>5, ReadByte DEF ReadBody
    <2>4. /\ Len(body') = Len(body) + 1 /\ Len(body) \in Nat
          /\ \A j \in 1 .. Len(body) : body'[j] = body[j]
          /\ body'[Len(body) + 1] = Got
        BY <1>2, <2>1, <2>3, AppendElements
    <2>5. ASSUME NEW j \in 1 .. Len(body') PROVE body'[j] = s[q + (3 + j)]
        <3>1. CASE j \in 1 .. Len(body)
            BY <2>2, <2>4, <3>1
        <3>2. CASE j = Len(body) + 1
            <4>1. p + 1 = 3 + j
                BY <2>2, <2>4, <3>2
            <4> QED
                BY <2>4, <3>2, <4>1
        <3> QED
            BY <2>4, <3>1, <3>2
    <2>6. p + 1 = 3 + Len(body')
        BY <2>2, <2>4
    <2>7. p + 1 >= 3
        BY <2>2, <2>4
    <2>8. CASE Len(body') = len
        BY <1>1, <2>1, <2>2, <2>5, <2>6, <2>7, <2>8 DEF Parsing
    <2>9. CASE Len(body') # len
        BY <1>1, <2>1, <2>2, <2>5, <2>6, <2>7, <2>9 DEF Parsing
    <2> QED
        BY <2>8, <2>9
<1>6. CASE ReadCrcLow
    <2>1. pc = "crc_lo" /\ pc' = "crc_hi" /\ crc' = Got /\ len' = len /\ body' = body
        BY <1>6 DEF ReadCrcLow, Read
    <2>2. /\ p = 3 + len /\ p >= 3 /\ len = s[q + 2] + 256 * s[q + 3]
          /\ \A j \in 1 .. Len(body) : body[j] = s[q + (3 + j)]
        BY <2>1 DEF Parsing
    <2>3. p + 1 = 4 + len /\ p + 1 >= 3
        <3>1. p = 3 + len /\ p >= 3 /\ p \in Nat
            BY <1>1, <2>2
        <3> QED
            BY <1>2, <3>1
    <2>4. crc' = s[q + (4 + len)]
        BY <2>1, <2>3
    <2> QED
        BY <1>1, <2>1, <2>2, <2>3, <2>4 DEF Parsing
<1>7. CASE Discard /\ left # 1
    <2>1. pc = "discard" /\ pc' = "discard" /\ left' = left - 1 /\ len' = len /\ body' = body
        BY <1>7 DEF Discard, Read
    <2>2. /\ p + left = 5 + len /\ p >= 3 /\ len = s[q + 2] + 256 * s[q + 3]
          /\ \A j \in 1 .. Len(body) : body[j] = s[q + (3 + j)]
          /\ (len = 0 \/ len > MaxPayload)
        BY <2>1 DEF Parsing
    <2>3. p + 1 + left' = 5 + len /\ p + 1 >= 3
        BY <1>1, <1>2, <2>1, <2>2
    <2> QED
        BY <1>1, <2>1, <2>2, <2>3 DEF Parsing
<1> QED
    BY <1>3, <1>4, <1>5, <1>6, <1>7 DEF ReadOn
-----------------------------------------------------------------------------
(* Where the bytes not yet read are among the frames sent *)

Line == rx \o rest

SentPlain ==
    \A i \in 1 .. Len(sent) :
        /\ sent[i] # <<>> /\ Plain(sent[i])
        /\ i < Len(sent) => Whole(sent[i])

(* Frames 1 to k have been read, or frame k, which asks for nothing, in    *)
(* part.                                                                   *)
Between(e, k) ==
    /\ k \in 0 .. Len(sent)
    /\ \/ e[k] = 0
       \/ k >= 1 /\ e[k] > 0 /\ e[k - 1] < 0 /\ ~Asking(sent[k])
    /\ Len(replies) = AskedOf(sent, k)

(* Frame k is being read.                                                  *)
Within(e, k, q, p) ==
    /\ k \in 1 .. Len(sent)
    /\ e[k - 1] + (q + p) = 0
    /\ Parsing(sent[k], q, p)
    /\ ~slow => /\ q = 0
                /\ Len(replies) = AskedOf(sent, k - 1) + (IF pc = "discard" THEN 1 ELSE 0)

Place(e) ==
    /\ Ends(e, Line, sent) /\ e[0] <= 0
    /\ pc = "marker" => slow \/ \E k : Between(e, k)
    /\ pc # "marker" => \E k, q, p : Within(e, k, q, p)

Alone ==
    slow => /\ Len(sent) = 1
            /\ \E f \in SlowFrames : \E upto \in 1 .. Len(f) : sent[1] = SubSeq(f, 1, upto)

LEMMA EndsAt ==
    ASSUME LineTyped, NEW e, NEW u, Ends(e, u, sent), NEW i \in 1 .. Len(sent)
    PROVE  /\ e[i] \in Int /\ e[i - 1] \in Int /\ i - 1 \in 0 .. Len(sent)
           /\ sent[i] \in Seq(Byte) /\ Len(sent[i]) \in Nat
           /\ e[i] = e[i - 1] + Len(sent[i]) /\ e[i] <= Len(u)
<1>1. sent \in Seq(Seq(Byte))
    BY DEF LineTyped
<1>2. Len(sent) \in Nat
    BY <1>1
<1>3. sent[i] \in Seq(Byte)
    BY <1>1
<1>4. i - 1 \in 0 .. Len(sent) /\ i \in 0 .. Len(sent)
    BY <1>2
<1>5. /\ e \in [0 .. Len(sent) -> Int] /\ e[i] = e[i - 1] + Len(sent[i]) /\ e[i] <= Len(u)
    BY <1>4 DEF Ends
<1> QED
    BY <1>3, <1>4, <1>5

LEMMA LineRead ==
    ASSUME LineTyped, NEW point, Read(point), NEW e, Ends(e, Line, sent)
    PROVE  /\ Line \in Seq(Byte) /\ Line # <<>> /\ Head(Line) = Got /\ Got \in Byte
           /\ sent' = sent /\ slow' = slow
           /\ \E d : Ends(d, Line', sent) /\ \A i \in 0 .. Len(sent) : d[i] = e[i] - 1
<1>1. /\ rx \in Seq(Byte) /\ rest \in Seq(Byte) /\ rx # <<>> /\ sent \in Seq(Seq(Byte))
      /\ rx' = Tail(rx) /\ rest' = rest /\ sent' = sent /\ slow' = slow
    BY DEF LineTyped, Read, host
<1>2. Got \in Byte
    BY ReadByte
<1>3. Line \in Seq(Byte)
    BY <1>1, Unread DEF Line
<1>4. Line # <<>> /\ Head(Line) = Got /\ Line' = Tail(Line)
    BY <1>1, UnreadRead DEF Line, Got
<1> DEFINE d == [i \in 0 .. Len(sent) |-> e[i] - 1]
<1>5. Ends(d, Line', sent)
    BY <1>1, <1>3, <1>4, EndsRead
<1>6. \A i \in 0 .. Len(sent) : d[i] = e[i] - 1
    OBVIOUS
<1> HIDE DEF d
<1> QED
    BY <1>1, <1>2, <1>3, <1>4, <1>5, <1>6

(* A byte read where a marker is looked for.                               *)
LEMMA PlaceMarker ==
    ASSUME LineTyped, FrameTyped, SentPlain, Alone, NEW e, Place(e), ReadMarker
    PROVE  \E d : Place(d)'
<1>1. /\ Read("marker") /\ pc = "marker" /\ replies' = replies
      /\ pc' = IF Got = START_MARKER THEN "len_lo" ELSE "marker"
    BY DEF ReadMarker, Read
<1>2. Ends(e, Line, sent) /\ e[0] <= 0
    BY DEF Place
<1>3. /\ Line \in Seq(Byte) /\ Line # <<>> /\ Head(Line) = Got
      /\ sent' = sent /\ slow' = slow
    BY <1>1, <1>2, LineRead
<1>4. PICK d : Ends(d, Line', sent) /\ \A i \in 0 .. Len(sent) : d[i] = e[i] - 1
    BY <1>1, <1>2, LineRead
<1> DEFINE n == Len(sent)
<1>5. n \in Nat /\ e \in [0 .. n -> Int] /\ e[n] = Len(Line) /\ Len(Line) \in Nat /\ Len(Line) >= 1
    BY <1>2, <1>3 DEF LineTyped, Ends
<1>6. e[0] \in Int /\ d[0] <= 0
    <2>1. e[0] \in Int /\ d[0] = e[0] - 1
        BY <1>4, <1>5
    <2> QED
        BY <1>2, <2>1
<1>7. Ends(d, Line, sent)'
    BY <1>3, <1>4
<1> SUFFICES /\ pc' = "marker" => slow' \/ \E k : Between(d, k)'
             /\ pc' # "marker" => \E k, q, p : Within(d, k, q, p)'
    BY <1>6, <1>7 DEF Place
<1>8. CASE slow
    <2>1. n = 1
        BY <1>8 DEF Alone
    <2>2. CASE Got = START_MARKER
        <3>0. PICK s : s = sent[1]
            OBVIOUS
        <3>1. /\ s \in Seq(Byte) /\ Len(s) \in Nat /\ e[1] = e[0] + Len(s)
            BY <1>2, <2>1, <3>0, EndsAt
        <3>2. PICK q \in Nat : q = 0 - e[0]
            BY <1>2, <1>6
        <3>3. q + 1 <= Len(s)
            BY <1>5, <1>6, <2>1, <3>1, <3>2
        <3>4. Got = s[q + 1]
            <4>1. PICK j \in 1 .. Len(s) : j = q + 1
                BY <3>1, <3>3
            <4>2. e[0] + j = 1
                BY <1>6, <3>2, <4>1
            <4>3. PICK i \in 1 .. Len(sent) : i = 1
                BY <2>1
            <4>4. e[i - 1] + j = 1 /\ j \in 1 .. Len(sent[i])
                BY <3>0, <4>1, <4>2, <4>3
            <4>5. Head(Line) = sent[i][j]
                BY <1>2, <1>3, <4>4, NextByte
            <4> QED
                BY <1>3, <3>0, <4>1, <4>3, <4>5
        <3>5. Parsing(s, q, 1)'
            BY <2>2, <3>1, <3>3, <3>4, ParsingBegins
        <3>6. d[0] + (q + 1) = 0
            BY <1>4, <1>5, <1>6, <3>2
        <3>7. Within(d, 1, q, 1)'
            <4>1. s = sent'[1] /\ Len(sent') = 1
                BY <1>3, <2>1, <3>0
            <4>2. slow'
                BY <1>3, <1>8
            <4>3. 1 - 1 = 0 /\ 1 \in 1 .. 1
                OBVIOUS
            <4>4. Parsing(sent[1], q, 1)'
                BY <3>5, <4>1, ParsingMoved
            <4> QED
                BY <3>6, <4>1, <4>2, <4>3, <4>4 DEF Within
        <3> QED
            BY <1>1, <2>2, <3>7
    <2>3. CASE Got # START_MARKER
        BY <1>1, <1>3, <1>8, <2>3
    <2> QED
        BY <2>2, <2>3
<1>9. CASE ~slow
    <2>1. PICK k : Between(e, k)
        BY <1>1, <1>9 DEF Place
    <2>2. k \in 0 .. n /\ Len(replies) = AskedOf(sent, k)
        BY <2>1 DEF Between
    <2>3. CASE e[k] = 0
        <3>1. PICK i \in 1 .. n : i = k + 1
            BY <1>5, <2>2, <2>3
        <3>0. PICK s : s = sent[i]
            OBVIOUS
        <3>2. /\ s \in Seq(Byte) /\ Len(s) \in Nat /\ e[i] = e[i - 1] + Len(s) /\ e[i] \in Int
              /\ i - 1 \in 0 .. n
            BY <1>2, <3>0, EndsAt
        <3>3. Len(s) >= 1
            BY <3>0, <3>2 DEF SentPlain
        <3>4. i - 1 = k /\ e[i - 1] + 1 = 1
            BY <2>2, <2>3, <3>1
        <3>5. Got = s[1]
            BY <1>2, <1>3, <3>0, <3>2, <3>3, <3>4, NextByte
        <3>6. d[i - 1] = -1 /\ d[i] = Len(s) - 1
            <4>1. i \in 0 .. n
                BY <1>5
            <4>2. d[i - 1] = e[i - 1] - 1 /\ d[i] = e[i] - 1
                BY <1>4, <3>2, <4>1
            <4> QED
                BY <2>3, <3>2, <3>4, <4>2
        <3>7. AskedOf(sent, i) = AskedOf(sent, k) + (IF Asking(s) THEN 1 ELSE 0)
            BY <3>0, <3>4, AskedNext
        <3>8. CASE Got = START_MARKER
            <4>0. 0 + 1 <= Len(s) /\ Got = s[0 + 1] /\ s \in Seq(Byte)
                BY <3>2, <3>3, <3>5
            <4>1. Parsing(s, 0, 1)'
                BY <3>8, <4>0, ParsingBegins
            <4>2. pc' = "len_lo"
                BY <1>1, <3>8
            <4>3. Len(replies') = AskedOf(sent, i - 1)
                BY <1>1, <2>2, <3>4
            <4>4. AskedOf(sent, i - 1) \in Nat
                BY <3>2, AskingFinite
            <4>5. Parsing(sent[i], 0, 1)'
                BY <1>3, <3>0, <4>1, ParsingMoved
            <4>6. Within(d, i, 0, 1)'
                BY <1>3, <3>6, <4>2, <4>3, <4>4, <4>5 DEF Within
            <4> QED
                BY <4>2, <4>6
        <3>9. CASE Got # START_MARKER
            <4>1. ~Asking(s)
                BY <3>5, <3>9 DEF Asking
            <4>2. AskedOf(sent, i) = AskedOf(sent, k)
                BY <1>5, <2>2, <3>7, <4>1, AskingFinite
            <4>3. Between(d, i)'
                <5>1. i \in 0 .. n /\ i >= 1
                    BY <1>5
                <5>2. d[i] = 0 \/ d[i] > 0
                    <6> DEFINE l == Len(s)
                    <6>1. l \in Nat /\ l >= 1 /\ d[i] = l - 1
                        BY <3>2, <3>3, <3>6
                    <6> HIDE DEF l
                    <6> QED
                        BY <6>1
                <5> QED
                    BY <1>1, <1>3, <2>2, <3>0, <3>6, <4>1, <4>2, <5>1, <5>2 DEF Between
            <4> QED
                BY <1>1, <3>9, <4>3
        <3> QED
            BY <3>8, <3>9
    <2>4. CASE k >= 1 /\ e[k] > 0 /\ e[k - 1] < 0 /\ ~Asking(sent[k])
        <3> DEFINE s == sent[k]
        <3>1. k \in 1 .. n
            BY <1>5, <2>2, <2>4
        <3>2. /\ s \in Seq(Byte) /\ Len(s) \in Nat /\ e[k] = e[k - 1] + Len(s) /\ e[k] \in Int
              /\ k - 1 \in 0 .. n /\ e[k - 1] \in Int
            BY <1>2, <3>1, EndsAt
        <3>3. PICK j \in 1 .. Len(s) : j = 1 - e[k - 1]
            BY <2>4, <3>2
        <3>4. Got = s[j]
            <4>1. e[k - 1] + j = 1
                BY <3>2, <3>3
            <4> QED
                BY <1>2, <1>3, <3>1, <4>1, NextByte
        <3>5. Got # START_MARKER
            BY <2>4, <3>1, <3>4 DEF SentPlain, Plain
        <3>6. (d[k] = 0 \/ d[k] > 0) /\ d[k - 1] < 0
            <4>1. d[k] = e[k] - 1 /\ d[k - 1] = e[k - 1] - 1
                BY <1>4, <2>2, <3>2
            <4> QED
                BY <2>4, <3>2, <4>1
        <3>7. Between(d, k)'
            BY <1>1, <1>3, <2>2, <2>4, <3>6 DEF Between
        <3> QED
            BY <1>1, <3>5, <3>7
    <2> QED
        BY <2>1, <2>3, <2>4 DEF Between
<1> QED
    BY <1>8, <1>9
-----------------------------------------------------------------------------
(* Replies *)

RepliesTyped == replies \in Seq(Seq(Byte))

LEMMA ModWord ==
    ASSUME NEW x \in Nat
    PROVE  x % 65536 \in Word
BY InWord

LEMMA PacketBytes ==
    ASSUME CrcIsWord, NEW cmd \in Byte, NEW data \in Seq(Byte)
    PROVE  Packet(cmd, data) \in Seq(Byte)
<1> DEFINE n == (Len(data) + 1) % 65536
           c == Covered(cmd, data)
<1>1. n \in Word
    <2>1. Len(data) + 1 \in Nat
        OBVIOUS
    <2> QED
        BY <2>1, ModWord
<1> HIDE DEF n
<1>2. LoHi(n) \in Seq(Byte) /\ <<cmd>> \in Seq(Byte)
    BY <1>1, LoHiIs DEF OfLength
<1>3. c = LoHi(n) \o <<cmd>> \o data
    BY DEF Covered, n
<1> HIDE DEF c
<1>4. c \in Seq(Byte)
    <2>1. LoHi(n) \o <<cmd>> \in Seq(Byte)
        BY <1>2, Unread
    <2> QED
        BY <1>3, <2>1, Unread
<1>5. LoHi(Crc(c)) \in Seq(Byte) /\ <<START_MARKER>> \in Seq(Byte)
    BY <1>4, LoHiIs DEF CrcIsWord, OfLength, START_MARKER, Byte
<1>6. Packet(cmd, data) = <<START_MARKER>> \o c \o LoHi(Crc(c))
    BY DEF Packet, Covered, c
<1>7. <<START_MARKER>> \o c \in Seq(Byte)
    BY <1>4, <1>5, Unread
<1> QED
    BY <1>5, <1>6, <1>7, Unread

LEMMA OneMoreReply ==
    ASSUME RepliesTyped, NEW r \in Seq(Byte), replies' = Append(replies, r)
    PROVE  /\ RepliesTyped' /\ Len(replies) \in Nat
           /\ Len(replies') = Len(replies) + 1
           /\ \A i \in 1 .. Len(replies) : replies'[i] = replies[i]
           /\ replies'[Len(replies) + 1] = r
<1> DEFINE S == Seq(Byte)
<1>1. replies \in Seq(S) /\ r \in S
    BY DEF RepliesTyped
<1> HIDE DEF S
<1>2. /\ Append(replies, r) \in Seq(S) /\ Len(replies) \in Nat
      /\ Len(Append(replies, r)) = Len(replies) + 1
      /\ \A i \in 1 .. Len(replies) : Append(replies, r)[i] = replies[i]
      /\ Append(replies, r)[Len(replies) + 1] = r
    BY <1>1, AppendElements
<1>3. RepliesTyped'
    BY <1>2 DEF S, RepliesTyped
<1> QED
    BY <1>2, <1>3

LEMMA Rejected ==
    ASSUME CrcIsWord, Reject
    PROVE  /\ Packet(NACK, <<>>) \in Seq(Byte)
           /\ replies' = Append(replies, Packet(NACK, <<>>))
<1>1. NACK \in Byte /\ <<>> \in Seq(Byte)
    BY DEF NACK, Byte
<1> QED
    BY <1>1, PacketBytes DEF Reject, Reply

(* A byte in the middle of a frame: NACK if its length is refused.         *)
LEMMA RepliesOn ==
    ASSUME CrcIsWord, ReadOn
    PROVE  /\ pc # "marker" /\ pc' # "marker" /\ \E point : Read(point)
           /\ \/ replies' = replies /\ (pc' = "discard" <=> pc = "discard")
              \/ Reject /\ pc = "len_hi" /\ pc' = "discard"
<1>1. CASE ReadLengthLow
    BY <1>1 DEF ReadLengthLow, Read
<1>2. CASE ReadLengthHigh
    BY <1>2 DEF ReadLengthHigh, Read
<1>3. CASE ReadBody
    BY <1>3 DEF ReadBody, Read
<1>4. CASE ReadCrcLow
    BY <1>4 DEF ReadCrcLow, Read
<1>5. CASE Discard /\ left # 1
    BY <1>5 DEF Discard, Read
<1> QED
    BY <1>1, <1>2, <1>3, <1>4, <1>5 DEF ReadOn

-----------------------------------------------------------------------------
(* There is room in the frame for the next byte: it is that frame's.       *)
LEMMA MoreToCome ==
    ASSUME LineTyped, FrameTyped, SentPlain, Alone, NEW e, Ends(e, Line, sent),
           Line \in Seq(Byte), Line # <<>>,
           NEW k, NEW q, NEW p, Within(e, k, q, p)
    PROVE  q + p + 1 <= Len(sent[k]) /\ Head(Line) = sent[k][q + (p + 1)]
<1>0. PICK s : s = sent[k]
    OBVIOUS
<1>1. k \in 1 .. Len(sent) /\ e[k - 1] + (q + p) = 0 /\ Parsing(s, q, p)
    BY <1>0 DEF Within
<1>2. /\ s \in Seq(Byte) /\ Len(s) \in Nat /\ e[k] = e[k - 1] + Len(s)
      /\ e[k] \in Int /\ e[k - 1] \in Int
    BY <1>0, <1>1, EndsAt
<1>3. q \in Nat /\ p \in Nat /\ q + p <= Len(s) /\ s[q + 1] = START_MARKER
    BY <1>1 DEF Parsing
<1>4. Len(sent) \in Nat
    BY DEF LineTyped
<1>5. q + p + 1 <= Len(s)
    <2>1. CASE k = Len(sent)
        <3>1. e[k] = Len(Line) /\ Len(Line) >= 1 /\ Len(Line) \in Nat
            BY <2>1 DEF Ends
        <3> QED
            BY <1>1, <1>2, <1>3, <3>1
    <2>2. CASE k < Len(sent)
        <3>1. ~slow
            <4> DEFINE n == Len(sent)
            <4>1. slow => n = 1
                BY DEF Alone
            <4>2. n \in Nat /\ k \in 1 .. n /\ k < n
                BY <1>1, <1>4, <2>2
            <4> HIDE DEF n
            <4> QED
                BY <4>1, <4>2
        <3>2. q = 0
            BY <3>1 DEF Within
        <3>3. s[1] = START_MARKER
            BY <1>3, <3>2
        <3>4. Whole(s)
            BY <1>0, <1>1, <2>2 DEF SentPlain
        <3>5. Len(s) >= 3 /\ Len(s) = 5 + s[2] + 256 * s[3]
            BY <3>3, <3>4 DEF Whole
        <3>6. CASE pc \in {"len_lo", "len_hi"}
            <4>1. p < 3
                BY <1>1, <3>6, ParsingOpen
            <4> QED
                BY <1>2, <1>3, <3>2, <3>5, <4>1
        <3>7. CASE pc \notin {"len_lo", "len_hi"}
            <4>1. p < 5 + len /\ len = s[0 + 2] + 256 * s[0 + 3]
                BY <1>1, <3>2, <3>7, ParsingOpen
            <4>2. s[2] \in Byte /\ s[3] \in Byte
                BY <1>2, <3>5
            <4> DEFINE a == s[2]
                       b == s[3]
            <4>4. a \in Byte /\ b \in Byte /\ Len(s) = 5 + a + 256 * b /\ p < 5 + (a + 256 * b)
                BY <3>5, <4>1, <4>2
            <4> HIDE DEF a, b
            <4>3. a \in Nat /\ b \in Nat /\ Len(s) = 5 + a + 256 * b /\ p < 5 + (a + 256 * b)
                BY <4>4 DEF Byte
            <4> QED
                BY <1>2, <1>3, <3>2, <4>3
        <3> QED
            BY <3>6, <3>7
    <2> QED
        BY <1>1, <1>4, <2>1, <2>2
<1>6. PICK j \in 1 .. Len(s) : j = q + (p + 1)
    BY <1>2, <1>3, <1>5
<1>7. e[k - 1] + j = 1
    BY <1>1, <1>2, <1>3, <1>6
<1>8. Head(Line) = sent[k][j]
    BY <1>0, <1>1, <1>6, <1>7, NextByte
<1> QED
    BY <1>0, <1>5, <1>6, <1>8

LEMMA PlaceOn ==
    ASSUME CrcIsWord, LineTyped, FrameTyped, SentPlain, Alone, RepliesTyped,
           NEW e, Place(e), ReadOn
    PROVE  \E d : Place(d)'
<1>1. /\ pc # "marker" /\ pc' # "marker"
      /\ \/ replies' = replies /\ (pc' = "discard" <=> pc = "discard")
         \/ Reject /\ pc = "len_hi" /\ pc' = "discard"
    BY RepliesOn
<1>2. PICK point : Read(point)
    BY RepliesOn
<1>3. Ends(e, Line, sent) /\ e[0] <= 0
    BY DEF Place
<1>4. /\ Line \in Seq(Byte) /\ Line # <<>> /\ Head(Line) = Got
      /\ sent' = sent /\ slow' = slow
    BY <1>2, <1>3, LineRead
<1>5. PICK d : Ends(d, Line', sent) /\ \A i \in 0 .. Len(sent) : d[i] = e[i] - 1
    BY <1>2, <1>3, LineRead
<1>6. PICK k, q, p : Within(e, k, q, p)
    BY <1>1 DEF Place
<1>7. PICK s : s = sent[k]
    OBVIOUS
<1>8. /\ k \in 1 .. Len(sent) /\ e[k - 1] + (q + p) = 0 /\ Parsing(s, q, p)
      /\ q + p + 1 <= Len(s) /\ Got = s[q + (p + 1)]
    <2>1. q + p + 1 <= Len(sent[k]) /\ Head(Line) = sent[k][q + (p + 1)]
        BY <1>3, <1>4, <1>6, MoreToCome
    <2>2. k \in 1 .. Len(sent) /\ e[k - 1] + (q + p) = 0 /\ Parsing(sent[k], q, p)
        BY <1>6 DEF Within
    <2> QED
        BY <1>4, <1>7, <2>1, <2>2
<1>9. /\ s \in Seq(Byte) /\ Len(s) \in Nat /\ e[k - 1] \in Int /\ k - 1 \in 0 .. Len(sent)
    BY <1>3, <1>7, <1>8, EndsAt
<1>10. Parsing(s, q, p + 1)'
    BY <1>8, <1>9, ParsingOn
<1>11. d[k - 1] + (q + (p + 1)) = 0
    <2>1. q \in Nat /\ p \in Nat
        BY <1>8 DEF Parsing
    <2>2. d[k - 1] = e[k - 1] - 1
        BY <1>5, <1>9
    <2> QED
        BY <1>8, <1>9, <2>1, <2>2
<1>12. Parsing(sent[k], q, p + 1)'
    BY <1>4, <1>7, <1>10, ParsingMoved
<1>13. ~slow => Len(replies') = AskedOf(sent, k - 1) + (IF pc' = "discard" THEN 1 ELSE 0)
    <2>1. SUFFICES ASSUME ~slow
                   PROVE  Len(replies') = AskedOf(sent, k - 1) + (IF pc' = "discard" THEN 1 ELSE 0)
        OBVIOUS
    <2>2. Len(replies) = AskedOf(sent, k - 1) + (IF pc = "discard" THEN 1 ELSE 0)
        BY <1>6, <2>1 DEF Within
    <2>3. CASE replies' = replies /\ (pc' = "discard" <=> pc = "discard")
        BY <2>2, <2>3
    <2>4. CASE Reject /\ pc = "len_hi" /\ pc' = "discard"
        <3>1. Len(replies') = Len(replies) + 1
            BY <2>4, Rejected, OneMoreReply
        <3>2. AskedOf(sent, k - 1) \in Nat
            BY <1>8, AskingFinite
        <3> QED
            BY <2>2, <2>4, <3>1, <3>2
    <2> QED
        BY <1>1, <2>3, <2>4
<1>14. Within(d, k, q, p + 1)'
    <2>1. ~slow => q = 0
        BY <1>6 DEF Within
    <2> QED
        BY <1>4, <1>8, <1>11, <1>12, <1>13, <2>1 DEF Within
<1>15. d[0] <= 0
    <2>1. 0 \in 0 .. Len(sent) /\ e[0] \in Int
        <3>1. Len(sent) \in Nat
            BY DEF LineTyped
        <3>2. e \in [0 .. Len(sent) -> Int]
            BY <1>3 DEF Ends
        <3> QED
            BY <3>1, <3>2
    <2>2. d[0] = e[0] - 1
        BY <1>5, <2>1
    <2> QED
        BY <1>3, <2>1, <2>2
<1> QED
    BY <1>1, <1>4, <1>5, <1>14, <1>15 DEF Place

(* The frame being read is counted once it has been refused or answered.   *)
LEMMA Counted ==
    ASSUME NEW e, NEW k, NEW q, NEW p, Within(e, k, q, p), ~slow
    PROVE  /\ k \in Nat \ {0} /\ Asking(sent[k]) /\ q = 0
           /\ AskedOf(sent, k) = AskedOf(sent, k - 1) + 1 /\ AskedOf(sent, k - 1) \in Nat
           /\ Len(replies) + (IF pc = "discard" THEN 0 ELSE 1) = AskedOf(sent, k)
<1>1. /\ k \in Nat \ {0} /\ q = 0 /\ Parsing(sent[k], q, p)
      /\ Len(replies) = AskedOf(sent, k - 1) + (IF pc = "discard" THEN 1 ELSE 0)
    BY DEF Within
<1>2. Asking(sent[k])
    BY <1>1 DEF Parsing, Asking
<1>3. AskedOf(sent, k - 1) \in Nat
    BY <1>1, AskingFinite
<1>4. AskedOf(sent, k) = AskedOf(sent, k - 1) + 1
    BY <1>1, <1>2, AskedNext
<1> QED
    BY <1>1, <1>2, <1>3, <1>4

(* The last byte of a frame is the last the host sent of it.               *)
LEMMA FrameEnds ==
    ASSUME LineTyped, FrameTyped, SentPlain, Alone, NEW e, Ends(e, Line, sent),
           Line \in Seq(Byte), Line # <<>>,
           NEW k, NEW q, NEW p, Within(e, k, q, p), ~slow,
           pc = "crc_hi" \/ (pc = "discard" /\ left = 1)
    PROVE  p + 1 = 5 + len /\ Len(sent[k]) = 5 + len
<1>0. PICK s : s = sent[k]
    OBVIOUS
<1>1. k \in 1 .. Len(sent) /\ Parsing(s, q, p) /\ q = 0 /\ Asking(s)
    BY <1>0, Counted DEF Within
<1>2. s \in Seq(Byte) /\ Len(s) \in Nat
    BY <1>0, <1>1, EndsAt
<1>3. len \in Nat /\ p \in Nat
    BY <1>1 DEF FrameTyped, Ranges, Parsing
<1>4. p + 1 = 5 + len
    <2>1. (pc = "crc_hi" => p = 4 + len) /\ (pc = "discard" => p + left = 5 + len)
        BY <1>1 DEF Parsing
    <2> QED
        BY <1>3, <2>1
<1>5. p + 1 <= Len(s)
    <2>1. q + p + 1 <= Len(s)
        BY <1>0, MoreToCome
    <2> QED
        BY <1>1, <1>3, <2>1
<1>6. Len(s) <= 5 + len
    <2>1. Len(s) >= 3 /\ Plain(s)
        BY <1>0, <1>1, <1>2, <1>3, <1>4, <1>5 DEF SentPlain
    <2>2. Len(s) <= 5 + s[2] + 256 * s[3]
        BY <1>1, <2>1 DEF Plain
    <2>3. len = s[0 + 2] + 256 * s[0 + 3]
        BY <1>1, ParsingOpen
    <2>4. s[2] \in Byte /\ s[3] \in Byte
        BY <1>2, <2>1
    <2> DEFINE a == s[2]
               b == s[3]
    <2>5. a \in Byte /\ b \in Byte /\ Len(s) <= 5 + a + 256 * b /\ len = a + 256 * b
        BY <2>2, <2>3, <2>4
    <2> HIDE DEF a, b
    <2>6. a \in Nat /\ b \in Nat
        BY <2>5 DEF Byte
    <2> QED
        BY <1>2, <2>5, <2>6
<1>7. Len(s) = 5 + len
    BY <1>2, <1>3, <1>4, <1>5, <1>6
<1> QED
    BY <1>0, <1>4, <1>7

(* The last byte of a frame is read.                                       *)
LEMMA PlaceDone ==
    ASSUME LineTyped, FrameTyped, SentPlain, Alone, NEW e, Place(e),
           NEW point, Read(point), pc' = "marker",
           pc = "crc_hi" \/ (pc = "discard" /\ left = 1),
           Len(replies') = Len(replies) + (IF pc = "discard" THEN 0 ELSE 1),
           RepliesTyped
    PROVE  \E d : Place(d)'
<1>1. pc # "marker" /\ Len(replies) \in Nat
    BY DEF RepliesTyped
<1>3. Ends(e, Line, sent) /\ e[0] <= 0
    BY DEF Place
<1>4. /\ Line \in Seq(Byte) /\ Line # <<>> /\ Head(Line) = Got
      /\ sent' = sent /\ slow' = slow
    BY <1>3, LineRead
<1>5. PICK d : Ends(d, Line', sent) /\ \A i \in 0 .. Len(sent) : d[i] = e[i] - 1
    BY <1>3, LineRead
<1>6. PICK k, q, p : Within(e, k, q, p)
    BY <1>1 DEF Place
<1>7. d[0] <= 0
    <2>1. 0 \in 0 .. Len(sent) /\ e[0] \in Int
        <3>1. Len(sent) \in Nat
            BY DEF LineTyped
        <3>2. e \in [0 .. Len(sent) -> Int]
            BY <1>3 DEF Ends
        <3> QED
            BY <3>1, <3>2
    <2>2. d[0] = e[0] - 1
        BY <1>5, <2>1
    <2> QED
        BY <1>3, <2>1, <2>2
<1>8. CASE slow
    BY <1>4, <1>5, <1>7, <1>8 DEF Place
<1>9. CASE ~slow
    <2>1. /\ k \in 1 .. Len(sent) /\ e[k - 1] + (q + p) = 0 /\ q = 0 /\ p \in Nat
        BY <1>6, <1>9 DEF Within, Parsing
    <2>2. p + 1 = Len(sent[k])
        BY <1>3, <1>4, <1>6, <1>9, FrameEnds
    <2>3. /\ e[k] \in Int /\ e[k - 1] \in Int /\ e[k] = e[k - 1] + Len(sent[k])
          /\ k - 1 \in 0 .. Len(sent) /\ Len(sent[k]) \in Nat
        BY <1>3, <2>1, EndsAt
    <2>4. d[k] = 0 /\ k \in 0 .. Len(sent)
        <3>1. k \in 0 .. Len(sent)
            BY <2>1
        <3>2. d[k] = e[k] - 1
            BY <1>5, <3>1
        <3> DEFINE l == Len(sent[k])
        <3>3. p + 1 = l /\ e[k] = e[k - 1] + l /\ l \in Nat
            BY <2>2, <2>3
        <3> HIDE DEF l
        <3> QED
            BY <2>1, <2>3, <3>1, <3>2, <3>3
    <2>5. Len(replies') = AskedOf(sent, k)
        BY <1>6, <1>9, Counted
    <2>6. Between(d, k)'
        BY <1>4, <2>4, <2>5 DEF Between
    <2> QED
        BY <1>4, <1>5, <1>7, <2>6 DEF Place
<1> QED
    BY <1>8, <1>9

(* The host has stopped in the middle of a frame.                          *)
LEMMA PlaceTimeout ==
    ASSUME LineTyped, FrameTyped, SentPlain, Alone, NEW e, Place(e), Timeout,
           Len(replies') = Len(replies) + (IF pc = "discard" THEN 0 ELSE 1)
    PROVE  Place(e)'
<1>1. /\ pc # "marker" /\ pc' = "marker" /\ rx = <<>> /\ (slow \/ rest = <<>>)
      /\ sent' = sent /\ slow' = slow /\ rest' = rest /\ rx' = rx
    BY DEF Timeout, Return, host
<1>2. Line' = Line
    BY <1>1 DEF Line
<1>3. Ends(e, Line, sent) /\ e[0] <= 0
    BY DEF Place
<1>4. CASE slow
    BY <1>1, <1>2, <1>3, <1>4 DEF Place
<1>5. CASE ~slow
    <2>1. PICK k, q, p : Within(e, k, q, p)
        BY <1>1 DEF Place
    <2>2. /\ k \in 1 .. Len(sent) /\ e[k - 1] + (q + p) = 0 /\ q = 0 /\ p \in Nat
          /\ q + p <= Len(sent[k])
        BY <1>5, <2>1 DEF Within, Parsing
    <2>3. /\ e[k] \in Int /\ e[k - 1] \in Int /\ e[k] = e[k - 1] + Len(sent[k])
          /\ e[k] <= Len(Line) /\ Len(sent[k]) \in Nat
        BY <1>3, <2>2, EndsAt
    <2>4. Len(Line) = 0
        BY <1>1, <1>5 DEF Line
    <2>5. e[k] = 0
        BY <2>2, <2>3, <2>4
    <2>6. Len(replies') = AskedOf(sent, k)
        BY <1>5, <2>1, Counted
    <2>7. k \in 0 .. Len(sent)
        BY <2>2
    <2>8. Between(e, k)'
        BY <1>1, <2>5, <2>6, <2>7 DEF Between
    <2> QED
        BY <1>1, <1>2, <1>3, <2>8 DEF Place
<1> QED
    BY <1>4, <1>5
-----------------------------------------------------------------------------
(* What the host does *)

LEMMA PlainIf ==
    ASSUME NEW s
    PROVE  /\ Asking(s) => (Plain(s) <=> (Len(s) >= 3 => Len(s) <= 5 + s[2] + 256 * s[3]))
           /\ ~Asking(s) => (Plain(s) <=> \A j \in 1 .. Len(s) : s[j] # START_MARKER)
<1>1. CASE Asking(s)
    BY <1>1 DEF Plain
<1>2. CASE ~Asking(s)
    BY <1>2 DEF Plain
<1> QED
    BY <1>1, <1>2

LEMMA CutPlain ==
    ASSUME PlainHost, NEW f \in Frames, NEW upto \in 1 .. Len(f)
    PROVE  /\ SubSeq(f, 1, upto) \in Seq(Byte) /\ SubSeq(f, 1, upto) # <<>>
           /\ Plain(SubSeq(f, 1, upto))
<1> DEFINE s == SubSeq(f, 1, upto)
<1>1. f \in Seq(Byte) /\ Len(f) \in Nat
    BY FramesAssumption
<1>2. s \in Seq(Byte) /\ Len(s) = upto /\ upto \in Nat \ {0} /\ upto <= Len(f)
      /\ \A j \in 1 .. upto : s[j] = f[j]
    BY <1>1
<1> HIDE DEF s
<1>3. s # <<>> /\ s[1] = f[1]
    BY <1>2
<1>4. Plain(f)
    BY DEF PlainHost
<1>5. ASSUME Asking(s) PROVE Plain(s)
    <2>1. Asking(f)
        BY <1>3, <1>5 DEF Asking
    <2>2. SUFFICES ASSUME Len(s) >= 3 PROVE Len(s) <= 5 + s[2] + 256 * s[3]
        BY <1>5, PlainIf
    <2>7. upto >= 3
        BY <1>2, <2>2
    <2>3. Len(f) <= 5 + f[2] + 256 * f[3]
        BY <1>1, <1>2, <1>4, <2>1, <2>7 DEF Plain
    <2>4. s[2] = f[2] /\ s[3] = f[3] /\ f[2] \in Byte /\ f[3] \in Byte
        BY <1>1, <1>2, <2>7
    <2> DEFINE a == f[2]
               b == f[3]
    <2>5. a \in Byte /\ b \in Byte /\ Len(f) <= 5 + a + 256 * b /\ s[2] = a /\ s[3] = b
        BY <2>3, <2>4
    <2> HIDE DEF a, b
    <2>6. a \in Nat /\ b \in Nat
        BY <2>5 DEF Byte
    <2> QED
        BY <1>1, <1>2, <2>5, <2>6
<1>6. ASSUME ~Asking(s) PROVE Plain(s)
    <2>1. ~Asking(f)
        BY <1>3, <1>6 DEF Asking
    <2>2. \A j \in 1 .. upto : j \in 1 .. Len(f)
        BY <1>1, <1>2
    <2>3. \A j \in 1 .. upto : s[j] # START_MARKER
        BY <1>2, <1>4, <2>1, <2>2 DEF Plain
    <2>4. \A j \in 1 .. Len(s) : s[j] # START_MARKER
        BY <1>2, <2>3
    <2> QED
        BY <1>6, <2>4, PlainIf
<1> QED
    BY <1>2, <1>3, <1>5, <1>6 DEF s

LEMMA PlaceFirst ==
    ASSUME PlainHost, NEW f \in Frames, NEW upto \in 1 .. Len(f), SendFirst(f, upto)
    PROVE  SentPlain' /\ Alone' /\ \E d : Place(d)'
<1>1. PICK b : b = SubSeq(f, 1, upto)
    OBVIOUS
<1>2. b \in Seq(Byte) /\ b # <<>> /\ Plain(b)
    BY <1>1, CutPlain
<1>3. /\ rest = <<>> /\ rx = <<>> /\ pc = "marker"
      /\ rest' = b /\ sent' = <<b>> /\ replies' = <<>> /\ rx' = rx /\ pc' = pc
      /\ slow' => f \in SlowFrames
    BY <1>1 DEF SendFirst, Quiet, frame
<1> DEFINE n == Len(sent')
<1>4. n = 1 /\ sent'[1] = b
    BY <1>3
<1> HIDE DEF n
<1>5. SentPlain'
    <2>1. \A i \in 1 .. n : i = 1 /\ ~(i < n)
        BY <1>4
    <2> QED
        BY <1>2, <1>4, <2>1 DEF SentPlain, n
<1>6. Alone'
    BY <1>1, <1>3, <1>4 DEF Alone, n
<1> DEFINE z == [i \in 0 .. 0 |-> 0]
           d == EndsAnd(z, <<>>, b)
<1>7. Ends(d, b, <<b>>)
    BY <1>2, EndsFirst
<1>8. Line' = b
    BY <1>2, <1>3, UnreadNone DEF Line
<1>9. d[0] = 0
    BY DEF EndsAnd
<1> HIDE DEF d
<1>10. Between(d, 0)'
    <2>1. 0 \in 0 .. n
        BY <1>4
    <2>2. Len(replies') = 0
        BY <1>3
    <2>3. AskedOf(sent', 0) = 0
        BY <1>3, AskedNone
    <2> QED
        BY <1>9, <2>1, <2>2, <2>3 DEF Between, n
<1>11. Ends(d, Line, sent)'
    BY <1>3, <1>7, <1>8
<1>12. Place(d)'
    BY <1>3, <1>9, <1>10, <1>11 DEF Place
<1> QED
    BY <1>5, <1>6, <1>12

LEMMA PlaceFrame ==
    ASSUME PlainHost, LineTyped, SentPlain, NEW e, Place(e),
           NEW f \in Frames, NEW upto \in 1 .. Len(f), SendFrame(f, upto)
    PROVE  SentPlain' /\ Alone' /\ \E d : Place(d)'
<1>1. PICK b : b = SubSeq(f, 1, upto)
    OBVIOUS
<1>2. b \in Seq(Byte) /\ b # <<>> /\ Plain(b)
    BY <1>1, CutPlain
<1>3. /\ rest = <<>> /\ ~slow /\ Whole(sent[Len(sent)])
      /\ rest' = b /\ sent' = Append(sent, b) /\ replies' = replies /\ rx' = rx
      /\ UNCHANGED frame /\ pc' = pc /\ slow' = slow
    BY <1>1 DEF SendFrame, frame
<1>4. rx \in Seq(Byte) /\ sent \in Seq(Seq(Byte))
    BY DEF LineTyped
<1> DEFINE n == Len(sent)
<1>5. /\ n \in Nat /\ Len(sent') = n + 1 /\ sent'[n + 1] = b
      /\ \A i \in 1 .. n : sent'[i] = sent[i]
    <2> DEFINE S == Seq(Byte)
    <2>1. sent \in Seq(S) /\ b \in S
        BY <1>2, <1>4
    <2> HIDE DEF S
    <2> QED
        BY <1>3, <2>1, AppendElements
<1>6. SentPlain'
    <2>1. ASSUME NEW i \in 1 .. n + 1
          PROVE  sent'[i] # <<>> /\ Plain(sent'[i]) /\ (i < n + 1 => Whole(sent'[i]))
        <3>1. CASE i = n + 1
            BY <1>2, <1>5, <3>1
        <3>2. CASE i \in 1 .. n
            <4>1. sent[i] # <<>> /\ Plain(sent[i]) /\ (i < n => Whole(sent[i]))
                BY <3>2 DEF SentPlain
            <4>2. Whole(sent[i])
                BY <1>3, <1>5, <3>2, <4>1
            <4> QED
                BY <1>5, <3>2, <4>1, <4>2
        <3> QED
            BY <1>5, <3>1, <3>2
    <2> QED
        BY <1>5, <2>1 DEF SentPlain
<1>7. Alone'
    BY <1>3 DEF Alone
<1> DEFINE d == EndsAnd(e, sent, b)
<1>8. Ends(e, Line, sent) /\ e[0] <= 0
    BY DEF Place
<1>9. Line = rx /\ Line' = rx \o b
    BY <1>3, <1>4, UnreadNone DEF Line
<1>10. Ends(d, Line', sent')
    BY <1>2, <1>3, <1>4, <1>8, <1>9, EndsSent
<1>11. \A i \in 0 .. n : d[i] = e[i]
    <2>1. \A i \in 0 .. n : i \in 0 .. n + 1 /\ i <= n
        BY <1>5
    <2> QED
        BY <2>1 DEF EndsAnd
<1>12. PICK g : g = d
    OBVIOUS
<1> HIDE DEF d
<1>13. Ends(g, Line', sent') /\ \A i \in 0 .. n : g[i] = e[i]
    BY <1>10, <1>11, <1>12
<1>14. g[0] <= 0
    BY <1>5, <1>8, <1>13
<1>15. \A k \in 0 .. n : AskedOf(sent', k) = AskedOf(sent, k)
    <2>1. ASSUME NEW k \in 0 .. n PROVE AskedOf(sent', k) = AskedOf(sent, k)
        <3>1. k \in Nat /\ \A i \in 1 .. k : sent'[i] = sent[i]
            BY <1>5
        <3> QED
            BY <3>1, AskedSame
    <2> QED
        BY <2>1
<1>16. ASSUME NEW k, Between(e, k) PROVE Between(g, k)'
    <2>1. /\ k \in 0 .. n /\ k \in 0 .. n + 1
          /\ \/ e[k] = 0
             \/ k >= 1 /\ e[k] > 0 /\ e[k - 1] < 0 /\ ~Asking(sent[k])
          /\ Len(replies) = AskedOf(sent, k)
        BY <1>5, <1>16 DEF Between
    <2>2. CASE e[k] = 0
        BY <1>3, <1>5, <1>13, <1>15, <2>1, <2>2 DEF Between
    <2>3. CASE k >= 1 /\ e[k] > 0 /\ e[k - 1] < 0 /\ ~Asking(sent[k])
        <3>1. k \in 1 .. n /\ k - 1 \in 0 .. n
            BY <1>5, <2>1, <2>3
        <3>2. g[k] > 0 /\ g[k - 1] < 0 /\ ~Asking(sent'[k])
            BY <1>5, <1>13, <2>1, <2>3, <3>1
        <3> QED
            BY <1>3, <1>5, <1>15, <2>1, <2>3, <3>2 DEF Between
    <2> QED
        BY <2>1, <2>2, <2>3
<1>17. ASSUME NEW k, NEW q, NEW p, Within(e, k, q, p) PROVE Within(g, k, q, p)'
    <2>0. PICK s : s = sent[k]
        OBVIOUS
    <2>1. /\ k \in 1 .. n /\ k \in 1 .. n + 1 /\ k - 1 \in 0 .. n
          /\ e[k - 1] + (q + p) = 0 /\ Parsing(s, q, p)
          /\ ~slow => /\ q = 0
                      /\ Len(replies) = AskedOf(sent, k - 1) + (IF pc = "discard" THEN 1 ELSE 0)
        BY <1>5, <1>17, <2>0 DEF Within
    <2>2. Parsing(s, q, p)'
        BY <1>3, <2>1 DEF Parsing, frame
    <2>3. s = sent'[k]
        BY <1>5, <2>0, <2>1
    <2>4. Parsing(sent[k], q, p)'
        BY <2>2, <2>3, ParsingMoved
    <2> QED
        BY <1>3, <1>5, <1>13, <1>15, <2>1, <2>4 DEF Within
<1>18. Place(g)'
    BY <1>3, <1>13, <1>14, <1>16, <1>17 DEF Place
<1> QED
    BY <1>6, <1>7, <1>18

(* Nothing that has been sent or read changes.                             *)
LEMMA PlaceSame ==
    ASSUME SentPlain, Alone, NEW e, Place(e), Line' = Line,
           UNCHANGED <<slow, sent, replies, frame>>
    PROVE  SentPlain' /\ Alone' /\ Place(e)'
<1>1. /\ slow' = slow /\ sent' = sent /\ replies' = replies /\ pc' = pc /\ UNCHANGED frame
    BY DEF frame
<1>2. SentPlain' /\ Alone'
    BY <1>1 DEF SentPlain, Alone
<1>3. ASSUME NEW k PROVE Between(e, k)' <=> Between(e, k)
    BY <1>1 DEF Between
<1>4. ASSUME NEW k, NEW q, NEW p, Within(e, k, q, p) PROVE Within(e, k, q, p)'
    <2>0. PICK s : s = sent[k]
        OBVIOUS
    <2>1. Parsing(s, q, p)
        BY <1>4, <2>0 DEF Within
    <2>2. Parsing(s, q, p)'
        BY <1>1, <2>1 DEF Parsing, frame
    <2>3. Parsing(sent[k], q, p)'
        BY <1>1, <2>0, <2>2, ParsingMoved
    <2> QED
        BY <1>1, <1>4, <2>3 DEF Within
<1>5. Place(e)'
    BY <1>1, <1>3, <1>4 DEF Place
<1> QED
    BY <1>2, <1>5

LEMMA PlaceByte ==
    ASSUME LineTyped, SentPlain, Alone, NEW e, Place(e), SendByte
    PROVE  SentPlain' /\ Alone' /\ Place(e)'
<1>1. /\ rx \in Seq(Byte) /\ rest \in Seq(Byte) /\ rest # <<>>
      /\ rx' = Append(rx, Head(rest)) /\ rest' = Tail(rest)
    BY DEF LineTyped, SendByte
<1>2. Line' = Line
    BY <1>1, UnreadSent DEF Line
<1>3. UNCHANGED <<slow, sent, replies, frame>>
    BY DEF SendByte
<1> QED
    BY <1>2, <1>3, PlaceSame
-----------------------------------------------------------------------------
(* What is replied *)

Answered ==
    ~slow => \A i \in 1 .. Len(sent) :
                 Asking(sent[i]) /\ AskedOf(sent, i) <= Len(replies)
                     => Answers(replies[AskedOf(sent, i)], sent[i])

LEMMA AnsweredKept ==
    ASSUME Answered, UNCHANGED <<slow, sent, replies>>
    PROVE  Answered'
<1>1. slow' = slow /\ sent' = sent /\ replies' = replies
    OBVIOUS
<1> QED
    BY <1>1 DEF Answered

(* The reply to the frame being read answers it and no other.              *)
LEMMA AnsweredMore ==
    ASSUME LineTyped, RepliesTyped, Answered, NEW e, NEW k, NEW q, NEW p, Within(e, k, q, p),
           pc # "discard", NEW r \in Seq(Byte), replies' = Append(replies, r),
           sent' = sent, slow' = slow, ~slow => Answers(r, sent[k])
    PROVE  Answered'
<1>1. SUFFICES ASSUME ~slow, NEW i \in 1 .. Len(sent), Asking(sent[i]),
                      AskedOf(sent, i) <= Len(replies')
               PROVE  Answers(replies'[AskedOf(sent, i)], sent[i])
    BY DEF Answered
<1>2. /\ k \in Nat \ {0} /\ Asking(sent[k])
      /\ AskedOf(sent, k) = AskedOf(sent, k - 1) + 1 /\ AskedOf(sent, k - 1) \in Nat
      /\ Len(replies) + 1 = AskedOf(sent, k)
    BY <1>1, Counted
<1>3. /\ Len(replies) \in Nat /\ Len(replies') = Len(replies) + 1
      /\ \A j \in 1 .. Len(replies) : replies'[j] = replies[j]
      /\ replies'[Len(replies) + 1] = r
    BY OneMoreReply
<1>4. i \in Nat \ {0} /\ Len(sent) \in Nat
    BY DEF LineTyped
<1>5. AskedOf(sent, i) = AskedOf(sent, i - 1) + 1 /\ AskedOf(sent, i - 1) \in Nat
    BY <1>1, <1>4, AskedNext, AskingFinite
<1>6. CASE i = k
    BY <1>1, <1>2, <1>3, <1>6
<1>7. CASE i < k
    <2>1. AskedOf(sent, i) <= AskedOf(sent, k - 1)
        BY <1>2, <1>4, <1>7, AskedMore
    <2> DEFINE a == AskedOf(sent, i)
    <2>2. a \in 1 .. Len(replies)
        BY <1>2, <1>3, <1>5, <2>1
    <2>3. Answers(replies[a], sent[i])
        BY <1>1, <1>3, <2>2 DEF Answered
    <2>4. replies'[a] = replies[a]
        BY <1>3, <2>2
    <2> QED
        BY <2>3, <2>4
<1>8. CASE i > k
    <2>1. AskedOf(sent, k) <= AskedOf(sent, i - 1)
        BY <1>2, <1>4, <1>8, AskedMore
    <2> QED
        BY <1>1, <1>2, <1>3, <1>5, <2>1
<1>9. i = k \/ i < k \/ i > k
    <2>1. k \in Int /\ i \in Int
        BY <1>2, <1>4
    <2> QED
        BY <2>1
<1> QED
    BY <1>6, <1>7, <1>8, <1>9

LEMMA NackAnswers ==
    ASSUME NEW s, ~Intact(s)
    PROVE  Answers(Packet(NACK, <<>>), s)
BY DEF Answers

LEMMA ReplyAnswers ==
    ASSUME NEW s, NEW r, Intact(s)
    PROVE  /\ Command(s) = GET_LOG /\ (\E text \in {<<>>, LogText} : r = Packet(GET_LOG, text))
                  => Answers(r, s)
           /\ Command(s) = SET_MOTOR_LEVEL /\ r = Packet(SET_MOTOR_LEVEL, Arguments(s))
                  => Answers(r, s)
           /\ Command(s) = GET_STATE /\ Len(r) > 4 /\ r[4] = GET_STATE => Answers(r, s)
           /\ Command(s) = GET_VERSION /\ r = Packet(GET_VERSION, Version) => Answers(r, s)
           /\ Command(s) = RESET_STATE /\ r = Packet(ACK, <<>>) => Answers(r, s)
<1>1. CASE Command(s) = GET_LOG
    BY <1>1 DEF Answers, GET_LOG, SET_MOTOR_LEVEL, GET_STATE, GET_VERSION, RESET_STATE
<1>2. CASE Command(s) = SET_MOTOR_LEVEL
    BY <1>2 DEF Answers, GET_LOG, SET_MOTOR_LEVEL, GET_STATE, GET_VERSION, RESET_STATE
<1>3. CASE Command(s) = GET_STATE
    BY <1>3 DEF Answers, GET_LOG, SET_MOTOR_LEVEL, GET_STATE, GET_VERSION, RESET_STATE
<1>4. CASE Command(s) = GET_VERSION
    BY <1>4 DEF Answers, GET_LOG, SET_MOTOR_LEVEL, GET_STATE, GET_VERSION, RESET_STATE
<1>5. CASE Command(s) = RESET_STATE
    BY <1>5 DEF Answers, GET_LOG, SET_MOTOR_LEVEL, GET_STATE, GET_VERSION, RESET_STATE
<1> QED
    BY <1>1, <1>2, <1>3, <1>4, <1>5

LEMMA StatePacket ==
    ASSUME CrcIsWord
    PROVE  /\ Packet(GET_STATE, <<0, 0>>) \in Seq(Byte)
           /\ Len(Packet(GET_STATE, <<0, 0>>)) > 4 /\ Packet(GET_STATE, <<0, 0>>)[4] = GET_STATE
<1> DEFINE data == <<0, 0>>
           cmd == GET_STATE
           w == Crc(Covered(cmd, data))
           p == Packet(cmd, data)
<1>1. OfLength(data, 2) /\ cmd \in Byte /\ 2 + 1 \in Word /\ 2 \in Nat
    BY InWord DEF OfLength, GET_STATE, Byte
<1> HIDE DEF data, cmd
<1>2. PacketAs(p, cmd, data, 2, w)
    BY <1>1, PacketIs
<1> HIDE DEF w, p
<1>3. p \in Seq(Byte) /\ Len(p) > 4 /\ p[4] = cmd
    <2>1. OfLength(p, 2 + 6) /\ p[4] = cmd
        BY <1>2 DEF PacketAs
    <2>2. Len(p) = 2 + 6 /\ p \in Seq(Byte)
        BY <2>1 DEF OfLength
    <2> QED
        BY <2>1, <2>2
<1> QED
    BY <1>3 DEF p, data, cmd

(* handle_packet replies once, to the frame it is given.                   *)
LEMMA Handled ==
    ASSUME CrcIsWord, DeviceTyped, NEW s, NEW n \in 1 .. MaxPayload, NEW read,
           FrameOf(s, n, read),
           Crc(LoHi(n) \o read) = s[4 + n] + 256 * s[5 + n],
           HandlePacket(Head(read), Tail(read))
    PROVE  \E r \in Seq(Byte) : replies' = Append(replies, r) /\ Answers(r, s)
<1> DEFINE cmd == Head(read)
           data == Tail(read)
<1>1. /\ Command(s) = cmd /\ Arguments(s) = data /\ data \in Seq(Byte)
      /\ Intact(s) <=> SizeAllowed(cmd, Len(data)) /\ cmd \in Commands
    BY IntactIs DEF OfLength
<1>2. /\ GET_LOG \in Byte /\ SET_MOTOR_LEVEL \in Byte /\ GET_VERSION \in Byte /\ ACK \in Byte
      /\ <<>> \in Seq(Byte) /\ LogText \in Seq(Byte) /\ Version \in Seq(Byte)
    BY SizesAssumption DEF GET_LOG, SET_MOTOR_LEVEL, GET_VERSION, ACK, Byte
<1>3. HandlePacket(cmd, data)
    OBVIOUS
<1> HIDE DEF cmd, data
<1>4. ASSUME Reject, ~Intact(s)
      PROVE  \E r \in Seq(Byte) : replies' = Append(replies, r) /\ Answers(r, s)
    BY <1>4, Rejected, NackAnswers
<1>5. CASE ~SizeAllowed(cmd, Len(data))
    BY <1>1, <1>3, <1>4, <1>5 DEF HandlePacket
<1>6. CASE SizeAllowed(cmd, Len(data))
    <2>1. CASE cmd = GET_LOG /\ GetLog
        <3>1. Intact(s)
            BY <1>1, <1>6, <2>1 DEF Commands
        <3>2. log \in {<<>>, LogText} /\ log \in Seq(Byte)
            BY <1>2 DEF DeviceTyped
        <3>3. replies' = Append(replies, Packet(GET_LOG, log))
            BY <2>1 DEF GetLog, Reply
        <3>4. PICK text \in {<<>>, LogText} : text = log
            BY <3>2
        <3>5. Packet(GET_LOG, text) \in Seq(Byte)
            BY <1>2, <3>2, <3>4, PacketBytes
        <3>6. Answers(Packet(GET_LOG, text), s)
            BY <1>1, <2>1, <3>1, ReplyAnswers
        <3> QED
            BY <3>3, <3>4, <3>5, <3>6
    <2>2. CASE cmd = SET_MOTOR_LEVEL /\ SetMotorLevel(data)
        <3>1. Intact(s)
            BY <1>1, <1>6, <2>2 DEF Commands
        <3>2. replies' = Append(replies, Packet(SET_MOTOR_LEVEL, data))
            BY <2>2 DEF SetMotorLevel, Reply
        <3>3. Packet(SET_MOTOR_LEVEL, data) \in Seq(Byte)
            BY <1>1, <1>2, PacketBytes
        <3>4. Answers(Packet(SET_MOTOR_LEVEL, data), s)
            BY <1>1, <2>2, <3>1, ReplyAnswers
        <3> QED
            BY <3>2, <3>3, <3>4
    <2>3. CASE cmd = GET_STATE /\ GetState
        <3>1. Intact(s)
            BY <1>1, <1>6, <2>3 DEF Commands
        <3>2. replies' = Append(replies, Packet(GET_STATE, <<0, 0>>))
            BY <2>3 DEF GetState, Reply
        <3>3. Answers(Packet(GET_STATE, <<0, 0>>), s)
            BY <1>1, <2>3, <3>1, StatePacket, ReplyAnswers
        <3> QED
            BY <3>2, <3>3, StatePacket
    <2>4. CASE cmd = GET_VERSION /\ Reply(Packet(GET_VERSION, Version))
        <3>1. Intact(s)
            BY <1>1, <1>6, <2>4 DEF Commands
        <3>2. replies' = Append(replies, Packet(GET_VERSION, Version))
            BY <2>4 DEF Reply
        <3>3. Packet(GET_VERSION, Version) \in Seq(Byte)
            BY <1>2, PacketBytes
        <3>4. Answers(Packet(GET_VERSION, Version), s)
            BY <1>1, <2>4, <3>1, ReplyAnswers
        <3> QED
            BY <3>2, <3>3, <3>4
    <2>5. CASE cmd = RESET_STATE /\ Reply(Packet(ACK, <<>>))
        <3>1. Intact(s)
            BY <1>1, <1>6, <2>5 DEF Commands
        <3>2. replies' = Append(replies, Packet(ACK, <<>>))
            BY <2>5 DEF Reply
        <3>3. Packet(ACK, <<>>) \in Seq(Byte)
            BY <1>2, PacketBytes
        <3>4. Answers(Packet(ACK, <<>>), s)
            BY <1>1, <2>5, <3>1, ReplyAnswers
        <3> QED
            BY <3>2, <3>3, <3>4
    <2>6. CASE cmd \notin Commands /\ Reject
        BY <1>1, <1>4, <2>6
    <2> QED
        BY <1>3, <1>6, <2>1, <2>2, <2>3, <2>4, <2>5, <2>6 DEF HandlePacket, Commands
<1> QED
    BY <1>5, <1>6

LEMMA Stretch ==
    ASSUME NEW s \in Seq(Byte), NEW q \in Nat, NEW m \in Nat, q + m <= Len(s)
    PROVE  /\ SubSeq(s, q + 1, q + m) \in Seq(Byte) /\ Len(SubSeq(s, q + 1, q + m)) = m
           /\ \A j \in 1 .. m : SubSeq(s, q + 1, q + m)[j] = s[q + j]
<1> DEFINE t == SubSeq(s, q + 1, q + m)
<1>1. Len(t) = m
    OBVIOUS
<1>2. \A j \in 1 .. m : t[j] = s[q + 1 + j - 1]
    OBVIOUS
<1>3. \A j \in 1 .. m : q + 1 + j - 1 = q + j
    OBVIOUS
<1>4. t \in Seq(Byte)
    OBVIOUS
<1> HIDE DEF t
<1>5. \A j \in 1 .. m : t[j] = s[q + j]
    BY <1>2, <1>3
<1> QED
    BY <1>1, <1>4, <1>5 DEF t

(* What has been read when the last byte comes is a frame.                 *)
LEMMA CrcFrame ==
    ASSUME FrameTyped, NEW s \in Seq(Byte), NEW q, NEW p, Parsing(s, q, p), pc = "crc_hi",
           q + p + 1 <= Len(s), Got = s[q + (p + 1)]
    PROVE  /\ len \in 1 .. MaxPayload /\ q \in Nat
           /\ FrameOf(SubSeq(s, q + 1, q + (5 + len)), len, body)
           /\ SubSeq(s, q + 1, q + (5 + len))[4 + len] = crc
           /\ SubSeq(s, q + 1, q + (5 + len))[5 + len] = Got
<1>1. /\ len \in 1 .. MaxPayload /\ Len(body) = len /\ body \in Seq(Byte)
    BY DEF FrameTyped, Fits
<1>2. /\ q \in Nat /\ p \in Nat /\ s[q + 1] = START_MARKER
      /\ len = s[q + 2] + 256 * s[q + 3] /\ p = 4 + len /\ crc = s[q + (4 + len)]
      /\ \A j \in 1 .. Len(body) : body[j] = s[q + (3 + j)]
    BY DEF Parsing
<1>3. PICK n : n = len
    OBVIOUS
<1>4. n \in 1 .. MaxPayload /\ n \in Nat \ {0}
    BY <1>1, <1>3, SizesAssumption
<1> DEFINE t == SubSeq(s, q + 1, q + (5 + n))
           m == 5 + n
<1>5. m \in Nat /\ m >= 6 /\ q + m <= Len(s) /\ Len(s) \in Nat /\ q \in Nat
    <2>1. q \in Nat /\ p \in Nat /\ p = 4 + n
        BY <1>2, <1>3
    <2>2. Len(s) \in Nat
        OBVIOUS
    <2>3. m = p + 1
        BY <1>4, <2>1
    <2>4. m \in Nat /\ m >= 6
        BY <1>4
    <2> HIDE DEF m
    <2>5. q + m <= Len(s)
        BY <2>1, <2>2, <2>3
    <2> QED
        BY <2>1, <2>2, <2>4, <2>5
<1>6. t = SubSeq(s, q + 1, q + m)
    OBVIOUS
<1> HIDE DEF t, m
<1>7. t \in Seq(Byte) /\ Len(t) = m /\ \A j \in 1 .. m : t[j] = s[q + j]
    BY <1>5, <1>6, Stretch
<1>8. /\ t[1] = s[q + 1] /\ t[2] = s[q + 2] /\ t[3] = s[q + 3]
    BY <1>5, <1>7
<1>9. t[4 + n] = s[q + (4 + n)] /\ t[5 + n] = s[q + (5 + n)]
    <2>1. 4 + n \in 1 .. m /\ 5 + n \in 1 .. m
        BY <1>4 DEF m
    <2> QED
        BY <1>7, <2>1
<1>10. \A j \in 1 .. n : body[j] = t[3 + j]
    <2>1. ASSUME NEW j \in 1 .. n PROVE body[j] = t[3 + j]
        <3>1. body[j] = s[q + (3 + j)]
            BY <1>1, <1>2, <1>3
        <3>2. 3 + j \in 1 .. m
            BY <1>4 DEF m
        <3> QED
            BY <1>7, <3>1, <3>2
    <2> QED
        BY <2>1
<1>11. FrameOf(t, n, body)
    <2>1. OfLength(t, 5 + n) /\ OfLength(body, n)
        BY <1>1, <1>3, <1>7 DEF OfLength, m
    <2>2. t[1] = START_MARKER /\ t[2] + 256 * t[3] = n
        BY <1>2, <1>3, <1>8
    <2> QED
        BY <1>10, <2>1, <2>2 DEF FrameOf
<1>12. t[4 + n] = crc /\ t[5 + n] = Got
    <2>1. crc = s[q + (4 + n)]
        BY <1>2, <1>3
    <2>2. p + 1 = 5 + n
        BY <1>2, <1>3, <1>4
    <2> QED
        BY <1>9, <2>1, <2>2
<1> QED
    BY <1>2, <1>3, <1>4, <1>11, <1>12 DEF t

-----------------------------------------------------------------------------
(* Every step of get_block that replies answers the frame it read.         *)

LEMMA Refused ==
    ASSUME CrcIsWord, LineTyped, FrameTyped, SentPlain, Alone, RepliesTyped, Answered,
           NEW e, Place(e), ReadOn, Reject, pc' = "discard", pc = "len_hi"
    PROVE  Answered'
<1>1. PICK point : Read(point)
    BY RepliesOn
<1>2. Ends(e, Line, sent)
    BY DEF Place
<1>3. /\ Line \in Seq(Byte) /\ Line # <<>> /\ Head(Line) = Got
      /\ sent' = sent /\ slow' = slow
    BY <1>1, <1>2, LineRead
<1>4. PICK k, q, p : Within(e, k, q, p)
    BY DEF Place
<1>5. q + p + 1 <= Len(sent[k]) /\ Head(Line) = sent[k][q + (p + 1)]
    BY <1>2, <1>3, <1>4, MoreToCome
<1>6. PICK s : s = sent[k]
    OBVIOUS
<1>7. k \in 1 .. Len(sent) /\ Parsing(s, q, p) /\ (~slow => q = 0)
    BY <1>4, <1>6 DEF Within
<1>8. s \in Seq(Byte)
    BY <1>2, <1>6, <1>7, EndsAt
<1>9. Parsing(s, q, p + 1)'
    BY <1>3, <1>5, <1>6, <1>7, <1>8, ParsingOn
<1>10. ASSUME ~slow PROVE ~Intact(s)
    <2>1. SUFFICES ASSUME Intact(s) PROVE FALSE
        OBVIOUS
    <2>2. len' = s[0 + 2] + 256 * s[0 + 3] /\ (len' = 0 \/ len' > MaxPayload)
        BY <1>7, <1>9, <1>10 DEF Parsing
    <2>3. Len(s) \in 6 .. 5 + MaxPayload /\ s[2] + 256 * s[3] = Len(s) - 5
        BY <1>8, <2>1, IntactLength
    <2> DEFINE l == len'
    <2>4. l = Len(s) - 5 /\ (l = 0 \/ l > MaxPayload) /\ MaxPayload \in Nat
        BY <2>2, <2>3, SizesAssumption, WordMax
    <2> HIDE DEF l
    <2> QED
        BY <2>3, <2>4
<1> QED
    BY <1>3, <1>4, <1>6, <1>10, Rejected, NackAnswers, AnsweredMore

(* A frame cut short is not intact.                                        *)
LEMMA CutShort ==
    ASSUME CrcIsWord, LineTyped, FrameTyped, NEW e, Ends(e, Line, sent), Line = <<>>,
           NEW k, NEW q, NEW p, Within(e, k, q, p), ~slow
    PROVE  ~Intact(sent[k])
<1>0. PICK s : s = sent[k]
    OBVIOUS
<1>1. /\ k \in 1 .. Len(sent) /\ e[k - 1] + (q + p) = 0 /\ q = 0 /\ p \in Nat
      /\ q + p <= Len(s) /\ Parsing(s, q, p)
    BY <1>0 DEF Within, Parsing
<1>2. /\ e[k] \in Int /\ e[k - 1] \in Int /\ e[k] = e[k - 1] + Len(s)
      /\ e[k] <= Len(Line) /\ Len(s) \in Nat /\ s \in Seq(Byte)
    BY <1>0, <1>1, EndsAt
<1>3. Len(s) = p
    <2>1. Len(Line) = 0
        OBVIOUS
    <2> QED
        BY <1>1, <1>2, <2>1
<1>4. SUFFICES ASSUME Intact(s) PROVE FALSE
    BY <1>0
<1>5. Len(s) \in 6 .. 5 + MaxPayload /\ s[2] + 256 * s[3] = Len(s) - 5
    BY <1>2, <1>4, IntactLength
<1>6. p >= 6
    BY <1>3, <1>5
<1>7. p < 5 + len /\ len = s[0 + 2] + 256 * s[0 + 3]
    BY <1>1, <1>6, ParsingOpen
<1>8. len = Len(s) - 5
    BY <1>5, <1>7
<1> QED
    BY <1>2, <1>3, <1>7, <1>8

LEMMA TimedOut ==
    ASSUME CrcIsWord, LineTyped, FrameTyped, SentPlain, Alone, RepliesTyped, Answered,
           NEW e, Place(e), Timeout
    PROVE  Answered' /\ RepliesTyped' /\ Place(e)'
<1>1. /\ pc # "marker" /\ pc' = "marker" /\ rx = <<>> /\ (slow \/ rest = <<>>)
      /\ sent' = sent /\ slow' = slow
    BY DEF Timeout, Return, host
<1>2. Ends(e, Line, sent)
    BY DEF Place
<1>3. CASE pc = "discard"
    <2>1. replies' = replies
        BY <1>3 DEF Timeout
    <2>2. Answered' /\ RepliesTyped'
        BY <1>1, <2>1, AnsweredKept DEF RepliesTyped
    <2>3. Len(replies) \in Nat
        BY DEF RepliesTyped
    <2>4. Place(e)'
        BY <1>3, <2>1, <2>3, PlaceTimeout
    <2> QED
        BY <2>2, <2>4
<1>4. CASE pc # "discard"
    <2>1. Reject
        BY <1>4 DEF Timeout
    <2>2. RepliesTyped' /\ Len(replies') = Len(replies) + 1
        BY <2>1, Rejected, OneMoreReply
    <2>3. Place(e)'
        BY <1>4, <2>2, PlaceTimeout
    <2>4. PICK k, q, p : Within(e, k, q, p)
        BY <1>1 DEF Place
    <2>5. ASSUME ~slow PROVE ~Intact(sent[k])
        <3>1. Line = <<>>
            BY <1>1, <2>5 DEF Line
        <3> QED
            BY <1>2, <2>4, <2>5, <3>1, CutShort
    <2>6. ~slow => Answers(Packet(NACK, <<>>), sent[k])
        BY <2>5, NackAnswers
    <2>7. Answered'
        BY <1>1, <1>4, <2>1, <2>4, <2>6, Rejected, AnsweredMore
    <2> QED
        BY <2>2, <2>3, <2>7
<1> QED
    BY <1>3, <1>4

(* The last byte of a frame whose length was accepted: the reply answers   *)
(* the frame, which is the stretch of sent bytes get_block took for one.   *)
LEMMA CrcRead ==
    ASSUME CrcIsWord, LineTyped, FrameTyped, SentPlain, Alone,
           NEW e, Ends(e, Line, sent), NEW k, NEW q, NEW p, Within(e, k, q, p), ReadCrcHigh
    PROVE  /\ k \in 1 .. Len(sent) /\ q \in Nat /\ len \in 1 .. MaxPayload
           /\ q + (5 + len) <= Len(sent[k])
           /\ \E t : /\ t = SubSeq(sent[k], q + 1, q + (5 + len))
                     /\ FrameOf(t, len, body)
                     /\ t[4 + len] = crc /\ t[5 + len] = Got
                     /\ ~slow => t = sent[k]
<1>1. Read("crc_hi") /\ pc = "crc_hi"
    BY DEF ReadCrcHigh, Read
<1>2. /\ Line \in Seq(Byte) /\ Line # <<>> /\ Head(Line) = Got
    BY <1>1, LineRead
<1>3. PICK s : s = sent[k]
    OBVIOUS
<1>4. q + p + 1 <= Len(s) /\ Got = s[q + (p + 1)]
    BY <1>2, <1>3, MoreToCome
<1>5. k \in 1 .. Len(sent) /\ Parsing(s, q, p) /\ (~slow => q = 0)
    BY <1>3 DEF Within
<1>6. s \in Seq(Byte)
    BY <1>3, <1>5, EndsAt
<1>7. /\ len \in 1 .. MaxPayload /\ q \in Nat
      /\ FrameOf(SubSeq(s, q + 1, q + (5 + len)), len, body)
      /\ SubSeq(s, q + 1, q + (5 + len))[4 + len] = crc
      /\ SubSeq(s, q + 1, q + (5 + len))[5 + len] = Got
    BY <1>1, <1>4, <1>5, <1>6, CrcFrame
<1>8. q + (5 + len) <= Len(s)
    <2>1. p = 4 + len /\ p \in Nat
        BY <1>1, <1>5 DEF Parsing
    <2>2. len \in Nat /\ Len(s) \in Nat
        BY <1>6 DEF FrameTyped, Ranges
    <2> QED
        BY <1>4, <1>7, <2>1, <2>2
<1>9. ASSUME ~slow PROVE SubSeq(s, q + 1, q + (5 + len)) = s
    <2>1. Len(s) = 5 + len
        <3>1. pc = "crc_hi" \/ (pc = "discard" /\ left = 1)
            BY <1>1
        <3>2. Len(sent[k]) = 5 + len
            BY <1>2, <1>9, <3>1, FrameEnds
        <3> QED
            BY <1>3, <3>2
    <2>2. q + 1 = 1 /\ q + (5 + len) = Len(s)
        <3>1. Len(s) \in Nat
            BY <1>6
        <3> QED
            BY <1>5, <1>9, <2>1, <3>1
    <2>3. SubSeq(s, 1, Len(s)) = s
        BY <1>6
    <2> QED
        BY <2>2, <2>3
<1> QED
    BY <1>3, <1>5, <1>7, <1>8, <1>9

LEMMA Checked ==
    ASSUME CrcIsWord, LineTyped, FrameTyped, DeviceTyped, SentPlain, Alone, RepliesTyped,
           Answered, NEW e, Place(e), ReadCrcHigh
    PROVE  Answered' /\ RepliesTyped' /\ \E d : Place(d)'
<1>1. /\ Read("crc_hi") /\ pc = "crc_hi" /\ pc' = "marker" /\ sent' = sent /\ slow' = slow
    BY DEF ReadCrcHigh, Read, Return, host
<1>2. Ends(e, Line, sent)
    BY DEF Place
<1>3. PICK k, q, p : Within(e, k, q, p)
    BY <1>1 DEF Place
<1>4. PICK n, read : n = len /\ read = body
    OBVIOUS
<1>5. len \in 1 .. MaxPayload
    BY <1>2, <1>3, CrcRead
<1>6. PICK t : /\ FrameOf(t, len, body)
               /\ t[4 + len] = crc /\ t[5 + len] = Got
               /\ ~slow => t = sent[k]
    BY <1>2, <1>3, CrcRead
<1>7. /\ n \in 1 .. MaxPayload /\ FrameOf(t, n, read)
      /\ t[4 + n] = crc /\ t[5 + n] = Got
    BY <1>4, <1>5, <1>6
<1>8. \E r \in Seq(Byte) : replies' = Append(replies, r) /\ Answers(r, t)
    <2>1. CASE Crc(LoHi(n) \o read) = crc + 256 * Got
        <3>1. Crc(LoHi(n) \o read) = t[4 + n] + 256 * t[5 + n]
            BY <1>7, <2>1
        <3>2. HandlePacket(Head(read), Tail(read))
            BY <1>4, <2>1 DEF ReadCrcHigh
        <3> QED
            BY <1>7, <3>1, <3>2, Handled
    <2>2. CASE Crc(LoHi(n) \o read) # crc + 256 * Got
        <3>1. Crc(LoHi(n) \o read) # t[4 + n] + 256 * t[5 + n]
            BY <1>7, <2>2
        <3>2. ~Intact(t)
            <4>1. n \in 1 .. MaxPayload /\ FrameOf(t, n, read)
                BY <1>7
            <4>3. Intact(t) <=> /\ Crc(LoHi(n) \o read) = t[4 + n] + 256 * t[5 + n]
                                /\ SizeAllowed(Head(read), Len(Tail(read)))
                                /\ Head(read) \in Commands
                BY <4>1, IntactIs, Zenon
            <4>2. Intact(t) => Crc(LoHi(n) \o read) = t[4 + n] + 256 * t[5 + n]
                BY <4>3
            <4> QED
                BY <3>1, <4>2
        <3>3. Reject
            BY <1>4, <2>2 DEF ReadCrcHigh
        <3> QED
            BY <3>2, <3>3, Rejected, NackAnswers
    <2> QED
        BY <2>1, <2>2
<1>9. PICK r \in Seq(Byte) : replies' = Append(replies, r) /\ Answers(r, t)
    BY <1>8
<1>10. RepliesTyped' /\ Len(replies') = Len(replies) + 1
    BY <1>9, OneMoreReply
<1>11. Answered'
    <2>1. ~slow => Answers(r, sent[k])
        BY <1>6, <1>9
    <2> QED
        BY <1>1, <1>3, <1>9, <2>1, AnsweredMore
<1>12. \E d : Place(d)'
    <2>1. Len(replies') = Len(replies) + (IF pc = "discard" THEN 0 ELSE 1)
        BY <1>1, <1>10
    <2>2. pc = "crc_hi" \/ (pc = "discard" /\ left = 1)
        BY <1>1
    <2> QED
        BY <1>1, <2>1, <2>2, PlaceDone
<1> QED
    BY <1>10, <1>11, <1>12

-----------------------------------------------------------------------------
(* The replies so far, the frames they answer and the one being read, for  *)
(* a host that does not pause; where get_block is in what was sent, for    *)
(* every host.                                                             *)
Sound ==
    /\ Typed /\ RepliesTyped /\ SentPlain /\ Alone /\ Answered
    /\ \E e : Place(e)

LEMMA SoundInit == Init => Sound
<1> SUFFICES ASSUME Init PROVE Sound
    OBVIOUS
<1>1. /\ rest = <<>> /\ rx = <<>> /\ slow = FALSE /\ sent = <<>> /\ replies = <<>>
      /\ pc = "marker"
    BY DEF Init
<1>2. Typed
    BY TypedInit
<1>3. RepliesTyped
    BY <1>1, Nothing, Zenon DEF RepliesTyped
<1>4. SentPlain /\ Alone /\ Answered
    BY <1>1 DEF SentPlain, Alone, Answered
<1> DEFINE z == [i \in 0 .. 0 |-> 0]
<1>5. Ends(z, Line, sent)
    <2>1. Line = <<>>
        BY <1>1 DEF Line
    <2> HIDE DEF z
    <2> QED
        BY <1>1, <2>1, EndsNone DEF z
<1>6. z[0] = 0
    OBVIOUS
<1> HIDE DEF z
<1>7. Between(z, 0)
    <2>1. AskedOf(sent, 0) = 0 /\ Len(replies) = 0 /\ 0 \in 0 .. Len(sent)
        BY <1>1, AskedNone
    <2> QED
        BY <1>6, <2>1 DEF Between
<1>8. Place(z)
    BY <1>1, <1>5, <1>6, <1>7 DEF Place
<1> QED
    BY <1>2, <1>3, <1>4, <1>8 DEF Sound

(* There are no more replies than frames that ask for one.                 *)
LEMMA AtMostAsked ==
    ASSUME LineTyped, NEW e, Place(e), ~slow
    PROVE  Len(replies) <= AskedOf(sent, Len(sent))
<1>1. Len(sent) \in Nat
    BY DEF LineTyped
<1>2. CASE pc = "marker"
    <2>1. PICK k : k \in 0 .. Len(sent) /\ Len(replies) = AskedOf(sent, k)
        BY <1>2 DEF Place, Between
    <2>2. k \in Nat /\ k <= Len(sent)
        BY <1>1, <2>1
    <2> QED
        BY <1>1, <2>1, <2>2, AskedMore
<1>3. CASE pc # "marker"
    <2>1. PICK k, q, p : Within(e, k, q, p)
        BY <1>3 DEF Place
    <2>2. k \in 1 .. Len(sent)
        BY <2>1 DEF Within
    <2>3. /\ k \in Nat /\ AskedOf(sent, k) = AskedOf(sent, k - 1) + 1 /\ AskedOf(sent, k - 1) \in Nat
          /\ Len(replies) + (IF pc = "discard" THEN 0 ELSE 1) = AskedOf(sent, k)
        BY <2>1, Counted
    <2>4. Len(replies) = AskedOf(sent, k - 1) + (IF pc = "discard" THEN 1 ELSE 0)
        BY <2>1 DEF Within
    <2>5. AskedOf(sent, k) <= AskedOf(sent, Len(sent))
        BY <1>1, <2>2, <2>3, AskedMore
    <2>6. AskedOf(sent, Len(sent)) \in Nat
        BY <1>1, AskingFinite
    <2> QED
        BY <2>3, <2>4, <2>5, <2>6
<1> QED
    BY <1>2, <1>3

LEMMA SoundHost ==
    ASSUME PlainHost, LineTyped, RepliesTyped, SentPlain, Answered, NEW e, Place(e),
           NEW f \in Frames, NEW upto \in 1 .. Len(f), SendFirst(f, upto) \/ SendFrame(f, upto)
    PROVE  RepliesTyped' /\ SentPlain' /\ Alone' /\ Answered' /\ \E d : Place(d)'
<1>0. PICK b : b = SubSeq(f, 1, upto)
    OBVIOUS
<1>1. CASE SendFirst(f, upto)
    <2>1. SentPlain' /\ Alone' /\ \E d : Place(d)'
        BY <1>1, PlaceFirst
    <2>2. replies' = <<>> /\ sent' = <<b>>
        BY <1>0, <1>1 DEF SendFirst
    <2>3. RepliesTyped'
        BY <2>2, Nothing, Zenon DEF RepliesTyped
    <2>4. Answered'
        <3>1. SUFFICES ASSUME NEW i \in 1 .. Len(sent'), Asking(sent'[i]),
                              AskedOf(sent', i) <= Len(replies')
                       PROVE  FALSE
            BY DEF Answered
        <3>2. i \in Nat \ {0} /\ Len(replies') = 0
            BY <2>2
        <3>3. AskedOf(sent', i) = AskedOf(sent', i - 1) + 1 /\ AskedOf(sent', i - 1) \in Nat
            BY <3>1, <3>2, AskedNext, AskingFinite
        <3> QED
            BY <3>1, <3>2, <3>3
    <2> QED
        BY <2>1, <2>3, <2>4
<1>2. CASE SendFrame(f, upto)
    <2>1. SentPlain' /\ Alone' /\ \E d : Place(d)'
        BY <1>2, PlaceFrame
    <2>2. replies' = replies /\ sent' = Append(sent, b) /\ ~slow
        BY <1>0, <1>2 DEF SendFrame
    <2>3. RepliesTyped'
        BY <2>2 DEF RepliesTyped
    <2> DEFINE n == Len(sent)
    <2>4. n \in Nat /\ Len(sent') = n + 1 /\ \A i \in 1 .. n : sent'[i] = sent[i]
        <3> DEFINE S == Seq(Byte)
        <3>1. sent \in Seq(S) /\ b \in S
            BY <1>0, CutFrame DEF LineTyped
        <3> HIDE DEF S
        <3> QED
            BY <2>2, <3>1, AppendElements
    <2>5. Answered'
        <3>1. SUFFICES ASSUME NEW i \in 1 .. n + 1, Asking(sent'[i]),
                              AskedOf(sent', i) <= Len(replies)
                       PROVE  Answers(replies[AskedOf(sent', i)], sent'[i])
            BY <2>2, <2>4 DEF Answered
        <3>2. CASE i \in 1 .. n
            <4>1. i \in Nat /\ \A j \in 1 .. i : sent'[j] = sent[j]
                BY <2>4, <3>2
            <4>2. AskedOf(sent', i) = AskedOf(sent, i) /\ sent'[i] = sent[i]
                BY <2>4, <3>2, <4>1, AskedSame
            <4> QED
                BY <2>2, <3>1, <3>2, <4>2 DEF Answered
        <3>3. CASE i = n + 1
            <4>1. i \in Nat \ {0} /\ i - 1 = n
                BY <2>4, <3>3
            <4>2. AskedOf(sent', i) = AskedOf(sent', i - 1) + 1
                BY <3>1, <4>1, AskedNext
            <4>3. AskedOf(sent', i - 1) = AskedOf(sent, n) /\ AskedOf(sent, n) \in Nat
                BY <2>4, <4>1, AskedSame, AskingFinite
            <4>4. Len(replies) <= AskedOf(sent, n) /\ Len(replies) \in Nat
                BY <2>2, AtMostAsked DEF RepliesTyped
            <4> QED
                BY <3>1, <4>2, <4>3, <4>4
        <3> QED
            BY <2>4, <3>2, <3>3
    <2> QED
        BY <2>1, <2>3, <2>5
<1> QED
    BY <1>1, <1>2

LEMMA SoundBlock ==
    ASSUME CrcIsWord, LineTyped, FrameTyped, DeviceTyped, RepliesTyped, SentPlain, Alone,
           Answered, NEW e, Place(e), GetBlock
    PROVE  RepliesTyped' /\ SentPlain' /\ Alone' /\ Answered' /\ \E d : Place(d)'
<1>1. sent' = sent /\ slow' = slow
    BY DEF GetBlock, ReadMarker, ReadLengthLow, ReadLengthHigh, Discard, ReadBody, ReadCrcLow,
           ReadCrcHigh, Timeout, Read, host
<1>2. SentPlain' /\ Alone'
    BY <1>1 DEF SentPlain, Alone
<1>3. CASE ReadMarker
    <2>1. replies' = replies
        BY <1>3 DEF ReadMarker
    <2> QED
        BY <1>1, <1>2, <1>3, <2>1, AnsweredKept, PlaceMarker DEF RepliesTyped
<1>4. CASE ReadOn
    <2>1. \E d : Place(d)'
        BY <1>4, PlaceOn
    <2>2. CASE replies' = replies
        BY <1>1, <1>2, <2>1, <2>2, AnsweredKept DEF RepliesTyped
    <2>3. CASE Reject /\ pc = "len_hi" /\ pc' = "discard"
        <3>1. Answered'
            BY <1>4, <2>3, Refused
        <3>2. RepliesTyped'
            BY <2>3, Rejected, OneMoreReply
        <3> QED
            BY <1>2, <2>1, <3>1, <3>2
    <2> QED
        BY <1>4, <2>2, <2>3, RepliesOn
<1>5. CASE Discard /\ left = 1
    <2>1. Read("discard") /\ pc = "discard" /\ pc' = "marker" /\ replies' = replies
        BY <1>5 DEF Discard, Read, Return
    <2>2. Len(replies') = Len(replies) + (IF pc = "discard" THEN 0 ELSE 1)
        <3>1. Len(replies) \in Nat
            BY DEF RepliesTyped
        <3> QED
            BY <2>1, <3>1
    <2>3. pc = "crc_hi" \/ (pc = "discard" /\ left = 1)
        BY <1>5, <2>1
    <2>4. \E d : Place(d)'
        BY <2>1, <2>2, <2>3, PlaceDone
    <2> QED
        BY <1>1, <1>2, <2>1, <2>4, AnsweredKept DEF RepliesTyped
<1>6. CASE ReadCrcHigh
    BY <1>2, <1>6, Checked
<1>7. CASE Timeout
    BY <1>2, <1>7, TimedOut
<1> QED
    BY <1>3, <1>4, <1>5, <1>6, <1>7 DEF GetBlock, ReadOn

LEMMA SoundStep == PlainHost /\ CrcIsWord /\ Sound /\ [Next]_vars => Sound'
<1> SUFFICES ASSUME PlainHost, CrcIsWord, Sound, [Next]_vars PROVE Sound'
    OBVIOUS
<1>1. Typed /\ RepliesTyped /\ SentPlain /\ Alone /\ Answered
    BY DEF Sound
<1>2. LineTyped /\ FrameTyped /\ DeviceTyped
    BY <1>1 DEF Typed
<1>3. PICK e : Place(e)
    BY DEF Sound
<1>4. Typed'
    BY <1>1, TypedStep
<1> SUFFICES RepliesTyped' /\ SentPlain' /\ Alone' /\ Answered' /\ \E d : Place(d)'
    BY <1>4 DEF Sound
<1>5. ASSUME NEW f \in Frames, NEW upto \in 1 .. Len(f), SendFirst(f, upto) \/ SendFrame(f, upto)
      PROVE  RepliesTyped' /\ SentPlain' /\ Alone' /\ Answered' /\ \E d : Place(d)'
    BY <1>1, <1>2, <1>3, <1>5, SoundHost
<1>6. CASE SendByte
    <2>1. SentPlain' /\ Alone' /\ Place(e)'
        BY <1>1, <1>2, <1>3, <1>6, PlaceByte
    <2>2. UNCHANGED <<slow, sent, replies>>
        BY <1>6 DEF SendByte
    <2> QED
        BY <1>1, <2>1, <2>2, AnsweredKept DEF RepliesTyped
<1>7. CASE GetBlock
    BY <1>1, <1>2, <1>3, <1>7, SoundBlock
<1>8. CASE LogLine \/ UNCHANGED vars
    <2>1. UNCHANGED <<slow, sent, replies, frame, rx, rest>>
        BY <1>8 DEF LogLine, vars, host, frame
    <2>2. Line' = Line /\ UNCHANGED <<slow, sent, replies, frame>> /\ UNCHANGED <<slow, sent, replies>>
        BY <2>1 DEF Line
    <2>3. SentPlain' /\ Alone' /\ Place(e)'
        BY <1>1, <1>3, <2>2, PlaceSame
    <2> QED
        BY <1>1, <2>2, <2>3, AnsweredKept DEF RepliesTyped
<1> QED
    BY <1>5, <1>6, <1>7, <1>8 DEF Next

LEMMA SoundReplies == Sound => OneReplyEach
<1> SUFFICES ASSUME Sound, ~slow
             PROVE  /\ Len(replies) <= Asked(Len(sent))
                    /\ \A i \in DOMAIN sent :
                           Asking(sent[i]) /\ Asked(i) <= Len(replies) => Answers(replies[Asked(i)], sent[i])
                    /\ Quiet => Len(replies) = Asked(Len(sent))
    BY DEF OneReplyEach
<1>1. LineTyped /\ Answered /\ SentPlain
    BY DEF Sound, Typed
<1>2. PICK e : Place(e)
    BY DEF Sound
<1>3. \A n : Asked(n) = AskedOf(sent, n)
    BY DEF Asked, AskedOf, AskingOf
<1>4. Len(sent) \in Nat /\ DOMAIN sent = 1 .. Len(sent) /\ sent \in Seq(Seq(Byte))
    BY <1>1 DEF LineTyped
<1>5. Len(replies) <= Asked(Len(sent))
    BY <1>1, <1>2, <1>3, AtMostAsked
<1>6. \A i \in DOMAIN sent :
          Asking(sent[i]) /\ Asked(i) <= Len(replies) => Answers(replies[Asked(i)], sent[i])
    BY <1>1, <1>3, <1>4 DEF Answered
<1>7. ASSUME Quiet PROVE Len(replies) = Asked(Len(sent))
    <2>1. pc = "marker" /\ Line = <<>>
        BY <1>7 DEF Quiet, Line
    <2>2. PICK k : Between(e, k)
        BY <1>2, <2>1 DEF Place
    <2>3. Ends(e, Line, sent)
        BY <1>2 DEF Place
    <2>4. Len(Line) = 0
        BY <2>1
    <2>5. k \in 0 .. Len(sent) /\ Len(replies) = AskedOf(sent, k)
        BY <2>2 DEF Between
    <2>6. e[k] = 0
        <3>1. e[k] \in Int /\ e[k] <= 0
            BY <2>3, <2>4, <2>5 DEF Ends
        <3> QED
            BY <2>2, <3>1 DEF Between
    <2>7. CASE k < Len(sent)
        <3>1. PICK i \in 1 .. Len(sent) : i = k + 1
            BY <1>4, <2>5, <2>7
        <3>2. /\ e[i] \in Int /\ e[i] = e[i - 1] + Len(sent[i]) /\ e[i] <= Len(Line)
              /\ Len(sent[i]) \in Nat /\ sent[i] \in Seq(Byte)
            BY <1>1, <2>3, EndsAt
        <3>3. sent[i] # <<>>
            BY <1>1 DEF SentPlain
        <3>4. Len(sent[i]) >= 1
            BY <3>2, <3>3
        <3>5. i - 1 = k
            BY <1>4, <2>5, <3>1
        <3> QED
            BY <2>4, <2>6, <3>2, <3>4, <3>5
    <2>8. k = Len(sent) \/ k < Len(sent)
        <3> DEFINE n == Len(sent)
        <3>1. n \in Nat /\ k \in 0 .. n
            BY <1>4, <2>5
        <3> HIDE DEF n
        <3>2. k = n \/ k < n
            BY <3>1
        <3> QED
            BY <3>2 DEF n
    <2> QED
        BY <1>3, <2>5, <2>7, <2>8
<1> QED
    BY <1>5, <1>6, <1>7

(* A host that does not pause, whatever frames it sends, gets one reply    *)
(* to each, in order and of the right kind: if its frames are no longer    *)
(* than they say and only frames hold markers, and a checksum is 16 bits.  *)
THEOREM OneReplyEachAlways ==
    ASSUME PlainHost, CrcIsWord
    PROVE  Spec => []OneReplyEach
<1>1. Sound /\ [Next]_vars => Sound'
    BY SoundStep
<1> QED
    BY SoundInit, SoundReplies, <1>1, PTL DEF Spec

-----------------------------------------------------------------------------
(* Commands obeyed *)

LEMMA SubSub ==
    ASSUME NEW f \in Seq(Byte), NEW u \in Nat, u <= Len(f), NEW a \in 1 .. Len(f), NEW b \in 1 .. u
    PROVE  SubSeq(SubSeq(f, 1, u), a, b) = SubSeq(f, a, b)
<1> DEFINE g == SubSeq(f, 1, u)
           x == SubSeq(g, a, b)
           y == SubSeq(f, a, b)
<1>1. g \in Seq(Byte) /\ Len(g) = u /\ \A j \in 1 .. u : g[j] = f[j]
    OBVIOUS
<1>2. Len(f) \in Nat /\ a \in Nat /\ a >= 1 /\ b \in Nat /\ b <= u
    OBVIOUS
<1> HIDE DEF g
<1>3. x \in Seq(Byte) /\ y \in Seq(Byte)
    BY <1>1, <1>2
<1>4. Len(x) = Len(y)
    BY <1>1, <1>2
<1>5. \A j \in 1 .. Len(x) : x[j] = y[j]
    BY <1>1, <1>2
<1> HIDE DEF x, y
<1>6. x = y
    BY <1>3, <1>4, <1>5, SameSequence
<1> QED
    BY <1>6 DEF x, y, g

(* The frame get_block acts on is one the host sent.                       *)
LEMMA ActedOn ==
    ASSUME NothingNested, CrcIsWord, LineTyped, FrameTyped, SentPlain, Alone,
           NEW e, Place(e), ReadCrcHigh, Crc(LoHi(len) \o body) = crc + 256 * Got,
           SizeAllowed(Head(body), Len(Tail(body))), Head(body) \in Commands
    PROVE  \E i \in 1 .. Len(sent) : /\ Intact(sent[i])
                                     /\ Command(sent[i]) = Head(body)
                                     /\ Arguments(sent[i]) = Tail(body)
<1>1. pc = "crc_hi" /\ Ends(e, Line, sent)
    BY DEF ReadCrcHigh, Read, Place
<1>2. PICK k, q, p : Within(e, k, q, p)
    BY <1>1 DEF Place
<1>3. PICK n, read : n = len /\ read = body
    OBVIOUS
<1>4. k \in 1 .. Len(sent) /\ q \in Nat /\ n \in 1 .. MaxPayload /\ q + (5 + n) <= Len(sent[k])
    BY <1>1, <1>2, <1>3, CrcRead
<1>5. PICK t : /\ t = SubSeq(sent[k], q + 1, q + (5 + n))
               /\ FrameOf(t, n, read)
               /\ t[4 + n] = crc /\ t[5 + n] = Got
               /\ ~slow => t = sent[k]
    BY <1>1, <1>2, <1>3, CrcRead
<1>6. Crc(LoHi(n) \o read) = t[4 + n] + 256 * t[5 + n]
    BY <1>3, <1>5
<1>7. /\ Command(t) = Head(read) /\ Arguments(t) = Tail(read)
      /\ Intact(t) <=> /\ Crc(LoHi(n) \o read) = t[4 + n] + 256 * t[5 + n]
                       /\ SizeAllowed(Head(read), Len(Tail(read)))
                       /\ Head(read) \in Commands
    <2>1. n \in 1 .. MaxPayload /\ FrameOf(t, n, read)
        BY <1>4, <1>5
    <2> QED
        BY <2>1, IntactIs, Zenon
<1>8. Intact(t) /\ Command(t) = Head(body) /\ Arguments(t) = Tail(body)
    BY <1>3, <1>6, <1>7
<1>9. t = sent[k]
    <2>1. CASE ~slow
        BY <1>5, <2>1
    <2>2. CASE slow
        <3>0. PICK f \in SlowFrames : \E upto \in 1 .. Len(f) : sent[1] = SubSeq(f, 1, upto)
            BY <2>2 DEF Alone
        <3>1. PICK upto \in 1 .. Len(f) : Len(sent) = 1 /\ sent[1] = SubSeq(f, 1, upto)
            BY <2>2, <3>0 DEF Alone
        <3>2. k = 1
            BY <1>4, <3>1
        <3>3. f \in Seq(Byte) /\ Len(f) \in Nat /\ upto \in Nat
            BY FramesAssumption
        <3>4. PICK a, b : a = q + 1 /\ b = q + (5 + n)
            OBVIOUS
        <3>5. /\ SubSeq(f, 1, upto) \in Seq(Byte) /\ Len(SubSeq(f, 1, upto)) = upto
            BY <3>3
        <3>6. n \in Nat /\ b <= upto
            <4>1. n \in Nat
                BY <1>4, SizesAssumption
            <4> QED
                BY <1>4, <3>1, <3>2, <3>4, <3>5, <4>1
        <3>7. a \in 1 .. Len(f) /\ b \in 1 .. Len(f) /\ a <= b
            BY <1>4, <3>3, <3>4, <3>6
        <3>8. t = SubSeq(SubSeq(f, 1, upto), a, b)
            BY <1>5, <3>1, <3>2, <3>4
        <3>9. SubSeq(SubSeq(f, 1, upto), a, b) = SubSeq(f, a, b)
            BY <3>3, <3>6, <3>7, SubSub
        <3>10. a = 1 /\ b = Len(f)
            BY <1>8, <3>7, <3>8, <3>9 DEF NothingNested
        <3>11. upto = Len(f)
            BY <3>3, <3>6, <3>10
        <3>12. SubSeq(f, 1, Len(f)) = f
            BY <3>3
        <3> QED
            BY <3>1, <3>2, <3>8, <3>9, <3>10, <3>11, <3>12
    <2> QED
        BY <2>1, <2>2
<1> QED
    BY <1>4, <1>8, <1>9

LEMMA OnlyIntactStep ==
    ASSUME NothingNested, CrcIsWord, Sound, [Next]_vars
    PROVE  /\ motor' # motor =>
                  \E i \in DOMAIN sent : /\ Intact(sent[i])
                                         /\ Command(sent[i]) = SET_MOTOR_LEVEL
                                         /\ motor' = Arguments(sent[i])
           /\ log # <<>> /\ log' = <<>> =>
                  \E i \in DOMAIN sent : Intact(sent[i]) /\ Command(sent[i]) = GET_LOG
<1>1. LineTyped /\ FrameTyped /\ DeviceTyped /\ SentPlain /\ Alone
    BY DEF Sound, Typed
<1>2. PICK e : Place(e)
    BY DEF Sound
<1>3. DOMAIN sent = 1 .. Len(sent)
    BY <1>1 DEF LineTyped
<1>4. ASSUME ReadCrcHigh, ~Reject
      PROVE  /\ HandlePacket(Head(body), Tail(body))
             /\ Crc(LoHi(len) \o body) = crc + 256 * Got
    BY <1>4 DEF ReadCrcHigh
<1>5. ASSUME ReadCrcHigh, ~Reject, Head(body) \in Commands
      PROVE  \E i \in 1 .. Len(sent) : /\ Intact(sent[i])
                                       /\ Command(sent[i]) = Head(body)
                                       /\ Arguments(sent[i]) = Tail(body)
    <2>1. SizeAllowed(Head(body), Len(Tail(body)))
        BY <1>4, <1>5 DEF HandlePacket
    <2> QED
        BY <1>1, <1>2, <1>4, <1>5, <2>1, ActedOn
<1>6. CASE ReadCrcHigh /\ ~Reject
    <2>1. HandlePacket(Head(body), Tail(body))
        BY <1>4, <1>6
    <2>2. CASE Head(body) = GET_LOG /\ GetLog
        <3>1. motor' = motor /\ Head(body) \in Commands
            BY <2>2 DEF GetLog, Commands
        <3> QED
            BY <1>3, <1>5, <1>6, <2>2, <3>1
    <2>3. CASE Head(body) = SET_MOTOR_LEVEL /\ SetMotorLevel(Tail(body))
        <3>1. motor' = Tail(body) /\ log' = log /\ Head(body) \in Commands
            BY <2>3 DEF SetMotorLevel, Commands
        <3> QED
            BY <1>3, <1>5, <1>6, <2>3, <3>1
    <2>4. CASE GetState
        BY <2>4 DEF GetState
    <2>5. CASE UNCHANGED device
        BY <2>5 DEF device
    <2> QED
        BY <1>6, <2>1, <2>2, <2>3, <2>4, <2>5 DEF HandlePacket
<1>7. CASE UNCHANGED <<motor, log>>
    BY <1>7
<1>8. CASE LogLine
    <2>1. motor' = motor /\ log = <<>>
        BY <1>8 DEF LogLine
    <2> QED
        BY <2>1
<1>9. \/ ReadCrcHigh /\ ~Reject
      \/ UNCHANGED <<motor, log>>
      \/ LogLine
    <2>1. CASE GetBlock /\ ~ReadCrcHigh
        BY <2>1 DEF GetBlock, ReadMarker, ReadLengthLow, ReadLengthHigh, Discard, ReadBody,
                    ReadCrcLow, Timeout, Reject, device
    <2>2. CASE ReadCrcHigh
        BY <2>2 DEF Reject, device
    <2>3. ASSUME NEW f \in Frames, NEW upto \in 1 .. Len(f), SendFirst(f, upto) \/ SendFrame(f, upto)
          PROVE  UNCHANGED <<motor, log>>
        BY <2>3 DEF SendFirst, SendFrame, device
    <2>4. CASE SendByte \/ UNCHANGED vars
        BY <2>4 DEF SendByte, vars, device
    <2> QED
        BY <2>1, <2>2, <2>3, <2>4 DEF Next
<1> QED
    BY <1>6, <1>7, <1>8, <1>9

(* Whatever the host sends, and wherever it pauses, the motors change and  *)
(* the log is drained only for an intact frame it sent that asks for it:   *)
(* if, besides, no frame that may be interrupted holds another intact one. *)
THEOREM OnlyIntactFramesActAlways ==
    ASSUME PlainHost, NothingNested, CrcIsWord
    PROVE  Spec => OnlyIntactFramesAct
<1>1. Sound /\ [Next]_vars => Sound'
    BY SoundStep
<1>2. Sound /\ [Next]_vars =>
          [ /\ motor' # motor =>
                  \E i \in DOMAIN sent : /\ Intact(sent[i])
                                         /\ Command(sent[i]) = SET_MOTOR_LEVEL
                                         /\ motor' = Arguments(sent[i])
            /\ log # <<>> /\ log' = <<>> =>
                  \E i \in DOMAIN sent : Intact(sent[i]) /\ Command(sent[i]) = GET_LOG ]_vars
    BY OnlyIntactStep
<1> QED
    BY SoundInit, <1>1, <1>2, PTL DEF Spec, OnlyIntactFramesAct
=============================================================================
