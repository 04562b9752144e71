----------------------------- MODULE LogBuffer -----------------------------
(***************************************************************************)
(* The log ring of rp2040_log.c and the GET_LOG reply of                   *)
(* serial_comm_manager.c that drains it.  Both cores call rp2040_log;      *)
(* core 0 alone answers GET_LOG.  Every access is under one blocking       *)
(* mutex.  A message stands for its formatted text; only its length        *)
(* matters.  Messages below LOG_LEVEL return at once and are not modelled. *)
(***************************************************************************)
EXTENDS Integers, Sequences

CONSTANTS
    Cores,          \* the two cores of the RP2040
    Core0,          \* the core that runs get_block
    NoCore,         \* the mutex is free
    Messages,       \* what can be logged
    NoMessage,      \* an array slot never written, a core with nothing to log
    Formatted,      \* characters of each message once formatted
    LineCount,      \* LOG_BUFFER_LINE_COUNT
    CharLimit,      \* LOG_BUFFER_CHAR_LIMIT
    Word            \* the range of a uint16_t, 2^16 in the build

ASSUME CoresAssumption ==
    /\ Core0 \in Cores
    /\ NoCore \notin Cores
ASSUME MessagesAssumption ==
    /\ NoMessage \notin Messages
    /\ Formatted \in [Messages -> Nat]
ASSUME NoMessageAssumption == NoMessage \notin Messages \X Nat
ASSUME SizesAssumption ==
    /\ LineCount \in Nat \ {0}
    /\ CharLimit \in Nat \ {0}
    /\ Word \in Nat
    /\ CharLimit + 1 <= Word        \* one truncated line fits in a packet

VARIABLES
    log_array,      \* slot -> the message written there
    line_size,      \* slot -> its size, terminating NUL included
    count,
    byte_count,
    head,
    tail,
    mutex,          \* owner of rp2040_log_buffer_mutex
    pc,             \* where each core is
    message,        \* the message each core is logging
    tx              \* send_log_packet's locals and the lines it has put on the wire

ring == <<log_array, line_size, count, byte_count, head, tail>>
vars == <<ring, mutex, pc, message, tx>>

Slots == 0 .. LineCount - 1

(* Most payload bytes kept: UINT16_MAX - 1. *)
ByteCap == Word - 2

Smaller(a, b) == IF a <= b THEN a ELSE b

(* The size of a message's line: text and NUL, cut at the slot's width. *)
SizeOf(m) == Smaller(Formatted[m] + 1, CharLimit)

Payload(size) == IF size > 0 THEN size - 1 ELSE 0

NextSlot(s) == (s + 1) % LineCount

(* The slot of the i-th oldest live line. *)
LiveSlot(i) == (head + i - 1) % LineCount

(* What the host reads of a slot: the message and the characters kept. *)
Line(s) == <<log_array[s], Payload(line_size[s])>>

Live == [i \in 1 .. count |-> Line(LiveSlot(i))]

NoTx == [len |-> 0, crc |-> <<>>, index |-> 0, lines |-> <<>>]

Init ==
    /\ log_array = [s \in Slots |-> NoMessage]
    /\ line_size = [s \in Slots |-> 0]
    /\ count = 0
    /\ byte_count = 0
    /\ head = 0
    /\ tail = 0
    /\ mutex = NoCore
    /\ pc = [c \in Cores |-> "idle"]
    /\ message = [c \in Cores |-> NoMessage]
    /\ tx = NoTx

Goto(c, from, to) ==
    /\ pc[c] = from
    /\ pc' = [pc EXCEPT ![c] = to]

(* Mutant: the mutex is taken whoever owns it. *)
AcquireAnyway(c, from, to) ==
    /\ Goto(c, from, to)
    /\ mutex' = c

Acquire(c, from, to) ==
    /\ Goto(c, from, to)
    /\ mutex = NoCore
    /\ mutex' = c

Release(c, from) ==
    /\ Goto(c, from, "idle")
    /\ mutex' = NoCore

-----------------------------------------------------------------------------
(* rp2040_log *)

LogCall(c, m) ==
    /\ Goto(c, "idle", "log_lock")
    /\ message' = [message EXCEPT ![c] = m]
    /\ UNCHANGED <<ring, mutex, tx>>

LogLock(c) ==
    /\ Acquire(c, "log_lock", "make_room")
    /\ UNCHANGED <<ring, message, tx>>

(* Mutants: the byte limit is off by one; it reserves a whole slot for the *)
(* line; it reserves a slot more than the line.                            *)
RoomUpToWord(payload) ==
    /\ count # LineCount
    /\ byte_count + payload <= Word - 1

RoomForSlot(payload) ==
    /\ count # LineCount
    /\ byte_count + CharLimit <= ByteCap

RoomForMore(payload) ==
    /\ count # LineCount
    /\ byte_count + payload + CharLimit <= ByteCap

(* The condition on which rp2040_log_make_room stops dropping lines; the   *)
(* sum is taken in 32 bits.                                                *)
RoomFor(payload) ==
    /\ count # LineCount
    /\ byte_count + payload <= ByteCap

(* Mutant: the NUL of a dropped line is counted. *)
DropOldestWithNul(c) ==
    /\ pc[c] = "make_room"
    /\ ~RoomFor(Payload(SizeOf(message[c])))
    /\ count # 0
    /\ LET size == line_size[head]
       IN  byte_count' = IF size > byte_count THEN 0 ELSE byte_count - size
    /\ line_size' = [line_size EXCEPT ![head] = 0]
    /\ head' = NextSlot(head)
    /\ count' = count - 1
    /\ tail' = IF count' = 0 THEN head' ELSE tail
    /\ UNCHANGED <<log_array, mutex, pc, message, tx>>

(* rp2040_log_drop_oldest *)
DropOldest(c) ==
    /\ pc[c] = "make_room"
    /\ ~RoomFor(Payload(SizeOf(message[c])))
    /\ count # 0
    /\ LET payload == Payload(line_size[head])
       IN  byte_count' = IF payload > byte_count THEN 0 ELSE byte_count - payload
    /\ line_size' = [line_size EXCEPT ![head] = 0]
    /\ head' = NextSlot(head)
    /\ count' = count - 1
    /\ tail' = IF count' = 0 THEN head' ELSE tail
    /\ UNCHANGED <<log_array, mutex, pc, message, tx>>

WriteLine(c) ==
    LET size == SizeOf(message[c])
    IN  /\ Goto(c, "make_room", "log_unlock")
        /\ RoomFor(Payload(size))
        /\ log_array' = [log_array EXCEPT ![tail] = message[c]]
        /\ line_size' = [line_size EXCEPT ![tail] = size]
        /\ byte_count' = (byte_count + Payload(size)) % Word
        /\ count' = count + 1
        /\ tail' = NextSlot(tail)
        /\ message' = [message EXCEPT ![c] = NoMessage]
        /\ UNCHANGED <<head, mutex, tx>>

LogUnlock(c) ==
    /\ Release(c, "log_unlock")
    /\ UNCHANGED <<ring, message, tx>>

-----------------------------------------------------------------------------
(* send_log_packet.  The CRC is represented by what it covers: the         *)
(* announced length and, here, the lines rp2040_get_crc walks.             *)

SendCall ==
    /\ Goto(Core0, "idle", "send_lock")
    /\ UNCHANGED <<ring, mutex, message, tx>>

(* Mutant: the length is taken before the mutex. *)
SendLockLate ==
    /\ Goto(Core0, "send_lock", "length")
    /\ UNCHANGED <<ring, mutex, message, tx>>

SendLock ==
    /\ Acquire(Core0, "send_lock", "length")
    /\ UNCHANGED <<ring, message, tx>>

SendLength ==
    /\ Goto(Core0, "length", "crc")
    /\ tx' = [tx EXCEPT !.len = (byte_count + 1) % Word]
    /\ UNCHANGED <<ring, mutex, message>>

(* Mutant: the mutex is given back before the lines are printed. *)
SendHeaderUnlocked ==
    /\ Goto(Core0, "crc", IF count = 0 THEN "trailer" ELSE "flush")
    /\ tx' = [tx EXCEPT !.crc = Live, !.index = head]
    /\ mutex' = NoCore
    /\ UNCHANGED <<ring, message>>

(* Computes the CRC, puts the header on the wire and enters                *)
(* rp2040_log_flush, which returns at once when there is nothing to print. *)
SendHeader ==
    /\ Goto(Core0, "crc", IF count = 0 THEN "trailer" ELSE "flush")
    /\ tx' = [tx EXCEPT !.crc = Live, !.index = head]
    /\ UNCHANGED <<ring, mutex, message>>

FlushLine ==
    /\ pc[Core0] = "flush"
    /\ Len(tx.lines) < count
    /\ tx' = [tx EXCEPT !.lines = Append(@, Line(tx.index)),
                        !.index = NextSlot(@)]
    /\ UNCHANGED <<ring, mutex, pc, message>>

(* Mutant: the write position is not reset. *)
FlushResetHeadOnly ==
    /\ Goto(Core0, "flush", "trailer")
    /\ Len(tx.lines) = count
    /\ head' = 0
    /\ count' = 0
    /\ byte_count' = 0
    /\ UNCHANGED <<log_array, line_size, tail, mutex, message, tx>>

FlushReset ==
    /\ Goto(Core0, "flush", "trailer")
    /\ Len(tx.lines) = count
    /\ head' = 0
    /\ tail' = 0
    /\ count' = 0
    /\ byte_count' = 0
    /\ UNCHANGED <<log_array, line_size, mutex, message, tx>>

SendTrailer ==
    /\ Goto(Core0, "trailer", "sent")
    /\ UNCHANGED <<ring, mutex, message, tx>>

SendUnlock ==
    /\ Release(Core0, "sent")
    /\ tx' = NoTx
    /\ UNCHANGED <<ring, message>>

-----------------------------------------------------------------------------
LogStep(c) == LogLock(c) \/ DropOldest(c) \/ WriteLine(c) \/ LogUnlock(c)

SendStep ==
    \/ SendLock \/ SendLength \/ SendHeader \/ FlushLine
    \/ FlushReset \/ SendTrailer \/ SendUnlock

Next ==
    \/ \E c \in Cores : LogStep(c) \/ (\E m \in Messages : LogCall(c, m))
    \/ SendCall
    \/ SendStep

(* A core inside a call keeps running; nothing makes it start one.         *)
Fairness ==
    /\ \A c \in Cores : WF_vars(LogStep(c))
    /\ WF_vars(SendStep)

Spec == Init /\ [][Next]_vars
FairSpec == Spec /\ Fairness

-----------------------------------------------------------------------------
LogPoints == {"make_room", "log_unlock"}
SendPoints == {"length", "crc", "flush", "trailer", "sent"}
Points == LogPoints \cup SendPoints \cup {"idle", "log_lock", "send_lock"}

Lines == (Messages \cup {NoMessage}) \X (0 .. CharLimit)

(* The ring implements the bounded log of AbstractLog.  Lines leave the    *)
(* abstract log when the reply is complete, as a whole.                    *)
Log == INSTANCE AbstractLog WITH
    Entries <- {<<m, Payload(SizeOf(m))>> : m \in Messages},
    NoEntry <- NoMessage,
    LineCap <- LineCount,
    CharCap <- ByteCap,
    lines   <- IF pc[Core0] = "trailer" THEN tx.lines ELSE Live,
    pending <- [c \in Cores |-> IF message[c] = NoMessage THEN NoMessage
                                ELSE <<message[c], Payload(SizeOf(message[c]))>>],
    reply   <- IF pc[Core0] = "sent" THEN tx.lines ELSE <<>>

(* Every variable keeps the range its C type and its users give it; in     *)
(* particular indexes stay inside the array.                               *)
TypeOK ==
    /\ log_array \in [Slots -> Messages \cup {NoMessage}]
    /\ line_size \in [Slots -> 0 .. CharLimit]
    /\ count \in 0 .. LineCount
    /\ byte_count \in 0 .. ByteCap
    /\ head \in Slots
    /\ tail \in Slots
    /\ mutex \in Cores \cup {NoCore}
    /\ pc \in [Cores -> Points]
    /\ message \in [Cores -> Messages \cup {NoMessage}]
    /\ tx \in [len : 0 .. Word - 1, crc : Seq(Lines), index : Slots, lines : Seq(Lines)]

(* The mutex of rp2040_log.c:22: a core is between acquiring and releasing *)
(* it exactly when it owns it, so two cores are never both there.          *)
MutualExclusion ==
    \A c \in Cores : pc[c] \in LogPoints \cup SendPoints <=> mutex = c

(* Through every wrap, drop and drain the live lines are the count slots  *)
(* from head up to tail.                                                   *)
RingShape == tail = (head + count) % LineCount

(* byte_count, which sizes the GET_LOG frame, is what the live lines hold: *)
(* no sequence of truncated, empty and dropped lines makes it drift.       *)
ByteCountExact == byte_count = Log!Chars(Live)

(* A GET_LOG reply sends as many bytes as the length it announced before   *)
(* printing the lines (serial_comm_manager.c:60, 74, 76).                  *)
LengthAnnounced ==
    pc[Core0] = "sent" => tx.len = 1 + Log!Chars(tx.lines)

(* A GET_LOG reply's checksum, computed in a walk of its own, covers the   *)
(* lines that rp2040_log_flush then prints (serial_comm_manager.c:69, 76). *)
ChecksumCoversLines ==
    pc[Core0] = "sent" => tx.crc = tx.lines

(* Whoever takes the log mutex gives it back: the loop of                  *)
(* rp2040_log_make_room ends, whatever the ring holds.                     *)
MutexReleased == \A c \in Cores : mutex = c ~> mutex # c

(* Every behaviour of the ring is one of the bounded log: a line is lost   *)
(* only to make room for one that does not fit, oldest first, and a        *)
(* GET_LOG reply is one moment's whole log.                                *)
ImplementsAbstractLog == Log!Spec
=============================================================================
