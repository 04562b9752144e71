-------------------------- MODULE LogBuffer_proofs --------------------------
(***************************************************************************)
(* Theorems about LogBuffer for every number of slots, line width, counter *)
(* width and set of messages.  Layers, each used by the next: the types,   *)
(* the mutex, the shape of the ring, the reply in progress.                *)
(***************************************************************************)
EXTENDS LogBuffer, WellFoundedInduction, TLAPS

-----------------------------------------------------------------------------
(* Induction over the natural numbers *)

Below == OpToRel(<, Nat)

(* A set of natural numbers has a least element. *)
LEMMA Least ==
    ASSUME NEW S, S \subseteq Nat, S # {}
    PROVE  \E n \in S : \A m \in S : n <= m
<1>1. IsWellFoundedOn(Below, Nat)
  BY NatLessThanWellFounded DEF Below
<1>2. \A x, y \in Nat : y < x => <<y, x>> \in Below
  BY DEF OpToRel, Below
<1>3. PICK x \in S : \A y \in S : ~ (<<y, x>> \in Below)
  BY <1>1, WFMin
<1>4. x \in Nat /\ \A y \in S : y \in Nat
  OBVIOUS
<1>5. \A y \in S : ~(y < x)
  BY <1>2, <1>3, <1>4
<1>6. QED
  BY <1>4, <1>5

(* Induction, with a set in the place of a predicate. *)
LEMMA Induction ==
    ASSUME NEW S, 0 \in S, \A n \in Nat : n \in S => n + 1 \in S
    PROVE  \A n \in Nat : n \in S
<1>1. SUFFICES ASSUME Nat \ S # {} PROVE FALSE
  OBVIOUS
<1>2. PICK n \in Nat \ S : \A m \in Nat \ S : n <= m
  BY <1>1, Least
<1>3. n - 1 \in Nat /\ n - 1 \notin Nat \ S
  BY <1>2
<1>4. QED
  BY <1>2, <1>3

-----------------------------------------------------------------------------
(* Sequences are equal if they are as long and their elements are equal.   *)
LEMMA SameSequence ==
    ASSUME NEW S, NEW s \in Seq(S), NEW t \in Seq(S), Len(s) = Len(t),
           \A i \in 1 .. Len(s) : s[i] = t[i]
    PROVE  s = t
OBVIOUS

LEMMA TailElements ==
    ASSUME NEW S, NEW s \in Seq(S), s # <<>>
    PROVE  /\ Tail(s) \in Seq(S) /\ Len(Tail(s)) = Len(s) - 1
           /\ \A i \in 1 .. Len(s) - 1 : Tail(s)[i] = s[i + 1]
OBVIOUS

LEMMA AppendElements ==
    ASSUME NEW S, NEW s \in Seq(S), NEW e \in S
    PROVE  /\ Append(s, e) \in Seq(S) /\ Len(Append(s, e)) = Len(s) + 1
           /\ \A i \in 1 .. Len(s) : Append(s, e)[i] = s[i]
           /\ Append(s, e)[Len(s) + 1] = e
OBVIOUS

-----------------------------------------------------------------------------
(* f holds the sums of w's first elements. *)
Sums(f, w, n) == f = [i \in 0 .. n |-> IF i = 0 THEN 0 ELSE f[i - 1] + w[i]]

LEMMA SumsExist ==
    ASSUME NEW w, NEW n \in Nat
    PROVE  \E f : Sums(f, w, n)
<1> DEFINE S == {k \in Nat : \E f : Sums(f, w, k)}
<1>1. 0 \in S
  <2> DEFINE g == [i \in 0 .. 0 |-> 0]
  <2>1. Sums(g, w, 0)
    BY DEF Sums
  <2>2. QED
    BY <2>1
<1>2. ASSUME NEW k \in Nat, k \in S PROVE k + 1 \in S
  <2>1. PICK f : Sums(f, w, k)
    BY <1>2
  <2> DEFINE g == [i \in 0 .. k + 1 |-> IF i <= k THEN f[i] ELSE f[k] + w[k + 1]]
  <2>2. \A i \in 0 .. k + 1 : g[i] = IF i = 0 THEN 0 ELSE g[i - 1] + w[i]
    <3>1. \A i \in 0 .. k : f[i] = IF i = 0 THEN 0 ELSE f[i - 1] + w[i]
      BY <2>1 DEF Sums
    <3>2. \A i \in 0 .. k + 1 : i <= k \/ i = k + 1
      BY <1>2
    <3>3. QED
      BY <1>2, <3>1, <3>2
  <2>3. g = [i \in 0 .. k + 1 |-> IF i = 0 THEN 0 ELSE g[i - 1] + w[i]]
    BY <2>2
  <2>4. Sums(g, w, k + 1)
    BY <2>3 DEF Sums
  <2>5. QED
    BY <1>2, <2>4
<1> HIDE DEF S
<1>3. n \in S
  BY <1>1, <1>2, Induction
<1>4. QED
  BY <1>3 DEF S

(* Sums are natural numbers if what is summed is. *)
LEMMA SumsNat ==
    ASSUME NEW n \in Nat, NEW w, NEW f, Sums(f, w, n), \A i \in 1 .. n : w[i] \in Nat
    PROVE  \A i \in 0 .. n : f[i] \in Nat
<1> DEFINE S == {k \in Nat : k <= n => f[k] \in Nat}
<1>0. \A i \in 0 .. n : f[i] = IF i = 0 THEN 0 ELSE f[i - 1] + w[i]
  BY DEF Sums
<1>1. 0 \in S
  BY <1>0
<1>2. ASSUME NEW k \in Nat, k \in S PROVE k + 1 \in S
  <2>1. SUFFICES ASSUME k + 1 <= n PROVE f[k + 1] \in Nat
    OBVIOUS
  <2>2. f[k + 1] = f[k] + w[k + 1]
    BY <1>0, <1>2, <2>1
  <2>3. QED
    BY <1>2, <2>1, <2>2
<1> HIDE DEF S
<1>3. \A k \in Nat : k \in S
  BY <1>1, <1>2, Induction
<1>4. QED
  BY <1>3 DEF S

(* Sums of the same elements are the same. *)
LEMMA SumsAgree ==
    ASSUME NEW m \in Nat, NEW n \in Nat, NEW w, NEW v, NEW f, NEW g,
           Sums(f, w, m), Sums(g, v, n), m <= n, \A i \in 1 .. m : w[i] = v[i]
    PROVE  \A i \in 0 .. m : f[i] = g[i]
<1> DEFINE S == {k \in Nat : k <= m => f[k] = g[k]}
<1>0. /\ \A i \in 0 .. m : f[i] = IF i = 0 THEN 0 ELSE f[i - 1] + w[i]
      /\ \A i \in 0 .. n : g[i] = IF i = 0 THEN 0 ELSE g[i - 1] + v[i]
  BY DEF Sums
<1>1. 0 \in S
  BY <1>0
<1>2. ASSUME NEW k \in Nat, k \in S PROVE k + 1 \in S
  <2>1. SUFFICES ASSUME k + 1 <= m PROVE f[k + 1] = g[k + 1]
    OBVIOUS
  <2>2. f[k + 1] = f[k] + w[k + 1] /\ g[k + 1] = g[k] + v[k + 1]
    BY <1>0, <1>2, <2>1
  <2>3. QED
    BY <1>2, <2>1, <2>2
<1> HIDE DEF S
<1>3. \A k \in Nat : k \in S
  BY <1>1, <1>2, Induction
<1>4. QED
  BY <1>3 DEF S

(* Without the first element, sums are less by it. *)
LEMMA SumsShift ==
    ASSUME NEW n \in Nat, NEW w, NEW v, NEW f, NEW g,
           Sums(f, w, n + 1), Sums(g, v, n),
           \A i \in 1 .. n + 1 : w[i] \in Nat,
           \A i \in 1 .. n : v[i] = w[i + 1]
    PROVE  f[n + 1] = w[1] + g[n]
<1> DEFINE S == {k \in Nat : k <= n => f[k + 1] = w[1] + g[k]}
<1>0. /\ \A i \in 0 .. n + 1 : f[i] = IF i = 0 THEN 0 ELSE f[i - 1] + w[i]
      /\ \A i \in 0 .. n : g[i] = IF i = 0 THEN 0 ELSE g[i - 1] + v[i]
  BY DEF Sums
<1>1. 0 \in S
  BY <1>0
<1>2. ASSUME NEW k \in Nat, k \in S PROVE k + 1 \in S
  <2>1. SUFFICES ASSUME k + 1 <= n PROVE f[k + 1 + 1] = w[1] + g[k + 1]
    OBVIOUS
  <2>2. f[k + 2] = f[k + 1] + w[k + 2] /\ g[k + 1] = g[k] + v[k + 1]
    BY <1>0, <1>2, <2>1
  <2>3. v[k + 1] = w[k + 2]
    BY <1>2, <2>1
  <2>4. \A i \in 1 .. n : v[i] \in Nat
    OBVIOUS
  <2>5. g[k] \in Nat
    BY <1>2, <2>1, <2>4, SumsNat
  <2>6. w[1] \in Nat /\ w[k + 2] \in Nat
    BY <1>2, <2>1
  <2>7. QED
    BY <1>2, <2>1, <2>2, <2>3, <2>5, <2>6
<1> HIDE DEF S
<1>3. \A k \in Nat : k \in S
  BY <1>1, <1>2, Induction
<1>4. QED
  BY <1>3 DEF S

-----------------------------------------------------------------------------

USE CoresAssumption, MessagesAssumption, SizesAssumption

-----------------------------------------------------------------------------
(* Sizes and slots *)

LEMMA ByteCapNat == ByteCap \in Nat /\ ByteCap < Word
BY SMT DEF ByteCap

(* A stored line has at most CharLimit characters, its NUL included, and   *)
(* its payload alone always fits in an empty log.                          *)
LEMMA SizeOfRange ==
    ASSUME NEW m \in Messages
    PROVE  /\ SizeOf(m) \in 1 .. CharLimit
           /\ Payload(SizeOf(m)) \in 0 .. ByteCap
<1>1. Formatted[m] \in Nat
  OBVIOUS
<1>2. QED
  BY <1>1, SMT DEF SizeOf, Smaller, Payload, ByteCap

LEMMA PayloadRange ==
    ASSUME NEW size \in 0 .. CharLimit
    PROVE  Payload(size) \in 0 .. CharLimit
BY SMT DEF Payload

(* A sum within the cap is stored unchanged in a uint16_t. *)
LEMMA CappedSum ==
    ASSUME NEW a \in 0 .. ByteCap, NEW b \in 0 .. ByteCap,
           a + b <= ByteCap
    PROVE  /\ a + b \in 0 .. ByteCap
           /\ (a + b) % Word = a + b
<1>1. /\ a \in Int
      /\ b \in Int
      /\ 0 <= a + b
      /\ a + b < Word
  BY SMT DEF ByteCap
<1>2. QED
  BY <1>1, SMT DEF ByteCap

(* Slots stay in the array. *)
LEMMA SlotRange ==
    ASSUME NEW n \in Nat
    PROVE  n % LineCount \in Slots
BY SMT DEF Slots

LEMMA SlotIsItself ==
    ASSUME NEW s \in Slots
    PROVE  s % LineCount = s
BY SMT DEF Slots

LEMMA NextSlotRange ==
    ASSUME NEW s \in Slots
    PROVE  NextSlot(s) \in Slots
BY SMT DEF Slots, NextSlot

(* Moving the head one slot on and dropping one line leaves the tail where *)
(* it was; writing one line moves it one slot on.                          *)
LEMMA DropKeepsTail ==
    ASSUME NEW h \in Slots, NEW k \in 1 .. LineCount
    PROVE  (NextSlot(h) + (k - 1)) % LineCount = (h + k) % LineCount
<1>1. CASE h = LineCount - 1
  BY <1>1, SMT DEF Slots, NextSlot
<1>2. CASE h # LineCount - 1
  <2>1. NextSlot(h) = h + 1
    BY <1>2, SMT DEF Slots, NextSlot
  <2>2. QED
    BY <2>1, SMT DEF Slots
<1>3. QED
  BY <1>1, <1>2

LEMMA WriteMovesTail ==
    ASSUME NEW h \in Slots, NEW k \in 0 .. LineCount - 1
    PROVE  NextSlot((h + k) % LineCount) = (h + k + 1) % LineCount
<1>1. CASE h + k < LineCount
  <2>1. (h + k) % LineCount = h + k
    BY <1>1, SMT DEF Slots
  <2>2. QED
    BY <2>1 DEF NextSlot
<1>2. CASE h + k >= LineCount
  <2>1. (h + k) % LineCount = h + k - LineCount
    BY <1>2, SMT DEF Slots
  <2>2. (h + k + 1) % LineCount = h + k + 1 - LineCount
    BY <1>2, SMT DEF Slots
  <2>3. (h + k - LineCount + 1) % LineCount = h + k - LineCount + 1
    BY <1>2, SMT DEF Slots
  <2>4. QED
    BY <2>1, <2>2, <2>3, SMT DEF NextSlot, Slots
<1>3. QED
  BY <1>1, <1>2, SMT DEF Slots

-----------------------------------------------------------------------------
(* Types *)

(* A core has a message in hand from its call until it is stored. *)
Holding(c) == pc[c] \in {"log_lock", "make_room"} => message[c] \in Messages

Typed == TypeOK /\ \A c \in Cores : Holding(c)

(* The lines of the live ring, as the checksum walk and the printing read  *)
(* them, are lines.                                                        *)
LEMMA LiveIsLines ==
    ASSUME TypeOK
    PROVE  /\ Live \in Seq(Lines)
           /\ Len(Live) = count
           /\ \A s \in Slots : Line(s) \in Lines
<1>1. \A s \in Slots : Line(s) \in Lines
  BY PayloadRange DEF Line, Lines, TypeOK
<1>2. \A i \in 1 .. count : LiveSlot(i) \in Slots
  <2>1. ASSUME NEW i \in 1 .. count PROVE LiveSlot(i) \in Slots
    <3>1. head + i - 1 \in Nat
      BY SMT DEF TypeOK, Slots
    <3>2. QED
      BY <3>1, SlotRange DEF LiveSlot
  <2>2. QED
    BY <2>1
<1>3. Live \in [1 .. count -> Lines]
  BY <1>1, <1>2 DEF Live
<1>4. count \in Nat
  BY DEF TypeOK
<1>5. QED
  BY <1>1, <1>3, <1>4 DEF Live

LEMMA TypedInit == Init => Typed
<1>1. SUFFICES ASSUME Init PROVE Typed
  OBVIOUS
<1>2. 0 \in Slots /\ 0 \in 0 .. ByteCap /\ 0 \in 0 .. Word - 1
  BY SMT DEF Slots, ByteCap
<1>3. NoTx \in [len : 0 .. Word - 1, crc : Seq(Lines), index : Slots, lines : Seq(Lines)]
  BY <1>2 DEF NoTx
<1>4. QED
  BY <1>1, <1>2, <1>3 DEF Init, Typed, TypeOK, Holding, Points

LEMMA TypedStep == Typed /\ [Next]_vars => Typed'
<1> SUFFICES ASSUME Typed, [Next]_vars PROVE Typed'
  OBVIOUS
<1> USE DEF Typed, TypeOK, Holding, Goto, Acquire, Release, ring
<1>1. ASSUME NEW c \in Cores, NEW m \in Messages, LogCall(c, m) PROVE Typed'
  BY <1>1 DEF LogCall, Points
<1>2. ASSUME NEW c \in Cores, LogLock(c) PROVE Typed'
  BY <1>2 DEF LogLock, Points, LogPoints
<1>3. ASSUME NEW c \in Cores, DropOldest(c) PROVE Typed'
  <2>1. head' \in Slots
    BY <1>3, NextSlotRange DEF DropOldest
  <2>2. /\ count' \in 0 .. LineCount
        /\ tail' \in Slots
    BY <1>3, <2>1, SMT DEF DropOldest
  <2>3. byte_count' \in 0 .. ByteCap
    <3>1. Payload(line_size[head]) \in Nat
      BY PayloadRange, SMT DEF Payload
    <3>2. QED
      BY <1>3, <3>1, ByteCapNat, SMT DEF DropOldest
  <2>4. line_size' \in [Slots -> 0 .. CharLimit]
    BY <1>3 DEF DropOldest
  <2>5. QED
    BY <1>3, <2>1, <2>2, <2>3, <2>4 DEF DropOldest
<1>4. ASSUME NEW c \in Cores, WriteLine(c) PROVE Typed'
  <2>1. message[c] \in Messages
    BY <1>4 DEF WriteLine
  <2>2. /\ SizeOf(message[c]) \in 1 .. CharLimit
        /\ Payload(SizeOf(message[c])) \in 0 .. ByteCap
    BY <2>1, SizeOfRange
  <2>3. byte_count' \in 0 .. ByteCap
    <3> DEFINE payload == Payload(SizeOf(message[c]))
    <3>1. payload \in 0 .. ByteCap
      BY <2>2
    <3>2. /\ byte_count + payload <= ByteCap
          /\ byte_count' = (byte_count + payload) % Word
      BY <1>4 DEF WriteLine, RoomFor
    <3>3. byte_count \in 0 .. ByteCap
      OBVIOUS
    <3> HIDE DEF payload
    <3>4. QED
      BY <3>1, <3>2, <3>3, CappedSum
  <2>4. /\ count' \in 0 .. LineCount
        /\ tail' \in Slots
    BY <1>4, NextSlotRange, SMT DEF WriteLine, RoomFor
  <2>5. /\ log_array' \in [Slots -> Messages \cup {NoMessage}]
        /\ line_size' \in [Slots -> 0 .. CharLimit]
        /\ message' \in [Cores -> Messages \cup {NoMessage}]
        /\ pc' \in [Cores -> Points]
    BY <1>4, <2>1, <2>2 DEF WriteLine, Points, LogPoints
  <2>6. \A d \in Cores : Holding(d)'
    BY <1>4 DEF WriteLine
  <2>7. QED
    BY <1>4, <2>3, <2>4, <2>5, <2>6 DEF WriteLine
<1>5. ASSUME NEW c \in Cores, LogUnlock(c) PROVE Typed'
  BY <1>5 DEF LogUnlock, Points
<1>6. CASE SendCall
  BY <1>6 DEF SendCall, Points
<1>7. CASE SendLock
  BY <1>7 DEF SendLock, Points, SendPoints
<1>8. CASE SendLength
  <2>1. (byte_count + 1) % Word \in 0 .. Word - 1
    BY SMT DEF ByteCap
  <2>2. tx' \in [len : 0 .. Word - 1, crc : Seq(Lines), index : Slots, lines : Seq(Lines)]
    BY <1>8, <2>1 DEF SendLength
  <2>3. QED
    BY <1>8, <2>2 DEF SendLength, Points, SendPoints
<1>9. CASE SendHeader
  BY <1>9, LiveIsLines DEF SendHeader, Points, SendPoints
<1>10. CASE FlushLine
  <2>1. NextSlot(tx.index) \in Slots
    BY NextSlotRange
  <2>2. Append(tx.lines, Line(tx.index)) \in Seq(Lines)
    BY LiveIsLines
  <2>3. QED
    BY <1>10, <2>1, <2>2 DEF FlushLine
<1>11. CASE FlushReset
  BY <1>11, SMT DEF FlushReset, Slots, ByteCap, Points, SendPoints
<1>12. CASE SendTrailer
  BY <1>12 DEF SendTrailer, Points, SendPoints
<1>13. CASE SendUnlock
  <2>1. NoTx \in [len : 0 .. Word - 1, crc : Seq(Lines), index : Slots, lines : Seq(Lines)]
    BY SMT DEF NoTx, Slots
  <2>2. QED
    BY <1>13, <2>1 DEF SendUnlock, Points
<1>14. CASE UNCHANGED vars
  BY <1>14 DEF vars
<1>15. QED
  BY <1>1, <1>2, <1>3, <1>4, <1>5, <1>6, <1>7, <1>8, <1>9, <1>10, <1>11,
     <1>12, <1>13, <1>14 DEF Next, LogStep, SendStep

LEMMA AlwaysTyped == Spec => []Typed
BY TypedInit, TypedStep, PTL DEF Spec

(* Every variable keeps its range: no index leaves the array and           *)
(* byte_count + 1 never wraps the 16-bit frame length.                     *)
THEOREM TypeCorrect == Spec => []TypeOK
<1>1. Typed => TypeOK
  BY DEF Typed
<1>2. QED
  BY <1>1, AlwaysTyped, PTL

-----------------------------------------------------------------------------
(* The mutex *)

(* A core is inside the locked part of a call exactly when it owns the     *)
(* mutex, so the two cores never touch the ring together.                  *)
THEOREM MutexExclusive == Spec => []MutualExclusion
<1>1. Init => MutualExclusion
  BY DEF Init, MutualExclusion, LogPoints, SendPoints
<1>2. Typed /\ MutualExclusion /\ [Next]_vars => MutualExclusion'
  <2> SUFFICES ASSUME Typed, MutualExclusion, [Next]_vars
               PROVE  MutualExclusion'
    OBVIOUS
  <2> USE DEF MutualExclusion, LogPoints, SendPoints, Goto, Acquire, Release
  <2>0. pc \in [Cores -> Points]
    BY DEF Typed, TypeOK
  <2>1. ASSUME NEW c \in Cores, LogStep(c) PROVE MutualExclusion'
    <3>1. CASE LogLock(c)
      BY <2>0, <3>1 DEF LogLock
    <3>2. CASE DropOldest(c)
      BY <3>2 DEF DropOldest
    <3>3. CASE WriteLine(c)
      BY <2>0, <3>3 DEF WriteLine
    <3>4. CASE LogUnlock(c)
      BY <2>0, <3>4 DEF LogUnlock
    <3>5. QED
      BY <2>1, <3>1, <3>2, <3>3, <3>4 DEF LogStep
  <2>2. ASSUME NEW c \in Cores, NEW m \in Messages, LogCall(c, m)
        PROVE  MutualExclusion'
    BY <2>0, <2>2 DEF LogCall
  <2>3. CASE SendCall
    BY <2>0, <2>3 DEF SendCall
  <2>4. CASE SendLock
    BY <2>0, <2>4 DEF SendLock
  <2>5. CASE SendLength \/ FlushReset \/ SendTrailer
    BY <2>0, <2>5 DEF SendLength, FlushReset, SendTrailer
  <2>6. CASE SendHeader
    BY <2>0, <2>6 DEF SendHeader
  <2>7. CASE FlushLine
    BY <2>7 DEF FlushLine
  <2>8. CASE SendUnlock
    BY <2>0, <2>8 DEF SendUnlock
  <2>9. CASE UNCHANGED vars
    BY <2>9 DEF vars
  <2>10. QED
    BY <2>1, <2>2, <2>3, <2>4, <2>5, <2>6, <2>7, <2>8, <2>9 DEF Next, SendStep
<1>3. QED
  BY <1>1, <1>2, AlwaysTyped, PTL DEF Spec

-----------------------------------------------------------------------------
(* The shape of the ring *)

(* The steps that leave the ring alone. *)
LEMMA RingUntouched ==
    ASSUME [Next]_vars,
           \A c \in Cores : ~DropOldest(c) /\ ~WriteLine(c),
           ~FlushReset
    PROVE  UNCHANGED ring
BY DEF Next, LogStep, SendStep, LogCall, LogLock, LogUnlock, SendCall, SendLock,
       SendLength, SendHeader, FlushLine, SendTrailer, SendUnlock, vars

(* The live lines fill the slots from head up to tail, through every wrap, *)
(* drop and drain.                                                         *)
THEOREM RingShapeHolds == Spec => []RingShape
<1>1. Init => RingShape
  BY SMT DEF Init, RingShape
<1>2. Typed /\ RingShape /\ [Next]_vars => RingShape'
  <2> SUFFICES ASSUME Typed, RingShape, [Next]_vars PROVE RingShape'
    OBVIOUS
  <2>0. head \in Slots /\ count \in 0 .. LineCount
    BY DEF Typed, TypeOK
  <2>1. ASSUME NEW c \in Cores, DropOldest(c) PROVE RingShape'
    <3>1. /\ count \in 1 .. LineCount
          /\ head' = NextSlot(head)
          /\ count' = count - 1
          /\ tail' = IF count' = 0 THEN head' ELSE tail
      BY <2>0, <2>1, SMT DEF DropOldest
    <3>2. NextSlot(head) \in Slots
      BY <2>0, NextSlotRange
    <3>3. CASE count' = 0
      BY <3>1, <3>2, <3>3, SMT DEF RingShape, Slots
    <3>4. CASE count' # 0
      BY <2>0, <3>1, <3>4, DropKeepsTail DEF RingShape
    <3>5. QED
      BY <3>3, <3>4
  <2>2. ASSUME NEW c \in Cores, WriteLine(c) PROVE RingShape'
    <3>1. /\ count \in 0 .. LineCount - 1
          /\ head' = head
          /\ count' = count + 1
          /\ tail' = NextSlot(tail)
      BY <2>0, <2>2, SMT DEF WriteLine, RoomFor
    <3>2. tail' = (head + count + 1) % LineCount
      BY <2>0, <3>1, WriteMovesTail DEF RingShape
    <3>3. head + count + 1 = head' + count'
      BY <2>0, <3>1, SMT DEF Slots
    <3>4. QED
      BY <3>2, <3>3 DEF RingShape
  <2>3. CASE FlushReset
    BY <2>3, SMT DEF FlushReset, RingShape
  <2>4. CASE UNCHANGED ring
    BY <2>4 DEF ring, RingShape
  <2>5. QED
    BY <2>1, <2>2, <2>3, <2>4, RingUntouched
<1>3. QED
  BY <1>1, <1>2, AlwaysTyped, PTL DEF Spec

-----------------------------------------------------------------------------
(* The reply in progress *)

(* What has been printed is the part of the ring behind the print index,   *)
(* and the checksum already covers all of it: inductive only because the   *)
(* mutex keeps the other core out until the last byte is sent.             *)
Replying ==
    /\ pc[Core0] \notin SendPoints \/ pc[Core0] = "length" => tx = NoTx
    /\ pc[Core0] = "crc" => tx.lines = <<>>
    /\ pc[Core0] = "flush" =>
        /\ tx.crc = Live
        /\ Len(tx.lines) <= count
        /\ tx.index = LiveSlot(Len(tx.lines) + 1)
        /\ \A i \in 1 .. Len(tx.lines) : tx.lines[i] = Live[i]
    /\ pc[Core0] \in {"trailer", "sent"} => tx.crc = tx.lines

LEMMA ReplyingInit == Init => Replying
BY DEF Init, Replying, SendPoints

(* While core 0 prints, the other core leaves the ring alone. *)
LEMMA OtherCoreWaits ==
    ASSUME Typed, MutualExclusion, NEW c \in Cores,
           LogStep(c) \/ \E m \in Messages : LogCall(c, m),
           pc[Core0] \in SendPoints
    PROVE  UNCHANGED <<ring, tx>> /\ pc'[Core0] = pc[Core0]
<1>1. mutex = Core0
  BY DEF MutualExclusion
<1>2. ~DropOldest(c) /\ ~WriteLine(c) /\ ~LogUnlock(c)
  BY <1>1 DEF MutualExclusion, DropOldest, WriteLine, LogUnlock, Release, Goto,
              LogPoints, SendPoints
<1>3. c # Core0
  BY <1>2 DEF LogStep, LogLock, LogCall, Acquire, Goto, SendPoints
<1>4. QED
  BY <1>2, <1>3 DEF LogStep, LogLock, LogCall, Acquire, Goto, Typed, TypeOK

LEMMA ReplyingStep ==
    Typed /\ MutualExclusion /\ Replying /\ [Next]_vars => Replying'
<1> SUFFICES ASSUME Typed, MutualExclusion, Replying, [Next]_vars
             PROVE  Replying'
  OBVIOUS
<1>0. /\ pc \in [Cores -> Points]
      /\ head \in Slots
      /\ count \in 0 .. LineCount
      /\ tx \in [len : 0 .. Word - 1, crc : Seq(Lines), index : Slots, lines : Seq(Lines)]
  BY DEF Typed, TypeOK
<1> USE DEF Goto, Acquire, Release
<1>1. ASSUME NEW c \in Cores, LogStep(c) \/ \E m \in Messages : LogCall(c, m)
      PROVE  Replying'
  <2>1. CASE pc[Core0] \in SendPoints
    <3>1. UNCHANGED <<ring, tx>> /\ pc'[Core0] = pc[Core0]
      BY <1>1, <2>1, OtherCoreWaits
    <3>2. UNCHANGED Live /\ \A i \in Nat : LiveSlot(i)' = LiveSlot(i)
      BY <3>1 DEF ring, Live, Line, LiveSlot
    <3>3. QED
      BY <3>1, <3>2, <1>0 DEF Replying, ring
  <2>2. CASE pc[Core0] \notin SendPoints
    <3>1. tx' = tx /\ pc'[Core0] \notin SendPoints
      BY <1>0, <1>1, <2>2 DEF LogStep, LogCall, LogLock, DropOldest, WriteLine,
                              LogUnlock, SendPoints
    <3>2. QED
      BY <3>1, <2>2 DEF Replying, SendPoints
  <2>3. QED
    BY <2>1, <2>2
<1>2. CASE SendCall
  BY <1>0, <1>2 DEF SendCall, Replying, SendPoints
<1>3. CASE SendLock
  BY <1>0, <1>3 DEF SendLock, Replying, SendPoints
<1>4. CASE SendLength
  <2>1. tx = NoTx /\ tx'.lines = tx.lines /\ pc'[Core0] = "crc"
    BY <1>0, <1>4 DEF SendLength, Replying
  <2>2. QED
    BY <2>1 DEF Replying, NoTx, SendPoints
<1>5. CASE SendHeader
  <2>1. /\ tx.lines = <<>>
        /\ tx'.crc = Live
        /\ tx'.index = head
        /\ tx'.lines = <<>>
        /\ UNCHANGED ring
    BY <1>0, <1>5 DEF SendHeader, Replying
  <2>2. UNCHANGED <<Live, head, count>>
    BY <2>1 DEF ring, Live, Line, LiveSlot
  <2>3. CASE count = 0
    <3>1. Live = <<>>
      BY <2>3 DEF Live
    <3>2. pc'[Core0] = "trailer"
      BY <1>0, <1>5, <2>3 DEF SendHeader
    <3>3. QED
      BY <2>1, <3>1, <3>2 DEF Replying, SendPoints
  <2>4. CASE count # 0
    <3>1. head % LineCount = head
      BY <1>0, SlotIsItself
    <3>2. pc'[Core0] = "flush"
      BY <1>0, <1>5, <2>4 DEF SendHeader
    <3>3. Len(tx'.lines) = 0
      BY <2>1
    <3>4. LiveSlot(1)' = head
      BY <1>0, <2>2, <3>1, SMT DEF LiveSlot, Slots
    <3>5. QED
      BY <1>0, <2>1, <2>2, <3>2, <3>3, <3>4, SMT DEF Replying, SendPoints
  <2>5. QED
    BY <2>3, <2>4
<1>6. CASE FlushLine
  <2> DEFINE n == Len(tx.lines)
  <2>1. /\ pc[Core0] = "flush" /\ pc'[Core0] = "flush"
        /\ n \in Nat /\ n < count
        /\ tx'.crc = tx.crc
        /\ tx'.index = NextSlot(tx.index)
        /\ tx'.lines = Append(tx.lines, Line(tx.index))
        /\ UNCHANGED ring
    BY <1>0, <1>6 DEF FlushLine
  <2>2. /\ UNCHANGED <<Live, count>>
        /\ \A i \in Nat : LiveSlot(i)' = LiveSlot(i)
    BY <2>1 DEF ring, Live, Line, LiveSlot
  <2>3. /\ tx.crc = Live
        /\ tx.index = LiveSlot(n + 1)
        /\ \A i \in 1 .. n : tx.lines[i] = Live[i]
    BY <2>1 DEF Replying
  <2>4. Live[n + 1] = Line(tx.index)
    BY <1>0, <2>1, <2>3, SMT DEF Live
  <2>5. tx'.index = LiveSlot(n + 2)
    <3>1. n \in 0 .. LineCount - 1
      BY <1>0, <2>1, SMT
    <3>2. head + (n + 1) - 1 = head + n /\ head + (n + 2) - 1 = head + n + 1
      BY <1>0, <2>1, SMT DEF Slots
    <3>3. QED
      BY <1>0, <2>1, <2>3, <3>1, <3>2, WriteMovesTail DEF LiveSlot
  <2>6. /\ Len(tx'.lines) = n + 1
        /\ \A i \in 1 .. n + 1 : tx'.lines[i] = Live[i]
    BY <1>0, <2>1, <2>3, <2>4, LiveIsLines DEF Typed
  <2>7. Len(tx'.lines) + 1 = n + 2 /\ n + 2 \in Nat
    BY <2>1, <2>6, SMT
  <2>8. Len(tx'.lines) <= count
    BY <1>0, <2>1, <2>6, SMT
  <2>9. QED
    BY <2>1, <2>2, <2>3, <2>5, <2>6, <2>7, <2>8 DEF Replying, SendPoints
<1>7. CASE FlushReset
  <2>1. /\ tx.crc = Live
        /\ Len(tx.lines) = count
        /\ \A i \in 1 .. count : tx.lines[i] = Live[i]
        /\ tx' = tx
        /\ pc'[Core0] = "trailer"
    BY <1>0, <1>7 DEF FlushReset, Replying
  <2>2. Live \in Seq(Lines) /\ Len(Live) = count
    BY LiveIsLines DEF Typed
  <2>3. tx.lines = Live
    BY <1>0, <2>1, <2>2
  <2>4. QED
    BY <2>1, <2>3 DEF Replying, SendPoints
<1>8. CASE SendTrailer
  BY <1>0, <1>8 DEF SendTrailer, Replying, SendPoints
<1>9. CASE SendUnlock
  BY <1>0, <1>9 DEF SendUnlock, Replying, SendPoints
<1>10. CASE UNCHANGED vars
  BY <1>10 DEF vars, ring, Replying, Live, Line, LiveSlot
<1>11. QED
  BY <1>1, <1>2, <1>3, <1>4, <1>5, <1>6, <1>7, <1>8, <1>9, <1>10 DEF Next, SendStep

(* The lines a GET_LOG reply prints are exactly those its checksum covers. *)
THEOREM ChecksumMatches == Spec => []ChecksumCoversLines
<1>1. Replying => ChecksumCoversLines
  BY DEF Replying, ChecksumCoversLines
<1>2. QED
  BY <1>1, ReplyingInit, ReplyingStep, AlwaysTyped, MutexExclusive, PTL DEF Spec

-----------------------------------------------------------------------------
(* Characters *)

(* What Chars adds up along a sequence of lines. *)
Weights(seq) == [i \in 1 .. Len(seq) |-> seq[i][2]]

LEMMA CharsIsSum ==
    ASSUME NEW seq \in Seq(Lines)
    PROVE  \E f : Sums(f, Weights(seq), Len(seq)) /\ Log!Chars(seq) = f[Len(seq)]
<1> DEFINE w == Weights(seq)
           n == Len(seq)
           P(f) == f = [i \in 0 .. n |-> IF i = 0 THEN 0 ELSE f[i - 1] + seq[i][2]]
<1>1. n \in Nat
  OBVIOUS
<1>2. \A f : P(f) <=> Sums(f, w, n)
  <2> SUFFICES ASSUME NEW f PROVE P(f) <=> Sums(f, w, n)
    OBVIOUS
  <2>1. [i \in 0 .. n |-> IF i = 0 THEN 0 ELSE f[i - 1] + seq[i][2]]
        = [i \in 0 .. n |-> IF i = 0 THEN 0 ELSE f[i - 1] + w[i]]
    BY <1>1 DEF Weights
  <2> HIDE DEF w, n
  <2>2. QED
    BY <2>1 DEF Sums
<1>3. \E f : P(f)
  <2> HIDE DEF w, n, P
  <2>1. QED
    BY <1>1, <1>2, SumsExist
<1>4. P(CHOOSE f : P(f))
  <2> HIDE DEF P
  <2>1. QED
    BY <1>3
<1>5. Log!Chars(seq) = (CHOOSE f : P(f))[n]
  BY DEF Log!Chars
<1> DEFINE sum == CHOOSE f : P(f)
<1>6. Sums(sum, w, n) /\ Log!Chars(seq) = sum[n]
  <2> HIDE DEF P, n, w
  <2>1. QED
    BY <1>2, <1>4, <1>5
<1> HIDE DEF sum
<1>7. QED
  BY <1>6

LEMMA WeightsNat ==
    ASSUME NEW seq \in Seq(Lines)
    PROVE  \A i \in 1 .. Len(seq) : Weights(seq)[i] \in Nat
BY DEF Weights, Lines

LEMMA CharsEmpty == Log!Chars(<<>>) = 0
<1>1. <<>> \in Seq(Lines) /\ Len(<<>>) = 0
  OBVIOUS
<1>2. PICK f : Sums(f, Weights(<<>>), Len(<<>>)) /\ Log!Chars(<<>>) = f[Len(<<>>)]
  BY <1>1, CharsIsSum
<1>3. QED
  BY <1>1, <1>2 DEF Sums

LEMMA CharsNat ==
    ASSUME NEW seq \in Seq(Lines)
    PROVE  Log!Chars(seq) \in Nat
<1>1. PICK f : Sums(f, Weights(seq), Len(seq)) /\ Log!Chars(seq) = f[Len(seq)]
  BY CharsIsSum
<1>2. Len(seq) \in Nat
  OBVIOUS
<1>3. QED
  BY <1>1, <1>2, WeightsNat, SumsNat

LEMMA CharsAppend ==
    ASSUME NEW seq \in Seq(Lines), NEW line \in Lines
    PROVE  Log!Chars(Append(seq, line)) = Log!Chars(seq) + line[2]
<1> DEFINE longer == Append(seq, line)
           n == Len(seq)
<1>1. n \in Nat /\ longer \in Seq(Lines) /\ Len(longer) = n + 1
  OBVIOUS
<1>2. PICK f : Sums(f, Weights(seq), n) /\ Log!Chars(seq) = f[n]
  BY CharsIsSum
<1>3. PICK g : Sums(g, Weights(longer), n + 1) /\ Log!Chars(longer) = g[n + 1]
  <2> HIDE DEF longer
  <2>1. QED
    BY <1>1, CharsIsSum
<1>4. \A i \in 1 .. n : Weights(seq)[i] = Weights(longer)[i]
  BY <1>1 DEF Weights
<1>5. Weights(longer)[n + 1] = line[2]
  BY <1>1 DEF Weights
<1> HIDE DEF longer, n
<1>6. f[n] = g[n]
  BY <1>1, <1>2, <1>3, <1>4, SumsAgree
<1>7. g[n + 1] = g[n] + Weights(longer)[n + 1]
  BY <1>1, <1>3 DEF Sums
<1>8. QED
  BY <1>2, <1>3, <1>5, <1>6, <1>7 DEF longer

LEMMA CharsTail ==
    ASSUME NEW seq \in Seq(Lines), seq # <<>>
    PROVE  Log!Chars(seq) = seq[1][2] + Log!Chars(Tail(seq))
<1> DEFINE shorter == Tail(seq)
           n == Len(shorter)
<1>1. n \in Nat /\ shorter \in Seq(Lines) /\ Len(seq) = n + 1
  OBVIOUS
<1>2. PICK f : Sums(f, Weights(seq), n + 1) /\ Log!Chars(seq) = f[n + 1]
  <2> HIDE DEF n
  <2>1. QED
    BY <1>1, CharsIsSum
<1>3. PICK g : Sums(g, Weights(shorter), n) /\ Log!Chars(shorter) = g[n]
  <2> HIDE DEF shorter
  <2>1. QED
    BY <1>1, CharsIsSum
<1>4. \A i \in 1 .. n : Weights(shorter)[i] = Weights(seq)[i + 1]
  BY <1>1 DEF Weights
<1>5. Weights(seq)[1] = seq[1][2]
  BY <1>1 DEF Weights
<1>6. \A i \in 1 .. n + 1 : Weights(seq)[i] \in Nat
  BY <1>1, WeightsNat
<1> HIDE DEF shorter, n
<1>7. f[n + 1] = Weights(seq)[1] + g[n]
  BY <1>1, <1>2, <1>3, <1>4, <1>6, SumsShift
<1>8. QED
  BY <1>2, <1>3, <1>5, <1>7 DEF shorter

-----------------------------------------------------------------------------
(* What the steps do to the live lines *)

LEMMA Wrapped ==
    ASSUME NEW h \in Slots, NEW i \in 1 .. LineCount
    PROVE  (h + i - 1) % LineCount =
               IF h + i - 1 < LineCount THEN h + i - 1 ELSE h + i - 1 - LineCount
<1>1. CASE h + i - 1 < LineCount
  BY <1>1, SMT DEF Slots
<1>2. CASE h + i - 1 >= LineCount
  BY <1>2, SMT DEF Slots
<1>3. QED
  BY <1>1, <1>2, SMT DEF Slots

(* No two live lines share a slot. *)
LEMMA SlotsDistinct ==
    ASSUME NEW h \in Slots, NEW i \in 1 .. LineCount, NEW j \in 1 .. LineCount, i # j
    PROVE  (h + i - 1) % LineCount # (h + j - 1) % LineCount
<1>1. /\ (h + i - 1) % LineCount =
             IF h + i - 1 < LineCount THEN h + i - 1 ELSE h + i - 1 - LineCount
      /\ (h + j - 1) % LineCount =
             IF h + j - 1 < LineCount THEN h + j - 1 ELSE h + j - 1 - LineCount
  BY Wrapped
<1>2. QED
  BY <1>1, SMT DEF Slots

LEMMA NextLiveSlot ==
    ASSUME NEW h \in Slots, NEW i \in 1 .. LineCount - 1
    PROVE  (NextSlot(h) + i - 1) % LineCount = (h + (i + 1) - 1) % LineCount
<1>1. /\ NextSlot(h) + ((i + 1) - 1) = NextSlot(h) + i
      /\ i + 1 \in 1 .. LineCount
  BY SMT
<1>2. NextSlot(h) \in Slots
  BY NextSlotRange
<1>3. CASE h = LineCount - 1
  <2>1. NextSlot(h) = 0
    BY <1>3, SMT DEF NextSlot, Slots
  <2>2. (0 + i - 1) % LineCount = i - 1
    BY SMT
  <2>3. (h + (i + 1) - 1) % LineCount = h + (i + 1) - 1 - LineCount
    BY <1>1, <1>3, Wrapped, SMT DEF Slots
  <2>4. QED
    BY <2>1, <2>2, <2>3, <1>3, SMT
<1>4. CASE h # LineCount - 1
  <2>1. NextSlot(h) = h + 1
    BY <1>4, SMT DEF NextSlot, Slots
  <2>2. NextSlot(h) + i - 1 = h + (i + 1) - 1
    BY <2>1, SMT DEF Slots
  <2>3. QED
    BY <2>2
<1>5. QED
  BY <1>3, <1>4

LEMMA LiveTyped == TypeOK => Live \in Seq(Lines) /\ Len(Live) = count
BY LiveIsLines

LEMMA LiveTypedNext == (TypeOK => Live \in Seq(Lines) /\ Len(Live) = count)'
BY LiveTyped, PTL

LEMMA LiveIsLinesNext ==
    ASSUME Typed, Next
    PROVE  Live' \in Seq(Lines) /\ Len(Live') = count'
<1>1. TypeOK'
  BY TypedStep DEF Typed
<1>2. QED
  BY <1>1, LiveTypedNext

LEMMA LiveOfDrop ==
    ASSUME Typed, NEW c \in Cores, DropOldest(c)
    PROVE  /\ Live # <<>>
           /\ Live[1][2] = Payload(line_size[head])
           /\ Live' = Tail(Live)
<1>1. /\ count \in 1 .. LineCount /\ count' = count - 1
      /\ head \in Slots /\ head' = NextSlot(head)
      /\ log_array' = log_array
      /\ line_size' = [line_size EXCEPT ![head] = 0]
      /\ line_size \in [Slots -> 0 .. CharLimit]
  BY SMT DEF Typed, TypeOK, DropOldest
<1>2. Live \in Seq(Lines) /\ Len(Live) = count
  BY LiveIsLines DEF Typed
<1>3. LiveSlot(1) = head
  <2>1. head + 1 - 1 = head
    BY <1>1, SMT DEF Slots
  <2>2. QED
    BY <1>1, <2>1, SlotIsItself DEF LiveSlot
<1>4. Live[1] = Line(head)
  BY <1>1, <1>3, SMT DEF Live
<1>5. ASSUME NEW i \in 1 .. count - 1 PROVE Live'[i] = Live[i + 1]
  <2>1. i \in 1 .. LineCount - 1 /\ i + 1 \in 1 .. LineCount /\ 1 \in 1 .. LineCount /\ i + 1 # 1
        /\ i + 1 \in 1 .. count /\ i \in 1 .. count'
    BY <1>1, SMT
  <2>2. LiveSlot(i)' = LiveSlot(i + 1)
    BY <1>1, <2>1, NextLiveSlot DEF LiveSlot
  <2>3. LiveSlot(i + 1) # LiveSlot(1)
    BY <1>1, <2>1, SlotsDistinct DEF LiveSlot
  <2>4. LiveSlot(i + 1) \in Slots
    <3>1. head + (i + 1) - 1 \in Nat
      BY <1>1, SMT DEF Slots
    <3>2. QED
      BY <3>1, SlotRange DEF LiveSlot
  <2>6. Live'[i] = Line(LiveSlot(i))'
    BY <1>1, <2>1 DEF Live
  <2>7. Line(LiveSlot(i))' = Line(LiveSlot(i + 1))
    BY <1>1, <1>3, <2>2, <2>3, <2>4 DEF Line
  <2>8. QED
    BY <2>1, <2>6, <2>7 DEF Live
<1>6. Live' \in Seq(Lines) /\ Len(Live') = count - 1
  BY <1>1, LiveIsLinesNext DEF Next, LogStep
<1>7. Live # <<>>
  BY <1>1, <1>2
<1>8. /\ Tail(Live) \in Seq(Lines) /\ Len(Tail(Live)) = count - 1
      /\ \A i \in 1 .. count - 1 : Tail(Live)[i] = Live[i + 1]
  <2> HIDE DEF Live
  <2>1. QED
    BY <1>2, <1>7, TailElements
<1>9. Live' = Tail(Live)
  <2> HIDE DEF Live
  <2>1. QED
    BY <1>5, <1>6, <1>8, SameSequence
<1>10. QED
  BY <1>4, <1>7, <1>9 DEF Line

(* The line a core stores. *)
NewLine(c) == <<message[c], Payload(SizeOf(message[c]))>>

LEMMA NewLineIsLine ==
    ASSUME NEW c \in Cores, message[c] \in Messages
    PROVE  NewLine(c) \in Lines
<1>1. SizeOf(message[c]) \in 0 .. CharLimit
  BY SizeOfRange, SMT
<1>2. QED
  BY <1>1, PayloadRange DEF NewLine, Lines

LEMMA LiveOfWrite ==
    ASSUME Typed, RingShape, NEW c \in Cores, WriteLine(c)
    PROVE  Live' = Append(Live, NewLine(c))
<1>1. /\ count \in 0 .. LineCount - 1 /\ count' = count + 1
      /\ head \in Slots /\ head' = head
      /\ log_array' = [log_array EXCEPT ![tail] = message[c]]
      /\ line_size' = [line_size EXCEPT ![tail] = SizeOf(message[c])]
      /\ log_array \in [Slots -> Messages \cup {NoMessage}]
      /\ line_size \in [Slots -> 0 .. CharLimit]
      /\ tail \in Slots
  BY SMT DEF Typed, TypeOK, WriteLine, RoomFor
<1>2. Live \in Seq(Lines) /\ Len(Live) = count
  BY LiveIsLines DEF Typed
<1>3. LiveSlot(count + 1) = tail
  <2>1. head + (count + 1) - 1 = head + count
    BY <1>1, SMT DEF Slots
  <2>2. QED
    BY <2>1 DEF LiveSlot, RingShape
<1>4. \A i \in Nat : LiveSlot(i)' = LiveSlot(i)
  BY <1>1 DEF LiveSlot
<1>5. ASSUME NEW i \in 1 .. count PROVE Live'[i] = Live[i]
  <2>1. i \in 1 .. LineCount /\ count + 1 \in 1 .. LineCount /\ i # count + 1 /\ i \in 1 .. count'
    BY <1>1, SMT
  <2>2. LiveSlot(i) # tail
    BY <1>1, <1>3, <2>1, SlotsDistinct DEF LiveSlot
  <2>3. LiveSlot(i) \in Slots
    <3>1. head + i - 1 \in Nat
      BY <1>1, SMT DEF Slots
    <3>2. QED
      BY <3>1, SlotRange DEF LiveSlot
  <2>4. Line(LiveSlot(i))' = Line(LiveSlot(i))
    BY <1>1, <1>4, <2>1, <2>2, <2>3 DEF Line
  <2>5. QED
    BY <2>1, <2>4 DEF Live
<1>6. Live'[count + 1] = NewLine(c)
  <2>1. PICK n \in Nat : n = count + 1
    BY <1>1, SMT
  <2>2. n \in 1 .. count'
    BY <1>1, <2>1, SMT
  <2>3. LiveSlot(n)' = tail
    BY <1>3, <1>4, <2>1
  <2>4. Line(LiveSlot(n))' = NewLine(c)
    BY <1>1, <2>3 DEF Line, NewLine
  <2>5. Live'[n] = Line(LiveSlot(n))'
    BY <2>2 DEF Live
  <2>6. QED
    BY <2>1, <2>4, <2>5
<1>7. NewLine(c) \in Lines
  BY NewLineIsLine DEF Typed, Holding, WriteLine, Goto
<1>8. Live' \in Seq(Lines) /\ Len(Live') = count + 1
  BY <1>1, LiveIsLinesNext DEF Next, LogStep
<1>9. QED
  <2> HIDE DEF Live, NewLine
  <2>1. /\ Append(Live, NewLine(c)) \in Seq(Lines)
        /\ Len(Append(Live, NewLine(c))) = count + 1
        /\ \A i \in 1 .. count : Append(Live, NewLine(c))[i] = Live[i]
        /\ Append(Live, NewLine(c))[count + 1] = NewLine(c)
    BY <1>2, <1>7, AppendElements
  <2>2. \A i \in 1 .. count + 1 : i \in 1 .. count \/ i = count + 1
    BY <1>1, SMT
  <2>3. \A i \in 1 .. count + 1 : Live'[i] = Append(Live, NewLine(c))[i]
    BY <1>5, <1>6, <2>1, <2>2
  <2>4. QED
    BY <1>8, <2>1, <2>3, SameSequence

LEMMA LiveOfReset ==
    ASSUME FlushReset
    PROVE  Live' = <<>>
BY DEF FlushReset, Live

LEMMA LiveKept ==
    ASSUME UNCHANGED ring
    PROVE  Live' = Live
BY DEF ring, Live, Line, LiveSlot

-----------------------------------------------------------------------------
(* byte_count and the length announced *)

LEMMA RoomSum ==
    ASSUME Typed, NEW c \in Cores, WriteLine(c)
    PROVE  /\ NewLine(c) \in Lines
           /\ byte_count' = byte_count + NewLine(c)[2]
<1>1. message[c] \in Messages /\ byte_count \in 0 .. ByteCap
  BY DEF Typed, TypeOK, Holding, WriteLine, Goto
<1>2. Payload(SizeOf(message[c])) \in 0 .. ByteCap
  BY <1>1, SizeOfRange
<1>3. /\ byte_count + Payload(SizeOf(message[c])) <= ByteCap
      /\ byte_count' = (byte_count + Payload(SizeOf(message[c]))) % Word
  BY DEF WriteLine, RoomFor
<1>4. byte_count' = byte_count + Payload(SizeOf(message[c]))
  BY <1>1, <1>2, <1>3, CappedSum
<1>5. QED
  BY <1>1, <1>4, NewLineIsLine DEF NewLine

LEMMA DropDifference ==
    ASSUME Typed, ByteCountExact, NEW c \in Cores, DropOldest(c)
    PROVE  byte_count' = Log!Chars(Tail(Live))
<1>1. Live \in Seq(Lines) /\ Live # <<>> /\ Live[1][2] = Payload(line_size[head])
  BY LiveIsLines, LiveOfDrop DEF Typed
<1>2. Tail(Live) \in Seq(Lines)
  <2> HIDE DEF Live
  <2>1. QED
    BY <1>1, TailElements
<1>3. Log!Chars(Tail(Live)) \in Nat
  BY <1>2, CharsNat
<1>4. byte_count = Live[1][2] + Log!Chars(Tail(Live))
  <2> HIDE DEF Live
  <2>1. QED
    BY <1>1, CharsTail DEF ByteCountExact
<1>5. Payload(line_size[head]) \in Nat
  <2>1. line_size[head] \in 0 .. CharLimit
    BY DEF Typed, TypeOK
  <2>2. QED
    BY <2>1, PayloadRange, SMT
<1>6. byte_count' = IF Payload(line_size[head]) > byte_count THEN 0
                    ELSE byte_count - Payload(line_size[head])
  BY DEF DropOldest
<1>7. QED
  BY <1>1, <1>3, <1>4, <1>5, <1>6, SMT

(* byte_count is at all times what the live lines hold. *)
THEOREM BytesCounted == Spec => []ByteCountExact
<1>1. Init => ByteCountExact
  <2>1. Init => Live = <<>> /\ byte_count = 0
    BY DEF Init, Live
  <2>2. QED
    BY <2>1, CharsEmpty DEF ByteCountExact
<1>2. Typed /\ RingShape /\ ByteCountExact /\ [Next]_vars => ByteCountExact'
  <2> SUFFICES ASSUME Typed, RingShape, ByteCountExact, [Next]_vars
               PROVE  byte_count' = Log!Chars(Live')
    BY DEF ByteCountExact
  <2>1. ASSUME NEW c \in Cores, DropOldest(c) PROVE byte_count' = Log!Chars(Live')
    BY <2>1, DropDifference, LiveOfDrop
  <2>2. ASSUME NEW c \in Cores, WriteLine(c) PROVE byte_count' = Log!Chars(Live')
    <3>1. NewLine(c) \in Lines /\ byte_count' = byte_count + NewLine(c)[2]
      BY <2>2, RoomSum
    <3>2. Live \in Seq(Lines)
      BY LiveIsLines DEF Typed
    <3>3. Live' = Append(Live, NewLine(c))
      BY <2>2, LiveOfWrite
    <3> HIDE DEF Live, NewLine
    <3>4. Log!Chars(Append(Live, NewLine(c))) = Log!Chars(Live) + NewLine(c)[2]
      BY <3>1, <3>2, CharsAppend
    <3>5. QED
      BY <3>1, <3>3, <3>4 DEF ByteCountExact
  <2>3. CASE FlushReset
    BY <2>3, LiveOfReset, CharsEmpty DEF FlushReset
  <2>4. CASE UNCHANGED ring
    BY <2>4, LiveKept DEF ByteCountExact, ring
  <2>5. QED
    BY <2>1, <2>2, <2>3, <2>4, RingUntouched
<1>3. QED
  BY <1>1, <1>2, AlwaysTyped, RingShapeHolds, PTL DEF Spec

(* A reply's length is right from when it is taken until the last byte is  *)
(* sent: first of the ring, then, once this is drained, of what was        *)
(* printed.                                                                *)
Announcing ==
    /\ pc[Core0] \in {"crc", "flush"} => tx.len = 1 + Log!Chars(Live)
    /\ pc[Core0] \in {"trailer", "sent"} => tx.len = 1 + Log!Chars(tx.lines) /\ count = 0

(* When the ring is drained, it has been printed as a whole. *)
LEMMA AllPrinted ==
    ASSUME Typed, Replying, FlushReset
    PROVE  tx.lines = Live
<1>1. /\ tx.lines \in Seq(Lines) /\ Len(tx.lines) = count
      /\ \A i \in 1 .. count : tx.lines[i] = Live[i]
  BY DEF FlushReset, Goto, Replying, Typed, TypeOK
<1>2. Live \in Seq(Lines) /\ Len(Live) = count
  BY LiveIsLines DEF Typed
<1>3. QED
  <2> HIDE DEF Live
  <2>1. QED
    BY <1>1, <1>2, SameSequence

LEMMA LengthFits ==
    ASSUME NEW b \in 0 .. ByteCap
    PROVE  (b + 1) % Word = 1 + b
<1>1. b + 1 \in Nat /\ b + 1 < Word
  BY SMT DEF ByteCap
<1>2. QED
  BY <1>1, SMT

LEMMA AnnouncingStep ==
    Typed /\ MutualExclusion /\ Replying /\ ByteCountExact /\ Announcing /\ [Next]_vars
        => Announcing'
<1> SUFFICES ASSUME Typed, MutualExclusion, Replying, ByteCountExact, Announcing, [Next]_vars
             PROVE  Announcing'
  OBVIOUS
<1>0. /\ pc \in [Cores -> Points]
      /\ count \in 0 .. LineCount
      /\ byte_count \in 0 .. ByteCap
      /\ tx \in [len : 0 .. Word - 1, crc : Seq(Lines), index : Slots, lines : Seq(Lines)]
  BY DEF Typed, TypeOK
<1> USE DEF Goto, Acquire, Release
<1>1. ASSUME NEW c \in Cores, LogStep(c) \/ \E m \in Messages : LogCall(c, m)
      PROVE  Announcing'
  <2>1. CASE pc[Core0] \in SendPoints
    <3>1. UNCHANGED <<ring, tx>> /\ pc'[Core0] = pc[Core0]
      BY <1>1, <2>1, OtherCoreWaits
    <3>2. Live' = Live
      BY <3>1, LiveKept
    <3>3. QED
      BY <3>1, <3>2 DEF Announcing, ring
  <2>2. CASE pc[Core0] \notin SendPoints
    <3>1. pc'[Core0] \notin SendPoints
      BY <1>0, <1>1, <2>2 DEF LogStep, LogCall, LogLock, DropOldest, WriteLine,
                              LogUnlock, SendPoints
    <3>2. QED
      BY <3>1 DEF Announcing, SendPoints
  <2>3. QED
    BY <2>1, <2>2
<1>2. CASE SendCall \/ SendLock \/ SendUnlock
  BY <1>0, <1>2 DEF SendCall, SendLock, SendUnlock, Announcing
<1>3. CASE SendLength
  <2>1. tx'.len = (byte_count + 1) % Word /\ pc'[Core0] = "crc" /\ UNCHANGED ring
    BY <1>0, <1>3 DEF SendLength
  <2>2. (byte_count + 1) % Word = 1 + byte_count
    BY <1>0, LengthFits
  <2>3. Live' = Live
    BY <2>1, LiveKept
  <2>4. tx'.len = 1 + Log!Chars(Live)
    BY <2>1, <2>2 DEF ByteCountExact
  <2>5. QED
    BY <2>1, <2>3, <2>4 DEF Announcing
<1>4. CASE SendHeader
  <2>1. /\ tx.len = 1 + Log!Chars(Live) /\ tx.lines = <<>>
        /\ tx'.len = tx.len /\ tx'.lines = tx.lines /\ UNCHANGED ring
        /\ pc'[Core0] = IF count = 0 THEN "trailer" ELSE "flush"
    BY <1>0, <1>4 DEF SendHeader, Announcing, Replying
  <2>2. Live' = Live /\ count' = count
    BY <2>1, LiveKept DEF ring
  <2>3. CASE count = 0
    <3>1. Live = tx.lines
      BY <2>1, <2>3 DEF Live
    <3> HIDE DEF Live
    <3>2. QED
      BY <2>1, <2>2, <2>3, <3>1 DEF Announcing
  <2>4. CASE count # 0
    BY <2>1, <2>2, <2>4 DEF Announcing
  <2>5. QED
    BY <2>3, <2>4
<1>5. CASE FlushLine
  <2>1. pc[Core0] = "flush" /\ pc' = pc /\ tx'.len = tx.len /\ UNCHANGED ring
    BY <1>0, <1>5 DEF FlushLine
  <2>2. QED
    BY <2>1, LiveKept DEF Announcing
<1>6. CASE FlushReset
  <2>1. /\ pc[Core0] = "flush" /\ pc'[Core0] = "trailer"
        /\ tx' = tx /\ count' = 0
    BY <1>0, <1>6 DEF FlushReset
  <2>2. tx.lines = Live
    BY <1>6, AllPrinted
  <2>3. QED
    BY <2>1, <2>2 DEF Announcing
<1>7. CASE SendTrailer
  BY <1>0, <1>7 DEF SendTrailer, Announcing, ring
<1>8. CASE UNCHANGED vars
  BY <1>8, LiveKept DEF vars, Announcing, ring
<1>9. QED
  BY <1>1, <1>2, <1>3, <1>4, <1>5, <1>6, <1>7, <1>8 DEF Next, SendStep

(* What a reply says it sends is what it sends. *)
LEMMA AlwaysAnnouncing == Spec => []Announcing
<1>1. Init => Announcing
  BY DEF Init, Announcing
<1>2. QED
  BY <1>1, AnnouncingStep, ReplyingInit, ReplyingStep, AlwaysTyped, MutexExclusive,
     BytesCounted, PTL DEF Spec

THEOREM LengthsMatch == Spec => []LengthAnnounced
<1>1. Announcing => LengthAnnounced
  BY DEF Announcing, LengthAnnounced
<1>2. QED
  BY <1>1, AlwaysAnnouncing, PTL

-----------------------------------------------------------------------------
(* The ring implements AbstractLog.  The three variables of the abstract   *)
(* log, as the refinement mapping of LogBuffer gives them, and what its    *)
(* actions say of them.                                                    *)
Shown == IF pc[Core0] = "trailer" THEN tx.lines ELSE Live
InHand == [c \in Cores |-> IF message[c] = NoMessage THEN NoMessage ELSE NewLine(c)]
Handed == IF pc[Core0] = "sent" THEN tx.lines ELSE <<>>

LEMMA AbstractInit ==
    Log!Init <=> Shown = <<>> /\ InHand = [c \in Cores |-> NoMessage] /\ Handed = <<>>
BY DEF Log!Init, Shown, InHand, Handed, NewLine

LEMMA AbstractSubmit ==
    ASSUME NEW c \in Cores, NEW line,
           InHand[c] = NoMessage, InHand' = [InHand EXCEPT ![c] = line],
           Shown' = Shown, Handed' = Handed
    PROVE  Log!Submit(c, line)
BY DEF Log!Submit, Shown, InHand, Handed, NewLine

LEMMA AbstractEvict ==
    ASSUME NEW c \in Cores,
           InHand[c] # NoMessage, Shown # <<>>,
           ~(Len(Shown) < LineCount /\ Log!Chars(Shown) + InHand[c][2] <= ByteCap),
           Shown' = Tail(Shown), InHand' = InHand, Handed' = Handed
    PROVE  Log!Evict(c)
BY DEF Log!Evict, Log!Fits, Log!Chars, Shown, InHand, Handed, NewLine

LEMMA AbstractStore ==
    ASSUME NEW c \in Cores,
           InHand[c] # NoMessage,
           Len(Shown) < LineCount, Log!Chars(Shown) + InHand[c][2] <= ByteCap,
           Shown' = Append(Shown, InHand[c]), InHand' = [InHand EXCEPT ![c] = NoMessage],
           Handed' = Handed
    PROVE  Log!Store(c)
BY DEF Log!Store, Log!Fits, Log!Chars, Shown, InHand, Handed, NewLine

LEMMA AbstractDeliver ==
    ASSUME Handed = <<>>, Handed' = Shown, Shown' = <<>>, InHand' = InHand
    PROVE  Log!Deliver
BY DEF Log!Deliver, Shown, InHand, Handed, NewLine

LEMMA AbstractFinish ==
    ASSUME Handed' = <<>>, Shown' = Shown, InHand' = InHand
    PROVE  Log!Finish
BY DEF Log!Finish, Shown, InHand, Handed, NewLine

LEMMA AbstractStutter ==
    ASSUME Handed' = Handed, Shown' = Shown, InHand' = InHand
    PROVE  UNCHANGED Log!vars
BY DEF Log!vars, Shown, InHand, Handed, NewLine

-----------------------------------------------------------------------------
(* A core has a message in hand only from its call until it is stored.     *)
EmptyHanded ==
    \A c \in Cores : pc[c] \notin {"log_lock", "make_room"} => message[c] = NoMessage

LEMMA AlwaysEmptyHanded == Spec => []EmptyHanded
<1>1. Init => EmptyHanded
  BY DEF Init, EmptyHanded
<1>2. Typed /\ EmptyHanded /\ [Next]_vars => EmptyHanded'
  <2> SUFFICES ASSUME Typed, EmptyHanded, [Next]_vars PROVE EmptyHanded'
    OBVIOUS
  <2>0. pc \in [Cores -> Points] /\ message \in [Cores -> Messages \cup {NoMessage}]
    BY DEF Typed, TypeOK
  <2> USE <2>0 DEF EmptyHanded, Goto, Acquire, Release
  <2>1. ASSUME NEW c \in Cores, NEW m \in Messages, LogCall(c, m) PROVE EmptyHanded'
    BY <2>1 DEF LogCall
  <2>2. ASSUME NEW c \in Cores, LogLock(c) \/ LogUnlock(c) PROVE EmptyHanded'
    BY <2>2 DEF LogLock, LogUnlock
  <2>3. ASSUME NEW c \in Cores, WriteLine(c) PROVE EmptyHanded'
    BY <2>3 DEF WriteLine
  <2>4. ASSUME NEW c \in Cores, DropOldest(c) PROVE EmptyHanded'
    BY <2>4 DEF DropOldest
  <2>5. CASE SendCall \/ SendLock \/ SendLength \/ SendHeader
    BY <2>5 DEF SendCall, SendLock, SendLength, SendHeader
  <2>6. CASE FlushLine \/ FlushReset \/ SendTrailer \/ SendUnlock
    BY <2>6 DEF FlushLine, FlushReset, SendTrailer, SendUnlock
  <2>7. CASE UNCHANGED vars
    BY <2>7 DEF vars
  <2>8. QED
    BY <2>1, <2>2, <2>3, <2>4, <2>5, <2>6, <2>7 DEF Next, LogStep, SendStep
<1>3. QED
  BY <1>1, <1>2, AlwaysTyped, PTL DEF Spec

(* All that the steps of the ring may rely on. *)
Reached ==
    Typed /\ MutualExclusion /\ RingShape /\ ByteCountExact /\ Replying /\ Announcing /\ EmptyHanded

LEMMA AlwaysReached == Spec => []Reached
BY AlwaysTyped, MutexExclusive, RingShapeHolds, BytesCounted, ReplyingInit, ReplyingStep,
   AlwaysAnnouncing, AlwaysEmptyHanded, PTL DEF Reached, Spec

-----------------------------------------------------------------------------
(* Each step of the ring is a step of the abstract log or none. *)

LEMMA CallImplements ==
    ASSUME Reached, NEW c \in Cores, NEW m \in Messages, LogCall(c, m)
    PROVE  Log!Next
<1>1. /\ pc[c] = "idle" /\ pc' = [pc EXCEPT ![c] = "log_lock"]
      /\ message' = [message EXCEPT ![c] = m]
      /\ UNCHANGED <<ring, tx>>
      /\ message[c] = NoMessage
      /\ pc \in [Cores -> Points] /\ message \in [Cores -> Messages \cup {NoMessage}]
  BY DEF LogCall, Goto, Reached, EmptyHanded, Typed, TypeOK
<1> DEFINE line == <<m, Payload(SizeOf(m))>>
<1>2. Live' = Live
  BY <1>1, LiveKept
<1>3. pc'[Core0] = "trailer" <=> pc[Core0] = "trailer"
  BY <1>1
<1>4. pc'[Core0] = "sent" <=> pc[Core0] = "sent"
  BY <1>1
<1>5. Shown' = Shown /\ Handed' = Handed
  BY <1>1, <1>2, <1>3, <1>4 DEF Shown, Handed
<1>6. InHand[c] = NoMessage
  BY <1>1 DEF InHand
<1>7. InHand' = [InHand EXCEPT ![c] = line]
  BY <1>1 DEF InHand, NewLine
<1>8. Log!Submit(c, line)
  BY <1>5, <1>6, <1>7, AbstractSubmit
<1>9. QED
  BY <1>8 DEF Log!Next

(* A core that holds the mutex keeps core 0 out of a reply's end. *)
LEMMA NotReplying ==
    ASSUME Reached, NEW c \in Cores, pc[c] = "make_room"
    PROVE  pc[Core0] \notin SendPoints /\ InHand[c] = NewLine(c) /\ InHand[c] # NoMessage
<1>1. mutex = c
  BY DEF Reached, MutualExclusion, LogPoints
<1>2. pc[Core0] \notin SendPoints
  BY <1>1 DEF Reached, MutualExclusion, SendPoints
<1>3. message[c] \in Messages
  BY DEF Reached, Typed, Holding
<1>4. Payload(SizeOf(message[c])) \in Nat
  BY <1>3, SizeOfRange, ByteCapNat, SMT
<1>5. QED
  BY <1>2, <1>3, <1>4, NoMessageAssumption DEF InHand, NewLine

LEMMA DropImplements ==
    ASSUME Reached, NEW c \in Cores, DropOldest(c)
    PROVE  Log!Next
<1>1. pc[c] = "make_room" /\ UNCHANGED <<pc, message, tx>>
  BY DEF DropOldest
<1>2. pc[Core0] \notin SendPoints /\ InHand[c] = NewLine(c) /\ InHand[c] # NoMessage
  BY <1>1, NotReplying
<1>3. Shown = Live /\ Shown' = Live' /\ Handed = <<>> /\ Handed' = <<>>
  BY <1>1, <1>2 DEF Shown, Handed, SendPoints
<1>4. InHand' = InHand
  BY <1>1 DEF InHand, NewLine
<1>5. Live # <<>> /\ Live' = Tail(Live)
  BY LiveOfDrop DEF Reached
<1>6. Len(Live) = count /\ Log!Chars(Live) = byte_count /\ InHand[c][2] = Payload(SizeOf(message[c]))
  BY <1>2, LiveIsLines DEF Reached, Typed, ByteCountExact, NewLine
<1>7. ~(Len(Live) < LineCount /\ Log!Chars(Live) + InHand[c][2] <= ByteCap)
  BY <1>6 DEF DropOldest, RoomFor
<1> HIDE DEF Live, InHand
<1>8. Log!Evict(c)
  BY <1>2, <1>3, <1>4, <1>5, <1>7, AbstractEvict
<1>9. QED
  BY <1>8 DEF Log!Next

LEMMA WriteImplements ==
    ASSUME Reached, NEW c \in Cores, WriteLine(c)
    PROVE  Log!Next
<1>1. /\ pc[c] = "make_room" /\ pc' = [pc EXCEPT ![c] = "log_unlock"] /\ tx' = tx
      /\ message' = [message EXCEPT ![c] = NoMessage]
      /\ pc \in [Cores -> Points] /\ message \in [Cores -> Messages \cup {NoMessage}]
      /\ count \in 0 .. LineCount
  BY DEF WriteLine, Goto, Reached, Typed, TypeOK
<1>2. pc[Core0] \notin SendPoints /\ InHand[c] = NewLine(c) /\ InHand[c] # NoMessage
  BY <1>1, NotReplying
<1>3. pc'[Core0] \notin SendPoints
  BY <1>1, <1>2 DEF SendPoints
<1>4. Shown = Live /\ Shown' = Live' /\ Handed = <<>> /\ Handed' = <<>>
  BY <1>2, <1>3 DEF Shown, Handed, SendPoints
<1>5. InHand' = [InHand EXCEPT ![c] = NoMessage]
  BY <1>1 DEF InHand, NewLine
<1>6. Live' = Append(Live, InHand[c])
  BY <1>2, LiveOfWrite DEF Reached
<1>7. Len(Live) = count /\ Log!Chars(Live) = byte_count /\ InHand[c][2] = Payload(SizeOf(message[c]))
  BY <1>2, LiveIsLines DEF Reached, Typed, ByteCountExact, NewLine
<1>8. Len(Live) < LineCount /\ Log!Chars(Live) + InHand[c][2] <= ByteCap
  BY <1>1, <1>7 DEF WriteLine, RoomFor
<1> HIDE DEF Live, InHand
<1>9. Log!Store(c)
  BY <1>2, <1>4, <1>5, <1>6, <1>8, AbstractStore
<1>10. QED
  BY <1>9 DEF Log!Next

(* The steps that change neither the ring nor what a core has in hand, nor *)
(* take core 0 past the end of a reply, are none of the abstract log's.    *)
LEMMA SilentStep ==
    ASSUME Reached, UNCHANGED <<ring, message>>,
           pc[Core0] \notin {"trailer", "sent"}, pc'[Core0] \notin {"trailer", "sent"}
    PROVE  UNCHANGED Log!vars
<1>1. Live' = Live
  BY LiveKept
<1>2. Shown' = Shown /\ Handed' = Handed
  BY <1>1 DEF Shown, Handed
<1>3. InHand' = InHand
  BY DEF InHand, NewLine
<1>4. QED
  BY <1>2, <1>3, AbstractStutter

(* A core that takes or gives back the mutex does neither. *)
LEMMA LockImplements ==
    ASSUME Reached, NEW c \in Cores, LogLock(c) \/ LogUnlock(c)
    PROVE  UNCHANGED Log!vars
<1>1. /\ UNCHANGED <<ring, message, tx>>
      /\ pc \in [Cores -> Points]
      /\ pc[c] \in {"log_lock", "log_unlock"}
      /\ pc' = [pc EXCEPT ![c] = "make_room"] \/ pc' = [pc EXCEPT ![c] = "idle"]
  BY DEF LogLock, LogUnlock, Acquire, Release, Goto, Reached, Typed, TypeOK
<1>2. Live' = Live
  BY <1>1, LiveKept
<1>3. (pc'[Core0] = "trailer" <=> pc[Core0] = "trailer") /\ (pc'[Core0] = "sent" <=> pc[Core0] = "sent")
  BY <1>1
<1>4. Shown' = Shown /\ Handed' = Handed
  BY <1>1, <1>2, <1>3 DEF Shown, Handed
<1>5. InHand' = InHand
  BY <1>1 DEF InHand, NewLine
<1>6. QED
  BY <1>4, <1>5, AbstractStutter

(* Core 0's way from GET_LOG to the header, and the printing, show nothing *)
(* to the abstract log ...                                                 *)
LEMMA PrintImplements ==
    ASSUME Reached, SendCall \/ SendLock \/ SendLength \/ FlushLine \/ (SendHeader /\ count # 0)
    PROVE  UNCHANGED Log!vars
<1>1. /\ UNCHANGED <<ring, message>>
      /\ pc[Core0] \notin {"trailer", "sent"} /\ pc'[Core0] \notin {"trailer", "sent"}
  BY DEF SendCall, SendLock, SendLength, FlushLine, SendHeader, Acquire, Goto, Reached, Typed, TypeOK
<1>2. QED
  BY <1>1, SilentStep

(* ... nor does the draining of the ring, which has been printed then, or  *)
(* that of an empty ring.                                                  *)
LEMMA DrainImplements ==
    ASSUME Reached, FlushReset \/ (SendHeader /\ count = 0)
    PROVE  UNCHANGED Log!vars
<1>1. /\ message' = message /\ pc \in [Cores -> Points]
      /\ pc[Core0] \in {"flush", "crc"} /\ pc'[Core0] = "trailer"
      /\ tx'.lines = tx.lines
  BY DEF FlushReset, SendHeader, Goto, Reached, Typed, TypeOK
<1>2. Live = tx.lines
  <2>1. CASE FlushReset
    BY <2>1, AllPrinted DEF Reached
  <2>2. CASE SendHeader /\ count = 0
    <3>1. tx.lines = <<>>
      BY <2>2 DEF SendHeader, Goto, Reached, Replying
    <3>2. QED
      BY <2>2, <3>1 DEF Live
  <2>3. QED
    BY <2>1, <2>2
<1>3. Shown = tx.lines /\ Shown' = tx.lines /\ Handed = <<>> /\ Handed' = <<>>
  BY <1>1, <1>2 DEF Shown, Handed
<1>4. InHand' = InHand
  BY <1>1 DEF InHand, NewLine
<1>5. QED
  BY <1>3, <1>4, AbstractStutter

LEMMA TrailerImplements ==
    ASSUME Reached, SendTrailer
    PROVE  Log!Next
<1>1. /\ UNCHANGED <<ring, message, tx>>
      /\ pc \in [Cores -> Points] /\ pc[Core0] = "trailer" /\ pc'[Core0] = "sent"
      /\ count = 0
  BY DEF SendTrailer, Goto, Reached, Announcing, Typed, TypeOK
<1>2. Live = <<>>
  BY <1>1 DEF Live
<1>3. Live' = Live
  BY <1>1, LiveKept
<1>4. Handed = <<>> /\ Shown = tx.lines /\ Handed' = tx.lines /\ Shown' = <<>>
  BY <1>1, <1>2, <1>3 DEF Handed, Shown
<1>5. InHand' = InHand
  BY <1>1 DEF InHand, NewLine
<1>6. Log!Deliver
  BY <1>4, <1>5, AbstractDeliver
<1>7. QED
  BY <1>6 DEF Log!Next

LEMMA UnlockImplements ==
    ASSUME Reached, SendUnlock
    PROVE  Log!Next
<1>1. /\ UNCHANGED <<ring, message>>
      /\ pc \in [Cores -> Points] /\ pc[Core0] = "sent" /\ pc'[Core0] = "idle"
  BY DEF SendUnlock, Release, Goto, Reached, Typed, TypeOK
<1>2. Live' = Live
  BY <1>1, LiveKept
<1>3. Handed' = <<>> /\ Shown' = Shown
  BY <1>1, <1>2 DEF Handed, Shown
<1>4. InHand' = InHand
  BY <1>1 DEF InHand, NewLine
<1>5. Log!Finish
  BY <1>3, <1>4, AbstractFinish
<1>6. QED
  BY <1>5 DEF Log!Next

LEMMA NextImplements == Reached /\ [Next]_vars => [Log!Next]_(Log!vars)
<1> SUFFICES ASSUME Reached, [Next]_vars PROVE Log!Next \/ UNCHANGED Log!vars
  OBVIOUS
<1>1. ASSUME NEW c \in Cores, NEW m \in Messages, LogCall(c, m) PROVE Log!Next
  BY <1>1, CallImplements
<1>2. ASSUME NEW c \in Cores, DropOldest(c) PROVE Log!Next
  BY <1>2, DropImplements
<1>3. ASSUME NEW c \in Cores, WriteLine(c) PROVE Log!Next
  BY <1>3, WriteImplements
<1>4. ASSUME NEW c \in Cores, LogLock(c) \/ LogUnlock(c) PROVE UNCHANGED Log!vars
  BY <1>4, LockImplements
<1>5. CASE SendCall \/ SendLock \/ SendLength \/ FlushLine
  BY <1>5, PrintImplements
<1>6. CASE SendHeader
  BY <1>6, PrintImplements, DrainImplements
<1>7. CASE FlushReset
  BY <1>7, DrainImplements
<1>8. CASE SendTrailer
  BY <1>8, TrailerImplements
<1>9. CASE SendUnlock
  BY <1>9, UnlockImplements
<1>10. CASE UNCHANGED vars
  <2>1. UNCHANGED <<ring, message, tx, pc>> /\ Live' = Live
    BY <1>10, LiveKept DEF vars
  <2>2. Shown' = Shown /\ Handed' = Handed /\ InHand' = InHand
    BY <2>1 DEF Shown, Handed, InHand, NewLine
  <2>3. QED
    BY <2>2, AbstractStutter
<1>11. QED
  BY <1>1, <1>2, <1>3, <1>4, <1>5, <1>6, <1>7, <1>8, <1>9, <1>10 DEF Next, LogStep, SendStep

(* The ring implements the abstract log: a line is lost only to make room, *)
(* oldest first, and a GET_LOG reply is one moment's whole log.            *)
THEOREM AbstractLogImplemented == Spec => ImplementsAbstractLog
<1>1. Init => Log!Init
  <2> SUFFICES ASSUME Init PROVE Log!Init
    OBVIOUS
  <2>1. Live = <<>> /\ pc[Core0] = "idle" /\ \A c \in Cores : message[c] = NoMessage
    BY DEF Init, Live
  <2>2. QED
    BY <2>1, AbstractInit DEF Shown, InHand, Handed
<1>2. QED
  BY <1>1, NextImplements, AlwaysReached, PTL DEF Spec, ImplementsAbstractLog, Log!Spec
=============================================================================
