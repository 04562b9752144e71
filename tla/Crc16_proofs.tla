---------------------------- MODULE Crc16_proofs ----------------------------
(***************************************************************************)
(* That crc16_ccitt is a division of polynomials, and so detects every     *)
(* burst of up to 16 bits, in frames of any length and content.            *)
(***************************************************************************)
EXTENDS Crc16, WellFoundedInduction, TLAPS

Below == OpToRel(<, Nat)

(* A set of natural numbers has a least element, and a greatest if it is   *)
(* bounded.                                                                *)
LEMMA LeastNumber ==
    ASSUME NEW S, S \subseteq Nat, S # {}
    PROVE  \E n \in S : \A m \in S : n <= m
<1>1. IsWellFoundedOn(Below, Nat)
  BY NatLessThanWellFounded DEF Below
<1>2. \A x, y \in Nat : y < x => <<y, x>> \in Below
  BY DEF OpToRel, Below
<1>3. PICK x \in S : \A y \in S : ~ (<<y, x>> \in Below)
  BY <1>1, WFMin
<1>4. x \in Nat /\ \A y \in S : y \in Nat
  OBVIOUS
<1>5. \A y \in S : ~(y < x)
  BY <1>2, <1>3, <1>4
<1> QED
  BY <1>4, <1>5

LEMMA GreatestNumber ==
    ASSUME NEW n \in Int, NEW S, S \subseteq 0 .. n, S # {}
    PROVE  \E k \in S : \A m \in S : m <= k
<1> DEFINE T == {i \in Nat : n - i \in S}
<1>1. T # {}
  <2>1. PICK k \in S : k \in 0 .. n
    OBVIOUS
  <2>2. n - k \in Nat /\ n - (n - k) = k
    BY <2>1
  <2> QED
    BY <2>2
<1>2. PICK i \in T : \A j \in T : i <= j
  BY <1>1, LeastNumber
<1>3. n - i \in S /\ i \in Nat
  OBVIOUS
<1>4. ASSUME NEW m \in S
      PROVE  m <= n - i
  <2>1. m \in 0 .. n
    OBVIOUS
  <2>2. n - m \in Nat /\ n - (n - m) = m
    BY <2>1
  <2>3. n - m \in T
    BY <2>2
  <2> HIDE DEF T
  <2>4. i <= n - m
    BY <1>2, <2>3
  <2> QED
    BY <1>3, <2>1, <2>4
<1> QED
  BY <1>3, <1>4

-----------------------------------------------------------------------------
(* Sets of exponents *)

LEMMA PlusIs == \A p, q, k : k \in Plus(p, q) <=> ((k \in p) # (k \in q))
BY DEF Plus

LEMMA ShiftedIs ==
    ASSUME NEW p, p \subseteq Int, NEW n \in Int
    PROVE  Shifted(p, n) \subseteq Int /\ \A k \in Int : k \in Shifted(p, n) <=> k - n \in p
<1>1. Shifted(p, n) \subseteq Int
  BY DEF Shifted
<1>2. ASSUME NEW k \in Int, k \in Shifted(p, n) PROVE k - n \in p
  <2>1. PICK i \in p : k = i + n
    BY <1>2 DEF Shifted
  <2>2. i \in Int /\ k - n = i
    BY <2>1
  <2> QED
    BY <2>2
<1>3. ASSUME NEW k \in Int, k - n \in p PROVE k \in Shifted(p, n)
  <2>1. k = (k - n) + n
    OBVIOUS
  <2> QED
    BY <1>3, <2>1 DEF Shifted
<1> QED
  BY <1>1, <1>2, <1>3

(* Membership of the divisor's multiples. *)
Odd4(a, b, c, d) == ((a # b) # (c # d))

LEMMA TimesIs ==
    ASSUME NEW p, p \subseteq Int
    PROVE  /\ TimesDivisor(p) \subseteq Int
           /\ \A k \in Int : k \in TimesDivisor(p)
                 <=> Odd4(k - 16 \in p, k - 12 \in p, k - 5 \in p, k \in p)
<1>1. /\ Shifted(p, 16) \subseteq Int /\ \A k \in Int : k \in Shifted(p, 16) <=> k - 16 \in p
      /\ Shifted(p, 12) \subseteq Int /\ \A k \in Int : k \in Shifted(p, 12) <=> k - 12 \in p
      /\ Shifted(p, 5) \subseteq Int /\ \A k \in Int : k \in Shifted(p, 5) <=> k - 5 \in p
  <2>1. 16 \in Int /\ 12 \in Int /\ 5 \in Int
    OBVIOUS
  <2>2. Shifted(p, 16) \subseteq Int /\ \A k \in Int : k \in Shifted(p, 16) <=> k - 16 \in p
    BY <2>1, ShiftedIs
  <2>3. Shifted(p, 12) \subseteq Int /\ \A k \in Int : k \in Shifted(p, 12) <=> k - 12 \in p
    BY <2>1, ShiftedIs
  <2>4. Shifted(p, 5) \subseteq Int /\ \A k \in Int : k \in Shifted(p, 5) <=> k - 5 \in p
    BY <2>1, ShiftedIs
  <2> QED
    BY <2>2, <2>3, <2>4
<1>2. TimesDivisor(p) \subseteq Int
  BY <1>1 DEF TimesDivisor, Plus
<1>3. ASSUME NEW k \in Int
      PROVE  k \in TimesDivisor(p) <=> Odd4(k - 16 \in p, k - 12 \in p, k - 5 \in p, k \in p)
  <2>1. k \in TimesDivisor(p)
          <=> Odd4(k \in Shifted(p, 16), k \in Shifted(p, 12), k \in Shifted(p, 5), k \in p)
    BY DEF TimesDivisor, Plus, Odd4
  <2>2. /\ k \in Shifted(p, 16) <=> k - 16 \in p
        /\ k \in Shifted(p, 12) <=> k - 12 \in p
        /\ k \in Shifted(p, 5) <=> k - 5 \in p
    BY <1>1
  <2> QED
    BY <2>1, <2>2 DEF Odd4
<1> QED
  BY <1>2, <1>3

-----------------------------------------------------------------------------
(* Frames *)

LEMMA FrameIs ==
    ASSUME NEW bytes \in Seq(SUBSET (0 .. 7))
    PROVE  \A m : m \in Frame(bytes)
              <=> \E i \in 1 .. Len(bytes) : \E e \in bytes[i] : m = e + 8 * (Len(bytes) - i)
<1>1. DOMAIN bytes = 1 .. Len(bytes)
  OBVIOUS
<1>2. Frame(bytes) = UNION {Shifted(bytes[i], 8 * (Len(bytes) - i)) : i \in 1 .. Len(bytes)}
  BY <1>1 DEF Frame
<1>3. \A i, m : m \in Shifted(bytes[i], 8 * (Len(bytes) - i))
          <=> \E e \in bytes[i] : m = e + 8 * (Len(bytes) - i)
  BY DEF Shifted
<1>4. ASSUME NEW m
      PROVE  m \in Frame(bytes)
               <=> \E i \in 1 .. Len(bytes) : m \in Shifted(bytes[i], 8 * (Len(bytes) - i))
  BY <1>2, Zenon
<1>5. ASSUME NEW m
      PROVE  (\E i \in 1 .. Len(bytes) : m \in Shifted(bytes[i], 8 * (Len(bytes) - i)))
               <=> \E i \in 1 .. Len(bytes) : \E e \in bytes[i] : m = e + 8 * (Len(bytes) - i)
  <2> DEFINE Holds(i) == m \in Shifted(bytes[i], 8 * (Len(bytes) - i))
             Has(i) == \E e \in bytes[i] : m = e + 8 * (Len(bytes) - i)
  <2>1. \A i : Holds(i) <=> Has(i)
    BY <1>3
  <2> HIDE DEF Holds, Has
  <2>2. (\E i \in 1 .. Len(bytes) : Holds(i)) <=> (\E i \in 1 .. Len(bytes) : Has(i))
    BY <2>1
  <2> QED
    BY <2>2 DEF Holds, Has
<1> QED
  BY <1>4, <1>5, Zenon

(* What a byte is: *)
Bits(x) == x \subseteq 0 .. 7

LEMMA FramePlace ==
    ASSUME NEW n \in Nat, NEW i \in 1 .. n, NEW x, Bits(x), NEW e \in x
    PROVE  /\ e \in 0 .. 7
           /\ e + 8 * (n - i) \in Nat
           /\ (e + 8 * (n + 1 - i)) - 8 = e + 8 * (n - i)
<1>1. e \in 0 .. 7
  BY DEF Bits
<1> QED
  BY <1>1

LEMMA FrameAppend ==
    ASSUME NEW bytes \in Seq(SUBSET (0 .. 7)), NEW x \in SUBSET (0 .. 7)
    PROVE  /\ Frame(bytes) \subseteq Nat
           /\ \A m \in Int : m \in Frame(Append(bytes, x)) <=> ((m - 8 \in Frame(bytes)) # (m \in x))
<1> DEFINE n == Len(bytes)
           more == Append(bytes, x)
<1>1. n \in Nat /\ Len(more) = n + 1
  OBVIOUS
<1>2. more[n + 1] = x /\ \A i \in 1 .. n : more[i] = bytes[i]
  OBVIOUS
<1>3. \A i \in 1 .. n : Bits(bytes[i])
  BY DEF Bits
<1>4. Bits(x)
  BY DEF Bits
<1>5. more \in Seq(SUBSET (0 .. 7))
  OBVIOUS
<1>6. \A m : m \in Frame(bytes) <=> \E i \in 1 .. n : \E e \in bytes[i] : m = e + 8 * (n - i)
  BY FrameIs
<1>7. \A m : m \in Frame(more)
          <=> \E i \in 1 .. Len(more) : \E e \in more[i] : m = e + 8 * (Len(more) - i)
  BY <1>5, FrameIs
<1>8. \A m : m \in Frame(more) <=> \E i \in 1 .. n + 1 : \E e \in more[i] : m = e + 8 * (n + 1 - i)
  BY <1>1, <1>7
<1> DEFINE old == Frame(bytes)
           new == Frame(more)
           Byte(i) == bytes[i]
           ByteOfMore(i) == more[i]
<1>10. n \in Nat
  BY <1>1
<1>11. ByteOfMore(n + 1) = x /\ \A i \in 1 .. n : ByteOfMore(i) = Byte(i)
  BY <1>2
<1>12. \A i \in 1 .. n : Bits(Byte(i))
  BY <1>3
<1>13. \A m : m \in old <=> \E i \in 1 .. n : \E e \in Byte(i) : m = e + 8 * (n - i)
  BY <1>6
<1>14. \A m : m \in new <=> \E i \in 1 .. n + 1 : \E e \in ByteOfMore(i) : m = e + 8 * (n + 1 - i)
  BY <1>8
<1>15. SUFFICES old \subseteq Nat /\ \A m \in Int : m \in new <=> ((m - 8 \in old) # (m \in x))
  OBVIOUS
<1> HIDE DEF n, more, old, new, Byte, ByteOfMore
<1>16. old \subseteq Nat
  <2>1. ASSUME NEW m \in old PROVE m \in Nat
    <3>1. PICK i \in 1 .. n : \E e \in Byte(i) : m = e + 8 * (n - i)
      BY <1>13
    <3>2. PICK e \in Byte(i) : m = e + 8 * (n - i)
      BY <3>1
    <3> QED
      BY <1>10, <1>12, <3>2, FramePlace
  <2> QED
    BY <2>1
<1>17. ASSUME NEW m \in Int, m \in new
       PROVE  (m - 8 \in old) # (m \in x)
  <2>1. PICK i \in 1 .. n + 1 : \E e \in ByteOfMore(i) : m = e + 8 * (n + 1 - i)
    BY <1>14, <1>17
  <2>2. PICK e \in ByteOfMore(i) : m = e + 8 * (n + 1 - i)
    BY <2>1
  <2>3. CASE i = n + 1
    <3>1. e \in x
      BY <1>11, <2>3
    <3>2. e \in 0 .. 7
      BY <1>4, <3>1 DEF Bits
    <3>3. m = e
      BY <1>10, <2>2, <2>3, <3>2
    <3>4. m - 8 \notin Nat
      BY <3>2, <3>3
    <3> QED
      BY <1>16, <3>1, <3>3, <3>4
  <2>4. CASE i \in 1 .. n
    <3>1. e \in Byte(i)
      BY <1>11, <2>4
    <3>2. /\ e \in 0 .. 7
          /\ e + 8 * (n - i) \in Nat
          /\ (e + 8 * (n + 1 - i)) - 8 = e + 8 * (n - i)
      BY <1>10, <1>12, <2>4, <3>1, FramePlace
    <3>3. m - 8 = e + 8 * (n - i)
      BY <2>2, <3>2
    <3>4. m - 8 \in old
      BY <1>13, <2>4, <3>1, <3>3
    <3>5. m - 8 \in Nat
      BY <3>2, <3>3
    <3>6. m \notin 0 .. 7
      BY <3>5
    <3> QED
      BY <1>4, <3>4, <3>6 DEF Bits
  <2> QED
    BY <1>10, <2>3, <2>4
<1>18. ASSUME NEW m \in Int, m - 8 \in old
       PROVE  m \in new
  <2>1. PICK i \in 1 .. n : \E e \in Byte(i) : m - 8 = e + 8 * (n - i)
    BY <1>13, <1>18
  <2>2. PICK e \in Byte(i) : m - 8 = e + 8 * (n - i)
    BY <2>1
  <2>3. e \in 0 .. 7
    BY <1>12, <2>1, <2>2, <1>10, FramePlace
  <2>4. m = e + 8 * (n + 1 - i) /\ i \in 1 .. n + 1
    BY <1>10, <2>2, <2>3
  <2>5. e \in ByteOfMore(i)
    BY <1>11, <2>2
  <2> QED
    BY <1>14, <2>4, <2>5
<1>19. ASSUME NEW m \in Int, m \in x
       PROVE  m \in new
  <2>1. m = m + 8 * (n + 1 - (n + 1)) /\ n + 1 \in 1 .. n + 1
    BY <1>10
  <2>2. m \in ByteOfMore(n + 1)
    BY <1>11, <1>19
  <2> QED
    BY <1>14, <2>1, <2>2
<1> QED
  BY <1>16, <1>17, <1>18, <1>19

-----------------------------------------------------------------------------
(* The division *)

LEMMA DividendIs ==
    ASSUME NEW bytes \in Seq(SUBSET (0 .. 7))
    PROVE  /\ Dividend(bytes) \subseteq Int
           /\ \A k \in Int : k \in Dividend(bytes)
                 <=> ((k - 16 \in Frame(bytes)) # (k - 8 * Len(bytes) \in 0 .. 15))
<1> DEFINE shifted == Shifted(Frame(bytes), 16)
           initial == Shifted(CRC16_INIT, 8 * Len(bytes))
           n == 8 * Len(bytes)
<1>1. shifted \subseteq Int /\ \A k \in Int : k \in shifted <=> k - 16 \in Frame(bytes)
  <2>1. Frame(bytes) \subseteq Int /\ 16 \in Int
    BY FrameAppend
  <2> QED
    BY <2>1, ShiftedIs
<1>2. initial \subseteq Int /\ \A k \in Int : k \in initial <=> k - n \in 0 .. 15
  <2>1. CRC16_INIT \subseteq Int /\ n \in Int /\ CRC16_INIT = 0 .. 15
    BY DEF CRC16_INIT
  <2> QED
    BY <2>1, ShiftedIs
<1>3. Dividend(bytes) = Plus(shifted, initial)
  BY DEF Dividend
<1> HIDE DEF shifted, initial
<1>4. Dividend(bytes) \subseteq Int
  BY <1>1, <1>2, <1>3 DEF Plus
<1>5. ASSUME NEW k \in Int
      PROVE  k \in Dividend(bytes) <=> ((k - 16 \in Frame(bytes)) # (k - n \in 0 .. 15))
  <2>1. k \in Dividend(bytes) <=> ((k \in shifted) # (k \in initial))
    BY <1>3 DEF Plus
  <2>2. k \in shifted <=> k - 16 \in Frame(bytes)
    BY <1>1
  <2>3. k \in initial <=> k - n \in 0 .. 15
    BY <1>2
  <2> QED
    BY <2>1, <2>2, <2>3
<1> QED
  BY <1>4, <1>5

(* What the turns so far have divided: with j turns of the byte left, the  *)
(* quotient and the checksum stand j places further to the left.           *)
Divided(bytes, q, c, j) ==
    \A k \in Int : k \in Dividend(bytes) <=> ((k - j \in TimesDivisor(q)) # (k - j \in c))

LEMMA DividedAtFirst == Divided(<<>>, {}, CRC16_INIT, 0)
<1>1. <<>> \in Seq(SUBSET (0 .. 7)) /\ Len(<<>>) = 0
  OBVIOUS
<1>2. \A k \in Int : k \in Dividend(<<>>) <=> ((k - 16 \in Frame(<<>>)) # (k - 8 * Len(<<>>) \in 0 .. 15))
  BY <1>1, DividendIs
<1>3. \A m : m \notin Frame(<<>>)
  <2>1. \A m : m \in Frame(<<>>)
           <=> \E i \in 1 .. Len(<<>>) : \E e \in <<>>[i] : m = e + 8 * (Len(<<>>) - i)
    BY <1>1, FrameIs
  <2>2. 1 .. Len(<<>>) = {}
    BY <1>1
  <2> QED
    BY <2>1, <2>2
<1>4. \A k \in Int : k - 0 \notin TimesDivisor({})
  <2>1. {} \subseteq Int
    OBVIOUS
  <2>2. \A k \in Int : k \in TimesDivisor({})
           <=> Odd4(k - 16 \in {}, k - 12 \in {}, k - 5 \in {}, k \in {})
    BY <2>1, TimesIs
  <2> QED
    BY <2>2 DEF Odd4
<1>5. 8 * Len(<<>>) = 0
  BY <1>1
<1>6. \A k \in Int : k \in Dividend(<<>>) <=> k - 0 \in 0 .. 15
  BY <1>2, <1>3, <1>5
<1> QED
  BY <1>4, <1>6 DEF Divided, CRC16_INIT

LEMMA AddByteDivides ==
    ASSUME NEW bytes \in Seq(SUBSET (0 .. 7)), NEW x \in SUBSET (0 .. 7),
           NEW c \in SUBSET (0 .. 15), NEW q, Divided(bytes, q, c, 0)
    PROVE  Divided(Append(bytes, x), q, Plus(c, Shifted(x, 8)), 8)
<1> DEFINE more == Append(bytes, x)
           n == Len(bytes)
           sum == Plus(c, Shifted(x, 8))
<1>1. n \in Nat /\ Len(more) = n + 1 /\ more \in Seq(SUBSET (0 .. 7))
  OBVIOUS
<1>2. \A m \in Int : m \in Frame(more) <=> ((m - 8 \in Frame(bytes)) # (m \in x))
  BY FrameAppend
<1>3. \A k \in Int : k \in Dividend(bytes) <=> ((k - 16 \in Frame(bytes)) # (k - 8 * n \in 0 .. 15))
  BY DividendIs
<1>4. \A k \in Int : k \in Dividend(more) <=> ((k - 16 \in Frame(more)) # (k - 8 * Len(more) \in 0 .. 15))
  BY <1>1, DividendIs
<1>5. \A k \in Int : k \in sum <=> ((k \in c) # (k - 8 \in x))
  <2>1. x \subseteq Int /\ 8 \in Int
    OBVIOUS
  <2>2. \A k \in Int : k \in Shifted(x, 8) <=> k - 8 \in x
    BY <2>1, ShiftedIs
  <2>3. ASSUME NEW k \in Int PROVE k \in sum <=> ((k \in c) # (k - 8 \in x))
    <3>1. k \in sum <=> ((k \in c) # (k \in Shifted(x, 8)))
      BY DEF Plus
    <3>2. k \in Shifted(x, 8) <=> k - 8 \in x
      BY <2>2
    <3> QED
      BY <3>1, <3>2
  <2> QED
    BY <2>3
<1>6. \A k \in Int : k \in Dividend(bytes) <=> ((k - 0 \in TimesDivisor(q)) # (k - 0 \in c))
  BY DEF Divided
<1> HIDE DEF more, n, sum
<1>7. ASSUME NEW k \in Int
      PROVE  k \in Dividend(more) <=> ((k - 8 \in TimesDivisor(q)) # (k - 8 \in sum))
  <2>1. k - 16 \in Int /\ k - 8 \in Int /\ (k - 16) - 8 = (k - 8) - 16
    OBVIOUS
  <2>2. k - 8 * Len(more) = (k - 8) - 8 * n /\ (k - 8) - 0 = k - 8 /\ (k - 8) - 8 = k - 16
    BY <1>1
  <2>3. k - 16 \in Frame(more) <=> (((k - 8) - 16 \in Frame(bytes)) # (k - 16 \in x))
    BY <1>2, <2>1
  <2>4. k \in Dividend(more) <=> ((k - 16 \in Frame(more)) # ((k - 8) - 8 * n \in 0 .. 15))
    BY <1>4, <2>2
  <2>5. k - 8 \in Dividend(bytes) <=> (((k - 8) - 16 \in Frame(bytes)) # ((k - 8) - 8 * n \in 0 .. 15))
    BY <1>3, <2>1
  <2>6. k - 8 \in Dividend(bytes) <=> ((k - 8 \in TimesDivisor(q)) # (k - 8 \in c))
    BY <1>6, <2>1, <2>2
  <2>7. k - 8 \in sum <=> ((k - 8 \in c) # (k - 16 \in x))
    BY <1>5, <2>1, <2>2
  <2> QED
    BY <2>3, <2>4, <2>5, <2>6, <2>7
<1> QED
  BY <1>7 DEF Divided, more, sum

(* A turn takes the digit the top bit is, in the quotient and from what is *)
(* left.                                                                   *)
Digit(c) == {0 : bit \in c \cap {15}}

LEMMA DigitIs == \A c, k : k \in Digit(c) <=> (k = 0 /\ 15 \in c)
BY DEF Digit

LEMMA ShiftBitIs ==
    ASSUME NEW c \in SUBSET (0 .. 15)
    PROVE  /\ ShiftBit(c) \subseteq 0 .. 15
           /\ \A i \in Int : i \in ShiftBit(c)
                 <=> ((i # 16 /\ i - 1 \in c) # (15 \in c /\ i \in {0, 5, 12}))
<1> DEFINE doubled == Shifted(c, 1) \ {16}
<1>1. Shifted(c, 1) \subseteq Int /\ \A i \in Int : i \in Shifted(c, 1) <=> i - 1 \in c
  <2>1. c \subseteq Int /\ 1 \in Int
    OBVIOUS
  <2> QED
    BY <2>1, ShiftedIs
<1>2. doubled \subseteq Int /\ \A i \in Int : i \in doubled <=> (i # 16 /\ i - 1 \in c)
  BY <1>1
<1>3. doubled \subseteq 0 .. 15
  <2>1. ASSUME NEW i \in doubled PROVE i \in 0 .. 15
    <3>1. i \in Int /\ i # 16 /\ i - 1 \in c
      BY <1>2
    <3>2. i - 1 \in 0 .. 15
      BY <3>1
    <3> QED
      BY <3>1, <3>2
  <2> QED
    BY <2>1
<1>4. ShiftBit(c) = IF 15 \in c THEN Plus(doubled, {0, 5, 12}) ELSE doubled
  BY DEF ShiftBit, POLY
<1> HIDE DEF doubled
<1>5. CASE 15 \in c
  BY <1>2, <1>3, <1>4, <1>5 DEF Plus
<1>6. CASE 15 \notin c
  BY <1>2, <1>3, <1>4, <1>6
<1> QED
  BY <1>5, <1>6

(* The divisor has the exponents 16, 12, 5 and 0: the digit takes the top  *)
(* bit away, and puts 0x1021 in.                                           *)
LEMMA TurnDivides ==
    ASSUME NEW bytes, NEW q \in SUBSET Nat, NEW c \in SUBSET (0 .. 15), NEW j \in Nat \ {0},
           Divided(bytes, q, c, j)
    PROVE  Divided(bytes, Shifted(q, 1) \cup Digit(c), ShiftBit(c), j - 1)
<1> DEFINE r == Shifted(q, 1) \cup Digit(c)
           d == ShiftBit(c)
           Top == 15 \in c
<1>1. r \subseteq Int /\ \A i \in Int : i \in r <=> ((i - 1 \in q) # (i = 0 /\ Top))
  <2>1. q \subseteq Int /\ 1 \in Int
    OBVIOUS
  <2>2. Shifted(q, 1) \subseteq Int /\ \A i \in Int : i \in Shifted(q, 1) <=> i - 1 \in q
    BY <2>1, ShiftedIs
  <2>3. \A i \in Int : i \in Digit(c) <=> (i = 0 /\ Top)
    BY DigitIs
  <2>4. Digit(c) \subseteq Int
    BY DEF Digit
  <2>5. 0 - 1 \notin q
    OBVIOUS
  <2> HIDE DEF Top
  <2>6. ASSUME NEW i \in Int PROVE i \in r <=> ((i - 1 \in q) # (i = 0 /\ Top))
    <3>1. i \in r <=> (i \in Shifted(q, 1) \/ i \in Digit(c))
      OBVIOUS
    <3>2. i \in Shifted(q, 1) <=> i - 1 \in q
      BY <2>2
    <3>3. i \in Digit(c) <=> (i = 0 /\ Top)
      BY <2>3
    <3>4. i = 0 => i - 1 \notin q
      BY <2>5
    <3> QED
      BY <3>1, <3>2, <3>3, <3>4
  <2> QED
    BY <2>2, <2>4, <2>6
<1>2. \A i \in Int : i \in TimesDivisor(q)
         <=> Odd4(i - 16 \in q, i - 12 \in q, i - 5 \in q, i \in q)
  <2>1. q \subseteq Int
    OBVIOUS
  <2> QED
    BY <2>1, TimesIs
<1>3. \A i \in Int : i \in TimesDivisor(r)
         <=> Odd4(i - 16 \in r, i - 12 \in r, i - 5 \in r, i \in r)
  BY <1>1, TimesIs
<1>4. \A i \in Int : i \in d <=> ((i # 16 /\ i - 1 \in c) # (Top /\ i \in {0, 5, 12}))
  BY ShiftBitIs
<1>5. \A k \in Int : k \in Dividend(bytes) <=> ((k - j \in TimesDivisor(q)) # (k - j \in c))
  BY DEF Divided
<1>6. Top <=> 15 \in c
  OBVIOUS
<1>7. j \in Int
  OBVIOUS
<1> DEFINE times == TimesDivisor(q)
           more == TimesDivisor(r)
           dividend == Dividend(bytes)
<1>8. SUFFICES \A k \in Int : k \in dividend <=> ((k - (j - 1) \in more) # (k - (j - 1) \in d))
  BY DEF Divided
<1> HIDE DEF r, d, Top, times, more, dividend
<1>9. ASSUME NEW i \in Int
      PROVE  ((i \in more) # (i \in d)) <=> ((i - 1 \in times) # (i - 1 \in c))
  <2>1. i \in more <=> Odd4(i - 16 \in r, i - 12 \in r, i - 5 \in r, i \in r)
    BY <1>3 DEF more
  <2>2. i - 1 \in times <=> Odd4((i - 1) - 16 \in q, (i - 1) - 12 \in q, (i - 1) - 5 \in q, i - 1 \in q)
    <3>1. i - 1 \in Int
      OBVIOUS
    <3> QED
      BY <1>2, <3>1 DEF times
  <2>3. i - 16 \in r <=> (((i - 1) - 16 \in q) # (i = 16 /\ Top))
    <3>1. i - 16 \in Int /\ (i - 16) - 1 = (i - 1) - 16 /\ (i - 16 = 0 <=> i = 16)
      OBVIOUS
    <3> QED
      BY <1>1, <3>1
  <2>4. i - 12 \in r <=> (((i - 1) - 12 \in q) # (i = 12 /\ Top))
    <3>1. i - 12 \in Int /\ (i - 12) - 1 = (i - 1) - 12 /\ (i - 12 = 0 <=> i = 12)
      OBVIOUS
    <3> QED
      BY <1>1, <3>1
  <2>5. i - 5 \in r <=> (((i - 1) - 5 \in q) # (i = 5 /\ Top))
    <3>1. i - 5 \in Int /\ (i - 5) - 1 = (i - 1) - 5 /\ (i - 5 = 0 <=> i = 5)
      OBVIOUS
    <3> QED
      BY <1>1, <3>1
  <2>6. i \in r <=> ((i - 1 \in q) # (i = 0 /\ Top))
    BY <1>1
  <2>7. i \in d <=> ((i # 16 /\ i - 1 \in c) # (Top /\ i \in {0, 5, 12}))
    BY <1>4
  <2>8. i = 16 => (i - 1 \in c <=> Top)
    BY <1>6
  <2> QED
    BY <2>1, <2>2, <2>3, <2>4, <2>5, <2>6, <2>7, <2>8 DEF Odd4
<1>10. ASSUME NEW k \in Int
       PROVE  k \in dividend <=> ((k - (j - 1) \in more) # (k - (j - 1) \in d))
  <2>1. k - (j - 1) \in Int /\ (k - (j - 1)) - 1 = k - j
    BY <1>7
  <2>2. k \in dividend <=> ((k - j \in times) # (k - j \in c))
    BY <1>5 DEF dividend, times
  <2> QED
    BY <1>9, <2>1, <2>2
<1> QED
  BY <1>10

-----------------------------------------------------------------------------
(* The invariant *)

IInv ==
    /\ TypeOK
    /\ turns > 0 => Len(frame["sender"]) > 0
    /\ \A end \in Ends : Divided(frame[end], quotient[end], crc[end], turns)

(* One end, in a state with the invariant.                                 *)
LEMMA EndTyped ==
    ASSUME IInv, NEW end \in Ends
    PROVE  /\ frame[end] \in Seq(SUBSET (0 .. 7))
           /\ Len(frame[end]) = Len(frame["sender"])
           /\ crc[end] \in SUBSET (0 .. 15)
           /\ quotient[end] \in SUBSET Nat
           /\ quotient[end] \subseteq 0 .. (8 * Len(frame[end]) - turns - 1)
           /\ turns \in 0 .. 8
           /\ Divided(frame[end], quotient[end], crc[end], turns)
<1>1. TypeOK
  BY DEF IInv
<1>2. frame[end] \in Seq(SUBSET (0 .. 7)) /\ turns \in 0 .. 8
  BY <1>1 DEF TypeOK
<1>3. crc[end] \in SUBSET (0 .. 15) /\ quotient[end] \in SUBSET Nat
  BY <1>1 DEF TypeOK
<1>4. Len(frame[end]) = Len(frame["sender"])
  BY <1>1 DEF TypeOK, Ends
<1>5. quotient[end] \subseteq 0 .. (8 * Len(frame[end]) - turns - 1)
  BY <1>1 DEF TypeOK
<1>6. Divided(frame[end], quotient[end], crc[end], turns)
  BY DEF IInv
<1> QED
  BY <1>2, <1>3, <1>4, <1>5, <1>6

LEMMA InitIInv == Init => IInv
<1> SUFFICES ASSUME Init PROVE IInv
  OBVIOUS
<1> USE DEF Init
<1>1. "sender" \in Ends /\ "receiver" \in Ends
  BY DEF Ends
<1>2. \A end \in Ends : frame[end] = <<>> /\ crc[end] = CRC16_INIT /\ quotient[end] = {}
  OBVIOUS
<1>3. Len(frame["sender"]) = 0 /\ Len(frame["receiver"]) = 0
  BY <1>1, <1>2
<1>4. frame \in [Ends -> Seq(SUBSET (0 .. 7))]
  OBVIOUS
<1>5. crc \in [Ends -> SUBSET (0 .. 15)] /\ quotient \in [Ends -> SUBSET Nat]
  BY DEF CRC16_INIT
<1>6. \A end \in Ends : quotient[end] \subseteq 0 .. (8 * Len(frame[end]) - turns - 1)
  BY <1>2
<1>7. turns = 0 /\ Length \in Nat
  BY FrameAssumption
<1>8. TypeOK
  BY <1>3, <1>4, <1>5, <1>6, <1>7 DEF TypeOK
<1>9. \A end \in Ends : Divided(frame[end], quotient[end], crc[end], turns)
  BY <1>2, <1>7, DividedAtFirst
<1> QED
  BY <1>7, <1>8, <1>9 DEF IInv

LEMMA GotTyped ==
    ASSUME NEW byte \in Bytes, NEW noise \in Noise
    PROVE  \A end \in Ends : Got(byte, noise)[end] \in SUBSET (0 .. 7)
<1>1. byte \in SUBSET (0 .. 7) /\ noise \in SUBSET (0 .. 7)
  BY FrameAssumption
<1>2. Plus(byte, noise) \in SUBSET (0 .. 7)
  BY <1>1 DEF Plus
<1> QED
  BY <1>1, <1>2 DEF Got

LEMMA SumWidth ==
    ASSUME NEW c \in SUBSET (0 .. 15), NEW x \in SUBSET (0 .. 7)
    PROVE  Plus(c, Shifted(x, 8)) \in SUBSET (0 .. 15)
<1>1. ASSUME NEW k \in Shifted(x, 8) PROVE k \in 0 .. 15
  <2>1. PICK e \in x : k = e + 8
    BY DEF Shifted
  <2>2. e \in 0 .. 7
    OBVIOUS
  <2> QED
    BY <2>1, <2>2
<1>2. Plus(c, Shifted(x, 8)) \subseteq c \cup Shifted(x, 8)
  BY DEF Plus
<1> QED
  BY <1>1, <1>2

LEMMA AddByteIInv ==
    ASSUME IInv, NEW byte \in Bytes, NEW noise \in Noise, AddByte(byte, noise)
    PROVE  IInv'
<1> DEFINE got == Got(byte, noise)
<1>1. "sender" \in Ends /\ "receiver" \in Ends
  BY DEF Ends
<1>2. TypeOK
  BY DEF IInv
<1>3. \A end \in Ends : got[end] \in SUBSET (0 .. 7)
  BY GotTyped
<1>4. /\ turns = 0 /\ Len(frame["sender"]) < Length
      /\ frame' = [end \in Ends |-> Append(frame[end], got[end])]
      /\ crc' = [end \in Ends |-> Plus(crc[end], Shifted(got[end], 8))]
      /\ turns' = 8
      /\ quotient' = quotient
  BY DEF AddByte
<1> HIDE DEF got
<1>5. ASSUME NEW end \in Ends
      PROVE  /\ frame'[end] = Append(frame[end], got[end])
             /\ frame'[end] \in Seq(SUBSET (0 .. 7))
             /\ Len(frame'[end]) = Len(frame[end]) + 1
             /\ crc'[end] = Plus(crc[end], Shifted(got[end], 8))
             /\ crc'[end] \in SUBSET (0 .. 15)
             /\ quotient'[end] \subseteq 0 .. (8 * Len(frame'[end]) - turns' - 1)
             /\ Divided(frame'[end], quotient'[end], crc'[end], turns')
  <2>1. /\ frame[end] \in Seq(SUBSET (0 .. 7))
        /\ crc[end] \in SUBSET (0 .. 15)
        /\ quotient[end] \subseteq 0 .. (8 * Len(frame[end]) - turns - 1)
        /\ Divided(frame[end], quotient[end], crc[end], turns)
    BY EndTyped
  <2>2. frame'[end] = Append(frame[end], got[end]) /\ crc'[end] = Plus(crc[end], Shifted(got[end], 8))
    BY <1>4
  <2>3. /\ frame'[end] \in Seq(SUBSET (0 .. 7))
        /\ Len(frame'[end]) = Len(frame[end]) + 1 /\ Len(frame[end]) \in Nat
    BY <1>3, <2>1, <2>2
  <2>4. crc'[end] \in SUBSET (0 .. 15)
    BY <1>3, <2>1, <2>2, SumWidth
  <2>5. 8 * Len(frame[end]) - turns - 1 = 8 * Len(frame'[end]) - turns' - 1
    BY <1>4, <2>3
  <2>6. Divided(frame'[end], quotient'[end], crc'[end], turns')
    BY <1>3, <1>4, <2>1, <2>2, AddByteDivides
  <2> QED
    BY <1>4, <2>1, <2>2, <2>3, <2>4, <2>5, <2>6
<1>6. frame' \in [Ends -> Seq(SUBSET (0 .. 7))]
  BY <1>4, <1>5
<1>7. crc' \in [Ends -> SUBSET (0 .. 15)]
  BY <1>4, <1>5
<1>8. /\ Len(frame'["sender"]) = Len(frame["sender"]) + 1
      /\ Len(frame'["receiver"]) = Len(frame["receiver"]) + 1
  BY <1>1, <1>5
<1>9. /\ Len(frame["receiver"]) = Len(frame["sender"]) /\ Len(frame["sender"]) \in Nat
      /\ quotient \in [Ends -> SUBSET Nat] /\ Length \in Nat
  BY <1>1, <1>2, FrameAssumption DEF TypeOK
<1>10. TypeOK'
  <2>1. Len(frame'["sender"]) <= Length /\ Len(frame'["receiver"]) = Len(frame'["sender"])
    <3>1. Len(frame["sender"]) + 1 <= Length
      BY <1>4, <1>9
    <3> QED
      BY <1>8, <1>9, <3>1
  <2>2. turns' \in 0 .. 8
    BY <1>4
  <2>3. quotient' \in [Ends -> SUBSET Nat]
    BY <1>4, <1>9
  <2>4. \A end \in Ends : quotient'[end] \subseteq 0 .. (8 * Len(frame'[end]) - turns' - 1)
    BY <1>5
  <2> QED
    BY <1>6, <1>7, <2>1, <2>2, <2>3, <2>4 DEF TypeOK
<1>11. (turns > 0 => Len(frame["sender"]) > 0)'
  BY <1>8, <1>9
<1> QED
  BY <1>5, <1>10, <1>11 DEF IInv

LEMMA TurnIInv == ASSUME IInv, Turn PROVE IInv'
<1>1. "sender" \in Ends /\ "receiver" \in Ends
  BY DEF Ends
<1>2. TypeOK
  BY DEF IInv
<1>3. /\ turns > 0 /\ turns' = turns - 1 /\ frame' = frame
      /\ crc' = [end \in Ends |-> ShiftBit(crc[end])]
      /\ quotient' = [end \in Ends |-> Shifted(quotient[end], 1) \cup Digit(crc[end])]
  BY DEF Turn, Digit
<1>4. turns \in 0 .. 8 /\ Len(frame["sender"]) > 0 /\ Len(frame["sender"]) \in Nat
  BY <1>1, <1>2, <1>3 DEF TypeOK, IInv
<1>5. ASSUME NEW end \in Ends
      PROVE  /\ crc'[end] \in SUBSET (0 .. 15)
             /\ quotient'[end] \in SUBSET Nat
             /\ quotient'[end] \subseteq 0 .. (8 * Len(frame'[end]) - turns' - 1)
             /\ Divided(frame'[end], quotient'[end], crc'[end], turns')
  <2>1. /\ Len(frame[end]) = Len(frame["sender"])
        /\ crc[end] \in SUBSET (0 .. 15)
        /\ quotient[end] \in SUBSET Nat
        /\ quotient[end] \subseteq 0 .. (8 * Len(frame[end]) - turns - 1)
        /\ Divided(frame[end], quotient[end], crc[end], turns)
    BY EndTyped
  <2>2. /\ crc'[end] = ShiftBit(crc[end])
        /\ quotient'[end] = Shifted(quotient[end], 1) \cup Digit(crc[end])
    BY <1>3
  <2>3. crc'[end] \in SUBSET (0 .. 15)
    BY <2>1, <2>2, ShiftBitIs
  <2> DEFINE n == Len(frame[end])
             q == quotient[end]
  <2>4. n \in Nat /\ n > 0 /\ frame'[end] = frame[end] /\ Len(frame'[end]) = n
    BY <1>3, <1>4, <2>1
  <2>5. q \subseteq 0 .. (8 * n - turns - 1)
    BY <2>1
  <2>6. quotient'[end] = Shifted(q, 1) \cup Digit(crc[end])
    BY <2>2
  <2> HIDE DEF n, q
  <2>7. ASSUME NEW i \in quotient'[end]
        PROVE  i \in 0 .. (8 * n - turns' - 1)
    <3>1. CASE i \in Shifted(q, 1)
      <4>1. PICK k \in q : i = k + 1
        BY <3>1 DEF Shifted
      <4>2. k \in 0 .. (8 * n - turns - 1)
        BY <2>5
      <4> QED
        BY <1>3, <1>4, <2>4, <4>1, <4>2
    <3>2. CASE i \in Digit(crc[end])
      <4>1. i = 0
        BY <3>2 DEF Digit
      <4>2. 8 * n - turns' - 1 \in Nat
        BY <1>3, <1>4, <2>4
      <4> QED
        BY <4>1, <4>2
    <3> QED
      BY <2>6, <3>1, <3>2
  <2>8. quotient'[end] \subseteq 0 .. (8 * Len(frame'[end]) - turns' - 1)
    BY <2>4, <2>7
  <2>9. quotient'[end] \in SUBSET Nat
    BY <2>7
  <2>10. turns \in Nat \ {0}
    BY <1>3, <1>4
  <2>11. q \in SUBSET Nat /\ Divided(frame[end], q, crc[end], turns)
    BY <2>1 DEF q
  <2>12. Divided(frame[end], Shifted(q, 1) \cup Digit(crc[end]), ShiftBit(crc[end]), turns - 1)
    BY <2>1, <2>10, <2>11, TurnDivides
  <2>13. Divided(frame'[end], quotient'[end], crc'[end], turns')
    BY <1>3, <2>2, <2>4, <2>6, <2>12
  <2> QED
    BY <2>3, <2>8, <2>9, <2>13
<1>6. crc' \in [Ends -> SUBSET (0 .. 15)] /\ quotient' \in [Ends -> SUBSET Nat]
  BY <1>3, <1>5
<1>7. turns' \in 0 .. 8
  BY <1>3, <1>4
<1>8. TypeOK'
  BY <1>2, <1>3, <1>5, <1>6, <1>7 DEF TypeOK
<1>9. (turns > 0 => Len(frame["sender"]) > 0)'
  BY <1>3, <1>4
<1> QED
  BY <1>5, <1>8, <1>9 DEF IInv

LEMMA NextIInv == IInv /\ [Next]_vars => IInv'
<1> SUFFICES ASSUME IInv, [Next]_vars PROVE IInv'
  OBVIOUS
<1>1. ASSUME NEW byte \in Bytes, NEW noise \in Noise, AddByte(byte, noise) PROVE IInv'
  BY <1>1, AddByteIInv
<1>2. CASE Turn
  BY <1>2, TurnIInv
<1>3. CASE UNCHANGED vars
  BY <1>3 DEF vars, IInv, TypeOK, Divided
<1> QED
  BY <1>1, <1>2, <1>3 DEF Next

-----------------------------------------------------------------------------
(* The checksum and the history have the values crc.c can give them.       *)
THEOREM TypeCorrect == Spec => []TypeOK
<1>1. IInv => TypeOK
  BY DEF IInv
<1> QED
  BY <1>1, InitIInv, NextIInv, PTL DEF Spec

LEMMA RemainderHolds == IInv => CrcIsRemainder
<1> SUFFICES ASSUME IInv, turns = 0, NEW end \in Ends
             PROVE  /\ Dividend(frame[end]) = Plus(TimesDivisor(quotient[end]), crc[end])
                    /\ crc[end] \subseteq 0 .. 15
  BY DEF CrcIsRemainder
<1> DEFINE b == frame[end]
           q == quotient[end]
           c == crc[end]
<1>1. b \in Seq(SUBSET (0 .. 7)) /\ c \in SUBSET (0 .. 15) /\ q \in SUBSET Nat /\ Divided(b, q, c, 0)
  BY EndTyped
<1> SUFFICES Dividend(b) = Plus(TimesDivisor(q), c) /\ c \subseteq 0 .. 15
  OBVIOUS
<1> HIDE DEF b, q, c
<1>2. Dividend(b) \subseteq Int
  BY <1>1, DividendIs
<1>3. TimesDivisor(q) \subseteq Int
  <2>1. q \subseteq Int
    BY <1>1
  <2> QED
    BY <2>1, TimesIs
<1>4. Plus(TimesDivisor(q), c) \subseteq Int
  <2>1. c \subseteq Int
    BY <1>1
  <2>2. Plus(TimesDivisor(q), c) \subseteq TimesDivisor(q) \cup c
    BY DEF Plus
  <2> QED
    BY <1>3, <2>1, <2>2
<1>5. ASSUME NEW k \in Int
      PROVE  k \in Dividend(b) <=> k \in Plus(TimesDivisor(q), c)
  <2>1. k \in Dividend(b) <=> ((k - 0 \in TimesDivisor(q)) # (k - 0 \in c))
    BY <1>1 DEF Divided
  <2>2. k - 0 = k
    OBVIOUS
  <2>3. k \in Plus(TimesDivisor(q), c) <=> ((k \in TimesDivisor(q)) # (k \in c))
    BY DEF Plus
  <2> QED
    BY <2>1, <2>2, <2>3
<1> QED
  BY <1>1, <1>2, <1>4, <1>5

(* The two loops of crc16_ccitt divide: for every frame, of any length,    *)
(* the value they return is the remainder of CRC16_INIT and the frame,     *)
(* times x^16, by x^16 + x^12 + x^5 + 1.                                   *)
THEOREM RemainderAlways == Spec => []CrcIsRemainder
BY RemainderHolds, InitIInv, NextIInv, PTL DEF Spec

(* What two frames of a length and a checksum differ by, times x^16, is a  *)
(* multiple of the divisor.                                                *)
LEMMA SameChecksum ==
    ASSUME NEW b1 \in Seq(SUBSET (0 .. 7)), NEW b2 \in Seq(SUBSET (0 .. 7)), Len(b1) = Len(b2),
           NEW c, NEW q1 \in SUBSET Nat, NEW q2 \in SUBSET Nat,
           Divided(b1, q1, c, 0), Divided(b2, q2, c, 0)
    PROVE  \A k \in Int : k - 16 \in Plus(Frame(b1), Frame(b2)) <=> k \in TimesDivisor(Plus(q1, q2))
<1> DEFINE f1 == Frame(b1)
           f2 == Frame(b2)
           q == Plus(q1, q2)
           n == 8 * Len(b1)
<1>1. \A k \in Int : k \in Dividend(b1) <=> ((k - 16 \in f1) # (k - n \in 0 .. 15))
  BY DividendIs
<1>2. \A k \in Int : k \in Dividend(b2) <=> ((k - 16 \in f2) # (k - n \in 0 .. 15))
  BY DividendIs
<1>3. \A k \in Int : k \in Dividend(b1) <=> ((k - 0 \in TimesDivisor(q1)) # (k - 0 \in c))
  BY DEF Divided
<1>4. \A k \in Int : k \in Dividend(b2) <=> ((k - 0 \in TimesDivisor(q2)) # (k - 0 \in c))
  BY DEF Divided
<1>5. q1 \subseteq Int /\ q2 \subseteq Int /\ q \subseteq Int
  BY DEF Plus
<1> HIDE DEF q
<1>6. \A k \in Int : k \in TimesDivisor(q1) <=> Odd4(k - 16 \in q1, k - 12 \in q1, k - 5 \in q1, k \in q1)
  BY <1>5, TimesIs
<1>7. \A k \in Int : k \in TimesDivisor(q2) <=> Odd4(k - 16 \in q2, k - 12 \in q2, k - 5 \in q2, k \in q2)
  BY <1>5, TimesIs
<1>8. \A k \in Int : k \in TimesDivisor(q) <=> Odd4(k - 16 \in q, k - 12 \in q, k - 5 \in q, k \in q)
  BY <1>5, TimesIs
<1>9. \A k : k \in q <=> ((k \in q1) # (k \in q2))
  BY DEF q, Plus
<1>10. \A k : k \in Plus(f1, f2) <=> ((k \in f1) # (k \in f2))
  BY DEF Plus
<1>11. SUFFICES ASSUME NEW k \in Int PROVE k - 16 \in Plus(f1, f2) <=> k \in TimesDivisor(q)
  BY DEF q
<1> HIDE DEF f1, f2, n
<1>12. k \in TimesDivisor(q) <=> ((k \in TimesDivisor(q1)) # (k \in TimesDivisor(q2)))
  <2>1. k \in TimesDivisor(q1) <=> Odd4(k - 16 \in q1, k - 12 \in q1, k - 5 \in q1, k \in q1)
    BY <1>6
  <2>2. k \in TimesDivisor(q2) <=> Odd4(k - 16 \in q2, k - 12 \in q2, k - 5 \in q2, k \in q2)
    BY <1>7
  <2>3. k \in TimesDivisor(q) <=> Odd4(k - 16 \in q, k - 12 \in q, k - 5 \in q, k \in q)
    BY <1>8
  <2>4. /\ k - 16 \in q <=> ((k - 16 \in q1) # (k - 16 \in q2))
        /\ k - 12 \in q <=> ((k - 12 \in q1) # (k - 12 \in q2))
        /\ k - 5 \in q <=> ((k - 5 \in q1) # (k - 5 \in q2))
        /\ k \in q <=> ((k \in q1) # (k \in q2))
    BY <1>9
  <2> QED
    BY <2>1, <2>2, <2>3, <2>4 DEF Odd4
<1>13. k - 0 = k
  OBVIOUS
<1>14. k - 16 \in Plus(f1, f2) <=> ((k - 16 \in f1) # (k - 16 \in f2))
  BY <1>10
<1>15. (k \in Dividend(b1)) <=> ((k \in TimesDivisor(q1)) # (k \in c))
  BY <1>3, <1>13
<1>16. (k \in Dividend(b2)) <=> ((k \in TimesDivisor(q2)) # (k \in c))
  BY <1>4, <1>13
<1>17. (k \in Dividend(b1)) <=> ((k - 16 \in f1) # (k - n \in 0 .. 15))
  BY <1>1
<1>18. (k \in Dividend(b2)) <=> ((k - 16 \in f2) # (k - n \in 0 .. 15))
  BY <1>2
<1> QED
  BY <1>12, <1>14, <1>15, <1>16, <1>17, <1>18

LEMMA BurstsHold == IInv => BurstsDetected
<1> SUFFICES ASSUME IInv, turns = 0, Flipped # {}, crc["sender"] = crc["receiver"]
             PROVE  \E d, e \in Flipped : ~(d - e < 16)
  BY DEF BurstsDetected
<1> DEFINE b1 == frame["sender"]
           b2 == frame["receiver"]
           c == crc["sender"]
           q1 == quotient["sender"]
           q2 == quotient["receiver"]
           q == Plus(q1, q2)
           n == 8 * Len(b1) - turns - 1
<1>1. "sender" \in Ends /\ "receiver" \in Ends
  BY DEF Ends
<1>2. /\ b1 \in Seq(SUBSET (0 .. 7)) /\ q1 \in SUBSET Nat /\ Divided(b1, q1, c, 0)
      /\ q1 \subseteq 0 .. n /\ n \in Int
  BY <1>1, EndTyped
<1>3. /\ b2 \in Seq(SUBSET (0 .. 7)) /\ q2 \in SUBSET Nat /\ Divided(b2, q2, c, 0)
      /\ q2 \subseteq 0 .. n /\ Len(b1) = Len(b2)
  BY <1>1, EndTyped
<1>4. Flipped = Plus(Frame(b1), Frame(b2))
  BY DEF Flipped
<1> HIDE DEF b1, b2, c, q1, q2, n
<1>5. \A k \in Int : k - 16 \in Flipped <=> k \in TimesDivisor(q)
  BY <1>2, <1>3, <1>4, SameChecksum
<1>6. Flipped \subseteq Nat
  BY <1>2, <1>3, <1>4, FrameAppend DEF Plus
<1>7. q \subseteq Nat /\ q \subseteq 0 .. n
  BY <1>2, <1>3 DEF Plus
<1> HIDE DEF q
<1>8. \A k \in Int : k \in TimesDivisor(q) <=> Odd4(k - 16 \in q, k - 12 \in q, k - 5 \in q, k \in q)
  <2>1. q \subseteq Int
    BY <1>7
  <2> QED
    BY <2>1, TimesIs
<1>9. q # {}
  <2>1. PICK m \in Flipped : TRUE
    OBVIOUS
  <2>2. m + 16 \in Int /\ (m + 16) - 16 = m
    BY <1>6
  <2>3. m + 16 \in TimesDivisor(q)
    BY <1>5, <2>1, <2>2
  <2> QED
    BY <1>8, <2>2, <2>3 DEF Odd4
<1>10. PICK low \in q : \A k \in q : low <= k
  BY <1>7, <1>9, LeastNumber
<1>11. PICK high \in q : \A k \in q : k <= high
  BY <1>2, <1>7, <1>9, GreatestNumber
<1>12. low \in Int /\ high \in Int /\ low <= high
  BY <1>7, <1>10, <1>11
<1>13. low - 16 \in Flipped
  <2>1. \A i \in {16, 12, 5} : low - i \notin q
    BY <1>10, <1>12
  <2>2. low \in TimesDivisor(q)
    BY <1>8, <1>12, <2>1 DEF Odd4
  <2> QED
    BY <1>5, <1>12, <2>2
<1>14. high \in Flipped
  <2>1. high + 16 \in Int /\ (high + 16) - 16 = high /\ (high + 16) - 12 = high + 4 /\ (high + 16) - 5 = high + 11
    BY <1>12
  <2>2. high + 4 \notin q /\ high + 11 \notin q /\ high + 16 \notin q
    BY <1>11, <1>12
  <2>3. high + 16 \in TimesDivisor(q)
    BY <1>8, <2>1, <2>2 DEF Odd4
  <2> QED
    BY <1>5, <2>1, <2>3
<1>15. ~(high - (low - 16) < 16)
  BY <1>12
<1> QED
  BY <1>13, <1>14, <1>15

(* An error of up to 16 bits in a row, and so any error of one bit, never  *)
(* leaves the checksum a frame had: the receiver's comparison              *)
(* (serial_comm_manager.c:164) fails, whatever the frame and its length.   *)
THEOREM BurstsDetectedAlways == Spec => []BurstsDetected
BY BurstsHold, InitIInv, NextIInv, PTL DEF Spec
=============================================================================
