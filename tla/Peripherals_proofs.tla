------------------------- MODULE Peripherals_proofs -------------------------
(***************************************************************************)
(* Proofs about Peripherals, for every size of call_queue, whatever        *)
(* happens outside and however often.                                      *)
(***************************************************************************)
EXTENDS Peripherals, SequenceTheorems, TLAPS

-----------------------------------------------------------------------------
(* Core 0's program *)

Instruction ==
    {"mask", "unmask", "start", "stop", "reset", "drive", "release", "await", "high", "look",
     "elsewhere", "point", "read", "clear", "check"} \X (Pins \cup Chips)

(* The self-tests of the charger's and the wireless charger's interrupts,  *)
(* and those of the motor drivers'                                         *)
ChargerTests ==
    << <<"mask", "charger">>, <<"start", "charger">>, <<"drive", "charger">>,
       <<"await", "charger">>, <<"release", "charger">>, <<"stop", "charger">>,
       <<"reset", "charger">>, <<"unmask", "charger">>,
       <<"start", "wireless">>, <<"drive", "wireless">>, <<"await", "wireless">>,
       <<"stop", "wireless">>, <<"reset", "wireless">>,
       <<"start", "wireless">>, <<"release", "wireless">>, <<"high", "wireless">>,
       <<"await", "wireless">> >>

MotorTests ==
    << <<"start", "motor">>, <<"drive", "fault1">>, <<"await", "motor">>,
       <<"release", "fault1">>, <<"stop", "motor">>, <<"reset", "motor">>,
       <<"start", "motor">>, <<"drive", "fault2">>, <<"await", "motor">>,
       <<"release", "fault2">>, <<"stop", "motor">>, <<"look", "charger">> >>

MaskIt == <<"mask", "charger">>
StartIt == <<"start", "charger">>
DriveIt == <<"drive", "charger">>
AwaitIt == <<"await", "charger">>
Read1 == <<"read", "fault1">>
Read2 == <<"read", "fault2">>

LEMMA TestsAre ==
    Tests = ((((((Controls \o Controls) \o WhileMasked(ReadOther)) \o WhileMasked(ReadOther))
               \o ChargerTests) \o ClearFaults) \o MotorTests)
BY DEF Tests, ChargerTests, MotorTests

(* Parts of a program: where the charger's interrupt is awaited, it was    *)
(* masked, the test started and the pin driven just before; the pin is     *)
(* driven at most once.                                                    *)
Prepared(p) ==
    \A i \in 1 .. Len(p) :
        p[i] = AwaitIt =>
            i > 3 /\ p[i - 1] = DriveIt /\ p[i - 2] = StartIt /\ p[i - 3] = MaskIt

(* A driver is pointed at its fault register just before it is read.       *)
PointedAt(p) ==
    \A i \in 1 .. Len(p) : \A m \in Motors :
        p[i] = <<"read", m>> => i > 1 /\ p[i - 1] = <<"point", m>>

Drives(p) == \E i \in 1 .. Len(p) : p[i] = DriveIt

Once(p) == \A i \in 1 .. Len(p) : \A j \in 1 .. i - 1 : ~(p[i] = DriveIt /\ p[j] = DriveIt)

Idle(p) == p \in Seq(Instruction) /\ Prepared(p) /\ PointedAt(p) /\ ~Drives(p)

Sound(p) == p \in Seq(Instruction) /\ Prepared(p) /\ PointedAt(p) /\ Once(p)

LEMMA JoinTwo ==
    ASSUME NEW p \in Seq(Instruction), NEW q \in Seq(Instruction)
    PROVE  /\ p \o q \in Seq(Instruction)
           /\ Len(p \o q) = Len(p) + Len(q)
           /\ Len(p) \in Nat /\ Len(q) \in Nat
           /\ \A i \in 1 .. Len(p) : (p \o q)[i] = p[i]
           /\ \A i \in 1 .. Len(q) : (p \o q)[Len(p) + i] = q[i]
           /\ \A i \in Len(p) + 1 .. Len(p) + Len(q) : (p \o q)[i] = q[i - Len(p)]
<1>1. Len(p) \in Nat /\ Len(q) \in Nat
    BY LenProperties
<1>2. /\ p \o q \in Seq(Instruction) /\ Len(p \o q) = Len(p) + Len(q)
      /\ \A i \in 1 .. Len(p) + Len(q) :
            (p \o q)[i] = IF i <= Len(p) THEN p[i] ELSE q[i - Len(p)]
    BY ConcatProperties
<1> DEFINE s == p \o q
           m == Len(p)
           n == Len(q)
<1>3. m \in Nat /\ n \in Nat /\ \A i \in 1 .. m + n : s[i] = IF i <= m THEN p[i] ELSE q[i - m]
    BY <1>1, <1>2
<1> HIDE DEF s, m, n
<1>4. \A i \in 1 .. m : s[i] = p[i]
    BY <1>3
<1>5. \A i \in 1 .. n : s[m + i] = q[i]
    BY <1>3
<1>6. \A i \in m + 1 .. m + n : s[i] = q[i - m]
    BY <1>3
<1> QED
    BY <1>1, <1>2, <1>4, <1>5, <1>6 DEF s, m, n

LEMMA JoinParts ==
    ASSUME NEW p, NEW q
    PROVE  /\ Idle(p) /\ Idle(q) => Idle(p \o q)
           /\ Idle(p) /\ Sound(q) => Sound(p \o q)
           /\ Sound(p) /\ Idle(q) => Sound(p \o q)
<1> SUFFICES ASSUME p \in Seq(Instruction), q \in Seq(Instruction), Prepared(p), Prepared(q),
                    PointedAt(p), PointedAt(q)
             PROVE  /\ p \o q \in Seq(Instruction)
                    /\ Prepared(p \o q) /\ PointedAt(p \o q)
                    /\ ~Drives(p) /\ ~Drives(q) => ~Drives(p \o q)
                    /\ ~Drives(p) /\ Once(q) => Once(p \o q)
                    /\ Once(p) /\ ~Drives(q) => Once(p \o q)
    BY DEF Idle, Sound
<1> DEFINE s == p \o q
           m == Len(p)
           n == Len(q)
<1>1. /\ s \in Seq(Instruction) /\ Len(s) = m + n /\ m \in Nat /\ n \in Nat
      /\ \A i \in 1 .. m : s[i] = p[i]
      /\ \A i \in m + 1 .. m + n : s[i] = q[i - m]
    BY JoinTwo
<1>2. /\ Prepared(p) <=> \A i \in 1 .. m :
            p[i] = AwaitIt =>
                i > 3 /\ p[i - 1] = DriveIt /\ p[i - 2] = StartIt /\ p[i - 3] = MaskIt
      /\ Prepared(q) <=> \A i \in 1 .. n :
            q[i] = AwaitIt =>
                i > 3 /\ q[i - 1] = DriveIt /\ q[i - 2] = StartIt /\ q[i - 3] = MaskIt
    BY DEF Prepared
<1>3. /\ Drives(p) <=> \E i \in 1 .. m : p[i] = DriveIt
      /\ Drives(q) <=> \E i \in 1 .. n : q[i] = DriveIt
      /\ Once(p) <=> \A i \in 1 .. m : \A j \in 1 .. i - 1 : ~(p[i] = DriveIt /\ p[j] = DriveIt)
      /\ Once(q) <=> \A i \in 1 .. n : \A j \in 1 .. i - 1 : ~(q[i] = DriveIt /\ q[j] = DriveIt)
    BY DEF Drives, Once
<1>8. /\ PointedAt(p) <=> \A i \in 1 .. m : \A k \in Motors :
            p[i] = <<"read", k>> => i > 1 /\ p[i - 1] = <<"point", k>>
      /\ PointedAt(q) <=> \A i \in 1 .. n : \A k \in Motors :
            q[i] = <<"read", k>> => i > 1 /\ q[i - 1] = <<"point", k>>
    BY DEF PointedAt
<1> HIDE DEF s, m, n
<1>9. PointedAt(s)
    <2> SUFFICES ASSUME NEW i \in 1 .. m + n, NEW k \in Motors, s[i] = <<"read", k>>
                 PROVE  i > 1 /\ s[i - 1] = <<"point", k>>
        BY <1>1 DEF PointedAt
    <2>1. CASE i \in 1 .. m
        <3>1. i > 1 /\ p[i - 1] = <<"point", k>>
            BY <1>1, <1>8, <2>1
        <3> QED
            BY <1>1, <2>1, <3>1
    <2>2. CASE i \in m + 1 .. m + n
        <3>1. i - m \in 1 .. n /\ q[i - m] = <<"read", k>>
            BY <1>1, <2>2
        <3>2. i - m > 1 /\ q[i - m - 1] = <<"point", k>>
            BY <1>8, <3>1
        <3>3. i - 1 \in m + 1 .. m + n /\ i - 1 - m = i - m - 1 /\ i > 1
            BY <1>1, <2>2, <3>2
        <3> QED
            BY <1>1, <3>2, <3>3
    <2> QED
        BY <1>1, <2>1, <2>2
<1>4. Prepared(s)
    <2> SUFFICES ASSUME NEW i \in 1 .. m + n, s[i] = AwaitIt
                 PROVE  i > 3 /\ s[i - 1] = DriveIt /\ s[i - 2] = StartIt /\ s[i - 3] = MaskIt
        BY <1>1 DEF Prepared
    <2>1. CASE i \in 1 .. m
        <3>1. i > 3 /\ p[i - 1] = DriveIt /\ p[i - 2] = StartIt /\ p[i - 3] = MaskIt
            BY <1>1, <1>2, <2>1
        <3>2. i - 1 \in 1 .. m /\ i - 2 \in 1 .. m /\ i - 3 \in 1 .. m
            BY <1>1, <2>1, <3>1
        <3> QED
            BY <1>1, <3>1, <3>2
    <2>2. CASE i \in m + 1 .. m + n
        <3>1. i - m \in 1 .. n /\ q[i - m] = AwaitIt
            BY <1>1, <2>2
        <3>2. /\ i - m > 3 /\ q[i - m - 1] = DriveIt /\ q[i - m - 2] = StartIt
              /\ q[i - m - 3] = MaskIt
            BY <1>2, <3>1
        <3>3. /\ i - 1 \in m + 1 .. m + n /\ i - 2 \in m + 1 .. m + n /\ i - 3 \in m + 1 .. m + n
              /\ i - 1 - m = i - m - 1 /\ i - 2 - m = i - m - 2 /\ i - 3 - m = i - m - 3
              /\ i > 3
            BY <1>1, <2>2, <3>2
        <3> QED
            BY <1>1, <3>2, <3>3
    <2> QED
        BY <1>1, <2>1, <2>2
<1>5. ~Drives(p) /\ ~Drives(q) => ~Drives(s)
    <2> SUFFICES ASSUME ~Drives(p), ~Drives(q), NEW i \in 1 .. m + n, s[i] = DriveIt
                 PROVE  FALSE
        BY <1>1 DEF Drives
    <2>1. CASE i \in 1 .. m
        BY <1>1, <1>3, <2>1
    <2>2. CASE i \in m + 1 .. m + n
        <3>1. i - m \in 1 .. n /\ q[i - m] = DriveIt
            BY <1>1, <2>2
        <3> QED
            BY <1>3, <3>1
    <2> QED
        BY <1>1, <2>1, <2>2
<1>6. ~Drives(p) /\ Once(q) => Once(s)
    <2> SUFFICES ASSUME ~Drives(p), Once(q), NEW i \in 1 .. m + n, NEW j \in 1 .. i - 1,
                        s[i] = DriveIt, s[j] = DriveIt
                 PROVE  FALSE
        BY <1>1 DEF Once
    <2>1. i \in m + 1 .. m + n /\ j \in m + 1 .. m + n
        BY <1>1, <1>3
    <2>2. i - m \in 1 .. n /\ j - m \in 1 .. i - m - 1 /\ q[i - m] = DriveIt /\ q[j - m] = DriveIt
        BY <1>1, <2>1
    <2> QED
        BY <1>3, <2>2
<1>7. Once(p) /\ ~Drives(q) => Once(s)
    <2> SUFFICES ASSUME Once(p), ~Drives(q), NEW i \in 1 .. m + n, NEW j \in 1 .. i - 1,
                        s[i] = DriveIt, s[j] = DriveIt
                 PROVE  FALSE
        BY <1>1 DEF Once
    <2>1. CASE i \in 1 .. m
        BY <1>1, <1>3, <2>1
    <2>2. CASE i \in m + 1 .. m + n
        <3>1. i - m \in 1 .. n /\ q[i - m] = DriveIt
            BY <1>1, <2>2
        <3> QED
            BY <1>3, <3>1
    <2> QED
        BY <1>1, <2>1, <2>2
<1> QED
    BY <1>1, <1>4, <1>5, <1>6, <1>7, <1>9 DEF s

LEMMA PartsAre ==
    /\ Idle(Controls) /\ Idle(ReadOther) /\ Idle(WhileMasked(ReadOther)) /\ Sound(ChargerTests)
    /\ Idle(ClearFaults) /\ Idle(MotorTests) /\ Idle(ReadFaults)
<1> USE DEF Idle, Sound, Prepared, PointedAt, Drives, Once, Instruction, Pins, Motors, Chips,
            AwaitIt, DriveIt, StartIt, MaskIt
<1>1. Idle(Controls) /\ Idle(ReadOther)
    BY DEF Controls, ReadOther
<1>2. ChargerTests \in Seq(Instruction)
    BY DEF ChargerTests
<1>3. Prepared(ChargerTests)
    BY DEF ChargerTests
<1>4. Once(ChargerTests) /\ PointedAt(ChargerTests)
    BY DEF ChargerTests
<1>5. Idle(ClearFaults)
    BY DEF ClearFaults
<1>6. Idle(MotorTests)
    BY DEF MotorTests
<1>7. Idle(ReadFaults)
    BY DEF ReadFaults
<1>8. Idle(<<MaskIt>>) /\ Idle(<< <<"unmask", "charger">> >>)
    OBVIOUS
<1>9. WhileMasked(ReadOther) = (<<MaskIt>> \o ReadOther) \o << <<"unmask", "charger">> >>
    BY DEF WhileMasked
<1>10. Idle(WhileMasked(ReadOther))
    <2> HIDE DEF Idle, MaskIt
    <2>1. Idle(<<MaskIt>> \o ReadOther)
        BY <1>1, <1>8, JoinParts
    <2> QED
        BY <1>8, <1>9, <2>1, JoinParts
<1> QED
    BY <1>1, <1>2, <1>3, <1>4, <1>5, <1>6, <1>7, <1>10 DEF Sound

(* SET_MOTOR_LEVEL writes both CONTROL registers, and reads both fault     *)
(* registers before it clears any, as does GET_STATE.                      *)
Opening == << <<"elsewhere", "fault1">>, <<"elsewhere", "fault2">>, <<"point", "fault1">>, Read1,
              <<"point", "fault2">>, Read2 >>

LEMMA SetMotorLevelShape ==
    /\ Idle(SetMotorLevel) /\ Len(SetMotorLevel) \in Nat /\ Len(SetMotorLevel) >= 6
    /\ \A i \in 1 .. 6 : SetMotorLevel[i] = Opening[i]
<1>1. Idle(Details)
    <2>1. Idle(ReadOther \o ReadOther)
        BY PartsAre, JoinParts
    <2>2. Idle((ReadOther \o ReadOther) \o ReadOther)
        BY <2>1, PartsAre, JoinParts
    <2>3. Idle(((ReadOther \o ReadOther) \o ReadOther) \o ReadOther)
        BY <2>2, PartsAre, JoinParts
    <2> QED
        BY <2>3 DEF Details
<1>2. Idle(ReadFaults \o ClearFaults) /\ Idle(GetState) /\ Idle(SetMotorLevel)
    <2>1. Idle(ReadFaults \o ClearFaults)
        BY PartsAre, JoinParts
    <2>2. Idle((ReadFaults \o ClearFaults) \o Details)
        BY <1>1, <2>1, JoinParts
    <2>3. Idle(GetState)
        BY <2>2 DEF GetState
    <2>4. Idle(Controls \o GetState)
        BY <2>3, PartsAre, JoinParts
    <2> QED
        BY <2>1, <2>3, <2>4 DEF SetMotorLevel
<1> DEFINE controls == Controls
           reads == ReadFaults
           both == ReadFaults \o ClearFaults
<1>3. /\ Len(controls) = 2 /\ controls[1] = Opening[1] /\ controls[2] = Opening[2]
      /\ Len(reads) = 4 /\ reads[1] = Opening[3] /\ reads[2] = Opening[4]
      /\ reads[3] = Opening[5] /\ reads[4] = Opening[6]
    BY DEF Controls, ReadFaults, Opening, Read1, Read2
<1>4. /\ controls \in Seq(Instruction) /\ reads \in Seq(Instruction)
      /\ ClearFaults \in Seq(Instruction) /\ both \in Seq(Instruction)
      /\ Details \in Seq(Instruction) /\ GetState \in Seq(Instruction)
    BY <1>1, <1>2, PartsAre DEF Idle
<1>5. both = reads \o ClearFaults /\ GetState = both \o Details /\ SetMotorLevel = controls \o GetState
    BY DEF GetState, SetMotorLevel
<1> HIDE DEF controls, reads, both
<1>6. /\ Len(both) = Len(reads) + Len(ClearFaults) /\ Len(ClearFaults) \in Nat
      /\ \A i \in 1 .. Len(reads) : both[i] = reads[i]
    BY <1>4, <1>5, JoinTwo
<1>7. /\ Len(GetState) = Len(both) + Len(Details) /\ Len(Details) \in Nat
      /\ \A i \in 1 .. Len(both) : GetState[i] = both[i]
    BY <1>4, <1>5, JoinTwo
<1>8. /\ Len(SetMotorLevel) = Len(controls) + Len(GetState) /\ Len(GetState) \in Nat
      /\ \A i \in 1 .. Len(controls) : SetMotorLevel[i] = controls[i]
      /\ \A i \in 1 .. Len(GetState) : SetMotorLevel[Len(controls) + i] = GetState[i]
    <2> DEFINE state == GetState
               level == SetMotorLevel
    <2>1. controls \in Seq(Instruction) /\ state \in Seq(Instruction) /\ level = controls \o state
        BY <1>4, <1>5
    <2> HIDE DEF state, level
    <2>2. /\ Len(controls \o state) = Len(controls) + Len(state) /\ Len(state) \in Nat
          /\ \A i \in 1 .. Len(controls) : (controls \o state)[i] = controls[i]
          /\ \A i \in 1 .. Len(state) : (controls \o state)[Len(controls) + i] = state[i]
        BY <2>1, JoinTwo
    <2>3. /\ Len(level) = Len(controls) + Len(state) /\ Len(state) \in Nat
          /\ \A i \in 1 .. Len(controls) : level[i] = controls[i]
          /\ \A i \in 1 .. Len(state) : level[Len(controls) + i] = state[i]
        BY <2>1, <2>2
    <2> QED
        BY <2>3 DEF state, level
<1>9. Len(both) \in Nat /\ Len(both) >= 4 /\ Len(GetState) >= 4 /\ Len(SetMotorLevel) >= 6
    BY <1>3, <1>6, <1>7, <1>8
<1>10. \A i \in 1 .. 4 : GetState[i] = reads[i] /\ SetMotorLevel[2 + i] = reads[i]
    <2> TAKE i \in 1 .. 4
    <2>1. i \in 1 .. Len(reads) /\ i \in 1 .. Len(both) /\ i \in 1 .. Len(GetState)
        BY <1>3, <1>9
    <2>2. SetMotorLevel[2 + i] = GetState[i]
        BY <1>3, <1>8, <2>1
    <2> QED
        BY <1>6, <1>7, <2>1, <2>2
<1>11. SetMotorLevel[1] = Opening[1] /\ SetMotorLevel[2] = Opening[2]
    BY <1>3, <1>8
<1>12. /\ SetMotorLevel[2 + 1] = reads[1] /\ SetMotorLevel[2 + 2] = reads[2]
       /\ SetMotorLevel[2 + 3] = reads[3] /\ SetMotorLevel[2 + 4] = reads[4]
    BY <1>10
<1>13. \A i \in 1 .. 6 : SetMotorLevel[i] = Opening[i]
    BY <1>3, <1>11, <1>12
<1> QED
    BY <1>2, <1>8, <1>9, <1>13

LEMMA ProgramShape ==
    /\ Sound(Program)
    /\ Len(Tests) \in Nat /\ Len(Program) \in Nat /\ Serving = Len(Tests) + 1
    /\ Serving + 5 <= Len(Program)
    /\ \A i \in 0 .. 5 : Program[Serving + i] = Opening[i + 1]
    /\ \A i \in Serving .. Len(Program) : Program[i] # DriveIt
<1>1. Sound(Tests)
    <2>1. Idle(Controls \o Controls)
        BY PartsAre, JoinParts
    <2>2. Idle((Controls \o Controls) \o WhileMasked(ReadOther))
        BY <2>1, PartsAre, JoinParts
    <2>3. Idle(((Controls \o Controls) \o WhileMasked(ReadOther)) \o WhileMasked(ReadOther))
        BY <2>2, PartsAre, JoinParts
    <2>4. Sound((((Controls \o Controls) \o WhileMasked(ReadOther)) \o WhileMasked(ReadOther))
                \o ChargerTests)
        BY <2>3, PartsAre, JoinParts
    <2>5. Sound(((((Controls \o Controls) \o WhileMasked(ReadOther)) \o WhileMasked(ReadOther))
                \o ChargerTests) \o ClearFaults)
        BY <2>4, PartsAre, JoinParts
    <2> QED
        BY <2>5, PartsAre, JoinParts, TestsAre
<1>2. /\ Len(Tests) \in Nat
      /\ Len(Program) = Len(Tests) + Len(SetMotorLevel)
      /\ \A i \in 1 .. Len(SetMotorLevel) : Program[Len(Tests) + i] = SetMotorLevel[i]
      /\ \A i \in Len(Tests) + 1 .. Len(Tests) + Len(SetMotorLevel) :
            Program[i] = SetMotorLevel[i - Len(Tests)]
    BY <1>1, SetMotorLevelShape, JoinTwo DEF Program, Sound, Idle
<1>3. Sound(Program)
    BY <1>1, SetMotorLevelShape, JoinParts DEF Program
<1> DEFINE m == Len(Tests)
           n == Len(SetMotorLevel)
<1>4. /\ Serving = m + 1 /\ m \in Nat /\ n \in Nat /\ n >= 6 /\ Len(Program) = m + n
      /\ \A i \in 1 .. n : Program[m + i] = SetMotorLevel[i]
      /\ \A i \in m + 1 .. m + n : Program[i] = SetMotorLevel[i - m]
    BY <1>2, SetMotorLevelShape DEF Serving
<1>5. \A i \in 1 .. n : SetMotorLevel[i] # DriveIt
    BY SetMotorLevelShape DEF Idle, Drives
<1> HIDE DEF m, n
<1>6. \A i \in Serving .. Len(Program) : Program[i] # DriveIt
    BY <1>4, <1>5
<1>7. \A i \in 0 .. 5 : Program[Serving + i] = Opening[i + 1]
    <2> TAKE i \in 0 .. 5
    <2>1. Serving + i = m + (i + 1) /\ i + 1 \in 1 .. n /\ i + 1 \in 1 .. 6
        BY <1>4
    <2>2. SetMotorLevel[i + 1] = Opening[i + 1]
        BY <2>1, SetMotorLevelShape
    <2> QED
        BY <1>4, <2>1, <2>2
<1> QED
    BY <1>3, <1>4, <1>6, <1>7 DEF m

(* What the proofs need of the program: the above, instruction by          *)
(* instruction.                                                            *)
LEMMA ProgramKnown ==
    /\ Len(Program) \in Nat /\ Serving \in 1 .. Len(Program)
    /\ Commands \subseteq Serving .. Len(Program)
    /\ \A i \in 1 .. Len(Program) :
          Program[i] = AwaitIt =>
              i > 3 /\ Program[i - 1] = DriveIt /\ Program[i - 2] = StartIt
                    /\ Program[i - 3] = MaskIt
    /\ \A i \in Serving .. Len(Program) : Program[i] # AwaitIt /\ Program[i] # DriveIt
    /\ \A i \in 1 .. Len(Program) : \A j \in 1 .. i - 1 :
          ~(Program[i] = DriveIt /\ Program[j] = DriveIt)
    /\ \A i \in 1 .. Len(Program) : \A m \in Motors :
          Program[i] = <<"read", m>> =>
              i > 1 /\ i \notin Commands /\ Program[i - 1] = <<"point", m>>
<1>1. /\ Len(Program) \in Nat /\ Serving \in 1 .. Len(Program)
      /\ Commands \subseteq Serving .. Len(Program)
    BY ProgramShape DEF Commands
<1>2. \A i \in 1 .. Len(Program) :
          Program[i] = AwaitIt =>
              i > 3 /\ Program[i - 1] = DriveIt /\ Program[i - 2] = StartIt
                    /\ Program[i - 3] = MaskIt
    BY ProgramShape DEF Sound, Prepared
<1>3. ASSUME NEW i \in Serving .. Len(Program), Program[i] = AwaitIt
      PROVE  FALSE
    <2>1. CASE i = Serving
        <3>1. Serving + 0 = Serving /\ Program[Serving + 0] = Opening[0 + 1]
            BY ProgramShape
        <3>2. Opening[0 + 1] # AwaitIt
            BY DEF Opening, AwaitIt
        <3> QED
            BY <1>3, <2>1, <3>1, <3>2
    <2>2. CASE i # Serving
        <3>1. Program[i - 1] = DriveIt
            BY <1>1, <1>2, <1>3
        <3>2. i - 1 \in Serving .. Len(Program)
            BY <1>1, <2>2
        <3> QED
            BY <3>1, <3>2, ProgramShape
    <2> QED
        BY <2>1, <2>2
<1>4. ASSUME NEW i \in 1 .. Len(Program), NEW m \in Motors, Program[i] = <<"read", m>>
      PROVE  i > 1 /\ i \notin Commands /\ Program[i - 1] = <<"point", m>>
    <2>1. /\ Program[Serving + 0] = Opening[0 + 1] /\ Program[Serving + 2] = Opening[2 + 1]
        BY ProgramShape
    <2>2. Program[Serving + 0] # <<"read", m>> /\ Program[Serving + 2] # <<"read", m>>
        BY <2>1 DEF Opening
    <2>3. Serving + 0 = Serving
        BY ProgramShape
    <2>4. i \notin Commands
        BY <1>4, <2>2, <2>3 DEF Commands
    <2> QED
        BY <1>4, <2>4, ProgramShape DEF Sound, PointedAt
<1> QED
    BY <1>1, <1>2, <1>3, <1>4, ProgramShape DEF Sound, Once

-----------------------------------------------------------------------------
(* Actions, by what they do *)

Entries == {"attached", "detached", "parse"} \cup Motors \cup Chips

(* Core 0 goes on, or stops at a failed assertion.                         *)
Moves ==
    /\ step \in 1 .. Len(Program)
    /\ \/ step' \in Commands
       \/ step # Len(Program) /\ step' = step + 1

LEMMA GoMoves ==
    ASSUME TypeOK, Running, Go
    PROVE  Moves /\ step' \in 1 .. Len(Program)
<1>1. step \in 1 .. Len(Program)
    BY DEF TypeOK, Running, Halted
<1>2. Moves
    BY <1>1 DEF Go, Moves
<1>3. step' \in 1 .. Len(Program)
    <2>1. PICK n \in Nat, s \in Nat : n = Len(Program) /\ s = Serving /\ s >= 1
        BY ProgramKnown
    <2>2. CASE step' \in Commands
        <3>1. step' \in s .. n
            BY <2>1, <2>2, ProgramKnown
        <3> QED
            BY <2>1, <3>1
    <2>3. CASE step # Len(Program) /\ step' = step + 1
        BY <1>1, <2>1, <2>3
    <2> QED
        BY <1>2, <2>2, <2>3 DEF Moves
<1> QED
    BY <1>2, <1>3

LEMMA Latches ==
    ASSUME TypeOK, LatchEdges
    PROVE  /\ latched' \in [Pins -> SUBSET {"fall", "rise"}]
           /\ \A p \in Pins : latched[p] \subseteq latched'[p]
<1>1. \A p \in Pins : Listened(p) \subseteq {"fall", "rise"}
    BY DEF Listened
<1> QED
    BY <1>1 DEF TypeOK, LatchEdges

LEMMA Queueing ==
    ASSUME TypeOK, NEW p \in Pins, OnInterrupt(p)
    PROVE  /\ call_queue' \in Seq(Entries) /\ Len(call_queue') <= CallCap
           /\ step' \in {step, Halted}
           /\ step' # Halted =>
                 /\ \A i \in 1 .. Len(call_queue) :
                       i \in 1 .. Len(call_queue') /\ call_queue'[i] = call_queue[i]
                 /\ started[Chip(p)] =>
                       \E i \in 1 .. Len(call_queue') : call_queue'[i] = Chip(p)
<1> DEFINE entries == <<Work(p)>> \o IF started[Chip(p)] THEN <<Chip(p)>> ELSE <<>>
           joined == call_queue \o entries
<1>1. Work(p) \in Entries /\ Chip(p) \in Entries
    BY DEF Work, Chip, Entries, Pins, Motors, Chips
<1>2. /\ entries \in Seq(Entries)
      /\ started[Chip(p)] => Len(entries) = 2 /\ entries[2] = Chip(p)
    <2>1. CASE started[Chip(p)]
        BY <1>1, <2>1
    <2>2. CASE ~started[Chip(p)]
        BY <1>1, <2>2
    <2> QED
        BY <2>1, <2>2
<1>3. call_queue \in Seq(Entries) /\ Len(call_queue) \in Nat
    BY LenProperties DEF TypeOK, Entries
<1>4. /\ IF Len(joined) <= CallCap
         THEN call_queue' = joined /\ step' = step
         ELSE call_queue' = SubSeq(joined, 1, CallCap) /\ step' = Halted
    BY DEF OnInterrupt
<1>5. Len(entries) \in Nat
    BY <1>2, LenProperties
<1> HIDE DEF entries
<1>6. /\ joined \in Seq(Entries) /\ Len(joined) = Len(call_queue) + Len(entries)
      /\ \A i \in 1 .. Len(call_queue) + Len(entries) :
            joined[i] = IF i <= Len(call_queue) THEN call_queue[i]
                                                ELSE entries[i - Len(call_queue)]
    BY <1>2, <1>3, ConcatProperties
<1> HIDE DEF joined
<1>7. CASE Len(joined) <= CallCap
    <2>1. \A i \in 1 .. Len(call_queue) :
              i \in 1 .. Len(joined) /\ joined[i] = call_queue[i]
        BY <1>3, <1>5, <1>6
    <2>2. ASSUME started[Chip(p)]
          PROVE  \E i \in 1 .. Len(joined) : joined[i] = Chip(p)
        <3> DEFINE n == Len(call_queue)
                   m == Len(joined)
                   k == Len(entries)
        <3>0. k = 2 /\ entries[2] = Chip(p)
            BY <1>2, <2>2
        <3>1. /\ n \in Nat /\ m = n + k
              /\ \A i \in 1 .. n + k : joined[i] = IF i <= n THEN call_queue[i] ELSE entries[i - n]
            BY <1>3, <1>6
        <3> HIDE DEF n, m, k
        <3>2. n + 2 \in 1 .. m /\ joined[n + 2] = entries[n + 2 - n] /\ n + 2 - n = 2
            BY <3>0, <3>1
        <3> QED
            BY <3>0, <3>2 DEF m
    <2> QED
        BY <1>4, <1>6, <1>7, <2>1, <2>2
<1>8. CASE ~(Len(joined) <= CallCap)
    <2>1. CallCap \in Nat /\ Len(joined) \in Nat
        BY <1>3, <1>5, <1>6, PeripheralsAssumption DEF PeripheralsAssumption
    <2>2. SubSeq(joined, 1, CallCap) \in Seq(Entries) /\ Len(SubSeq(joined, 1, CallCap)) = CallCap
        BY <1>6, <1>8, <2>1, SubSeqProperties
    <2>3. call_queue' = SubSeq(joined, 1, CallCap) /\ step' = Halted
        BY <1>4, <1>8
    <2>4. call_queue' \in Seq(Entries) /\ Len(call_queue') <= CallCap
        BY <2>1, <2>2, <2>3
    <2> QED
        BY <2>3, <2>4
<1> QED
    BY <1>7, <1>8

LEMMA Taking ==
    ASSUME TypeOK, NEW entry, Take(entry)
    PROVE  /\ call_queue' \in Seq(Entries) /\ Len(call_queue') <= CallCap
           /\ job = "none"
           /\ \A x : x # entry /\ (\E i \in 1 .. Len(call_queue) : call_queue[i] = x) =>
                  \E i \in 1 .. Len(call_queue') : call_queue'[i] = x
<1>1. call_queue \in Seq(Entries) /\ call_queue # <<>> /\ call_queue' = Tail(call_queue)
      /\ Head(call_queue) = entry /\ Len(call_queue) <= CallCap /\ job = "none"
    BY DEF TypeOK, Entries, Take
<1>2. /\ call_queue' \in Seq(Entries) /\ Len(call_queue') = Len(call_queue) - 1
      /\ Len(call_queue) \in Nat \ {0}
      /\ \A i \in 1 .. Len(call_queue') : call_queue'[i] = call_queue[i + 1]
      /\ call_queue[1] = entry
    BY <1>1, HeadTailProperties, EmptySeq, LenProperties
<1>3. ASSUME NEW x, x # entry, NEW i \in 1 .. Len(call_queue), call_queue[i] = x
      PROVE  \E k \in 1 .. Len(call_queue') : call_queue'[k] = x
    <2>1. i # 1
        BY <1>2, <1>3
    <2>2. i - 1 \in 1 .. Len(call_queue') /\ call_queue'[i - 1] = call_queue[i - 1 + 1]
          /\ i - 1 + 1 = i
        BY <1>2, <2>1
    <2> QED
        BY <1>3, <2>2
<1>4. Len(call_queue') <= CallCap
    BY <1>1, <1>2, PeripheralsAssumption DEF PeripheralsAssumption
<1> QED
    BY <1>1, <1>2, <1>3, <1>4

-----------------------------------------------------------------------------
(* Types *)

LEMMA TypeInit == Init => TypeOK
<1> SUFFICES ASSUME Init PROVE TypeOK
    OBVIOUS
<1>1. call_queue \in Seq(Entries) /\ Len(call_queue) <= CallCap
    BY PeripheralsAssumption DEF Init, PeripheralsAssumption
<1>2. step \in 0 .. Len(Program)
    BY ProgramKnown DEF Init
<1>3. faults \in [Motors -> SUBSET {"FAULT", "UVLO"}]
    BY DEF Init
<1>4. events \in 0 .. MaxEvents
    BY PeripheralsAssumption DEF Init, PeripheralsAssumption
<1> QED
    BY <1>1, <1>2, <1>3, <1>4 DEF Init, TypeOK, Entries

LEMMA TypeWorld ==
    ASSUME TypeOK, World
    PROVE  TypeOK'
<1> USE DEF chips, pins, flags, work, TypeOK
<1>1. ASSUME NEW kind, Event(kind)
      PROVE  /\ latched' \in [Pins -> SUBSET {"fall", "rise"}]
             /\ events' \in 0 .. MaxEvents
             /\ UNCHANGED <<pointed, missed, driven, masked, call_queue, job, looked,
                            wireless_charger_attached, started, completed, step>>
    <2>1. events' \in 0 .. MaxEvents
        BY <1>1, PeripheralsAssumption DEF Event, PeripheralsAssumption
    <2> QED
        BY <1>1, <2>1, Latches DEF Event
<1>2. CASE Wireless
    <2>1. charging' \in BOOLEAN
        BY <1>2 DEF Wireless
    <2> QED
        BY <1>1, <1>2, <2>1 DEF Wireless
<1>3. CASE Charger
    BY <1>1, <1>3 DEF Charger
<1>4. ASSUME NEW m \in Motors, Status(m)
      PROVE  TypeOK'
    <2>1. faults' \in [Motors -> SUBSET {"FAULT", "UVLO"}]
        BY <1>4 DEF Status
    <2> QED
        BY <1>1, <1>4, <2>1 DEF Status
<1>5. ASSUME NEW m \in Motors, NEW kind \in {"fault", "stuck"}, Fault(m, kind)
      PROVE  TypeOK'
    <2>1. faults' \in [Motors -> SUBSET {"FAULT", "UVLO"}]
        BY <1>5 DEF Fault
    <2>2. stuck' \subseteq Motors /\ unseen' \subseteq Motors
        BY <1>5 DEF Fault
    <2> QED
        BY <1>1, <1>5, <2>1, <2>2 DEF Fault
<1> QED
    BY <1>2, <1>3, <1>4, <1>5 DEF World

LEMMA Clearing ==
    ASSUME TypeOK, NEW m \in Motors, Clear(m)
    PROVE  /\ faults' \in [Motors -> SUBSET {"FAULT", "UVLO"}]
           /\ latched' \in [Pins -> SUBSET {"fall", "rise"}]
           /\ unseen' \subseteq unseen /\ pointed' \subseteq OnBus
           /\ \A n \in Motors : n # m => faults'[n] = faults[n] /\ (n \in unseen' <=> n \in unseen)
           /\ m \in unseen' => "FAULT" \in faults'[m]
           /\ UNCHANGED <<charging, ints, stuck, events, missed, driven, masked>>
<1>1. /\ faults' = [faults EXCEPT ![m] = IF m \in stuck THEN {"FAULT"} ELSE {}]
      /\ unseen' = IF m \in stuck THEN unseen ELSE unseen \ {m}
      /\ pointed' = pointed \cup {m}
      /\ UNCHANGED <<charging, ints, stuck, events, missed, driven, masked>>
      /\ LatchEdges
    BY DEF Clear
<1>2. latched' \in [Pins -> SUBSET {"fall", "rise"}]
    BY <1>1, Latches
<1>3. CASE m \in stuck
    BY <1>1, <1>2, <1>3 DEF TypeOK, OnBus
<1>4. CASE m \notin stuck
    BY <1>1, <1>2, <1>4 DEF TypeOK, OnBus
<1> QED
    BY <1>3, <1>4

LEMMA Reading ==
    ASSUME TypeOK, ReadCharger
    PROVE  /\ ints' \in BOOLEAN /\ pointed' \subseteq OnBus
           /\ latched' \in [Pins -> SUBSET {"fall", "rise"}]
           /\ \A p \in Pins : latched[p] \subseteq latched'[p]
           /\ UNCHANGED <<charging, faults, stuck, events, unseen, driven, masked>>
BY Latches DEF ReadCharger, TypeOK

LEMMA TypeCore1 ==
    ASSUME TypeOK, Core1
    PROVE  TypeOK'
<1> USE DEF chips, pins, flags, work, TypeOK, Entries
<1>1. CASE SetAttached
    <2> PICK attached \in BOOLEAN :
            Take(IF attached THEN "attached" ELSE "detached")
            /\ wireless_charger_attached' = attached
        BY <1>1 DEF SetAttached
    <2> QED
        BY <1>1, Taking DEF SetAttached
<1>2. CASE ParseInterruptVals
    BY <1>2, Taking DEF ParseInterruptVals, OnBus
<1>3. CASE ParseInterruptValsRead
    BY <1>3, Reading DEF ParseInterruptValsRead
<1>4. ASSUME NEW c \in Chips, TestResponse(c)
      PROVE  TypeOK'
    BY <1>4, Taking DEF TestResponse
<1>5. ASSUME NEW m \in Motors, FaultHandler(m)
      PROVE  TypeOK'
    BY <1>5, Taking DEF FaultHandler, OnBus
<1>6. ASSUME NEW m \in Motors, FaultHandlerRead(m)
      PROVE  TypeOK'
    BY <1>6 DEF FaultHandlerRead, Looked
<1>7. ASSUME NEW m \in Motors, FaultHandlerClear(m)
      PROVE  TypeOK'
    <2>1. /\ Clear(m) /\ job' = "none" /\ looked' = "no"
          /\ UNCHANGED <<call_queue, wireless_charger_attached, started, completed, step>>
        BY <1>7 DEF FaultHandlerClear
    <2> QED
        BY <2>1, Clearing
<1> QED
    BY <1>1, <1>2, <1>3, <1>4, <1>5, <1>6, <1>7 DEF Core1

LEMMA TypeCore0 ==
    ASSUME TypeOK, Core0
    PROVE  TypeOK'
<1> USE DEF chips, pins, flags, work, TypeOK, Entries
<1>1. Running /\ Go => step' \in 0 .. Len(Program)
    BY GoMoves
<1>2. Halted \in 0 .. Len(Program)
    BY ProgramKnown DEF Halted
<1>3. ASSUME NEW on \in BOOLEAN, SetMask(on)
      PROVE  TypeOK'
    BY <1>1, <1>3, Latches DEF SetMask, At
<1>4. ASSUME NEW on \in BOOLEAN, NEW c \in Chips, SetStarted(c, on)
      PROVE  TypeOK'
    BY <1>1, <1>4 DEF SetStarted, At
<1>5. ASSUME NEW on \in BOOLEAN, NEW p \in Pins, SetDriven(p, on)
      PROVE  TypeOK'
    <2>1. driven' \subseteq Pins
        BY <1>5 DEF SetDriven
    <2> QED
        BY <1>1, <1>5, <2>1, Latches DEF SetDriven, At
<1>6. ASSUME NEW c \in Chips, Reset(c) \/ Await(c) \/ TimeOut(c)
      PROVE  TypeOK'
    BY <1>1, <1>2, <1>6 DEF Reset, Await, TimeOut, At
<1>7. ASSUME NEW m \in Motors, Point(m) \/ ReadFault(m) \/ ClearFault(m) \/ CheckFault(m)
      PROVE  TypeOK'
    <2>1. CASE Point(m)
        BY <1>1, <2>1 DEF Point, At, OnBus
    <2>2. CASE ReadFault(m)
        BY <1>1, <2>2 DEF ReadFault, At
    <2>3. CASE ClearFault(m)
        <3>1. /\ Clear(m) /\ step' \in 0 .. Len(Program)
              /\ UNCHANGED <<call_queue, job, looked, wireless_charger_attached, started, completed>>
            BY <1>1, <2>3 DEF ClearFault, At
        <3> QED
            BY <3>1, Clearing
    <2>4. CASE CheckFault(m)
        BY <1>1, <1>2, <2>4 DEF CheckFault, At
    <2> QED
        BY <1>7, <2>1, <2>2, <2>3, <2>4
<1>8. CASE CheckHigh
    BY <1>1, <1>2, <1>8 DEF CheckHigh, At
<1>9. ASSUME NEW p \in Pins, OnInterrupt(p)
      PROVE  TypeOK'
    <2>1. /\ call_queue' \in Seq(Entries) /\ Len(call_queue') <= CallCap
          /\ step' \in 0 .. Len(Program)
        BY <1>2, <1>9, Queueing
    <2>2. /\ UNCHANGED <<chips, unseen, pointed, missed, driven, masked, job, looked,
                         wireless_charger_attached, flags>>
          /\ latched' = [latched EXCEPT ![p] = {}]
        BY <1>9 DEF OnInterrupt
    <2>3. latched' \in [Pins -> SUBSET {"fall", "rise"}]
        BY <2>2
    <2> QED
        BY <2>1, <2>2, <2>3
<1>10. ASSUME NEW chip \in OnBus, PointElsewhere(chip)
       PROVE  TypeOK'
    BY <1>1, <1>10 DEF PointElsewhere, At
<1>11. CASE Look
    BY <1>1, <1>11, Reading DEF Look, At
<1> QED
    BY <1>3, <1>4, <1>5, <1>6, <1>7, <1>8, <1>9, <1>10, <1>11 DEF Core0, Instructions, Interrupts

LEMMA TypeNext == TypeOK /\ [Next]_vars => TypeOK'
<1>1. UNCHANGED vars /\ TypeOK => TypeOK'
    BY DEF vars, chips, pins, flags, work, TypeOK
<1> QED
    BY <1>1, TypeWorld, TypeCore0, TypeCore1 DEF Next

(* The variables keep their types, call_queue never holds more than it can *)
(* and core 0 is always at an instruction of its program or stopped.       *)
THEOREM TypeCorrect == Spec => []TypeOK
BY TypeInit, TypeNext, PTL DEF Spec

-----------------------------------------------------------------------------
(* Faults are kept: nobody who is about to clear a driver's faults and has *)
(* looked at the right register can clear one that is not seen.            *)

(* AboutToClear, of core 0                                                 *)
Core0Clears(m) ==
    Running /\ \E i \in step .. Len(Program) :
                    /\ Program[i] = <<"clear", m>>
                    /\ <<"read", m>> \notin {Program[j] : j \in step .. i}

Unseen(m) == m \in unseen
Watched ==
    \A m \in Motors :
        Unseen(m) =>
            /\ "FAULT" \in faults[m]
            /\ ~Core0Clears(m)
            /\ ~(job = m /\ looked = "yes")

(* Core 0 reads the fault register, not another.                           *)
ReadsFault == \A m \in Motors : Running /\ Program[step] = <<"read", m>> => m \in pointed

LEMMA WatchedInit == Init => Watched /\ ReadsFault
<1> SUFFICES ASSUME Init PROVE Watched /\ ReadsFault
    OBVIOUS
<1>1. step = 1 /\ 1 \in 1 .. Len(Program)
    BY ProgramKnown DEF Init
<1>2. \A m \in Motors : Program[step] # <<"read", m>>
    BY <1>1, ProgramKnown
<1> QED
    BY <1>2 DEF Init, Watched, Unseen, ReadsFault

(* Only core 0 points a driver elsewhere, and never between its own two    *)
(* transfers.                                                              *)
LEMMA ReadsFaultNext ==
    ASSUME TypeOK, ReadsFault, Next
    PROVE  ReadsFault'
<1> USE DEF At, chips, pins, flags, work
<1>1. ASSUME UNCHANGED step, pointed \cap Motors \subseteq pointed'
      PROVE  ReadsFault'
    BY <1>1 DEF ReadsFault, Running
<1>2. ASSUME step' = Halted
      PROVE  ReadsFault'
    BY <1>2 DEF ReadsFault, Running
<1>3. ASSUME Running, Go, NEW m \in Motors, Program[step'] = <<"read", m>>
      PROVE  Program[step] = <<"point", m>>
    <2>1. Moves /\ step' \in 1 .. Len(Program)
        BY <1>3, GoMoves
    <2>2. step' \notin Commands /\ Program[step' - 1] = <<"point", m>>
        BY <1>3, <2>1, ProgramKnown
    <2>3. step' = step + 1 /\ step \in Nat
        BY <2>1, <2>2 DEF Moves
    <2>4. step' - 1 = step
        BY <2>3
    <2> QED
        BY <2>2, <2>4
<1>4. ASSUME Running, Go, \A m \in Motors : Program[step] # <<"point", m>>
      PROVE  ReadsFault'
    BY <1>3, <1>4 DEF ReadsFault
<1>5. ASSUME NEW m \in Motors, Point(m)
      PROVE  ReadsFault'
    <2>1. Running /\ Go /\ Program[step] = <<"point", m>> /\ pointed' = pointed \cup {m}
        BY <1>5 DEF Point
    <2>2. ASSUME NEW n \in Motors, Program[step'] = <<"read", n>>
          PROVE  n \in pointed'
        <3>1. Program[step] = <<"point", n>>
            BY <1>3, <2>1, <2>2
        <3> QED
            BY <2>1, <3>1
    <2> QED
        BY <2>2 DEF ReadsFault
<1>6. ASSUME NEW m \in Motors, Clear(m)
      PROVE  pointed \cap Motors \subseteq pointed'
    BY <1>6 DEF Clear
<1>7. ReadCharger => pointed \cap Motors \subseteq pointed'
    BY DEF ReadCharger, Motors
<1>8. CASE World
    <2>1. \A kind : Event(kind) => UNCHANGED <<step, pointed>>
        BY DEF Event
    <2> QED
        BY <1>1, <1>8, <2>1 DEF World, Wireless, Charger, Status, Fault
<1>9. CASE Core1
    <2>1. CASE SetAttached
        BY <1>1, <2>1 DEF SetAttached
    <2>2. CASE ParseInterruptVals
        BY <1>1, <2>2 DEF ParseInterruptVals
    <2>3. CASE ParseInterruptValsRead
        BY <1>1, <1>7, <2>3 DEF ParseInterruptValsRead
    <2>4. ASSUME NEW c \in Chips, TestResponse(c)
          PROVE  ReadsFault'
        BY <1>1, <2>4 DEF TestResponse
    <2>5. ASSUME NEW m \in Motors, FaultHandler(m)
          PROVE  ReadsFault'
        BY <1>1, <2>5 DEF FaultHandler
    <2>6. ASSUME NEW m \in Motors, FaultHandlerRead(m)
          PROVE  ReadsFault'
        BY <1>1, <2>6 DEF FaultHandlerRead, Looked
    <2>7. ASSUME NEW m \in Motors, FaultHandlerClear(m)
          PROVE  ReadsFault'
        <3>1. Clear(m) /\ UNCHANGED step
            BY <2>7 DEF FaultHandlerClear
        <3> QED
            BY <1>1, <1>6, <3>1
    <2> QED
        BY <1>9, <2>1, <2>2, <2>3, <2>4, <2>5, <2>6, <2>7 DEF Core1
<1>10. CASE Core0
    <2>1. ASSUME NEW on \in BOOLEAN, SetMask(on)
          PROVE  ReadsFault'
        BY <1>4, <2>1 DEF SetMask
    <2>2. ASSUME NEW on \in BOOLEAN, NEW c \in Chips, SetStarted(c, on)
          PROVE  ReadsFault'
        BY <1>4, <2>2 DEF SetStarted
    <2>3. ASSUME NEW on \in BOOLEAN, NEW p \in Pins, SetDriven(p, on)
          PROVE  ReadsFault'
        BY <1>4, <2>3 DEF SetDriven
    <2>4. ASSUME NEW c \in Chips, Reset(c) \/ Await(c) \/ TimeOut(c)
          PROVE  ReadsFault'
        BY <1>2, <1>4, <2>4 DEF Reset, Await, TimeOut
    <2>5. ASSUME NEW m \in Motors, ReadFault(m) \/ ClearFault(m) \/ CheckFault(m)
          PROVE  ReadsFault'
        BY <1>2, <1>4, <2>5 DEF ReadFault, ClearFault, CheckFault
    <2>6. ASSUME NEW chip \in OnBus, PointElsewhere(chip)
          PROVE  ReadsFault'
        BY <1>4, <2>6 DEF PointElsewhere
    <2>7. CASE Look
        BY <1>4, <2>7 DEF Look
    <2>8. CASE CheckHigh
        BY <1>2, <1>4, <2>8 DEF CheckHigh
    <2>9. ASSUME NEW p \in Pins, OnInterrupt(p)
          PROVE  ReadsFault'
        <3>1. UNCHANGED pointed /\ step' \in {step, Halted}
            BY <2>9, Queueing DEF OnInterrupt
        <3> QED
            BY <1>1, <1>2, <3>1
    <2> QED
        BY <1>5, <1>10, <2>1, <2>2, <2>3, <2>4, <2>5, <2>6, <2>7, <2>8, <2>9
        DEF Core0, Instructions, Interrupts
<1> QED
    BY <1>8, <1>9, <1>10 DEF Next

(* Each command reads a fault register before it clears it.                *)
LEMMA CommandsRead ==
    ASSUME NEW first \in Commands, NEW m \in Motors,
           NEW i \in first .. Len(Program), Program[i] = <<"clear", m>>
    PROVE  \E k \in first .. i : Program[k] = <<"read", m>>
<1>1. /\ Program[Serving + 0] = Opening[0 + 1] /\ Program[Serving + 1] = Opening[1 + 1]
      /\ Program[Serving + 2] = Opening[2 + 1] /\ Program[Serving + 3] = Opening[3 + 1]
      /\ Program[Serving + 4] = Opening[4 + 1] /\ Program[Serving + 5] = Opening[5 + 1]
    BY ProgramShape
<1>2. /\ Program[Serving + 3] = <<"read", "fault1">> /\ Program[Serving + 5] = <<"read", "fault2">>
      /\ Program[Serving + 0] # <<"clear", m>> /\ Program[Serving + 1] # <<"clear", m>>
      /\ Program[Serving + 2] # <<"clear", m>> /\ Program[Serving + 3] # <<"clear", m>>
      /\ Program[Serving + 4] # <<"clear", m>> /\ Program[Serving + 5] # <<"clear", m>>
    BY <1>1 DEF Opening, Read1, Read2
<1>3. PICK s \in Nat, n \in Nat : s = Serving /\ n = Len(Program)
    BY ProgramKnown
<1>4. first \in {s, s + 2} /\ i \in Nat
    BY <1>3 DEF Commands
<1>5. i # s + 0 /\ i # s + 1 /\ i # s + 2 /\ i # s + 3 /\ i # s + 4 /\ i # s + 5
    BY <1>2, <1>3
<1>6. i > s + 5
    BY <1>3, <1>4, <1>5
<1>7. s + 3 \in first .. i /\ s + 5 \in first .. i
    BY <1>4, <1>6
<1> QED
    BY <1>2, <1>3, <1>7 DEF Motors

(* Where core 0 goes on from an instruction, it is not about to clear      *)
(* faults unless it was before or has just read them.                      *)
LEMMA NoNewClear ==
    ASSUME TypeOK, Moves, Running, NEW m \in Motors, Core0Clears(m)'
    PROVE  Core0Clears(m) \/ Program[step] = <<"read", m>>
<1> SUFFICES ASSUME Program[step] # <<"read", m>>
             PROVE  Core0Clears(m)
    OBVIOUS
<1>1. PICK i \in step' .. Len(Program) :
          /\ Program[i] = <<"clear", m>>
          /\ <<"read", m>> \notin {Program[j] : j \in step' .. i}
    BY DEF Core0Clears
<1>2. CASE step' \in Commands
    <2>1. PICK k \in step' .. i : Program[k] = <<"read", m>>
        BY <1>1, <1>2, CommandsRead
    <2> QED
        BY <1>1, <2>1
<1>3. CASE step # Len(Program) /\ step' = step + 1
    <2>1. step \in 1 .. Len(Program) /\ step' = step + 1 /\ Len(Program) \in Nat
        BY <1>3, ProgramKnown DEF Moves
    <2>2. i \in step .. Len(Program)
        BY <1>1, <2>1
    <2>3. \A j \in step .. i : j = step \/ j \in step' .. i
        BY <2>1, <2>2
    <2>4. <<"read", m>> \notin {Program[j] : j \in step .. i}
        BY <1>1, <2>3
    <2> QED
        BY <1>1, <2>2, <2>4 DEF Core0Clears
<1> QED
    BY <1>2, <1>3 DEF Moves

(* Core 0 stops, or goes on without touching the faults.                   *)
LEMMA WatchedMoves ==
    ASSUME TypeOK, Watched, Running, Go \/ step' = Halted, UNCHANGED <<job, looked, faults>>,
           unseen' \subseteq unseen,
           \A m \in Motors : Program[step] = <<"read", m>> => m \notin unseen'
    PROVE  Watched'
<1> SUFFICES ASSUME NEW m \in Motors, m \in unseen'
             PROVE  /\ "FAULT" \in faults'[m]
                    /\ ~Core0Clears(m)'
                    /\ ~(job' = m /\ looked' = "yes")
    BY DEF Watched, Unseen
<1>1. "FAULT" \in faults[m] /\ ~Core0Clears(m) /\ ~(job = m /\ looked = "yes")
    BY DEF Watched, Unseen
<1>2. ~Core0Clears(m)'
    <2>1. CASE Go
        BY <1>1, <2>1, GoMoves, NoNewClear
    <2>2. CASE step' = Halted
        BY <2>2 DEF Core0Clears, Running
    <2> QED
        BY <2>1, <2>2
<1> QED
    BY <1>1, <1>2

(* The world and core 1 leave core 0 where it is.                          *)
LEMMA WatchedStays ==
    ASSUME Watched, UNCHANGED step,
           \A m \in Motors : m \in unseen' =>
               /\ "FAULT" \in faults'[m]
               /\ m \in unseen \/ ~AboutToClear(m)
               /\ job' = m /\ looked' = "yes" => job = m /\ looked = "yes"
    PROVE  Watched'
<1> SUFFICES ASSUME NEW m \in Motors, m \in unseen'
             PROVE  /\ "FAULT" \in faults'[m]
                    /\ ~Core0Clears(m)'
                    /\ ~(job' = m /\ looked' = "yes")
    BY DEF Watched, Unseen
<1>1. Core0Clears(m)' <=> Core0Clears(m)
    BY DEF Core0Clears, Running
<1>2. m \in unseen => ~Core0Clears(m) /\ ~(job = m /\ looked = "yes")
    BY DEF Watched, Unseen
<1>3. ~AboutToClear(m) => ~Core0Clears(m) /\ ~(job = m /\ looked = "yes")
    BY DEF AboutToClear, Core0Clears
<1> QED
    BY <1>1, <1>2, <1>3

LEMMA WatchedWorld ==
    ASSUME TypeOK, Watched, World
    PROVE  Watched'
<1> USE DEF TypeOK
<1>1. \A kind : Event(kind) => UNCHANGED <<job, looked, step>>
    BY DEF Event, work
<1>2. \A m \in Motors : m \in unseen => "FAULT" \in faults[m]
    BY DEF Watched, Unseen
<1>3. CASE Wireless \/ Charger
    <2>1. UNCHANGED <<job, looked, step, faults, unseen>>
        BY <1>1, <1>3 DEF Wireless, Charger
    <2> QED
        BY <1>2, <2>1, WatchedStays
<1>4. ASSUME NEW m \in Motors, Status(m)
      PROVE  Watched'
    <2>1. UNCHANGED <<job, looked, step, unseen>> /\ faults' = [faults EXCEPT ![m] = @ \cup {"UVLO"}]
        BY <1>1, <1>4 DEF Status
    <2>2. \A n \in Motors : faults[n] \subseteq faults'[n]
        BY <2>1
    <2> QED
        BY <1>2, <2>1, <2>2, WatchedStays
<1>5. ASSUME NEW m \in Motors, NEW kind \in {"fault", "stuck"}, Fault(m, kind)
      PROVE  Watched'
    <2>1. /\ faults' = [faults EXCEPT ![m] = @ \cup {"FAULT"}]
          /\ unseen' = IF AboutToClear(m) THEN unseen ELSE unseen \cup {m}
          /\ UNCHANGED <<job, looked, step>>
        <3>1. Event(kind)
            BY <1>5 DEF Fault
        <3> QED
            BY <1>1, <1>5, <3>1 DEF Fault
    <2>2. \A n \in Motors : faults[n] \subseteq faults'[n]
        BY <2>1
    <2>3. "FAULT" \in faults'[m]
        BY <2>1
    <2>4. ASSUME NEW n \in Motors, n \in unseen'
          PROVE  n \in unseen \/ (n = m /\ ~AboutToClear(n))
        <3>1. CASE AboutToClear(m)
            BY <2>1, <2>4, <3>1
        <3>2. CASE ~AboutToClear(m)
            <4>1. unseen' = unseen \cup {m}
                BY <2>1, <3>2
            <4> QED
                BY <2>4, <3>2, <4>1
        <3> QED
            BY <3>1, <3>2
    <2> QED
        BY <1>2, <2>1, <2>2, <2>3, <2>4, WatchedStays
<1> QED
    BY <1>3, <1>4, <1>5 DEF World

LEMMA WatchedCore1 ==
    ASSUME TypeOK, Watched, Core1
    PROVE  Watched'
<1> USE DEF TypeOK
<1>1. \A m \in Motors : m \in unseen => "FAULT" \in faults[m]
    BY DEF Watched, Unseen
<1>2. ASSUME UNCHANGED <<step, faults, looked>>, unseen' = unseen, looked = "yes" => job' = job
      PROVE  Watched'
    BY <1>1, <1>2, WatchedStays
<1>3. CASE SetAttached
    BY <1>2, <1>3 DEF SetAttached, chips, work
<1>4. CASE ParseInterruptVals
    <2>1. ASSUME NEW m \in Motors
          PROVE  job' # m
        BY <1>4 DEF ParseInterruptVals, Motors
    <2>2. UNCHANGED <<step, faults, unseen>>
        BY <1>4 DEF ParseInterruptVals, chips
    <2> QED
        BY <1>1, <2>1, <2>2, WatchedStays
<1>5. CASE ParseInterruptValsRead
    <2>1. ASSUME NEW m \in Motors
          PROVE  job' # m
        BY <1>5 DEF ParseInterruptValsRead, Motors
    <2>2. UNCHANGED <<step, faults, unseen>>
        BY <1>5 DEF ParseInterruptValsRead, ReadCharger
    <2> QED
        BY <1>1, <2>1, <2>2, WatchedStays
<1>6. ASSUME NEW c \in Chips, TestResponse(c)
      PROVE  Watched'
    BY <1>2, <1>6 DEF TestResponse, chips, work
<1>7. ASSUME NEW m \in Motors, FaultHandler(m)
      PROVE  Watched'
    <2>1. UNCHANGED <<step, faults, unseen>>
        BY <1>7 DEF FaultHandler, chips
    <2>2. looked' = "no"
        BY <1>7 DEF FaultHandler
    <2> QED
        BY <1>1, <2>1, <2>2, WatchedStays
<1>8. ASSUME NEW m \in Motors, FaultHandlerRead(m)
      PROVE  Watched'
    <2>1. PICK bit \in FaultBit(m) : Looked(m, bit)
        BY <1>8 DEF FaultHandlerRead
    <2>2. UNCHANGED <<step, faults>> /\ job = m /\ looked = "no"
        BY <1>8, <2>1 DEF FaultHandlerRead, Looked, chips
    <2>3. CASE bit
        <3>1. unseen' \subseteq unseen /\ UNCHANGED looked
            BY <2>1, <2>3 DEF Looked
        <3> QED
            BY <1>1, <2>2, <3>1, WatchedStays
    <2>4. CASE ~bit
        <3>1. /\ looked' = IF m \in pointed THEN "yes" ELSE "elsewhere"
              /\ UNCHANGED <<job, unseen>>
            BY <2>1, <2>4 DEF Looked
        <3>2. CASE m \in pointed
            <4>1. "FAULT" \notin faults[m]
                BY <2>1, <2>4, <3>2 DEF FaultBit
            <4>2. m \notin unseen
                BY <1>1, <4>1
            <4> QED
                BY <1>1, <2>2, <3>1, <4>2, WatchedStays
        <3>3. CASE m \notin pointed
            <4>1. looked' = "elsewhere"
                BY <3>1, <3>3
            <4> QED
                BY <1>1, <2>2, <3>1, <4>1, WatchedStays
        <3> QED
            BY <3>2, <3>3
    <2> QED
        BY <2>1, <2>3, <2>4 DEF Looked
<1>9. ASSUME NEW m \in Motors, FaultHandlerClear(m)
      PROVE  Watched'
    <2>1. Clear(m) /\ looked' = "no" /\ UNCHANGED step
        BY <1>9 DEF FaultHandlerClear
    <2>2. \A n \in Motors : n \in unseen' => n \in unseen /\ "FAULT" \in faults'[n]
        BY <1>1, <2>1, Clearing
    <2> QED
        BY <2>1, <2>2, WatchedStays
<1> QED
    BY <1>3, <1>4, <1>5, <1>6, <1>7, <1>8, <1>9 DEF Core1

LEMMA WatchedCore0 ==
    ASSUME TypeOK, Watched, ReadsFault, Core0
    PROVE  Watched'
<1> USE DEF chips, work, At
<1>1. ASSUME NEW on \in BOOLEAN, SetMask(on)
      PROVE  Watched'
    BY <1>1, WatchedMoves DEF SetMask
<1>2. ASSUME NEW on \in BOOLEAN, NEW c \in Chips, SetStarted(c, on)
      PROVE  Watched'
    BY <1>2, WatchedMoves DEF SetStarted
<1>3. ASSUME NEW on \in BOOLEAN, NEW p \in Pins, SetDriven(p, on)
      PROVE  Watched'
    BY <1>3, WatchedMoves DEF SetDriven
<1>4. ASSUME NEW c \in Chips, Reset(c) \/ Await(c) \/ TimeOut(c)
      PROVE  Watched'
    BY <1>4, WatchedMoves DEF Reset, Await, TimeOut
<1>5. ASSUME NEW m \in Motors, ReadFault(m)
      PROVE  Watched'
    <2>1. /\ Running /\ Go /\ UNCHANGED <<job, looked, faults>>
          /\ unseen' = unseen \ (pointed \cap {m}) /\ Program[step] = <<"read", m>>
        BY <1>5 DEF ReadFault
    <2>2. unseen' = unseen \ {m}
        BY <2>1 DEF ReadsFault
    <2> QED
        BY <2>1, <2>2, WatchedMoves
<1>6. ASSUME NEW m \in Motors, ClearFault(m)
      PROVE  Watched'
    <2>1. /\ Running /\ Go /\ Clear(m) /\ UNCHANGED <<job, looked>>
          /\ Program[step] = <<"clear", m>>
        BY <1>6 DEF ClearFault
    <2>2. \A n \in Motors : n \in unseen' => n \in unseen /\ "FAULT" \in faults'[n]
        BY <2>1, Clearing DEF Watched, Unseen
    <2>3. \A n \in Motors : Core0Clears(n)' => Core0Clears(n)
        BY <2>1, GoMoves, NoNewClear
    <2> QED
        BY <2>1, <2>2, <2>3 DEF Watched, Unseen
<1>7. ASSUME NEW m \in Motors, CheckFault(m) \/ Point(m)
      PROVE  Watched'
    BY <1>7, WatchedMoves DEF CheckFault, Point
<1>8. CASE CheckHigh
    BY <1>8, WatchedMoves DEF CheckHigh
<1>9. ASSUME NEW chip \in OnBus, PointElsewhere(chip)
      PROVE  Watched'
    BY <1>9, WatchedMoves DEF PointElsewhere
<1>10. CASE Look
    BY <1>10, WatchedMoves DEF Look, ReadCharger
<1>11. ASSUME NEW p \in Pins, OnInterrupt(p)
       PROVE  Watched'
    <2>1. step' \in {step, Halted} /\ UNCHANGED <<faults, unseen, job, looked>>
        BY <1>11, Queueing DEF OnInterrupt
    <2>2. \A m \in Motors : Core0Clears(m)' => Core0Clears(m)
        BY <2>1 DEF Core0Clears, Running
    <2> QED
        BY <2>1, <2>2 DEF Watched, Unseen
<1> QED
    BY <1>1, <1>2, <1>3, <1>4, <1>5, <1>6, <1>7, <1>8, <1>9, <1>10, <1>11
    DEF Core0, Instructions, Interrupts

LEMMA WatchedNext == TypeOK /\ Watched /\ ReadsFault /\ [Next]_vars => Watched' /\ ReadsFault'
<1>1. UNCHANGED vars /\ Watched /\ ReadsFault => Watched' /\ ReadsFault'
    BY DEF vars, chips, work, Watched, Unseen, Core0Clears, Running, ReadsFault
<1> QED
    BY <1>1, WatchedWorld, WatchedCore0, WatchedCore1, ReadsFaultNext DEF Next

(* A fault leaves its register by being cleared.                           *)
LEMMA KeptStep ==
    ASSUME TypeOK, Watched, Next, NEW m \in Motors, m \in unseen
    PROVE  "FAULT" \in faults'[m] \/ (job = m /\ looked = "elsewhere")
<1> USE DEF chips, At
<1>0. "FAULT" \in faults[m] /\ ~Core0Clears(m) /\ ~(job = m /\ looked = "yes")
    BY DEF Watched, Unseen
<1>1. CASE World
    <2>1. faults[m] \subseteq faults'[m]
        BY <1>1 DEF World, Wireless, Charger, Status, Fault, TypeOK
    <2> QED
        BY <1>0, <2>1
<1>2. CASE Core1
    <2>1. ASSUME NEW n \in Motors, FaultHandlerClear(n)
          PROVE  "FAULT" \in faults'[m] \/ (job = m /\ looked = "elsewhere")
        <3>1. Clear(n) /\ job = n /\ looked # "no"
            BY <2>1 DEF FaultHandlerClear
        <3>2. CASE n = m
            BY <1>0, <3>1, <3>2 DEF TypeOK
        <3>3. CASE n # m
            BY <1>0, <3>1, <3>3, Clearing
        <3> QED
            BY <3>2, <3>3
    <2>2. ASSUME NEW n \in Motors, FaultHandlerRead(n)
          PROVE  UNCHANGED faults
        BY <2>2 DEF FaultHandlerRead, Looked
    <2> QED
        BY <1>0, <1>2, <2>1, <2>2
        DEF Core1, SetAttached, ParseInterruptVals, ParseInterruptValsRead, ReadCharger, TestResponse,
            FaultHandler
<1>3. CASE Core0
    <2>1. ASSUME NEW n \in Motors, ClearFault(n)
          PROVE  "FAULT" \in faults'[m]
        <3>1. Clear(n) /\ Running /\ Go /\ Program[step] = <<"clear", n>>
            BY <2>1 DEF ClearFault
        <3>2. n # m
            <4>1. step \in step .. Len(Program) /\ step .. step = {step}
                BY <3>1, GoMoves, ProgramKnown DEF Moves
            <4>2. Core0Clears(n)
                BY <3>1, <4>1 DEF Core0Clears
            <4> QED
                BY <1>0, <4>2
        <3> QED
            BY <1>0, <3>1, <3>2, Clearing
    <2>2. ASSUME NEW p \in Pins, OnInterrupt(p)
          PROVE  UNCHANGED faults
        BY <2>2 DEF OnInterrupt
    <2> QED
        BY <1>0, <1>3, <2>1, <2>2
        DEF Core0, Instructions, Interrupts, SetMask, SetStarted, SetDriven, Reset, Await, TimeOut,
            Point, ReadFault, CheckFault, PointElsewhere, Look, ReadCharger, CheckHigh
<1> QED
    BY <1>1, <1>2, <1>3 DEF Next

(* FaultsKept: a motor fault raised when neither core had looked already   *)
(* is in its register until one of them has seen it, unless core 1 read    *)
(* another register in its place.                                          *)
THEOREM FaultsKeptAlways == Spec => FaultsKept
<1>1. ASSUME TypeOK, Watched, [Next]_vars
      PROVE  [\A m \in unseen :
                 "FAULT" \in faults'[m] \/ (job = m /\ looked = "elsewhere")]_vars
    BY <1>1, KeptStep DEF TypeOK
<1> QED
    BY <1>1, TypeCorrect, WatchedInit, WatchedNext, PTL DEF Spec, FaultsKept

-----------------------------------------------------------------------------
(* The charger's interrupt test gets its response: the charger cannot hold *)
(* the pin low when the test drives it.                                    *)

Ahead(k) == Running /\ step + k <= Len(Program) /\ Program[step + k] = AwaitIt

Response ==
    \/ completed["charger"]
    \/ latched["charger"] # {}
    \/ \E i \in 1 .. Len(call_queue) : call_queue[i] = "charger"

Testing ==
    /\ Running /\ "charger" \in driven => \A i \in step .. Len(Program) : Program[i] # DriveIt
    /\ Ahead(0) \/ Ahead(1) \/ Ahead(2) => masked
    /\ Ahead(0) \/ Ahead(1) => started["charger"]
    /\ Ahead(0) => Response

LEMMA TestPasses ==
    ASSUME TypeOK, Ahead(0) => Response
    PROVE  ChargerTestPasses
<1>1. SUFFICES ASSUME Running, Program[step] = AwaitIt
               PROVE  Response
    BY DEF ChargerTestPasses, Response, AwaitIt
<1>2. step + 0 = step /\ step <= Len(Program)
    BY ProgramKnown DEF TypeOK
<1> QED
    BY <1>1, <1>2 DEF Ahead

LEMMA TestingInit == Init => Testing
<1> SUFFICES ASSUME Init PROVE Testing
    OBVIOUS
<1>1. ASSUME NEW k \in 0 .. 2, Ahead(k)
      PROVE  FALSE
    <2>1. step + k \in 1 .. Len(Program) /\ step + k <= 3 /\ Program[step + k] = AwaitIt
        BY <1>1, ProgramKnown DEF Init, Ahead
    <2> QED
        BY <2>1, ProgramKnown
<1> QED
    BY <1>1 DEF Init, Testing

(* What comes before a wait that core 0 moves towards                      *)
LEMMA AheadMoves ==
    ASSUME TypeOK, Running, Go, NEW k \in 0 .. 2, Ahead(k)'
    PROVE  /\ Ahead(k + 1)
           /\ Program[step] = IF k = 0 THEN DriveIt ELSE IF k = 1 THEN StartIt ELSE MaskIt
<1>1. Moves /\ step' \in 1 .. Len(Program)
    BY GoMoves
<1>2. step' + k <= Len(Program) /\ Program[step' + k] = AwaitIt
    BY DEF Ahead
<1>3. step' \notin Commands
    <2> SUFFICES ASSUME step' \in Commands
                 PROVE  FALSE
        OBVIOUS
    <2>1. step' \in Serving .. Len(Program)
        BY ProgramKnown
    <2>2. step' + k \in Serving .. Len(Program)
        BY <1>2, <2>1, ProgramKnown
    <2> QED
        BY <1>2, <2>2, ProgramKnown
<1>4. step \in 1 .. Len(Program) /\ step' = step + 1 /\ Len(Program) \in Nat
    BY <1>1, <1>3, ProgramKnown DEF Moves
<1>5. step' + k = step + (k + 1) /\ step' + k \in 1 .. Len(Program)
    BY <1>2, <1>4
<1>6. Ahead(k + 1)
    BY <1>2, <1>5 DEF Ahead
<1>7. PICK i \in 1 .. Len(Program) :
          i = step + (k + 1) /\ Program[i - 1] = DriveIt /\ Program[i - 2] = StartIt
                             /\ Program[i - 3] = MaskIt
    <2>1. PICK i \in 1 .. Len(Program) : i = step + (k + 1) /\ Program[i] = AwaitIt
        BY <1>2, <1>5
    <2> QED
        BY <2>1, ProgramKnown
<1>8. Program[step] = IF k = 0 THEN DriveIt ELSE IF k = 1 THEN StartIt ELSE MaskIt
    <2>1. CASE k = 0
        <3>1. i - 1 = step
            BY <1>4, <1>7, <2>1
        <3> QED
            BY <1>7, <2>1, <3>1
    <2>2. CASE k = 1
        <3>1. i - 2 = step
            BY <1>4, <1>7, <2>2
        <3> QED
            BY <1>7, <2>2, <3>1
    <2>3. CASE k = 2
        <3>1. i - 3 = step
            BY <1>4, <1>7, <2>3
        <3> QED
            BY <1>7, <2>3, <3>1
    <2> QED
        BY <2>1, <2>2, <2>3
<1> QED
    BY <1>6, <1>8

(* The pin is not driven again.                                            *)
LEMMA DrivenOnce ==
    ASSUME TypeOK, Running, Go,
           \/ \A i \in step .. Len(Program) : Program[i] # DriveIt
           \/ Program[step] = DriveIt
    PROVE  \A i \in step' .. Len(Program) : Program[i] # DriveIt
<1>1. Moves
    BY GoMoves
<1>2. CASE step' \in Commands
    <2>1. step' \in Serving .. Len(Program)
        BY <1>2, ProgramKnown
    <2>2. \A i \in step' .. Len(Program) : i \in Serving .. Len(Program)
        BY <2>1, ProgramKnown
    <2> QED
        BY <2>2, ProgramKnown
<1>3. CASE step # Len(Program) /\ step' = step + 1
    <2>1. step \in 1 .. Len(Program) /\ step' = step + 1 /\ Len(Program) \in Nat
        BY <1>1, <1>3, ProgramKnown DEF Moves
    <2>2. ASSUME NEW i \in step' .. Len(Program), Program[i] = DriveIt
          PROVE  FALSE
        <3>1. i \in 1 .. Len(Program) /\ step \in 1 .. i - 1 /\ i \in step .. Len(Program)
            BY <2>1
        <3> QED
            BY <2>2, <3>1, ProgramKnown
    <2> QED
        BY <2>2
<1> QED
    BY <1>1, <1>2, <1>3 DEF Moves

(* Core 0 goes on; what it may change where                                *)
LEMMA TestingGoes ==
    ASSUME TypeOK, Testing, Running, Go,
           "charger" \in driven' => "charger" \in driven \/ Program[step] = DriveIt,
           Program[step] \in {DriveIt, StartIt} => masked' = masked,
           Program[step] = MaskIt => masked',
           Program[step] = DriveIt => started'["charger"] = started["charger"],
           Program[step] = StartIt => started'["charger"],
           Program[step] = DriveIt /\ Ahead(1) => Response'
    PROVE  Testing'
<1>1. /\ Ahead(0)' => Ahead(1) /\ Program[step] = DriveIt
      /\ Ahead(1)' => Ahead(2) /\ Program[step] = StartIt
      /\ Ahead(2)' => Program[step] = MaskIt
    BY AheadMoves
<1>2. DriveIt # StartIt /\ DriveIt # MaskIt /\ StartIt # MaskIt
    BY DEF DriveIt, StartIt, MaskIt
<1>3. (Running /\ "charger" \in driven)' => \A i \in step' .. Len(Program) : Program[i] # DriveIt
    BY DrivenOnce DEF Testing
<1>4. (Ahead(0) \/ Ahead(1) \/ Ahead(2))' => masked'
    BY <1>1, <1>2 DEF Testing
<1>5. (Ahead(0) \/ Ahead(1))' => started'["charger"]
    BY <1>1, <1>2 DEF Testing
<1>6. Ahead(0)' => Response'
    BY <1>1
<1> QED
    BY <1>3, <1>4, <1>5, <1>6 DEF Testing

(* Core 0 stays where it is, or stops.                                     *)
LEMMA TestingStays ==
    ASSUME TypeOK, Testing, step' = step \/ step' = Halted,
           UNCHANGED <<driven, masked, started>>,
           step' = step /\ Running /\ Response /\ started["charger"] => Response'
    PROVE  Testing'
<1>1. CASE step' = step
    BY <1>1 DEF Testing, Ahead, Running
<1>2. CASE step' = Halted
    BY <1>2 DEF Testing, Ahead, Running
<1> QED
    BY <1>1, <1>2

LEMMA TestingWorld ==
    ASSUME TypeOK, Testing, World
    PROVE  Testing'
<1> USE DEF pins, flags
<1>1. \A kind : Event(kind) =>
          LatchEdges /\ UNCHANGED <<driven, masked, call_queue, started, completed, step>>
    BY DEF Event
<1>2. ASSUME NEW kind, Event(kind)
      PROVE  Testing'
    <2>1. LatchEdges /\ UNCHANGED <<driven, masked, call_queue, started, completed, step>>
        BY <1>1, <1>2
    <2>2. latched["charger"] \subseteq latched'["charger"]
        BY <2>1, Latches DEF Pins
    <2>3. Response => Response'
        BY <2>1, <2>2 DEF Response
    <2> QED
        BY <2>1, <2>3, TestingStays
<1> QED
    BY <1>2 DEF World, Wireless, Charger, Status, Fault

LEMMA TestingCore1 ==
    ASSUME TypeOK, Testing, Core1
    PROVE  Testing'
<1> USE DEF pins, flags
<1>1. ASSUME NEW entry, Take(entry), entry # "charger",
             UNCHANGED <<driven, masked, started, completed, step>>,
             latched["charger"] \subseteq latched'["charger"]
      PROVE  Testing'
    <2>1. Response => Response'
        BY <1>1, Taking DEF Response
    <2> QED
        BY <1>1, <2>1, TestingStays
<1>2. \A p \in Pins : LatchEdges => latched[p] \subseteq latched'[p]
    BY Latches
<1>3. CASE SetAttached
    <2> PICK attached \in BOOLEAN : Take(IF attached THEN "attached" ELSE "detached")
        BY <1>3 DEF SetAttached
    <2>1. (IF attached THEN "attached" ELSE "detached") # "charger"
        OBVIOUS
    <2>2. UNCHANGED <<driven, masked, started, completed, step, latched>>
        BY <1>3 DEF SetAttached
    <2> QED
        BY <1>1, <2>1, <2>2
<1>4. CASE ParseInterruptVals
    <2>1. Take("parse") /\ UNCHANGED <<driven, masked, latched, started, completed, step>>
        BY <1>4 DEF ParseInterruptVals
    <2> QED
        BY <1>1, <2>1
<1>5. ASSUME ParseInterruptValsRead \/ \E m \in Motors : FaultHandlerRead(m) \/ FaultHandlerClear(m)
      PROVE  Testing'
    <2>1. /\ LatchEdges \/ UNCHANGED latched
          /\ UNCHANGED <<driven, masked, call_queue, started, completed, step>>
        BY <1>5 DEF ParseInterruptValsRead, ReadCharger, FaultHandlerRead, Looked, FaultHandlerClear, Clear
    <2>2. Response => Response'
        BY <1>2, <2>1 DEF Response, Pins
    <2> QED
        BY <2>1, <2>2, TestingStays
<1>6. ASSUME NEW c \in Chips, TestResponse(c)
      PROVE  Testing'
    <2>1. Take(c) /\ completed' = [completed EXCEPT ![c] = TRUE]
          /\ UNCHANGED <<driven, masked, latched, started, step>>
        BY <1>6 DEF TestResponse
    <2>2. completed \in [Chips -> BOOLEAN]
        BY DEF TypeOK
    <2>3. CASE c = "charger"
        <3>1. completed'["charger"]
            BY <2>1, <2>2, <2>3
        <3>2. Response'
            BY <3>1 DEF Response
        <3> QED
            BY <2>1, <3>2, TestingStays
    <2>4. CASE c # "charger"
        <3>1. completed'["charger"] = completed["charger"]
            BY <2>1, <2>2, <2>4 DEF Chips
        <3>2. Response => Response'
            BY <2>1, <2>4, <3>1, Taking DEF Response
        <3> QED
            BY <2>1, <3>2, TestingStays
    <2> QED
        BY <2>3, <2>4
<1>7. ASSUME NEW m \in Motors, FaultHandler(m)
      PROVE  Testing'
    <2>1. Take(m) /\ UNCHANGED <<driven, masked, latched, started, completed, step>>
        BY <1>7 DEF FaultHandler
    <2>2. m # "charger"
        BY DEF Motors
    <2> QED
        BY <1>1, <2>1, <2>2
<1> QED
    BY <1>3, <1>4, <1>5, <1>6, <1>7 DEF Core1

(* Driving the pin gives an edge: the charger is masked and nobody else    *)
(* drives the pin yet.                                                     *)
LEMMA DriveGivesEdge ==
    ASSUME TypeOK, Testing, Ahead(1), SetDriven("charger", TRUE)
    PROVE  latched'["charger"] # {}
<1>1. /\ Running /\ Program[step] = DriveIt /\ LatchEdges /\ UNCHANGED masked
      /\ driven' = driven \cup {"charger"}
    BY DEF SetDriven, At, DriveIt
<1>2. step \in step .. Len(Program)
    BY <1>1, ProgramKnown DEF TypeOK, Running, Halted
<1>3. masked /\ "charger" \notin driven
    BY <1>1, <1>2 DEF Testing
<1>4. ~Low("charger") /\ Low("charger")'
    BY <1>1, <1>3 DEF Low, Motors
<1>5. Listened("charger") = {"fall"} /\ "charger" \in Pins
    BY DEF Listened, Pins
<1>6. latched'["charger"] =
          latched["charger"] \cup
              (Listened("charger") \cap IF Low("charger") = Low("charger")' THEN {}
                                        ELSE {IF Low("charger")' THEN "fall" ELSE "rise"})
    BY <1>1, <1>5 DEF LatchEdges
<1>7. latched'["charger"] = latched["charger"] \cup ({"fall"} \cap {"fall"})
    BY <1>4, <1>5, <1>6
<1> QED
    BY <1>7

LEMMA TestingCore0 ==
    ASSUME TypeOK, Testing, Core0
    PROVE  Testing'
<1> USE DEF pins, flags, MaskIt, StartIt, DriveIt
<1>1. ASSUME NEW on \in BOOLEAN, SetMask(on)
      PROVE  Testing'
    <2>1. /\ Running /\ Go /\ Program[step] = <<IF on THEN "mask" ELSE "unmask", "charger">>
          /\ masked' = on /\ UNCHANGED <<driven, started>>
        BY <1>1 DEF SetMask, At
    <2> QED
        BY <2>1, TestingGoes
<1>2. ASSUME NEW on \in BOOLEAN, NEW c \in Chips, SetStarted(c, on)
      PROVE  Testing'
    <2>1. /\ Running /\ Go /\ Program[step] = <<IF on THEN "start" ELSE "stop", c>>
          /\ started' = [started EXCEPT ![c] = on] /\ UNCHANGED <<driven, masked>>
        BY <1>2 DEF SetStarted, At
    <2>2. Program[step] = StartIt => c = "charger" /\ on
        BY <2>1
    <2>3. Program[step] = StartIt => started'["charger"]
        BY <2>1, <2>2 DEF TypeOK, Chips
    <2>4. Program[step] # DriveIt /\ Program[step] # MaskIt
        BY <2>1
    <2> QED
        BY <2>1, <2>3, <2>4, TestingGoes
<1>3. ASSUME NEW on \in BOOLEAN, NEW p \in Pins, SetDriven(p, on)
      PROVE  Testing'
    <2>1. /\ Running /\ Go /\ Program[step] = <<IF on THEN "drive" ELSE "release", p>>
          /\ driven' = IF on THEN driven \cup {p} ELSE driven \ {p}
          /\ UNCHANGED <<masked, started>>
        BY <1>3 DEF SetDriven, At
    <2>2. Program[step] # StartIt /\ Program[step] # MaskIt
        BY <2>1
    <2>3. Program[step] = DriveIt => p = "charger" /\ on = TRUE
        BY <2>1
    <2>4. Program[step] = DriveIt /\ Ahead(1) => Response'
        BY <1>3, <2>3, DriveGivesEdge DEF Response
    <2>5. "charger" \in driven' => "charger" \in driven \/ Program[step] = DriveIt
        BY <2>1
    <2> QED
        BY <2>1, <2>2, <2>4, <2>5, TestingGoes
<1>4. ASSUME Running, Go, UNCHANGED <<driven, masked, started>>,
             Program[step] \notin {DriveIt, StartIt, MaskIt}
      PROVE  Testing'
    BY <1>4, TestingGoes
<1>5. ASSUME NEW c \in Chips, Reset(c) \/ Await(c)
      PROVE  Testing'
    <2>1. /\ Running /\ Go /\ UNCHANGED <<driven, masked, started>>
          /\ Program[step] = <<"reset", c>> \/ Program[step] = <<"await", c>>
        BY <1>5 DEF Reset, Await, At
    <2> QED
        BY <1>4, <2>1
<1>6. ASSUME UNCHANGED <<driven, masked, started>>, step' = Halted
      PROVE  Testing'
    <2>1. Halted # step \/ ~Running
        BY DEF Running
    <2> QED
        BY <1>6, <2>1, TestingStays
<1>7. ASSUME NEW c \in Chips, TimeOut(c)
      PROVE  Testing'
    BY <1>6, <1>7 DEF TimeOut
<1>8. ASSUME NEW m \in Motors, Point(m) \/ ReadFault(m) \/ ClearFault(m) \/ CheckFault(m)
      PROVE  Testing'
    <2>1. /\ Running /\ (Go \/ step' = Halted) /\ UNCHANGED <<driven, masked, started>>
          /\ \/ Program[step] = <<"point", m>>
             \/ Program[step] = <<"read", m>>
             \/ Program[step] = <<"clear", m>>
             \/ Program[step] = <<"check", m>>
        BY <1>8 DEF Point, ReadFault, ClearFault, CheckFault, At, Clear
    <2> QED
        BY <1>4, <1>6, <2>1
<1>9. CASE CheckHigh
    <2>1. /\ Running /\ (Go \/ step' = Halted) /\ UNCHANGED <<driven, masked, started>>
          /\ Program[step] = <<"high", "wireless">>
        BY <1>9 DEF CheckHigh, At
    <2> QED
        BY <1>4, <1>6, <2>1
<1>11. ASSUME Look \/ \E chip \in OnBus : PointElsewhere(chip)
       PROVE  Testing'
    <2>1. /\ Running /\ Go /\ UNCHANGED <<driven, masked, started>>
          /\ \/ Program[step] = <<"look", "charger">>
             \/ \E chip \in OnBus : Program[step] = <<"elsewhere", chip>>
        BY <1>11 DEF Look, ReadCharger, PointElsewhere, At
    <2> QED
        BY <1>4, <2>1
<1>10. ASSUME NEW p \in Pins, OnInterrupt(p)
       PROVE  Testing'
    <2>1. /\ UNCHANGED <<driven, masked, started, completed>>
          /\ latched' = [latched EXCEPT ![p] = {}]
          /\ step' \in {step, Halted}
        BY <1>10, Queueing DEF OnInterrupt
    <2>2. ASSUME step' = step, Running, Response, started["charger"]
          PROVE  Response'
        <3>1. step' # Halted
            BY <2>2 DEF Running
        <3>2. CASE p = "charger"
            <4>1. Chip(p) = "charger"
                BY <3>2 DEF Chip, Motors
            <4> QED
                BY <1>10, <2>2, <3>1, <4>1, Queueing DEF Response
        <3>3. CASE p # "charger"
            <4>1. latched'["charger"] = latched["charger"]
                BY <2>1, <3>3 DEF TypeOK, Pins
            <4>2. \A i \in 1 .. Len(call_queue) :
                      i \in 1 .. Len(call_queue') /\ call_queue'[i] = call_queue[i]
                BY <1>10, <3>1, Queueing
            <4> QED
                BY <2>1, <2>2, <4>1, <4>2 DEF Response
        <3> QED
            BY <3>2, <3>3
    <2> QED
        BY <2>1, <2>2, TestingStays
<1> QED
    BY <1>1, <1>2, <1>3, <1>5, <1>7, <1>8, <1>9, <1>10, <1>11
    DEF Core0, Instructions, Interrupts

LEMMA TestingNext == TypeOK /\ Testing /\ [Next]_vars => Testing'
<1>1. UNCHANGED vars /\ TypeOK /\ Testing => Testing'
    BY DEF vars, pins, flags, Testing, Ahead, Running, Response
<1> QED
    BY <1>1, TestingWorld, TestingCore0, TestingCore1 DEF Next

(* ChargerTestPasses: while test_max77976_interrupt waits, the response is *)
(* there or on its way, or its interrupt is yet to be taken.               *)
THEOREM ChargerTestPassesAlways == Spec => []ChargerTestPasses
<1>1. TypeOK /\ Testing => ChargerTestPasses
    BY TestPasses DEF Testing
<1> QED
    BY <1>1, TypeCorrect, TestingInit, TestingNext, PTL DEF Spec
=============================================================================
