--------------------------- MODULE Encoder_proofs ---------------------------
(***************************************************************************)
(* Theorems about Encoder for every number of encoders, word, depth of the *)
(* FIFOs, speed of the wheels and first content of Y.  Layers: arithmetic  *)
(* modulo the word, the pins, the types with the handshake through the     *)
(* FIFOs, what each count is a count of, the refinement.                   *)
(***************************************************************************)
EXTENDS Encoder, TLAPS

-----------------------------------------------------------------------------
(* Arithmetic *)

LEMMA WordType ==
    /\ Word \in Nat /\ Word >= 4 /\ Word % 2 = 0
    /\ Word \div 2 \in Nat /\ Word = 2 * (Word \div 2)
<1>1. Word \in Nat /\ Word > 0 /\ Word % 4 = 0
  BY EncoderAssumption
<1>2. QED
  BY <1>1, SMT

LEMMA Multiple ==
    ASSUME NEW n \in Int
    PROVE  /\ n % Word \in Counts
           /\ \E k \in Int : n = (n % Word) + k * Word
<1>1. /\ n % Word \in 0 .. Word - 1
      /\ n \div Word \in Int
      /\ n = Word * (n \div Word) + (n % Word)
  BY WordType, SMT
<1>2. n = (n % Word) + (n \div Word) * Word
  BY <1>1, WordType, SMT
<1>3. QED
  BY <1>1, <1>2 DEF Counts

(* A number that is a multiple of the word above a count has this count as *)
(* its remainder.                                                          *)
LEMMA Remainder ==
    ASSUME NEW r \in Counts, NEW k \in Int, NEW n \in Int, n = r + k * Word
    PROVE  n % Word = r
<1> DEFINE s == n % Word
<1>1. s \in Counts
  BY Multiple
<1>2. PICK j \in Int : n = s + j * Word
  BY Multiple
<1> HIDE DEF s
<1>3. s - r = (k - j) * Word
  BY <1>1, <1>2, WordType, SMT DEF Counts
<1>4. s - r < Word /\ s - r > -Word
  BY <1>1, WordType, SMT DEF Counts
<1>5. k - j < 1
  <2>1. SUFFICES ASSUME k - j >= 1 PROVE FALSE
    BY SMT
  <2>2. (k - j) * Word >= Word
    BY <2>1, WordType, SMT
  <2>3. QED
    BY <2>2, <1>1, <1>3, <1>4, WordType, SMT DEF Counts
<1>6. k - j > -1
  <2>1. SUFFICES ASSUME k - j <= -1 PROVE FALSE
    BY SMT
  <2>2. (k - j) * Word <= -Word
    BY <2>1, WordType, SMT
  <2>3. QED
    BY <2>2, <1>1, <1>3, <1>4, WordType, SMT DEF Counts
<1>7. k = j
  BY <1>5, <1>6, SMT
<1>8. QED
  BY <1>1, <1>3, <1>7, WordType, SMT DEF Counts, s

(* The instructions that change Y: it stays in the word, and goes up or    *)
(* down by one, or by one less the word where it wraps.                    *)
LEMMA CountedRange ==
    ASSUME NEW n \in Counts, NEW target \in {"increment", "decrement", "update"}
    PROVE  Counted(target, n) \in Counts
BY WordType, SMT DEF Counted, Incremented, Decremented, Negated, Counts

LEMMA CountedBy ==
    ASSUME NEW n \in Counts
    PROVE  /\ \E k \in {0, 1} : Counted("increment", n) = n + 1 - k * Word
           /\ \E k \in {0, 1} : Counted("decrement", n) = n - 1 + k * Word
           /\ Counted("update", n) = n
<1>1. Counted("increment", n) = IF n = Word - 1 THEN 0 ELSE n + 1
  BY WordType, SMT DEF Counted, Incremented, Decremented, Negated, Counts
<1>2. Counted("decrement", n) = IF n = 0 THEN Word - 1 ELSE n - 1
  BY WordType, SMT DEF Counted, Decremented, Counts
<1>3. Counted("update", n) = n
  BY DEF Counted
<1>4. \E k \in {0, 1} : Counted("increment", n) = n + 1 - k * Word
  BY <1>1, WordType, SMT DEF Counts
<1>5. \E k \in {0, 1} : Counted("decrement", n) = n - 1 + k * Word
  BY <1>2, WordType, SMT DEF Counts
<1>6. QED
  BY <1>3, <1>4, <1>5

(* A difference that fits in half a word survives the wrapping of both     *)
(* counts.                                                                 *)
LEMMA SignedDifference ==
    ASSUME NEW d \in Int, d >= -(Word \div 2), d <= Word \div 2 - 1,
           NEW new \in Counts, NEW old \in Counts,
           NEW k \in Int, new - old = d + k * Word
    PROVE  Delta(new, old) = d
<1>1. CASE d >= 0
  <2>1. d \in Counts
    BY <1>1, WordType, SMT DEF Counts
  <2>2. (new - old) % Word = d
    BY <2>1, Remainder, SMT DEF Counts
  <2>3. QED
    BY <1>1, <2>2, WordType, SMT DEF Delta, Signed
<1>2. CASE d < 0
  <2>1. d + Word \in Counts
    BY <1>2, WordType, SMT DEF Counts
  <2>2. new - old = (d + Word) + (k - 1) * Word
    BY WordType, SMT DEF Counts
  <2>3. (new - old) % Word = d + Word
    <3>1. k - 1 \in Int /\ new - old \in Int
      BY WordType, SMT DEF Counts
    <3>2. QED
      BY <2>1, <2>2, <3>1, Remainder
  <2>4. QED
    BY <1>2, <2>3, WordType, SMT DEF Delta, Signed
<1>3. QED
  BY <1>1, <1>2, SMT

-----------------------------------------------------------------------------
(* The pins *)

LEMMA PinsRange ==
    ASSUME NEW p \in Int
    PROVE  Pins(p) \in 0 .. 3
<1>1. p % 4 \in 0 .. 3
  BY SMT
<1>2. QED
  BY <1>1, SMT DEF Pins, Phases

(* The jump table tells a step from its direction, and takes everything    *)
(* that is no step, or two, for none; its target is an odd step exactly    *)
(* when the wheel turned by an odd number of them.                         *)
LEMMA TargetOfStep ==
    ASSUME NEW s \in Int, NEW p \in Int
    PROVE  /\ Target(Pins(s), Pins(p)) \in {"increment", "decrement", "update"}
           /\ p = s + 1 => Target(Pins(s), Pins(p)) = "increment"
           /\ p = s - 1 => Target(Pins(s), Pins(p)) = "decrement"
           /\ p = s => Target(Pins(s), Pins(p)) = "update"
           /\ (Target(Pins(s), Pins(p)) = "update") <=> (p - s) % 2 = 0
<1>1. s % 4 \in 0 .. 3 /\ p % 4 \in 0 .. 3
  BY SMT
<1> DEFINE a == s % 4
           b == p % 4
           T == Target(Pins(s), Pins(p))
<1>2. /\ T \in {"increment", "decrement", "update"}
      /\ T = "increment" <=> b = (a + 1) % 4
      /\ T = "decrement" <=> a = (b + 1) % 4
      /\ T = "update" <=> a = b \/ b = (a + 2) % 4
  <2> HIDE DEF a, b
  <2> SUFFICES ASSUME NEW i \in 0 .. 3, NEW j \in 0 .. 3, a = i, b = j
               PROVE  LET t == JumpTable[Phases[i + 1] + 1][Phases[j + 1] + 1]
                      IN  /\ t \in {"increment", "decrement", "update"}
                          /\ t = "increment" <=> j = (i + 1) % 4
                          /\ t = "decrement" <=> i = (j + 1) % 4
                          /\ t = "update" <=> i = j \/ j = (i + 2) % 4
    BY <1>1 DEF a, b, Target, Pins
  <2>1. QED
    BY SMT DEF JumpTable, Phases
<1>3. /\ p = s + 1 => b = (a + 1) % 4
      /\ p = s - 1 => a = (b + 1) % 4
      /\ p = s => a = b
      /\ (p - s) % 2 = 0 <=> (a = b \/ b = (a + 2) % 4)
  BY SMT
<1> HIDE DEF a, b, T
<1>4. QED
  BY <1>1, <1>2, <1>3, SMT DEF T, a, b

(* However far the wheel turned between two samplings, the count changes by *)
(* as many steps, modulo two.                                              *)
LEMMA CountedParity ==
    ASSUME NEW s \in Int, NEW p \in Int, NEW n \in Counts
    PROVE  (Counted(Target(Pins(s), Pins(p)), n) - n - (p - s)) % 2 = 0
<1> DEFINE target == Target(Pins(s), Pins(p))
<1>1. /\ target \in {"increment", "decrement", "update"}
      /\ target = "update" <=> (p - s) % 2 = 0
  BY TargetOfStep
<1> HIDE DEF target
<1>2. n \in Int
  BY WordType, SMT DEF Counts
<1>3. CASE target = "update"
  <2>1. Counted(target, n) = n /\ (p - s) % 2 = 0
    BY <1>1, <1>3, CountedBy
  <2>2. QED
    BY <1>2, <2>1, SMT DEF target
<1>4. CASE target = "increment"
  <2>1. (p - s) % 2 = 1
    BY <1>1, <1>4, SMT
  <2>2. PICK k \in {0, 1} : Counted(target, n) = n + 1 - k * Word
    BY <1>4, CountedBy
  <2>3. k * Word = 0 \/ k * Word = 2 * (Word \div 2)
    BY WordType, SMT
  <2>4. QED
    BY <1>2, <2>1, <2>2, <2>3, WordType, SMT DEF target
<1>5. CASE target = "decrement"
  <2>1. (p - s) % 2 = 1
    BY <1>1, <1>5, SMT
  <2>2. PICK k \in {0, 1} : Counted(target, n) = n - 1 + k * Word
    BY <1>5, CountedBy
  <2>3. k * Word = 0 \/ k * Word = 2 * (Word \div 2)
    BY WordType, SMT
  <2>4. QED
    BY <1>2, <2>1, <2>2, <2>3, WordType, SMT DEF target
<1>6. QED
  BY <1>1, <1>3, <1>4, <1>5

-----------------------------------------------------------------------------
(* The types and the handshake *)

Answers == [count : Counts, of : Int]
Single == {<<>>} \cup {<<a>> : a \in Answers}

LEMMA OneAnswer ==
    ASSUME NEW a \in Answers
    PROVE  /\ <<a>> # <<>> /\ Head(<<a>>) = a /\ Tail(<<a>>) = <<>>
           /\ Append(<<>>, a) = <<a>>
           /\ <<a>> \in Single
BY SMT DEF Single

Typed ==
    /\ position \in [Encoders -> Int]
    /\ seen \in [Encoders -> Int]
    /\ y \in [Encoders -> Counts]
    /\ sm \in [Encoders -> {"update", "push", "sample_pins"}]
    /\ tx \in [Encoders -> 0 .. 1]
    /\ rx \in [Encoders -> Single]
    /\ pc \in Between \cup Requesting \cup Fetching
    /\ reading \in Encoders
    /\ count \in [Encoders -> Counts]
    /\ first \in [Encoders -> Counts]
    /\ missed \in [Encoders -> BOOLEAN]
    /\ behind \in [Encoders -> Int]

(* A question is in one place at a time: in the TX FIFO, with the state    *)
(* machine, or, answered, in the RX FIFO; and only while core 0 waits.     *)
Handshake ==
    \A e \in Encoders :
        /\ tx[e] = 1 => Asked(e) /\ sm[e] # "push" /\ rx[e] = <<>>
        /\ sm[e] = "push" => Asked(e) /\ rx[e] = <<>>
        /\ rx[e] # <<>> => Asked(e)

Inv == Typed /\ Handshake

LEMMA InitInv == Init => Inv
<1> SUFFICES ASSUME Init PROVE Inv
  OBVIOUS
<1>1. Typed
  <2>1. 0 \in Encoders /\ 0 \in Counts
    BY EncoderAssumption, SMT DEF Encoders, Counts
  <2>2. first \in [Encoders -> Counts]
    BY EncoderAssumption DEF Init, Counts
  <2>3. behind \in [Encoders -> Int]
    BY <2>2, WordType, SMT DEF Init, Counts
  <2>4. position \in [Encoders -> Int]
    BY SMT DEF Init
  <2>5. tx \in [Encoders -> 0 .. 1] /\ rx \in [Encoders -> Single]
    BY SMT DEF Init, Single
  <2>6. QED
    BY <2>1, <2>2, <2>3, <2>4, <2>5 DEF Init, Typed, Between
<1>2. Handshake
  BY SMT DEF Init, Handshake
<1>3. QED
  BY <1>1, <1>2 DEF Inv

LEMMA TurnInv ==
    ASSUME Inv, NEW e \in Encoders, Turn(e)
    PROVE  Inv'
<1>1. position' \in [Encoders -> Int]
  BY SMT DEF Inv, Typed, Turn
<1>2. QED
  BY <1>1 DEF Inv, Typed, Handshake, Turn, Asked, machines, core, history

LEMMA PollInv ==
    ASSUME Inv, NEW e \in Encoders, Poll(e)
    PROVE  Inv'
<1>1. Typed'
  BY SMT DEF Inv, Typed, Poll, SmGoto, wheels, core, history
<1>2. Handshake'
  BY SMT DEF Inv, Typed, Handshake, Poll, SmGoto, Asked, wheels, core, history
<1>3. QED
  BY <1>1, <1>2 DEF Inv

LEMMA PushAnswers ==
    ASSUME Inv, NEW e \in Encoders, Push(e)
    PROVE  /\ Asked(e) /\ rx[e] = <<>> /\ tx[e] = 0
           /\ [count |-> y[e], of |-> seen[e]] \in Answers
           /\ rx' = [rx EXCEPT ![e] = <<[count |-> y[e], of |-> seen[e]]>>]
<1>1. Asked(e) /\ rx[e] = <<>> /\ tx[e] = 0
  BY SMT DEF Inv, Typed, Handshake, Push, SmGoto
<1>2. [count |-> y[e], of |-> seen[e]] \in Answers
  BY DEF Inv, Typed, Answers
<1>3. QED
  BY <1>1, <1>2, OneAnswer DEF Push

LEMMA PushInv ==
    ASSUME Inv, NEW e \in Encoders, Push(e)
    PROVE  Inv'
<1>1. Typed'
  <2>1. rx' \in [Encoders -> Single]
    <3> DEFINE a == [count |-> y[e], of |-> seen[e]]
    <3>1. a \in Answers /\ rx' = [rx EXCEPT ![e] = <<a>>]
      BY PushAnswers
    <3> HIDE DEF a
    <3>2. <<a>> \in Single
      BY <3>1, OneAnswer
    <3>3. QED
      BY <3>1, <3>2 DEF Inv, Typed
  <2>2. sm' \in [Encoders -> {"update", "push", "sample_pins"}]
    BY DEF Inv, Typed, Push, SmGoto
  <2>3. QED
    BY <2>1, <2>2 DEF Inv, Typed, Push, wheels, core, history
<1>2. Handshake'
  BY PushAnswers, SMT DEF Inv, Typed, Handshake, Push, SmGoto, Asked, wheels, core, history
<1>3. QED
  BY <1>1, <1>2 DEF Inv

LEMMA SampleInv ==
    ASSUME Inv, NEW e \in Encoders, Sample(e)
    PROVE  Inv'
<1>1. y' \in [Encoders -> Counts]
  <2>1. seen[e] \in Int /\ position[e] \in Int /\ y[e] \in Counts
    BY DEF Inv, Typed
  <2>2. Counted(Target(Pins(seen[e]), Pins(position[e])), y[e]) \in Counts
    BY <2>1, TargetOfStep, CountedRange
  <2>3. QED
    BY <2>2 DEF Inv, Typed, Sample
<1>2. seen' \in [Encoders -> Int] /\ missed' \in [Encoders -> BOOLEAN]
  BY SMT DEF Inv, Typed, Sample
<1>3. sm' \in [Encoders -> {"update", "push", "sample_pins"}]
  BY DEF Inv, Typed, Sample, SmGoto
<1>4. Handshake'
  BY SMT DEF Inv, Typed, Handshake, Sample, SmGoto, Asked, core
<1>5. QED
  BY <1>1, <1>2, <1>3, <1>4 DEF Inv, Typed, Sample, core

LEMMA CallInv ==
    ASSUME Inv, Call
    PROVE  Inv'
<1>1. 0 \in Encoders
  BY EncoderAssumption, SMT DEF Encoders
<1>2. QED
  BY <1>1, SMT DEF Inv, Typed, Handshake, Call, Asked, Between, Requesting, Fetching,
                   wheels, machines, history

LEMMA ServeInv ==
    ASSUME Inv, Serve
    PROVE  Inv'
BY SMT DEF Inv, Typed, Handshake, Serve, Asked, Between, Requesting, Fetching,
           wheels, machines, history

LEMMA RequestCountInv ==
    ASSUME Inv, RequestCount
    PROVE  Inv'
<1>1. pc \in Requesting /\ pc' \in Fetching
  BY DEF RequestCount, Requesting, Fetching
<1>2. \A e \in Encoders : ~Asked(e) /\ tx[e] = 0 /\ sm[e] # "push" /\ rx[e] = <<>>
  <2>1. pc \notin Fetching
    BY <1>1, SMT DEF Requesting, Fetching
  <2>2. QED
    BY <2>1, SMT DEF Inv, Typed, Handshake, Asked
<1>3. tx' = [tx EXCEPT ![reading] = 1]
  <2>1. reading \in Encoders /\ tx[reading] = 0 /\ 0 < FifoDepth
    BY <1>2, EncoderAssumption, SMT DEF Inv, Typed
  <2>2. (IF tx[reading] < FifoDepth THEN tx[reading] + 1 ELSE tx[reading]) = 1
    BY <2>1, SMT
  <2>3. QED
    BY <2>2, Zenon DEF RequestCount
<1>4. Typed'
  BY <1>1, <1>3, SMT DEF Inv, Typed, RequestCount, wheels, history
<1>5. Handshake'
  BY <1>1, <1>2, <1>3, SMT DEF Inv, Typed, Handshake, RequestCount, Asked, wheels, history
<1>6. QED
  BY <1>4, <1>5 DEF Inv

(* What core 0 fetches is the answer to the question it has just asked.    *)
LEMMA FetchGets ==
    ASSUME Inv, NEW end \in Fetching, NEW request \in Requesting, NEW next \in Between,
           Fetch(end, request, next)
    PROVE  /\ Asked(reading) /\ reading \in Encoders
           /\ tx[reading] = 0 /\ sm[reading] # "push"
           /\ \E a \in Answers : rx[reading] = <<a>> /\ a = Head(rx[reading])
           /\ rx' = [rx EXCEPT ![reading] = <<>>]
           /\ pc' \in Requesting \cup Between /\ reading' \in Encoders
<1>1. Asked(reading) /\ reading \in Encoders
  BY DEF Inv, Typed, Fetch, Asked
<1>2. tx[reading] = 0 /\ sm[reading] # "push"
  BY <1>1, SMT DEF Inv, Typed, Handshake, Fetch
<1>3. \E a \in Answers : rx[reading] = <<a>>
  BY <1>1 DEF Inv, Typed, Fetch, Single
<1>4. PICK a \in Answers : rx[reading] = <<a>>
  BY <1>3
<1>5. a = Head(rx[reading]) /\ Tail(rx[reading]) = <<>>
  BY <1>4, OneAnswer
<1>6. pc' \in Requesting \cup Between /\ reading' \in Encoders
  BY <1>1 DEF Fetch, GotoNext
<1>7. QED
  BY <1>1, <1>2, <1>4, <1>5, <1>6 DEF Fetch

LEMMA FetchInv ==
    ASSUME Inv, NEW end \in Fetching, NEW request \in Requesting, NEW next \in Between,
           Fetch(end, request, next)
    PROVE  Inv'
<1>1. \A e \in Encoders : ~Asked(e)'
  BY FetchGets, SMT DEF Asked, Requesting, Between, Fetching
<1>2. count' \in [Encoders -> Counts] /\ behind' \in [Encoders -> Int]
  BY FetchGets DEF Inv, Typed, Fetch, Answers
<1>3. rx' \in [Encoders -> Single]
  BY FetchGets DEF Inv, Typed, Single
<1>4. Typed'
  BY <1>2, <1>3, FetchGets DEF Inv, Typed, Fetch, wheels
<1>5. Handshake'
  BY <1>1, FetchGets, SMT DEF Inv, Typed, Handshake, Fetch, Asked
<1>6. QED
  BY <1>4, <1>5 DEF Inv

LEMMA StartFetch ==
    /\ "start_fetch" \in Fetching /\ "start_request" \in Requesting /\ "start" \in Between
    /\ "serve_fetch" \in Fetching /\ "serve_request" \in Requesting /\ "serve" \in Between
BY DEF Fetching, Requesting, Between

LEMMA StutterInv ==
    ASSUME Inv, UNCHANGED vars
    PROVE  Inv'
BY DEF Inv, Typed, Handshake, Asked, vars, wheels, machines, core, history

LEMMA NextInv ==
    ASSUME Inv, [Next]_vars
    PROVE  Inv'
<1>1. ASSUME NEW e \in Encoders, Turn(e) PROVE Inv'
  BY <1>1, TurnInv
<1>2. ASSUME NEW e \in Encoders, Machine(e) PROVE Inv'
  BY <1>2, PollInv, PushInv, SampleInv DEF Machine
<1>3. CASE Call
  BY <1>3, CallInv
<1>4. CASE Serve
  BY <1>4, ServeInv
<1>5. CASE RequestCount
  BY <1>5, RequestCountInv
<1>6. CASE FetchForUpdate \/ FetchForState
  BY <1>6, FetchInv, StartFetch DEF FetchForUpdate, FetchForState
<1>7. CASE UNCHANGED vars
  BY <1>7, StutterInv
<1>8. QED
  BY <1>1, <1>2, <1>3, <1>4, <1>5, <1>6, <1>7 DEF Next, Core0

LEMMA InvTypeOK ==
    ASSUME Inv
    PROVE  TypeOK
<1>1. ASSUME NEW e \in Encoders, rx[e] # <<>>
      PROVE  \E n \in Counts, p \in {seen[e], rx[e][1].of} : rx[e] = <<[count |-> n, of |-> p]>>
  <2>1. PICK a \in Answers : rx[e] = <<a>>
    BY <1>1 DEF Inv, Typed, Single
  <2>2. a.count \in Counts /\ a = [count |-> a.count, of |-> a.of]
    BY DEF Answers
  <2>3. rx[e][1] = a
    BY <2>1
  <2>4. QED
    BY <2>1, <2>2, <2>3
<1>2. QED
  BY <1>1 DEF Inv, Typed, TypeOK

(* No FIFO ever holds more than one entry, whatever the number of encoders *)
(* and the depth of the FIFOs, and Y stays in its word.                    *)
THEOREM TypeCorrect == Spec => []TypeOK
<1>1. Inv /\ [Next]_vars => Inv'
  BY NextInv
<1>2. Inv => TypeOK
  BY InvTypeOK
<1>3. QED
  BY InitInv, <1>1, <1>2, PTL DEF Spec

-----------------------------------------------------------------------------
(* What a count is a count of *)

(* n is what Y holds p steps away from where it started. *)
Follows(e, n, p) == \E k \in Int : first[e] + p = n + k * Word

Exact ==
    \A e \in Encoders : ~missed[e] =>
        /\ Follows(e, y[e], seen[e])
        /\ rx[e] # <<>> => Follows(e, Head(rx[e]).count, Head(rx[e]).of)
        /\ Follows(e, count[e], behind[e])

LEMMA InitExact ==
    ASSUME Init
    PROVE  Exact
<1> SUFFICES ASSUME NEW e \in Encoders
             PROVE  Follows(e, first[e], 0) /\ Follows(e, 0, -first[e])
  BY DEF Init, Exact
<1>1. first[e] \in Int
  <2>1. first[e] \in Counts
    BY InitInv DEF Inv, Typed
  <2>2. QED
    BY <2>1, WordType, SMT DEF Counts
<1>2. first[e] + 0 = first[e] + 0 * Word /\ first[e] + (-first[e]) = 0 + 0 * Word
  BY <1>1, WordType, SMT
<1>3. QED
  BY <1>2, SMT DEF Follows

(* A sampling takes the count along with the wheel. *)
LEMMA SampleFollows ==
    ASSUME Inv, NEW e \in Encoders, Sample(e), ~missed'[e], Follows(e, y[e], seen[e])
    PROVE  Follows(e, y[e], seen[e])'
<1> DEFINE s == seen[e]
           p == position[e]
           n == y[e]
           target == Target(Pins(s), Pins(p))
<1>1. s \in Int /\ p \in Int /\ n \in Counts /\ first[e] \in Int /\ n \in Int
  BY WordType, SMT DEF Inv, Typed, Counts
<1>2. seen'[e] = p /\ y'[e] = Counted(target, n) /\ first' = first
  BY DEF Inv, Typed, Sample
<1>3. p = s \/ p = s + 1 \/ p = s - 1
  <2>1. p - s \in -1 .. 1
    BY DEF Inv, Typed, Sample
  <2>2. QED
    BY <1>1, <2>1, SMT
<1>4. PICK k \in Int : first[e] + s = n + k * Word
  BY DEF Follows
<1>5. SUFFICES \E j \in Int : first[e] + p = Counted(target, n) + j * Word
  BY <1>2 DEF Follows
<1>6. CASE p = s
  BY <1>1, <1>4, <1>6, TargetOfStep, CountedBy
<1>7. CASE p = s + 1
  <2>1. target = "increment"
    BY <1>1, <1>7, TargetOfStep
  <2>2. PICK d \in {0, 1} : Counted("increment", n) = n + 1 - d * Word
    BY <1>1, CountedBy
  <2> HIDE DEF s, p, n, target
  <2>3. first[e] + p = Counted(target, n) + (k + d) * Word
    BY <1>1, <1>4, <1>7, <2>1, <2>2, WordType, SMT
  <2>4. QED
    BY <2>3, SMT
<1>8. CASE p = s - 1
  <2>1. target = "decrement"
    BY <1>1, <1>8, TargetOfStep
  <2>2. PICK d \in {0, 1} : Counted("decrement", n) = n - 1 + d * Word
    BY <1>1, CountedBy
  <2> HIDE DEF s, p, n, target
  <2>3. first[e] + p = Counted(target, n) + (k - d) * Word
    BY <1>1, <1>4, <1>8, <2>1, <2>2, WordType, SMT
  <2>4. QED
    BY <2>3, SMT
<1>9. QED
  BY <1>3, <1>6, <1>7, <1>8

LEMMA SampleExact ==
    ASSUME Inv, Exact, NEW e \in Encoders, Sample(e)
    PROVE  Exact'
<1> SUFFICES ASSUME NEW f \in Encoders, ~missed'[f]
             PROVE  /\ Follows(f, y[f], seen[f])'
                    /\ rx'[f] # <<>> => Follows(f, Head(rx[f]).count, Head(rx[f]).of)'
                    /\ Follows(f, count[f], behind[f])'
  BY DEF Exact
<1>1. ~missed[f]
  BY DEF Inv, Typed, Sample
<1>2. first' = first /\ rx' = rx /\ count' = count /\ behind' = behind
  BY DEF Sample, core
<1>3. Follows(f, y[f], seen[f])'
  <2>1. CASE f = e
    BY <1>1, <2>1, SampleFollows DEF Exact
  <2>2. CASE f # e
    <3>1. y'[f] = y[f] /\ seen'[f] = seen[f]
      BY <2>2 DEF Inv, Typed, Sample
    <3>2. QED
      BY <1>1, <1>2, <3>1 DEF Exact, Follows
  <2>3. QED
    BY <2>1, <2>2
<1>4. QED
  BY <1>1, <1>2, <1>3 DEF Exact, Follows

LEMMA PushExact ==
    ASSUME Inv, Exact, NEW e \in Encoders, Push(e)
    PROVE  Exact'
<1> SUFFICES ASSUME NEW f \in Encoders, ~missed'[f]
             PROVE  /\ Follows(f, y[f], seen[f])'
                    /\ rx'[f] # <<>> => Follows(f, Head(rx[f]).count, Head(rx[f]).of)'
                    /\ Follows(f, count[f], behind[f])'
  BY DEF Exact
<1>1. /\ missed' = missed /\ first' = first /\ y' = y /\ seen' = seen
      /\ count' = count /\ behind' = behind
  BY DEF Push, wheels, core, history
<1>2. rx'[f] # <<>> => Follows(f, Head(rx[f]).count, Head(rx[f]).of)'
  <2>1. CASE f = e
    <3> DEFINE a == [count |-> y[e], of |-> seen[e]]
    <3>1. a \in Answers /\ rx'[f] = <<a>>
      BY <2>1, PushAnswers DEF Inv, Typed
    <3>2. Head(rx'[f]) = a /\ a.count = y[f] /\ a.of = seen[f]
      <4>1. Head(<<a>>) = a
        BY <3>1, OneAnswer
      <4>2. QED
        BY <2>1, <3>1, <4>1
    <3>3. QED
      BY <1>1, <3>2 DEF Exact, Follows
  <2>2. CASE f # e
    <3>1. rx'[f] = rx[f]
      BY <2>2, PushAnswers DEF Inv, Typed
    <3>2. QED
      BY <1>1, <3>1 DEF Exact, Follows
  <2>3. QED
    BY <2>1, <2>2
<1>3. QED
  BY <1>1, <1>2 DEF Exact, Follows

LEMMA FetchExact ==
    ASSUME Inv, Exact, NEW end \in Fetching, NEW request \in Requesting, NEW next \in Between,
           Fetch(end, request, next)
    PROVE  Exact'
<1> SUFFICES ASSUME NEW f \in Encoders, ~missed'[f]
             PROVE  /\ Follows(f, y[f], seen[f])'
                    /\ rx'[f] # <<>> => Follows(f, Head(rx[f]).count, Head(rx[f]).of)'
                    /\ Follows(f, count[f], behind[f])'
  BY DEF Exact
<1>1. missed' = missed /\ first' = first /\ y' = y /\ seen' = seen
  BY DEF Fetch, wheels
<1>2. CASE f = reading
  <2>1. /\ count'[f] = Head(rx[f]).count /\ behind'[f] = Head(rx[f]).of
        /\ rx'[f] = <<>> /\ rx[f] # <<>>
    BY <1>2, FetchGets DEF Inv, Typed, Fetch
  <2>2. QED
    BY <1>1, <2>1 DEF Exact, Follows
<1>3. CASE f # reading
  <2>1. count'[f] = count[f] /\ behind'[f] = behind[f] /\ rx'[f] = rx[f]
    BY <1>3, FetchGets DEF Inv, Typed, Fetch
  <2>2. QED
    BY <1>1, <2>1 DEF Exact, Follows
<1>4. QED
  BY <1>2, <1>3

LEMMA NextExact ==
    ASSUME Inv, Exact, [Next]_vars
    PROVE  Exact'
<1>1. ASSUME UNCHANGED <<missed, first, y, seen, rx, count, behind>> PROVE Exact'
  BY <1>1 DEF Exact, Follows
<1>2. CASE \E e \in Encoders : Turn(e)
  BY <1>1, <1>2 DEF Turn, machines, core, history
<1>3. CASE \E e \in Encoders : Poll(e)
  BY <1>1, <1>3 DEF Poll, wheels, core, history
<1>4. CASE \E e \in Encoders : Push(e)
  BY <1>4, PushExact
<1>5. CASE \E e \in Encoders : Sample(e)
  BY <1>5, SampleExact
<1>6. CASE Call \/ Serve
  BY <1>1, <1>6 DEF Call, Serve, wheels, machines, history
<1>7. CASE RequestCount
  BY <1>1, <1>7 DEF RequestCount, wheels, history
<1>8. CASE FetchForUpdate \/ FetchForState
  BY <1>8, FetchExact, StartFetch DEF FetchForUpdate, FetchForState
<1>9. CASE UNCHANGED vars
  BY <1>1, <1>9 DEF vars, wheels, machines, core, history
<1>10. QED
  BY <1>2, <1>3, <1>4, <1>5, <1>6, <1>7, <1>8, <1>9 DEF Next, Core0, Machine

LEMMA ExactCounts ==
    ASSUME Inv, Exact
    PROVE  CountExact
<1> SUFFICES ASSUME NEW e \in Encoders, ~missed[e]
             PROVE  y[e] = (first[e] + seen[e]) % Word
  BY DEF CountExact
<1>1. PICK k \in Int : first[e] + seen[e] = y[e] + k * Word
  BY DEF Exact, Follows
<1>2. y[e] \in Counts /\ first[e] + seen[e] \in Int
  BY WordType, SMT DEF Inv, Typed, Counts
<1>3. QED
  BY <1>1, <1>2, Remainder

(* Every encoder's count is where its wheel was last sampled, modulo the   *)
(* word, for any word that is a multiple of four and any number of wraps.  *)
THEOREM CountsExact == Spec => []CountExact
<1>1. Init => Inv /\ Exact
  BY InitInv, InitExact
<1>2. Inv /\ Exact /\ [Next]_vars => Inv' /\ Exact'
  BY NextInv, NextExact
<1>3. Inv /\ Exact => CountExact
  BY ExactCounts
<1>4. QED
  BY <1>1, <1>2, <1>3, PTL DEF Spec

-----------------------------------------------------------------------------
(* The difference of two counts *)

LEMMA FollowsStep ==
    ASSUME NEW e \in Encoders, first[e] \in Int,
           NEW n \in Counts, NEW m \in Counts, NEW s \in Int, NEW p \in Int,
           Follows(e, n, s), Follows(e, m, p)
    PROVE  (n + p - s) % Word = m
<1>1. PICK j \in Int : first[e] + s = n + j * Word
  BY DEF Follows
<1>2. PICK k \in Int : first[e] + p = m + k * Word
  BY DEF Follows
<1>3. n + p - s = m + (k - j) * Word
  BY <1>1, <1>2, WordType, SMT DEF Counts
<1>4. n + p - s \in Int /\ k - j \in Int
  BY WordType, SMT DEF Counts
<1>5. QED
  BY <1>3, <1>4, Remainder

LEMMA FollowsDelta ==
    ASSUME NEW e \in Encoders, first[e] \in Int,
           NEW new \in Counts, NEW old \in Counts, NEW p \in Int, NEW q \in Int,
           Follows(e, new, p), Follows(e, old, q),
           p - q \in -(Word \div 2) .. Word \div 2 - 1
    PROVE  Delta(new, old) = p - q
<1>1. PICK j \in Int : first[e] + p = new + j * Word
  BY DEF Follows
<1>2. PICK k \in Int : first[e] + q = old + k * Word
  BY DEF Follows
<1>3. new - old = (p - q) + (k - j) * Word
  BY <1>1, <1>2, WordType, SMT DEF Counts
<1>4. /\ p - q \in Int /\ k - j \in Int
      /\ p - q >= -(Word \div 2) /\ p - q <= Word \div 2 - 1
  BY WordType, SMT
<1>5. QED
  BY <1>3, <1>4, SignedDifference

LEMMA FetchDelta ==
    ASSUME Inv, Exact, FetchForUpdate, NEW e \in Encoders, ~missed[e],
           behind'[e] - behind[e] \in -(Word \div 2) .. Word \div 2 - 1
    PROVE  Delta(count'[e], count[e]) = behind'[e] - behind[e]
<1>1. Inv' /\ Exact'
  BY FetchInv, FetchExact, StartFetch DEF FetchForUpdate
<1>2. first' = first /\ missed' = missed
  BY DEF FetchForUpdate, Fetch
<1>3. Follows(e, count[e], behind[e])
  BY DEF Exact
<1>4. Follows(e, count'[e], behind'[e])
  BY <1>1, <1>2 DEF Exact, Follows
<1>5. /\ first[e] \in Int /\ count[e] \in Counts /\ count'[e] \in Counts
      /\ behind[e] \in Int /\ behind'[e] \in Int
  BY <1>1, WordType, SMT DEF Inv, Typed, Counts
<1>6. QED
  BY <1>3, <1>4, <1>5, FollowsDelta

(* The delta logged is how far the wheel turned, if that is less than half *)
(* a word, though either count may have wrapped.                           *)
THEOREM DeltasExact == Spec => DeltaExact
<1>1. Init => Inv /\ Exact
  BY InitInv, InitExact
<1>2. Inv /\ Exact /\ [Next]_vars => Inv' /\ Exact'
  BY NextInv, NextExact
<1>3. Inv /\ Exact /\ [Next]_vars =>
        [ FetchForUpdate =>
            \A e \in Encoders :
              LET distance == behind'[e] - behind[e]
              IN  ~missed[e] /\ distance \in -(Word \div 2) .. Word \div 2 - 1
                      => Delta(count'[e], count[e]) = distance ]_vars
  BY FetchDelta
<1>4. QED
  BY <1>1, <1>2, <1>3, PTL DEF Spec, DeltaExact

-----------------------------------------------------------------------------
(* Each encoder is a step counter. *)

LEMMA CounterInit ==
    ASSUME Init, NEW e \in Encoders
    PROVE  Counter(e)!Init
<1>1. y[e] \in Counts
  BY InitInv DEF Inv, Typed
<1>2. QED
  BY <1>1 DEF Init, Counter!Init, Counter!Counts, Counts, Asked, Fetching

LEMMA CounterStutters ==
    ASSUME NEW e \in Encoders, UNCHANGED <<seen, missed, y, rx, count>>, Asked(e)' = Asked(e)
    PROVE  UNCHANGED Counter(e)!vars
BY DEF Counter!vars

LEMMA AnswerNotNone ==
    ASSUME NEW a \in Answers
    PROVE  a.count # NoAnswer
BY WordType, SMT DEF Answers, Counts, NoAnswer

LEMMA SampleImplements ==
    ASSUME Inv, Exact, NEW f \in Encoders, Sample(f), NEW e \in Encoders
    PROVE  [Counter(e)!Step]_(Counter(e)!vars)
<1>1. rx' = rx /\ count' = count /\ Asked(e)' = Asked(e) /\ first' = first
  BY DEF Sample, core, Asked
<1>2. CASE e # f
  <2>1. y'[e] = y[e] /\ seen'[e] = seen[e] /\ missed'[e] = missed[e]
    BY <1>2 DEF Inv, Typed, Sample
  <2>2. QED
    BY <1>1, <2>1 DEF Counter!vars
<1>3. CASE e = f
  <2> DEFINE s == seen[e]
             p == position[e]
             n == y[e]
             target == Target(Pins(s), Pins(p))
  <2>1. /\ s \in Int /\ p \in Int /\ n \in Counts /\ n \in Int
        /\ y'[e] = Counted(target, n) /\ seen'[e] = p
        /\ missed'[e] = (missed[e] \/ p - s \notin -1 .. 1)
    BY <1>3, WordType, SMT DEF Inv, Typed, Sample, Counts
  <2>2. y'[e] \in Counts
    BY <1>3, SampleInv DEF Inv, Typed
  <2>3. (y'[e] - y[e] - (seen'[e] - seen[e])) % 2 = 0
    BY <2>1, CountedParity
  <2>4. ~missed'[e] => y'[e] = (y[e] + seen'[e] - seen[e]) % Word
    <3> SUFFICES ASSUME ~missed'[e] PROVE y'[e] = (y[e] + seen'[e] - seen[e]) % Word
      OBVIOUS
    <3>1. ~missed[e]
      BY <2>1
    <3>2. Follows(e, n, s)
      BY <3>1 DEF Exact
    <3>3. Follows(e, y'[e], p)
      <4>1. Follows(e, y[e], seen[e])'
        BY <1>3, <3>1, SampleFollows DEF Exact
      <4>2. QED
        BY <1>1, <2>1, <4>1 DEF Follows
    <3>4. first[e] \in Int
      BY WordType, SMT DEF Inv, Typed, Counts
    <3> HIDE DEF s, p, n, target
    <3>5. (n + p - s) % Word = y'[e]
      BY <2>1, <2>2, <3>2, <3>3, <3>4, FollowsStep
    <3>6. QED
      BY <2>1, <3>5 DEF n, s
  <2>5. QED
    BY <1>1, <2>1, <2>2, <2>3, <2>4 DEF Counter!Step, Counter!Counts, Counter!Even, Counts
<1>4. QED
  BY <1>2, <1>3

LEMMA PushImplements ==
    ASSUME Inv, NEW f \in Encoders, Push(f), NEW e \in Encoders
    PROVE  [Counter(e)!Take]_(Counter(e)!vars)
<1>1. /\ y' = y /\ seen' = seen /\ missed' = missed /\ count' = count
      /\ Asked(e)' = Asked(e)
  BY DEF Push, wheels, core, history, Asked
<1>2. CASE e # f
  <2>1. rx'[e] = rx[e]
    BY <1>2, PushAnswers DEF Inv, Typed
  <2>2. QED
    BY <1>1, <2>1 DEF Counter!vars
<1>3. CASE e = f
  <2> DEFINE a == [count |-> y[e], of |-> seen[e]]
  <2>1. Asked(e) /\ rx[e] = <<>> /\ a \in Answers /\ rx'[e] = <<a>>
    BY <1>3, PushAnswers DEF Inv, Typed
  <2>2. rx'[e] # <<>> /\ Head(rx'[e]).count = y[e]
    BY <2>1, OneAnswer
  <2>3. QED
    BY <1>1, <2>1, <2>2 DEF Counter!Take
<1>4. QED
  BY <1>2, <1>3

LEMMA RequestImplements ==
    ASSUME Inv, RequestCount, NEW e \in Encoders
    PROVE  [Counter(e)!Ask]_(Counter(e)!vars)
<1>1. /\ y' = y /\ seen' = seen /\ missed' = missed /\ count' = count /\ rx' = rx
      /\ reading' = reading
  BY DEF RequestCount, wheels, history
<1>2. pc \notin Fetching /\ pc' \in Fetching
  BY SMT DEF RequestCount, Fetching
<1>3. rx[e] = <<>>
  BY <1>2 DEF Inv, Handshake, Asked
<1>4. CASE e = reading
  BY <1>1, <1>2, <1>3, <1>4 DEF Counter!Ask, Asked
<1>5. CASE e # reading
  BY <1>1, <1>5 DEF Counter!vars, Asked
<1>6. QED
  BY <1>4, <1>5

LEMMA FetchImplements ==
    ASSUME Inv, NEW end \in Fetching, NEW request \in Requesting, NEW next \in Between,
           Fetch(end, request, next), NEW e \in Encoders
    PROVE  [Counter(e)!Give]_(Counter(e)!vars)
<1>1. y' = y /\ seen' = seen /\ missed' = missed
  BY DEF Fetch, wheels
<1>2. ~Asked(e)'
  BY FetchGets, SMT DEF Asked, Requesting, Between, Fetching
<1>3. CASE e = reading
  <2>1. PICK a \in Answers : rx[e] = <<a>> /\ a = Head(rx[e])
    BY <1>3, FetchGets
  <2>2. rx[e] # <<>> /\ Head(rx[e]).count # NoAnswer
    BY <2>1, OneAnswer, AnswerNotNone
  <2>3. Asked(e) /\ rx'[e] = <<>> /\ count'[e] = Head(rx[e]).count
    BY <1>3, FetchGets DEF Inv, Typed, Fetch
  <2>4. QED
    BY <1>1, <1>2, <2>2, <2>3 DEF Counter!Give
<1>4. CASE e # reading
  <2>1. count'[e] = count[e] /\ rx'[e] = rx[e]
    BY <1>4, FetchGets DEF Inv, Typed, Fetch
  <2>2. ~Asked(e)
    BY <1>4 DEF Asked
  <2>3. Asked(e)' = Asked(e)
    BY <1>2, <2>2 DEF Asked
  <2>4. QED
    BY <1>1, <2>1, <2>3 DEF Counter!vars
<1>5. QED
  BY <1>3, <1>4

LEMMA NextImplements ==
    ASSUME Inv, Exact, [Next]_vars, NEW e \in Encoders
    PROVE  [Counter(e)!Next]_(Counter(e)!vars)
<1>1. CASE \E f \in Encoders : Turn(f)
  BY <1>1, CounterStutters DEF Turn, machines, core, history, Asked
<1>2. CASE \E f \in Encoders : Poll(f)
  BY <1>2, CounterStutters DEF Poll, wheels, core, history, Asked
<1>3. CASE \E f \in Encoders : Push(f)
  BY <1>3, PushImplements DEF Counter!Next
<1>4. CASE \E f \in Encoders : Sample(f)
  BY <1>4, SampleImplements DEF Counter!Next
<1>5. CASE Call \/ Serve
  <2>1. Asked(e)' = Asked(e)
    BY <1>5, SMT DEF Call, Serve, Asked, Fetching
  <2>2. QED
    BY <1>5, <2>1, CounterStutters DEF Call, Serve, wheels, machines, history
<1>6. CASE RequestCount
  BY <1>6, RequestImplements DEF Counter!Next
<1>7. CASE FetchForUpdate \/ FetchForState
  BY <1>7, FetchImplements, StartFetch DEF FetchForUpdate, FetchForState, Counter!Next
<1>8. CASE UNCHANGED vars
  BY <1>8, CounterStutters DEF vars, wheels, machines, core, history, Asked
<1>9. QED
  BY <1>1, <1>2, <1>3, <1>4, <1>5, <1>6, <1>7, <1>8 DEF Next, Core0, Machine

(* Every encoder answers each question once, with its count at a moment    *)
(* between question and answer, and counts as StepCounter does.            *)
THEOREM StepCounterImplemented == Spec => ImplementsStepCounter
<1>1. Init => Inv /\ Exact
  BY InitInv, InitExact
<1>2. Inv /\ Exact /\ [Next]_vars => Inv' /\ Exact'
  BY NextInv, NextExact
<1>3. Init => \A e \in Encoders : Counter(e)!Init
  BY CounterInit
<1>4. Inv /\ Exact /\ [Next]_vars =>
        [ \A e \in Encoders : [Counter(e)!Next]_(Counter(e)!vars) ]_vars
  BY NextImplements
<1>5. QED
  BY <1>1, <1>2, <1>3, <1>4, PTL DEF Spec, ImplementsStepCounter
=============================================================================
