------------------------------ MODULE Encoder ------------------------------
(***************************************************************************)
(* The wheel encoders: the program of quadrature_encoder.pio, run by one   *)
(* PIO state machine per encoder, and core 0, which asks for the counts    *)
(* through the FIFOs of the state machines: in on_start to log how far the *)
(* wheels turn, later to answer GET_STATE.                                 *)
(* A step of a state machine is one of the three parts of its loop: the    *)
(* look into the TX FIFO, the PUSH, which waits while the RX FIFO is full, *)
(* and the sampling of the pins with the jump it leads to.                 *)
(***************************************************************************)
EXTENDS Integers, Sequences

CONSTANTS
    EncoderCount,   \* 2, MOTOR_LEFT and MOTOR_RIGHT
    Word,           \* 2^32
    FifoDepth,      \* entries of each FIFO, 4
    FirstCounts,    \* what Y may hold when the program starts, which does not set it
    Speed,          \* how far a wheel may turn between two samples
    Reach           \* how far each wheel turns from where it is at first, a bound for TLC

Encoders == 0 .. EncoderCount - 1

ASSUME EncoderAssumption ==
    /\ EncoderCount \in Nat \ {0}
    /\ Word \in Nat \ {0} /\ Word % 4 = 0
    /\ FifoDepth \in Nat \ {0}
    /\ FirstCounts \subseteq 0 .. Word - 1
    /\ Speed \in Nat
    /\ Reach \in [Encoders -> Nat]

VARIABLES
    position,       \* of each wheel, in steps
    seen,           \* its position when last sampled: ISR holds the pins of it
    y,              \* register Y, the count
    sm,             \* where each state machine is
    tx, rx,         \* requests in the TX FIFO, counts in the RX FIFO
    pc, reading,    \* where core 0 is, and the encoder it reads
    count,          \* count_previous, or EncoderCounts when core 0 serves
    \* history
    first,          \* what Y held at the start
    missed,         \* two or more steps came between two samples
    behind          \* the wheel's position when count was taken

wheels == <<position, seen>>
machines == <<y, sm, tx, rx>>
core == <<pc, reading, count>>
history == <<first, missed, behind>>
vars == <<wheels, machines, core, history>>

Counts == 0 .. Word - 1

(* Both pins of an encoder, channel A in bit 0, as the wheel turns. *)
Phases == <<0, 2, 3, 1>>
Pins(p) == Phases[(p % 4) + 1]

(* Mutant: two rows of the jump table are swapped. *)
JumpTableSwapped ==
    << <<"update", "decrement", "increment", "update">>,
       <<"decrement", "update", "update", "increment">>,
       <<"increment", "update", "update", "decrement">>,
       <<"update", "increment", "decrement", "update">> >>

(* The targets of the computed jump, by the last pins and the new ones. *)
JumpTable ==
    << <<"update", "decrement", "increment", "update">>,
       <<"increment", "update", "update", "decrement">>,
       <<"decrement", "update", "update", "increment">>,
       <<"update", "increment", "decrement", "update">> >>

Target(old, new) == JumpTable[old + 1][new + 1]

(* Y counts down by JMP Y--, up by negating it before and after. *)
Negated(n) == Word - 1 - n
Decremented(n) == IF n = 0 THEN Word - 1 ELSE n - 1
Incremented(n) == Negated(Decremented(Negated(n)))

Counted(target, n) ==
    CASE target = "increment" -> Incremented(n)
      [] target = "decrement" -> Decremented(n)
      [] target = "update" -> n

(* The pins are at rest in any phase; ISR is cleared, which is phase 0. *)
Init ==
    /\ position \in [Encoders -> -1 .. 2]
    /\ \A e \in Encoders : position[e] <= Reach[e]
    /\ seen = [e \in Encoders |-> 0]
    /\ first \in [Encoders -> FirstCounts]
    /\ y = first
    /\ sm = [e \in Encoders |-> "update"]
    /\ tx = [e \in Encoders |-> 0]
    /\ rx = [e \in Encoders |-> <<>>]
    /\ pc = "start" /\ reading = 0
    /\ count = [e \in Encoders |-> 0]
    /\ missed = [e \in Encoders |-> FALSE]
    /\ behind = [e \in Encoders |-> -first[e]]

-----------------------------------------------------------------------------
(* A wheel turns by a step, either way. *)

Turn(e) ==
    \E p \in {position[e] - 1, position[e] + 1} :
        /\ p - seen[e] \in -Speed .. Speed
        /\ p \in -Reach[e] .. Reach[e]
        /\ position' = [position EXCEPT ![e] = p]
        /\ UNCHANGED <<seen, machines, core, history>>

-----------------------------------------------------------------------------
(* The state machine of encoder e *)

SmGoto(e, from, to) ==
    /\ sm[e] = from
    /\ sm' = [sm EXCEPT ![e] = to]

(* Mutant: the jump on what was pulled is the wrong way round. *)
PollJumpNotZero(e) ==
    /\ tx' = [tx EXCEPT ![e] = IF @ > 0 THEN @ - 1 ELSE 0]
    /\ SmGoto(e, "update", "sample_pins")
    /\ UNCHANGED <<wheels, y, rx, core, history>>

(* PULL noblock, and the jump past PUSH when nothing was asked *)
Poll(e) ==
    /\ \/ /\ tx[e] > 0
          /\ tx' = [tx EXCEPT ![e] = @ - 1]
          /\ SmGoto(e, "update", "push")
       \/ /\ tx[e] = 0
          /\ SmGoto(e, "update", "sample_pins")
          /\ UNCHANGED tx
    /\ UNCHANGED <<wheels, y, rx, core, history>>

(* Mutant: the request stays in the FIFO. *)
PushAgain(e) ==
    /\ SmGoto(e, "push", "update")
    /\ Len(rx[e]) < FifoDepth
    /\ rx' = [rx EXCEPT ![e] = Append(@, [count |-> y[e], of |-> seen[e]])]
    /\ tx' = [tx EXCEPT ![e] = 1]
    /\ UNCHANGED <<wheels, y, core, history>>

(* In the model an entry of the RX FIFO keeps the position it is of. *)
Push(e) ==
    /\ SmGoto(e, "push", "sample_pins")
    /\ Len(rx[e]) < FifoDepth
    /\ rx' = [rx EXCEPT ![e] = Append(@, [count |-> y[e], of |-> seen[e]])]
    /\ UNCHANGED <<wheels, y, tx, core, history>>

Sample(e) ==
    /\ SmGoto(e, "sample_pins", "update")
    /\ y' = [y EXCEPT ![e] = Counted(Target(Pins(seen[e]), Pins(position[e])), @)]
    /\ seen' = [seen EXCEPT ![e] = position[e]]
    /\ missed' = [missed EXCEPT ![e] = @ \/ position[e] - seen[e] \notin -1 .. 1]
    /\ UNCHANGED <<position, tx, rx, core, first, behind>>

-----------------------------------------------------------------------------
(* Core 0.  It is in one of quad_encoder_update ("start") and              *)
(* get_encoder_counts ("serve"), or between calls of them.                 *)

Between == {"start", "serve"}
Requesting == {"start_request", "serve_request"}
Fetching == {"start_fetch", "serve_fetch"}

(* The loops of quad_encoder_update and get_encoder_counts begin. *)
Call ==
    /\ \/ pc = "start" /\ pc' = "start_request"
       \/ pc = "serve" /\ pc' = "serve_request"
    /\ reading' = 0
    /\ UNCHANGED <<wheels, machines, count, history>>

(* on_start is done counting. *)
Serve ==
    /\ pc = "start" /\ pc' = "serve"
    /\ UNCHANGED <<wheels, machines, reading, count, history>>

(* Mutant: all encoders are asked at once, for each. *)
RequestAll ==
    /\ \/ pc = "start_request" /\ pc' = "start_fetch"
       \/ pc = "serve_request" /\ pc' = "serve_fetch"
    /\ tx' = [e \in Encoders |-> IF tx[e] < FifoDepth THEN tx[e] + 1 ELSE tx[e]]
    /\ UNCHANGED <<wheels, y, sm, rx, reading, count, history>>

(* A write to a full FIFO is lost. *)
RequestCount ==
    /\ \/ pc = "start_request" /\ pc' = "start_fetch"
       \/ pc = "serve_request" /\ pc' = "serve_fetch"
    /\ tx' = [tx EXCEPT ![reading] = IF @ < FifoDepth THEN @ + 1 ELSE @]
    /\ UNCHANGED <<wheels, y, sm, rx, reading, count, history>>

(* The next encoder, or the end of the loop *)
GotoNext(request, end) ==
    IF reading + 1 \in Encoders
    THEN pc' = request /\ reading' = reading + 1
    ELSE pc' = end /\ UNCHANGED reading

(* Mutant: the difference is not taken in the word. *)
DeltaWide(new, old) == new - old

(* count_current - count_previous, as an int32_t *)
Signed(n) == IF n < Word \div 2 THEN n ELSE n - Word
Delta(new, old) == Signed((new - old) % Word)

Fetch(end, request, next) ==
    /\ pc = end
    /\ rx[reading] # <<>>
    /\ rx' = [rx EXCEPT ![reading] = Tail(@)]
    /\ count' = [count EXCEPT ![reading] = Head(rx[reading]).count]
    /\ behind' = [behind EXCEPT ![reading] = Head(rx[reading]).of]
    /\ GotoNext(request, next)
    /\ UNCHANGED <<wheels, y, sm, tx, first, missed>>

(* quad_encoder_update: count_delta is only logged, see DeltaExact. *)
FetchForUpdate == Fetch("start_fetch", "start_request", "start")

FetchForState == Fetch("serve_fetch", "serve_request", "serve")

-----------------------------------------------------------------------------
Machine(e) == Poll(e) \/ Push(e) \/ Sample(e)
Core0 == Call \/ Serve \/ RequestCount \/ FetchForUpdate \/ FetchForState
Reads == RequestCount \/ FetchForUpdate \/ FetchForState

Next == Core0 \/ \E e \in Encoders : Turn(e) \/ Machine(e)

Spec == Init /\ [][Next]_vars

(* The state machines run for ever and core 0 finishes a reading begun;    *)
(* nothing makes it begin one, and nothing makes a wheel turn.             *)
FairSpec == Spec /\ WF_vars(Reads) /\ \A e \in Encoders : WF_vars(Machine(e))

-----------------------------------------------------------------------------
Asked(e) == pc \in Fetching /\ reading = e

(* Y and the FIFOs keep to their sizes: no count is left over from an      *)
(* earlier question, and none is asked for twice.                          *)
TypeOK ==
    /\ position \in [Encoders -> Int]
    /\ seen \in [Encoders -> Int]
    /\ y \in [Encoders -> Counts]
    /\ sm \in [Encoders -> {"update", "push", "sample_pins"}]
    /\ tx \in [Encoders -> 0 .. 1]
    /\ \A e \in Encoders :
          \/ rx[e] = <<>>
          \/ \E n \in Counts, p \in {seen[e], rx[e][1].of} : rx[e] = <<[count |-> n, of |-> p]>>
    /\ pc \in Between \cup Requesting \cup Fetching
    /\ reading \in Encoders
    /\ count \in [Encoders -> Counts]
    /\ first \in [Encoders -> Counts]
    /\ missed \in [Encoders -> BOOLEAN]
    /\ behind \in [Encoders -> Int]

(* As long as a wheel has not turned by two steps between two samples, its *)
(* count is where it was last sampled, modulo the word: through every      *)
(* change of direction and every wrap.                                     *)
CountExact ==
    \A e \in Encoders : ~missed[e] => y[e] = (first[e] + seen[e]) % Word

(* The delta that quad_encoder_update logs is how far the wheel turned     *)
(* between the two counts, if it is less than half a word, though either   *)
(* count may have wrapped.                                                 *)
DeltaExact ==
    [][ FetchForUpdate =>
          \A e \in Encoders :
            LET distance == behind'[e] - behind[e]
            IN  ~missed[e] /\ distance \in -(Word \div 2) .. Word \div 2 - 1
                    => Delta(count'[e], count[e]) = distance ]_vars

(* quadrature_encoder_fetch_count waits without a limit; each wait ends.   *)
EveryCountComes ==
    \A e \in Encoders : Asked(e) ~> ~Asked(e)

(* Each encoder is a step counter that answers each question once, with    *)
(* its count at a moment between question and answer, never with what is   *)
(* left of an earlier one.                                                 *)
NoAnswer == -1

Counter(e) == INSTANCE StepCounter WITH
    steps <- seen[e],
    lost <- missed[e],
    count <- y[e],
    asked <- Asked(e),
    answer <- IF rx[e] = <<>> THEN NoAnswer ELSE Head(rx[e]).count,
    value <- count[e]

ImplementsStepCounter ==
    /\ \A e \in Encoders : Counter(e)!Init
    /\ [][ \A e \in Encoders : [Counter(e)!Next]_(Counter(e)!vars) ]_vars
=============================================================================
