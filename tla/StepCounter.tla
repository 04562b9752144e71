---------------------------- MODULE StepCounter ----------------------------
(***************************************************************************)
(* What an encoder promises the rest of the firmware: a counter of signed  *)
(* steps in a word that wraps, which can be asked for its count and        *)
(* answers once, with the count of some moment between the question and    *)
(* the answer.  When the wheel turns faster than it is sampled the counter *)
(* is lost: all it keeps then is whether the steps are odd or even.        *)
(***************************************************************************)
EXTENDS Integers

CONSTANTS
    Word,           \* values of the counter
    NoAnswer

VARIABLES
    steps,          \* steps sampled, as a whole number
    lost,           \* steps were missed
    count,          \* the counter
    asked,          \* a question is open
    answer,         \* its answer, once there is one
    value           \* the last answer given

vars == <<steps, lost, count, asked, answer, value>>

Counts == 0 .. Word - 1
Even(n) == n % 2 = 0

Init ==
    /\ steps = 0 /\ lost = FALSE
    /\ count \in Counts
    /\ asked = FALSE /\ answer = NoAnswer
    /\ value = 0

(* The wheel is sampled. *)
Step ==
    /\ count' \in Counts
    /\ Even(count' - count - (steps' - steps))
    /\ lost' = (lost \/ steps' - steps \notin -1 .. 1)
    /\ ~lost' => count' = (count + steps' - steps) % Word
    /\ UNCHANGED <<asked, answer, value>>

Ask ==
    /\ ~asked
    /\ answer = NoAnswer
    /\ asked' = TRUE
    /\ UNCHANGED <<steps, lost, count, answer, value>>

Take ==
    /\ asked
    /\ answer = NoAnswer
    /\ answer' = count
    /\ UNCHANGED <<steps, lost, count, asked, value>>

Give ==
    /\ asked
    /\ answer # NoAnswer
    /\ value' = answer
    /\ asked' = FALSE
    /\ answer' = NoAnswer
    /\ UNCHANGED <<steps, lost, count>>

Next == Step \/ Ask \/ Take \/ Give

Spec == Init /\ [][Next]_vars
=============================================================================
