---------------------------- MODULE AbstractLog ----------------------------
(***************************************************************************)
(* What the firmware log promises its users: a bounded sequence of lines,  *)
(* written by the cores, where an old line disappears for two reasons      *)
(* only: a line being written does not fit (the oldest goes first), or a   *)
(* GET_LOG reply carries all of them to the host at once.                  *)
(***************************************************************************)
EXTENDS Naturals, Sequences

CONSTANTS
    Cores,      \* the writers
    Entries,    \* what a line can hold: pairs <<message, characters kept>>
    NoEntry,    \* no line is being written
    LineCap,    \* most lines kept
    CharCap     \* most characters kept over all lines

VARIABLES
    lines,      \* the lines kept, oldest first
    pending,    \* the line each core is writing
    reply       \* the lines of the reply just handed to the host

vars == <<lines, pending, reply>>

(* The characters of a sequence of entries. *)
Chars(seq) ==
    LET upto[i \in 0 .. Len(seq)] == IF i = 0 THEN 0 ELSE upto[i - 1] + seq[i][2]
    IN  upto[Len(seq)]

Fits(entry) ==
    /\ Len(lines) < LineCap
    /\ Chars(lines) + entry[2] <= CharCap

Init ==
    /\ lines = <<>>
    /\ pending = [c \in Cores |-> NoEntry]
    /\ reply = <<>>

Submit(c, entry) ==
    /\ pending[c] = NoEntry
    /\ pending' = [pending EXCEPT ![c] = entry]
    /\ UNCHANGED <<lines, reply>>

Evict(c) ==
    /\ pending[c] # NoEntry
    /\ ~Fits(pending[c])
    /\ lines # <<>>
    /\ lines' = Tail(lines)
    /\ UNCHANGED <<pending, reply>>

Store(c) ==
    /\ pending[c] # NoEntry
    /\ Fits(pending[c])
    /\ lines' = Append(lines, pending[c])
    /\ pending' = [pending EXCEPT ![c] = NoEntry]
    /\ UNCHANGED reply

Deliver ==
    /\ reply = <<>>
    /\ reply' = lines
    /\ lines' = <<>>
    /\ UNCHANGED pending

Finish ==
    /\ reply' = <<>>
    /\ UNCHANGED <<lines, pending>>

Next ==
    \/ \E c \in Cores : (\E e \in Entries : Submit(c, e)) \/ Evict(c) \/ Store(c)
    \/ Deliver
    \/ Finish

Spec == Init /\ [][Next]_vars
=============================================================================
