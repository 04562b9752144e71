--------------------------- MODULE GaugeInterrupt ---------------------------
(***************************************************************************)
(* The battery gauge's interrupt in bq27742_g1.c.  RC2 is low for as long  *)
(* as the gauge has something to say.  Core 0 listens for its falling      *)
(* edge, then stops listening, queues a reading of the flags for core 1,   *)
(* and listens for the rising edge, which arms the falling one again.      *)
(* Core 1 arms it too when it finds the pin high, but on core 1: the GPIO  *)
(* block has one set of enables per core, and one set of latched edges for *)
(* both, which gpio_set_irq_enabled forgets.                               *)
(***************************************************************************)
EXTENDS Naturals, Sequences

CONSTANTS
    QueueSize,      \* entries call_queue holds, 256
    Others,         \* when other interrupts queue entries: "boot", "run" or both
    Glitches        \* edges that come while core 0 has yet to deal with the last

ASSUME GaugeAssumption ==
    /\ QueueSize \in Nat \ {0}
    /\ Others \subseteq {"boot", "run"}
    /\ Glitches \in Nat

VARIABLES
    level,          \* the pin
    glitches,       \* ill-timed edges so far
    latched,        \* INTR, the edges latched
    enabled,        \* PROC0_INTE, the edges that interrupt core 0
    bq27742_g1_interrupt_pending,
    call_queue,
    pc,             \* where main, core 0's interrupt handler and core 1 are
    mask            \* event_mask of the handler

gpio == <<level, glitches, latched, enabled>>
vars == <<gpio, bq27742_g1_interrupt_pending, call_queue, pc, mask>>

Edges == {"fall", "rise"}
Contexts == {"main", "handler", "core1"}

Init ==
    /\ level \in {"low", "high"}
    /\ glitches = 0 /\ latched = {} /\ enabled = {}
    /\ bq27742_g1_interrupt_pending = FALSE
    /\ call_queue = <<>>
    /\ pc = [c \in Contexts |-> IF c = "main" THEN "init" ELSE "idle"]
    /\ mask = {}

(* The handler preempts main: they share core 0. *)
At(c, point) ==
    /\ pc[c] = point
    /\ c = "main" => pc["handler"] = "idle" /\ latched \cap enabled = {}
Goto(c, point) == pc' = [pc EXCEPT ![c] = point]

-----------------------------------------------------------------------------
(* The pin *)

(* Core 0 has nothing to do with the gauge. *)
Steady == pc["main"] = "idle" /\ pc["handler"] = "idle" /\ latched \cap enabled = {}

Edge(edge, from, to) ==
    /\ level = from
    /\ level' = to
    /\ latched' = latched \cup {edge}
    /\ IF Steady THEN UNCHANGED glitches
       ELSE glitches < Glitches /\ glitches' = glitches + 1
    /\ UNCHANGED <<enabled, bq27742_g1_interrupt_pending, call_queue, pc, mask>>

Assert == Edge("fall", "high", "low")
Deassert == Edge("rise", "low", "high")

(* gpio_set_irq_enabled by context c: stale events are acknowledged for    *)
(* both cores, the enable is the calling core's.                           *)
SetIrqEnabled(c, edge, on) ==
    /\ latched' = latched \ {edge}
    /\ enabled' = IF c = "core1" THEN enabled
                  ELSE IF on THEN enabled \cup {edge} ELSE enabled \ {edge}
    /\ UNCHANGED <<level, glitches>>

-----------------------------------------------------------------------------
(* bq27742_g1_queue_parse_interrupt, by main or the handler; the handler   *)
(* goes on with a rising edge if it has one.                               *)

Done(c) == Goto(c, IF c = "handler" /\ "rise" \in mask THEN "rise" ELSE "idle")

Test(c) ==
    /\ At(c, "test")
    /\ IF bq27742_g1_interrupt_pending THEN Done(c) ELSE Goto(c, "pend")
    /\ UNCHANGED <<gpio, bq27742_g1_interrupt_pending, call_queue, mask>>

Pend(c) ==
    /\ At(c, "pend")
    /\ bq27742_g1_interrupt_pending' = TRUE
    /\ Goto(c, "disarm")
    /\ UNCHANGED <<gpio, call_queue, mask>>

Disarm(c) ==
    /\ At(c, "disarm")
    /\ SetIrqEnabled(c, "fall", FALSE)
    /\ Goto(c, "await_rise")
    /\ UNCHANGED <<bq27742_g1_interrupt_pending, call_queue, mask>>

AwaitRise(c) ==
    /\ At(c, "await_rise")
    /\ SetIrqEnabled(c, "rise", TRUE)
    /\ Goto(c, "add")
    /\ UNCHANGED <<bq27742_g1_interrupt_pending, call_queue, mask>>

(* Mutant: a full queue is not noticed. *)
AddAnyway(c) ==
    /\ At(c, "add")
    /\ call_queue' = Append(call_queue, "gauge")
    /\ Done(c)
    /\ UNCHANGED <<gpio, bq27742_g1_interrupt_pending, mask>>

(* call_queue_try_add_nonblocking *)
Add(c) ==
    /\ At(c, "add")
    /\ IF Len(call_queue) < QueueSize
       THEN call_queue' = Append(call_queue, "gauge") /\ Done(c)
       ELSE Goto(c, "look") /\ UNCHANGED call_queue
    /\ UNCHANGED <<gpio, bq27742_g1_interrupt_pending, mask>>

(* gpio_get, and bq27742_g1_rearm_assert_irq if the pin is high. *)
Look(c) ==
    /\ At(c, "look")
    /\ IF level = "high" THEN Goto(c, "unpend") ELSE Done(c)
    /\ UNCHANGED <<gpio, bq27742_g1_interrupt_pending, call_queue, mask>>

QueueParseInterrupt(c) ==
    Test(c) \/ Pend(c) \/ Disarm(c) \/ AwaitRise(c) \/ Add(c) \/ Look(c)

-----------------------------------------------------------------------------
(* bq27742_g1_rearm_assert_irq *)

(* Mutant: the flag is left as it is. *)
UnpendForgotten(c) ==
    /\ At(c, "unpend")
    /\ Goto(c, "disarm_rise")
    /\ UNCHANGED <<gpio, bq27742_g1_interrupt_pending, call_queue, mask>>

Unpend(c) ==
    /\ At(c, "unpend")
    /\ bq27742_g1_interrupt_pending' = FALSE
    /\ Goto(c, "disarm_rise")
    /\ UNCHANGED <<gpio, call_queue, mask>>

DisarmRise(c) ==
    /\ At(c, "disarm_rise")
    /\ SetIrqEnabled(c, "rise", FALSE)
    /\ Goto(c, "rearm")
    /\ UNCHANGED <<bq27742_g1_interrupt_pending, call_queue, mask>>

Rearm(c) ==
    /\ At(c, "rearm")
    /\ SetIrqEnabled(c, "fall", TRUE)
    /\ pc' = [pc EXCEPT ![c] = "idle"]
    /\ UNCHANGED <<bq27742_g1_interrupt_pending, call_queue, mask>>

RearmAssertIrq(c) == Unpend(c) \/ DisarmRise(c) \/ Rearm(c)

-----------------------------------------------------------------------------
(* main in bq27742_g1_init *)

InitArm ==
    /\ At("main", "init")
    /\ SetIrqEnabled("main", "fall", TRUE)
    /\ Goto("main", "asserted")
    /\ UNCHANGED <<bq27742_g1_interrupt_pending, call_queue, mask>>

InitLook ==
    /\ At("main", "asserted")
    /\ Goto("main", IF level = "low" THEN "test" ELSE "idle")
    /\ UNCHANGED <<gpio, bq27742_g1_interrupt_pending, call_queue, mask>>

(* bq27742_g1_on_interrupt: the SDK has acknowledged what is in mask. *)
OnInterrupt ==
    /\ pc["handler"] = "idle"
    /\ latched \cap enabled # {}
    /\ mask' = latched \cap enabled
    /\ latched' = latched \ enabled
    /\ Goto("handler", IF "fall" \in mask' THEN "test" ELSE "rise")
    /\ UNCHANGED <<level, glitches, enabled, bq27742_g1_interrupt_pending, call_queue>>

(* Mutant: only a pending interrupt is armed again. *)
OnDeassertIfPending ==
    /\ At("handler", "rise")
    /\ latched' = latched \ {"rise"}
    /\ Goto("handler", IF level = "high" /\ bq27742_g1_interrupt_pending THEN "unpend" ELSE "idle")
    /\ UNCHANGED <<level, glitches, enabled, bq27742_g1_interrupt_pending, call_queue, mask>>

OnDeassert ==
    /\ At("handler", "rise")
    /\ latched' = latched \ {"rise"}
    /\ Goto("handler", IF level = "high" THEN "unpend" ELSE "idle")
    /\ UNCHANGED <<level, glitches, enabled, bq27742_g1_interrupt_pending, call_queue, mask>>

(* Core 1 runs call_queue's entries: bq27742_g1_parse_interrupt_vals reads *)
(* the flags and then looks at the pin.                                    *)
Core1 ==
    \/ /\ At("core1", "idle")
       /\ call_queue # <<>>
       /\ call_queue' = Tail(call_queue)
       /\ Goto("core1", IF Head(call_queue) = "gauge" THEN "flags" ELSE "idle")
       /\ UNCHANGED <<gpio, bq27742_g1_interrupt_pending, mask>>
    \/ /\ At("core1", "flags")
       /\ Goto("core1", "look")
       /\ UNCHANGED <<gpio, bq27742_g1_interrupt_pending, call_queue, mask>>
    \/ Look("core1")
    \/ RearmAssertIrq("core1")

(* The other interrupts' call_queue_try_add stops core 0 on a full queue.  *)
OtherInterrupt ==
    /\ (IF pc["main"] = "idle" THEN "run" ELSE "boot") \in Others
    /\ pc["handler"] = "idle"
    /\ Len(call_queue) < QueueSize
    /\ call_queue' = Append(call_queue, "other")
    /\ UNCHANGED <<gpio, bq27742_g1_interrupt_pending, pc, mask>>

Core0 ==
    \/ InitArm \/ InitLook
    \/ OnInterrupt \/ OnDeassert
    \/ \E c \in {"main", "handler"} : QueueParseInterrupt(c) \/ RearmAssertIrq(c)

Next == Core0 \/ Core1 \/ Assert \/ Deassert \/ OtherInterrupt

Spec == Init /\ [][Next]_vars

(* Both cores keep running; nothing makes the gauge change its pin. *)
FairSpec == Spec /\ WF_vars(Core0) /\ WF_vars(Core1)

-----------------------------------------------------------------------------
Points ==
    {"init", "asserted", "idle", "test", "pend", "disarm", "await_rise", "add", "look",
     "unpend", "disarm_rise", "rearm", "flags", "rise"}

TypeOK ==
    /\ level \in {"low", "high"}
    /\ glitches \in 0 .. Glitches
    /\ latched \subseteq Edges /\ enabled \subseteq Edges /\ mask \subseteq Edges
    /\ bq27742_g1_interrupt_pending \in BOOLEAN
    /\ call_queue \in Seq({"gauge", "other"}) /\ Len(call_queue) <= QueueSize
    /\ pc \in [Contexts -> Points]

(* Whatever core 1 and the pin do meanwhile, and wherever in its start-up  *)
(* main was interrupted, core 0 is left listening for an edge that helps:  *)
(* the rising one, or the falling one with a handler that will not turn    *)
(* away because of the pending flag.                                       *)
NeverDeaf ==
    pc["main"] = "idle" /\ pc["handler"] = "idle" =>
        \/ "rise" \in enabled
        \/ "fall" \in enabled /\ ~bq27742_g1_interrupt_pending

(* A gauge that goes on asserting and releasing its pin is read again and  *)
(* again, whatever the timing of a finite number of its edges and however  *)
(* full call_queue has been; unless it keeps being full.                   *)
ComesBack ==
    []<>(level = "low") /\ []<>(level = "high") =>
        []<>(pc["core1"] = "flags") \/ []<>(Len(call_queue) = QueueSize)
=============================================================================
