----------------------- MODULE GaugeInterrupt_proofs -----------------------
(***************************************************************************)
(* That core 0 never stops listening to the gauge, whatever the size of    *)
(* call_queue and the number and timing of edges.  Two contexts on core 0  *)
(* set enables, pending flag and queue up in several steps each, one may   *)
(* interrupt the other anywhere, and core 1 clears the flag beside them.   *)
(***************************************************************************)
EXTENDS GaugeInterrupt, TLAPS

USE GaugeAssumption

Queue == Seq({"gauge", "other"})

LEMMA QueueAppend ==
    ASSUME NEW entry \in {"gauge", "other"}, call_queue \in Queue
    PROVE  /\ Append(call_queue, entry) \in Queue
           /\ Len(Append(call_queue, entry)) = Len(call_queue) + 1
BY DEF Queue

LEMMA QueueTail ==
    ASSUME call_queue \in Queue, call_queue # <<>>
    PROVE  /\ Tail(call_queue) \in Queue
           /\ Len(Tail(call_queue)) = Len(call_queue) - 1
           /\ Len(call_queue) \in Nat
BY DEF Queue

(* What the types say without the queue, for steps that leave it alone.    *)
Quiet == UNCHANGED call_queue

LEMMA GotoKeepsType ==
    ASSUME TypeOK, NEW c \in Contexts, NEW point \in Points, Goto(c, point)
    PROVE  pc' \in [Contexts -> Points]
BY DEF TypeOK, Goto

LEMMA SetIrqKeepsType ==
    ASSUME TypeOK, NEW c, NEW edge \in Edges, NEW on \in BOOLEAN, SetIrqEnabled(c, edge, on)
    PROVE  /\ latched' \subseteq Edges /\ enabled' \subseteq Edges
           /\ level' \in {"low", "high"} /\ glitches' \in 0 .. Glitches
BY DEF TypeOK, SetIrqEnabled

LEMMA ContextsArePoints ==
    /\ {"main", "handler", "core1"} = Contexts
    /\ {"fall", "rise"} = Edges
BY DEF Contexts, Edges

-----------------------------------------------------------------------------
(* Types *)

LEMMA TypeInit == Init => TypeOK
<1>1. SUFFICES ASSUME Init PROVE TypeOK
  OBVIOUS
<1>2. pc \in [Contexts -> Points]
  BY <1>1 DEF Init, Points
<1>3. call_queue \in Seq({"gauge", "other"}) /\ Len(call_queue) <= QueueSize
  BY <1>1 DEF Init
<1>4. latched = {} /\ enabled = {} /\ mask = {} /\ glitches \in 0 .. Glitches
  BY <1>1 DEF Init
<1>5. QED
  BY <1>1, <1>2, <1>3, <1>4 DEF Init, TypeOK

LEMMA TypeParse ==
    ASSUME TypeOK, NEW c \in Contexts, QueueParseInterrupt(c)
    PROVE  TypeOK'
<1>1. CASE Test(c)
  <2>1. pc' \in [Contexts -> Points]
    BY <1>1, GotoKeepsType DEF Test, Done, Points
  <2>2. QED
    BY <1>1, <2>1 DEF Test, TypeOK, gpio
<1>2. CASE Pend(c)
  <2>1. pc' \in [Contexts -> Points]
    BY <1>2, GotoKeepsType DEF Pend, Points
  <2>2. QED
    BY <1>2, <2>1 DEF Pend, TypeOK, gpio
<1>3. CASE Disarm(c)
  <2>1. pc' \in [Contexts -> Points]
    BY <1>3, GotoKeepsType DEF Disarm, Points
  <2>2. QED
    BY <1>3, <2>1, SetIrqKeepsType DEF Disarm, TypeOK, Edges
<1>4. CASE AwaitRise(c)
  <2>1. pc' \in [Contexts -> Points]
    BY <1>4, GotoKeepsType DEF AwaitRise, Points
  <2>2. QED
    BY <1>4, <2>1, SetIrqKeepsType DEF AwaitRise, TypeOK, Edges
<1>5. CASE Add(c)
  <2>1. pc' \in [Contexts -> Points]
    BY <1>5, GotoKeepsType DEF Add, Done, Points
  <2>2. /\ call_queue' \in Queue /\ Len(call_queue') <= QueueSize
    <3>1. CASE Len(call_queue) < QueueSize
      BY <1>5, <3>1, QueueAppend DEF Add, TypeOK, Queue
    <3>2. CASE ~(Len(call_queue) < QueueSize)
      BY <1>5, <3>2 DEF Add, TypeOK, Queue
    <3>3. QED
      BY <3>1, <3>2
  <2>3. QED
    BY <1>5, <2>1, <2>2 DEF Add, TypeOK, gpio, Queue
<1>6. CASE Look(c)
  <2>1. pc' \in [Contexts -> Points]
    BY <1>6, GotoKeepsType DEF Look, Done, Points
  <2>2. QED
    BY <1>6, <2>1 DEF Look, TypeOK, gpio
<1>7. QED
  BY <1>1, <1>2, <1>3, <1>4, <1>5, <1>6 DEF QueueParseInterrupt

LEMMA TypeRearm ==
    ASSUME TypeOK, NEW c \in Contexts, RearmAssertIrq(c)
    PROVE  TypeOK'
<1>1. CASE Unpend(c)
  <2>1. pc' \in [Contexts -> Points]
    BY <1>1, GotoKeepsType DEF Unpend, Points
  <2>2. QED
    BY <1>1, <2>1 DEF Unpend, TypeOK, gpio
<1>2. CASE DisarmRise(c)
  <2>1. pc' \in [Contexts -> Points]
    BY <1>2, GotoKeepsType DEF DisarmRise, Points
  <2>2. QED
    BY <1>2, <2>1, SetIrqKeepsType DEF DisarmRise, TypeOK, Edges
<1>3. CASE Rearm(c)
  <2>1. pc' \in [Contexts -> Points]
    BY <1>3 DEF Rearm, Points, TypeOK
  <2>2. QED
    BY <1>3, <2>1, SetIrqKeepsType DEF Rearm, TypeOK, Edges
<1>4. QED
  BY <1>1, <1>2, <1>3 DEF RearmAssertIrq

LEMMA TypeCore1 ==
    ASSUME TypeOK, Core1
    PROVE  TypeOK'
<1>1. CASE /\ At("core1", "idle")
           /\ call_queue # <<>>
           /\ call_queue' = Tail(call_queue)
           /\ Goto("core1", IF Head(call_queue) = "gauge" THEN "flags" ELSE "idle")
           /\ UNCHANGED <<gpio, bq27742_g1_interrupt_pending, mask>>
  <2>1. pc' \in [Contexts -> Points]
    BY <1>1, GotoKeepsType DEF Contexts, Points
  <2>2. QED
    BY <1>1, <2>1, QueueTail DEF TypeOK, gpio, Queue
<1>2. CASE /\ At("core1", "flags")
           /\ Goto("core1", "look")
           /\ UNCHANGED <<gpio, bq27742_g1_interrupt_pending, call_queue, mask>>
  <2>1. pc' \in [Contexts -> Points]
    BY <1>2, GotoKeepsType DEF Contexts, Points
  <2>2. QED
    BY <1>2, <2>1 DEF TypeOK, gpio
<1>3. CASE Look("core1")
  BY <1>3, TypeParse DEF QueueParseInterrupt, Contexts
<1>4. CASE RearmAssertIrq("core1")
  BY <1>4, TypeRearm DEF Contexts
<1>5. QED
  BY <1>1, <1>2, <1>3, <1>4 DEF Core1

LEMMA TypeCore0 ==
    ASSUME TypeOK, Core0
    PROVE  TypeOK'
<1>1. CASE InitArm
  <2>1. pc' \in [Contexts -> Points]
    BY <1>1, GotoKeepsType DEF InitArm, Contexts, Points
  <2>2. QED
    BY <1>1, <2>1, SetIrqKeepsType DEF InitArm, TypeOK, Edges
<1>2. CASE InitLook
  <2>1. pc' \in [Contexts -> Points]
    BY <1>2, GotoKeepsType DEF InitLook, Contexts, Points
  <2>2. QED
    BY <1>2, <2>1 DEF InitLook, TypeOK, gpio
<1>3. CASE OnInterrupt
  <2>1. pc' \in [Contexts -> Points]
    BY <1>3, GotoKeepsType DEF OnInterrupt, Contexts, Points
  <2>2. QED
    BY <1>3, <2>1 DEF OnInterrupt, TypeOK, gpio
<1>4. CASE OnDeassert
  <2>1. pc' \in [Contexts -> Points]
    BY <1>4, GotoKeepsType DEF OnDeassert, Contexts, Points
  <2>2. QED
    BY <1>4, <2>1 DEF OnDeassert, TypeOK, gpio
<1>5. QED
  BY <1>1, <1>2, <1>3, <1>4, TypeParse, TypeRearm DEF Core0, Contexts

LEMMA TypeNext ==
    ASSUME TypeOK, [Next]_vars
    PROVE  TypeOK'
<1>1. CASE Assert \/ Deassert
  <2>1. level' \in {"low", "high"} /\ latched' \subseteq Edges
    BY <1>1 DEF Assert, Deassert, Edge, TypeOK, Edges
  <2>2. glitches' \in 0 .. Glitches
    BY <1>1 DEF Assert, Deassert, Edge, TypeOK
  <2>3. QED
    BY <1>1, <2>1, <2>2 DEF Assert, Deassert, Edge, TypeOK
<1>2. CASE OtherInterrupt
  BY <1>2, QueueAppend DEF OtherInterrupt, TypeOK, gpio, Queue
<1>3. CASE UNCHANGED vars
  BY <1>3 DEF vars, gpio, TypeOK
<1>4. QED
  BY <1>1, <1>2, <1>3, TypeCore0, TypeCore1 DEF Next

(* Nothing is written beyond the end of call_queue, and core 1 and the     *)
(* contexts of core 0 keep to their code.                                  *)
THEOREM TypeCorrect == Spec => []TypeOK
BY TypeInit, TypeNext, PTL DEF Spec

-----------------------------------------------------------------------------
(* Listening *)

Listening ==
    \/ "rise" \in enabled
    \/ "fall" \in enabled /\ ~bq27742_g1_interrupt_pending

(* Main's points where it relies on core 0 listening: all but its own      *)
(* arming, which ends with the rising edge.                                *)
Relying == {"asserted", "test", "pend", "add", "look", "idle"}

(* The strengthening: where the handler is tells what it may count on.     *)
(* Between its arming of the rising edge and its end that edge is armed; a *)
(* rising edge it was interrupted by was armed and stays so until it has   *)
(* been dealt with; and while it rearms the falling edge nobody sets the   *)
(* pending flag, as main stands still and core 1 only clears it.           *)
Armed ==
    /\ pc["main"] = "init" => /\ enabled = {} /\ ~bq27742_g1_interrupt_pending
                              /\ pc["handler"] = "idle"
    /\ pc["handler"] \in {"add", "look", "rise"} => "rise" \in enabled
    /\ pc["handler"] = "test" => mask \subseteq enabled
    /\ pc["handler"] \in {"pend", "disarm", "await_rise"} =>
          ("rise" \in mask => "rise" \in enabled)
    /\ pc["handler"] \in {"disarm_rise", "rearm"} => ~bq27742_g1_interrupt_pending
    /\ pc["handler"] \in {"idle", "test"} /\ pc["main"] \in Relying => Listening

(* Main arms no falling edge but the first: it never finds call_queue full *)
(* and the pin released.                                                   *)
NoRearm == pc["main"] \notin {"unpend", "disarm_rise", "rearm"}

LEMMA ArmedInit == Init => Armed /\ NoRearm
BY DEF Init, Armed, NoRearm, Relying, Contexts

LEMMA ArmedParseByMain ==
    ASSUME TypeOK, Armed, NoRearm, QueueParseInterrupt("main")
    PROVE  Armed' \/ ~NoRearm'
<1> USE DEF TypeOK, Contexts, At, Goto, Done, gpio, Armed, Listening, Relying, SetIrqEnabled
<1>1. CASE Test("main")
  BY <1>1 DEF Test
<1>2. CASE Pend("main")
  BY <1>2 DEF Pend
<1>3. CASE Disarm("main")
  BY <1>3 DEF Disarm
<1>4. CASE AwaitRise("main")
  BY <1>4 DEF AwaitRise
<1>5. CASE Add("main")
  BY <1>5 DEF Add
<1>6. CASE Look("main")
  BY <1>6 DEF Look, NoRearm
<1>7. QED
  BY <1>1, <1>2, <1>3, <1>4, <1>5, <1>6 DEF QueueParseInterrupt

LEMMA ArmedParseByHandler ==
    ASSUME TypeOK, Armed, NoRearm, QueueParseInterrupt("handler")
    PROVE  Armed'
<1> USE DEF TypeOK, Contexts, At, Goto, Done, gpio, Armed, Listening, Relying, SetIrqEnabled
<1>1. CASE Test("handler")
  BY <1>1 DEF Test
<1>2. CASE Pend("handler")
  BY <1>2 DEF Pend
<1>3. CASE Disarm("handler")
  BY <1>3 DEF Disarm
<1>4. CASE AwaitRise("handler")
  BY <1>4 DEF AwaitRise
<1>5. CASE Add("handler")
  BY <1>5 DEF Add
<1>6. CASE Look("handler")
  BY <1>6 DEF Look
<1>7. QED
  BY <1>1, <1>2, <1>3, <1>4, <1>5, <1>6 DEF QueueParseInterrupt

LEMMA ArmedRearm ==
    ASSUME TypeOK, Armed, NoRearm, NEW c \in Contexts, RearmAssertIrq(c)
    PROVE  Armed'
<1> USE DEF TypeOK, At, Goto, Done, gpio, Armed, Listening, Relying, SetIrqEnabled
<1>1. c \in {"handler", "core1"}
  BY DEF Contexts, RearmAssertIrq, Unpend, DisarmRise, Rearm, NoRearm
<1>2. CASE Unpend(c)
  BY <1>1, <1>2 DEF Unpend, Contexts
<1>3. CASE DisarmRise(c)
  BY <1>1, <1>3 DEF DisarmRise, Contexts
<1>4. CASE Rearm(c)
  BY <1>1, <1>4 DEF Rearm, Contexts
<1>5. QED
  BY <1>2, <1>3, <1>4 DEF RearmAssertIrq

LEMMA ArmedCore0 ==
    ASSUME TypeOK, Armed, NoRearm, Core0
    PROVE  Armed' \/ ~NoRearm'
<1> USE DEF TypeOK, Contexts, At, Goto, gpio, Armed, Listening, Relying
<1>1. CASE InitArm
  BY <1>1 DEF InitArm, SetIrqEnabled
<1>2. CASE InitLook
  BY <1>2 DEF InitLook
<1>3. CASE OnInterrupt
  BY <1>3 DEF OnInterrupt, Edges
<1>4. CASE OnDeassert
  BY <1>4 DEF OnDeassert
<1>5. QED
  BY <1>1, <1>2, <1>3, <1>4, ArmedParseByMain, ArmedParseByHandler, ArmedRearm DEF Core0

LEMMA ArmedCore1 ==
    ASSUME TypeOK, Armed, NoRearm, Core1
    PROVE  Armed'
<1>1. CASE RearmAssertIrq("core1")
  BY <1>1, ArmedRearm DEF Contexts
<1>2. CASE ~RearmAssertIrq("core1")
  <2>1. pc'["main"] = pc["main"] /\ pc'["handler"] = pc["handler"]
    BY <1>2 DEF Core1, Goto, Look, Done, TypeOK, Contexts
  <2>2. UNCHANGED <<enabled, mask, bq27742_g1_interrupt_pending>>
    BY <1>2 DEF Core1, Look, gpio
  <2>3. QED
    BY <2>1, <2>2 DEF Armed, Listening
<1>3. QED
  BY <1>1, <1>2

LEMMA ArmedNext ==
    ASSUME TypeOK, Armed, NoRearm, [Next]_vars
    PROVE  Armed' \/ ~NoRearm'
<1>1. CASE Assert \/ Deassert \/ OtherInterrupt \/ UNCHANGED vars
  <2>1. UNCHANGED <<pc, enabled, mask, bq27742_g1_interrupt_pending>>
    BY <1>1 DEF Assert, Deassert, Edge, OtherInterrupt, vars, gpio
  <2>2. QED
    BY <2>1 DEF Armed, Listening
<1>2. QED
  BY <1>1, ArmedCore0, ArmedCore1 DEF Next

LEMMA OnlyLookRearms ==
    ASSUME TypeOK, NoRearm, [Next]_vars, pc'["main"] # "unpend"
    PROVE  NoRearm'
<1> USE DEF TypeOK, Contexts, NoRearm, Goto
<1>1. CASE \E c \in Contexts : QueueParseInterrupt(c)
  BY <1>1 DEF QueueParseInterrupt, Test, Pend, Disarm, AwaitRise, Add, Look, Done
<1>2. CASE \E c \in Contexts : RearmAssertIrq(c)
  BY <1>2 DEF RearmAssertIrq, Unpend, DisarmRise, Rearm, At
<1>3. CASE Core1
  BY <1>1, <1>2, <1>3 DEF Core1, QueueParseInterrupt
<1>4. CASE Core0
  BY <1>1, <1>2, <1>4 DEF Core0, InitArm, InitLook, OnInterrupt, OnDeassert
<1>5. CASE Assert \/ Deassert \/ OtherInterrupt \/ UNCHANGED vars
  BY <1>5 DEF Assert, Deassert, Edge, OtherInterrupt, vars
<1>6. QED
  BY <1>3, <1>4, <1>5 DEF Next

LEMMA ArmedListens == Armed => NeverDeaf
BY DEF Armed, NeverDeaf, Listening, Relying

(* Core 0 is left listening for an edge that helps, for any queue and any  *)
(* edges, unless main once finds call_queue full in bq27742_g1_init.  (If  *)
(* it does, an edge between its two enables leaves core 0 deaf; TLC shows  *)
(* it with "boot" among Others.)                                           *)
THEOREM NeverDeafOnceQueued == Spec /\ [](pc["main"] # "unpend") => []NeverDeaf
<1>1. Init => Armed /\ NoRearm
  BY ArmedInit
<1>2. TypeOK /\ Armed /\ NoRearm /\ [Next]_vars /\ (pc["main"] # "unpend")' => Armed' /\ NoRearm'
  BY ArmedNext, OnlyLookRearms
<1>3. QED
  BY <1>1, <1>2, TypeCorrect, ArmedListens, PTL DEF Spec

-----------------------------------------------------------------------------
(* call_queue in bq27742_g1_init *)

Coming == IF "fall" \in latched THEN 1 ELSE 0
Handling == IF pc["handler"] \in {"test", "pend", "disarm", "await_rise", "add"} THEN 1 ELSE 0
Below == IF level = "low" THEN 1 ELSE 0

(* The readings queued, and the falling edges that will queue one.         *)
Readings == Len(call_queue) + Coming + Handling

(* While main is in bq27742_g1_init every edge is one of Glitches, and     *)
(* falling edges alternate with rising ones: so many readings, and so many *)
(* when main found the queue full.                                         *)
Counted ==
    /\ NoRearm
    /\ pc["main"] # "idle" => 2 * Readings <= glitches + Below
    /\ pc["main"] = "look" => 2 * QueueSize <= glitches + Below

LEMMA LengthNat ==
    TypeOK => /\ Len(call_queue) \in Nat /\ glitches \in Nat
              /\ Coming \in {0, 1} /\ Handling \in {0, 1} /\ Below \in {0, 1}
              /\ Readings \in Nat
<1>1. TypeOK => Len(call_queue) \in Nat /\ glitches \in Nat
  BY DEF TypeOK
<1>2. Coming \in {0, 1} /\ Handling \in {0, 1} /\ Below \in {0, 1}
  BY DEF Coming, Handling, Below
<1>3. QED
  BY <1>1, <1>2 DEF Readings

LEMMA LengthNatNext ==
    (TypeOK => /\ Len(call_queue) \in Nat /\ glitches \in Nat
               /\ Coming \in {0, 1} /\ Handling \in {0, 1} /\ Below \in {0, 1}
               /\ Readings \in Nat)'
BY LengthNat, PTL

LEMMA NoMoreReadings ==
    ASSUME TypeOK, TypeOK', Len(call_queue') <= Len(call_queue), latched' \subseteq latched,
           pc'["handler"] \in {"test", "pend", "disarm", "await_rise", "add"}
               => pc["handler"] \in {"test", "pend", "disarm", "await_rise", "add"}
    PROVE  Readings' <= Readings
<1>1. Coming' <= Coming
  BY DEF Coming
<1>2. Handling' <= Handling
  BY DEF Handling
<1>3. QED
  BY <1>1, <1>2, LengthNat, LengthNatNext DEF Readings

LEMMA CountedInit == Init => Counted
BY DEF Init, Counted, NoRearm, Readings, Coming, Handling, Below, Contexts

LEMMA CountedEdge ==
    ASSUME TypeOK, TypeOK', Counted, Assert \/ Deassert
    PROVE  Counted'
<1>1. UNCHANGED <<call_queue, pc>>
  BY DEF Assert, Deassert, Edge
<1>2. CASE pc["main"] = "idle"
  BY <1>1, <1>2 DEF Counted, NoRearm
<1>3. CASE pc["main"] # "idle"
  <2>1. glitches' = glitches + 1
    BY <1>3 DEF Assert, Deassert, Edge, Steady
  <2>2. CASE Assert
    <3>1. Readings' <= Readings + 1
      <4>1. Handling' = Handling
        BY <1>1 DEF Handling
      <4>2. QED
        BY <1>1, <4>1, LengthNat, LengthNatNext DEF Readings
    <3>2. Below = 0 /\ Below' = 1
      BY <2>2 DEF Assert, Edge, Below
    <3>3. QED
      BY <1>1, <1>3, <2>1, <3>1, <3>2, LengthNat, LengthNatNext DEF Counted, NoRearm
  <2>3. CASE Deassert
    <3>1. Readings' = Readings
      BY <1>1, <2>3 DEF Deassert, Edge, Readings, Coming, Handling
    <3>2. Below = 1 /\ Below' = 0
      BY <2>3 DEF Deassert, Edge, Below
    <3>3. QED
      BY <1>1, <1>3, <2>1, <3>1, <3>2, LengthNat, LengthNatNext DEF Counted, NoRearm
  <2>4. QED
    BY <2>2, <2>3
<1>4. QED
  BY <1>2, <1>3

(* Steps that queue no more than they were about to.                       *)
LEMMA CountedElsewhere ==
    ASSUME TypeOK, TypeOK', Counted, UNCHANGED <<level, glitches>>, NoRearm',
           pc'["main"] = "look" => pc["main"] = "look",
           pc'["main"] # "idle" => pc["main"] # "idle" /\ Readings' <= Readings
    PROVE  Counted'
<1>1. Below' = Below /\ glitches' = glitches
  BY DEF Below
<1>2. QED
  BY <1>1, LengthNat, LengthNatNext DEF Counted

LEMMA CountedParse ==
    ASSUME TypeOK, TypeOK', Glitches < 2 * QueueSize, Counted,
           NEW c \in {"main", "handler"}, QueueParseInterrupt(c)
    PROVE  Counted'
<1> USE DEF At, Goto, Done, gpio, SetIrqEnabled, Contexts
<1>1. UNCHANGED <<level, glitches>> /\ pc[c] # "idle"
  BY DEF QueueParseInterrupt, Test, Pend, Disarm, AwaitRise, Add, Look, TypeOK
<1>2. pc'["main"] # "idle" => pc["main"] # "idle"
  BY DEF QueueParseInterrupt, Test, Pend, Disarm, AwaitRise, Add, Look, TypeOK
<1>3. CASE c = "main" /\ pc["main"] = "look"
  <2>1. Look("main")
    BY <1>3 DEF QueueParseInterrupt, Test, Pend, Disarm, AwaitRise, Add
  <2>2. level = "low"
    <3>1. SUFFICES ASSUME level # "low" PROVE FALSE
      OBVIOUS
    <3>2. 2 * QueueSize <= glitches
      BY <1>3, <3>1, LengthNat DEF Counted, Below
    <3>3. QED
      BY <3>2 DEF TypeOK
  <2>3. pc'["main"] = "idle"
    BY <2>1, <2>2 DEF Look, TypeOK
  <2>4. QED
    BY <2>3 DEF Counted, NoRearm
<1>4. CASE c = "main" /\ pc["main"] = "add"
  <2>1. Add("main")
    BY <1>4 DEF QueueParseInterrupt, Test, Pend, Disarm, AwaitRise, Look
  <2>2. CASE Len(call_queue) < QueueSize
    BY <1>4, <2>1, <2>2 DEF Add, TypeOK, Counted, NoRearm
  <2>3. CASE ~(Len(call_queue) < QueueSize)
    <3>1. Readings' = Readings /\ pc'["main"] = "look" /\ pc["main"] # "idle"
      BY <1>4, <2>1, <2>3 DEF Add, TypeOK, Readings, Coming, Handling
    <3>2. Readings >= QueueSize /\ Readings \in Nat
      BY <2>3, LengthNat DEF Readings
    <3>3. QED
      BY <1>1, <3>1, <3>2, LengthNat DEF Counted, NoRearm, Below
  <2>4. QED
    BY <2>2, <2>3
<1>5. CASE c = "main" /\ pc["main"] \notin {"look", "add"}
  <2>1. Test("main") \/ Pend("main") \/ Disarm("main") \/ AwaitRise("main")
    BY <1>5 DEF QueueParseInterrupt, Add, Look
  <2>2. pc'["main"] # "look" /\ NoRearm'
    BY <2>1 DEF Test, Pend, Disarm, AwaitRise, TypeOK, NoRearm
  <2>3. pc'["handler"] = pc["handler"] /\ latched' \subseteq latched /\ UNCHANGED call_queue
    BY <1>5, <2>1 DEF Test, Pend, Disarm, AwaitRise, TypeOK
  <2>4. Readings' <= Readings
    BY <2>3, LengthNat, NoMoreReadings
  <2>5. QED
    BY <1>1, <1>2, <2>2, <2>4, CountedElsewhere
<1>6. CASE c = "handler"
  <2>1. UNCHANGED pc["main"]
    BY <1>6 DEF QueueParseInterrupt, Test, Pend, Disarm, AwaitRise, Add, Look, TypeOK
  <2>2. Readings' <= Readings
    <3>1. CASE Add(c) /\ Len(call_queue) < QueueSize
      <4>1. Len(call_queue') = Len(call_queue) + 1
        BY <3>1, QueueAppend DEF Add, TypeOK, Queue
      <4>2. pc["handler"] = "add" /\ pc'["handler"] \in {"rise", "idle"} /\ UNCHANGED latched
        BY <1>6, <3>1 DEF Add, TypeOK
      <4>3. Handling = 1 /\ Handling' = 0 /\ Coming' = Coming
        BY <4>2 DEF Handling, Coming
      <4>4. QED
        BY <4>1, <4>3, LengthNat, LengthNatNext DEF Readings
    <3>2. CASE ~(Add(c) /\ Len(call_queue) < QueueSize)
      <4>1. UNCHANGED call_queue /\ latched' \subseteq latched
        BY <3>2 DEF QueueParseInterrupt, Test, Pend, Disarm, AwaitRise, Add, Look
      <4>2. pc'["handler"] \in {"test", "pend", "disarm", "await_rise", "add"}
              => pc["handler"] \in {"test", "pend", "disarm", "await_rise", "add"}
        BY <1>6 DEF QueueParseInterrupt, Test, Pend, Disarm, AwaitRise, Add, Look, TypeOK
      <4>3. QED
        BY <4>1, <4>2, LengthNat, NoMoreReadings
    <3>3. QED
      BY <3>1, <3>2
  <2>3. NoRearm'
    BY <2>1 DEF Counted, NoRearm
  <2>4. QED
    BY <1>1, <1>2, <2>1, <2>2, <2>3, CountedElsewhere
<1>7. QED
  BY <1>3, <1>4, <1>5, <1>6

LEMMA CountedRearm ==
    ASSUME TypeOK, TypeOK', Counted, NEW c \in Contexts, RearmAssertIrq(c)
    PROVE  Counted'
<1> USE DEF At, Goto, gpio, SetIrqEnabled, Contexts
<1>1. c # "main" /\ UNCHANGED pc["main"]
  BY DEF RearmAssertIrq, Unpend, DisarmRise, Rearm, Counted, NoRearm, TypeOK
<1>2. UNCHANGED <<level, glitches, call_queue>> /\ latched' \subseteq latched
  BY DEF RearmAssertIrq, Unpend, DisarmRise, Rearm
<1>3. pc'["handler"] \in {"test", "pend", "disarm", "await_rise", "add"}
        => pc["handler"] \in {"test", "pend", "disarm", "await_rise", "add"}
  BY DEF RearmAssertIrq, Unpend, DisarmRise, Rearm, TypeOK
<1>4. Readings' <= Readings
  BY <1>2, <1>3, LengthNat, NoMoreReadings
<1>5. NoRearm'
  BY <1>1 DEF Counted, NoRearm
<1>6. QED
  BY <1>1, <1>2, <1>4, <1>5, LengthNat, CountedElsewhere

LEMMA CountedCore1 ==
    ASSUME TypeOK, TypeOK', Counted, Core1
    PROVE  Counted'
<1>1. CASE RearmAssertIrq("core1")
  BY <1>1, CountedRearm DEF Contexts
<1>2. CASE ~RearmAssertIrq("core1")
  <2>1. UNCHANGED <<pc["main"], pc["handler"]>>
    BY <1>2 DEF Core1, Goto, Look, Done, TypeOK, Contexts
  <2>2. UNCHANGED gpio
    BY <1>2 DEF Core1, Look
  <2>3. Len(call_queue') \in Nat /\ Len(call_queue') <= Len(call_queue)
    BY <1>2, LengthNat, QueueTail DEF Core1, Look, TypeOK, Queue
  <2>4. Readings' <= Readings
    BY <2>1, <2>2, <2>3, NoMoreReadings DEF gpio
  <2>5. NoRearm'
    BY <2>1 DEF Counted, NoRearm
  <2>6. QED
    BY <2>1, <2>2, <2>3, <2>4, <2>5, CountedElsewhere DEF gpio
<1>3. QED
  BY <1>1, <1>2

LEMMA CountedCore0 ==
    ASSUME TypeOK, TypeOK', Glitches < 2 * QueueSize, Counted, Core0
    PROVE  Counted'
<1> USE DEF At, Goto, gpio, SetIrqEnabled, Contexts
<1>1. CASE InitArm \/ InitLook
  <2>1. UNCHANGED <<level, glitches, call_queue, pc["handler"]>> /\ latched' \subseteq latched
    BY <1>1 DEF InitArm, InitLook, TypeOK
  <2>2. pc["main"] # "idle" /\ pc'["main"] # "look" /\ NoRearm'
    BY <1>1 DEF InitArm, InitLook, TypeOK, NoRearm
  <2>3. Readings' <= Readings
    BY <2>1, LengthNat, NoMoreReadings
  <2>4. QED
    BY <2>1, <2>2, <2>3, LengthNat, CountedElsewhere
<1>2. CASE OnInterrupt \/ OnDeassert
  <2>1. UNCHANGED <<level, glitches, call_queue, pc["main"]>>
    BY <1>2 DEF OnInterrupt, OnDeassert, TypeOK
  <2>2. Readings' <= Readings
    <3>1. CASE OnInterrupt /\ "fall" \in mask'
      <4>1. Coming = 1 /\ Coming' = 0
        BY <3>1 DEF OnInterrupt, Coming
      <4>2. QED
        BY <2>1, <4>1, LengthNat, LengthNatNext DEF Readings
    <3>2. CASE ~(OnInterrupt /\ "fall" \in mask')
      <4>1. latched' \subseteq latched /\ Len(call_queue') <= Len(call_queue)
        BY <1>2, <2>1, LengthNat DEF OnInterrupt, OnDeassert
      <4>2. pc'["handler"] \notin {"test", "pend", "disarm", "await_rise", "add"}
        BY <1>2, <3>2 DEF OnInterrupt, OnDeassert, TypeOK
      <4>3. QED
        BY <4>1, <4>2, NoMoreReadings
    <3>3. QED
      BY <3>1, <3>2
  <2>3. NoRearm'
    BY <2>1 DEF Counted, NoRearm
  <2>4. QED
    BY <2>1, <2>2, <2>3, LengthNat, CountedElsewhere
<1>3. QED
  BY <1>1, <1>2, CountedParse, CountedRearm DEF Core0

LEMMA CountedNext ==
    ASSUME TypeOK, TypeOK', "boot" \notin Others, Glitches < 2 * QueueSize, Counted, [Next]_vars
    PROVE  Counted'
<1>1. CASE OtherInterrupt
  <2>1. pc["main"] = "idle" /\ UNCHANGED pc
    BY <1>1 DEF OtherInterrupt
  <2>2. QED
    BY <2>1 DEF Counted, NoRearm
<1>2. CASE UNCHANGED vars
  BY <1>2 DEF vars, gpio, Counted, NoRearm, Readings, Coming, Handling, Below
<1>3. QED
  BY <1>1, <1>2, CountedEdge, CountedCore0, CountedCore1 DEF Next

(* If the other chips are quiet while the gauge is set up, and there are   *)
(* fewer ill-timed edges than two for each place on call_queue, core 0     *)
(* never finds itself deaf to the gauge.                                   *)
THEOREM NeverDeafHolds ==
    ASSUME "boot" \notin Others, Glitches < 2 * QueueSize
    PROVE  Spec => []NeverDeaf
<1>1. Init => Counted
  BY CountedInit
<1>2. TypeOK /\ TypeOK' /\ Counted /\ [Next]_vars => Counted'
  BY CountedNext
<1>3. Counted => pc["main"] # "unpend"
  BY DEF Counted, NoRearm
<1>4. QED
  BY <1>1, <1>2, <1>3, TypeCorrect, NeverDeafOnceQueued, PTL DEF Spec
=============================================================================
