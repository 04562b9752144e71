------------------------ MODULE OpcodeEngine_proofs ------------------------
(***************************************************************************)
(* That no opcode is lost or sent twice between the two queues and the two *)
(* cores, for queues of any size and any tests and events, and that        *)
(* neither queue is ever full when it has a few entries more than the      *)
(* chip can be behind with.                                                *)
(***************************************************************************)
EXTENDS OpcodeEngine, FiniteSetTheorems, FunctionTheorems, TLAPS

-----------------------------------------------------------------------------
(* How often e occurs in s. *)
Occurrences(e, s) == Cardinality({i \in DOMAIN s : s[i] = e})

LEMMA OccurrencesNat ==
    ASSUME NEW S, NEW s \in Seq(S), NEW e
    PROVE  IsFiniteSet({i \in DOMAIN s : s[i] = e}) /\ Occurrences(e, s) \in Nat
<1>1. IsFiniteSet(1 .. Len(s))
  BY FS_Interval
<1>2. {i \in DOMAIN s : s[i] = e} \in SUBSET (1 .. Len(s))
  OBVIOUS
<1>3. IsFiniteSet({i \in DOMAIN s : s[i] = e})
  BY <1>1, <1>2, FS_Subset
<1>4. QED
  BY <1>3, FS_CardinalityType DEF Occurrences

LEMMA OccurrencesAppend ==
    ASSUME NEW S, NEW s \in Seq(S), NEW d \in S, NEW e
    PROVE  Occurrences(e, Append(s, d)) = Occurrences(e, s) + (IF d = e THEN 1 ELSE 0)
<1> DEFINE old == {i \in DOMAIN s : s[i] = e}
           new == {i \in DOMAIN Append(s, d) : Append(s, d)[i] = e}
<1>1. IsFiniteSet(old) /\ Cardinality(old) \in Nat
  BY OccurrencesNat DEF Occurrences
<1>2. Len(s) + 1 \notin old
  OBVIOUS
<1>3. CASE d = e
  <2>1. new = old \cup {Len(s) + 1}
    BY <1>3
  <2>2. Cardinality(old \cup {Len(s) + 1}) = Cardinality(old) + 1
    <3> HIDE DEF old
    <3>1. QED
      BY <1>1, <1>2, FS_AddElement
  <2>3. QED
    BY <1>1, <1>3, <2>1, <2>2 DEF Occurrences
<1>4. CASE d # e
  <2>1. new = old
    BY <1>4
  <2>2. Occurrences(e, Append(s, d)) = Cardinality(new) /\ Occurrences(e, s) = Cardinality(old)
    BY DEF Occurrences
  <2> HIDE DEF old, new
  <2>3. QED
    BY <1>1, <1>4, <2>1, <2>2
<1>5. QED
  BY <1>3, <1>4

(* The positions in the tail are those in the sequence, one further, but  *)
(* for the first.                                                          *)
LEMMA OccurrencesTail ==
    ASSUME NEW S, NEW s \in Seq(S), s # <<>>, NEW e
    PROVE  Occurrences(e, s) = Occurrences(e, Tail(s)) + (IF Head(s) = e THEN 1 ELSE 0)
<1> DEFINE all == {i \in DOMAIN s : s[i] = e}
           later == all \ {1}
           new == {i \in DOMAIN Tail(s) : Tail(s)[i] = e}
<1>1. /\ Tail(s) \in Seq(S) /\ Len(Tail(s)) = Len(s) - 1
      /\ \A i \in 1 .. Len(s) - 1 : Tail(s)[i] = s[i + 1]
      /\ Head(s) = s[1] /\ Len(s) \in Nat /\ Len(s) >= 1
  OBVIOUS
<1>2. IsFiniteSet(all) /\ IsFiniteSet(new) /\ Cardinality(new) \in Nat
  BY <1>1, OccurrencesNat DEF Occurrences
<1>3. Cardinality(later) = Cardinality(new)
  <2> DEFINE f == [i \in new |-> i + 1]
  <2>1. \A i \in new : i \in 1 .. Len(s) - 1 /\ s[i + 1] = e
    BY <1>1
  <2>2. \A j \in later : j - 1 \in new
    BY <1>1
  <2>3. f \in Bijection(new, later)
    <3>1. \A i \in new : f[i] \in later
      BY <2>1, <1>1
    <3>2. \A i, j \in new : f[i] = f[j] => i = j
      BY <2>1
    <3>3. ASSUME NEW j \in later PROVE \E i \in new : f[i] = j
      <4>1. j - 1 \in new /\ j \in Nat
        BY <1>1, <2>2
      <4> HIDE DEF new, later
      <4>2. f[j - 1] = j
        BY <4>1
      <4>3. QED
        BY <4>1, <4>2
    <3> HIDE DEF new, later
    <3>4. f \in [new -> later]
      BY <3>1
    <3> HIDE DEF f
    <3>5. QED
      BY <3>2, <3>3, <3>4, Fun_IsBij
  <2> HIDE DEF new, later, f
  <2>4. ExistsBijection(new, later)
    BY <2>3 DEF ExistsBijection
  <2>5. QED
    BY <1>2, <2>4, FS_Bijection
<1>4. Cardinality(later) = IF 1 \in all THEN Cardinality(all) - 1 ELSE Cardinality(all)
  <2> HIDE DEF all
  <2>1. QED
    BY <1>2, FS_RemoveElement
<1>5. 1 \in all <=> Head(s) = e
  BY <1>1
<1>6. Cardinality(all) \in Nat
  BY OccurrencesNat DEF Occurrences
<1>7. Occurrences(e, s) = Cardinality(all) /\ Occurrences(e, Tail(s)) = Cardinality(new)
  BY DEF Occurrences
<1> HIDE DEF all, later, new
<1>8. QED
  BY <1>2, <1>3, <1>4, <1>5, <1>6, <1>7

-----------------------------------------------------------------------------

LEMMA CapsNat == CallCap \in Nat \ {0} /\ OpcodeCap \in Nat \ {0} /\ MaxEvents \in Nat
BY ConstantsAssumption

USE CapsNat

Points0 == {"clear", "clear_read", "init", "pop", "push", "cc", "cc_read", "boot", "test", "register_read", "wait",
            "compare", "mask_send", "start", "drive", "driven", "unmask", "unmask_send", "last",
            "last_read", "halted"}
Points1 == {"idle", "write", "pop", "push", "response", "responded", "pd", "chgtype", "cc", "halted"}
Bits == {"response", "pd", "cc", "chgtype"}

(* Each core keeps to its own code, comes back from opcode_queue_pop to    *)
(* where it called it, and core 0 has a test to wait for while it waits.   *)
Placed ==
    /\ pc["core0"] \in Points0 /\ pc["core1"] \in Points1
    /\ after["core0"] \in {"idle", "cc", "boot", "wait"}
    /\ after["core1"] \in {"idle", "responded"}
    /\ pc["core0"] \in {"pop", "push"} => after["core0"] # "idle"
    /\ \/ pc["core0"] \in {"wait", "compare", "register_read", "last_read"}
       \/ pc["core0"] \in {"pop", "push"} /\ after["core0"] = "wait"
       => todo # <<>>
    /\ pc["core1"] = "write" => send_buf # NoOpcode \/ clobbered

Typed == TypeOK /\ Placed

LEMMA NamesApart ==
    /\ Opcodes \subseteq Entries /\ TestOpcodes \subseteq Opcodes
    /\ {"parse", "pd_msg", "test_response", "other"} \subseteq Entries
    /\ {"low", "off", "config", "on"} \subseteq Opcodes
    /\ NoOpcode \notin Opcodes
    /\ \A entry \in {"parse", "pd_msg", "test_response", "other"} : entry \notin Opcodes
BY TestsAssumption DEF Opcodes, Entries, TestOpcodes, NoOpcode

(* What core 0 has yet to do. *)
Tasks == Opcodes \cup {Register}

LEMMA TestsType == Tests \in Seq(Tasks)
<1>1. \A i \in 1 .. Len(Tests) : Tests[i] \in Tasks
  BY ConstantsAssumption DEF Tasks, Opcodes, TestOpcodes
<1>2. QED
  BY <1>1, ConstantsAssumption

LEMMA InitOpcodesType == InitOpcodes \in Seq(Tasks)
<1>1. "low" \in Tasks /\ "off" \in Tasks /\ "config" \in Tasks
  BY NamesApart DEF Tasks
<1>2. QED
  BY <1>1 DEF InitOpcodes

LEMMA LastReadsType == LastReads \in Seq(Tasks)
<1>1. Register \in Tasks
  BY DEF Tasks
<1>2. QED
  BY <1>1 DEF LastReads

LEMMA PointsOfCores == Points0 \subseteq Points /\ Points1 \subseteq Points
BY DEF Points0, Points1, Points

LEMMA SeqAppend ==
    ASSUME NEW S, NEW s \in Seq(S), NEW e \in S
    PROVE  Append(s, e) \in Seq(S) /\ Len(Append(s, e)) = Len(s) + 1
OBVIOUS

LEMMA SeqTail ==
    ASSUME NEW S, NEW s \in Seq(S), s # <<>>
    PROVE  /\ Tail(s) \in Seq(S) /\ Len(Tail(s)) = Len(s) - 1
           /\ Head(s) \in S /\ Len(s) \in Nat /\ Len(s) # 0
OBVIOUS

(* The parts of the type. *)
ChipType ==
    /\ cc \in {"none", "sink", "source"}
    /\ pd \in {"none", "swap_to_sink", "swap_to_source", "other"}
    /\ ints \in SUBSET Bits
    /\ executing \in Seq(Opcodes)
    /\ answer \in Opcodes \cup {NoOpcode}
    /\ vbus \in BOOLEAN /\ irq \in BOOLEAN
    /\ events \in 0 .. MaxEvents /\ crowded \in BOOLEAN
QueueType ==
    /\ call_queue \in Seq(Entries) /\ Len(call_queue) <= CallCap
    /\ opcode_queue \in Seq(Opcodes) /\ Len(opcode_queue) <= OpcodeCap
    /\ opcodes_finished \in BOOLEAN
    /\ op_code_return_buf \in Opcodes \cup {NoOpcode}
    /\ test_max77958_completed \in BOOLEAN /\ responding \in BOOLEAN
    /\ todo \in Seq(Tasks)
ControlType ==
    /\ pc \in [Cores -> Points]
    /\ after \in [Cores -> Points]
    /\ held \in [Cores -> Opcodes \cup {NoOpcode}]
    /\ \A c \in Cores : /\ pc[c] = "push" => held[c] # NoOpcode
                        /\ held[c] # NoOpcode => pc[c] \in {"push", "halted"}
    /\ send_buf \in Opcodes \cup {NoOpcode} /\ (send_buf # NoOpcode => pc["core1"] = "write")
    /\ bits \in SUBSET Bits
    /\ clobbered \in BOOLEAN

LEMMA TypeParts == TypeOK <=> ChipType /\ QueueType /\ ControlType
BY DEF TypeOK, ChipType, QueueType, ControlType, Bits, Tasks

LEMMA TypePartsNext == TypeOK' <=> (ChipType /\ QueueType /\ ControlType)'
BY TypeParts, PTL

-----------------------------------------------------------------------------
(* The chip *)

LEMMA ChipInit == Init => ChipType
<1>1. SUFFICES ASSUME Init PROVE ChipType
  OBVIOUS
<1>2. executing \in Seq(Opcodes) /\ events \in 0 .. MaxEvents
  BY <1>1 DEF Init
<1>3. QED
  BY <1>1, <1>2 DEF Init, ChipType, Bits

LEMMA ChipNext ==
    ASSUME ChipType, QueueType, ControlType, Placed, [Next]_vars
    PROVE  ChipType'
<1> USE NamesApart DEF ChipType, Bits
<1>1. CASE Respond
  <2>1. executing' \in Seq(Opcodes) /\ Head(executing) \in Opcodes
    BY <1>1, SeqTail DEF Respond
  <2>2. QED
    BY <1>1, <2>1 DEF Respond, Raise, history
<1>2. CASE \E kind \in EventKinds, new \in {"none", "sink", "source"} : CcChange(kind, new)
  BY <1>2 DEF CcChange, Event, Raise
<1>3. CASE \E message \in {"swap_to_sink", "swap_to_source", "other"} : PdMessage(message)
  BY <1>3 DEF PdMessage, Event, Raise
<1>4. CASE OnInterrupt
  BY <1>4 DEF OnInterrupt, history
<1>5. CASE OtherInterrupt
  BY <1>5 DEF OtherInterrupt, Event
<1>6. CASE OpcodeWrite
  <2>1. send_buf \in Opcodes
    BY <1>6 DEF OpcodeWrite, At, Placed, ControlType
  <2>2. QED
    BY <1>6, <2>1, SeqAppend DEF OpcodeWrite, history
<1>7. CASE RunParse \/ ClearInterruptsRead
  BY <1>7 DEF RunParse, ClearInterruptsRead, history
<1>8. CASE UNCHANGED chip
  BY <1>8 DEF chip, history
<1>9. CASE TestDrive \/ TestUnmaskSend
  BY <1>9 DEF TestDrive, TestUnmaskSend, history
<1>10. CASE Core0
  BY <1>7, <1>8, <1>9, <1>10
  DEF Core0, PopOpcode, PushCall, InitAdd, InitPop, Boot, TestSend, TestWait, TestCompare, InitCcStat,
      InitCcStatRead, TestRegister, TestRegisterRead, TestMask, TestMaskSend, TestStart, TestRelease,
      TestUnmask, ClearInterrupts
<1>11. QED
  BY <1>1, <1>2, <1>3, <1>4, <1>5, <1>6, <1>7, <1>8, <1>10
  DEF Next, Core1, BuildOpcode, RunOther, RunTestResponse, RunPdMsgResponse, OnResponse, Responded,
      OnPdMsg, OnChgType, OnCcStat, PopOpcode, PushCall, OnInterruptRespond, vars

-----------------------------------------------------------------------------
(* The queues *)

LEMMA QueueInit == Init => QueueType
<1>1. SUFFICES ASSUME Init PROVE QueueType
  OBVIOUS
<1>2. /\ call_queue \in Seq(Entries) /\ Len(call_queue) <= CallCap
      /\ opcode_queue \in Seq(Opcodes) /\ Len(opcode_queue) <= OpcodeCap
  BY <1>1 DEF Init
<1>3. QED
  BY <1>1, <1>2, InitOpcodesType DEF Init, QueueType

LEMMA CallTail ==
    ASSUME QueueType, NEW entry, Take(entry)
    PROVE  call_queue' \in Seq(Entries) /\ Len(call_queue') <= CallCap
BY SeqTail DEF QueueType, Take

LEMMA CallAppend ==
    ASSUME QueueType, NEW entry \in Entries,
           \/ call_queue' = call_queue
           \/ Len(call_queue) < CallCap /\ call_queue' = Append(call_queue, entry)
    PROVE  call_queue' \in Seq(Entries) /\ Len(call_queue') <= CallCap
<1>1. call_queue \in Seq(Entries) /\ Len(call_queue) <= CallCap /\ Len(call_queue) \in Nat
  BY DEF QueueType
<1>2. Append(call_queue, entry) \in Seq(Entries) /\ Len(Append(call_queue, entry)) = Len(call_queue) + 1
  BY <1>1, SeqAppend
<1>3. QED
  BY <1>1, <1>2

LEMMA OpcodeAppend ==
    ASSUME QueueType, NEW c, NEW opcode \in Opcodes, NEW point, OpcodeQueueAdd(c, opcode, point)
    PROVE  /\ opcode_queue' \in Seq(Opcodes) /\ Len(opcode_queue') <= OpcodeCap
           /\ opcodes_finished' \in BOOLEAN
<1>1. opcode_queue \in Seq(Opcodes) /\ Len(opcode_queue) <= OpcodeCap /\ Len(opcode_queue) \in Nat
  BY DEF QueueType
<1>2. /\ Append(opcode_queue, opcode) \in Seq(Opcodes)
      /\ Len(Append(opcode_queue, opcode)) = Len(opcode_queue) + 1
  BY <1>1, SeqAppend
<1>3. CASE Len(opcode_queue) < OpcodeCap
  <2>1. opcode_queue' = Append(opcode_queue, opcode) /\ opcodes_finished' \in BOOLEAN
    BY <1>3 DEF OpcodeQueueAdd
  <2>2. QED
    BY <1>1, <1>2, <1>3, <2>1
<1>4. CASE ~(Len(opcode_queue) < OpcodeCap)
  BY <1>1, <1>4 DEF OpcodeQueueAdd
<1>5. QED
  BY <1>3, <1>4

LEMMA HeldWhilePushing ==
    ASSUME ControlType, NEW c \in Cores, At(c, "push")
    PROVE  held[c] \in Opcodes
<1>1. held \in [Cores -> Opcodes \cup {NoOpcode}] /\ held[c] # NoOpcode
  BY DEF ControlType, At
<1>2. QED
  BY <1>1

LEMMA QueuePop ==
    ASSUME QueueType, NEW c, PopOpcode(c)
    PROVE  QueueType'
<1>1. opcode_queue' \in Seq(Opcodes) /\ Len(opcode_queue') <= OpcodeCap
  <2>1. CASE opcode_queue = <<>>
    BY <2>1 DEF PopOpcode, QueueType
  <2>2. CASE opcode_queue # <<>>
    <3>1. opcode_queue' = Tail(opcode_queue)
      BY <2>2 DEF PopOpcode
    <3>2. QED
      BY <2>2, <3>1, SeqTail DEF QueueType
  <2>3. QED
    BY <2>1, <2>2
<1>2. QED
  BY <1>1 DEF PopOpcode, QueueType, test

LEMMA QueuePush ==
    ASSUME QueueType, ControlType, NEW c \in Cores, PushCall(c)
    PROVE  QueueType'
<1>1. held[c] \in Entries
  BY HeldWhilePushing, NamesApart DEF PushCall
<1>2. call_queue' \in Seq(Entries) /\ Len(call_queue') <= CallCap
  BY <1>1, CallAppend DEF PushCall
<1>3. QED
  BY <1>2 DEF PushCall, QueueType, test

LEMMA QueueNextCore1 ==
    ASSUME ChipType, QueueType, ControlType, Core1
    PROVE  QueueType'
<1> USE NamesApart DEF QueueType, test
<1>1. CASE \E opcode \in Opcodes : BuildOpcode(opcode)
  BY <1>1, CallTail DEF BuildOpcode
<1>2. CASE OpcodeWrite
  BY <1>2 DEF OpcodeWrite, queues
<1>3. CASE RunOther \/ RunTestResponse
  BY <1>3, CallTail DEF RunOther, RunTestResponse
<1>4. CASE RunPdMsgResponse
  BY <1>4, CallTail, OpcodeAppend DEF RunPdMsgResponse, SendOpcode
<1>5. CASE RunParse
  BY <1>5, CallTail DEF RunParse
<1>6. CASE OnResponse
  BY <1>6 DEF OnResponse, queues, ChipType
<1>7. CASE Responded
  BY <1>7 DEF Responded
<1>8. CASE OnPdMsg
  <2>1. call_queue' \in Seq(Entries) /\ Len(call_queue') <= CallCap
    BY <1>8, CallAppend DEF OnPdMsg
  <2>2. QED
    BY <1>8, <2>1 DEF OnPdMsg
<1>9. CASE OnChgType
  BY <1>9 DEF OnChgType, queues
<1>10. CASE OnCcStat
  BY <1>10, OpcodeAppend DEF OnCcStat, OnCcStatChange, SendOpcode
<1>11. CASE PopOpcode("core1") \/ PushCall("core1")
  BY <1>11, QueuePop, QueuePush DEF Cores
<1>12. QED
  BY <1>1, <1>2, <1>3, <1>4, <1>5, <1>6, <1>7, <1>8, <1>9, <1>10, <1>11 DEF Core1

LEMMA QueueNextCore0 ==
    ASSUME QueueType, ControlType, Placed, Core0
    PROVE  QueueType'
<1> USE NamesApart DEF QueueType, test
<1>1. CASE \/ ClearInterrupts \/ ClearInterruptsRead \/ InitPop \/ TestWait \/ InitCcStat \/ TestRegister
           \/ TestMask \/ TestMaskSend \/ TestStart \/ TestDrive \/ TestUnmask
  BY <1>1 DEF ClearInterrupts, ClearInterruptsRead, InitPop, TestWait, InitCcStat, TestRegister,
              TestMask, TestMaskSend, TestStart, TestDrive, TestUnmask, queues
<1>2. CASE InitAdd
  <2>1. Head(todo) \in Opcodes /\ Tail(todo) \in Seq(Tasks)
    BY <1>2, SeqTail DEF InitAdd, OpcodeIsNext, Tasks
  <2>2. QED
    BY <1>2, <2>1, OpcodeAppend DEF InitAdd
<1>3. CASE Boot
  BY <1>3, TestsType DEF Boot, queues
<1>4. CASE TestSend
  <2>1. Head(todo) \in Opcodes
    BY <1>4, SeqTail DEF TestSend, OpcodeIsNext, Tasks
  <2>2. QED
    BY <1>4, <2>1, OpcodeAppend DEF TestSend, SendOpcode
<1>5. CASE TestCompare \/ TestRegisterRead
  <2>1. todo # <<>>
    BY <1>5 DEF TestCompare, TestRegisterRead, ReadsBetween, At, Placed
  <2>2. QED
    BY <1>5, <2>1, SeqTail DEF TestCompare, TestRegisterRead, queues
<1>6. CASE InitCcStatRead
  BY <1>6, OpcodeAppend DEF InitCcStatRead, OnCcStatChange, SendOpcode
<1>7. CASE PopOpcode("core0") \/ PushCall("core0")
  BY <1>7, QueuePop, QueuePush DEF Cores
<1>8. CASE TestRelease
  BY <1>8 DEF TestRelease, queues
<1>9. CASE TestUnmaskSend
  BY <1>9, LastReadsType DEF TestUnmaskSend, queues
<1>10. QED
  BY <1>1, <1>2, <1>3, <1>4, <1>5, <1>6, <1>7, <1>8, <1>9 DEF Core0

LEMMA QueueNext ==
    ASSUME ChipType, QueueType, ControlType, Placed, [Next]_vars
    PROVE  QueueType'
<1> USE NamesApart DEF QueueType, test
<1>1. CASE \/ Respond
           \/ \E kind \in EventKinds, new \in {"none", "sink", "source"} : CcChange(kind, new)
           \/ \E message \in {"swap_to_sink", "swap_to_source", "other"} : PdMessage(message)
           \/ UNCHANGED vars
  BY <1>1 DEF Respond, CcChange, PdMessage, queues, vars
<1>2. CASE OnInterrupt
  <2>1. call_queue' \in Seq(Entries) /\ Len(call_queue') <= CallCap
    BY <1>2, CallAppend DEF OnInterrupt, CallQueueTryAdd
  <2>2. QED
    BY <1>2, <2>1 DEF OnInterrupt, Started
<1>3. CASE OtherInterrupt
  <2>1. call_queue' \in Seq(Entries) /\ Len(call_queue') <= CallCap
    BY <1>3, CallAppend DEF OtherInterrupt, CallQueueTryAdd
  <2>2. QED
    BY <1>3, <2>1 DEF OtherInterrupt
<1>4. CASE OnInterruptRespond
  <2>1. call_queue' \in Seq(Entries) /\ Len(call_queue') <= CallCap
    BY <1>4, CallAppend DEF OnInterruptRespond, CallQueueTryAdd
  <2>2. QED
    BY <1>4, <2>1 DEF OnInterruptRespond
<1>5. QED
  BY <1>1, <1>2, <1>3, <1>4, QueueNextCore0, QueueNextCore1 DEF Next

-----------------------------------------------------------------------------
(* Where the cores are *)

Located == ControlType /\ Placed

LEMMA LocatedInit == Init => Located
<1>1. SUFFICES ASSUME Init PROVE Located
  OBVIOUS
<1>2. /\ pc \in [Cores -> Points] /\ after \in [Cores -> Points]
      /\ held = [c \in Cores |-> NoOpcode]
  BY <1>1 DEF Init, Points
<1>3. QED
  BY <1>1, <1>2 DEF Init, Located, ControlType, Placed, Points0, Points1, Bits, Cores

(* Core 1 goes on with the bits left. *)
LEMMA HandleLocated ==
    ASSUME Located, NEW left \in SUBSET Bits, Handle(left)
    PROVE  /\ bits' = left /\ send_buf' = send_buf
           /\ \E point \in {"idle", "response", "pd", "chgtype", "cc"} : Goto("core1", point)
BY DEF Handle, HandlerOrder

(* What Located says of pc, after and todo, and of held and send_buf.      *)
LEMMA LocatedParts ==
    ASSUME pc' \in [Cores -> Points], after' \in [Cores -> Points],
           held' \in [Cores -> Opcodes \cup {NoOpcode}], send_buf' \in Opcodes \cup {NoOpcode},
           bits' \in SUBSET Bits, clobbered' \in BOOLEAN,
           \A c \in Cores : /\ pc'[c] = "push" => held'[c] # NoOpcode
                            /\ held'[c] # NoOpcode => pc'[c] \in {"push", "halted"},
           send_buf' # NoOpcode => pc'["core1"] = "write",
           Placed'
    PROVE  Located'
BY DEF Located, ControlType

LEMMA Returns ==
    ASSUME Located, NEW c \in Cores, NEW result \in BOOLEAN, PopReturns(c, result),
           pc[c] \in {"pop", "push"}, held'[c] = NoOpcode,
           held' \in [Cores -> Opcodes \cup {NoOpcode}],
           \A d \in Cores \ {c} : held'[d] = held[d],
           UNCHANGED <<clobbered, todo>>
    PROVE  Located'
<1>1. CASE c = "core0"
  <2>1. /\ pc' = [pc EXCEPT !["core0"] = after["core0"]]
        /\ after' = [after EXCEPT !["core0"] = "idle"]
        /\ UNCHANGED <<send_buf, bits>>
    BY <1>1 DEF PopReturns, Goto, Located, Placed
  <2>2. after["core0"] \in {"cc", "boot", "wait"}
    BY <1>1 DEF Located, Placed
  <2>3. pc' \in [Cores -> Points] /\ after' \in [Cores -> Points]
    BY <2>1, <2>2 DEF Located, ControlType, Points
  <2>4. Placed'
    BY <1>1, <2>1, <2>2 DEF Located, ControlType, Placed, Points0, Cores
  <2>5. QED
    BY <1>1, <2>1, <2>2, <2>3, <2>4, LocatedParts DEF Located, ControlType, Cores
<1>2. CASE c = "core1"
  <2>1. /\ \E point \in {"idle", "responded", "response", "pd", "chgtype", "cc"} :
               pc' = [pc EXCEPT !["core1"] = point]
        /\ after' = [after EXCEPT !["core1"] = "idle"]
        /\ UNCHANGED <<send_buf, bits>>
    <3>1. bits \in SUBSET Bits /\ after["core1"] \in {"idle", "responded"}
      BY DEF Located, ControlType, Placed
    <3>2. after' = [after EXCEPT !["core1"] = "idle"]
      BY <1>2 DEF PopReturns
    <3>3. CASE after["core1"] = "responded" /\ result /\ Handle(bits)
      BY <3>1, <3>2, <3>3, HandleLocated DEF Goto
    <3>4. CASE Goto("core1", after["core1"]) /\ UNCHANGED <<send_buf, bits>>
      BY <3>1, <3>2, <3>4 DEF Goto
    <3>5. QED
      BY <1>2, <3>3, <3>4 DEF PopReturns
  <2>2. PICK point \in {"idle", "responded", "response", "pd", "chgtype", "cc"} :
            pc' = [pc EXCEPT !["core1"] = point]
    BY <2>1
  <2>5. point \in Points /\ point \in Points1 /\ point # "write" /\ "idle" \in Points
    BY DEF Points, Points1
  <2>6. pc' \in [Cores -> Points] /\ after' \in [Cores -> Points]
    BY <2>1, <2>2, <2>5 DEF Located, ControlType
  <2>3. Placed'
    <3>2. pc'["core0"] = pc["core0"] /\ pc'["core1"] = point
      BY <2>2 DEF Located, ControlType, Cores
    <3>3. after'["core0"] = after["core0"] /\ after'["core1"] = "idle"
      BY <2>1 DEF Located, ControlType, Cores
    <3>4. todo' = todo
      OBVIOUS
    <3>5. QED
      BY <2>5, <3>2, <3>3, <3>4 DEF Located, Placed
  <2>4. QED
    BY <1>2, <2>1, <2>2, <2>3, <2>6, LocatedParts DEF Located, ControlType, Cores
<1>3. QED
  BY <1>1, <1>2 DEF Cores

LEMMA LocatedPop ==
    ASSUME Located, QueueType, NEW c \in Cores, PopOpcode(c)
    PROVE  Located'
<1>1. CASE opcode_queue = <<>>
  <2>1. pc[c] = "pop" /\ PopReturns(c, FALSE) /\ UNCHANGED <<held, clobbered, todo>>
    BY <1>1 DEF PopOpcode, At
  <2>2. held[c] = NoOpcode /\ held \in [Cores -> Opcodes \cup {NoOpcode}]
    BY <2>1 DEF Located, ControlType
  <2>3. QED
    BY <2>1, <2>2, Returns
<1>2. CASE opcode_queue # <<>>
  <2>1. /\ pc[c] = "pop" /\ pc' = [pc EXCEPT ![c] = "push"]
        /\ held' = [held EXCEPT ![c] = Head(opcode_queue)]
        /\ UNCHANGED <<after, send_buf, bits, clobbered, todo>>
    BY <1>2 DEF PopOpcode, At, Goto
  <2>2. Head(opcode_queue) \in Opcodes /\ Head(opcode_queue) # NoOpcode
    BY <1>2, SeqTail, NamesApart DEF QueueType
  <2>3. pc' \in [Cores -> Points] /\ held' \in [Cores -> Opcodes \cup {NoOpcode}]
    BY <2>1, <2>2 DEF Located, ControlType, Points
  <2>4. Placed'
    BY <2>1 DEF Located, ControlType, Placed, Points0, Points1, Cores
  <2>5. QED
    BY <2>1, <2>2, <2>3, <2>4, LocatedParts DEF Located, ControlType, Cores
<1>3. QED
  BY <1>1, <1>2

LEMMA LocatedPush ==
    ASSUME Located, QueueType, NEW c \in Cores, PushCall(c)
    PROVE  Located'
<1>1. /\ pc[c] = "push" /\ held' = [held EXCEPT ![c] = NoOpcode]
      /\ UNCHANGED <<clobbered, todo>>
      /\ PopReturns(c, TRUE) \/ PopReturns(c, FALSE)
  BY DEF PushCall, At
<1>2. held \in [Cores -> Opcodes \cup {NoOpcode}]
  BY DEF Located, ControlType
<1>3. QED
  BY <1>1, <1>2, Returns

(* A core that moves neither to nor from between the two queues. *)
LEMMA LocatedMove ==
    ASSUME Located, NEW c \in Cores, NEW point \in Points, pc' = [pc EXCEPT ![c] = point],
           point # "push", pc[c] \notin {"push", "halted"} \/ point = "halted",
           UNCHANGED held, after' \in [Cores -> Points],
           send_buf' \in Opcodes \cup {NoOpcode}, send_buf' # NoOpcode => pc'["core1"] = "write",
           bits' \in SUBSET Bits, clobbered' \in BOOLEAN, Placed'
    PROVE  Located'
<1>1. pc' \in [Cores -> Points]
  BY DEF Located, ControlType
<1>2. \A d \in Cores : /\ pc'[d] = "push" => held'[d] # NoOpcode
                       /\ held'[d] # NoOpcode => pc'[d] \in {"push", "halted"}
  BY DEF Located, ControlType
<1>3. QED
  BY <1>1, <1>2, LocatedParts DEF Located, ControlType

LEMMA LocatedElsewhere ==
    ASSUME Located, UNCHANGED <<pc, after, held, send_buf, bits, clobbered, todo>>
    PROVE  Located'
BY DEF Located, ControlType, Placed

(* A full call_queue stops core 0, wherever it is. *)
LEMMA LocatedInterrupt ==
    ASSUME Located, NEW entry, CallQueueTryAdd(entry),
           UNCHANGED <<after, held, send_buf, bits, clobbered, todo>>
    PROVE  Located'
<1>1. CASE UNCHANGED pc
  BY <1>1, LocatedElsewhere
<1>2. CASE pc' = [pc EXCEPT !["core0"] = "halted"]
  <2>1. Placed'
    BY <1>2 DEF Located, ControlType, Placed, Points0, Cores
  <2>2. QED
    BY <1>2, <2>1, LocatedMove DEF Located, ControlType, Points, Cores
<1>3. QED
  BY <1>1, <1>2 DEF CallQueueTryAdd, Goto

LEMMA AddMoves ==
    ASSUME NEW c, NEW opcode, NEW point, OpcodeQueueAdd(c, opcode, point)
    PROVE  \E p \in {point, "halted"} : pc' = [pc EXCEPT ![c] = p]
BY DEF OpcodeQueueAdd, Goto

LEMMA UseType ==
    ASSUME ControlType, Use \/ UseByCore0 \/ UseSendBuf
    PROVE  clobbered' \in BOOLEAN /\ (clobbered => clobbered')
BY DEF ControlType, Use, UseByCore0, UseSendBuf

LEMMA LocatedCore1 ==
    ASSUME Located, ChipType, QueueType, Core1
    PROVE  Located'
<1> USE DEF Located, ControlType, Placed, Points1, Cores
<1>0. ControlType
  OBVIOUS
<1>1. ASSUME NEW opcode \in Opcodes, BuildOpcode(opcode) PROVE Located'
  <2>1. /\ pc' = [pc EXCEPT !["core1"] = "write"] /\ pc["core1"] = "idle" /\ send_buf' = opcode
        /\ UNCHANGED <<after, held, bits, todo>> /\ clobbered' \in BOOLEAN
    BY <1>1, UseType DEF BuildOpcode, Take, At, Goto
  <2>2. Placed' /\ pc'["core1"] = "write"
    BY <2>1, NamesApart
  <2> HIDE DEF Placed
  <2>3. QED
    BY <2>1, <2>2, LocatedMove DEF Points
<1>2. CASE OpcodeWrite
  <2>1. /\ pc' = [pc EXCEPT !["core1"] = "idle"] /\ pc["core1"] = "write" /\ send_buf' = NoOpcode
        /\ UNCHANGED <<after, held, bits, todo>> /\ clobbered' \in BOOLEAN
    BY <1>2, UseType DEF OpcodeWrite, At, Goto
  <2>2. Placed'
    BY <2>1
  <2> HIDE DEF Placed
  <2>3. QED
    BY <2>1, <2>2, LocatedMove DEF Points
<1>3. CASE RunOther \/ RunTestResponse
  BY <1>3, LocatedElsewhere DEF RunOther, RunTestResponse, control, buffers
<1>4. CASE RunPdMsgResponse \/ OnCcStat
  <2>1. /\ \E p \in {"idle", "pop", "halted"} : pc' = [pc EXCEPT !["core1"] = p]
        /\ after' = after \/ after' = [after EXCEPT !["core1"] = "idle"]
        /\ pc["core1"] \in {"idle", "cc"}
        /\ UNCHANGED <<held, send_buf, todo>> /\ clobbered' \in BOOLEAN
        /\ bits' \in SUBSET Bits
    BY <1>4, UseType, AddMoves DEF RunPdMsgResponse, OnCcStat, OnCcStatChange, SendOpcode, Take, At, Goto
  <2>2. PICK p \in {"idle", "pop", "halted"} : pc' = [pc EXCEPT !["core1"] = p]
    BY <2>1
  <2>3. Placed' /\ after' \in [Cores -> Points] /\ send_buf = NoOpcode
    BY <2>1, <2>2 DEF Points
  <2> HIDE DEF Placed
  <2>4. QED
    BY <2>1, <2>2, <2>3, LocatedMove DEF Points
<1>5. CASE RunParse \/ OnPdMsg \/ OnChgType \/ Responded
  <2>1. /\ \E p \in {"idle", "response", "pd", "chgtype", "cc", "halted"} :
               pc' = [pc EXCEPT !["core1"] = p]
        /\ pc["core1"] \in {"idle", "pd", "chgtype", "responded"}
        /\ UNCHANGED <<after, held, send_buf, todo>> /\ clobbered' \in BOOLEAN
        /\ bits' \in SUBSET Bits
    <3>1. CASE RunParse
      BY <1>0, <3>1, UseType, HandleLocated DEF RunParse, Take, At, Goto, ChipType
    <3>2. CASE OnPdMsg
      <4>1. bits \ {"pd"} \in SUBSET Bits
        OBVIOUS
      <4>2. QED
        BY <3>2, <4>1, HandleLocated DEF OnPdMsg, At, Goto
    <3>3. CASE OnChgType
      BY <1>0, <3>3, UseType, HandleLocated DEF OnChgType, At, Goto
    <3>4. CASE Responded
      BY <3>4, HandleLocated DEF Responded, At, Goto
    <3>5. QED
      BY <1>5, <3>1, <3>2, <3>3, <3>4
  <2>2. PICK p \in {"idle", "response", "pd", "chgtype", "cc", "halted"} :
            pc' = [pc EXCEPT !["core1"] = p]
    BY <2>1
  <2>3. Placed' /\ send_buf = NoOpcode
    BY <2>1, <2>2
  <2> HIDE DEF Placed
  <2>4. QED
    BY <2>1, <2>2, <2>3, LocatedMove DEF Points
<1>6. CASE OnResponse
  <2>1. /\ pc' = [pc EXCEPT !["core1"] = "pop"] /\ pc["core1"] = "response"
        /\ after' = [after EXCEPT !["core1"] = "responded"]
        /\ UNCHANGED <<held, send_buf, todo>> /\ bits' \in SUBSET Bits /\ clobbered' \in BOOLEAN
    BY <1>6, UseType DEF OnResponse, At, Goto
  <2>2. Placed' /\ send_buf = NoOpcode /\ after' \in [Cores -> Points]
    BY <2>1 DEF Points
  <2> HIDE DEF Placed
  <2>3. QED
    BY <2>1, <2>2, LocatedMove DEF Points
<1>7. CASE PopOpcode("core1") \/ PushCall("core1")
  BY <1>7, LocatedPop, LocatedPush
<1>8. QED
  BY <1>1, <1>2, <1>3, <1>4, <1>5, <1>6, <1>7 DEF Core1

LEMMA LocatedCore0 ==
    ASSUME Located, QueueType, Core0
    PROVE  Located'
<1> USE DEF Located, ControlType, Placed, Points0, Cores
<1>0. ControlType
  OBVIOUS
<1>1. CASE ClearInterrupts \/ InitCcStat \/ TestMask \/ TestUnmask
  <2>1. /\ \E p \in {"clear_read", "cc_read", "mask_send", "unmask_send"} : pc' = [pc EXCEPT !["core0"] = p]
        /\ pc["core0"] \in {"clear", "cc", "test", "unmask"}
        /\ UNCHANGED <<after, held, bits>> /\ clobbered' \in BOOLEAN
        /\ send_buf' = send_buf \/ send_buf' = NoOpcode
        /\ pc["core1"] = "write" => clobbered'
    BY <1>0, <1>1, UseType
    DEF ClearInterrupts, InitCcStat, TestMask, TestUnmask, UseByCore0, UseSendBuf, At, Goto
  <2>2. PICK p \in {"clear_read", "cc_read", "mask_send", "unmask_send"} : pc' = [pc EXCEPT !["core0"] = p]
    BY <2>1
  <2>3. Placed' /\ pc'["core1"] = pc["core1"]
    BY <2>1, <2>2
  <2> HIDE DEF Placed
  <2>4. QED
    BY <2>1, <2>2, <2>3, LocatedMove DEF Points
<1>2. CASE InitAdd
  <2>1. /\ \E p \in {"init", "halted"} : pc' = [pc EXCEPT !["core0"] = p]
        /\ pc["core0"] = "init"
        /\ UNCHANGED <<after, held, send_buf, bits, clobbered>>
    BY <1>2, AddMoves DEF InitAdd, At, buffers
  <2>2. PICK p \in {"init", "halted"} : pc' = [pc EXCEPT !["core0"] = p]
    BY <2>1
  <2>3. Placed' /\ pc'["core1"] = pc["core1"]
    BY <2>1, <2>2
  <2> HIDE DEF Placed
  <2>4. QED
    BY <2>1, <2>2, <2>3, LocatedMove DEF Points
<1>3. CASE InitPop
  <2>1. /\ pc' = [pc EXCEPT !["core0"] = "pop"] /\ pc["core0"] = "init"
        /\ after' = [after EXCEPT !["core0"] = "cc"]
        /\ UNCHANGED <<held, send_buf, bits, clobbered, todo>>
    BY <1>3 DEF InitPop, At, Goto, buffers
  <2>2. Placed' /\ pc'["core1"] = pc["core1"] /\ after' \in [Cores -> Points]
    BY <2>1 DEF Points
  <2> HIDE DEF Placed
  <2>3. QED
    BY <2>1, <2>2, LocatedMove DEF Points
<1>4. CASE \/ ClearInterruptsRead \/ Boot \/ TestCompare \/ TestRegisterRead \/ TestMaskSend \/ TestStart
           \/ TestDrive \/ TestRelease \/ TestUnmaskSend
  <2>1. /\ \E p \in {"init", "test", "last", "start", "drive", "driven", "unmask"} :
               pc' = [pc EXCEPT !["core0"] = p]
        /\ pc["core0"] \in {"clear_read", "boot", "compare", "register_read", "last_read", "mask_send",
                            "start", "drive", "driven", "unmask_send"}
        /\ UNCHANGED <<after, held, send_buf, bits, clobbered>>
    BY <1>4 DEF ClearInterruptsRead, Boot, TestCompare, TestRegisterRead, ReadsBetween, TestMaskSend,
                TestStart, TestDrive, TestRelease, TestUnmaskSend, At, Goto, buffers
  <2>2. PICK p \in {"init", "test", "last", "start", "drive", "driven", "unmask"} :
               pc' = [pc EXCEPT !["core0"] = p]
    BY <2>1
  <2>3. Placed' /\ pc'["core1"] = pc["core1"]
    BY <2>1, <2>2
  <2>4. p \in Points /\ p \notin {"push", "response", "pd", "chgtype", "cc", "pop"}
    BY <2>2 DEF Points
  <2>5. pc["core0"] \notin {"push", "pop"}
    BY <2>1
  <2> HIDE DEF Placed
  <2>6. QED
    BY <2>1, <2>2, <2>3, <2>4, <2>5, LocatedMove
<1>5. CASE TestSend
  <2>1. /\ \E p \in {"pop", "halted"} : pc' = [pc EXCEPT !["core0"] = p]
        /\ pc["core0"] = "test" /\ todo # <<>>
        /\ after' = [after EXCEPT !["core0"] = "wait"]
        /\ UNCHANGED <<held, send_buf, bits, clobbered, todo>>
    BY <1>5, AddMoves DEF TestSend, OpcodeIsNext, SendOpcode, At, buffers
  <2>2. PICK p \in {"pop", "halted"} : pc' = [pc EXCEPT !["core0"] = p]
    BY <2>1
  <2>3. Placed' /\ pc'["core1"] = pc["core1"] /\ after' \in [Cores -> Points]
    BY <2>1, <2>2 DEF Points
  <2> HIDE DEF Placed
  <2>4. QED
    BY <2>1, <2>2, <2>3, LocatedMove DEF Points
<1>6. CASE TestWait
  <2>1. /\ pc' = [pc EXCEPT !["core0"] = "compare"] /\ pc["core0"] = "wait"
        /\ UNCHANGED <<after, held, send_buf, bits, clobbered, todo>>
    BY <1>6 DEF TestWait, At, Goto, buffers
  <2>2. Placed' /\ pc'["core1"] = pc["core1"]
    BY <2>1
  <2> HIDE DEF Placed
  <2>3. QED
    BY <2>1, <2>2, LocatedMove DEF Points
<1>7. CASE InitCcStatRead
  <2>1. /\ \E p \in {"boot", "pop", "halted"} :
               /\ pc' = [pc EXCEPT !["core0"] = p]
               /\ p = "pop" => after' = [after EXCEPT !["core0"] = "boot"]
        /\ pc["core0"] = "cc_read"
        /\ after' = after \/ after' = [after EXCEPT !["core0"] = "boot"]
        /\ UNCHANGED <<held, send_buf, bits, clobbered, todo>>
    BY <1>7, AddMoves DEF InitCcStatRead, OnCcStatChange, SendOpcode, At, Goto, buffers
  <2>2. PICK p \in {"boot", "pop", "halted"} :
            /\ pc' = [pc EXCEPT !["core0"] = p]
            /\ p = "pop" => after' = [after EXCEPT !["core0"] = "boot"]
    BY <2>1
  <2>3. Placed' /\ pc'["core1"] = pc["core1"] /\ after' \in [Cores -> Points]
    BY <2>1, <2>2 DEF Points
  <2> HIDE DEF Placed
  <2>4. QED
    BY <2>1, <2>2, <2>3, LocatedMove DEF Points
<1>8. CASE PopOpcode("core0") \/ PushCall("core0")
  BY <1>8, LocatedPop, LocatedPush
<1>9. CASE TestRegister
  <2>0. \/ pc["core0"] = "test" /\ pc' = [pc EXCEPT !["core0"] = "register_read"]
        \/ pc["core0"] = "last" /\ pc' = [pc EXCEPT !["core0"] = "last_read"]
    <3>1. PICK read \in ReadsBetween : At("core0", read[1]) /\ Goto("core0", read[2])
      BY <1>9 DEF TestRegister
    <3>2. CASE read = <<"test", "register_read">>
      BY <3>1, <3>2 DEF At, Goto
    <3>3. CASE read = <<"last", "last_read">>
      BY <3>1, <3>3 DEF At, Goto
    <3>4. QED
      BY <3>2, <3>3 DEF ReadsBetween
  <2>1. /\ \E p \in {"register_read", "last_read"} : pc' = [pc EXCEPT !["core0"] = p]
        /\ pc["core0"] \in {"test", "last"} /\ todo # <<>>
        /\ UNCHANGED <<after, held, bits, todo>> /\ clobbered' \in BOOLEAN
        /\ send_buf' = NoOpcode
        /\ pc["core1"] = "write" => clobbered'
    <3>1. /\ todo # <<>> /\ UNCHANGED <<after, held, bits, todo>> /\ send_buf' = NoOpcode
          /\ UseByCore0
      BY <1>9 DEF TestRegister, RegisterIsNext
    <3>2. clobbered' \in BOOLEAN /\ (pc["core1"] = "write" => clobbered')
      BY <1>0, <3>1, UseType DEF UseByCore0
    <3>3. QED
      BY <2>0, <3>1, <3>2
  <2>2. PICK p \in {"register_read", "last_read"} : pc' = [pc EXCEPT !["core0"] = p]
    BY <2>1
  <2>3. Placed' /\ pc'["core1"] = pc["core1"]
    BY <2>1, <2>2
  <2> HIDE DEF Placed
  <2>4. QED
    BY <2>1, <2>2, <2>3, LocatedMove DEF Points
<1>10. QED
  BY <1>1, <1>2, <1>3, <1>4, <1>5, <1>6, <1>7, <1>8, <1>9 DEF Core0

LEMMA LocatedNext ==
    ASSUME Located, ChipType, QueueType, [Next]_vars
    PROVE  Located'
<1>1. CASE OnInterrupt
  BY <1>1, LocatedInterrupt DEF OnInterrupt, buffers
<1>2. CASE OtherInterrupt \/ OnInterruptRespond
  BY <1>2, LocatedInterrupt DEF OtherInterrupt, OnInterruptRespond, buffers
<1>3. CASE \/ Respond
           \/ \E kind \in EventKinds, new \in {"none", "sink", "source"} : CcChange(kind, new)
           \/ \E message \in {"swap_to_sink", "swap_to_source", "other"} : PdMessage(message)
           \/ UNCHANGED vars
  BY <1>3, LocatedElsewhere DEF Respond, CcChange, PdMessage, control, buffers, vars
<1>4. QED
  BY <1>1, <1>2, <1>3, LocatedCore0, LocatedCore1 DEF Next

LEMMA TypedInit == Init => Typed
BY ChipInit, QueueInit, LocatedInit, TypeParts DEF Typed, Located

LEMMA TypedNext == Typed /\ [Next]_vars => Typed'
<1>1. SUFFICES ASSUME Typed, [Next]_vars PROVE Typed'
  OBVIOUS
<1>2. ChipType /\ QueueType /\ ControlType /\ Placed /\ Located
  BY <1>1, TypeParts DEF Typed, Located
<1>3. ChipType' /\ QueueType' /\ Located'
  BY <1>1, <1>2, ChipNext, QueueNext, LocatedNext
<1>4. QED
  BY <1>3, TypePartsNext DEF Typed, Located

LEMMA TypedAlways == Spec => []Typed
BY TypedInit, TypedNext, PTL DEF Spec

(* For queues of any size and any self-tests, neither queue is written     *)
(* beyond its end, and what a core carries from one to the other is an     *)
(* opcode of its own, whichever of the two cores pops meanwhile.           *)
THEOREM TypeCorrect == Spec => []TypeOK
BY TypedAlways, PTL DEF Typed

-----------------------------------------------------------------------------
(* No opcode is lost *)

(* Where an opcode may wait, one place at a time.                          *)
Held(c, opcode) == IF held[c] = opcode THEN 1 ELSE 0
Built(opcode) == IF send_buf = opcode THEN 1 ELSE 0
Queued(opcode) == Occurrences(opcode, opcode_queue)
Called(opcode) == Occurrences(opcode, call_queue)

LEMMA WaitingSum ==
    \A opcode : TypeOK =>
        /\ Queued(opcode) \in Nat /\ Called(opcode) \in Nat
        /\ Held("core0", opcode) \in {0, 1} /\ Held("core1", opcode) \in {0, 1}
        /\ Built(opcode) \in {0, 1}
        /\ Waiting(opcode) = Queued(opcode) + Held("core0", opcode) + Held("core1", opcode)
                              + Called(opcode) + Built(opcode)
<1>1. SUFFICES ASSUME NEW opcode, TypeOK
      PROVE  /\ Queued(opcode) \in Nat /\ Called(opcode) \in Nat
             /\ Held("core0", opcode) \in {0, 1} /\ Held("core1", opcode) \in {0, 1}
             /\ Built(opcode) \in {0, 1}
             /\ Waiting(opcode) = Queued(opcode) + Held("core0", opcode) + Held("core1", opcode)
                                   + Called(opcode) + Built(opcode)
  OBVIOUS
<1> DEFINE carrying == {c \in Cores : held[c] = opcode}
<1>2. opcode_queue \in Seq(Opcodes) /\ call_queue \in Seq(Entries)
  BY <1>1 DEF TypeOK
<1>3. Queued(opcode) \in Nat /\ Called(opcode) \in Nat
  BY <1>2, OccurrencesNat DEF Queued, Called
<1>4. Held("core0", opcode) \in {0, 1} /\ Held("core1", opcode) \in {0, 1} /\ Built(opcode) \in {0, 1}
  BY DEF Held, Built
<1>5. Cardinality(carrying) = Held("core0", opcode) + Held("core1", opcode)
  <2>1. IsFiniteSet({}) /\ Cardinality({}) = 0
    BY FS_EmptySet
  <2>2. /\ IsFiniteSet({"core0"}) /\ Cardinality({"core0"}) = 1
        /\ IsFiniteSet({"core1"}) /\ Cardinality({"core1"}) = 1
    BY FS_Singleton
  <2>3. Cardinality({"core0"} \cup {"core1"}) = 2
    BY <2>2, FS_AddElement
  <2>4. CASE held["core0"] = opcode /\ held["core1"] = opcode
    <3>1. carrying = {"core0"} \cup {"core1"}
      BY <2>4 DEF Cores
    <3>2. QED
      BY <2>3, <2>4, <3>1 DEF Held
  <2>5. CASE held["core0"] = opcode /\ held["core1"] # opcode
    <3>1. carrying = {"core0"}
      BY <2>5 DEF Cores
    <3>2. QED
      BY <2>2, <2>5, <3>1 DEF Held
  <2>6. CASE held["core0"] # opcode /\ held["core1"] = opcode
    <3>1. carrying = {"core1"}
      BY <2>6 DEF Cores
    <3>2. QED
      BY <2>2, <2>6, <3>1 DEF Held
  <2>7. CASE held["core0"] # opcode /\ held["core1"] # opcode
    <3>1. carrying = {}
      BY <2>7 DEF Cores
    <3>2. QED
      BY <2>1, <2>7, <3>1 DEF Held
  <2>8. QED
    BY <2>4, <2>5, <2>6, <2>7
<1>6. Waiting(opcode) = Queued(opcode) + Cardinality(carrying) + Called(opcode) + Built(opcode)
  BY DEF Waiting, Queued, Called, Built, Occurrences
<1> HIDE DEF carrying
<1>7. QED
  BY <1>3, <1>4, <1>5, <1>6

LEMMA WaitingSumNext ==
    (\A opcode : TypeOK =>
        /\ Queued(opcode) \in Nat /\ Called(opcode) \in Nat
        /\ Held("core0", opcode) \in {0, 1} /\ Held("core1", opcode) \in {0, 1}
        /\ Built(opcode) \in {0, 1}
        /\ Waiting(opcode) = Queued(opcode) + Held("core0", opcode) + Held("core1", opcode)
                              + Called(opcode) + Built(opcode))'
BY WaitingSum, PTL

(* What OpcodesKept says of one opcode in one step. *)
Kept(opcode) ==
    \/ Waiting(opcode)' = Waiting(opcode)
    \/ Waiting(opcode)' = Waiting(opcode) + 1 /\ Len(opcode_queue') > Len(opcode_queue)
    \/ Waiting(opcode)' = Waiting(opcode) - 1 /\ Writes(opcode)
    \/ Len(call_queue) = CallCap /\ UNCHANGED <<call_queue, opcode_queue>>
    \/ Waiting(opcode)' = Waiting(opcode) - 1 /\ Overwritten(opcode)

LEMMA CalledAppend ==
    ASSUME TypeOK, NEW entry \in Entries, call_queue' = Append(call_queue, entry), NEW opcode
    PROVE  Called(opcode)' = Called(opcode) + (IF entry = opcode THEN 1 ELSE 0)
<1>1. call_queue \in Seq(Entries)
  BY DEF TypeOK
<1>2. QED
  BY <1>1, OccurrencesAppend DEF Called

LEMMA CalledTake ==
    ASSUME TypeOK, NEW entry, Take(entry), NEW opcode
    PROVE  Called(opcode) = Called(opcode)' + (IF entry = opcode THEN 1 ELSE 0)
<1>1. /\ call_queue \in Seq(Entries) /\ call_queue # <<>>
      /\ call_queue' = Tail(call_queue) /\ Head(call_queue) = entry
  BY DEF TypeOK, Take
<1>2. Occurrences(opcode, call_queue)
        = Occurrences(opcode, Tail(call_queue)) + (IF Head(call_queue) = opcode THEN 1 ELSE 0)
  BY <1>1, OccurrencesTail
<1>3. QED
  BY <1>1, <1>2 DEF Called

LEMMA QueuedAdd ==
    ASSUME TypeOK, NEW c, NEW added \in Opcodes, NEW point, OpcodeQueueAdd(c, added, point), NEW opcode
    PROVE  \/ Queued(opcode)' = Queued(opcode)
           \/ Queued(opcode)' = Queued(opcode) + 1 /\ Len(opcode_queue') > Len(opcode_queue)
<1>1. opcode_queue \in Seq(Opcodes) /\ Len(opcode_queue) \in Nat
  BY DEF TypeOK
<1>2. CASE opcode_queue' = Append(opcode_queue, added)
  <2>1. Queued(opcode)' = Queued(opcode) + (IF added = opcode THEN 1 ELSE 0)
    BY <1>1, <1>2, OccurrencesAppend DEF Queued
  <2>2. Len(opcode_queue') = Len(opcode_queue) + 1
    BY <1>1, <1>2, SeqAppend
  <2>3. Queued(opcode) \in Nat
    BY WaitingSum
  <2>4. QED
    BY <1>1, <2>1, <2>2, <2>3
<1>3. CASE opcode_queue' = opcode_queue
  BY <1>3 DEF Queued
<1>4. QED
  BY <1>2, <1>3 DEF OpcodeQueueAdd

LEMMA QueuedTail ==
    ASSUME TypeOK, opcode_queue # <<>>, opcode_queue' = Tail(opcode_queue), NEW opcode
    PROVE  Queued(opcode) = Queued(opcode)' + (IF Head(opcode_queue) = opcode THEN 1 ELSE 0)
<1>1. opcode_queue \in Seq(Opcodes)
  BY DEF TypeOK
<1>2. Occurrences(opcode, opcode_queue)
        = Occurrences(opcode, Tail(opcode_queue)) + (IF Head(opcode_queue) = opcode THEN 1 ELSE 0)
  BY <1>1, OccurrencesTail
<1>3. QED
  BY <1>2 DEF Queued

(* An opcode that is at most added to opcode_queue. *)
LEMMA KeptOrAdded ==
    ASSUME TypeOK, TypeOK', NEW opcode, Called(opcode)' = Called(opcode), UNCHANGED <<held, send_buf>>,
           \/ Queued(opcode)' = Queued(opcode)
           \/ Queued(opcode)' = Queued(opcode) + 1 /\ Len(opcode_queue') > Len(opcode_queue)
    PROVE  Kept(opcode)
<1>1. /\ Held("core0", opcode)' = Held("core0", opcode) /\ Held("core1", opcode)' = Held("core1", opcode)
      /\ Built(opcode)' = Built(opcode)
  BY DEF Held, Built
<1>2. QED
  BY <1>1, WaitingSum, WaitingSumNext DEF Kept

LEMMA KeptElsewhere ==
    ASSUME TypeOK, TypeOK', NEW opcode, UNCHANGED <<call_queue, opcode_queue, held, send_buf>>
    PROVE  Kept(opcode)
<1>1. Called(opcode)' = Called(opcode) /\ Queued(opcode)' = Queued(opcode)
  BY DEF Called, Queued
<1>2. QED
  BY <1>1, KeptOrAdded

(* An entry that is no opcode comes or goes. *)
LEMMA KeptOther ==
    ASSUME TypeOK, TypeOK', NEW opcode \in Opcodes, NEW entry \in {"parse", "pd_msg", "test_response", "other"},
           \/ Take(entry)
           \/ call_queue' = Append(call_queue, entry)
           \/ call_queue' = call_queue
    PROVE  Called(opcode)' = Called(opcode)
<1>1. entry \in Entries /\ entry # opcode
  BY NamesApart
<1>2. Called(opcode) \in Nat /\ Called(opcode)' \in Nat
  BY WaitingSum, WaitingSumNext
<1>3. CASE Take(entry)
  BY <1>1, <1>2, <1>3, CalledTake
<1>4. CASE call_queue' = Append(call_queue, entry)
  BY <1>1, <1>2, <1>4, CalledAppend
<1>5. CASE call_queue' = call_queue
  BY <1>5 DEF Called
<1>6. QED
  BY <1>3, <1>4, <1>5

LEMMA KeptPop ==
    ASSUME TypeOK, TypeOK', NEW opcode \in Opcodes, NEW c \in Cores, PopOpcode(c)
    PROVE  Kept(opcode)
<1>0. UNCHANGED <<call_queue, send_buf>>
  <2>1. bits \in SUBSET Bits
    BY DEF TypeOK, Bits
  <2>2. QED
    BY <2>1 DEF PopOpcode, PopReturns, Handle
<1>1. CASE opcode_queue = <<>>
  BY <1>0, <1>1, KeptElsewhere DEF PopOpcode
<1>2. CASE opcode_queue # <<>>
  <2>1. /\ opcode_queue' = Tail(opcode_queue) /\ held' = [held EXCEPT ![c] = Head(opcode_queue)]
        /\ pc[c] = "pop"
    BY <1>2 DEF PopOpcode, At
  <2>2. held \in [Cores -> Opcodes \cup {NoOpcode}] /\ held[c] # opcode
    BY <2>1, NamesApart DEF TypeOK
  <2>3. Queued(opcode) = Queued(opcode)' + (IF Head(opcode_queue) = opcode THEN 1 ELSE 0)
    BY <1>2, <2>1, QueuedTail
  <2>4. Called(opcode)' = Called(opcode) /\ Built(opcode)' = Built(opcode)
    BY <1>0 DEF Called, Built
  <2>5. Held("core0", opcode)' + Held("core1", opcode)'
          = Held("core0", opcode) + Held("core1", opcode) + (IF Head(opcode_queue) = opcode THEN 1 ELSE 0)
    BY <2>1, <2>2 DEF Held, Cores
  <2>6. QED
    BY <2>3, <2>4, <2>5, WaitingSum, WaitingSumNext DEF Kept
<1>3. QED
  BY <1>1, <1>2

LEMMA KeptPush ==
    ASSUME TypeOK, TypeOK', NEW opcode \in Opcodes, NEW c \in Cores, PushCall(c)
    PROVE  Kept(opcode)
<1>1. /\ pc[c] = "push" /\ held' = [held EXCEPT ![c] = NoOpcode] /\ UNCHANGED <<opcode_queue, send_buf>>
  BY DEF PushCall, PopReturns, Handle, At
<1>2. held[c] \in Opcodes /\ held \in [Cores -> Opcodes \cup {NoOpcode}]
  BY <1>1 DEF TypeOK
<1>3. CASE Len(call_queue) = CallCap /\ UNCHANGED call_queue
  BY <1>1, <1>3 DEF Kept
<1>4. CASE call_queue' = Append(call_queue, held[c])
  <2>1. Called(opcode)' = Called(opcode) + (IF held[c] = opcode THEN 1 ELSE 0)
    BY <1>2, <1>4, CalledAppend, NamesApart
  <2>2. Queued(opcode)' = Queued(opcode) /\ Built(opcode)' = Built(opcode)
    BY <1>1 DEF Queued, Built
  <2>3. Held("core0", opcode)' + Held("core1", opcode)' + (IF held[c] = opcode THEN 1 ELSE 0)
          = Held("core0", opcode) + Held("core1", opcode)
    BY <1>1, <1>2, NamesApart DEF Held, Cores
  <2>4. QED
    BY <2>1, <2>2, <2>3, WaitingSum, WaitingSumNext DEF Kept
<1>5. QED
  BY <1>3, <1>4 DEF PushCall

LEMMA KeptBuild ==
    ASSUME TypeOK, TypeOK', NEW opcode \in Opcodes, NEW built \in Opcodes, BuildOpcode(built)
    PROVE  Kept(opcode)
<1>1. /\ Take(built) /\ send_buf' = built /\ send_buf = NoOpcode
      /\ UNCHANGED <<opcode_queue, held>>
  BY DEF BuildOpcode, Take, At, TypeOK
<1>2. Called(opcode) = Called(opcode)' + (IF built = opcode THEN 1 ELSE 0)
  BY <1>1, CalledTake
<1>3. Built(opcode)' = Built(opcode) + (IF built = opcode THEN 1 ELSE 0)
  BY <1>1, NamesApart DEF Built
<1>4. /\ Queued(opcode)' = Queued(opcode)
      /\ Held("core0", opcode)' = Held("core0", opcode) /\ Held("core1", opcode)' = Held("core1", opcode)
  BY <1>1 DEF Queued, Held
<1>5. QED
  BY <1>2, <1>3, <1>4, WaitingSum, WaitingSumNext DEF Kept

LEMMA KeptWrite ==
    ASSUME TypeOK, TypeOK', NEW opcode \in Opcodes, OpcodeWrite
    PROVE  Kept(opcode)
<1>1. /\ send_buf' = NoOpcode /\ executing' = Append(executing, send_buf)
      /\ UNCHANGED <<call_queue, opcode_queue, held>>
  BY DEF OpcodeWrite, queues
<1>2. /\ Queued(opcode)' = Queued(opcode) /\ Called(opcode)' = Called(opcode)
      /\ Held("core0", opcode)' = Held("core0", opcode) /\ Held("core1", opcode)' = Held("core1", opcode)
  BY <1>1 DEF Queued, Called, Held
<1>3. Built(opcode)' = 0 /\ Built(opcode) = IF send_buf = opcode THEN 1 ELSE 0
  BY <1>1, NamesApart DEF Built
<1>4. CASE send_buf = opcode
  <2>1. Waiting(opcode)' = Waiting(opcode) - 1
    BY <1>2, <1>3, <1>4, WaitingSum, WaitingSumNext
  <2>2. Writes(opcode)
    BY <1>1, <1>4 DEF Writes
  <2>3. QED
    BY <2>1, <2>2 DEF Kept
<1>5. CASE send_buf # opcode
  BY <1>2, <1>3, <1>5, WaitingSum, WaitingSumNext DEF Kept
<1>6. QED
  BY <1>4, <1>5

(* Core 0 builds a transfer of its own. *)
LEMMA KeptOverwrite ==
    ASSUME TypeOK, TypeOK', NEW opcode \in Opcodes, send_buf' = NoOpcode,
           pc'["core1"] = pc["core1"], UNCHANGED <<call_queue, opcode_queue, held>>
    PROVE  Kept(opcode)
<1>1. /\ Queued(opcode)' = Queued(opcode) /\ Called(opcode)' = Called(opcode)
      /\ Held("core0", opcode)' = Held("core0", opcode) /\ Held("core1", opcode)' = Held("core1", opcode)
  BY DEF Queued, Called, Held
<1>2. Built(opcode)' = 0 /\ Built(opcode) = IF send_buf = opcode THEN 1 ELSE 0
  BY NamesApart DEF Built
<1>3. CASE send_buf = opcode
  <2>1. Waiting(opcode)' = Waiting(opcode) - 1
    BY <1>1, <1>2, <1>3, WaitingSum, WaitingSumNext
  <2>2. pc["core1"] = "write"
    BY <1>3, NamesApart DEF TypeOK
  <2>3. Overwritten(opcode)
    BY <1>3, <2>2 DEF Overwritten
  <2>4. QED
    BY <2>1, <2>3 DEF Kept
<1>4. CASE send_buf # opcode
  BY <1>1, <1>2, <1>4, WaitingSum, WaitingSumNext DEF Kept
<1>5. QED
  BY <1>3, <1>4

LEMMA KeptNext ==
    ASSUME TypeOK, TypeOK', NEW opcode \in Opcodes, [Next]_vars
    PROVE  Kept(opcode)
<1>1. CASE OnInterrupt
  <2>1. Called(opcode)' = Called(opcode) /\ Queued(opcode)' = Queued(opcode)
    BY <1>1, KeptOther DEF OnInterrupt, CallQueueTryAdd, Queued
  <2>2. QED
    BY <1>1, <2>1, KeptOrAdded DEF OnInterrupt, buffers
<1>2. CASE OtherInterrupt \/ OnInterruptRespond
  <2>1. Called(opcode)' = Called(opcode) /\ Queued(opcode)' = Queued(opcode)
    BY <1>2, KeptOther DEF OtherInterrupt, OnInterruptRespond, CallQueueTryAdd, Queued
  <2>2. QED
    BY <1>2, <2>1, KeptOrAdded DEF OtherInterrupt, OnInterruptRespond, buffers
<1>3. CASE OnPdMsg \/ RunOther \/ RunTestResponse \/ RunParse
  <2>1. Called(opcode)' = Called(opcode) /\ Queued(opcode)' = Queued(opcode)
    BY <1>3, KeptOther DEF OnPdMsg, RunOther, RunTestResponse, RunParse, Queued
  <2>2. UNCHANGED <<held, send_buf>>
    BY <1>3 DEF OnPdMsg, RunOther, RunTestResponse, RunParse, Handle, control, buffers
  <2>3. QED
    BY <2>1, <2>2, KeptOrAdded
<1>4. CASE RunPdMsgResponse
  <2>1. Called(opcode)' = Called(opcode)
    BY <1>4, KeptOther DEF RunPdMsgResponse
  <2>2. \/ Queued(opcode)' = Queued(opcode)
        \/ Queued(opcode)' = Queued(opcode) + 1 /\ Len(opcode_queue') > Len(opcode_queue)
    BY <1>4, QueuedAdd, NamesApart DEF RunPdMsgResponse, SendOpcode, Queued
  <2>3. QED
    BY <1>4, <2>1, <2>2, KeptOrAdded DEF RunPdMsgResponse
<1>5. CASE OnCcStat \/ InitCcStatRead \/ InitAdd \/ TestSend
  <2>1. Called(opcode)' = Called(opcode) /\ UNCHANGED <<held, send_buf>>
    BY <1>5 DEF OnCcStat, InitCcStatRead, InitAdd, TestSend, Called, buffers
  <2>2. \/ Queued(opcode)' = Queued(opcode)
        \/ Queued(opcode)' = Queued(opcode) + 1 /\ Len(opcode_queue') > Len(opcode_queue)
    <3>1. CASE OnCcStat \/ InitCcStatRead
      BY <3>1, QueuedAdd, NamesApart DEF OnCcStat, InitCcStatRead, OnCcStatChange, SendOpcode, Queued
    <3>2. CASE InitAdd \/ TestSend
      <4>1. Head(todo) \in Opcodes
        BY <3>2, SeqTail DEF InitAdd, TestSend, OpcodeIsNext, TypeOK
      <4>2. QED
        BY <3>2, <4>1, QueuedAdd DEF InitAdd, TestSend, SendOpcode
    <3>3. QED
      BY <1>5, <3>1, <3>2
  <2>3. QED
    BY <2>1, <2>2, KeptOrAdded
<1>6. CASE \E c \in Cores : PopOpcode(c) \/ PushCall(c)
  BY <1>6, KeptPop, KeptPush
<1>7. CASE OpcodeWrite \/ \E built \in Opcodes : BuildOpcode(built)
  BY <1>7, KeptWrite, KeptBuild
<1>8. CASE ClearInterrupts \/ InitCcStat \/ TestRegister \/ TestMask \/ TestUnmask
  <2>1. send_buf' = NoOpcode /\ UNCHANGED <<call_queue, opcode_queue, held>>
    BY <1>8 DEF ClearInterrupts, InitCcStat, TestRegister, TestMask, TestUnmask, queues
  <2>2. \E point : Goto("core0", point)
    BY <1>8 DEF ClearInterrupts, InitCcStat, TestRegister, TestMask, TestUnmask
  <2>3. pc'["core1"] = pc["core1"]
    BY <2>2 DEF Goto, TypeOK, Cores
  <2>4. QED
    BY <2>1, <2>3, KeptOverwrite
<1>9. CASE \/ Respond
           \/ \E kind \in EventKinds, new \in {"none", "sink", "source"} : CcChange(kind, new)
           \/ \E message \in {"swap_to_sink", "swap_to_source", "other"} : PdMessage(message)
           \/ UNCHANGED vars
  BY <1>9, KeptElsewhere DEF Respond, CcChange, PdMessage, queues, control, buffers, vars
<1>10. CASE OnResponse \/ Responded \/ OnChgType
  BY <1>10, KeptElsewhere DEF OnResponse, Responded, OnChgType, Handle, queues
<1>11. CASE \/ ClearInterruptsRead \/ InitPop \/ Boot \/ TestWait \/ TestCompare \/ TestRegisterRead
           \/ TestMaskSend \/ TestStart \/ TestDrive \/ TestRelease \/ TestUnmaskSend
  BY <1>11, KeptElsewhere
  DEF ClearInterruptsRead, InitPop, Boot, TestWait, TestCompare, TestRegisterRead, TestMaskSend,
      TestStart, TestDrive, TestRelease, TestUnmaskSend, queues, buffers
<1>12. QED
  BY <1>1, <1>2, <1>3, <1>4, <1>5, <1>6, <1>7, <1>8, <1>9, <1>10, <1>11
  DEF Next, Core0, Core1, Cores

(* An opcode once queued stays queued until it is written to the chip,     *)
(* once, whatever the cores and the handler do in between, for any number  *)
(* of opcodes, tests and events; the two exceptions are a pop that meets a *)
(* full call_queue and a command that core 0 overwrites in send_buf.       *)
THEOREM OpcodesKeptAlways == Spec => OpcodesKept
<1>1. TypeOK /\ TypeOK' /\ [Next]_vars
        => [\A opcode \in Opcodes :
              \/ Waiting(opcode)' = Waiting(opcode)
              \/ Waiting(opcode)' = Waiting(opcode) + 1 /\ Len(opcode_queue') > Len(opcode_queue)
              \/ Waiting(opcode)' = Waiting(opcode) - 1 /\ Writes(opcode)
              \/ Len(call_queue) = CallCap /\ UNCHANGED <<call_queue, opcode_queue>>
              \/ Waiting(opcode)' = Waiting(opcode) - 1 /\ Overwritten(opcode) ]_vars
  BY KeptNext DEF Kept
<1>2. QED
  BY <1>1, TypeCorrect, PTL DEF Spec, OpcodesKept

-----------------------------------------------------------------------------
(* How far call_queue can fill.  It is first in, first out, so the entries *)
(* behind one are those that came while what was ahead of it was run; p    *)
(* and d count the readings ("parse") and the PD messages along it.        *)

One(condition) == IF condition THEN 1 ELSE 0

Marks(q, p, d) ==
    /\ q \in Seq(Entries)
    /\ p \in [0 .. Len(q) -> Int] /\ d \in [0 .. Len(q) -> Int]
    /\ \A i \in 1 .. Len(q) : /\ p[i] = p[i - 1] + One(q[i] = "parse")
                              /\ d[i] = d[i - 1] + One(q[i] = "pd_msg")

(* A reading appends a PD message and at most three other entries, two of  *)
(* its own and the next of core 0's tests, which it lets go on; a PD       *)
(* message appends one.  Behind every entry, what is there and what is yet *)
(* to come from what is ahead is within bounds.                            *)
Balanced(q, p, d, edges, message, coming, room) ==
    /\ p[Len(q)] - p[0] <= edges
    /\ \A i \in 1 .. Len(q) : d[Len(q)] - d[i] + (p[i - 1] - p[0]) + message <= 5
    /\ \A i \in 1 .. Len(q) :
           (Len(q) - i) - (p[Len(q)] - p[i]) + 3 * (p[i - 1] - p[0]) + (d[i - 1] - d[0]) + coming <= room

LEMMA OneIs == \A x \in BOOLEAN : One(x) \in {0, 1} /\ (x => One(x) = 1) /\ (~x => One(x) = 0)
BY DEF One

(* What an entry adds to the two counts. *)
Adds(e, x, y) == e \in Entries /\ x = One(e = "parse") /\ y = One(e = "pd_msg")

LEMMA AppendBalanced ==
    ASSUME NEW q, NEW e, NEW x, NEW y, Adds(e, x, y), NEW p, NEW d, Marks(q, p, d),
           NEW g \in Int, NEW b \in Int, NEW c \in Int, NEW m \in Int, Balanced(q, p, d, g, b, c, m),
           NEW g2 \in Int, NEW b2 \in Int, NEW c2 \in Int, NEW m2 \in Int,
           b >= 0, g <= 4, b2 <= 1, c2 <= 8, m2 >= 26,
           x + g <= g2,
           y + b2 <= b,
           1 - x + (c2 - m2) <= c - m
    PROVE  \E p2, d2 : /\ Marks(Append(q, e), p2, d2)
                       /\ Balanced(Append(q, e), p2, d2, g2, b2, c2, m2)
<1> DEFINE n == Len(q)
           r == Append(q, e)
           p2 == [i \in 0 .. n + 1 |-> IF i <= n THEN p[i] ELSE p[n] + x]
           d2 == [i \in 0 .. n + 1 |-> IF i <= n THEN d[i] ELSE d[n] + y]
<1>1. n \in Nat /\ Len(r) = n + 1 /\ r[n + 1] = e /\ \A i \in 1 .. n : r[i] = q[i]
  BY DEF Marks, Adds
<1>2. x \in {0, 1} /\ y \in {0, 1}
  BY OneIs DEF Adds
<1>0. x \in Int /\ y \in Int /\ n \in Int
  BY <1>1, <1>2
<1>3. /\ p \in [0 .. n -> Int] /\ d \in [0 .. n -> Int]
      /\ \A i \in 1 .. n : /\ p[i] = p[i - 1] + One(q[i] = "parse")
                           /\ d[i] = d[i - 1] + One(q[i] = "pd_msg")
  BY DEF Marks
<1>4. /\ p[n] - p[0] <= g
      /\ \A i \in 1 .. n : d[n] - d[i] + (p[i - 1] - p[0]) + b <= 5
      /\ \A i \in 1 .. n : (n - i) - (p[n] - p[i]) + 3 * (p[i - 1] - p[0]) + (d[i - 1] - d[0]) + c <= m
  BY DEF Balanced
<1>5. x + g <= g2 /\ y + b2 <= b /\ 1 - x + (c2 - m2) <= c - m
  OBVIOUS
<1>6. d[n] - d[0] <= 6
  <2>1. CASE n = 0
    BY <1>3, <2>1
  <2>2. CASE n # 0
    <3>1. 1 \in 1 .. n /\ 0 \in 0 .. n /\ 1 \in 0 .. n /\ n \in 0 .. n /\ 1 - 1 = 0
      BY <1>1, <2>2
    <3>2. d[n] - d[1] + (p[1 - 1] - p[0]) + b <= 5 /\ d[1] = d[1 - 1] + One(q[1] = "pd_msg")
      BY <1>3, <1>4, <3>1
    <3>3. One(q[1] = "pd_msg") \in {0, 1}
      BY OneIs
    <3>4. d[0] \in Int /\ d[1] \in Int /\ d[n] \in Int /\ p[0] \in Int
      BY <1>3, <3>1
    <3>5. PICK z \in {0, 1} : z = One(q[1] = "pd_msg")
      BY <3>3
    <3>6. d[n] - d[1] + (p[0] - p[0]) + b <= 5 /\ d[1] = d[0] + z
      BY <3>1, <3>2, <3>5
    <3> HIDE DEF n
    <3> QED
      BY <3>4, <3>6
  <2> QED
    BY <2>1, <2>2
<1> HIDE DEF n, r
<1>7. /\ p2 \in [0 .. n + 1 -> Int] /\ d2 \in [0 .. n + 1 -> Int]
      /\ \A i \in 0 .. n : p2[i] = p[i] /\ d2[i] = d[i]
      /\ p2[n + 1] = p[n] + x /\ d2[n + 1] = d[n] + y
  <2>1. n \in 0 .. n /\ p[n] + x \in Int /\ d[n] + y \in Int
    BY <1>1, <1>2, <1>3
  <2>2. \A i \in 0 .. n + 1 : i <= n => p[i] \in Int /\ d[i] \in Int
    BY <1>1, <1>3
  <2>3. n + 1 \in 0 .. n + 1 /\ ~(n + 1 <= n) /\ \A i \in 0 .. n : i \in 0 .. n + 1 /\ i <= n
    BY <1>1
  <2> QED
    BY <2>1, <2>2, <2>3
<1> HIDE DEF p2, d2
<1>8. \A i \in 1 .. n + 1 : i \in 1 .. n \/ i = n + 1
  BY <1>1
<1>9. \A i \in 1 .. n + 1 : i - 1 \in 0 .. n
  BY <1>1
<1>13. r \in Seq(Entries)
  BY DEF Marks, Adds, r
<1>10. Marks(r, p2, d2)
  <2>1. ASSUME NEW i \in 1 .. n + 1
        PROVE  p2[i] = p2[i - 1] + One(r[i] = "parse") /\ d2[i] = d2[i - 1] + One(r[i] = "pd_msg")
    <3>1. CASE i \in 1 .. n
      <4>1. i - 1 \in 0 .. n /\ i \in 0 .. n
        BY <1>1, <3>1
      <4> QED
        BY <1>1, <1>3, <1>7, <3>1, <4>1
    <3>2. CASE i = n + 1
      <4>1. i - 1 = n /\ n \in 0 .. n
        BY <1>1, <3>2
      <4> QED
        BY <1>1, <1>7, <3>2, <4>1 DEF Adds
    <3> QED
      BY <1>8, <2>1, <3>1, <3>2
  <2> QED
    BY <1>1, <1>7, <1>13, <2>1 DEF Marks
<1>11. 0 \in 0 .. n /\ n \in 0 .. n /\ p[0] \in Int /\ p[n] \in Int /\ d[0] \in Int /\ d[n] \in Int
  BY <1>1, <1>3
<1>12. Balanced(r, p2, d2, g2, b2, c2, m2)
  <2>1. p2[n + 1] - p2[0] <= g2
    <3>1. p2[n + 1] = p[n] + x /\ p2[0] = p[0] /\ p[n] - p[0] <= g
      BY <1>4, <1>7, <1>11
    <3> QED
      BY <1>0, <1>5, <1>11, <3>1
  <2>2. ASSUME NEW i \in 1 .. n + 1
        PROVE  /\ d2[n + 1] - d2[i] + (p2[i - 1] - p2[0]) + b2 <= 5
               /\ (n + 1 - i) - (p2[n + 1] - p2[i]) + 3 * (p2[i - 1] - p2[0])
                     + (d2[i - 1] - d2[0]) + c2 <= m2
    <3>1. CASE i \in 1 .. n
      <4>1. i - 1 \in 0 .. n /\ i \in 0 .. n
        BY <1>1, <3>1
      <4>2. p[i] \in Int /\ p[i - 1] \in Int /\ d[i] \in Int /\ d[i - 1] \in Int /\ i \in Int
        BY <1>3, <4>1
      <4>3. /\ d[n] - d[i] + (p[i - 1] - p[0]) + b <= 5
            /\ (n - i) - (p[n] - p[i]) + 3 * (p[i - 1] - p[0]) + (d[i - 1] - d[0]) + c <= m
        BY <1>4, <3>1
      <4>4. /\ p2[i] = p[i] /\ p2[i - 1] = p[i - 1] /\ d2[i] = d[i] /\ d2[i - 1] = d[i - 1]
            /\ p2[0] = p[0] /\ d2[0] = d[0]
        BY <1>7, <1>11, <4>1
      <4>7. p2[n + 1] = p[n] + x /\ d2[n + 1] = d[n] + y
        BY <1>7
      <4>5. d[n] + y - d[i] + (p[i - 1] - p[0]) + b2 <= 5
        BY <1>0, <1>5, <1>11, <4>2, <4>3
      <4>6. (n + 1 - i) - (p[n] + x - p[i]) + 3 * (p[i - 1] - p[0]) + (d[i - 1] - d[0]) + c2 <= m2
        BY <1>0, <1>5, <1>11, <4>2, <4>3
      <4>8. d2[n + 1] - d2[i] + (p2[i - 1] - p2[0]) + b2 <= 5
        BY <1>0, <1>11, <4>2, <4>4, <4>5, <4>7
      <4>9. (n + 1 - i) - (p2[n + 1] - p2[i]) + 3 * (p2[i - 1] - p2[0]) + (d2[i - 1] - d2[0]) + c2 <= m2
        BY <1>0, <1>11, <4>2, <4>4, <4>6, <4>7
      <4> QED
        BY <4>8, <4>9
    <3>2. CASE i = n + 1
      <4>1. i - 1 = n
        BY <1>1, <3>2
      <4>2. /\ p2[i] = p[n] + x /\ p2[i - 1] = p[n] /\ d2[i] = d[n] + y /\ d2[i - 1] = d[n]
            /\ p2[0] = p[0] /\ d2[0] = d[0]
        BY <1>7, <1>11, <3>2, <4>1
      <4>3. p[n] - p[0] <= 4
        <5>1. p[n] - p[0] <= g /\ p[n] - p[0] \in Int
          BY <1>4, <1>11
        <5> QED
          BY <5>1
      <4>4. d[n] + y - (d[n] + y) + (p[n] - p[0]) + b2 <= 5
        BY <1>0, <1>11, <4>3
      <4>5. (n + 1 - (n + 1)) - (p[n] + x - (p[n] + x)) + 3 * (p[n] - p[0]) + (d[n] - d[0]) + c2 <= m2
        BY <1>0, <1>6, <1>11, <4>3
      <4>6. p2[n + 1] = p[n] + x /\ d2[n + 1] = d[n] + y
        BY <1>7
      <4>7. d2[n + 1] - d2[i] + (p2[i - 1] - p2[0]) + b2 <= 5
        BY <1>0, <1>11, <4>2, <4>4, <4>6
      <4>8. (n + 1 - i) - (p2[n + 1] - p2[i]) + 3 * (p2[i - 1] - p2[0]) + (d2[i - 1] - d2[0]) + c2 <= m2
        BY <1>0, <1>11, <3>2, <4>2, <4>5, <4>6
      <4> QED
        BY <4>7, <4>8
    <3> QED
      BY <1>8, <2>2, <3>1, <3>2
  <2> QED
    BY <1>1, <2>1, <2>2 DEF Balanced
<1> QED
  BY <1>10, <1>12 DEF r

Begins(q, x, y) == q # <<>> /\ Adds(Head(q), x, y)

LEMMA TailBalanced ==
    ASSUME NEW q, NEW x, NEW y, Begins(q, x, y), NEW p, NEW d, Marks(q, p, d),
           NEW g \in Int, NEW b \in Int, NEW c \in Int, NEW m \in Int, Balanced(q, p, d, g, b, c, m),
           NEW g2 \in Int, NEW b2 \in Int, NEW c2 \in Int, NEW m2 \in Int,
           g - x <= g2,
           b2 <= b + x,
           c2 - m2 <= c - m + 3 * x + y
    PROVE  \E p2, d2 : Marks(Tail(q), p2, d2) /\ Balanced(Tail(q), p2, d2, g2, b2, c2, m2)
<1> DEFINE n == Len(q) - 1
           r == Tail(q)
           p2 == [i \in 0 .. n |-> p[i + 1]]
           d2 == [i \in 0 .. n |-> d[i + 1]]
<1>1. n \in Nat /\ Len(q) = n + 1 /\ Len(r) = n /\ q[1] = Head(q) /\ \A i \in 1 .. n : r[i] = q[i + 1]
  BY DEF Marks, Begins
<1>2. x \in {0, 1} /\ y \in {0, 1} /\ x = One(Head(q) = "parse") /\ y = One(Head(q) = "pd_msg")
  BY OneIs DEF Begins, Adds
<1>0. x \in Int /\ y \in Int /\ n \in Int
  <2>1. x \in {0, 1} /\ y \in {0, 1} /\ n \in Nat
    BY <1>1, <1>2
  <2> QED
    BY <2>1
<1>3. /\ p \in [0 .. n + 1 -> Int] /\ d \in [0 .. n + 1 -> Int]
      /\ \A i \in 1 .. n + 1 : /\ p[i] = p[i - 1] + One(q[i] = "parse")
                               /\ d[i] = d[i - 1] + One(q[i] = "pd_msg")
  BY <1>1 DEF Marks
<1>4. /\ p[n + 1] - p[0] <= g
      /\ \A i \in 1 .. n + 1 : d[n + 1] - d[i] + (p[i - 1] - p[0]) + b <= 5
      /\ \A i \in 1 .. n + 1 :
            (n + 1 - i) - (p[n + 1] - p[i]) + 3 * (p[i - 1] - p[0]) + (d[i - 1] - d[0]) + c <= m
  BY <1>1 DEF Balanced
<1>5. g - x <= g2 /\ b2 <= b + x /\ c2 - m2 <= c - m + 3 * x + y
  OBVIOUS
<1>6. 1 \in 1 .. n + 1 /\ 1 - 1 = 0 /\ 0 \in 0 .. n + 1 /\ n + 1 \in 0 .. n + 1 /\ 1 \in 0 .. n + 1
  BY <1>1
<1>7. p[1] = p[0] + x /\ d[1] = d[0] + y
  <2>1. p[1] = p[1 - 1] + One(q[1] = "parse") /\ d[1] = d[1 - 1] + One(q[1] = "pd_msg")
    BY <1>3, <1>6
  <2> QED
    BY <1>1, <1>2, <1>6, <2>1
<1> HIDE DEF n, r
<1>8. /\ p2 \in [0 .. n -> Int] /\ d2 \in [0 .. n -> Int]
      /\ \A i \in 0 .. n : p2[i] = p[i + 1] /\ d2[i] = d[i + 1]
  <2>1. \A i \in 0 .. n : i + 1 \in 0 .. n + 1
    BY <1>1
  <2> QED
    BY <1>3, <2>1
<1> HIDE DEF p2, d2
<1>9. /\ p2[0] = p[0] + x /\ d2[0] = d[0] + y /\ p2[n] = p[n + 1] /\ d2[n] = d[n + 1]
      /\ p[0] \in Int /\ d[0] \in Int /\ p[n + 1] \in Int /\ d[n + 1] \in Int
  <2>1. 0 \in 0 .. n /\ n \in 0 .. n /\ 0 + 1 = 1
    BY <1>1
  <2>2. p2[0] = p[0 + 1] /\ d2[0] = d[0 + 1] /\ p2[n] = p[n + 1] /\ d2[n] = d[n + 1]
    BY <1>8, <2>1
  <2> QED
    BY <1>3, <1>6, <1>7, <2>1, <2>2
<1>10. ASSUME NEW i \in 1 .. n
       PROVE  /\ i \in Int /\ i + 1 \in 1 .. n + 1
              /\ p2[i] = p[i + 1] /\ d2[i] = d[i + 1] /\ p2[i - 1] = p[i] /\ d2[i - 1] = d[i]
              /\ p[i] \in Int /\ d[i] \in Int /\ p[i + 1] \in Int /\ d[i + 1] \in Int
  <2>1. /\ i \in 0 .. n /\ i - 1 \in 0 .. n /\ i + 1 \in 1 .. n + 1 /\ i + 1 \in 0 .. n + 1
        /\ i \in 0 .. n + 1 /\ i - 1 + 1 = i
    BY <1>1
  <2>2. p2[i - 1] = p[i - 1 + 1] /\ d2[i - 1] = d[i - 1 + 1] /\ p2[i] = p[i + 1] /\ d2[i] = d[i + 1]
    BY <1>8, <2>1
  <2>3. p[i] \in Int /\ d[i] \in Int /\ p[i + 1] \in Int /\ d[i + 1] \in Int
    BY <1>3, <2>1
  <2>4. i \in Int
    OBVIOUS
  <2> QED
    BY <2>1, <2>2, <2>3, <2>4, Zenon
<1>13. r \in Seq(Entries)
  BY DEF Marks, Begins, r
<1>11. Marks(r, p2, d2)
  <2>1. ASSUME NEW i \in 1 .. n
        PROVE  p2[i] = p2[i - 1] + One(r[i] = "parse") /\ d2[i] = d2[i - 1] + One(r[i] = "pd_msg")
    <3>1. i + 1 - 1 = i
      BY <1>10
    <3>2. /\ p[i + 1] = p[i + 1 - 1] + One(q[i + 1] = "parse")
          /\ d[i + 1] = d[i + 1 - 1] + One(q[i + 1] = "pd_msg")
      BY <1>3, <1>10
    <3> QED
      BY <1>1, <1>10, <3>1, <3>2
  <2> QED
    BY <1>1, <1>8, <1>13, <2>1 DEF Marks
<1>12. Balanced(r, p2, d2, g2, b2, c2, m2)
  <2>1. p2[n] - p2[0] <= g2
    <3>1. p[n + 1] - p[0] <= g
      BY <1>4
    <3> QED
      BY <1>0, <1>5, <1>9, <3>1
  <2>2. ASSUME NEW i \in 1 .. n
        PROVE  /\ d2[n] - d2[i] + (p2[i - 1] - p2[0]) + b2 <= 5
               /\ (n - i) - (p2[n] - p2[i]) + 3 * (p2[i - 1] - p2[0]) + (d2[i - 1] - d2[0]) + c2 <= m2
    <3>1. i + 1 - 1 = i /\ n + 1 - (i + 1) = n - i
      BY <1>1, <1>10
    <3>2. /\ d[n + 1] - d[i + 1] + (p[i + 1 - 1] - p[0]) + b <= 5
          /\ (n + 1 - (i + 1)) - (p[n + 1] - p[i + 1]) + 3 * (p[i + 1 - 1] - p[0])
                + (d[i + 1 - 1] - d[0]) + c <= m
      BY <1>4, <1>10
    <3>3. /\ d[n + 1] - d[i + 1] + (p[i] - p[0]) + b <= 5
          /\ (n - i) - (p[n + 1] - p[i + 1]) + 3 * (p[i] - p[0]) + (d[i] - d[0]) + c <= m
      BY <3>1, <3>2
    <3>4. /\ i \in Int /\ p[i] \in Int /\ d[i] \in Int /\ p[i + 1] \in Int /\ d[i + 1] \in Int
          /\ p2[i] = p[i + 1] /\ d2[i] = d[i + 1] /\ p2[i - 1] = p[i] /\ d2[i - 1] = d[i]
      BY <1>10
    <3>7. /\ p[0] \in Int /\ d[0] \in Int /\ p[n + 1] \in Int /\ d[n + 1] \in Int
          /\ i \in Int /\ p[i] \in Int /\ d[i] \in Int /\ p[i + 1] \in Int /\ d[i + 1] \in Int
      BY <1>9, <3>4
    <3>5. d[n + 1] - d[i + 1] + (p[i] - (p[0] + x)) + b2 <= 5
      BY <1>0, <1>5, <3>3, <3>7
    <3>6. (n - i) - (p[n + 1] - p[i + 1]) + 3 * (p[i] - (p[0] + x)) + (d[i] - (d[0] + y)) + c2 <= m2
      BY <1>0, <1>5, <3>3, <3>7
    <3> QED
      BY <1>9, <3>4, <3>5, <3>6, Zenon
  <2> QED
    BY <1>1, <2>1, <2>2 DEF Balanced
<1> QED
  BY <1>11, <1>12 DEF r

LEMMA SameBalanced ==
    ASSUME NEW q, NEW p, NEW d, Marks(q, p, d),
           NEW g \in Int, NEW b \in Int, NEW c \in Int, NEW m \in Int, Balanced(q, p, d, g, b, c, m),
           NEW g2 \in Int, NEW b2 \in Int, NEW c2 \in Int, NEW m2 \in Int,
           g <= g2, b2 <= b, c2 - m2 <= c - m
    PROVE  Balanced(q, p, d, g2, b2, c2, m2)
<1> DEFINE n == Len(q)
<1>1. n \in Nat /\ p \in [0 .. n -> Int] /\ d \in [0 .. n -> Int]
  BY DEF Marks
<1>2. /\ p[n] - p[0] <= g
      /\ \A i \in 1 .. n : d[n] - d[i] + (p[i - 1] - p[0]) + b <= 5
      /\ \A i \in 1 .. n : (n - i) - (p[n] - p[i]) + 3 * (p[i - 1] - p[0]) + (d[i - 1] - d[0]) + c <= m
  BY DEF Balanced
<1> HIDE DEF n
<1>3. 0 \in 0 .. n /\ n \in 0 .. n /\ p[0] \in Int /\ p[n] \in Int /\ d[0] \in Int /\ d[n] \in Int
  BY <1>1
<1>4. p[n] - p[0] <= g2
  <2>1. p[n] - p[0] \in Int
    BY <1>3
  <2> QED
    BY <1>2, <2>1
<1>5. ASSUME NEW i \in 1 .. n
      PROVE  /\ d[n] - d[i] + (p[i - 1] - p[0]) + b2 <= 5
             /\ (n - i) - (p[n] - p[i]) + 3 * (p[i - 1] - p[0]) + (d[i - 1] - d[0]) + c2 <= m2
  <2>1. i - 1 \in 0 .. n /\ i \in 0 .. n
    BY <1>1
  <2>2. p[i] \in Int /\ p[i - 1] \in Int /\ d[i] \in Int /\ d[i - 1] \in Int /\ i \in Int
    BY <1>1, <2>1
  <2>3. /\ d[n] - d[i] + (p[i - 1] - p[0]) + b <= 5
        /\ (n - i) - (p[n] - p[i]) + 3 * (p[i - 1] - p[0]) + (d[i - 1] - d[0]) + c <= m
    BY <1>2
  <2>0. n \in Int
    BY <1>1
  <2>4. d[n] - d[i] + (p[i - 1] - p[0]) + b2 <= 5
    BY <2>0, <1>3, <2>2, <2>3
  <2>5. (n - i) - (p[n] - p[i]) + 3 * (p[i - 1] - p[0]) + (d[i - 1] - d[0]) + c2 <= m2
    BY <2>0, <1>3, <2>2, <2>3
  <2> QED
    BY <2>4, <2>5
<1> QED
  BY <1>4, <1>5 DEF n, Balanced

(* What is behind the first entry, and that entry.                         *)
LEMMA LengthBalanced ==
    ASSUME NEW q, NEW p, NEW d, Marks(q, p, d),
           NEW g \in Int, NEW b \in Int, NEW c \in Int, NEW m \in Int, Balanced(q, p, d, g, b, c, m),
           g <= 4, c >= 0, m >= 0
    PROVE  Len(q) <= m + 5
<1> DEFINE n == Len(q)
<1>1. n \in Nat
  BY DEF Marks
<1>2. CASE n = 0
  BY <1>2
<1>3. CASE n # 0
  <2>1. 1 \in 1 .. n /\ 0 \in 0 .. n /\ n \in 0 .. n /\ 1 \in 0 .. n /\ 1 - 1 = 0
    BY <1>1, <1>3
  <2>2. p[0] \in Int /\ p[1] \in Int /\ p[n] \in Int /\ d[0] \in Int
    BY <2>1 DEF Marks
  <2>3. p[1] = p[1 - 1] + One(q[1] = "parse") /\ p[n] - p[0] <= g
    BY <2>1 DEF Marks, Balanced
  <2>4. (n - 1) - (p[n] - p[1]) + 3 * (p[1 - 1] - p[0]) + (d[1 - 1] - d[0]) + c <= m
    BY <2>1 DEF Balanced
  <2>5. One(q[1] = "parse") \in {0, 1}
    BY OneIs
  <2> HIDE DEF n
  <2>6. PICK x \in {0, 1} : x = One(q[1] = "parse")
    BY <2>5
  <2>7. /\ (n - 1) - (p[n] - p[1]) + 3 * (p[0] - p[0]) + (d[0] - d[0]) + c <= m
        /\ p[1] = p[0] + x /\ p[n] - p[0] <= g
    BY <2>1, <2>3, <2>4, <2>6
  <2>8. n \in Int
    BY <1>1
  <2>9. n <= m + 5
    BY <2>2, <2>7, <2>8
  <2> QED
    BY <2>9 DEF n
<1> QED
  BY <1>2, <1>3
-----------------------------------------------------------------------------
(* What is yet to be appended *)

(* Core 0 queues two opcodes in max77958_init and then one test at a time. *)
FromCore0(point, return, finished) ==
    IF point \in {"clear", "clear_read", "init"} THEN 2
    ELSE IF point \in {"pop", "push"} THEN IF return = "cc" THEN 2 ELSE 1 + One(return = "wait" /\ finished)
    ELSE One(\/ point \in {"cc", "cc_read", "test", "register_read", "compare"}
             \/ point = "wait" /\ finished)

(* The interrupts of the driven pin, and one that was latched when the     *)
(* test began, are each followed by a test_response.                       *)
Responses(point, edge, due) ==
    One(due)
    + (IF point \in {"unmask", "unmask_send", "last", "last_read"} THEN 0
       ELSE IF point = "driven" THEN One(edge)
       ELSE IF point = "drive" THEN 1 + One(edge)
       ELSE 2)

Work(left) == One("response" \in left) + One("pd" \in left) + One("cc" \in left)
FromCore1(point, left) == One(point \in {"pop", "push", "responded"}) + Work(left)

Queueing0 == FromCore0(pc["core0"], after["core0"], opcodes_finished)
Responses0 == Responses(pc["core0"], irq, responding)
FromCore0Now == Queueing0 + Responses0
FromCore1Now == FromCore1(pc["core1"], bits)
Coming == FromCore0Now + FromCore1Now

(* Where core 0 has yet to read the bits *)
Clearing == {"clear", "clear_read"}

(* Each reading on the queue is a falling edge, and INTB falls once for    *)
(* each time the bits were read, by core 1 or, once, by core 0, once when  *)
(* core 0 drives it and once when the bits are no longer masked.           *)
Past(point) ==
    One(point \notin Clearing) + One(point \in {"driven", "unmask", "unmask_send", "last", "last_read"})
    + One(point \in {"last", "last_read"})
Edges == One(ints # {}) + Past(pc["core0"]) - One(irq)
Message == One("pd" \in bits)
Room == 26 + (IF "other" \in Events THEN events ELSE 0)

Balance == \E p, d : Marks(call_queue, p, d) /\ Balanced(call_queue, p, d, Edges, Message, Coming, Room)

(* Core 1 is where the bits it has left take it. *)
SteadyAt(point, return, left) ==
    /\ point \in {"idle", "write"} => left = {}
    /\ point \in {"pop", "push"} /\ return = "idle" => left = {}
    /\ point \in {"pop", "push", "responded"} => "response" \notin left
    /\ point \in {"response", "pd", "chgtype", "cc"} => point \in left
Steady == SteadyAt(pc["core1"], after["core1"], bits)

LEMMA WorkBounds ==
    ASSUME NEW left
    PROVE  Work(left) \in 0 .. 3 /\ ("response" \notin left => Work(left) \in 0 .. 2)
BY DEF Work, One

LEMMA FromCore1Bounds ==
    ASSUME NEW point, NEW return, NEW left, SteadyAt(point, return, left)
    PROVE  FromCore1(point, left) \in 0 .. 3
<1>1. CASE point \in {"pop", "push", "responded"}
  <2>1. One(point \in {"pop", "push", "responded"}) = 1
    BY <1>1 DEF One
  <2>2. Work(left) \in 0 .. 2
    BY <1>1, WorkBounds DEF SteadyAt
  <2> QED
    BY <2>1, <2>2 DEF FromCore1
<1>2. CASE point \notin {"pop", "push", "responded"}
  <2>1. One(point \in {"pop", "push", "responded"}) = 0
    BY <1>2 DEF One
  <2>2. Work(left) \in 0 .. 3
    BY WorkBounds
  <2> QED
    BY <2>1, <2>2 DEF FromCore1
<1> QED
  BY <1>1, <1>2

LEMMA FromCore0Bounds ==
    ASSUME NEW point, NEW return, NEW finished \in BOOLEAN
    PROVE  FromCore0(point, return, finished) \in 0 .. 2
BY DEF FromCore0, One

LEMMA ResponsesBounds ==
    ASSUME NEW point, NEW edge \in BOOLEAN, NEW due \in BOOLEAN
    PROVE  Responses(point, edge, due) \in 0 .. 3
<1>1. PICK d \in {0, 1} : d = One(due)
  BY DEF One
<1>2. PICK e \in {0, 1} : e = One(edge)
  BY DEF One
<1>3. PICK k \in 0 .. 2 : Responses(point, edge, due) = d + k
  BY <1>1, <1>2 DEF Responses
<1> QED
  BY <1>3

LEMMA PastBounds == ASSUME NEW point PROVE Past(point) \in 0 .. 3
BY DEF Past, One, Clearing

MostRoom == 26 + (IF "other" \in Events THEN MaxEvents ELSE 0)
InRange ==
    /\ Edges \in Int /\ Edges <= 4
    /\ Message \in Int /\ Message >= 0 /\ Message <= 1
    /\ Queueing0 \in Int /\ Responses0 \in Int
    /\ FromCore0Now \in Int /\ FromCore1Now \in Int
    /\ Coming \in Int /\ Coming >= 0 /\ Coming <= 8
    /\ Room \in Int /\ Room >= 26 /\ Room <= MostRoom

LEMMA Numbers == Typed /\ Steady => InRange
<1> SUFFICES ASSUME Typed, Steady
             PROVE  InRange
  OBVIOUS
<1>1. Edges \in Int /\ Edges <= 4
  <2>1. One(ints # {}) \in {0, 1} /\ Past(pc["core0"]) \in 0 .. 3 /\ One(irq) \in {0, 1}
    BY PastBounds DEF One
  <2> QED
    BY <2>1 DEF Edges
<1>2. Message \in {0, 1}
  BY DEF Message, One
<1>3. /\ Coming \in 0 .. 8 /\ FromCore0Now \in Int /\ FromCore1Now \in Int
      /\ Queueing0 \in Int /\ Responses0 \in Int
  <2>1. Queueing0 \in 0 .. 2
    BY FromCore0Bounds DEF Typed, TypeOK, Queueing0
  <2>2. FromCore1Now \in 0 .. 3
    BY FromCore1Bounds DEF Steady, FromCore1Now
  <2>3. Responses0 \in 0 .. 3
    BY ResponsesBounds DEF Typed, TypeOK, Responses0
  <2> QED
    BY <2>1, <2>2, <2>3 DEF Coming, FromCore0Now
<1>4. Room \in Int /\ Room >= 26 /\ Room <= MostRoom
  <2>1. events \in 0 .. MaxEvents /\ MaxEvents \in Nat
    BY CapsNat DEF Typed, TypeOK
  <2> QED
    BY <2>1 DEF Room, MostRoom
<1> QED
  BY <1>1, <1>2, <1>3, <1>4 DEF InRange

LEMMA NumbersNext == (Typed /\ Steady)' => InRange'
BY Numbers, PTL

LEMMA BalanceSame ==
    ASSUME Typed, Steady, Balance, Typed', Steady', call_queue' = call_queue,
           Edges <= Edges', Message' <= Message, Coming' - Room' <= Coming - Room
    PROVE  Balance'
<1>1. PICK p, d : Marks(call_queue, p, d) /\ Balanced(call_queue, p, d, Edges, Message, Coming, Room)
  BY DEF Balance
<1>2. PICK g \in Int, b \in Int, c \in Int, m \in Int : g = Edges /\ b = Message /\ c = Coming /\ m = Room
  BY Numbers, Zenon DEF InRange
<1>3. PICK g2 \in Int, b2 \in Int, c2 \in Int, m2 \in Int :
          g2 = Edges' /\ b2 = Message' /\ c2 = Coming' /\ m2 = Room'
  BY NumbersNext, Zenon DEF InRange
<1>4. PICK q : q = call_queue
  OBVIOUS
<1>5. Marks(q, p, d) /\ Balanced(q, p, d, g, b, c, m)
  BY <1>1, <1>2, <1>4
<1>6. g <= g2 /\ b2 <= b /\ c2 - m2 <= c - m
  BY <1>2, <1>3
<1>7. Balanced(q, p, d, g2, b2, c2, m2)
  BY <1>5, <1>6, SameBalanced
<1> QED
  BY <1>3, <1>4, <1>5, <1>7 DEF Balance

LEMMA BalanceEmpty ==
    ASSUME Balance, call_queue = <<>>, call_queue' = call_queue, Edges' = Edges
    PROVE  Balance'
<1>1. PICK p, d : Marks(call_queue, p, d) /\ Balanced(call_queue, p, d, Edges, Message, Coming, Room)
  BY DEF Balance
<1>2. Len(call_queue) = 0 /\ \A i \in 1 .. 0 : FALSE
  OBVIOUS
<1>3. Balanced(call_queue, p, d, Edges', Message', Coming', Room')
  BY <1>1, <1>2 DEF Balanced
<1> QED
  BY <1>1, <1>3 DEF Balance

LEMMA BalanceAppend ==
    ASSUME Typed, Steady, Balance, Typed', Steady', NEW e, NEW x, NEW y, Adds(e, x, y),
           call_queue' = Append(call_queue, e), x + Edges <= Edges',
           y + Message' <= Message, 1 - x + (Coming' - Room') <= Coming - Room
    PROVE  Balance'
<1>1. PICK p, d : Marks(call_queue, p, d) /\ Balanced(call_queue, p, d, Edges, Message, Coming, Room)
  BY DEF Balance
<1>2. PICK g \in Int, b \in Int, c \in Int, m \in Int : g = Edges /\ b = Message /\ c = Coming /\ m = Room
  BY Numbers, Zenon DEF InRange
<1>3. PICK g2 \in Int, b2 \in Int, c2 \in Int, m2 \in Int :
          g2 = Edges' /\ b2 = Message' /\ c2 = Coming' /\ m2 = Room'
  BY NumbersNext, Zenon DEF InRange
<1>4. PICK q : q = call_queue
  OBVIOUS
<1>5. Marks(q, p, d) /\ Balanced(q, p, d, g, b, c, m)
  BY <1>1, <1>2, <1>4
<1>6. x + g <= g2 /\ y + b2 <= b /\ 1 - x + (c2 - m2) <= c - m
  BY <1>2, <1>3
<1>7. b >= 0 /\ g <= 4 /\ b2 <= 1 /\ c2 <= 8 /\ m2 >= 26
  BY <1>2, <1>3, Numbers, NumbersNext, Zenon DEF InRange
<1>8. \E p2, d2 : Marks(Append(q, e), p2, d2) /\ Balanced(Append(q, e), p2, d2, g2, b2, c2, m2)
  BY <1>5, <1>6, <1>7, AppendBalanced
<1> QED
  BY <1>3, <1>4, <1>8 DEF Balance

LEMMA BalanceTake ==
    ASSUME Typed, Steady, Balance, Typed', Steady', NEW e, NEW x, NEW y, Adds(e, x, y), Take(e),
           Edges - x <= Edges', Message' <= Message + x, Coming' - Room' <= Coming - Room + 3 * x + y
    PROVE  Balance'
<1>1. PICK p, d : Marks(call_queue, p, d) /\ Balanced(call_queue, p, d, Edges, Message, Coming, Room)
  BY DEF Balance
<1>2. PICK g \in Int, b \in Int, c \in Int, m \in Int : g = Edges /\ b = Message /\ c = Coming /\ m = Room
  BY Numbers, Zenon DEF InRange
<1>3. PICK g2 \in Int, b2 \in Int, c2 \in Int, m2 \in Int :
          g2 = Edges' /\ b2 = Message' /\ c2 = Coming' /\ m2 = Room'
  BY NumbersNext, Zenon DEF InRange
<1>4. PICK q : q = call_queue
  OBVIOUS
<1>5. Marks(q, p, d) /\ Balanced(q, p, d, g, b, c, m)
  BY <1>1, <1>2, <1>4
<1>6. g - x <= g2 /\ b2 <= b + x /\ c2 - m2 <= c - m + 3 * x + y
  BY <1>2, <1>3
<1>7. Begins(q, x, y) /\ call_queue' = Tail(q)
  BY <1>4 DEF Take, Begins
<1>8. \E p2, d2 : Marks(Tail(q), p2, d2) /\ Balanced(Tail(q), p2, d2, g2, b2, c2, m2)
  BY <1>5, <1>6, <1>7, TailBalanced
<1> QED
  BY <1>3, <1>7, <1>8 DEF Balance
-----------------------------------------------------------------------------
(* opcode_queue *)

Behind(point, rest) ==
    IF point \in {"clear", "clear_read", "init"} THEN 3 - rest ELSE IF point = "pop" THEN 3 ELSE 2

(* max77958_init queues three opcodes and pops one; after it, each opcode  *)
(* that is queued is followed by a pop.                                    *)
BacklogAt(queue, rest, point0, point1, return1) ==
    /\ queue <= Behind(point0, rest) + One(point1 = "pop" /\ return1 = "idle")
    /\ point0 \in {"clear", "clear_read", "init"} => rest <= 3
Backlog ==
    BacklogAt(Len(opcode_queue), Len(todo), pc["core0"], pc["core1"], after["core1"])

Running == pc["core0"] # "halted" /\ pc["core1"] # "halted"
Ahead == Running /\ Steady /\ Backlog /\ Balance

LargeEnough == CallCap > MostRoom + 5 /\ OpcodeCap > 3

LEMMA CallsFit ==
    ASSUME LargeEnough, Typed, Ahead
    PROVE  Len(call_queue) < CallCap
<1>1. InRange
  BY Numbers DEF Ahead
<1>2. PICK p, d : Marks(call_queue, p, d) /\ Balanced(call_queue, p, d, Edges, Message, Coming, Room)
  BY DEF Ahead, Balance
<1>3. PICK g \in Int, b \in Int, c \in Int, m \in Int : g = Edges /\ b = Message /\ c = Coming /\ m = Room
  BY <1>1, Zenon DEF InRange
<1>4. PICK q : q = call_queue
  OBVIOUS
<1>5. Marks(q, p, d) /\ Balanced(q, p, d, g, b, c, m)
  BY <1>2, <1>3, <1>4
<1>6. g <= 4 /\ c >= 0 /\ m >= 0 /\ m <= MostRoom
  <2>1. g <= 4 /\ c >= 0 /\ m >= 26 /\ m <= MostRoom
    BY <1>1, <1>3, Zenon DEF InRange
  <2> QED
    BY <2>1
<1>7. Len(q) <= m + 5
  BY <1>5, <1>6, LengthBalanced
<1>8. MostRoom \in Int /\ CallCap \in Int /\ Len(q) \in Int
  <2>1. Len(q) \in Nat
    BY <1>4 DEF Typed, TypeOK
  <2> QED
    BY <2>1, CapsNat DEF MostRoom
<1>9. Len(q) < CallCap
  BY <1>6, <1>7, <1>8 DEF LargeEnough
<1> QED
  BY <1>4, <1>9

LEMMA OpcodesFit ==
    ASSUME Typed, Ahead,
           \/ pc["core0"] = "init" /\ todo # <<>>
           \/ pc["core0"] \in {"cc_read", "test"}
           \/ pc["core1"] \in {"idle", "cc"}
    PROVE  Len(opcode_queue) <= 3
<1>1. Len(opcode_queue) \in Nat /\ Len(todo) \in Nat /\ (todo # <<>> => Len(todo) # 0)
  BY SeqTail DEF Typed, TypeOK
<1>2. Backlog
  BY DEF Ahead
<1> DEFINE n == Len(opcode_queue)
           t == Len(todo)
<1>3. BacklogAt(n, t, pc["core0"], pc["core1"], after["core1"]) /\ n \in Nat /\ t \in Nat
  BY <1>1, <1>2 DEF Backlog
<1>4. \/ pc["core0"] = "init" /\ t # 0
      \/ pc["core0"] \in {"cc_read", "test"}
      \/ pc["core1"] \in {"idle", "cc"}
  BY <1>1
<1> HIDE DEF n, t
<1>5. n <= 3
  BY <1>3, <1>4 DEF BacklogAt, Behind, One
<1> QED
  BY <1>5 DEF n

(* There is room, so the opcode is queued. *)
LEMMA AddFits ==
    ASSUME LargeEnough, Typed, Len(opcode_queue) <= 3,
           NEW c \in Cores, NEW opcode \in Opcodes, NEW point, OpcodeQueueAdd(c, opcode, point)
    PROVE  /\ Goto(c, point) /\ opcodes_finished' = FALSE
           /\ Len(opcode_queue') = Len(opcode_queue) + 1
<1>1. opcode_queue \in Seq(Opcodes) /\ Len(opcode_queue) \in Nat
  BY DEF Typed, TypeOK
<1>2. Len(opcode_queue) < OpcodeCap
  BY <1>1, CapsNat DEF LargeEnough
<1>3. /\ Goto(c, point) /\ opcodes_finished' = FALSE
      /\ opcode_queue' = Append(opcode_queue, opcode)
  BY <1>2 DEF OpcodeQueueAdd
<1> QED
  BY <1>1, <1>3, SeqAppend

LEMMA GotoMoves ==
    ASSUME Typed, NEW c \in Cores, NEW point, Goto(c, point)
    PROVE  pc'[c] = point /\ \A d \in Cores \ {c} : pc'[d] = pc[d]
BY DEF Goto, Typed, TypeOK

LEMMA GotoCores ==
    ASSUME Typed, NEW point
    PROVE  /\ Goto("core0", point) => pc'["core0"] = point /\ pc'["core1"] = pc["core1"]
           /\ Goto("core1", point) => pc'["core1"] = point /\ pc'["core0"] = pc["core0"]
BY GotoMoves DEF Cores

LEMMA HandleMoves ==
    ASSUME Typed, NEW left \in SUBSET Bits, Handle(left)
    PROVE  /\ bits' = left /\ pc'["core0"] = pc["core0"]
           /\ (pc'["core1"] = "idle" /\ left = {}) \/ pc'["core1"] \in left
<1> DEFINE ahead == {i \in DOMAIN HandlerOrder : HandlerOrder[i] \in left}
<1>1. CASE ahead = {} /\ Goto("core1", "idle")
  <2>1. left = {}
    BY <1>1 DEF HandlerOrder, Bits
  <2> QED
    BY <1>1, <2>1, GotoCores DEF Handle
<1>2. CASE \E i \in ahead : Goto("core1", HandlerOrder[i])
  <2>1. PICK i \in ahead : Goto("core1", HandlerOrder[i])
    BY <1>2
  <2> QED
    BY <2>1, GotoCores DEF Handle
<1> QED
  BY <1>1, <1>2 DEF Handle

(* Core 1 then has these bits left to deal with, and nothing else. *)
LEMMA HandleSteady ==
    ASSUME Typed, NEW left \in SUBSET Bits, Handle(left)
    PROVE  /\ Steady' /\ FromCore1Now' = Work(left)
           /\ pc'["core1"] \in {"idle", "response", "pd", "chgtype", "cc"}
           /\ pc'["core0"] = pc["core0"] /\ bits' = left
<1>1. /\ bits' = left /\ pc'["core0"] = pc["core0"]
      /\ (pc'["core1"] = "idle" /\ left = {}) \/ pc'["core1"] \in left
  BY HandleMoves
<1>2. pc'["core1"] \in {"idle", "response", "pd", "chgtype", "cc"}
  BY <1>1 DEF Bits
<1>3. Steady'
  <2>1. PICK point : point = pc'["core1"]
    OBVIOUS
  <2>2. SteadyAt(point, after'["core1"], left)
    BY <1>1, <1>2, <2>1 DEF SteadyAt, Bits
  <2> QED
    BY <1>1, <2>1, <2>2 DEF Steady
<1>4. One(pc'["core1"] \in {"pop", "push", "responded"}) = 0
  BY <1>2 DEF One
<1>5. Work(left) \in 0 .. 3
  BY WorkBounds
<1>6. FromCore1Now' = One(pc'["core1"] \in {"pop", "push", "responded"}) + Work(left)
  BY <1>1 DEF FromCore1Now, FromCore1
<1> QED
  BY <1>1, <1>2, <1>3, <1>4, <1>5, <1>6
LEMMA BacklogSame ==
    ASSUME Typed, Backlog, UNCHANGED <<opcode_queue, todo>>, pc'["core0"] = pc["core0"],
           ~(pc["core1"] = "pop" /\ after["core1"] = "idle")
    PROVE  Backlog'
<1> DEFINE n == Len(opcode_queue)
           t == Len(todo)
           p == pc["core0"]
<1>1. Behind(p, t) \in Int /\ n \in Int
  BY DEF Typed, TypeOK, Behind
<1>2. n <= Behind(p, t) /\ (p \in {"clear", "clear_read", "init"} => t <= 3)
  <2>1. BacklogAt(n, t, p, pc["core1"], after["core1"])
    BY DEF Backlog
  <2> HIDE DEF n, t, p
  <2> QED
    BY <1>1, <2>1 DEF BacklogAt, One
<1>3. PICK queue, rest, point : queue = n /\ rest = t /\ point = p
  OBVIOUS
<1>4. BacklogAt(queue, rest, point, pc'["core1"], after'["core1"])
  <2> HIDE DEF n, t, p
  <2>1. Behind(point, rest) \in Int /\ queue \in Int /\ queue <= Behind(point, rest)
        /\ (point \in {"clear", "clear_read", "init"} => rest <= 3)
    BY <1>1, <1>2, <1>3
  <2> QED
    BY <2>1 DEF BacklogAt, One
<1> QED
  BY <1>3, <1>4 DEF Backlog

-----------------------------------------------------------------------------
(* Each step keeps ahead.  The chip and the handler: *)

LEMMA SumLess ==
    ASSUME NEW a \in Int, NEW b \in Int, NEW a2 \in Int, NEW b2 \in Int, a2 <= a, b2 <= b
    PROVE  a2 + b2 <= a + b
OBVIOUS

LEMMA MoreRoom ==
    ASSUME NEW c \in Int, NEW e \in Int, NEW e2 \in Int, e <= e2
    PROVE  c - (26 + e2) <= c - (26 + e)
OBVIOUS

LEMMA AheadChip ==
    ASSUME Typed, Typed', Ahead,
           \/ Respond
           \/ \E kind \in EventKinds, new \in {"none", "sink", "source"} : CcChange(kind, new)
           \/ \E message \in {"swap_to_sink", "swap_to_source", "other"} : PdMessage(message)
    PROVE  Ahead'
<1>1. /\ UNCHANGED <<queues, test, pc, after, bits, todo>>
      /\ \E new : new # {} /\ ints' = ints \cup new /\ irq' = (irq \/ (ints = {} /\ ~Masked))
      /\ events' = events \/ events' = events + 1
  BY DEF Respond, CcChange, PdMessage, Event, Raise, history, control, buffers
<1>2. UNCHANGED <<call_queue, opcode_queue, opcodes_finished, responding>>
  BY <1>1 DEF queues, test
<1>3. Running' /\ Steady' /\ Backlog'
  BY <1>1, <1>2 DEF Ahead, Running, Steady, Backlog
<1>9. irq \in BOOLEAN /\ irq' \in BOOLEAN
  BY DEF Typed, TypeOK
<1>4. Edges <= Edges'
  <2>1. PICK new : new # {} /\ ints' = ints \cup new /\ irq' = (irq \/ (ints = {} /\ ~Masked))
    BY <1>1
  <2>2. PICK z \in 0 .. 3 : z = Past(pc["core0"])
    BY PastBounds
  <2>4. One(ints # {}) - One(irq) <= One(ints' # {}) - One(irq')
    <3>1. CASE ints = {}
      <4>1. ints' # {}
        BY <2>1, <3>1
      <4>2. One(ints # {}) = 0 /\ One(ints' # {}) = 1
        BY <3>1, <4>1 DEF One
      <4>3. One(irq') <= 1 + One(irq)
        BY DEF One
      <4>4. One(irq) \in {0, 1} /\ One(irq') \in {0, 1}
        BY DEF One
      <4> QED
        BY <4>2, <4>3, <4>4
    <3>2. CASE ints # {}
      <4>1. ints' # {} /\ irq' = irq
        BY <1>9, <2>1, <3>2
      <4> QED
        BY <3>2, <4>1 DEF One
    <3> QED
      BY <3>1, <3>2
  <2>5. PICK a \in Int, b \in Int : a = One(ints # {}) /\ b = One(irq)
    BY DEF One
  <2>6. PICK a2 \in Int, b2 \in Int : a2 = One(ints' # {}) /\ b2 = One(irq')
    BY DEF One
  <2>7. Edges = a + z - b /\ Edges' = a2 + z - b2
    BY <1>1, <2>2, <2>5, <2>6 DEF Edges
  <2>8. a - b <= a2 - b2
    BY <2>4, <2>5, <2>6
  <2>9. z \in Int
    BY <2>2
  <2> QED
    BY <2>5, <2>6, <2>7, <2>8, <2>9
<1>5. Message' = Message /\ Coming' = Coming
  <2>1. Responses0' = Responses0
    <3>1. CASE pc["core0"] \in {"drive", "driven"}
      <4>1. Masked
        BY <3>1 DEF Masked
      <4>2. irq' = irq
        BY <1>1, <1>9, <4>1
      <4> QED
        BY <1>1, <1>2, <4>2 DEF Responses0
    <3>2. CASE pc["core0"] \notin {"drive", "driven"}
      BY <1>1, <1>2, <3>2 DEF Responses0, Responses
    <3> QED
      BY <3>1, <3>2
  <2>2. Queueing0' = Queueing0 /\ FromCore1Now' = FromCore1Now
    BY <1>1, <1>2 DEF Queueing0, FromCore1Now
  <2> QED
    BY <1>1, <2>1, <2>2 DEF Message, Coming, FromCore0Now
<1>6. Coming' - Room' <= Coming - Room
  <2>1. events \in Int /\ events' \in Int /\ events <= events'
    BY <1>1 DEF Typed, TypeOK
  <2>2. CASE "other" \in Events
    <3>1. Room = 26 + events /\ Room' = 26 + events'
      BY <2>2 DEF Room
    <3>2. PICK c \in Int : c = Coming
      BY Numbers DEF Ahead, InRange
    <3>3. PICK e \in Int, e2 \in Int : e = events /\ e2 = events' /\ e <= e2
      BY <2>1
    <3>4. c - (26 + e2) <= c - (26 + e)
      BY <3>3, MoreRoom
    <3> QED
      BY <1>5, <3>1, <3>2, <3>3, <3>4
  <2>3. CASE "other" \notin Events
    <3>1. Room = 26 /\ Room' = 26
      BY <2>3 DEF Room
    <3>2. PICK c \in Int : c = Coming
      BY Numbers DEF Ahead, InRange
    <3>3. c - 26 <= c - 26
      OBVIOUS
    <3> QED
      BY <1>5, <3>1, <3>2, <3>3
  <2> QED
    BY <2>2, <2>3
<1>7. Message' <= Message
  <2>1. Message \in Int
    BY Numbers DEF Ahead, InRange
  <2> QED
    BY <1>5, <2>1
<1>8. Balance'
  BY <1>2, <1>3, <1>4, <1>6, <1>7, BalanceSame DEF Ahead
<1> QED
  BY <1>3, <1>8 DEF Ahead

LEMMA AheadInterrupt ==
    ASSUME LargeEnough, Typed, Typed', Ahead, OnInterrupt \/ OtherInterrupt
    PROVE  Ahead'
<1>1. Len(call_queue) < CallCap
  BY CallsFit
<1>2. UNCHANGED <<pc, after, bits, todo, ints, opcode_queue, opcodes_finished>>
  BY <1>1 DEF OnInterrupt, OtherInterrupt, CallQueueTryAdd, buffers
<1>10. Responses0' = Responses0
  <2>1. CASE OnInterrupt
    <3>1. irq = TRUE /\ irq' = FALSE /\ responding = FALSE /\ responding' = Started /\ pc' = pc
      BY <1>2, <2>1 DEF OnInterrupt, Typed, TypeOK
    <3>5. One(TRUE) = 1 /\ One(FALSE) = 0
      BY DEF One
    <3>2. CASE pc["core0"] = "drive"
      <4>1. responding' = TRUE /\ pc'["core0"] = "drive"
        BY <3>1, <3>2 DEF Started
      <4>2. Responses0 = 0 + (1 + 1) /\ Responses0' = 1 + (1 + 0)
        BY <3>1, <3>2, <3>5, <4>1 DEF Responses0, Responses
      <4> QED
        BY <4>2
    <3>3. CASE pc["core0"] = "driven"
      <4>1. responding' = TRUE /\ pc'["core0"] = "driven"
        BY <3>1, <3>3 DEF Started
      <4>3. Responses("driven", FALSE, TRUE) = 1
        BY DEF Responses, One
      <4>4. Responses("driven", TRUE, FALSE) = 1
        BY DEF Responses, One
      <4> QED
        BY <3>1, <3>3, <4>1, <4>3, <4>4 DEF Responses0
    <3>4. CASE pc["core0"] \notin {"drive", "driven"}
      <4>0. Started = FALSE
        BY <3>4 DEF Started
      <4>1. responding' = responding /\ pc'["core0"] = pc["core0"]
        BY <3>1, <4>0, Zenon
      <4>2. PICK point : point = pc["core0"] /\ point = pc'["core0"]
        BY <4>1
      <4>3. Responses(point, irq', responding') = Responses(point, irq, responding)
        BY <3>4, <4>1, <4>2 DEF Responses
      <4> QED
        BY <4>2, <4>3 DEF Responses0
    <3> QED
      BY <3>2, <3>3, <3>4
  <2>2. CASE OtherInterrupt
    <3>1. UNCHANGED <<irq, responding, pc>>
      BY <1>2, <2>2 DEF OtherInterrupt, test
    <3> QED
      BY <3>1 DEF Responses0
  <2> QED
    BY <2>1, <2>2
<1>3. Running' /\ Steady' /\ Backlog'
  BY <1>2 DEF Ahead, Running, Steady, Backlog
<1>4. Message' = Message /\ Coming' = Coming
  BY <1>2, <1>10 DEF Message, Coming, FromCore0Now, Queueing0, FromCore1Now
<1>5. PICK a \in Int, c \in Int, m \in Int : a = Message /\ c = Coming /\ m = Room
  BY Numbers, Zenon DEF Ahead, InRange
<1>6. PICK x \in {0, 1}, k \in 0 .. 3 : x = One(ints # {}) /\ k = Past(pc["core0"])
  <2>1. One(ints # {}) \in {0, 1} /\ Past(pc["core0"]) \in 0 .. 3
    BY PastBounds DEF One
  <2> QED
    BY <2>1
<1>7. PICK o \in {0, 1}, o2 \in {0, 1} :
          o = One(irq) /\ o2 = One(irq') /\ Edges = x + k - o /\ Edges' = x + k - o2
  <2>1. PICK o \in {0, 1}, o2 \in {0, 1} : o = One(irq) /\ o2 = One(irq')
    BY DEF One
  <2>2. x = One(ints' # {}) /\ k = Past(pc'["core0"])
    BY <1>2, <1>6
  <2>3. Edges = x + k - o
    BY <1>6, <2>1 DEF Edges
  <2>4. Edges' = x + k - o2
    BY <2>1, <2>2 DEF Edges
  <2> QED
    BY <2>1, <2>3, <2>4
<1>8. CASE OnInterrupt
  <2>1. call_queue' = Append(call_queue, "parse") /\ irq = TRUE /\ irq' = FALSE /\ events' = events
    BY <1>1, <1>8 DEF OnInterrupt, CallQueueTryAdd, history, Typed, TypeOK
  <2>2. 1 + Edges <= Edges'
    <3>1. One(irq) = 1 /\ One(irq') = 0
      BY <2>1 DEF One
    <3>2. o = 1 /\ o2 = 0
      BY <1>7, <3>1
    <3>3. 1 + (x + k - 1) <= x + k - 0
      BY <1>6
    <3> QED
      BY <1>7, <3>2, <3>3
  <2>3. 0 + Message' <= Message
    BY <1>4, <1>5
  <2>4. 1 - 1 + (Coming' - Room') <= Coming - Room
    <3>1. Room' = Room
      BY <2>1 DEF Room
    <3> QED
      BY <1>4, <1>5, <3>1
  <2>5. Adds("parse", 1, 0)
    BY NamesApart DEF Adds, One
  <2>6. Balance'
    BY <1>3, <2>1, <2>2, <2>3, <2>4, <2>5, BalanceAppend DEF Ahead
  <2> QED
    BY <1>3, <2>6 DEF Ahead
<1>9. CASE OtherInterrupt
  <2>1. call_queue' = Append(call_queue, "other") /\ irq' = irq /\ events' = events + 1 /\ "other" \in Events
    BY <1>1, <1>9 DEF OtherInterrupt, Event, CallQueueTryAdd
  <2>2. 0 + Edges <= Edges'
    <3>1. o2 = o
      BY <1>7, <2>1
    <3> QED
      BY <1>6, <1>7, <2>1, <3>1
  <2>3. 0 + Message' <= Message
    BY <1>4, <1>5
  <2>4. 1 - 0 + (Coming' - Room') <= Coming - Room
    <3>1. events \in Int
      BY DEF Typed, TypeOK
    <3>2. Room' = Room + 1
      BY <2>1, <3>1 DEF Room
    <3> QED
      BY <1>4, <1>5, <3>2
  <2>5. Adds("other", 0, 0)
    BY NamesApart DEF Adds, One
  <2>6. Balance'
    BY <1>3, <2>1, <2>2, <2>3, <2>4, <2>5, BalanceAppend DEF Ahead
  <2> QED
    BY <1>3, <2>6 DEF Ahead
<1> QED
  BY <1>8, <1>9

(* Core 1 and core 0, by what they do to call_queue: *)

LEMMA AheadSame ==
    ASSUME Typed, Typed', Ahead, Running', Steady', Backlog',
           UNCHANGED <<call_queue, events>>, Edges <= Edges', Message' <= Message, Coming' <= Coming
    PROVE  Ahead'
<1>1. Room' = Room
  BY DEF Room
<1>2. PICK c \in Int, m \in Int : c = Coming /\ m = Room
  BY Numbers, Zenon DEF Ahead, InRange
<1>3. PICK c2 \in Int : c2 = Coming'
  BY NumbersNext, Zenon DEF InRange
<1>4. Coming' - Room' <= Coming - Room
  <2>1. c2 <= c
    BY <1>2, <1>3
  <2>2. c2 - m <= c - m
    BY <2>1
  <2> QED
    BY <1>1, <1>2, <1>3, <2>2
<1>5. Balance'
  BY <1>4, BalanceSame DEF Ahead
<1> QED
  BY <1>5 DEF Ahead

LEMMA AheadTake ==
    ASSUME Typed, Typed', Ahead, Running', Steady', Backlog',
           NEW e, NEW x, NEW y, Adds(e, x, y), Take(e), events' = events,
           Edges - x <= Edges', Message' <= Message + x,
           FromCore0Now' <= FromCore0Now, FromCore1Now' <= FromCore1Now + 3 * x + y
    PROVE  Ahead'
<1>1. Room' = Room
  BY DEF Room
<1>2. PICK a \in Int, b \in Int, m \in Int : a = FromCore0Now /\ b = FromCore1Now /\ m = Room
  BY Numbers, Zenon DEF Ahead, InRange
<1>3. PICK a2 \in Int, b2 \in Int : a2 = FromCore0Now' /\ b2 = FromCore1Now'
  BY NumbersNext, Zenon DEF InRange
<1>4. x \in Int /\ y \in Int
  BY DEF Adds, One
<1>5. a2 + b2 - m <= a + b - m + 3 * x + y
  <2>1. a2 <= a /\ b2 <= b + 3 * x + y
    BY <1>2, <1>3
  <2> QED
    BY <1>4, <2>1
<1>6. Coming = a + b /\ Coming' = a2 + b2
  BY <1>2, <1>3 DEF Coming
<1>7. Coming' - Room' <= Coming - Room + 3 * x + y
  BY <1>1, <1>2, <1>5, <1>6
<1>8. Balance'
  BY <1>7, BalanceTake DEF Ahead
<1> QED
  BY <1>8 DEF Ahead

LEMMA AheadAppend ==
    ASSUME Typed, Typed', Ahead, Running', Steady', Backlog',
           NEW e, NEW y, Adds(e, 0, y), call_queue' = Append(call_queue, e), events' = events,
           Edges <= Edges', y + Message' <= Message, 1 + Coming' <= Coming
    PROVE  Ahead'
<1>1. Room' = Room
  BY DEF Room
<1>2. PICK g \in Int, c \in Int, m \in Int : g = Edges /\ c = Coming /\ m = Room
  BY Numbers, Zenon DEF Ahead, InRange
<1>3. PICK g2 \in Int, c2 \in Int : g2 = Edges' /\ c2 = Coming'
  BY NumbersNext, Zenon DEF InRange
<1>4. 1 - 0 + (c2 - m) <= c - m
  <2>1. 1 + c2 <= c
    BY <1>2, <1>3
  <2> QED
    BY <2>1
<1>5. 1 - 0 + (Coming' - Room') <= Coming - Room
  BY <1>1, <1>2, <1>3, <1>4
<1>6. 0 + Edges <= Edges'
  BY <1>2, <1>3
<1>7. Balance'
  BY <1>5, <1>6, BalanceAppend DEF Ahead
<1> QED
  BY <1>7 DEF Ahead

LEMMA FinishedLess ==
    ASSUME NEW point, NEW return, NEW finished
    PROVE  /\ FromCore0(point, return, FALSE) <= FromCore0(point, return, finished)
           /\ FromCore0(point, return, TRUE) <= FromCore0(point, return, finished) + 1
BY DEF FromCore0, One

LEMMA WorkParts ==
    ASSUME NEW left
    PROVE  /\ Work({}) = 0
           /\ "response" \in left => Work(left) = Work(left \ {"response"}) + 1
           /\ "pd" \in left => Work(left) = Work(left \ {"pd"}) + 1
           /\ "cc" \in left => Work(left) >= 1
<1>1. Work({}) = 0
  BY DEF Work, One
<1>2. "response" \in left => Work(left) = Work(left \ {"response"}) + 1
  BY DEF Work, One
<1>3. "pd" \in left => Work(left) = Work(left \ {"pd"}) + 1
  BY DEF Work, One
<1>4. "cc" \in left => Work(left) >= 1
  BY DEF Work, One
<1> QED
  BY <1>1, <1>2, <1>3, <1>4

(* Core 0 stays where it is, and opcodes_finished is as it was or cleared. *)
LEMMA Core0Stays ==
    ASSUME Typed, Ahead, pc'["core0"] = pc["core0"], after'["core0"] = after["core0"],
           opcodes_finished' = opcodes_finished \/ opcodes_finished' = FALSE, UNCHANGED <<irq, responding>>
    PROVE  /\ FromCore0Now' <= FromCore0Now
           /\ pc'["core1"] # "halted" => Running'
           /\ ints' = ints => Edges <= Edges'
           /\ bits' = bits => Message' <= Message
<1>1. FromCore0Now' <= FromCore0Now
  <2>1. PICK q \in Int, r \in Int : q = Queueing0 /\ r = Responses0
    BY Numbers, Zenon DEF Ahead, InRange
  <2>2. Responses0' = Responses0
    BY DEF Responses0
  <2>3. PICK q2 \in Int : q2 = Queueing0' /\ q2 <= q
    <3>1. CASE opcodes_finished' = opcodes_finished
      <4>1. Queueing0' = Queueing0
        BY <3>1 DEF Queueing0
      <4> QED
        BY <2>1, <4>1
    <3>2. CASE opcodes_finished' = FALSE
      <4>1. Queueing0' <= Queueing0
        BY <3>2, FinishedLess DEF Queueing0
      <4>2. Queueing0' \in 0 .. 2
        BY <3>2, FromCore0Bounds DEF Queueing0
      <4> QED
        BY <2>1, <4>1, <4>2
    <3> QED
      BY <3>1, <3>2
  <2>4. FromCore0Now = q + r /\ FromCore0Now' = q2 + r
    BY <2>1, <2>2, <2>3 DEF FromCore0Now
  <2>5. q2 + r <= q + r
    <3>1. r <= r
      BY <2>1
    <3> QED
      BY <2>1, <2>3, <3>1, SumLess
  <2> QED
    BY <2>4, <2>5
<1>2. pc'["core1"] # "halted" => Running'
  BY DEF Ahead, Running
<1>3. ints' = ints => Edges <= Edges'
  <2>1. Edges \in Int
    BY Numbers DEF Ahead, InRange
  <2>2. ints' = ints => Edges' = Edges
    BY DEF Edges
  <2> QED
    BY <2>1, <2>2
<1>4. bits' = bits => Message' <= Message
  <2>1. Message \in Int
    BY Numbers DEF Ahead, InRange
  <2>2. bits' = bits => Message' = Message
    BY DEF Message
  <2> QED
    BY <2>1, <2>2
<1> QED
  BY <1>1, <1>2, <1>3, <1>4
-----------------------------------------------------------------------------
(* Core 1 *)

LEMMA AheadBuild ==
    ASSUME LargeEnough, Typed, Typed', Ahead, NEW opcode \in Opcodes, BuildOpcode(opcode)
    PROVE  Ahead'
<1>1. /\ Take(opcode) /\ pc["core1"] = "idle" /\ Goto("core1", "write")
      /\ UNCHANGED <<ints, irq, responding, events, opcode_queue, opcodes_finished, after, bits, todo>>
  BY DEF BuildOpcode, Take, At, chip, test, history
<1>2. pc'["core1"] = "write" /\ pc'["core0"] = pc["core0"] /\ after'["core0"] = after["core0"]
  BY <1>1, GotoCores
<1>3. bits = {} /\ bits' = {}
  BY <1>1 DEF Ahead, Steady, SteadyAt
<1>4. /\ FromCore0Now' <= FromCore0Now /\ Running' /\ Edges <= Edges' /\ Message' <= Message
  BY <1>1, <1>2, Core0Stays
<1>5. Steady'
  BY <1>2, <1>3 DEF Steady, SteadyAt
<1>6. Backlog'
  BY <1>1, <1>2, BacklogSame DEF Ahead
<1>7. FromCore1Now = 0 /\ FromCore1Now' = 0
  BY <1>1, <1>2, <1>3, WorkParts DEF FromCore1Now, FromCore1, One
<1>8. Adds(opcode, 0, 0)
  BY NamesApart DEF Adds, One
<1>9. Edges - 0 <= Edges' /\ Message' <= Message + 0 /\ FromCore1Now' <= FromCore1Now + 3 * 0 + 0
  <2>1. PICK g \in Int, b \in Int : g = Edges /\ b = Message
    BY Numbers, Zenon DEF Ahead, InRange
  <2>2. PICK b2 \in Int : b2 = Message'
    BY <1>5, NumbersNext, Zenon DEF InRange
  <2> QED
    BY <1>4, <1>7, <2>1, <2>2
<1> QED
  BY <1>1, <1>4, <1>5, <1>6, <1>8, <1>9, AheadTake

(* An entry that changes nothing the queues depend on. *)
LEMMA AheadTaken ==
    ASSUME LargeEnough, Typed, Typed', Ahead, NEW e, NEW y \in {0, 1}, Adds(e, 0, y), Take(e),
           pc["core1"] = "idle",
           UNCHANGED <<ints, irq, responding, events, opcode_queue, opcodes_finished, pc, after, bits, todo>>
    PROVE  Ahead'
<1>2. /\ FromCore0Now' <= FromCore0Now /\ Running' /\ Edges <= Edges' /\ Message' <= Message
  <2>1. pc'["core1"] # "halted" /\ pc'["core0"] = pc["core0"] /\ after'["core0"] = after["core0"]
    OBVIOUS
  <2> QED
    BY <2>1, Core0Stays
<1>3. Steady' /\ Backlog' /\ FromCore1Now' = FromCore1Now
  BY DEF Ahead, Steady, Backlog, FromCore1Now
<1>5. Edges - 0 <= Edges' /\ Message' <= Message + 0 /\ FromCore1Now' <= FromCore1Now + 3 * 0 + y
  <2>1. PICK g \in Int, b \in Int, c \in Int : g = Edges /\ b = Message /\ c = FromCore1Now
    BY Numbers, Zenon DEF Ahead, InRange
  <2>2. PICK b2 \in Int : b2 = Message'
    BY <1>3, NumbersNext, Zenon DEF InRange
  <2>3. c <= c + 3 * 0 + y
    BY <2>1
  <2> QED
    BY <1>2, <1>3, <2>1, <2>2, <2>3
<1>6. events' = events
  OBVIOUS
<1> QED
  BY <1>2, <1>3, <1>5, <1>6, AheadTake

LEMMA AheadOther ==
    ASSUME LargeEnough, Typed, Typed', Ahead, RunOther \/ RunTestResponse
    PROVE  Ahead'
<1>1. /\ pc["core1"] = "idle"
      /\ UNCHANGED <<ints, irq, responding, events, opcode_queue, opcodes_finished, pc, after, bits, todo>>
  BY DEF RunOther, RunTestResponse, Take, At, chip, test, history, control, buffers
<1>2. Adds("other", 0, 0) /\ Adds("test_response", 0, 0)
  BY NamesApart DEF Adds, One
<1>3. Take("other") \/ Take("test_response")
  BY DEF RunOther, RunTestResponse
<1> QED
  BY <1>1, <1>2, <1>3, AheadTaken

LEMMA AheadPdMsgResponse ==
    ASSUME LargeEnough, Typed, Typed', Ahead, RunPdMsgResponse, pd \in {"swap_to_sink", "swap_to_source"}
    PROVE  Ahead'
<1>1. /\ Take("pd_msg") /\ pc["core1"] = "idle"
      /\ UNCHANGED <<ints, irq, responding, events, bits, todo>>
      /\ \E opcode \in {"off", "on"} : OpcodeQueueAdd("core1", opcode, "pop")
      /\ after' = [after EXCEPT !["core1"] = "idle"]
  BY DEF RunPdMsgResponse, SendOpcode, Take, At, chip, test, history
<1>2. /\ Goto("core1", "pop") /\ opcodes_finished' = FALSE /\ Len(opcode_queue) <= 3
      /\ Len(opcode_queue') = Len(opcode_queue) + 1
  BY <1>1, OpcodesFit, AddFits, NamesApart DEF Cores
<1>3. /\ pc'["core1"] = "pop" /\ pc'["core0"] = pc["core0"]
      /\ after'["core0"] = after["core0"] /\ after'["core1"] = "idle"
  BY <1>1, <1>2, GotoCores DEF Typed, TypeOK, Cores
<1>4. bits = {} /\ bits' = {}
  BY <1>1 DEF Ahead, Steady, SteadyAt
<1>5. /\ FromCore0Now' <= FromCore0Now /\ Running' /\ Edges <= Edges' /\ Message' <= Message
  BY <1>1, <1>2, <1>3, Core0Stays
<1>6. Steady'
  BY <1>3, <1>4 DEF Steady, SteadyAt
<1>7. Backlog'
  <2>1. PICK n, t, p : n = Len(opcode_queue) /\ t = Len(todo) /\ p = pc["core0"]
    OBVIOUS
  <2>2. n \in Int /\ t \in Int
    BY <2>1 DEF Typed, TypeOK
  <2>3. BacklogAt(n, t, p, "idle", after["core1"])
    BY <1>1, <2>1 DEF Ahead, Backlog
  <2>4. BacklogAt(n + 1, t, p, "pop", "idle")
    BY <2>2, <2>3 DEF BacklogAt, Behind, One
  <2> QED
    BY <1>1, <1>2, <1>3, <2>1, <2>4 DEF Backlog
<1>8. FromCore1Now = 0 /\ FromCore1Now' = 1
  BY <1>1, <1>3, <1>4, WorkParts DEF FromCore1Now, FromCore1, One
<1>9. Adds("pd_msg", 0, 1)
  BY NamesApart DEF Adds, One
<1>10. Edges - 0 <= Edges' /\ Message' <= Message + 0 /\ FromCore1Now' <= FromCore1Now + 3 * 0 + 1
  <2>1. PICK g \in Int, b \in Int : g = Edges /\ b = Message
    BY Numbers, Zenon DEF Ahead, InRange
  <2>2. PICK b2 \in Int : b2 = Message'
    BY <1>6, NumbersNext, Zenon DEF InRange
  <2> QED
    BY <1>5, <1>8, <2>1, <2>2
<1> QED
  BY <1>1, <1>5, <1>6, <1>7, <1>9, <1>10, AheadTake

LEMMA AheadOtherPdMsg ==
    ASSUME LargeEnough, Typed, Typed', Ahead, RunPdMsgResponse, pd \notin {"swap_to_sink", "swap_to_source"}
    PROVE  Ahead'
<1>1. /\ Take("pd_msg") /\ pc["core1"] = "idle"
      /\ UNCHANGED <<ints, irq, responding, events, opcode_queue, opcodes_finished, pc, after, bits, todo>>
  BY DEF RunPdMsgResponse, Take, At, chip, test, history
<1>2. Adds("pd_msg", 0, 1)
  BY NamesApart DEF Adds, One
<1> QED
  BY <1>1, <1>2, AheadTaken

LEMMA AheadParse ==
    ASSUME LargeEnough, Typed, Typed', Ahead, RunParse
    PROVE  Ahead'
<1>1. /\ Take("parse") /\ pc["core1"] = "idle" /\ ints' = {} /\ Handle(ints) /\ ints \in SUBSET Bits
      /\ UNCHANGED <<irq, responding, events, opcode_queue, opcodes_finished, after, todo>>
  BY DEF RunParse, Take, At, test, history, Typed, TypeOK, Bits
<1>2. /\ Steady' /\ FromCore1Now' = Work(ints) /\ pc'["core1"] # "halted"
      /\ pc'["core0"] = pc["core0"] /\ after'["core0"] = after["core0"] /\ bits' = ints
  BY <1>1, HandleSteady
<1>3. FromCore0Now' <= FromCore0Now /\ Running'
  BY <1>1, <1>2, Core0Stays
<1>4. Backlog'
  BY <1>1, <1>2, BacklogSame DEF Ahead
<1>5. bits = {}
  BY <1>1 DEF Ahead, Steady, SteadyAt
<1>6. FromCore1Now = 0
  BY <1>1, <1>5, WorkParts DEF FromCore1Now, FromCore1, One
<1>7. Message = 0 /\ Message' \in {0, 1}
  BY <1>5 DEF Message, One
<1>8. Edges - 1 <= Edges'
  <2>2. PICK k \in Int, o \in Int : k = Past(pc["core0"]) /\ o = One(irq)
    BY PastBounds DEF One
  <2>1. Past(pc'["core0"]) = k /\ One(irq') = o
    BY <1>1, <1>2, <2>2
  <2>3. PICK a \in {0, 1} : a = One(ints # {})
    BY DEF One
  <2>4. One(ints' # {}) = 0
    BY <1>1 DEF One
  <2>5. Edges = a + k - o /\ Edges' = 0 + k - o
    BY <2>1, <2>2, <2>3, <2>4 DEF Edges
  <2> QED
    BY <2>2, <2>3, <2>5
<1>9. Adds("parse", 1, 0)
  BY NamesApart DEF Adds, One
<1>10. Message' <= Message + 1
  BY <1>7
<1>11. FromCore1Now' <= FromCore1Now + 3 * 1 + 0
  BY <1>2, <1>6, WorkBounds
<1> QED
  BY <1>1, <1>2, <1>3, <1>4, <1>8, <1>9, <1>10, <1>11, AheadTake

LEMMA AheadResponse ==
    ASSUME LargeEnough, Typed, Typed', Ahead, OnResponse
    PROVE  Ahead'
<1>1. /\ pc["core1"] = "response" /\ Goto("core1", "pop") /\ bits' = bits \ {"response"}
      /\ after' = [after EXCEPT !["core1"] = "responded"]
      /\ UNCHANGED <<ints, irq, responding, events, call_queue, opcode_queue, opcodes_finished, todo>>
  BY DEF OnResponse, At, chip, test, history, queues
<1>2. /\ pc'["core1"] = "pop" /\ pc'["core0"] = pc["core0"]
      /\ after'["core0"] = after["core0"] /\ after'["core1"] = "responded"
  BY <1>1, GotoCores DEF Typed, TypeOK, Cores
<1>3. FromCore0Now' <= FromCore0Now /\ Running' /\ Edges <= Edges'
  BY <1>1, <1>2, Core0Stays
<1>4. Steady'
  BY <1>1, <1>2 DEF Steady, SteadyAt
<1>5. Backlog'
  BY <1>1, <1>2, BacklogSame DEF Ahead
<1>6. FromCore1Now' = FromCore1Now
  <2>1. "response" \in bits
    BY <1>1 DEF Ahead, Steady, SteadyAt
  <2>2. Work(bits) = Work(bits') + 1 /\ Work(bits') \in 0 .. 3
    BY <1>1, <2>1, WorkParts, WorkBounds
  <2>3. FromCore1Now = 0 + Work(bits) /\ FromCore1Now' = 1 + Work(bits')
    BY <1>1, <1>2 DEF FromCore1Now, FromCore1, One
  <2> QED
    BY <2>2, <2>3
<1>7. Message' <= Message
  BY <1>1 DEF Message, One
<1>8. Coming' <= Coming
  <2>1. PICK a \in Int, b \in Int : a = FromCore0Now /\ b = FromCore1Now
    BY Numbers, Zenon DEF Ahead, InRange
  <2>2. PICK a2 \in Int : a2 = FromCore0Now' /\ a2 <= a
    BY <1>3, <1>4, <2>1, NumbersNext, Zenon DEF InRange
  <2>3. a2 + b <= a + b
    <3>1. b <= b
      BY <2>1
    <3> QED
      BY <2>1, <2>2, <3>1, SumLess
  <2>4. Coming = a + b /\ Coming' = a2 + b
    BY <1>6, <2>1, <2>2 DEF Coming
  <2> QED
    BY <2>3, <2>4
<1> QED
  BY <1>1, <1>3, <1>4, <1>5, <1>7, <1>8, AheadSame

(* A step of core 1 that ends in Handle. *)
LEMMA AheadHandle ==
    ASSUME Typed, Typed', Ahead, NEW left \in SUBSET Bits, Handle(left), left \subseteq bits,
           ~(pc["core1"] = "pop" /\ after["core1"] = "idle"), after'["core0"] = after["core0"],
           UNCHANGED <<ints, irq, responding, events, opcode_queue, todo>>,
           opcodes_finished' = opcodes_finished \/ opcodes_finished' = FALSE
    PROVE  /\ Running' /\ Steady' /\ Backlog' /\ FromCore0Now' <= FromCore0Now
           /\ FromCore1Now' = Work(left) /\ Edges <= Edges' /\ Message' <= Message
<1>1. /\ Steady' /\ FromCore1Now' = Work(left) /\ pc'["core1"] # "halted"
      /\ pc'["core0"] = pc["core0"] /\ bits' = left
  BY HandleSteady
<1>2. FromCore0Now' <= FromCore0Now /\ Running' /\ Edges <= Edges'
  BY <1>1, Core0Stays
<1>3. Backlog'
  BY <1>1, BacklogSame DEF Ahead
<1>4. Message' <= Message
  BY <1>1 DEF Message, One
<1> QED
  BY <1>1, <1>2, <1>3, <1>4

LEMMA AheadResponded ==
    ASSUME LargeEnough, Typed, Typed', Ahead, Responded
    PROVE  Ahead'
<1>1. /\ pc["core1"] = "responded" /\ Handle(bits) /\ bits \in SUBSET Bits /\ opcodes_finished' = TRUE
      /\ UNCHANGED <<ints, irq, responding, events, call_queue, opcode_queue, after, todo>>
  BY DEF Responded, At, chip, test, history, Typed, TypeOK, Bits
<1>2. /\ Steady' /\ FromCore1Now' = Work(bits) /\ pc'["core1"] # "halted"
      /\ pc'["core0"] = pc["core0"] /\ bits' = bits
  BY <1>1, HandleSteady
<1>3. Backlog'
  BY <1>1, <1>2, BacklogSame DEF Ahead
<1>4. Running'
  BY <1>2 DEF Ahead, Running
<1>5. Edges' = Edges /\ Message' = Message
  BY <1>1, <1>2 DEF Edges, Message
<1>6. PICK g \in Int, m \in Int, a \in Int : g = Edges /\ m = Message /\ a = FromCore0Now
  BY Numbers, Zenon DEF Ahead, InRange
<1>7. PICK a2 \in Int : a2 = FromCore0Now' /\ a2 <= a + 1
  <2>1. Queueing0' <= Queueing0 + 1
    BY <1>1, <1>2, FinishedLess DEF Queueing0
  <2>2. Responses0' = Responses0
    BY <1>1, <1>2 DEF Responses0
  <2>3. PICK q \in Int, r \in Int : q = Queueing0 /\ r = Responses0
    BY Numbers, Zenon DEF Ahead, InRange
  <2>4. PICK q2 \in Int : q2 = Queueing0'
    BY <1>2, NumbersNext, Zenon DEF InRange
  <2>5. a = q + r /\ FromCore0Now' = q2 + r
    BY <1>6, <2>2, <2>3, <2>4 DEF FromCore0Now
  <2>6. q2 <= q + 1
    BY <2>1, <2>3, <2>4
  <2>7. q2 + r \in Int /\ q2 + r <= q + r + 1
    <3>1. q \in Int /\ r \in Int /\ q2 \in Int
      BY <2>3, <2>4
    <3> QED
      BY <2>6, <3>1
  <2> QED
    BY <2>5, <2>7
<1>8. PICK w \in Int : w = Work(bits)
  BY WorkBounds
<1>9. FromCore1Now = 1 + w /\ FromCore1Now' = w
  BY <1>1, <1>2, <1>8 DEF FromCore1Now, FromCore1, One
<1>10. Coming' <= Coming
  BY <1>6, <1>7, <1>8, <1>9 DEF Coming
<1>11. Edges <= Edges' /\ Message' <= Message
  BY <1>5, <1>6
<1> QED
  BY <1>1, <1>2, <1>3, <1>4, <1>10, <1>11, AheadSame

LEMMA AheadPdMsg ==
    ASSUME LargeEnough, Typed, Typed', Ahead, OnPdMsg
    PROVE  Ahead'
<1>1. /\ pc["core1"] = "pd" /\ call_queue' = Append(call_queue, "pd_msg") /\ Handle(bits \ {"pd"})
      /\ UNCHANGED <<ints, irq, responding, events, opcode_queue, opcodes_finished, after, todo>>
  BY CallsFit DEF OnPdMsg, At, chip, test, history
<1>2. bits \in SUBSET Bits /\ "pd" \in bits /\ bits \ {"pd"} \in SUBSET Bits
  BY <1>1 DEF Ahead, Steady, SteadyAt, Typed, TypeOK, Bits
<1>3. /\ Running' /\ Steady' /\ Backlog' /\ FromCore0Now' <= FromCore0Now
      /\ FromCore1Now' = Work(bits \ {"pd"}) /\ Edges <= Edges'
  BY <1>1, <1>2, AheadHandle
<1>4. 1 + Message' <= Message
  <2>1. bits' = bits \ {"pd"}
    BY <1>1, <1>2, HandleSteady
  <2> QED
    BY <1>2, <2>1 DEF Message, One
<1>5. PICK w \in Int : w = Work(bits \ {"pd"})
  BY WorkBounds
<1>6. FromCore1Now = 1 + w /\ FromCore1Now' = w
  <2>1. Work(bits) = w + 1
    BY <1>2, <1>5, WorkParts
  <2>2. FromCore1Now = 0 + Work(bits)
    BY <1>1 DEF FromCore1Now, FromCore1, One
  <2> QED
    BY <1>3, <1>5, <2>1, <2>2
<1>7. 1 + Coming' <= Coming
  <2>1. PICK a \in Int : a = FromCore0Now
    BY Numbers, Zenon DEF Ahead, InRange
  <2>2. PICK a2 \in Int : a2 = FromCore0Now' /\ a2 <= a
    BY <1>3, <2>1, NumbersNext, Zenon DEF InRange
  <2> QED
    BY <1>5, <1>6, <2>1, <2>2 DEF Coming
<1>8. Adds("pd_msg", 0, 1)
  BY NamesApart DEF Adds, One
<1> QED
  BY <1>1, <1>3, <1>4, <1>7, <1>8, AheadAppend

LEMMA AheadChgType ==
    ASSUME LargeEnough, Typed, Typed', Ahead, OnChgType
    PROVE  Ahead'
<1>1. /\ pc["core1"] = "chgtype" /\ Handle({})
      /\ UNCHANGED <<ints, irq, responding, events, call_queue, opcode_queue, opcodes_finished, after, todo>>
  BY DEF OnChgType, At, chip, test, history, queues
<1>2. /\ Running' /\ Steady' /\ Backlog' /\ FromCore0Now' <= FromCore0Now
      /\ FromCore1Now' = 0 /\ Edges <= Edges' /\ Message' <= Message
  BY <1>1, AheadHandle, WorkParts
<1>3. FromCore1Now \in 0 .. 3
  BY FromCore1Bounds DEF Ahead, Steady, FromCore1Now
<1>4. Coming' <= Coming
  <2>1. PICK a \in Int : a = FromCore0Now
    BY Numbers, Zenon DEF Ahead, InRange
  <2>2. PICK a2 \in Int : a2 = FromCore0Now' /\ a2 <= a
    BY <1>2, <2>1, NumbersNext, Zenon DEF InRange
  <2>3. PICK b \in Int : b = FromCore1Now /\ b >= 0
    BY <1>3
  <2>4. a2 + 0 <= a + b
    <3>1. 0 \in Int /\ 0 <= b
      BY <2>3
    <3> QED
      BY <2>1, <2>2, <2>3, <3>1, SumLess
  <2>5. Coming = a + b /\ Coming' = a2 + 0
    BY <1>2, <2>1, <2>2, <2>3 DEF Coming
  <2> QED
    BY <2>4, <2>5
<1> QED
  BY <1>1, <1>2, <1>4, AheadSame

LEMMA AheadCcStat ==
    ASSUME LargeEnough, Typed, Typed', Ahead, OnCcStat
    PROVE  Ahead'
<1>1. /\ pc["core1"] = "cc" /\ bits' = {} /\ OnCcStatChange("core1", "idle")
      /\ UNCHANGED <<ints, irq, responding, events, call_queue, todo>>
  BY DEF OnCcStat, At, chip, test, history
<1>2. "cc" \in bits
  BY <1>1 DEF Ahead, Steady, SteadyAt
<1>3. \/ /\ pc'["core1"] = "pop" /\ after'["core1"] = "idle" /\ opcodes_finished' = FALSE
         /\ Len(opcode_queue') = Len(opcode_queue) + 1 /\ Len(opcode_queue) <= 3
         /\ pc'["core0"] = pc["core0"] /\ after'["core0"] = after["core0"]
      \/ /\ pc'["core1"] = "idle" /\ UNCHANGED <<opcode_queue, opcodes_finished>>
         /\ pc'["core0"] = pc["core0"] /\ after'["core0"] = after["core0"]
  <2>1. CASE OpcodeQueueAdd("core1", "off", "pop") /\ after' = [after EXCEPT !["core1"] = "idle"]
    <3>1. /\ Goto("core1", "pop") /\ opcodes_finished' = FALSE /\ Len(opcode_queue) <= 3
          /\ Len(opcode_queue') = Len(opcode_queue) + 1
      BY <1>1, <2>1, OpcodesFit, AddFits, NamesApart DEF Cores
    <3> QED
      BY <2>1, <3>1, GotoCores DEF Typed, TypeOK, Cores
  <2>2. CASE Goto("core1", "idle") /\ UNCHANGED <<opcode_queue, opcodes_finished, after>>
    BY <2>2, GotoCores
  <2> QED
    BY <1>1, <2>1, <2>2 DEF OnCcStatChange, SendOpcode
<1>4. /\ FromCore0Now' <= FromCore0Now /\ Running' /\ Edges <= Edges'
  BY <1>1, <1>3, Core0Stays
<1>5. Steady'
  BY <1>1, <1>3 DEF Steady, SteadyAt
<1>6. Message' <= Message
  BY <1>1 DEF Message, One
<1>7. Backlog'
  <2>1. CASE pc'["core1"] = "idle" /\ UNCHANGED opcode_queue
    BY <1>1, <1>3, <2>1, BacklogSame DEF Ahead
  <2>2. CASE /\ pc'["core1"] = "pop" /\ after'["core1"] = "idle"
             /\ Len(opcode_queue') = Len(opcode_queue) + 1
    <3>1. PICK n, t, p : n = Len(opcode_queue) /\ t = Len(todo) /\ p = pc["core0"]
      OBVIOUS
    <3>2. n \in Int /\ t \in Int
      BY <3>1 DEF Typed, TypeOK
    <3>3. BacklogAt(n, t, p, "cc", after["core1"])
      BY <1>1, <3>1 DEF Ahead, Backlog
    <3>4. BacklogAt(n + 1, t, p, "pop", "idle")
      BY <3>2, <3>3 DEF BacklogAt, Behind, One
    <3> QED
      BY <1>1, <1>3, <2>2, <3>1, <3>4 DEF Backlog
  <2> QED
    BY <1>3, <2>1, <2>2
<1>8. Coming' <= Coming
  <2>1. PICK a \in Int : a = FromCore0Now
    BY Numbers, Zenon DEF Ahead, InRange
  <2>2. PICK a2 \in Int : a2 = FromCore0Now' /\ a2 <= a
    BY <1>4, <1>5, <2>1, NumbersNext, Zenon DEF InRange
  <2>3. PICK w \in Int : w = Work(bits) /\ w >= 1
    <3>1. Work(bits) \in 0 .. 3 /\ Work(bits) >= 1
      BY <1>2, WorkParts, WorkBounds
    <3> QED
      BY <3>1
  <2>4. FromCore1Now = 0 + w
    BY <1>1, <2>3 DEF FromCore1Now, FromCore1, One
  <2>5. PICK b2 \in {0, 1} : FromCore1Now' = b2
    BY <1>1, <1>3, WorkParts DEF FromCore1Now, FromCore1, One
  <2> QED
    BY <2>1, <2>2, <2>3, <2>4, <2>5 DEF Coming
<1> QED
  BY <1>1, <1>4, <1>5, <1>6, <1>7, <1>8, AheadSame

(* What Backlog says when core 1 takes from opcode_queue. *)
LEMMA AheadPopCore1 ==
    ASSUME LargeEnough, Typed, Typed', Ahead, PopOpcode("core1")
    PROVE  Ahead'
<1>1. /\ pc["core1"] = "pop" /\ UNCHANGED <<ints, irq, responding, events, call_queue, opcodes_finished, todo>>
  BY DEF PopOpcode, At, chip, test, history
<1>2. CASE opcode_queue = <<>>
  <2>1. /\ PopReturns("core1", FALSE) /\ UNCHANGED opcode_queue
    BY <1>2 DEF PopOpcode
  <2>2. /\ Goto("core1", after["core1"]) /\ bits' = bits
        /\ after' = [after EXCEPT !["core1"] = "idle"] /\ after["core1"] \in {"idle", "responded"}
    BY <2>1 DEF PopReturns, Typed, Placed
  <2>3. /\ pc'["core1"] = after["core1"] /\ pc'["core0"] = pc["core0"]
        /\ after'["core0"] = after["core0"] /\ after'["core1"] = "idle"
    BY <2>2, GotoCores DEF Typed, TypeOK, Cores
  <2>4. /\ FromCore0Now' <= FromCore0Now /\ Running' /\ Edges <= Edges' /\ Message' <= Message
    BY <1>1, <2>2, <2>3, Core0Stays
  <2>5. Steady'
    BY <1>1, <2>2, <2>3 DEF Ahead, Steady, SteadyAt
  <2>6. Backlog'
    <3>1. PICK n, t, p : n = Len(opcode_queue) /\ t = Len(todo) /\ p = pc["core0"]
      OBVIOUS
    <3>2. n = 0 /\ t \in Nat /\ (p \in {"clear", "clear_read", "init"} => t <= 3)
      BY <1>2, <3>1 DEF Typed, TypeOK, Ahead, Backlog, BacklogAt
    <3>3. BacklogAt(n, t, p, pc'["core1"], after'["core1"])
      BY <3>2 DEF BacklogAt, Behind, One
    <3> QED
      BY <1>1, <2>1, <2>3, <3>1, <3>3 DEF Backlog
  <2>7. Coming' <= Coming
    <3>1. PICK w \in Int : w = Work(bits)
      BY WorkBounds
    <3>2. FromCore1Now = 1 + w
      BY <1>1, <3>1 DEF FromCore1Now, FromCore1, One
    <3>3. PICK b2 \in {0, 1} : FromCore1Now' = b2 + w
      BY <2>2, <3>1 DEF FromCore1Now, FromCore1, One
    <3>4. PICK a \in Int : a = FromCore0Now
      BY Numbers, Zenon DEF Ahead, InRange
    <3>5. PICK a2 \in Int : a2 = FromCore0Now' /\ a2 <= a
      BY <2>4, <2>5, <3>4, NumbersNext, Zenon DEF InRange
    <3>6. a2 + (b2 + w) <= a + (1 + w)
      <4>1. b2 + w \in Int /\ 1 + w \in Int /\ b2 + w <= 1 + w
        BY <3>1, <3>3
      <4> QED
        BY <3>4, <3>5, <4>1, SumLess
    <3>7. Coming = a + (1 + w) /\ Coming' = a2 + (b2 + w)
      BY <3>2, <3>3, <3>4, <3>5 DEF Coming
    <3> QED
      BY <3>6, <3>7
  <2> QED
    BY <1>1, <2>4, <2>5, <2>6, <2>7, AheadSame
<1>3. CASE opcode_queue # <<>>
  <2>1. /\ opcode_queue' = Tail(opcode_queue) /\ Goto("core1", "push") /\ UNCHANGED <<after, bits>>
    BY <1>3 DEF PopOpcode
  <2>2. pc'["core1"] = "push" /\ pc'["core0"] = pc["core0"]
    BY <2>1, GotoCores
  <2>3. /\ FromCore0Now' <= FromCore0Now /\ Running' /\ Edges <= Edges' /\ Message' <= Message
    BY <1>1, <2>1, <2>2, Core0Stays
  <2>4. Steady'
    BY <1>1, <2>1, <2>2 DEF Ahead, Steady, SteadyAt
  <2>5. Backlog'
    <3>1. PICK n \in Int, t \in Int, p \in Points :
              n = Len(opcode_queue') /\ t = Len(todo) /\ p = pc["core0"] /\ n + 1 = Len(opcode_queue)
      <4>1. opcode_queue \in Seq(Opcodes) /\ Len(todo) \in Nat /\ pc["core0"] \in Points
        BY DEF Typed, TypeOK, Cores
      <4>2. Len(opcode_queue') = Len(opcode_queue) - 1 /\ Len(opcode_queue) \in Nat
        BY <1>3, <2>1, <4>1, SeqTail
      <4> QED
        BY <4>1, <4>2
    <3>2. BacklogAt(n + 1, t, p, "pop", after["core1"])
      BY <1>1, <3>1 DEF Ahead, Backlog
    <3>3. BacklogAt(n, t, p, "push", after["core1"])
      BY <3>2 DEF BacklogAt, Behind, One
    <3> QED
      BY <1>1, <2>1, <2>2, <3>1, <3>3 DEF Backlog
  <2>6. FromCore1Now' = FromCore1Now
    BY <1>1, <2>1, <2>2 DEF FromCore1Now, FromCore1, One
  <2>7. Coming' <= Coming
    <3>1. PICK a \in Int, b \in Int : a = FromCore0Now /\ b = FromCore1Now
      BY Numbers, Zenon DEF Ahead, InRange
    <3>2. PICK a2 \in Int : a2 = FromCore0Now' /\ a2 <= a
      BY <2>3, <2>4, <3>1, NumbersNext, Zenon DEF InRange
    <3>3. a2 + b <= a + b
      <4>1. b <= b
        BY <3>1
      <4> QED
        BY <3>1, <3>2, <4>1, SumLess
    <3>4. Coming = a + b /\ Coming' = a2 + b
      BY <2>6, <3>1, <3>2 DEF Coming
    <3> QED
      BY <3>3, <3>4
  <2> QED
    BY <1>1, <2>3, <2>4, <2>5, <2>7, AheadSame
<1> QED
  BY <1>2, <1>3

LEMMA AheadPushCore1 ==
    ASSUME LargeEnough, Typed, Typed', Ahead, PushCall("core1")
    PROVE  Ahead'
<1>1. /\ pc["core1"] = "push" /\ call_queue' = Append(call_queue, held["core1"])
      /\ PopReturns("core1", TRUE)
      /\ UNCHANGED <<ints, irq, responding, events, opcode_queue, opcodes_finished, todo>>
  <2>1. Len(call_queue) # CallCap
    <3>1. Len(call_queue) < CallCap /\ Len(call_queue) \in Nat
      BY CallsFit DEF Typed, TypeOK
    <3> QED
      BY <3>1, CapsNat
  <2> QED
    BY <2>1 DEF PushCall, At, chip, test, history
<1>2. /\ after' = [after EXCEPT !["core1"] = "idle"] /\ bits \in SUBSET Bits
      /\ \/ after["core1"] = "responded" /\ Handle(bits)
         \/ after["core1"] = "idle" /\ Goto("core1", "idle") /\ bits' = bits
  BY <1>1 DEF PopReturns, Typed, TypeOK, Placed, Bits
<1>3. after'["core0"] = after["core0"]
  BY <1>2 DEF Typed, TypeOK, Cores
<1>4. PICK w \in Int : w = Work(bits)
  BY WorkBounds
<1>5. /\ Running' /\ Steady' /\ Backlog' /\ FromCore0Now' <= FromCore0Now
      /\ FromCore1Now' = w /\ Edges <= Edges' /\ Message' <= Message
  <2>1. CASE after["core1"] = "responded" /\ Handle(bits)
    BY <1>1, <1>2, <1>3, <1>4, <2>1, AheadHandle
  <2>2. CASE after["core1"] = "idle" /\ Goto("core1", "idle") /\ bits' = bits
    <3>1. pc'["core1"] = "idle" /\ pc'["core0"] = pc["core0"]
      BY <2>2, GotoCores
    <3>2. /\ FromCore0Now' <= FromCore0Now /\ Running' /\ Edges <= Edges' /\ Message' <= Message
      BY <1>1, <1>3, <2>2, <3>1, Core0Stays
    <3>3. Steady'
      BY <1>1, <2>2, <3>1 DEF Ahead, Steady, SteadyAt
    <3>4. Backlog'
      BY <1>1, <3>1, BacklogSame DEF Ahead
    <3>5. FromCore1Now' = 0 + w
      BY <1>4, <2>2, <3>1 DEF FromCore1Now, FromCore1, One
    <3> QED
      BY <1>4, <3>2, <3>3, <3>4, <3>5
  <2> QED
    BY <1>2, <2>1, <2>2
<1>6. 1 + Coming' <= Coming
  <2>1. PICK a \in Int : a = FromCore0Now
    BY Numbers, Zenon DEF Ahead, InRange
  <2>2. PICK a2 \in Int : a2 = FromCore0Now' /\ a2 <= a
    BY <1>5, <2>1, NumbersNext, Zenon DEF InRange
  <2>3. FromCore1Now = 1 + w
    BY <1>1, <1>4 DEF FromCore1Now, FromCore1, One
  <2>4. a2 + (1 + w) <= a + (1 + w)
    <3>1. 1 + w \in Int /\ 1 + w <= 1 + w
      BY <1>4
    <3> QED
      BY <2>1, <2>2, <3>1, SumLess
  <2>5. Coming = a + (1 + w) /\ Coming' = a2 + w
    BY <1>5, <2>1, <2>2, <2>3 DEF Coming
  <2>6. 1 + (a2 + w) = a2 + (1 + w)
    BY <1>4, <2>2
  <2> QED
    BY <2>4, <2>5, <2>6
<1>7. Adds(held["core1"], 0, 0) /\ 0 + Message' <= Message
  <2>1. held["core1"] \in Opcodes
    BY <1>1, HeldWhilePushing, TypeParts DEF PushCall, Typed, Cores
  <2>2. Adds(held["core1"], 0, 0)
    BY <2>1, NamesApart DEF Adds, One
  <2>3. PICK b \in Int : b = Message
    BY Numbers, Zenon DEF Ahead, InRange
  <2>4. PICK b2 \in Int : b2 = Message' /\ b2 <= b
    BY <1>5, <2>3, NumbersNext, Zenon DEF InRange
  <2>5. 0 + b2 = b2
    OBVIOUS
  <2> QED
    BY <2>2, <2>3, <2>4, <2>5
<1> QED
  BY <1>1, <1>5, <1>6, <1>7, AheadAppend

LEMMA AheadCore1 ==
    ASSUME LargeEnough, Typed, Typed', Ahead, Core1
    PROVE  Ahead'
<1>1. CASE OpcodeWrite
  <2>1. /\ pc["core1"] = "write" /\ Goto("core1", "idle")
        /\ UNCHANGED <<ints, irq, responding, events, call_queue, opcode_queue, opcodes_finished, after, bits, todo>>
    BY <1>1 DEF OpcodeWrite, At, test, history, queues
  <2>2. pc'["core1"] = "idle" /\ pc'["core0"] = pc["core0"] /\ after'["core0"] = after["core0"]
    BY <2>1, GotoCores
  <2>3. /\ FromCore0Now' <= FromCore0Now /\ Running' /\ Edges <= Edges' /\ Message' <= Message
    BY <2>1, <2>2, Core0Stays
  <2>4. Steady'
    BY <2>1, <2>2 DEF Ahead, Steady, SteadyAt
  <2>5. Backlog'
    BY <2>1, <2>2, BacklogSame DEF Ahead
  <2>6. Coming' <= Coming
    <3>1. FromCore0Now' = FromCore0Now /\ FromCore1Now' = FromCore1Now
      BY <2>1, <2>2 DEF FromCore0Now, Queueing0, Responses0, FromCore1Now, FromCore1, One
    <3>2. PICK c \in Int : c = Coming
      BY Numbers, Zenon DEF Ahead, InRange
    <3>3. Coming' = Coming
      BY <3>1 DEF Coming
    <3> QED
      BY <3>2, <3>3
  <2> QED
    BY <2>1, <2>3, <2>4, <2>5, <2>6, AheadSame
<1> QED
  BY <1>1, AheadBuild, AheadOther, AheadPdMsgResponse, AheadOtherPdMsg, AheadParse, AheadResponse, AheadResponded,
     AheadPdMsg, AheadChgType, AheadCcStat, AheadPopCore1, AheadPushCore1 DEF Core1
-----------------------------------------------------------------------------
(* Core 0 *)

LEMMA Core1Stays ==
    ASSUME Typed, Ahead, pc'["core1"] = pc["core1"], after'["core1"] = after["core1"], bits' = bits,
           pc'["core0"] # "halted"
    PROVE  Running' /\ Steady' /\ Message' <= Message /\ FromCore1Now' = FromCore1Now
BY DEF Ahead, Running, Steady, Message, One, FromCore1Now

LEMMA AheadByCore0 ==
    ASSUME Typed, Typed', Ahead, UNCHANGED <<events, call_queue, bits>>,
           pc'["core1"] = pc["core1"], after'["core1"] = after["core1"], pc'["core0"] # "halted",
           FromCore0Now' <= FromCore0Now, Edges <= Edges', Backlog'
    PROVE  Ahead'
<1>1. Running' /\ Steady' /\ Message' <= Message /\ FromCore1Now' = FromCore1Now
  BY Core1Stays
<1>2. PICK a \in Int, b \in Int : a = FromCore0Now /\ b = FromCore1Now
  BY Numbers, Zenon DEF Ahead, InRange
<1>3. PICK a2 \in Int : a2 = FromCore0Now' /\ a2 <= a
  BY <1>1, <1>2, NumbersNext, Zenon DEF InRange
<1>4. a2 + b <= a + b
  <2>1. b <= b
    BY <1>2
  <2> QED
    BY <1>2, <1>3, <2>1, SumLess
<1>5. Coming = a + b /\ Coming' = a2 + b
  BY <1>1, <1>2, <1>3 DEF Coming
<1>6. Coming' <= Coming
  BY <1>4, <1>5
<1> QED
  BY <1>1, <1>6, AheadSame

(* Elsewhere than at the driven pin, what is yet to be appended for it and *)
(* the edges it gives do not change.                                       *)
Driving == {"drive", "driven", "unmask", "unmask_send", "last", "last_read"}

LEMMA EdgesSame ==
    ASSUME Typed, Ahead, UNCHANGED irq, pc["core0"] \notin Driving,
           pc'["core0"] \notin Driving \cup Clearing,
           (UNCHANGED ints /\ pc["core0"] \notin Clearing) \/ (ints' = {} /\ pc["core0"] = "clear_read")
    PROVE  Edges <= Edges' /\ (UNCHANGED ints /\ pc["core0"] \notin Clearing => Edges' = Edges)
<1>4. PICK o \in Int : o = One(irq) /\ o = One(irq')
  BY DEF One
<1>5. Past(pc'["core0"]) = 1
  BY DEF Past, One, Driving, Clearing
<1>6. CASE UNCHANGED ints /\ pc["core0"] \notin Clearing
  <2>1. Past(pc["core0"]) = 1
    BY <1>6 DEF Past, One, Driving, Clearing
  <2>2. PICK a \in Int : a = One(ints # {}) /\ a = One(ints' # {})
    BY <1>6 DEF One
  <2>3. Edges = a + 1 - o /\ Edges' = a + 1 - o
    BY <1>4, <1>5, <2>1, <2>2 DEF Edges
  <2> QED
    BY <1>4, <2>2, <2>3
<1>7. CASE ints' = {} /\ pc["core0"] = "clear_read"
  <2>1. Past(pc["core0"]) = 0
    BY <1>7 DEF Past, One, Clearing
  <2>2. PICK a \in {0, 1} : a = One(ints # {})
    BY DEF One
  <2>3. One(ints' # {}) = 0
    BY <1>7 DEF One
  <2>4. Edges = a + 0 - o /\ Edges' = 0 + 1 - o
    BY <1>4, <1>5, <2>1, <2>2, <2>3 DEF Edges
  <2>5. a + 0 - o <= 0 + 1 - o
    BY <1>4, <2>2
  <2> QED
    BY <1>7, <2>4, <2>5 DEF Clearing
<1> QED
  BY <1>6, <1>7

LEMMA ResponsesSame ==
    ASSUME Typed, Ahead, Typed', Steady', UNCHANGED responding, pc["core0"] \notin Driving,
           pc'["core0"] \notin Driving
    PROVE  /\ Responses0' = Responses0
           /\ Queueing0' <= Queueing0 => FromCore0Now' <= FromCore0Now
           /\ Queueing0 = Queueing0' + 1 => FromCore0Now = FromCore0Now' + 1
<1>1. Responses0' = Responses0
  BY DEF Responses0, Responses, Driving
<1>2. PICK q \in Int, r \in Int : q = Queueing0 /\ r = Responses0
  BY Numbers, Zenon DEF Ahead, InRange
<1>3. PICK q2 \in Int : q2 = Queueing0'
  BY NumbersNext, Zenon DEF InRange
<1>4. FromCore0Now = q + r /\ FromCore0Now' = q2 + r
  BY <1>1, <1>2, <1>3 DEF FromCore0Now
<1>5. q \in Int /\ r \in Int /\ q2 \in Int
  BY <1>2, <1>3
<1>6. (q2 <= q => q2 + r <= q + r) /\ (q = q2 + 1 => q + r = q2 + r + 1)
  BY <1>5
<1> QED
  BY <1>1, <1>2, <1>3, <1>4, <1>6

(* What queues nothing more than was yet to come. *)
LEMMA AheadElsewhere ==
    ASSUME Typed, Typed', Ahead, UNCHANGED <<irq, responding, events, call_queue, bits>>,
           pc'["core1"] = pc["core1"], after'["core1"] = after["core1"],
           pc["core0"] \notin Driving, pc'["core0"] \notin Driving \cup Clearing \cup {"halted"},
           (UNCHANGED ints /\ pc["core0"] \notin Clearing) \/ (ints' = {} /\ pc["core0"] = "clear_read"),
           Queueing0' <= Queueing0, Backlog'
    PROVE  Ahead'
<1>1. Edges <= Edges'
  BY EdgesSame
<1>2. Steady'
  BY Core1Stays
<1>3. FromCore0Now' <= FromCore0Now
  BY <1>2, ResponsesSame
<1> QED
  BY <1>1, <1>3, AheadByCore0

LEMMA AheadInit ==
    ASSUME LargeEnough, Typed, Typed', Ahead, ClearInterrupts \/ ClearInterruptsRead \/ InitAdd \/ InitPop
    PROVE  Ahead'
<1>0. PICK n \in Nat, t \in Nat, p \in Points, r \in Points, s \in Points :
          /\ n = Len(opcode_queue) /\ t = Len(todo) /\ p = pc["core0"] /\ r = pc["core1"] /\ s = after["core1"]
  <2>1. /\ Len(opcode_queue) \in Nat /\ Len(todo) \in Nat /\ Len(todo') \in Nat
        /\ pc["core0"] \in Points /\ pc["core1"] \in Points /\ after["core1"] \in Points
    BY DEF Typed, TypeOK, Cores
  <2> QED
    BY <2>1, Zenon
<1>1. BacklogAt(n, t, p, r, s)
  BY <1>0 DEF Ahead, Backlog
<1>2. CASE ClearInterruptsRead
  <2>1. /\ pc["core0"] = "clear_read" /\ ints' = {} /\ Goto("core0", "init")
        /\ UNCHANGED <<irq, responding, events, call_queue, opcode_queue, after, bits, todo>>
    BY <1>2 DEF ClearInterruptsRead, At, test, history, queues, buffers
  <2>2. pc'["core0"] = "init" /\ pc'["core1"] = pc["core1"]
    BY <2>1, GotoCores
  <2>3. Queueing0' <= Queueing0
    BY <2>1, <2>2 DEF Queueing0, FromCore0
  <2>4. Backlog'
    <3>1. BacklogAt(n, t, "init", r, s)
      BY <1>0, <1>1, <2>1 DEF BacklogAt, Behind
    <3> QED
      BY <1>0, <2>1, <2>2, <3>1 DEF Backlog
  <2> QED
    BY <2>1, <2>2, <2>3, <2>4, AheadElsewhere DEF Driving, Clearing
<1>5. CASE ClearInterrupts
  <2>1. /\ pc["core0"] = "clear" /\ Goto("core0", "clear_read")
        /\ UNCHANGED <<ints, irq, responding, events, call_queue, opcode_queue, opcodes_finished,
                      after, bits, todo>>
    BY <1>5 DEF ClearInterrupts, At, chip, test, history, queues
  <2>2. pc'["core0"] = "clear_read" /\ pc'["core1"] = pc["core1"]
    BY <2>1, GotoCores
  <2>3. Queueing0' = Queueing0 /\ Responses0' = Responses0
    BY <2>1, <2>2 DEF Queueing0, FromCore0, Responses0, Responses
  <2>4. Backlog'
    <3>1. BacklogAt(n, t, "clear_read", r, s)
      BY <1>0, <1>1, <2>1 DEF BacklogAt, Behind
    <3> QED
      BY <1>0, <2>1, <2>2, <3>1 DEF Backlog
  <2>5. Edges' = Edges
    <3>1. Past(pc'["core0"]) = Past(pc["core0"])
      BY <2>1, <2>2 DEF Past, One, Clearing
    <3> QED
      BY <2>1, <3>1 DEF Edges
  <2>6. FromCore0Now' <= FromCore0Now /\ Edges <= Edges'
    <3>1. FromCore0Now \in Int /\ Edges \in Int
      BY Numbers DEF Ahead, InRange
    <3>2. FromCore0Now' = FromCore0Now
      BY <2>3 DEF FromCore0Now
    <3> QED
      BY <2>5, <3>1, <3>2
  <2> QED
    BY <2>1, <2>2, <2>4, <2>6, Core1Stays, AheadByCore0
<1>3. CASE InitAdd
  <2>1. /\ pc["core0"] = "init" /\ todo # <<>> /\ OpcodeQueueAdd("core0", Head(todo), "init")
        /\ todo' = Tail(todo) /\ Head(todo) \in Opcodes
        /\ UNCHANGED <<ints, irq, responding, events, call_queue, after, bits>>
    BY <1>3, SeqTail DEF InitAdd, OpcodeIsNext, At, chip, test, history, buffers, Typed, TypeOK
  <2>2. /\ Goto("core0", "init") /\ Len(opcode_queue') = Len(opcode_queue) + 1
    BY <2>1, OpcodesFit, AddFits DEF Cores
  <2>3. pc'["core0"] = "init" /\ pc'["core1"] = pc["core1"]
    BY <2>2, GotoCores
  <2>4. Queueing0' <= Queueing0
    BY <2>1, <2>3 DEF Queueing0, FromCore0
  <2>5. Backlog'
    <3>1. Len(todo') = t - 1 /\ Len(opcode_queue') = n + 1
      BY <1>0, <2>1, <2>2, SeqTail DEF Typed, TypeOK
    <3>2. BacklogAt(n + 1, t - 1, "init", r, s)
      BY <1>0, <1>1, <2>1 DEF BacklogAt, Behind, One
    <3> QED
      BY <1>0, <2>1, <2>3, <3>1, <3>2 DEF Backlog
  <2> QED
    BY <2>1, <2>3, <2>4, <2>5, AheadElsewhere DEF Driving, Clearing
<1>4. CASE InitPop
  <2>1. /\ pc["core0"] = "init" /\ todo = <<>> /\ Goto("core0", "pop")
        /\ after' = [after EXCEPT !["core0"] = "cc"]
        /\ UNCHANGED <<ints, irq, responding, events, call_queue, opcode_queue, bits, todo>>
    BY <1>4 DEF InitPop, At, chip, test, history, queues, buffers
  <2>2. /\ pc'["core0"] = "pop" /\ pc'["core1"] = pc["core1"]
        /\ after'["core0"] = "cc" /\ after'["core1"] = after["core1"]
    BY <2>1, GotoCores DEF Typed, TypeOK, Cores
  <2>3. Queueing0' <= Queueing0
    BY <2>1, <2>2 DEF Queueing0, FromCore0
  <2>4. Backlog'
    <3>1. BacklogAt(n, t, "pop", r, s)
      BY <1>0, <1>1, <2>1 DEF BacklogAt, Behind, One
    <3> QED
      BY <1>0, <2>1, <2>2, <3>1 DEF Backlog
  <2> QED
    BY <2>1, <2>2, <2>3, <2>4, AheadElsewhere DEF Driving, Clearing
<1> QED
  BY <1>5, <1>2, <1>3, <1>4

(* on_start sleeps until call_queue is empty. *)
LEMMA AheadBoot ==
    ASSUME LargeEnough, Typed, Typed', Ahead, Boot
    PROVE  Ahead'
<1>1. /\ pc["core0"] = "boot" /\ call_queue = <<>> /\ Goto("core0", "test")
      /\ UNCHANGED <<ints, irq, responding, call_queue, opcode_queue, after, bits>>
  BY DEF Boot, Settled, At, chip, test, queues, buffers
<1>2. pc'["core0"] = "test" /\ pc'["core1"] = pc["core1"]
  BY <1>1, GotoCores
<1>3. Running' /\ Steady' /\ Edges' = Edges
  BY <1>1, <1>2, Core1Stays, EdgesSame DEF Driving, Clearing
<1>4. Backlog'
  <2>1. PICK n, t, t2, r, s :
            /\ n = Len(opcode_queue) /\ t = Len(todo) /\ t2 = Len(todo')
            /\ r = pc["core1"] /\ s = after["core1"]
    OBVIOUS
  <2>2. BacklogAt(n, t, "boot", r, s)
    BY <1>1, <2>1 DEF Ahead, Backlog
  <2>3. BacklogAt(n, t2, "test", r, s)
    BY <2>2 DEF BacklogAt, Behind
  <2> QED
    BY <1>1, <1>2, <2>1, <2>3 DEF Backlog
<1>5. Balance'
  BY <1>1, <1>3, BalanceEmpty DEF Ahead
<1> QED
  BY <1>3, <1>4, <1>5 DEF Ahead

LEMMA AheadTests ==
    ASSUME LargeEnough, Typed, Typed', Ahead, TestSend \/ TestWait \/ TestCompare
    PROVE  Ahead'
<1>0. PICK n \in Nat, t \in Nat, t2 \in Nat, p \in Points, r \in Points, s \in Points :
          /\ n = Len(opcode_queue) /\ t = Len(todo) /\ t2 = Len(todo')
          /\ p = pc["core0"] /\ r = pc["core1"] /\ s = after["core1"]
  <2>1. /\ Len(opcode_queue) \in Nat /\ Len(todo) \in Nat /\ Len(todo') \in Nat
        /\ pc["core0"] \in Points /\ pc["core1"] \in Points /\ after["core1"] \in Points
    BY DEF Typed, TypeOK, Cores
  <2> QED
    BY <2>1, Zenon
<1>1. BacklogAt(n, t, p, r, s)
  BY <1>0 DEF Ahead, Backlog
<1>2. CASE TestSend
  <2>1. /\ pc["core0"] = "test" /\ OpcodeQueueAdd("core0", Head(todo), "pop") /\ Head(todo) \in Opcodes
        /\ after' = [after EXCEPT !["core0"] = "wait"]
        /\ UNCHANGED <<ints, irq, responding, events, call_queue, bits, todo>>
    BY <1>2, SeqTail DEF TestSend, OpcodeIsNext, SendOpcode, At, chip, test, history, buffers, Typed, TypeOK
  <2>2. /\ Goto("core0", "pop") /\ opcodes_finished' = FALSE
        /\ Len(opcode_queue') = Len(opcode_queue) + 1
    BY <2>1, OpcodesFit, AddFits DEF Cores
  <2>3. /\ pc'["core0"] = "pop" /\ pc'["core1"] = pc["core1"]
        /\ after'["core0"] = "wait" /\ after'["core1"] = after["core1"]
    BY <2>1, <2>2, GotoCores DEF Typed, TypeOK, Cores
  <2>4. Queueing0' <= Queueing0
    BY <2>1, <2>2, <2>3 DEF Queueing0, FromCore0, One
  <2>5. Backlog'
    <3>1. BacklogAt(n + 1, t2, "pop", r, s)
      BY <1>0, <1>1, <2>1 DEF BacklogAt, Behind, One
    <3> QED
      BY <1>0, <2>2, <2>3, <3>1 DEF Backlog
  <2> QED
    BY <2>1, <2>3, <2>4, <2>5, AheadElsewhere DEF Driving, Clearing
<1>3. CASE TestWait
  <2>1. /\ pc["core0"] = "wait" /\ opcodes_finished = TRUE /\ Goto("core0", "compare")
        /\ UNCHANGED <<ints, irq, responding, events, call_queue, opcode_queue, opcodes_finished, after, bits, todo>>
    BY <1>3 DEF TestWait, At, chip, test, history, queues, buffers, Typed, TypeOK
  <2>2. pc'["core0"] = "compare" /\ pc'["core1"] = pc["core1"]
    BY <2>1, GotoCores
  <2>3. Queueing0' <= Queueing0
    BY <2>1, <2>2 DEF Queueing0, FromCore0, One
  <2>4. Backlog'
    <3>1. BacklogAt(n, t2, "compare", r, s)
      BY <1>0, <1>1, <2>1 DEF BacklogAt, Behind
    <3> QED
      BY <1>0, <2>1, <2>2, <3>1 DEF Backlog
  <2> QED
    BY <2>1, <2>2, <2>3, <2>4, AheadElsewhere DEF Driving, Clearing
<1>4. CASE TestCompare
  <2>1. /\ pc["core0"] = "compare" /\ Goto("core0", "test")
        /\ UNCHANGED <<ints, irq, responding, events, call_queue, opcode_queue, opcodes_finished, after, bits>>
    BY <1>4 DEF TestCompare, At, chip, test, history, queues, buffers
  <2>2. pc'["core0"] = "test" /\ pc'["core1"] = pc["core1"]
    BY <2>1, GotoCores
  <2>3. Queueing0' <= Queueing0
    BY <2>1, <2>2 DEF Queueing0, FromCore0, One
  <2>4. Backlog'
    <3>1. BacklogAt(n, t2, "test", r, s)
      BY <1>0, <1>1, <2>1 DEF BacklogAt, Behind
    <3> QED
      BY <1>0, <2>1, <2>2, <3>1 DEF Backlog
  <2> QED
    BY <2>1, <2>2, <2>3, <2>4, AheadElsewhere DEF Driving, Clearing
<1> QED
  BY <1>2, <1>3, <1>4

LEMMA AheadCcStatInit ==
    ASSUME LargeEnough, Typed, Typed', Ahead, InitCcStat \/ InitCcStatRead
    PROVE  Ahead'
<1>0. PICK n \in Nat, t \in Nat, p \in Points, r \in Points, s \in Points :
          /\ n = Len(opcode_queue) /\ t = Len(todo)
          /\ p = pc["core0"] /\ r = pc["core1"] /\ s = after["core1"]
  <2>1. /\ Len(opcode_queue) \in Nat /\ Len(todo) \in Nat
        /\ pc["core0"] \in Points /\ pc["core1"] \in Points /\ after["core1"] \in Points
    BY DEF Typed, TypeOK, Cores
  <2> QED
    BY <2>1, Zenon
<1>1. BacklogAt(n, t, p, r, s)
  BY <1>0 DEF Ahead, Backlog
<1>2. CASE InitCcStat
  <2>1. /\ pc["core0"] = "cc" /\ Goto("core0", "cc_read")
        /\ UNCHANGED <<ints, irq, responding, events, call_queue, opcode_queue, opcodes_finished, after, bits, todo>>
    BY <1>2 DEF InitCcStat, At, chip, test, history, queues
  <2>2. pc'["core0"] = "cc_read" /\ pc'["core1"] = pc["core1"]
    BY <2>1, GotoCores
  <2>3. Queueing0' <= Queueing0
    BY <2>1, <2>2 DEF Queueing0, FromCore0, One
  <2>4. Backlog'
    <3>1. BacklogAt(n, t, "cc_read", r, s)
      BY <1>0, <1>1, <2>1 DEF BacklogAt, Behind
    <3> QED
      BY <1>0, <2>1, <2>2, <3>1 DEF Backlog
  <2> QED
    BY <2>1, <2>2, <2>3, <2>4, AheadElsewhere DEF Driving, Clearing
<1>3. CASE InitCcStatRead
  <2>1. /\ pc["core0"] = "cc_read" /\ OnCcStatChange("core0", "boot")
        /\ UNCHANGED <<ints, irq, responding, events, call_queue, bits, todo>>
    BY <1>3 DEF InitCcStatRead, At, chip, test, history, buffers
  <2>2. CASE OpcodeQueueAdd("core0", "off", "pop") /\ after' = [after EXCEPT !["core0"] = "boot"]
    <3>1. Goto("core0", "pop") /\ Len(opcode_queue') = Len(opcode_queue) + 1
      BY <2>1, <2>2, OpcodesFit, AddFits, NamesApart DEF Cores
    <3>2. /\ pc'["core0"] = "pop" /\ pc'["core1"] = pc["core1"]
          /\ after'["core0"] = "boot" /\ after'["core1"] = after["core1"]
      BY <2>2, <3>1, GotoCores DEF Typed, TypeOK, Cores
    <3>3. Queueing0' <= Queueing0
      BY <2>1, <3>2 DEF Queueing0, FromCore0, One
    <3>4. Backlog'
      <4>1. BacklogAt(n + 1, t, "pop", r, s)
        BY <1>0, <1>1, <2>1 DEF BacklogAt, Behind, One
      <4> QED
        BY <1>0, <2>1, <3>1, <3>2, <4>1 DEF Backlog
    <3> QED
      BY <2>1, <3>2, <3>3, <3>4, AheadElsewhere DEF Driving, Clearing
  <2>3. CASE Goto("core0", "boot") /\ UNCHANGED <<opcode_queue, opcodes_finished, after>>
    <3>1. pc'["core0"] = "boot" /\ pc'["core1"] = pc["core1"]
      BY <2>3, GotoCores
    <3>2. Queueing0' <= Queueing0
      BY <2>1, <3>1 DEF Queueing0, FromCore0, One
    <3>3. Backlog'
      <4>1. BacklogAt(n, t, "boot", r, s)
        BY <1>0, <1>1, <2>1 DEF BacklogAt, Behind
      <4> QED
        BY <1>0, <2>1, <2>3, <3>1, <4>1 DEF Backlog
    <3> QED
      BY <2>1, <2>3, <3>1, <3>2, <3>3, AheadElsewhere DEF Driving, Clearing
  <2> QED
    BY <2>1, <2>2, <2>3 DEF OnCcStatChange, SendOpcode
<1> QED
  BY <1>2, <1>3

LEMMA Core0Returns ==
    ASSUME Typed, NEW result, PopReturns("core0", result), pc["core0"] \in {"pop", "push"}
    PROVE  /\ after["core0"] \in {"cc", "boot", "wait"} /\ pc'["core0"] = after["core0"]
           /\ pc'["core1"] = pc["core1"] /\ after'["core1"] = after["core1"] /\ bits' = bits
<1>1. after["core0"] \in {"cc", "boot", "wait"}
  BY DEF Typed, Placed
<1>2. Goto("core0", after["core0"]) /\ bits' = bits /\ after' = [after EXCEPT !["core0"] = "idle"]
  BY <1>1 DEF PopReturns
<1> QED
  BY <1>1, <1>2, GotoCores DEF Typed, TypeOK, Cores

LEMMA AheadPopCore0 ==
    ASSUME LargeEnough, Typed, Typed', Ahead, PopOpcode("core0")
    PROVE  Ahead'
<1>1. /\ pc["core0"] = "pop" /\ UNCHANGED <<ints, irq, responding, events, call_queue, opcodes_finished, todo>>
  BY DEF PopOpcode, At, chip, test, history
<1>2. PICK t, r, s : t = Len(todo) /\ r = pc["core1"] /\ s = after["core1"]
  OBVIOUS
<1>3. CASE opcode_queue = <<>>
  <2>1. /\ PopReturns("core0", FALSE) /\ UNCHANGED opcode_queue
    BY <1>3 DEF PopOpcode
  <2>2. /\ after["core0"] \in {"cc", "boot", "wait"} /\ pc'["core0"] = after["core0"]
        /\ pc'["core1"] = pc["core1"] /\ after'["core1"] = after["core1"] /\ bits' = bits
    BY <1>1, <2>1, Core0Returns
  <2>3. Queueing0' <= Queueing0
    BY <1>1, <2>2 DEF Queueing0, FromCore0, One
  <2>4. Backlog'
    <3>1. PICK n, p : n = Len(opcode_queue) /\ p = after["core0"]
      OBVIOUS
    <3>2. n = 0
      BY <1>3, <3>1
    <3>3. BacklogAt(n, t, p, r, s)
      BY <2>2, <3>1, <3>2 DEF BacklogAt, Behind, One
    <3> QED
      BY <1>1, <1>2, <2>1, <2>2, <3>1, <3>3 DEF Backlog
  <2> QED
    BY <1>1, <2>2, <2>3, <2>4, AheadElsewhere DEF Driving, Clearing
<1>4. CASE opcode_queue # <<>>
  <2>1. /\ opcode_queue' = Tail(opcode_queue) /\ Goto("core0", "push") /\ UNCHANGED <<after, bits>>
    BY <1>4 DEF PopOpcode
  <2>2. pc'["core0"] = "push" /\ pc'["core1"] = pc["core1"]
    BY <2>1, GotoCores
  <2>3. Queueing0' <= Queueing0
    <3>1. Queueing0' = Queueing0
      BY <1>1, <2>1, <2>2 DEF Queueing0, FromCore0, One
    <3>2. Queueing0 \in Int
      BY Numbers DEF Ahead, InRange
    <3> QED
      BY <3>1, <3>2
  <2>4. Backlog'
    <3>1. PICK n \in Int : n = Len(opcode_queue') /\ n + 1 = Len(opcode_queue)
      <4>1. opcode_queue \in Seq(Opcodes)
        BY DEF Typed, TypeOK
      <4>2. Len(opcode_queue') = Len(opcode_queue) - 1 /\ Len(opcode_queue) \in Nat
        BY <1>4, <2>1, <4>1, SeqTail
      <4> QED
        BY <4>2
    <3>2. BacklogAt(n + 1, t, "pop", r, s)
      BY <1>1, <1>2, <3>1 DEF Ahead, Backlog
    <3>3. BacklogAt(n, t, "push", r, s)
      BY <3>2 DEF BacklogAt, Behind, One
    <3> QED
      BY <1>1, <1>2, <2>1, <2>2, <3>1, <3>3 DEF Backlog
  <2> QED
    BY <1>1, <2>1, <2>2, <2>3, <2>4, AheadElsewhere DEF Driving, Clearing
<1> QED
  BY <1>3, <1>4

LEMMA AheadPushCore0 ==
    ASSUME LargeEnough, Typed, Typed', Ahead, PushCall("core0")
    PROVE  Ahead'
<1>1. /\ pc["core0"] = "push" /\ call_queue' = Append(call_queue, held["core0"])
      /\ PopReturns("core0", TRUE)
      /\ UNCHANGED <<ints, irq, responding, events, opcode_queue, opcodes_finished, todo>>
  <2>1. Len(call_queue) # CallCap
    <3>1. Len(call_queue) < CallCap /\ Len(call_queue) \in Nat
      BY CallsFit DEF Typed, TypeOK
    <3> QED
      BY <3>1, CapsNat
  <2> QED
    BY <2>1 DEF PushCall, At, chip, test, history
<1>2. /\ after["core0"] \in {"cc", "boot", "wait"} /\ pc'["core0"] = after["core0"]
      /\ pc'["core1"] = pc["core1"] /\ after'["core1"] = after["core1"] /\ bits' = bits
  BY <1>1, Core0Returns
<1>3. /\ Running' /\ Steady' /\ Message' <= Message /\ FromCore1Now' = FromCore1Now /\ Edges <= Edges'
  BY <1>1, <1>2, Core1Stays, EdgesSame DEF Driving, Clearing
<1>4. Backlog'
  <2>1. PICK n, t, r, s, p : n = Len(opcode_queue) /\ t = Len(todo) /\ r = pc["core1"] /\ s = after["core1"]
                             /\ p = after["core0"]
    OBVIOUS
  <2>2. BacklogAt(n, t, "push", r, s)
    BY <1>1, <2>1 DEF Ahead, Backlog
  <2>3. BacklogAt(n, t, p, r, s)
    BY <1>2, <2>1, <2>2 DEF BacklogAt, Behind
  <2> QED
    BY <1>1, <1>2, <2>1, <2>3 DEF Backlog
<1>5. PICK a \in Int, b \in Int, m \in Int : a = FromCore0Now /\ b = FromCore1Now /\ m = Message
  BY Numbers, Zenon DEF Ahead, InRange
<1>6. FromCore0Now = FromCore0Now' + 1
  <2>1. Queueing0 = Queueing0' + 1
    BY <1>1, <1>2 DEF Queueing0, FromCore0, One
  <2>2. UNCHANGED responding /\ pc["core0"] \notin Driving /\ pc'["core0"] \notin Driving
    BY <1>1, <1>2 DEF Driving
  <2> QED
    BY <1>3, <2>1, <2>2, ResponsesSame
<1>7. PICK a2 \in Int, m2 \in Int : a2 = FromCore0Now' /\ m2 = Message' /\ m2 <= m
  BY <1>3, <1>5, NumbersNext, Zenon DEF InRange
<1>8. 1 + Coming' <= Coming
  <2>1. Coming = a + b /\ Coming' = a2 + b
    BY <1>3, <1>5, <1>7 DEF Coming
  <2>2. a = a2 + 1
    BY <1>5, <1>6, <1>7
  <2>3. (a2 + 1) + b = 1 + (a2 + b)
    OBVIOUS
  <2>4. 1 + (a2 + b) <= 1 + (a2 + b)
    OBVIOUS
  <2> QED
    BY <2>1, <2>2, <2>3, <2>4
<1>9. 0 + Message' <= Message
  <2>1. 0 + m2 = m2
    OBVIOUS
  <2> QED
    BY <1>5, <1>7, <2>1
<1>10. Adds(held["core0"], 0, 0)
  <2>1. held["core0"] \in Opcodes
    BY HeldWhilePushing, TypeParts DEF PushCall, Typed, Cores
  <2> QED
    BY <2>1, NamesApart DEF Adds, One
<1> QED
  BY <1>1, <1>3, <1>4, <1>8, <1>9, <1>10, AheadAppend

(* The interrupt test and the registers. *)

LEMMA BacklogRests ==
    ASSUME Typed, Backlog, UNCHANGED opcode_queue, pc'["core1"] = pc["core1"], after'["core1"] = after["core1"],
           pc["core0"] \notin {"clear", "clear_read", "init", "pop"}, pc'["core0"] \notin {"clear", "clear_read", "init", "pop"}
    PROVE  Backlog'
<1>1. PICK n, t, t2, p, p2, r, s : (/\ n = Len(opcode_queue) /\ t = Len(todo) /\ t2 = Len(todo')
                                    /\ p = pc["core0"] /\ p2 = pc'["core0"]
                                    /\ r = pc["core1"] /\ s = after["core1"])
  OBVIOUS
<1>2. BacklogAt(n, t, p, r, s)
  BY <1>1 DEF Backlog
<1>3. p \notin {"clear", "clear_read", "init", "pop"} /\ p2 \notin {"clear", "clear_read", "init", "pop"}
  BY <1>1
<1>4. BacklogAt(n, t2, p2, r, s)
  BY <1>2, <1>3 DEF BacklogAt, Behind
<1> QED
  BY <1>1, <1>4 DEF Backlog

LEMMA NowLess ==
    ASSUME Typed, Ahead, Typed', Steady', Queueing0' <= Queueing0, Responses0' <= Responses0
    PROVE  FromCore0Now' <= FromCore0Now
<1>1. PICK q \in Int, r \in Int : q = Queueing0 /\ r = Responses0
  BY Numbers, Zenon DEF Ahead, InRange
<1>2. PICK q2 \in Int, r2 \in Int : q2 = Queueing0' /\ r2 = Responses0'
  BY NumbersNext, Zenon DEF InRange
<1>3. FromCore0Now = q + r /\ FromCore0Now' = q2 + r2
  BY <1>1, <1>2 DEF FromCore0Now
<1> QED
  BY <1>1, <1>2, <1>3, SumLess

LEMMA AheadRegisters ==
    ASSUME LargeEnough, Typed, Typed', Ahead, TestRegister \/ TestRegisterRead
    PROVE  Ahead'
<1>1. UNCHANGED <<ints, irq, responding, events, call_queue, opcode_queue, opcodes_finished, after, bits>>
  BY DEF TestRegister, TestRegisterRead, chip, test, history, queues, buffers
<1>2. \/ pc["core0"] = "test" /\ Goto("core0", "register_read")
      \/ pc["core0"] = "last" /\ Goto("core0", "last_read")
      \/ pc["core0"] = "register_read" /\ Goto("core0", "test")
      \/ pc["core0"] = "last_read" /\ Goto("core0", "last")
  <2>1. PICK read \in ReadsBetween : (\/ At("core0", read[1]) /\ Goto("core0", read[2])
                                      \/ At("core0", read[2]) /\ Goto("core0", read[1]))
    BY DEF TestRegister, TestRegisterRead
  <2>2. CASE read = <<"test", "register_read">>
    BY <2>1, <2>2 DEF At
  <2>3. CASE read = <<"last", "last_read">>
    BY <2>1, <2>3 DEF At
  <2> QED
    BY <2>2, <2>3 DEF ReadsBetween
<1>3. /\ pc'["core1"] = pc["core1"] /\ pc'["core0"] \in {"test", "register_read", "last", "last_read"}
      /\ pc["core0"] \in {"test", "register_read", "last", "last_read"}
      /\ pc["core0"] \in {"test", "register_read"} <=> pc'["core0"] \in {"test", "register_read"}
  BY <1>2, GotoCores
<1>4. Queueing0' = Queueing0 /\ Responses0' = Responses0
  BY <1>1, <1>3 DEF Queueing0, FromCore0, Responses0, Responses
<1>5. Edges' = Edges
  <2>1. Past(pc'["core0"]) = Past(pc["core0"])
    BY <1>3 DEF Past, One, Clearing
  <2> QED
    BY <1>1, <2>1 DEF Edges
<1>6. Steady' /\ Backlog'
  BY <1>1, <1>3, Core1Stays, BacklogRests DEF Ahead
<1>7. FromCore0Now' <= FromCore0Now /\ Edges <= Edges'
  <2>1. FromCore0Now \in Int /\ Edges \in Int
    BY Numbers DEF Ahead, InRange
  <2>2. FromCore0Now' = FromCore0Now
    BY <1>4 DEF FromCore0Now
  <2> QED
    BY <1>5, <2>1, <2>2
<1> QED
  BY <1>1, <1>3, <1>6, <1>7, AheadByCore0

LEMMA AheadInterruptTest ==
    ASSUME LargeEnough, Typed, Typed', Ahead,
           \/ TestMask \/ TestMaskSend \/ TestStart \/ TestDrive \/ TestRelease
           \/ TestUnmask \/ TestUnmaskSend
    PROVE  Ahead'
<1>1. UNCHANGED <<ints, responding, events, call_queue, opcode_queue, opcodes_finished, after, bits>>
  BY DEF TestMask, TestMaskSend, TestStart, TestDrive, TestRelease, TestUnmask, TestUnmaskSend, chip, test, history, queues, buffers
<1>2. \/ pc["core0"] = "test" /\ Goto("core0", "mask_send") /\ irq' = irq
      \/ pc["core0"] = "mask_send" /\ Goto("core0", "start") /\ irq' = irq
      \/ pc["core0"] = "start" /\ Goto("core0", "drive") /\ irq' = irq
      \/ pc["core0"] = "drive" /\ Goto("core0", "driven") /\ irq' = TRUE
      \/ pc["core0"] = "driven" /\ Goto("core0", "unmask") /\ irq' = irq
      \/ pc["core0"] = "unmask" /\ Goto("core0", "unmask_send") /\ irq' = irq
      \/ pc["core0"] = "unmask_send" /\ Goto("core0", "last")
  BY DEF TestMask, TestMaskSend, TestStart, TestDrive, TestRelease, TestUnmask, TestUnmaskSend, At, chip
<1>3. /\ pc'["core1"] = pc["core1"]
      /\ \/ pc["core0"] = "test" /\ pc'["core0"] = "mask_send" /\ irq' = irq
         \/ pc["core0"] = "mask_send" /\ pc'["core0"] = "start" /\ irq' = irq
         \/ pc["core0"] = "start" /\ pc'["core0"] = "drive" /\ irq' = irq
         \/ pc["core0"] = "drive" /\ pc'["core0"] = "driven" /\ irq' = TRUE
         \/ pc["core0"] = "driven" /\ pc'["core0"] = "unmask" /\ irq' = irq
         \/ pc["core0"] = "unmask" /\ pc'["core0"] = "unmask_send" /\ irq' = irq
         \/ pc["core0"] = "unmask_send" /\ pc'["core0"] = "last"
  BY <1>2, GotoCores
<1>4. One(irq) \in {0, 1} /\ One(irq') \in {0, 1} /\ One(responding) \in {0, 1} /\ One(TRUE) = 1
  BY DEF One
<1>5. Queueing0' <= Queueing0
  BY <1>3 DEF Queueing0, FromCore0, One
<1>6. Responses0' <= Responses0
  BY <1>1, <1>3, <1>4 DEF Responses0, Responses
<1>7. Edges <= Edges'
  <2>1. PICK a \in Int : a = One(ints # {}) /\ a = One(ints' # {})
    BY <1>1 DEF One
  <2>2. PICK o \in {0, 1}, o2 \in {0, 1} : o = One(irq) /\ o2 = One(irq')
    BY <1>4
  <2>3. PICK k \in 0 .. 3, k2 \in 0 .. 3 : k = Past(pc["core0"]) /\ k2 = Past(pc'["core0"])
    BY PastBounds
  <2>4. k - o <= k2 - o2
    <3>1. (k2 = k /\ o2 = o) \/ k2 = k + 1
      BY <1>3, <2>2, <2>3 DEF Past, One, Clearing
    <3> QED
      BY <2>2, <2>3, <3>1
  <2>5. Edges = a + k - o /\ Edges' = a + k2 - o2
    BY <2>1, <2>2, <2>3 DEF Edges
  <2> QED
    BY <2>1, <2>2, <2>3, <2>4, <2>5
<1>8. Steady' /\ Backlog'
  BY <1>1, <1>3, Core1Stays, BacklogRests DEF Ahead
<1>9. FromCore0Now' <= FromCore0Now
  BY <1>5, <1>6, <1>8, NowLess
<1> QED
  BY <1>1, <1>3, <1>7, <1>8, <1>9, AheadByCore0

(* An answer due is one response more. *)
LEMMA ResponsesDue ==
    ASSUME NEW point, NEW edge \in BOOLEAN
    PROVE  Responses(point, edge, TRUE) = 1 + Responses(point, edge, FALSE)
<1>1. PICK n \in Int : n = (IF point \in {"unmask", "unmask_send", "last", "last_read"} THEN 0
                          ELSE IF point = "driven" THEN One(edge)
                          ELSE IF point = "drive" THEN 1 + One(edge)
                          ELSE 2)
  BY DEF One
<1>2. Responses(point, edge, TRUE) = 1 + n
  BY <1>1 DEF Responses, One
<1>3. Responses(point, edge, FALSE) = n
  BY <1>1 DEF Responses, One
<1> QED
  BY <1>2, <1>3, Zenon

(* The interrupt handler's answer to the driven pin. *)
LEMMA AheadRespond ==
    ASSUME LargeEnough, Typed, Typed', Ahead, OnInterruptRespond
    PROVE  Ahead'
<1>1. Len(call_queue) < CallCap
  BY CallsFit
<1>2. /\ call_queue' = Append(call_queue, "test_response") /\ responding = TRUE /\ responding' = FALSE
      /\ UNCHANGED <<pc, after, bits, todo, ints, irq, events, opcode_queue, opcodes_finished>>
  BY <1>1 DEF OnInterruptRespond, CallQueueTryAdd, buffers, chip, history, Typed, TypeOK
<1>3. Running' /\ Steady' /\ Backlog'
  BY <1>2 DEF Ahead, Running, Steady, Backlog
<1>4. Edges' = Edges /\ Message' = Message /\ Queueing0' = Queueing0 /\ FromCore1Now' = FromCore1Now
  BY <1>2 DEF Edges, Message, Queueing0, FromCore1Now
<1>5. PICK q \in Int, r \in Int, b \in Int, g \in Int, m \in Int :
          q = Queueing0 /\ r = Responses0 /\ b = FromCore1Now /\ g = Edges /\ m = Message
  BY Numbers, Zenon DEF Ahead, InRange
<1>6. PICK r2 \in Int : r2 = Responses0'
  BY <1>3, NumbersNext, Zenon DEF InRange
<1>7. r = 1 + r2
  <2>1. One(irq) \in {0, 1} /\ One(TRUE) = 1 /\ One(FALSE) = 0
    BY DEF One
  <2>2. PICK point : point = pc["core0"] /\ point = pc'["core0"]
    BY <1>2
  <2>3. Responses(point, irq, TRUE) = 1 + Responses(point, irq, FALSE)
    <3>1. irq \in BOOLEAN
      BY DEF Typed, TypeOK
    <3> QED
      BY <3>1, ResponsesDue
  <2>4. r = Responses(point, irq, TRUE) /\ r2 = Responses(point, irq, FALSE)
    BY <1>2, <1>5, <1>6, <2>2 DEF Responses0
  <2> QED
    BY <2>3, <2>4
<1>8. Coming = q + r + b /\ Coming' = q + r2 + b
  BY <1>4, <1>5, <1>6 DEF Coming, FromCore0Now
<1>9. 1 + Coming' <= Coming /\ Edges <= Edges' /\ 0 + Message' <= Message
  <2>1. 1 + (q + r2 + b) <= q + r + b /\ g <= g /\ 0 + m <= m
    <3>1. q \in Int /\ r2 \in Int /\ b \in Int /\ g \in Int /\ m \in Int
      BY <1>5, <1>6
    <3> QED
      BY <1>7, <3>1
  <2> QED
    BY <1>4, <1>5, <1>8, <2>1
<1>10. Adds("test_response", 0, 0)
  BY NamesApart DEF Adds, One
<1> QED
  BY <1>2, <1>3, <1>9, <1>10, AheadAppend

LEMMA AheadCore0 ==
    ASSUME LargeEnough, Typed, Typed', Ahead, Core0
    PROVE  Ahead'
BY AheadInit, AheadBoot, AheadTests, AheadCcStatInit, AheadPopCore0, AheadPushCore0, AheadRegisters,
   AheadInterruptTest DEF Core0

-----------------------------------------------------------------------------
LEMMA AheadInitially == Init => Ahead
<1> SUFFICES ASSUME Init PROVE Ahead
  OBVIOUS
<1>1. pc["core0"] = "clear" /\ pc["core1"] = "idle" /\ after["core1"] = "idle"
  BY DEF Init, Cores
<1>2. Running /\ Steady
  BY <1>1 DEF Init, Running, Steady, SteadyAt
<1>3. Backlog
  <2>1. Len(opcode_queue) = 0 /\ Len(todo) = 3
    BY DEF Init, InitOpcodes
  <2>2. BacklogAt(0, 3, "clear", "idle", "idle")
    BY DEF BacklogAt, Behind, One
  <2> QED
    BY <1>1, <2>1, <2>2 DEF Backlog
<1>4. Balance
  <2> DEFINE z == [i \in 0 .. 0 |-> 0]
  <2>1. Len(call_queue) = 0 /\ call_queue \in Seq(Entries) /\ \A i \in 1 .. 0 : FALSE
    BY DEF Init
  <2>2. z \in [0 .. 0 -> Int] /\ z[0] = 0
    OBVIOUS
  <2> HIDE DEF z
  <2>3. Marks(call_queue, z, z)
    BY <2>1, <2>2 DEF Marks
  <2>4. Edges = 0
    BY <1>1 DEF Init, Edges, Past, One, Clearing
  <2>5. Balanced(call_queue, z, z, Edges, Message, Coming, Room)
    BY <2>1, <2>2, <2>4 DEF Balanced
  <2> QED
    BY <2>3, <2>5 DEF Balance
<1> QED
  BY <1>2, <1>3, <1>4 DEF Ahead

LEMMA AheadNext ==
    ASSUME LargeEnough, Typed, Typed', Ahead, [Next]_vars
    PROVE  Ahead'
<1>1. CASE UNCHANGED vars
  <2>1. UNCHANGED <<pc, after, bits, ints, irq, responding, events, call_queue, opcode_queue,
                  opcodes_finished, todo>>
    BY <1>1 DEF vars, chip, test, history, queues, control, buffers
  <2>2. Running' /\ Steady' /\ Backlog'
    BY <2>1 DEF Ahead, Running, Steady, Backlog
  <2>3. Balance'
    BY <2>1 DEF Ahead, Balance, Edges, Message, Coming, FromCore0Now, Queueing0, Responses0,
       FromCore1Now, Room
  <2> QED
    BY <2>2, <2>3 DEF Ahead
<1> QED
  BY <1>1, AheadChip, AheadInterrupt, AheadRespond, AheadCore0, AheadCore1 DEF Next

(* The asserts of call_queue_try_add and opcode_queue_add never fail, and  *)
(* no opcode is dropped by a pop, whatever the tests and however often the *)
(* port's interrupt is raised, when the queues have this much room; when   *)
(* other chips interrupt too, one more place for each event.               *)
THEOREM NeverFullAlways ==
    ASSUME CallCap >= 32 + (IF "other" \in Events THEN MaxEvents ELSE 0), OpcodeCap >= 4
    PROVE  Spec => []NeverFull
<1>1. LargeEnough
  BY CapsNat DEF LargeEnough, MostRoom
<1>2. Typed /\ Typed' /\ Ahead /\ [Next]_vars => Ahead'
  BY <1>1, AheadNext
<1>3. Typed /\ Ahead => NeverFull
  BY <1>1, CallsFit DEF Ahead, Running, NeverFull, Cores
<1> QED
  BY <1>2, <1>3, AheadInitially, TypedAlways, PTL DEF Spec
=============================================================================
