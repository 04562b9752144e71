---------------------------- MODULE OpcodeEngine ----------------------------
(***************************************************************************)
(* The USB-C controller driver of max77958.c with the call_queue and the   *)
(* second core of robot.c that it runs on.  Commands to the chip           *)
(* ("opcodes") wait in opcode_queue; opcode_queue_pop moves one to         *)
(* call_queue; core 1 runs call_queue's entries one by one; the chip       *)
(* answers a written opcode with an interrupt, whose handler on core 1     *)
(* pops the next.  Core 0 queues opcodes too, in max77958_init and in the  *)
(* self-tests, while its interrupt handler feeds call_queue.               *)
(* The functions of either core build what they send in one send_buf and   *)
(* read into one return_buf, with no lock.  They are core 1's, but core 0  *)
(* uses them too: in max77958_init, while core 1 has begun on the first    *)
(* opcode, and for the registers it reads in the self-tests and after.     *)
(***************************************************************************)
EXTENDS Integers, Sequences, FiniteSets

CONSTANTS
    CallCap,        \* entries call_queue holds, 256
    OpcodeCap,      \* entries opcode_queue holds, 16
    Tests,          \* the self-tests core 0 runs after init: opcodes, and
                    \* Register for one that reads a register
    Events,         \* what happens outside: a subset of EventKinds
    MaxEvents       \* how often, a bound for TLC

EventKinds == {"cc", "cc_and_chgtype", "pd", "other"}

ASSUME ConstantsAssumption ==
    /\ CallCap \in Nat \ {0}
    /\ OpcodeCap \in Nat \ {0}
    /\ Tests \in Seq(STRING)
    /\ Events \subseteq EventKinds
    /\ MaxEvents \in Nat

(* The self-tests' functions are not those of other entries of call_queue. *)
ASSUME TestsAssumption ==
    \A i \in DOMAIN Tests : Tests[i] \notin {"none", "parse", "pd_msg", "test_response", "other"}

Cores == {"core0", "core1"}
InitOpcodes == <<"low", "off", "config">>
Register == "register"
TestOpcodes == {Tests[i] : i \in DOMAIN Tests} \ {Register}
LastReads == <<Register, Register, Register>>
Opcodes == {"low", "off", "config", "on"} \cup TestOpcodes
NoOpcode == "none"

Entries == Opcodes \cup {"parse", "pd_msg", "test_response", "other"}

VARIABLES
    \* the chip and its interrupt line
    cc,                 \* CCStat: "none", "sink" or "source"
    pd,                 \* PD_STATUS0: the last message received
    ints,               \* interrupt bits set, cleared by reading them
    executing,          \* opcodes written and not yet answered
    answer,             \* the self-test's opcode that its return registers hold, or another
    vbus,               \* GPIO4: VBUS is driven
    irq,                \* a falling edge of INTB is latched
    events,             \* events so far
    crowded,            \* history: one came before the last was dealt with
    \* the firmware
    call_queue, opcode_queue, opcodes_finished,
    op_code_return_buf, \* what was last read of them
    test_max77958_completed,
    responding,         \* the interrupt handler has a test_response to queue
    send_buf,           \* the opcode core 1 has built
    pc, after,          \* where each core is, and goes after opcode_queue_pop
    held,               \* the entry a core carries between the two queues
    bits,               \* interrupt bits core 1 has in return_buf and has yet to handle
    todo,               \* opcodes core 0 has yet to queue, registers it has yet to read
    clobbered           \* history: a core came between the other and its buffers

history == <<events, crowded>>
chip == <<cc, pd, ints, executing, answer, vbus, irq, history>>
queues == <<call_queue, opcode_queue, opcodes_finished>>
test == <<test_max77958_completed, responding>>
control == <<pc, after, held>>
buffers == <<send_buf, bits, clobbered>>
vars == <<chip, queues, op_code_return_buf, test, control, buffers, todo>>

Init ==
    /\ cc \in {"none", "source"} /\ pd = "none"
    /\ ints = {} /\ executing = <<>> /\ answer = NoOpcode
    /\ vbus = FALSE /\ irq = FALSE /\ events = 0 /\ crowded = FALSE
    /\ call_queue = <<>> /\ opcode_queue = <<>> /\ opcodes_finished = FALSE
    /\ op_code_return_buf = NoOpcode
    /\ test_max77958_completed = FALSE /\ responding = FALSE
    /\ pc = [c \in Cores |-> IF c = "core0" THEN "clear" ELSE "idle"]
    /\ after = [c \in Cores |-> "idle"]
    /\ held = [c \in Cores |-> NoOpcode]
    /\ send_buf = NoOpcode /\ bits = {} /\ clobbered = FALSE
    /\ todo = InitOpcodes

(* What a garbled transfer does to the chip is the chip's: the model ends  *)
(* when a core has come between the other and its buffers.                 *)
At(c, point) == pc[c] = point /\ ~clobbered
Goto(c, point) == pc' = [pc EXCEPT ![c] = point]

(* test_max77958_interrupt masks the chip's interrupts, sets                *)
(* test_max77958_started, drives INTB low and undoes all this in the end.  *)
Masked == pc["core0"] \in {"start", "drive", "driven", "unmask", "unmask_send"}
Started == pc["core0"] \in {"drive", "driven"}

-----------------------------------------------------------------------------
(* The chip (external) *)

(* INTB falls when the first bit is set and rises when they are read, or   *)
(* masked.                                                                 *)
Raise(new) ==
    /\ ints' = ints \cup new
    /\ irq' = (irq \/ (ints = {} /\ ~Masked))

(* Opcodes are carried out in the order written, each with its response. *)
Respond ==
    /\ executing # <<>> /\ ~clobbered
    /\ executing' = Tail(executing)
    /\ answer' = IF Head(executing) \in TestOpcodes THEN Head(executing) ELSE NoOpcode
    /\ vbus' = CASE Head(executing) = "on" -> TRUE
                 [] Head(executing) \in {"off", "low"} -> FALSE
                 [] OTHER -> vbus
    /\ Raise({"response"})
    /\ UNCHANGED <<cc, pd, history, queues, op_code_return_buf, test, control, buffers, todo>>

(* Nothing is left to do for what has happened so far. *)
Settled ==
    /\ call_queue = <<>> /\ opcode_queue = <<>> /\ executing = <<>>
    /\ ints = {} /\ ~irq
    /\ At("core1", "idle") /\ held["core0"] = NoOpcode

Event(kind) ==
    /\ kind \in Events
    /\ events < MaxEvents /\ ~clobbered
    /\ events' = events + 1
    /\ crowded' = (crowded \/ ~Settled)

(* A cable is plugged, unplugged or changes role. *)
CcChange(kind, new) ==
    /\ kind \in {"cc", "cc_and_chgtype"}
    /\ Event(kind)
    /\ new # cc
    /\ cc' = new
    /\ Raise(IF kind = "cc" THEN {"cc"} ELSE {"cc", "chgtype"})
    /\ UNCHANGED <<pd, executing, answer, vbus, queues, op_code_return_buf, test, control, buffers, todo>>

PdMessage(message) ==
    /\ Event("pd")
    /\ cc # "none"
    /\ pd' = message
    /\ Raise({"pd"})
    /\ UNCHANGED <<cc, executing, answer, vbus, queues, op_code_return_buf, test, control, buffers, todo>>

-----------------------------------------------------------------------------
(* Core 0's interrupt handler: it may run between any two steps of core 0. *)
(* A full call_queue fails its assert, which stops the core.  While it     *)
(* responds the rest of core 0 stands still.                               *)

CallQueueTryAdd(entry) ==
    IF Len(call_queue) < CallCap
    THEN call_queue' = Append(call_queue, entry) /\ UNCHANGED pc
    ELSE Goto("core0", "halted") /\ UNCHANGED call_queue

(* Mutant: the edge is not acknowledged. *)
OnInterruptUnacknowledged ==
    /\ irq /\ ~responding /\ ~clobbered
    /\ pc["core0"] # "halted"
    /\ CallQueueTryAdd("parse")
    /\ responding' = Started
    /\ UNCHANGED <<chip, opcode_queue, opcodes_finished, op_code_return_buf,
                   test_max77958_completed, after, held, buffers, todo>>

OnInterrupt ==
    /\ irq /\ ~responding /\ ~clobbered
    /\ pc["core0"] # "halted"
    /\ irq' = FALSE
    /\ CallQueueTryAdd("parse")
    /\ responding' = Started
    /\ UNCHANGED <<cc, pd, ints, executing, answer, vbus, history, opcode_queue, opcodes_finished,
                   op_code_return_buf, test_max77958_completed, after, held, buffers, todo>>

OnInterruptRespond ==
    /\ responding /\ ~clobbered
    /\ pc["core0"] # "halted"
    /\ responding' = FALSE
    /\ CallQueueTryAdd("test_response")
    /\ UNCHANGED <<chip, opcode_queue, opcodes_finished, op_code_return_buf,
                   test_max77958_completed, after, held, buffers, todo>>

(* Another chip's interrupt. *)
OtherInterrupt ==
    /\ Event("other")
    /\ ~responding
    /\ pc["core0"] # "halted"
    /\ CallQueueTryAdd("other")
    /\ UNCHANGED <<cc, pd, ints, executing, answer, vbus, irq, opcode_queue, opcodes_finished,
                   op_code_return_buf, test, after, held, buffers, todo>>

-----------------------------------------------------------------------------
(* Called by either core *)

OpcodeQueueAdd(c, opcode, point) ==
    /\ opcodes_finished' = FALSE
    /\ IF Len(opcode_queue) < OpcodeCap
       THEN opcode_queue' = Append(opcode_queue, opcode) /\ Goto(c, point)
       ELSE Goto(c, "halted") /\ UNCHANGED opcode_queue

(* Core 1 goes through the interrupt bits in the order of                  *)
(* parse_interrupt_vals.                                                   *)
HandlerOrder == <<"response", "pd", "chgtype", "cc">>

Handle(left) ==
    LET ahead == {i \in DOMAIN HandlerOrder : HandlerOrder[i] \in left}
    IN  /\ bits' = left
        /\ UNCHANGED send_buf
        /\ \/ /\ ahead = {}
              /\ Goto("core1", "idle")
           \/ \E i \in ahead :
                 /\ \A j \in ahead : i <= j
                 /\ Goto("core1", HandlerOrder[i])

(* opcode_queue_pop returns; on_opcode_cmd_response looks at the result.   *)
PopReturns(c, result) ==
    /\ after' = [after EXCEPT ![c] = "idle"]
    /\ \/ /\ after[c] = "responded" /\ result
          /\ Handle(bits)
       \/ /\ after[c] = "responded" => ~result
          /\ Goto(c, after[c])
          /\ UNCHANGED <<send_buf, bits>>

(* Mutant: the two cores share one static entry. *)
PopOpcodeStaticEntry(c) ==
    /\ At(c, "pop")
    /\ IF opcode_queue = <<>>
       THEN /\ PopReturns(c, FALSE)
            /\ UNCHANGED <<opcode_queue, held>>
       ELSE /\ opcode_queue' = Tail(opcode_queue)
            /\ held' = [core \in Cores |-> Head(opcode_queue)]
            /\ Goto(c, "push")
            /\ UNCHANGED <<after, send_buf, bits>>
    /\ UNCHANGED <<chip, call_queue, opcodes_finished, op_code_return_buf, test, clobbered, todo>>

(* opcode_queue_pop takes an entry off one queue ... *)
PopOpcode(c) ==
    /\ At(c, "pop")
    /\ IF opcode_queue = <<>>
       THEN /\ PopReturns(c, FALSE)
            /\ UNCHANGED <<opcode_queue, held>>
       ELSE /\ opcode_queue' = Tail(opcode_queue)
            /\ held' = [held EXCEPT ![c] = Head(opcode_queue)]
            /\ Goto(c, "push")
            /\ UNCHANGED <<after, send_buf, bits>>
    /\ UNCHANGED <<chip, call_queue, opcodes_finished, op_code_return_buf, test, clobbered, todo>>

(* Mutant: one place is left free on call_queue.                           *)
PushCallOffByOne(c) ==
    /\ At(c, "push")
    /\ held' = [held EXCEPT ![c] = NoOpcode]
    /\ \/ /\ Len(call_queue) < CallCap - 1
          /\ call_queue' = Append(call_queue, held[c])
          /\ PopReturns(c, TRUE)
       \/ /\ Len(call_queue) >= CallCap - 1
          /\ PopReturns(c, FALSE)
          /\ UNCHANGED call_queue
    /\ UNCHANGED <<chip, opcode_queue, opcodes_finished, op_code_return_buf, test, clobbered, todo>>

(* ... and puts it on the other, if there is room. *)
PushCall(c) ==
    /\ At(c, "push")
    /\ held' = [held EXCEPT ![c] = NoOpcode]
    /\ \/ /\ Len(call_queue) < CallCap
          /\ call_queue' = Append(call_queue, held[c])
          /\ PopReturns(c, TRUE)
       \/ /\ Len(call_queue) = CallCap
          /\ PopReturns(c, FALSE)
          /\ UNCHANGED call_queue
    /\ UNCHANGED <<chip, opcode_queue, opcodes_finished, op_code_return_buf, test, clobbered, todo>>

(* opcode_queue_add and opcode_queue_pop, then on to the next point *)
SendOpcode(c, opcode, next) ==
    /\ OpcodeQueueAdd(c, opcode, "pop")
    /\ after' = [after EXCEPT ![c] = next]

(* Each core uses the buffers, and the other, if it is not done with them, *)
(* does not find them as it left them: core 0 between its two steps with   *)
(* them, core 1 with a command built or with interrupt bits to look at.    *)
(* (Core 1's own reads are one step here: where core 0 would come between  *)
(* their two transfers, core 1 comes between core 0's steps.)              *)
InUse == {"clear_read", "cc_read", "register_read", "last_read", "mask_send", "unmask_send"}
Use == clobbered' = (clobbered \/ pc["core0"] \in InUse)
UseSendBuf == clobbered' = (clobbered \/ pc["core1"] = "write")
UseByCore0 == clobbered' = (clobbered \/ pc["core1"] = "write" \/ bits # {})

(* Mutant: VBUS is left as it is when the port becomes empty. *)
OnCcStatChangeSinkOnly(c, next) ==
    \/ /\ cc = "sink"
       /\ SendOpcode(c, "off", next)
    \/ /\ cc # "sink"
       /\ Goto(c, next)
       /\ UNCHANGED <<opcode_queue, opcodes_finished, after>>

(* on_ccstat_change once CC_STATUS0 is read *)
OnCcStatChange(c, next) ==
    \/ /\ cc \in {"none", "sink"}
       /\ SendOpcode(c, "off", next)
    \/ /\ cc = "source"
       /\ Goto(c, next)
       /\ UNCHANGED <<opcode_queue, opcodes_finished, after>>

-----------------------------------------------------------------------------
(* Core 1: core1_entry and the functions it calls *)

Take(entry) ==
    /\ At("core1", "idle")
    /\ call_queue # <<>>
    /\ Head(call_queue) = entry
    /\ call_queue' = Tail(call_queue)

(* A queued opcode function builds the command ... *)
BuildOpcode(opcode) ==
    /\ Take(opcode)
    /\ send_buf' = opcode
    /\ Goto("core1", "write")
    /\ Use
    /\ UNCHANGED <<chip, opcode_queue, opcodes_finished, op_code_return_buf, test, after, held, bits, todo>>

(* ... and opcode_write sends it to the chip. *)
OpcodeWrite ==
    /\ At("core1", "write")
    /\ executing' = Append(executing, send_buf)
    /\ send_buf' = NoOpcode
    /\ Goto("core1", "idle")
    /\ Use
    /\ UNCHANGED <<cc, pd, ints, answer, vbus, irq, history, queues, op_code_return_buf, test,
                   after, held, bits, todo>>

RunOther ==
    /\ Take("other")
    /\ UNCHANGED <<chip, opcode_queue, opcodes_finished, op_code_return_buf, test, control, buffers, todo>>

(* max77958_test_response *)
RunTestResponse ==
    /\ Take("test_response")
    /\ test_max77958_completed' = TRUE
    /\ UNCHANGED <<chip, opcode_queue, opcodes_finished, op_code_return_buf, responding, control,
                   buffers, todo>>

RunPdMsgResponse ==
    /\ Take("pd_msg")
    /\ \/ /\ pd = "swap_to_sink"
          /\ SendOpcode("core1", "off", "idle")
       \/ /\ pd = "swap_to_source"
          /\ SendOpcode("core1", "on", "idle")
       \/ /\ pd \notin {"swap_to_sink", "swap_to_source"}
          /\ UNCHANGED <<opcode_queue, opcodes_finished, pc, after>>
    /\ Use
    /\ UNCHANGED <<chip, op_code_return_buf, test, held, send_buf, bits, todo>>

(* parse_interrupt_vals: get_interrupt_vals, then one handler after        *)
(* another in the order of the source.                                     *)
RunParse ==
    /\ Take("parse")
    /\ ints' = {}
    /\ Handle(ints)
    /\ Use
    /\ UNCHANGED <<cc, pd, executing, answer, vbus, irq, history, opcode_queue, opcodes_finished,
                   op_code_return_buf, test, after, held, todo>>

(* Mutant: a response does not pop the next opcode. *)
OnResponseNoPop ==
    /\ At("core1", "response")
    /\ op_code_return_buf' = answer
    /\ Handle(bits \ {"response"})
    /\ Use
    /\ UNCHANGED <<chip, queues, test, after, held, todo>>

(* on_opcode_cmd_response *)
OnResponse ==
    /\ At("core1", "response")
    /\ op_code_return_buf' = answer
    /\ bits' = bits \ {"response"}
    /\ after' = [after EXCEPT !["core1"] = "responded"]
    /\ Goto("core1", "pop")
    /\ Use
    /\ UNCHANGED <<chip, queues, test, held, send_buf, todo>>

(* Mutant: the end of opcode_queue is not noted. *)
RespondedUnnoted ==
    /\ At("core1", "responded")
    /\ Handle(bits)
    /\ UNCHANGED <<chip, queues, op_code_return_buf, test, after, held, clobbered, todo>>

Responded ==
    /\ At("core1", "responded")
    /\ opcodes_finished' = TRUE
    /\ Handle(bits)
    /\ UNCHANGED <<chip, call_queue, opcode_queue, op_code_return_buf, test, after, held, clobbered, todo>>

OnPdMsg ==
    /\ At("core1", "pd")
    /\ IF Len(call_queue) < CallCap
       THEN call_queue' = Append(call_queue, "pd_msg") /\ Handle(bits \ {"pd"})
       ELSE Goto("core1", "halted") /\ UNCHANGED <<call_queue, send_buf, bits>>
    /\ UNCHANGED <<chip, opcode_queue, opcodes_finished, op_code_return_buf, test, after, held, clobbered,
                   todo>>

(* on_chgtype_change clears return_buf, which the interrupt bits are still *)
(* to be read from, and reads a status of its own into its first byte.     *)
OnChgType ==
    /\ At("core1", "chgtype")
    /\ Handle({})
    /\ Use
    /\ UNCHANGED <<chip, queues, op_code_return_buf, test, after, held, todo>>

OnCcStat ==
    /\ At("core1", "cc")
    /\ OnCcStatChange("core1", "idle")
    /\ bits' = {}
    /\ Use
    /\ UNCHANGED <<chip, call_queue, op_code_return_buf, test, held, send_buf, todo>>

Core1 ==
    \/ \E opcode \in Opcodes : BuildOpcode(opcode)
    \/ OpcodeWrite
    \/ RunOther \/ RunTestResponse \/ RunPdMsgResponse \/ RunParse
    \/ OnResponse \/ Responded \/ OnPdMsg \/ OnChgType \/ OnCcStat
    \/ PopOpcode("core1") \/ PushCall("core1")

-----------------------------------------------------------------------------
(* Core 0: max77958_init from the clearing of the interrupts on, then the  *)
(* self-tests of robot_unit_tests and on_start's last reads                *)

OpcodeIsNext == todo # <<>> /\ Head(todo) # Register
RegisterIsNext == todo # <<>> /\ Head(todo) = Register

(* get_interrupt_vals clears the buffers, sends a register's address ...    *)
ClearInterrupts ==
    /\ At("core0", "clear")
    /\ send_buf' = NoOpcode
    /\ UseByCore0
    /\ Goto("core0", "clear_read")
    /\ UNCHANGED <<chip, queues, op_code_return_buf, test, after, held, bits, todo>>

(* ... and reads, which clears the interrupts.                             *)
ClearInterruptsRead ==
    /\ At("core0", "clear_read")
    /\ ints' = {}
    /\ Goto("core0", "init")
    /\ UNCHANGED <<cc, pd, executing, answer, vbus, irq, history, queues, op_code_return_buf, test,
                   after, held, buffers, todo>>

InitAdd ==
    /\ At("core0", "init")
    /\ OpcodeIsNext
    /\ OpcodeQueueAdd("core0", Head(todo), "init")
    /\ todo' = Tail(todo)
    /\ UNCHANGED <<chip, call_queue, op_code_return_buf, test, after, held, buffers>>

InitPop ==
    /\ At("core0", "init")
    /\ todo = <<>>
    /\ after' = [after EXCEPT !["core0"] = "cc"]
    /\ Goto("core0", "pop")
    /\ UNCHANGED <<chip, queues, op_code_return_buf, test, held, buffers, todo>>

(* on_ccstat_change, called by max77958_init, clears the buffers and sends  *)
(* the address of CC_STATUS0 ...                                           *)
InitCcStat ==
    /\ At("core0", "cc")
    /\ send_buf' = NoOpcode
    /\ UseByCore0
    /\ Goto("core0", "cc_read")
    /\ UNCHANGED <<chip, queues, op_code_return_buf, test, after, held, bits, todo>>

(* ... and reads it. *)
InitCcStatRead ==
    /\ At("core0", "cc_read")
    /\ OnCcStatChange("core0", "boot")
    /\ UNCHANGED <<chip, call_queue, op_code_return_buf, test, held, buffers, todo>>

(* on_start sleeps for seconds between init and the tests: what was queued *)
(* before is over.                                                         *)
Boot ==
    /\ At("core0", "boot")
    /\ Settled
    /\ todo' = Tests
    /\ Goto("core0", "test")
    /\ UNCHANGED <<chip, queues, op_code_return_buf, test, after, held, buffers>>

(* Before test_max77958_interrupt, and after it. *)
ReadsBetween == {<<"test", "register_read">>, <<"last", "last_read">>}

(* max77958_read_register, test_max77958_get_id and read_reg clear the     *)
(* buffers and send the address of a register ...                          *)
TestRegister ==
    /\ \E read \in ReadsBetween : At("core0", read[1]) /\ Goto("core0", read[2])
    /\ RegisterIsNext
    /\ send_buf' = NoOpcode
    /\ UseByCore0
    /\ UNCHANGED <<chip, queues, op_code_return_buf, test, after, held, bits, todo>>

(* ... and read it, to compare and log it. *)
TestRegisterRead ==
    /\ \E read \in ReadsBetween : At("core0", read[2]) /\ Goto("core0", read[1])
    /\ todo' = Tail(todo)
    /\ UNCHANGED <<chip, queues, op_code_return_buf, test, after, held, buffers>>

TestSend ==
    /\ At("core0", "test")
    /\ OpcodeIsNext
    /\ SendOpcode("core0", Head(todo), "wait")
    /\ UNCHANGED <<chip, call_queue, op_code_return_buf, test, held, buffers, todo>>

(* while (!opcodes_finished) *)
TestWait ==
    /\ At("core0", "wait")
    /\ opcodes_finished
    /\ Goto("core0", "compare")
    /\ UNCHANGED <<chip, queues, op_code_return_buf, test, after, held, buffers, todo>>

(* The result is compared with what was asked, and logged. *)
TestCompare ==
    /\ At("core0", "compare")
    /\ todo' = Tail(todo)
    /\ Goto("core0", "test")
    /\ UNCHANGED <<chip, queues, op_code_return_buf, test, after, held, buffers>>

(* test_max77958_interrupt: set_interrupt_masks_all_masked builds the      *)
(* masks in send_buf ...                                                   *)
TestMask ==
    /\ At("core0", "test")
    /\ todo = <<>>
    /\ send_buf' = NoOpcode
    /\ UseSendBuf
    /\ Goto("core0", "mask_send")
    /\ UNCHANGED <<chip, queues, op_code_return_buf, test, after, held, bits, todo>>

(* ... and sends them; test_max77958_started is set, ...                   *)
TestMaskSend ==
    /\ At("core0", "mask_send")
    /\ Goto("core0", "start")
    /\ UNCHANGED <<chip, queues, op_code_return_buf, test, after, held, buffers, todo>>

TestStart ==
    /\ At("core0", "start")
    /\ Goto("core0", "drive")
    /\ UNCHANGED <<chip, queues, op_code_return_buf, test, after, held, buffers, todo>>

(* ... INTB, which the masked chip leaves high, driven low, ... *)
TestDrive ==
    /\ At("core0", "drive")
    /\ irq' = TRUE
    /\ Goto("core0", "driven")
    /\ UNCHANGED <<cc, pd, ints, executing, answer, vbus, history, queues, op_code_return_buf, test,
                   after, held, buffers, todo>>

(* ... while (!test_max77958_completed), the pin released and the flags    *)
(* reset, ...                                                              *)
TestRelease ==
    /\ At("core0", "driven")
    /\ test_max77958_completed
    /\ test_max77958_completed' = FALSE
    /\ Goto("core0", "unmask")
    /\ UNCHANGED <<chip, queues, op_code_return_buf, responding, after, held, buffers, todo>>

(* ... and set_interrupt_masks builds the masks and sends them: INTB falls  *)
(* if bits were set meanwhile.                                             *)
TestUnmask ==
    /\ At("core0", "unmask")
    /\ send_buf' = NoOpcode
    /\ UseSendBuf
    /\ Goto("core0", "unmask_send")
    /\ UNCHANGED <<chip, queues, op_code_return_buf, test, after, held, bits, todo>>

TestUnmaskSend ==
    /\ At("core0", "unmask_send")
    /\ irq' = (irq \/ ints # {})
    /\ todo' = LastReads
    /\ Goto("core0", "last")
    /\ UNCHANGED <<cc, pd, ints, executing, answer, vbus, history, queues, op_code_return_buf, test,
                   after, held, buffers>>

Core0 ==
    /\ ~responding
    /\ \/ ClearInterrupts \/ ClearInterruptsRead \/ InitAdd \/ InitPop \/ InitCcStat \/ InitCcStatRead
       \/ Boot \/ TestRegister \/ TestRegisterRead
       \/ TestSend \/ TestWait \/ TestCompare
       \/ TestMask \/ TestMaskSend \/ TestStart \/ TestDrive \/ TestRelease
       \/ TestUnmask \/ TestUnmaskSend
       \/ PopOpcode("core0") \/ PushCall("core0")

-----------------------------------------------------------------------------
Next ==
    \/ Respond
    \/ \E kind \in EventKinds, new \in {"none", "sink", "source"} : CcChange(kind, new)
    \/ \E message \in {"swap_to_sink", "swap_to_source", "other"} : PdMessage(message)
    \/ OnInterrupt \/ OnInterruptRespond \/ OtherInterrupt
    \/ Core0 \/ Core1

Spec == Init /\ [][Next]_vars

(* The chip answers what it is asked, the interrupt fires, and both cores  *)
(* run; nothing obliges a cable to move.                                   *)
Fairness ==
    /\ WF_vars(Respond) /\ WF_vars(OnInterrupt \/ OnInterruptRespond)
    /\ WF_vars(Core0) /\ WF_vars(Core1)
FairSpec == Spec /\ Fairness

-----------------------------------------------------------------------------
Points == {"idle", "clear", "clear_read", "init", "pop", "push", "cc", "cc_read", "boot", "test", "register_read",
           "wait", "compare", "mask_send", "start", "drive", "driven", "unmask", "unmask_send",
           "last", "last_read",
           "write", "response", "responded", "pd", "chgtype", "halted"}

(* The queues keep to their sizes, a core carries an opcode exactly while  *)
(* it is between the two queues, and only core 1 handles interrupt bits.   *)
TypeOK ==
    /\ cc \in {"none", "sink", "source"}
    /\ pd \in {"none", "swap_to_sink", "swap_to_source", "other"}
    /\ ints \in SUBSET {"response", "pd", "cc", "chgtype"}
    /\ executing \in Seq(Opcodes)
    /\ answer \in Opcodes \cup {NoOpcode}
    /\ vbus \in BOOLEAN /\ irq \in BOOLEAN
    /\ events \in 0 .. MaxEvents /\ crowded \in BOOLEAN
    /\ call_queue \in Seq(Entries) /\ Len(call_queue) <= CallCap
    /\ opcode_queue \in Seq(Opcodes) /\ Len(opcode_queue) <= OpcodeCap
    /\ opcodes_finished \in BOOLEAN
    /\ op_code_return_buf \in Opcodes \cup {NoOpcode}
    /\ test_max77958_completed \in BOOLEAN /\ responding \in BOOLEAN
    /\ pc \in [Cores -> Points]
    /\ after \in [Cores -> Points]
    /\ held \in [Cores -> Opcodes \cup {NoOpcode}]
    /\ \A c \in Cores : /\ pc[c] = "push" => held[c] # NoOpcode
                        /\ held[c] # NoOpcode => pc[c] \in {"push", "halted"}
    /\ send_buf \in Opcodes \cup {NoOpcode} /\ (send_buf # NoOpcode => pc["core1"] = "write")
    /\ bits \in SUBSET {"response", "pd", "cc", "chgtype"}
    /\ clobbered \in BOOLEAN
    /\ todo \in Seq(Opcodes \cup {Register})

(* How many times an opcode is waiting to be written to the chip. *)
Waiting(opcode) ==
    Cardinality({i \in DOMAIN opcode_queue : opcode_queue[i] = opcode})
    + Cardinality({c \in Cores : held[c] = opcode})
    + Cardinality({i \in DOMAIN call_queue : call_queue[i] = opcode})
    + (IF send_buf = opcode THEN 1 ELSE 0)

Writes(opcode) == executing' = Append(executing, opcode)

(* Core 0 builds a transfer of its own over the command core 1 has built   *)
(* in send_buf.                                                            *)
Overwritten(opcode) ==
    /\ send_buf = opcode /\ send_buf' = NoOpcode
    /\ pc["core1"] = "write" /\ pc'["core1"] = "write"

(* An opcode once queued stays queued, whatever the cores and the handler  *)
(* do in between, until it is written to the chip, once.  The exceptions   *)
(* are two, and either loses an opcode: a pop that meets a full call_queue *)
(* (max77958.c:911-917), and a command overwritten in send_buf.  How many  *)
(* wait is what is counted; they may overtake each other.                  *)
OpcodesKept ==
    [][ \A opcode \in Opcodes :
            \/ Waiting(opcode)' = Waiting(opcode)
            \/ Waiting(opcode)' = Waiting(opcode) + 1 /\ Len(opcode_queue') > Len(opcode_queue)
            \/ Waiting(opcode)' = Waiting(opcode) - 1 /\ Writes(opcode)
            \/ Len(call_queue) = CallCap /\ UNCHANGED <<call_queue, opcode_queue>>
            \/ Waiting(opcode)' = Waiting(opcode) - 1 /\ Overwritten(opcode) ]_vars

(* The asserts of call_queue_try_add and opcode_queue_add never fail: the  *)
(* interrupts and responses of this chip cannot outrun core 1, since INTB  *)
(* gives one edge for each reading of its bits and each opcode queued is   *)
(* popped in the same call.                                                *)
NeverFull ==
    /\ \A c \in Cores : pc[c] # "halted"
    /\ \A c \in Cores : pc[c] = "push" => Len(call_queue) < CallCap

(* No response is lost for good: what waits in opcode_queue leaves it,     *)
(* though two responses may share one interrupt and both cores pop.        *)
(* Excepted is what comes after a core has come between the other and its  *)
(* buffers (clobbered): a command or a response may be lost there.         *)
OpcodeQueueDrains == []<>(opcode_queue = <<>> \/ clobbered)

(* The self-tests' waits end, for opcodes_finished (max77958.c:427) though *)
(* interrupts queue opcodes of their own and clear the flag meanwhile, and *)
(* for test_max77958_completed (:844) though the chip may have bits set    *)
(* when the pin is driven; excepted is, again, a core that has come        *)
(* between the other and its buffers.                                      *)
TestsFinish ==
    []<>(pc["core0"] \notin {"wait", "driven"} \/ clobbered)

(* With nothing attached to the port for good, VBUS ends up off for good,  *)
(* unless the detachment came before what an event before it led to was    *)
(* over (crowded: a message asking for VBUS may be answered after the      *)
(* detachment), or a core came between the other and its buffers           *)
(* (clobbered).  The second matters on a single detachment: core 0 clears  *)
(* return_buf when it reads a register (max77958.c:361), and core 1 may    *)
(* have CC_INT in it to look at, which is then lost, and VBUS stays on.    *)
VbusOffWhenDetached == <>[](cc = "none" /\ ~crowded /\ ~clobbered) => <>[](~vbus)

(* What the self-tests check (max77958.c:434): the opcode read back is the *)
(* one that was sent.                                                      *)
TestGetsItsAnswer ==
    pc["core0"] = "compare" => op_code_return_buf = Head(todo)

=============================================================================
