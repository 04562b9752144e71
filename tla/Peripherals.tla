---------------------------- MODULE Peripherals ----------------------------
(***************************************************************************)
(* The wireless charger input (ncp3901.c), the battery charger             *)
(* (max77976.c) and the motor drivers (drv8830.c): their interrupt         *)
(* handlers on core 0, the work these queue for core 1, the self-tests of  *)
(* the interrupts, which drive the chips' pins low from core 0, and then   *)
(* SET_MOTOR_LEVEL and GET_STATE, which read and clear the motor faults.   *)
(* A register is read in two i2c transfers: the first points the chip at   *)
(* it, the second reads what the chip is pointed at.  A chip has but one   *)
(* pointer, and no lock keeps one core's transfers from coming between     *)
(* the other's two.                                                        *)
(***************************************************************************)
EXTENDS Naturals, Sequences

CONSTANTS
    CallCap,        \* entries call_queue holds, 256
    Events,         \* what happens outside: a subset of EventKinds
    MaxEvents       \* how often, a bound for TLC

EventKinds == {"wireless", "charger", "fault", "stuck", "status"}

ASSUME PeripheralsAssumption ==
    /\ CallCap \in Nat \ {0}
    /\ Events \subseteq EventKinds
    /\ MaxEvents \in Nat

Motors == {"fault1", "fault2"}
Pins == {"wireless", "charger"} \cup Motors
Chip(pin) == IF pin \in Motors THEN "motor" ELSE pin
Chips == {"wireless", "charger", "motor"}
OnBus == {"charger"} \cup Motors

VARIABLES
    \* the chips
    charging,       \* a wireless charger is there
    ints,           \* MAX77976 has an interrupt to report
    faults,         \* each DRV8830's fault register
    stuck,          \* drivers whose fault is there to stay
    events,         \* events so far
    unseen,         \* drivers with a fault to be reported or logged (history)
    pointed,        \* chips pointed at CHG_INT, at the fault register
    \* pins
    driven,         \* pins core 0 drives low
    latched,        \* edges latched
    masked,         \* MAX77976's interrupts are masked
    \* the firmware
    call_queue,
    job,            \* the chip whose register core 1 is in the middle of handling
    looked,         \* history: whether core 1 has read it, or another in its place
    missed,         \* history: another in place of a CHG_INT that has more to say
    wireless_charger_attached,
    started, completed,     \* the flags of each chip's self-tests
    step            \* where core 0 is in its program

chips == <<charging, ints, faults, stuck, events>>
pins == <<driven, latched, masked>>
flags == <<started, completed>>
work == <<job, looked>>
vars == <<chips, unseen, pointed, missed, pins, call_queue, work, wireless_charger_attached, flags,
          step>>

(* What core 0 does: on_start turns the motors, robot_unit_tests, i2c_scan, *)
(* which reads a byte from each chip; then one command after another.      *)
Controls == << <<"elsewhere", "fault1">>, <<"elsewhere", "fault2">> >>
ReadOther == << <<"elsewhere", "charger">>, <<"look", "charger">> >>
WhileMasked(test) == << <<"mask", "charger">> >> \o test \o << <<"unmask", "charger">> >>
ClearFaults == << <<"clear", "fault1">>, <<"point", "fault1">>, <<"check", "fault1">>,
                  <<"clear", "fault2">>, <<"point", "fault2">>, <<"check", "fault2">> >>
Tests ==
    Controls \o Controls      \* set_voltage
    \o WhileMasked(ReadOther) \o WhileMasked(ReadOther)     \* test_max77976_get_id, _get_FSW
    \o << <<"mask", "charger">>, <<"start", "charger">>, <<"drive", "charger">>,
          <<"await", "charger">>, <<"release", "charger">>, <<"stop", "charger">>,
          <<"reset", "charger">>, <<"unmask", "charger">>,
          <<"start", "wireless">>, <<"drive", "wireless">>, <<"await", "wireless">>,
          <<"stop", "wireless">>, <<"reset", "wireless">>,
          <<"start", "wireless">>, <<"release", "wireless">>, <<"high", "wireless">>,
          <<"await", "wireless">> >>
    \o ClearFaults
    \o << <<"start", "motor">>, <<"drive", "fault1">>, <<"await", "motor">>,
          <<"release", "fault1">>, <<"stop", "motor">>, <<"reset", "motor">>,
          <<"start", "motor">>, <<"drive", "fault2">>, <<"await", "motor">>,
          <<"release", "fault2">>, <<"stop", "motor">>, <<"look", "charger">> >>
ReadFaults == << <<"point", "fault1">>, <<"read", "fault1">>,
                 <<"point", "fault2">>, <<"read", "fault2">> >>
Details == ReadOther \o ReadOther \o ReadOther \o ReadOther      \* max77976_get_chg_details
GetState == ReadFaults \o ClearFaults \o Details
SetMotorLevel == Controls \o GetState
Program == Tests \o SetMotorLevel
Serving == Len(Tests) + 1
Commands == {Serving, Serving + 2}     \* SET_MOTOR_LEVEL, GET_STATE
Halted == 0

(* on_start has set the drivers up: max77976_init has cleared what the     *)
(* charger had to report, and nothing has looked at the other pins yet.    *)
Init ==
    /\ charging \in BOOLEAN /\ ints = FALSE
    /\ \E powerUp \in {{}, {"UVLO"}} : faults = [m \in Motors |-> powerUp]
    /\ stuck = {} /\ events = 0 /\ unseen = {}
    /\ driven = {} /\ latched = [p \in Pins |-> {}] /\ masked = FALSE
    /\ pointed = {} /\ missed = FALSE
    /\ call_queue = <<>> /\ job = "none" /\ looked = "no"
    /\ wireless_charger_attached = FALSE
    /\ started = [c \in Chips |-> FALSE] /\ completed = [c \in Chips |-> FALSE]
    /\ step = 1

Running == step # Halted

-----------------------------------------------------------------------------
(* Pins *)

Low(p) ==
    \/ p \in driven
    \/ p = "wireless" /\ charging
    \/ p = "charger" /\ ints /\ ~masked
    \/ p \in Motors /\ faults[p] # {}

Listened(p) == IF p = "wireless" THEN {"fall", "rise"} ELSE {"fall"}

(* Every edge core 0 listens for is latched. *)
LatchEdges ==
    latched' = [p \in Pins |-> latched[p] \cup
                   (Listened(p) \cap IF Low(p) = Low(p)' THEN {}
                                     ELSE {IF Low(p)' THEN "fall" ELSE "rise"})]

-----------------------------------------------------------------------------
(* The world *)

Event(kind) ==
    /\ kind \in Events
    /\ events < MaxEvents
    /\ events' = events + 1
    /\ UNCHANGED <<pointed, missed, driven, masked, call_queue, work, wireless_charger_attached, flags,
                   step>>
    /\ LatchEdges

Wireless ==
    /\ charging' = ~charging
    /\ UNCHANGED <<ints, faults, stuck, unseen>>
    /\ Event("wireless")

Charger ==
    /\ ints' = TRUE
    /\ UNCHANGED <<charging, faults, stuck, unseen>>
    /\ Event("charger")

(* The next to see to m's fault register clears it, and does not look: a   *)
(* core that has looked already, or the self-test that never looks.        *)
AboutToClear(m) ==
    \/ job = m /\ looked # "no"
    \/ Running /\ \E i \in step .. Len(Program) :
                      /\ Program[i] = <<"clear", m>>
                      /\ <<"read", m>> \notin {Program[j] : j \in step .. i}

(* A motor driver stops its motor; for good, or until it is told to go on. *)
Fault(m, kind) ==
    /\ kind \in {"fault", "stuck"}
    /\ "FAULT" \notin faults[m]
    /\ faults' = [faults EXCEPT ![m] = @ \cup {"FAULT"}]
    /\ stuck' = IF kind = "stuck" THEN stuck \cup {m} ELSE stuck
    /\ unseen' = IF AboutToClear(m) THEN unseen ELSE unseen \cup {m}
    /\ UNCHANGED <<charging, ints>>
    /\ Event(kind)

(* A bit that is no fault. *)
Status(m) ==
    /\ faults' = [faults EXCEPT ![m] = @ \cup {"UVLO"}]
    /\ UNCHANGED <<charging, ints, stuck, unseen>>
    /\ Event("status")

-----------------------------------------------------------------------------
(* Core 0's interrupt handlers.  Both edges of the wireless pin at once    *)
(* count as a rise.                                                        *)

Work(p) ==
    CASE p = "wireless" -> IF "rise" \in latched[p] THEN "detached" ELSE "attached"
      [] p = "charger" -> "parse"
      [] OTHER -> p

(* Mutants: the queue's limit is not minded; only a test's response is     *)
(* queued while the test runs.                                             *)
OnInterruptUnchecked(p) ==
    /\ Running
    /\ latched[p] # {}
    /\ latched' = [latched EXCEPT ![p] = {}]
    /\ call_queue' = call_queue \o <<Work(p)>> \o IF started[Chip(p)] THEN <<Chip(p)>> ELSE <<>>
    /\ UNCHANGED <<chips, unseen, pointed, missed, driven, masked, work, wireless_charger_attached,
                   flags, step>>
OnInterruptEitherOr(p) ==
    /\ Running
    /\ latched[p] # {}
    /\ latched' = [latched EXCEPT ![p] = {}]
    /\ Len(call_queue) < CallCap
    /\ call_queue' = Append(call_queue, IF started[Chip(p)] THEN Chip(p) ELSE Work(p))
    /\ UNCHANGED <<chips, unseen, pointed, missed, driven, masked, work, wireless_charger_attached,
                   flags, step>>

(* call_queue_try_add, twice during a self-test; a full queue is an assert. *)
OnInterrupt(p) ==
    LET entries == <<Work(p)>> \o IF started[Chip(p)] THEN <<Chip(p)>> ELSE <<>>
    IN  /\ Running
        /\ latched[p] # {}
        /\ latched' = [latched EXCEPT ![p] = {}]
        /\ IF Len(call_queue \o entries) <= CallCap
           THEN call_queue' = call_queue \o entries /\ UNCHANGED step
           ELSE /\ call_queue' = SubSeq(call_queue \o entries, 1, CallCap)
                /\ step' = Halted
        /\ UNCHANGED <<chips, unseen, pointed, missed, driven, masked, work, wireless_charger_attached,
                       flags>>

-----------------------------------------------------------------------------
(* Core 1 *)

Take(entry) ==
    /\ job = "none"
    /\ call_queue # <<>>
    /\ Head(call_queue) = entry
    /\ call_queue' = Tail(call_queue)

SetAttached ==
    \E attached \in BOOLEAN :
        /\ Take(IF attached THEN "attached" ELSE "detached")
        /\ wireless_charger_attached' = attached
        /\ UNCHANGED <<chips, unseen, pointed, missed, pins, work, flags, step>>

(* The test responses *)
TestResponse(c) ==
    /\ Take(c)
    /\ completed' = [completed EXCEPT ![c] = TRUE]
    /\ UNCHANGED <<chips, unseen, pointed, missed, pins, work, wireless_charger_attached, started, step>>

(* max77976_parse_interrupt_vals points the charger at CHG_INT ...         *)
ParseInterruptVals ==
    /\ Take("parse")
    /\ job' = "charger"
    /\ pointed' = pointed \cup {"charger"}
    /\ UNCHANGED <<chips, unseen, missed, pins, looked, wireless_charger_attached, flags, step>>

(* Reading CHG_INT clears it; whether the pointer moves on is the chip's.  *)
ReadCharger ==
    /\ ints' = (ints /\ "charger" \notin pointed)
    /\ pointed' \in {pointed, pointed \ {"charger"}}
    /\ UNCHANGED <<charging, faults, stuck, events, unseen, driven, masked>>
    /\ LatchEdges

(* ... and reads what the charger is pointed at.                           *)
ParseInterruptValsRead ==
    /\ job = "charger"
    /\ job' = "none"
    /\ ReadCharger
    /\ missed' = ints'
    /\ UNCHANGED <<call_queue, looked, wireless_charger_attached, flags, step>>

(* drv8830_fault_handler points the driver at its fault register ...       *)
FaultHandler(m) ==
    /\ Take(m)
    /\ job' = m /\ looked' = "no"
    /\ pointed' = pointed \cup {m}
    /\ UNCHANGED <<chips, unseen, missed, pins, wireless_charger_attached, flags, step>>

(* What the fault bit of the register m is pointed at reads; in CONTROL it *)
(* is IN1, which is the host's.                                            *)
FaultBit(m) == IF m \in pointed THEN {"FAULT" \in faults[m]} ELSE BOOLEAN

Looked(m, bit) ==
    /\ \/ /\ bit
          /\ job' = "none"
          /\ unseen' = unseen \ (pointed \cap {m})
          /\ UNCHANGED looked
       \/ /\ ~bit
          /\ looked' = IF m \in pointed THEN "yes" ELSE "elsewhere"
          /\ UNCHANGED <<job, unseen>>
    /\ UNCHANGED <<chips, pointed, missed, pins, call_queue, wireless_charger_attached, flags, step>>

(* Mutant: the handler looks at the wrong bit. *)
FaultHandlerReadWrongBit(m) ==
    /\ job = m /\ looked = "no"
    /\ Looked(m, "UVLO" \in faults[m])

(* ... reads it, logs a fault ...                                          *)
FaultHandlerRead(m) ==
    /\ job = m /\ looked = "no"
    /\ \E bit \in FaultBit(m) : Looked(m, bit)

(* The clear bit of a fault register; a fault that is there to stay stays. *)
Clear(m) ==
    /\ faults' = [faults EXCEPT ![m] = IF m \in stuck THEN {"FAULT"} ELSE {}]
    /\ unseen' = IF m \in stuck THEN unseen ELSE unseen \ {m}
    /\ pointed' = pointed \cup {m}
    /\ UNCHANGED <<charging, ints, stuck, events, missed, driven, masked>>
    /\ LatchEdges

(* ... and clears what is none.                                            *)
FaultHandlerClear(m) ==
    /\ job = m /\ looked # "no"
    /\ Clear(m)
    /\ job' = "none" /\ looked' = "no"
    /\ UNCHANGED <<call_queue, wireless_charger_attached, flags, step>>

Core1 ==
    \/ SetAttached \/ ParseInterruptVals \/ ParseInterruptValsRead
    \/ \E c \in Chips : TestResponse(c)
    \/ \E m \in Motors : FaultHandler(m) \/ FaultHandlerRead(m) \/ FaultHandlerClear(m)

-----------------------------------------------------------------------------
(* Core 0's program, one instruction at a time; interrupts come first. *)

At(op, arg) ==
    /\ Running
    /\ Program[step] = <<op, arg>>
    /\ \A p \in Pins : latched[p] = {}

Go ==
    IF step \in {Len(Tests), Len(Program)}
    THEN step' \in Commands
    ELSE step' = step + 1

(* Mutants: the test masks nothing; it does not undo the mask. *)
SetMaskNothing(on) ==
    /\ At(IF on THEN "mask" ELSE "unmask", "charger")
    /\ pointed' = pointed \ {"charger"}
    /\ Go
    /\ UNCHANGED <<chips, unseen, missed, pins, call_queue, work, wireless_charger_attached, flags>>
SetMaskForGood(on) ==
    /\ At(IF on THEN "mask" ELSE "unmask", "charger")
    /\ masked' = TRUE
    /\ pointed' = pointed \ {"charger"}
    /\ Go
    /\ UNCHANGED <<chips, unseen, missed, driven, call_queue, work, wireless_charger_attached, flags>>
    /\ LatchEdges

(* A mask is written to a register of the charger's. *)
SetMask(on) ==
    /\ At(IF on THEN "mask" ELSE "unmask", "charger")
    /\ masked' = on
    /\ pointed' = pointed \ {"charger"}
    /\ Go
    /\ UNCHANGED <<chips, unseen, missed, driven, call_queue, work, wireless_charger_attached, flags>>
    /\ LatchEdges

SetStarted(c, on) ==
    /\ At(IF on THEN "start" ELSE "stop", c)
    /\ started' = [started EXCEPT ![c] = on]
    /\ Go
    /\ UNCHANGED <<chips, unseen, pointed, missed, pins, call_queue, work, wireless_charger_attached,
                   completed>>

Reset(c) ==
    /\ At("reset", c)
    /\ completed' = [completed EXCEPT ![c] = FALSE]
    /\ Go
    /\ UNCHANGED <<chips, unseen, pointed, missed, pins, call_queue, work, wireless_charger_attached,
                   started>>

(* gpio_set_dir *)
SetDriven(p, on) ==
    /\ At(IF on THEN "drive" ELSE "release", p)
    /\ driven' = IF on THEN driven \cup {p} ELSE driven \ {p}
    /\ Go
    /\ UNCHANGED <<chips, unseen, pointed, missed, masked, call_queue, work, wireless_charger_attached,
                   flags>>
    /\ LatchEdges

(* The wireless test asserts that the pin is high again. *)
CheckHigh ==
    /\ At("high", "wireless")
    /\ IF Low("wireless") THEN step' = Halted ELSE Go
    /\ UNCHANGED <<chips, unseen, pointed, missed, pins, call_queue, work, wireless_charger_attached,
                   flags>>

Await(c) ==
    /\ At("await", c)
    /\ completed[c]
    /\ Go
    /\ UNCHANGED <<chips, unseen, pointed, missed, pins, call_queue, work, wireless_charger_attached,
                   flags>>

(* Ten seconds are more than core 1 needs for all it has to do. *)
TimeOut(c) ==
    /\ At("await", c)
    /\ ~completed[c]
    /\ call_queue = <<>> /\ job = "none"
    /\ step' = Halted
    /\ UNCHANGED <<chips, unseen, pointed, missed, pins, call_queue, work, wireless_charger_attached,
                   flags>>

(* A transfer that leaves a chip pointed at another register: a driver's   *)
(* CONTROL, which turns its motor, or one that tells of the charger        *)
(* (max77976_get_chg_details, test_max77976_get_id and _get_FSW).          *)
PointElsewhere(chip) ==
    /\ At("elsewhere", chip)
    /\ pointed' = pointed \ {chip}
    /\ Go
    /\ UNCHANGED <<chips, unseen, missed, pins, call_queue, work, wireless_charger_attached, flags>>

(* Core 0 reads of the charger what it is pointed at.                      *)
Look ==
    /\ At("look", "charger")
    /\ ReadCharger
    /\ missed' = (missed /\ ints')
    /\ Go
    /\ UNCHANGED <<call_queue, work, wireless_charger_attached, flags>>

Point(m) ==
    /\ At("point", m)
    /\ pointed' = pointed \cup {m}
    /\ Go
    /\ UNCHANGED <<chips, unseen, missed, pins, call_queue, work, wireless_charger_attached, flags>>

(* drv8830_get_faults *)
ReadFault(m) ==
    /\ At("read", m)
    /\ unseen' = unseen \ (pointed \cap {m})
    /\ Go
    /\ UNCHANGED <<chips, pointed, missed, pins, call_queue, work, wireless_charger_attached, flags>>

(* drv8830_clear_faults *)
ClearFault(m) ==
    /\ At("clear", m)
    /\ Clear(m)
    /\ Go
    /\ UNCHANGED <<call_queue, work, wireless_charger_attached, flags>>

CheckFault(m) ==
    /\ At("check", m)
    /\ \E bit \in FaultBit(m) : IF bit THEN step' = Halted ELSE Go
    /\ UNCHANGED <<chips, unseen, pointed, missed, pins, call_queue, work, wireless_charger_attached,
                   flags>>

Instructions ==
    \/ \E on \in BOOLEAN :
           \/ SetMask(on)
           \/ \E c \in Chips : SetStarted(c, on)
           \/ \E p \in Pins : SetDriven(p, on)
    \/ \E c \in Chips : Reset(c) \/ Await(c) \/ TimeOut(c)
    \/ \E m \in Motors : Point(m) \/ ReadFault(m) \/ ClearFault(m) \/ CheckFault(m)
    \/ \E chip \in OnBus : PointElsewhere(chip)
    \/ Look \/ CheckHigh

Interrupts == \E p \in Pins : OnInterrupt(p)

Core0 == Instructions \/ Interrupts

World ==
    \/ Wireless \/ Charger
    \/ \E m \in Motors : Status(m) \/ \E kind \in {"fault", "stuck"} : Fault(m, kind)

Next == Core0 \/ Core1 \/ World

Spec == Init /\ [][Next]_vars

(* Both cores keep running, and interrupts come first on core 0; nothing   *)
(* obliges the host to send a command.                                     *)
FairSpec ==
    /\ Spec
    /\ WF_vars(Interrupts) /\ WF_vars(step \notin Commands /\ Instructions) /\ WF_vars(Core1)

-----------------------------------------------------------------------------
(* Types, and call_queue never beyond its end (queue_try_add).             *)
TypeOK ==
    /\ charging \in BOOLEAN /\ ints \in BOOLEAN /\ masked \in BOOLEAN
    /\ faults \in [Motors -> SUBSET {"FAULT", "UVLO"}]
    /\ stuck \subseteq Motors /\ unseen \subseteq Motors
    /\ events \in 0 .. MaxEvents
    /\ driven \subseteq Pins
    /\ latched \in [Pins -> SUBSET {"fall", "rise"}]
    /\ call_queue \in Seq({"attached", "detached", "parse"} \cup Motors \cup Chips)
    /\ Len(call_queue) <= CallCap
    /\ pointed \subseteq OnBus /\ missed \in BOOLEAN
    /\ job \in OnBus \cup {"none"} /\ looked \in {"no", "yes", "elsewhere"}
    /\ wireless_charger_attached \in BOOLEAN
    /\ started \in [Chips -> BOOLEAN] /\ completed \in [Chips -> BOOLEAN]
    /\ step \in 0 .. Len(Program)

(* A motor fault stays in its register until GET_STATE has read it on core *)
(* 0 or the fault handler has logged it on core 1, whatever these two      *)
(* clear meanwhile.  Three faults are excepted, and may be lost: one       *)
(* raised after a core has looked and before it clears, one raised before  *)
(* test_drv8830_get_faults, which clears without looking (AboutToClear,    *)
(* for both), and one there when core 1's handler read CONTROL in place of *)
(* the fault register, because core 0 wrote CONTROL between the handler's  *)
(* two transfers (drv8830.c:82-83, :154-155).                              *)
FaultsKept ==
    [][ \A m \in unseen :
            "FAULT" \in faults'[m] \/ (job = m /\ looked = "elsewhere") ]_vars

(* test_max77976_interrupt masks the charger's interrupts, so whatever it  *)
(* has to report, before the test or during it, the pin core 0 drives low  *)
(* gives an edge, and the wait of the test ends.                           *)
ChargerTestPasses ==
    Running /\ Program[step] = <<"await", "charger">> =>
        \/ completed["charger"]
        \/ latched["charger"] # {}
        \/ \E i \in 1 .. Len(call_queue) : call_queue[i] = "charger"

(* What the charger has to report is read sooner or later, by core 1 or by *)
(* core 0 in passing, also when it came up while one of three self-tests   *)
(* had its interrupts masked; unless an assertion stops core 0, or core 0  *)
(* pointed the charger elsewhere between the two transfers of core 1's     *)
(* read (max77976.c:132-137; missed): CHG_INT is not cleared then, the pin *)
(* stays low and gives no further edge.                                    *)
ChargerServed == []<>(~ints \/ ~Running \/ missed)

(* In the end wireless_charger_attached says whether a wireless charger is *)
(* there, however it came and went before, while and after core 0 drove    *)
(* the same pin in a self-test and core 1 was busy; unless core 0 stopped  *)
(* at an assertion or saw both edges of the pin as one event.              *)
AttachedFollowsPin ==
    [](Running /\ latched["wireless"] # {"fall", "rise"}) =>
        <>[](wireless_charger_attached = charging)
=============================================================================
