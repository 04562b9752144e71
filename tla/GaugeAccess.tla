---------------------------- MODULE GaugeAccess ----------------------------
(***************************************************************************)
(* The battery gauge as bq27742_g1.c configures and reads it, through the  *)
(* i2c functions of robot.c that try a transfer again.  Core 0 configures  *)
(* the gauge's data flash in bq27742_g1_init and reads five registers for  *)
(* each GET_STATE; core 1 reads two registers for each interrupt of the    *)
(* gauge and may send a subcommand.  A register is read by writing its     *)
(* address without a stop and then reading: two transfers, each of which   *)
(* may fail, and between which the other core may use the gauge.  The      *)
(* board may be switched off and on at any time; the gauge stays on.       *)
(* What is read is known by the register it comes from.  A core's program  *)
(* is what it has yet to do: transfers and, between them, what it does     *)
(* with its buffers.                                                       *)
(***************************************************************************)
EXTENDS Naturals, Sequences

CONSTANTS
    MaxRetries,     \* MAX_RETRIES
    Blocks          \* what the data flash may hold to begin with

(* Bytes are sets of bits: HOSTIE, HOSTIPOL and HOSTIPU are in the high    *)
(* byte of PackConfiguration (bits 12 to 14 of the word), BTP_EN is in     *)
(* PackConfigC.  "rest" stands for the other 29 bytes of the block.        *)
HOSTIE == 4
HOSTIPOL == 5
HOSTIPU == 6
BTP_EN == 0
Bytes == SUBSET {BTP_EN, HOSTIE, HOSTIPOL, HOSTIPU}
Block == [high_first : BOOLEAN, b0 : Bytes, b1 : Bytes, c : Bytes, rest : {"whole", "partial"}]

ASSUME GaugeAccessAssumption ==
    /\ MaxRetries \in Nat \ {0}
    /\ Blocks \subseteq Block

Cores == {"core0", "core1"}

VARIABLES
    \* the gauge
    flash,          \* the data-flash block with the configuration
    ram,            \* the block in transfer
    ptr,            \* the register that is read next
    imax,           \* its IMAX interrupt is set
    \* the firmware
    program,        \* what each core has yet to do
    retries, stopped,
    send_buf, return_buf,
    locals,         \* pack_config and the block last read with its checksum
    target,         \* new_pack_config and new_pack_config_c in their block
    imax_seen,      \* in core 1's flags
    outcome,        \* how configure_host_interrupts ended, until init goes on
    armed,          \* the gauge's interrupt is listened to
    \* history
    clean,          \* nothing has come between a core and what it has begun
    trouble,        \* something has failed since the start, before arming
    sure            \* the order of the bytes could be told

gauge == <<flash, ram, ptr, imax>>
buffers == <<send_buf, return_buf>>
config == <<locals, target, outcome, sure>>
vars == <<gauge, program, retries, stopped, buffers, config, imax_seen, armed, clean, trouble>>

Other(core) == IF core = "core0" THEN "core1" ELSE "core0"

-----------------------------------------------------------------------------
(* Programs *)

Point(reg) == [op |-> "point", a |-> reg, into |-> "gauge"]
Get(reg, into) == [op |-> "get", a |-> reg, into |-> into]
Put(reg) == [op |-> "put", a |-> reg, into |-> "gauge"]
Do(what, a) == [op |-> what, a |-> a, into |-> "core"]

ReadBytes(reg, into) == <<Point(reg), Get(reg, into)>>

Control(subcommand) ==
    <<Do("build", subcommand), Do("send", subcommand)>> \o ReadBytes("control", "return_buf")

(* Mutant: the block, once selected, is not selected again. *)
SelectClassOnly == <<Put("block_control"), Put("class")>>

SelectBlock == <<Put("block_control"), Put("class"), Put("block")>>

ReadDataFlashBlock ==
    SelectBlock \o ReadBytes("data", "data") \o ReadBytes("checksum", "sum")

(* Mutant: the checksum is written before the data. *)
WriteChecksumFirst == SelectBlock \o <<Put("checksum"), Put("data")>>

WriteDataFlashBlock == SelectBlock \o <<Put("data"), Put("checksum")>>

ConfigureHostInterrupts ==
    ReadBytes("pack", "pack") \o ReadDataFlashBlock \o <<Do("decide", "flash")>>

(* A getter: it clears the shared reply buffer, fills it from its register  *)
(* and makes its field of the reply, and the warnings it logs, of it.       *)
GetRegister(reg) ==
    <<Do("clear", reg)>> \o ReadBytes(reg, "return_buf") \o <<Do("use", reg)>>

(* bq27742_g1_init and bq27742_g1_fw_version_check *)
Boot ==
    Control("clear_shutdown") \o ConfigureHostInterrupts
        \o <<Do("arm", "irq")>> \o Control("fw_version")

GetBatteryState ==
    GetRegister("voltage") \o GetRegister("safety") \o GetRegister("temp")
        \o GetRegister("soh") \o GetRegister("flags")

ParseInterruptVals ==
    ReadBytes("flags", "flags") \o ReadBytes("safety", "safety") \o <<Do("imax", "flags")>>

NoBlock == [high_first |-> TRUE, b0 |-> {}, b1 |-> {}, c |-> {}, rest |-> "partial"]
Nothing == [of |-> "none", block |-> NoBlock]
NoLocals == [pack |-> Nothing, data |-> Nothing, sum |-> Nothing]

(* The firmware's variables when it starts *)
Start(code) ==
    code = [core \in Cores |-> IF core = "core0" THEN Boot ELSE <<>>]

Init ==
    /\ flash \in Blocks
    /\ ram = NoBlock /\ ptr = "control" /\ imax \in BOOLEAN
    /\ Start(program)
    /\ retries = [core \in Cores |-> 0]
    /\ stopped = [core \in Cores |-> FALSE]
    /\ send_buf = "zero" /\ return_buf = "zero"
    /\ locals = NoLocals /\ target = NoBlock /\ outcome = "none" /\ sure = TRUE
    /\ imax_seen = FALSE /\ armed = FALSE
    /\ clean = [core \in Cores |-> TRUE] /\ trouble = FALSE

(* The board is switched off and on. *)
Restart ==
    /\ Start(program')
    /\ retries' = [core \in Cores |-> 0]
    /\ stopped' = [core \in Cores |-> FALSE]
    /\ send_buf' = "zero" /\ return_buf' = "zero"
    /\ locals' = NoLocals /\ target' = NoBlock /\ outcome' = "none" /\ sure' = TRUE
    /\ imax_seen' = FALSE /\ armed' = FALSE
    /\ clean' = [core \in Cores |-> TRUE] /\ trouble' = FALSE
    /\ UNCHANGED gauge

Runs(core, op) == ~stopped[core] /\ program[core] # <<>> /\ Head(program[core]).op = op
Arg(core) == Head(program[core]).a
Done(core) == program' = [program EXCEPT ![core] = Tail(@)]

(* The other core, if it has begun something, does not find the gauge or   *)
(* the buffers as it left them.                                            *)
Disturb(core) == [clean EXCEPT ![Other(core)] = FALSE]

-----------------------------------------------------------------------------
(* The gauge (external) *)

High(block) == IF block.high_first THEN block.b0 ELSE block.b1
Low(block) == IF block.high_first THEN block.b1 ELSE block.b0

(* A register's content: only what configuring looks at is told apart. *)
Content(reg) ==
    CASE reg = "pack" -> [NoBlock EXCEPT !.b0 = High(flash), !.b1 = Low(flash)]
      [] reg \in {"data", "checksum"} -> ram
      [] OTHER -> NoBlock

(* A write that arrives.  The block goes to the flash when the checksum    *)
(* written is that of the block in transfer.                               *)
Arrive(core) ==
    \/ /\ Runs(core, "point")
       /\ ptr' = Arg(core)
       /\ UNCHANGED <<flash, ram, imax>>
    \/ /\ Runs(core, "send")
       /\ ptr' = "beyond"
       /\ imax' = (imax /\ send_buf # "imax_clear")
       /\ UNCHANGED <<flash, ram>>
    \/ /\ Runs(core, "put")
       /\ ptr' = "beyond"
       /\ ram' = CASE Arg(core) = "block" -> flash
                   [] Arg(core) = "data" -> target
                   [] OTHER -> ram
       /\ flash' = IF Arg(core) = "checksum" /\ ram = target THEN ram ELSE flash
       /\ UNCHANGED imax

(* A write that arrives in part, or not at all *)
Break(core) ==
    \/ UNCHANGED gauge
    \/ /\ Runs(core, "put") /\ Arg(core) = "data"
       /\ ram' = [target EXCEPT !.rest = "partial"]
       /\ ptr' = "beyond"
       /\ UNCHANGED <<flash, imax>>

(* A sealed or weak gauge does not write its flash. *)
Refuse ==
    /\ Runs("core0", "put") /\ Arg("core0") = "checksum"
    /\ ptr' = "beyond"
    /\ trouble' = TRUE
    /\ clean' = Disturb("core0")
    /\ Done("core0")
    /\ retries' = [retries EXCEPT !["core0"] = 0]
    /\ UNCHANGED <<flash, ram, imax, stopped, buffers, config, imax_seen, armed>>

SetImax ==
    /\ ~imax
    /\ imax' = TRUE
    /\ UNCHANGED <<flash, ram, ptr, program, retries, stopped, buffers, config, imax_seen, armed,
                   clean, trouble>>

-----------------------------------------------------------------------------
(* i2c_write_error_handling and i2c_read_error_handling *)

Write(core) ==
    /\ Arrive(core)
    /\ Done(core)
    /\ retries' = [retries EXCEPT ![core] = 0]
    /\ clean' = Disturb(core)
    /\ UNCHANGED <<stopped, buffers, config, imax_seen, armed, trouble>>

(* Mutants: one attempt more than MAX_RETRIES; attempts are not counted. *)
RetryOnceMore(core) ==
    IF retries[core] + 1 <= MaxRetries
    THEN retries' = [retries EXCEPT ![core] = @ + 1] /\ UNCHANGED stopped
    ELSE stopped' = [stopped EXCEPT ![core] = TRUE] /\ UNCHANGED retries

RetryForEver(core) == UNCHANGED <<retries, stopped>>

(* After the last attempt the error is caught and an assert stops the core. *)
Retry(core) ==
    IF retries[core] + 1 < MaxRetries
    THEN retries' = [retries EXCEPT ![core] = @ + 1] /\ UNCHANGED stopped
    ELSE stopped' = [stopped EXCEPT ![core] = TRUE] /\ UNCHANGED retries

(* Mutant: a transfer that failed is taken for done. *)
WriteFailsUnnoticed(core) ==
    /\ Runs(core, "point") \/ Runs(core, "send") \/ Runs(core, "put")
    /\ Arrive(core) \/ Break(core)
    /\ Done(core)
    /\ clean' = Disturb(core)
    /\ trouble' = (trouble \/ ~armed)
    /\ UNCHANGED <<retries, stopped, buffers, config, imax_seen, armed>>

WriteFails(core) ==
    /\ Runs(core, "point") \/ Runs(core, "send") \/ Runs(core, "put")
    /\ Arrive(core) \/ Break(core)
    /\ Retry(core)
    /\ clean' = Disturb(core)
    /\ trouble' = (trouble \/ ~armed)
    /\ UNCHANGED <<program, buffers, config, imax_seen, armed>>

Read(core) ==
    /\ Runs(core, "get")
    /\ LET into == Head(program[core]).into
       IN  /\ return_buf' = IF into = "return_buf" THEN ptr ELSE return_buf
           /\ locals' = IF into \in DOMAIN locals
                        THEN [locals EXCEPT ![into] = [of |-> ptr, block |-> Content(ptr)]]
                        ELSE locals
           /\ IF into = "flags"
              THEN imax_seen' \in (IF ptr = "flags" THEN {imax} ELSE BOOLEAN)
              ELSE UNCHANGED imax_seen
    /\ ptr' = "beyond"
    /\ Done(core)
    /\ retries' = [retries EXCEPT ![core] = 0]
    /\ clean' = Disturb(core)
    /\ UNCHANGED <<flash, ram, imax, stopped, send_buf, target, outcome, sure, armed, trouble>>

(* The gauge counts on with each byte read, and a read that broke off is   *)
(* tried again from there.                                                 *)
ReadFails(core) ==
    /\ Runs(core, "get")
    /\ \/ UNCHANGED ptr /\ clean' = Disturb(core)
       \/ ptr' = "beyond" /\ clean' = [c \in Cores |-> FALSE]
    /\ Retry(core)
    /\ trouble' = (trouble \/ ~armed)
    /\ UNCHANGED <<flash, ram, imax, program, buffers, config, imax_seen, armed>>

-----------------------------------------------------------------------------
(* What a core does between transfers *)

Begin(core) == [Disturb(core) EXCEPT ![core] = TRUE]

(* Both clear the two buffers; bq27742_g1_control then fills in one.       *)
Prepare(core) ==
    /\ \/ Runs(core, "build") /\ send_buf' = Arg(core)
       \/ Runs(core, "clear") /\ send_buf' = "zero"
    /\ return_buf' = "zero"
    /\ clean' = Begin(core)
    /\ Done(core)
    /\ UNCHANGED <<gauge, retries, stopped, config, imax_seen, armed, trouble>>

(* A getter's answer is copied to the state that is sent. *)
Use ==
    /\ Runs("core0", "use")
    /\ Done("core0")
    /\ UNCHANGED <<gauge, retries, stopped, buffers, config, imax_seen, armed, clean, trouble>>

(* bq27742_g1_read_data_flash_block checks what it read. *)
ReadWhole ==
    /\ locals.data.of = "data" /\ locals.sum.of = "checksum"
    /\ locals.data.block = locals.sum.block

(* The bytes as read, in the order given, are those of the command. *)
Matches(first, second) ==
    locals.pack.of = "pack" /\ locals.pack.block.b0 = first /\ locals.pack.block.b1 = second

(* Mutant: the order of the bytes is taken for granted. *)
HighFirstAlways == FALSE

LowFirst ==
    LET block == locals.data.block
    IN  Matches(block.b1, block.b0) /\ ~Matches(block.b0, block.b1)

WithHost(byte) == (byte \cup {HOSTIE}) \ {HOSTIPOL, HOSTIPU}

NewBlock ==
    LET block == locals.data.block
    IN  [block EXCEPT !.b0 = IF LowFirst THEN @ ELSE WithHost(@),
                      !.b1 = IF LowFirst THEN WithHost(@) ELSE @,
                      !.c = @ \ {BTP_EN}]

(* configure_host_interrupts is left, and its locals with it. *)
Outcome(result) ==
    /\ outcome' = result
    /\ locals' = NoLocals /\ target' = NoBlock
    /\ Done("core0")

(* configure_host_interrupts once it has read the block *)
Decide ==
    /\ Runs("core0", "decide")
    /\ sure' = (LowFirst = ~flash.high_first)
    /\ \/ /\ ~ReadWhole
          /\ Outcome("unread")
       \/ /\ ReadWhole
          /\ NewBlock = locals.data.block
          /\ Outcome("already")
       \/ /\ ReadWhole
          /\ NewBlock # locals.data.block
          /\ target' = NewBlock
          /\ program' = [program EXCEPT !["core0"] =
                WriteDataFlashBlock \o ReadDataFlashBlock \o <<Do("verify", "flash")>> \o Tail(@)]
          /\ UNCHANGED <<locals, outcome>>
    /\ UNCHANGED <<gauge, retries, stopped, buffers, imax_seen, armed, clean, trouble>>

(* Mutant: only the checksum is verified. *)
VerifiedWhole == ReadWhole

Verified ==
    LET block == locals.data.block
    IN  ReadWhole /\ block.b0 = target.b0 /\ block.b1 = target.b1 /\ block.c = target.c

Verify ==
    /\ Runs("core0", "verify")
    /\ Outcome(IF Verified THEN "configured" ELSE "unverified")
    /\ UNCHANGED <<gauge, retries, stopped, buffers, sure, imax_seen, armed, clean, trouble>>

Arm ==
    /\ Runs("core0", "arm")
    /\ armed' = TRUE
    /\ outcome' = "none" /\ sure' = TRUE /\ trouble' = FALSE
    /\ Done("core0")
    /\ UNCHANGED <<gauge, retries, stopped, buffers, locals, target, imax_seen, clean>>

(* get_battery_state, once for each GET_STATE *)
GetState ==
    /\ program["core0"] = <<>>
    /\ program' = [program EXCEPT !["core0"] = GetBatteryState]
    /\ UNCHANGED <<gauge, retries, stopped, buffers, config, imax_seen, armed, clean, trouble>>

(* Core 1 takes bq27742_g1_parse_interrupt_vals from its queue. *)
Interrupt ==
    /\ armed
    /\ program["core1"] = <<>>
    /\ program' = [program EXCEPT !["core1"] = ParseInterruptVals]
    /\ clean' = [clean EXCEPT !["core1"] = TRUE]
    /\ UNCHANGED <<gauge, retries, stopped, buffers, config, imax_seen, armed, trouble>>

CheckImax ==
    /\ Runs("core1", "imax")
    /\ program' = [program EXCEPT !["core1"] =
            IF imax_seen THEN Control("imax_clear") \o Tail(@) ELSE Tail(@)]
    /\ imax_seen' = FALSE
    /\ UNCHANGED <<gauge, retries, stopped, buffers, config, armed, clean, trouble>>

-----------------------------------------------------------------------------
Transfer(core) == Write(core) \/ WriteFails(core) \/ Read(core) \/ ReadFails(core)

Core0 ==
    Transfer("core0") \/ Refuse \/ Prepare("core0") \/ Use \/ Decide \/ Verify \/ Arm

Core1 == Transfer("core1") \/ Prepare("core1") \/ CheckImax

Next == Core0 \/ Core1 \/ GetState \/ Interrupt \/ SetImax \/ Restart

Spec == Init /\ [][Next]_vars

(* Both cores run, whatever their transfers come to; nothing makes a       *)
(* request, an interrupt or a power cycle come.                            *)
FairSpec == Spec /\ WF_vars(Core0) /\ WF_vars(Core1)

-----------------------------------------------------------------------------
Registers == {"control", "pack", "data", "checksum", "voltage", "safety", "temp", "soh", "flags"}

Subcommands == {"clear_shutdown", "fw_version", "imax_clear"}

Instructions ==
    [op : {"point", "get", "put", "build", "send", "clear", "use", "decide", "verify", "arm", "imax"},
     a : Registers \cup Subcommands \cup {"block_control", "class", "block", "irq", "flash"},
     into : {"gauge", "core", "return_buf", "flags", "safety"} \cup DOMAIN NoLocals]

(* Retries stay below their limit, and core 1 leaves the configuration     *)
(* alone.                                                                  *)
TypeOK ==
    /\ flash \in Block /\ ram \in Block /\ ptr \in Registers \cup {"beyond"} /\ imax \in BOOLEAN
    /\ program \in [Cores -> Seq(Instructions)]
    /\ \A i \in DOMAIN program["core1"] :
          program["core1"][i].op \notin {"put", "clear", "use", "decide", "verify", "arm"}
    /\ retries \in [Cores -> 0 .. MaxRetries - 1]
    /\ stopped \in [Cores -> BOOLEAN]
    /\ send_buf \in {"zero"} \cup Subcommands
    /\ return_buf \in Registers \cup {"beyond", "zero"}
    /\ locals \in [DOMAIN NoLocals ->
            [of : Registers \cup {"beyond", "none"}, block : Block]]
    /\ target \in Block /\ imax_seen \in BOOLEAN
    /\ outcome \in {"none", "unread", "already", "configured", "unverified"}
    /\ armed \in BOOLEAN /\ clean \in [Cores -> BOOLEAN]
    /\ trouble \in BOOLEAN /\ sure \in BOOLEAN

Configured(block) ==
    /\ HOSTIE \in High(block)
    /\ HOSTIPOL \notin High(block) /\ HOSTIPU \notin High(block)
    /\ BTP_EN \notin block.c

(* Whatever fails and whenever the power goes, the gauge's flash is only   *)
(* ever changed to hold the configuration, in one write, with every other  *)
(* bit as it was.  (Where the bytes of PackConfiguration are alike or were *)
(* misread, a gauge that has the low byte first is taken for the other.)   *)
OtherBitsKept ==
    [][ flash' # flash /\ sure =>
          /\ Configured(flash')
          /\ WithHost(High(flash)) = High(flash')
          /\ Low(flash) = Low(flash')
          /\ flash.c \ {BTP_EN} = flash'.c
          /\ flash.rest = flash'.rest ]_vars

(* When the log says that the host interrupts are or were configured, they *)
(* are, if the firmware had the order of PackConfiguration's bytes right.  *)
(* A gauge that has the low byte first, of which the word was misread or   *)
(* the bytes are alike, is taken for the other: then the log says so,      *)
(* bq27742_g1.c:384, of a gauge whose high byte was left as it was.        *)
ConfiguredWhenSaid ==
    outcome \in {"already", "configured"} /\ sure => Configured(flash)

(* What becomes of a gauge that has the low byte first and alike bytes *)
TakenForHighFirst(block) == ~block.high_first /\ block.b0 = WithHost(block.b1)

(* A start on which nothing fails says that the gauge is configured, and   *)
(* its flash is, whatever earlier starts that were broken off left in it.  *)
(* Only where the bytes of PackConfiguration are alike on a gauge that has *)
(* the low byte first is the low byte configured instead.                  *)
GoodBootConfigures ==
    outcome # "none" /\ ~trouble =>
        /\ outcome \in {"already", "configured"}
        /\ Configured(flash) \/ TakenForHighFirst(flash)

(* Unless the other core used the gauge or the buffers meanwhile, or a     *)
(* read broke off, a core reads the register it means to, sends the        *)
(* subcommand it means to, and finds in return_buf what it read.           *)
OwnTransfers ==
    \A core \in Cores : clean[core] =>
        /\ Runs(core, "get") => ptr = Arg(core)
        /\ Runs(core, "send") => send_buf = Arg(core)
        /\ Runs(core, "use") => return_buf = Arg(core)

(* Once the board stays on, core 0 gets to the end of what it does or      *)
(* stops: bq27742_g1_init and GET_STATE take no more than the last         *)
(* attempts of their transfers.                                            *)
Core0GoesOn ==
    <>[][~Restart]_vars =>
        (program["core0"] # <<>> ~> program["core0"] = <<>> \/ stopped["core0"])
=============================================================================
