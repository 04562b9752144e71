------------------------- MODULE GaugeAccess_proofs -------------------------
(***************************************************************************)
(* Proofs about GaugeAccess, for every limit of attempts and whatever the  *)
(* data flash holds to begin with.  A core's program is handed out in      *)
(* pieces that are joined; what the proofs need of a program is said of    *)
(* its neighbouring instructions (Linked) and of the order in which those  *)
(* that matter to the configuration come (Ordered).  Both hold of what is  *)
(* left when the first instruction is done, and of pieces that are joined  *)
(* where their ends fit.                                                   *)
(***************************************************************************)
EXTENDS GaugeAccess, SequenceTheorems, TLAPS

-----------------------------------------------------------------------------
(* Programs *)

(* Where an instruction needs the one before it *)
Link(x, y) ==
    /\ y.op = "get" => x.op = "point" /\ x.a = y.a
    /\ y.op = "send" => x.op = "build" /\ x.a = y.a
    /\ y.op = "use" => x.op = "get" /\ x.a = y.a /\ x.into = "return_buf"
    /\ y.op = "point" /\ y.a = "data" => x.op = "put" /\ x.a = "block"
    /\ y.op = "point" /\ y.a = "checksum" => x.op = "get" /\ x.a = "data"
    /\ y.op \in {"decide", "verify"} => x.op = "get" /\ x.a = "checksum"
    /\ y.op = "put" /\ y.a = "checksum" => x.op = "put" /\ x.a = "data"

(* An instruction that needs none *)
Free(y) ==
    /\ y.op \notin {"get", "send", "use", "decide", "verify"}
    /\ y.op = "point" => y.a \notin {"data", "checksum"}
    /\ y.op = "put" => y.a # "checksum"

(* PackConfiguration is read. *)
GetsPack(x) == x.op = "get" /\ x.a = "pack"

(* What may come, sooner or later, before what *)
Order(x, y) ==
    /\ y.op = "put" /\ y.a = "checksum" => x.op = "put"
    /\ x.op \in {"decide", "verify"} => y.op \notin {"put", "decide", "verify"}
    /\ x.op = "decide" => ~GetsPack(y)
    /\ x.op = "arm" => y.op \notin {"put", "decide", "verify", "arm"}

Linked(p) == \A i \in 2 .. Len(p) : Link(p[i - 1], p[i])

Ordered(p) == \A j \in 1 .. Len(p) : \A i \in 1 .. j - 1 : Order(p[i], p[j])

(* Instructions that are given what they need, and a read of the block to  *)
(* the local that is meant for it                                          *)
Steps ==
    {x \in Instructions :
        /\ x.op \in {"point", "get", "use"} => x.a \in Registers
        /\ x.op \in {"build", "send"} => x.a \in Subcommands
        /\ x.op = "get" => (GetsPack(x) <=> x.into = "pack")
        /\ x.op = "get" /\ x.a = "data" => x.into = "data"
        /\ x.op = "get" /\ x.a = "checksum" => x.into = "sum"}

(* Instructions that have no part in the order *)
Neutral == {x \in Steps : x.op \notin {"put", "decide", "verify", "arm"} /\ ~GetsPack(x)}

Puts == {x \in Steps : x.op = "put"}

(* Those that come before the decision: only the checksum is not written. *)
Early == Neutral \cup {x \in Puts : x.a # "checksum"} \cup {x \in Steps : GetsPack(x)}

Has(p, op) == \E i \in 1 .. Len(p) : p[i].op = op

Commits(p) == \E i \in 1 .. Len(p) : p[i].op = "put" /\ p[i].a = "checksum"

PackAhead(p) == \E i \in 1 .. Len(p) : GetsPack(p[i])

(* Nothing of the configuration is left to do. *)
Quiet(p) == \A i \in 1 .. Len(p) : p[i].op \notin {"put", "decide", "verify"}

-----------------------------------------------------------------------------
(* The inductive invariant *)

Turn(core, op) == program[core] # <<>> /\ Head(program[core]).op = op

(* Core 1 only reads and sends subcommands. *)
Asks(p) == p \in Seq(Neutral) /\ ~Has(p, "clear") /\ ~Has(p, "use")

Programs ==
    /\ program \in [Cores -> Seq(Steps)]
    /\ \A core \in Cores : Linked(program[core])
    /\ Ordered(program["core0"])
    /\ Asks(program["core1"])
    /\ IF armed
       THEN Quiet(program["core0"]) /\ ~Has(program["core0"], "arm") /\ outcome = "none"
       ELSE Has(program["core0"], "arm") /\ program["core1"] = <<>>
    /\ outcome # "none" => Quiet(program["core0"])

ReadyAt(core) ==
    clean[core] =>
        /\ Turn(core, "get") => ptr = Arg(core)
        /\ Turn(core, "send") => send_buf = Arg(core)
        /\ Turn(core, "use") => return_buf = Arg(core)

Ready == \A core \in Cores : ReadyAt(core)

(* PackConfiguration as it is read of the flash *)
Pack == [of |-> "pack", block |-> [NoBlock EXCEPT !.b0 = High(flash), !.b1 = Low(flash)]]

(* On a start on which nothing has failed, the order of the bytes can be   *)
(* told unless they are alike.                                             *)
Telling ==
    ~armed /\ ~trouble =>
        /\ Has(program["core0"], "decide") => ~Commits(program["core0"])
        /\ Has(program["core0"], "decide") /\ ~PackAhead(program["core0"]) => locals.pack = Pack
        /\ Has(program["core0"], "verify") => sure \/ TakenForHighFirst(target)
        /\ outcome # "none" => sure \/ TakenForHighFirst(flash)

(* A start on which nothing failed ends well. *)
EndsWell ==
    outcome # "none" /\ ~trouble => outcome \in {"already", "configured"}

(* The block has been selected, and not written since. *)
Selected ==
    \/ Turn("core0", "point") /\ Arg("core0") \in {"data", "checksum"}
    \/ Turn("core0", "get") /\ Arg("core0") \in {"data", "checksum"}
    \/ Turn("core0", "decide") \/ Turn("core0", "verify")

(* The block has been read. *)
DataRead ==
    \/ Turn("core0", "point") /\ Arg("core0") = "checksum"
    \/ Turn("core0", "get") /\ Arg("core0") = "checksum"
    \/ Turn("core0", "decide") \/ Turn("core0", "verify")

Fetched ==
    ~armed =>
        /\ Selected => ram = flash
        /\ DataRead /\ locals.data.of = "data" => locals.data.block = flash

Writing ==
    Commits(program["core0"]) =>
        /\ target = NewBlock
        /\ flash = locals.data.block \/ flash = target
        /\ sure = (LowFirst = ~flash.high_first)

Verifying ==
    Has(program["core0"], "verify") =>
        /\ target.high_first = flash.high_first
        /\ sure => Configured(target)

Untroubled ==
    ~armed /\ ~trouble =>
        /\ clean["core0"]
        /\ DataRead => locals.data.of = "data"
        /\ Turn("core0", "decide") \/ Turn("core0", "verify") =>
              locals.sum = [of |-> "checksum", block |-> flash]
        /\ Turn("core0", "put") /\ Arg("core0") = "checksum" => ram = target
        /\ Has(program["core0"], "verify") /\ ~Commits(program["core0"]) => flash = target

Configuring ==
    /\ Fetched /\ Writing /\ Verifying /\ Untroubled
    /\ ConfiguredWhenSaid /\ EndsWell

-----------------------------------------------------------------------------
(* Joining programs *)

(* What is left of a program is in the same set and linked and ordered as  *)
(* the whole, and the new first instruction fits the one that is done.     *)
LEMMA TailKept ==
    ASSUME NEW S, NEW p \in Seq(S), p # <<>>
    PROVE  /\ Tail(p) \in Seq(S)
           /\ Len(Tail(p)) = Len(p) - 1
           /\ \A i \in 1 .. Len(Tail(p)) : Tail(p)[i] = p[i + 1]
           /\ Head(p) = p[1] /\ Head(p) \in S
           /\ Linked(p) => Linked(Tail(p))
           /\ Ordered(p) => Ordered(Tail(p))
<1>1. /\ Tail(p) \in Seq(S)
      /\ Len(Tail(p)) = Len(p) - 1
      /\ \A i \in 1 .. Len(Tail(p)) : Tail(p)[i] = p[i + 1]
      /\ Head(p) = p[1] /\ Head(p) \in S
      /\ Len(p) \in Nat \ {0}
    BY HeadTailProperties
<1>2. Linked(p) => Linked(Tail(p))
    BY <1>1 DEF Linked
<1>3. Ordered(p) => Ordered(Tail(p))
    BY <1>1 DEF Ordered
<1> QED
    BY <1>1, <1>2, <1>3

LEMMA NextLinked ==
    ASSUME NEW S, NEW p \in Seq(S), p # <<>>, Linked(p), Tail(p) # <<>>
    PROVE  Link(Head(p), Head(Tail(p)))
<1>1. /\ Tail(p) \in Seq(S) /\ Head(p) = p[1]
      /\ Len(Tail(p)) = Len(p) - 1 /\ Len(p) \in Nat
      /\ \A i \in 1 .. Len(Tail(p)) : Tail(p)[i] = p[i + 1]
    BY TailKept, LenProperties
<1>2. Head(Tail(p)) = Tail(p)[1] /\ Len(Tail(p)) \in Nat \ {0}
    BY <1>1, HeadTailProperties, EmptySeq, LenProperties
<1>3. Len(p) >= 2 /\ Tail(p)[1] = p[2]
    BY <1>1, <1>2
<1> QED
    BY <1>1, <1>2, <1>3 DEF Linked

(* A program that begins with x, ends with y and is linked *)
Piece(p, x, y) ==
    /\ p \in Seq(Steps) /\ p # <<>> /\ Linked(p)
    /\ p[1] = x /\ p[Len(p)] = y

LEMMA JoinPieces ==
    ASSUME NEW p, NEW q, NEW x, NEW y, NEW v, NEW w, Piece(p, x, y), Piece(q, v, w), Link(y, v)
    PROVE  Piece(p \o q, x, w)
<1>1. /\ p \o q \in Seq(Steps)
      /\ Len(p \o q) = Len(p) + Len(q)
      /\ \A i \in 1 .. Len(p) + Len(q) :
            (p \o q)[i] = IF i <= Len(p) THEN p[i] ELSE q[i - Len(p)]
    BY ConcatProperties DEF Piece
<1>2. Len(p) \in Nat \ {0} /\ Len(q) \in Nat \ {0}
    BY EmptySeq, LenProperties DEF Piece
<1>3. Linked(p \o q)
    <2> SUFFICES ASSUME NEW i \in 2 .. Len(p) + Len(q)
                 PROVE  Link((p \o q)[i - 1], (p \o q)[i])
        BY <1>1 DEF Linked
    <2>1. CASE i <= Len(p)
        BY <2>1, <1>1, <1>2 DEF Piece, Linked
    <2>2. CASE i = Len(p) + 1
        <3>1. (p \o q)[i - 1] = y /\ (p \o q)[i] = v
            BY <2>2, <1>1, <1>2 DEF Piece
        <3> QED
            BY <3>1
    <2>3. CASE i > Len(p) + 1
        <3>1. i - Len(p) \in 2 .. Len(q) /\ (i - 1) - Len(p) = (i - Len(p)) - 1
            BY <2>3, <1>2
        <3>2. (p \o q)[i - 1] = q[(i - Len(p)) - 1] /\ (p \o q)[i] = q[i - Len(p)]
            BY <2>3, <3>1, <1>1, <1>2
        <3> QED
            BY <3>1, <3>2 DEF Piece, Linked
    <2> QED
        BY <2>1, <2>2, <2>3, <1>2
<1>4. p \o q # <<>> /\ (p \o q)[1] = x /\ (p \o q)[Len(p \o q)] = w
    BY <1>1, <1>2 DEF Piece
<1> QED
    BY <1>1, <1>3, <1>4 DEF Piece

LEMMA JoinOrdered ==
    ASSUME NEW A, NEW B, NEW p \in Seq(A), NEW q \in Seq(B), Ordered(p), Ordered(q),
           \A x \in A, y \in B : Order(x, y)
    PROVE  Ordered(p \o q)
<1>1. /\ Len(p \o q) = Len(p) + Len(q)
      /\ \A i \in 1 .. Len(p) + Len(q) :
            (p \o q)[i] = IF i <= Len(p) THEN p[i] ELSE q[i - Len(p)]
      /\ Len(p) \in Nat /\ Len(q) \in Nat
      /\ \A i \in 1 .. Len(p) : p[i] \in A
      /\ \A i \in 1 .. Len(q) : q[i] \in B
    <2>1. p \in Seq(A \cup B) /\ q \in Seq(A \cup B)
        OBVIOUS
    <2> QED
        BY <2>1, ConcatProperties, ElementOfSeq, LenProperties
<1> SUFFICES ASSUME NEW j \in 1 .. Len(p) + Len(q), NEW i \in 1 .. j - 1
             PROVE  Order((p \o q)[i], (p \o q)[j])
    BY <1>1 DEF Ordered
<1>2. CASE j <= Len(p)
    BY <1>2, <1>1 DEF Ordered
<1>3. CASE i <= Len(p) /\ j > Len(p)
    <2>1. (p \o q)[i] = p[i] /\ (p \o q)[j] = q[j - Len(p)] /\ j - Len(p) \in 1 .. Len(q)
          /\ i \in 1 .. Len(p)
        BY <1>3, <1>1
    <2> QED
        BY <2>1, <1>1
<1>4. CASE i > Len(p)
    <2>1. (p \o q)[i] = q[i - Len(p)] /\ (p \o q)[j] = q[j - Len(p)] /\ j - Len(p) \in 1 .. Len(q)
          /\ i - Len(p) \in 1 .. (j - Len(p)) - 1
        BY <1>4, <1>1
    <2> QED
        BY <2>1 DEF Ordered
<1> QED
    BY <1>2, <1>3, <1>4, <1>1

LEMMA JoinIn ==
    ASSUME NEW A, NEW p \in Seq(A), NEW q \in Seq(A)
    PROVE  p \o q \in Seq(A)
BY ConcatProperties

-----------------------------------------------------------------------------
(* The programs of the code *)

LEMMA InstructionsTyped ==
    /\ \A reg \in Registers : Point(reg) \in Neutral
    /\ \A reg \in Registers \ {"pack", "data", "checksum"} :
          \A into \in {"return_buf", "flags", "safety"} : Get(reg, into) \in Neutral
    /\ Get("pack", "pack") \in Early /\ Get("pack", "pack") \in Steps
    /\ Get("data", "data") \in Neutral /\ Get("checksum", "sum") \in Neutral
    /\ \A reg \in {"block_control", "class", "block", "data"} : Put(reg) \in Puts \cap Early
    /\ Put("checksum") \in Puts
    /\ \A s \in Subcommands : Do("build", s) \in Neutral /\ Do("send", s) \in Neutral
    /\ \A reg \in Registers : Do("clear", reg) \in Neutral /\ Do("use", reg) \in Neutral
    /\ Do("imax", "flags") \in Neutral
    /\ Do("decide", "flash") \in Steps /\ Do("verify", "flash") \in Steps
    /\ Do("arm", "irq") \in Steps
<1>1. DOMAIN NoLocals = {"pack", "data", "sum"}
    BY DEF NoLocals
<1>2. \A reg \in Registers :
        /\ Point(reg) \in Instructions
        /\ \A into \in {"return_buf", "pack", "flags", "safety", "data", "sum"} :
              Get(reg, into) \in Instructions
    BY <1>1 DEF Point, Get, Instructions
<1>3. \A reg \in {"block_control", "class", "block", "data", "checksum"} :
        Put(reg) \in Instructions
    BY DEF Put, Instructions, Registers
<1>4. \A what \in {"build", "send", "clear", "use", "imax", "decide", "verify", "arm"} :
        \A a \in Registers \cup Subcommands \cup {"irq", "flash"} : Do(what, a) \in Instructions
    BY DEF Do, Instructions
<1>5. \A reg \in Registers : Point(reg) \in Neutral
    BY <1>2 DEF Point, Neutral, Steps, GetsPack
<1>6. /\ \A reg \in Registers \ {"pack", "data", "checksum"} :
            \A into \in {"return_buf", "flags", "safety"} : Get(reg, into) \in Neutral
      /\ Get("pack", "pack") \in Early /\ Get("pack", "pack") \in Steps
      /\ Get("data", "data") \in Neutral /\ Get("checksum", "sum") \in Neutral
    BY <1>2 DEF Get, Neutral, Early, Steps, GetsPack, Registers
<1>7. /\ \A reg \in {"block_control", "class", "block", "data"} : Put(reg) \in Puts \cap Early
      /\ Put("checksum") \in Puts
    BY <1>3 DEF Put, Puts, Early, Steps, GetsPack
<1>8. /\ \A s \in Subcommands : Do("build", s) \in Neutral /\ Do("send", s) \in Neutral
      /\ \A reg \in Registers : Do("clear", reg) \in Neutral /\ Do("use", reg) \in Neutral
    BY <1>4 DEF Do, Neutral, Steps, GetsPack
<1>9. "flags" \in Registers /\ "flash" \in {"irq", "flash"} /\ "irq" \in {"irq", "flash"}
    BY DEF Registers
<1>10. /\ Do("imax", "flags") \in Neutral
       /\ Do("decide", "flash") \in Steps /\ Do("verify", "flash") \in Steps
       /\ Do("arm", "irq") \in Steps
    BY <1>4, <1>9 DEF Do, Neutral, Steps, GetsPack
<1> QED
    BY <1>5, <1>6, <1>7, <1>8, <1>10

(* Short programs *)
LEMMA OneStep ==
    ASSUME NEW S, NEW x \in S
    PROVE  /\ <<x>> \in Seq(S) /\ Ordered(<<x>>)
           /\ x \in Steps => Piece(<<x>>, x, x)
BY DEF Piece, Linked, Ordered

LEMMA TwoSteps ==
    ASSUME NEW S, NEW x \in S, NEW y \in S
    PROVE  /\ <<x, y>> \in Seq(S)
           /\ x \in Steps /\ y \in Steps /\ Link(x, y) => Piece(<<x, y>>, x, y)
BY DEF Piece, Linked

LEMMA ThreeSteps ==
    ASSUME NEW S, NEW x \in S, NEW y \in S, NEW z \in S
    PROVE  /\ <<x, y, z>> \in Seq(S)
           /\ x \in Steps /\ y \in Steps /\ z \in Steps /\ Link(x, y) /\ Link(y, z) =>
                 Piece(<<x, y, z>>, x, z)
BY DEF Piece, Linked

LEMMA NeutralShape ==
    ASSUME NEW p \in Seq(Neutral)
    PROVE  Ordered(p) /\ Quiet(p) /\ ~Has(p, "arm")
<1>1. \A i \in 1 .. Len(p) : p[i] \in Neutral
    BY ElementOfSeq
<1> QED
    BY <1>1, LenProperties DEF Ordered, Order, Quiet, Has, Neutral

LEMMA ReadBytesShape ==
    ASSUME NEW reg \in Registers, NEW into, Get(reg, into) \in Neutral
    PROVE  /\ ReadBytes(reg, into) \in Seq(Neutral)
           /\ Piece(ReadBytes(reg, into), Point(reg), Get(reg, into))
<1>1. Point(reg) \in Neutral /\ Point(reg) \in Steps /\ Get(reg, into) \in Steps
    BY InstructionsTyped DEF Neutral
<1>2. Link(Point(reg), Get(reg, into))
    BY DEF Link, Point, Get
<1> QED
    BY <1>1, <1>2, TwoSteps DEF ReadBytes

LEMMA ControlShape ==
    ASSUME NEW s \in Subcommands
    PROVE  /\ Control(s) \in Seq(Neutral)
           /\ Piece(Control(s), Do("build", s), Get("control", "return_buf"))
<1> DEFINE p == <<Do("build", s), Do("send", s)>>
           q == ReadBytes("control", "return_buf")
<1>1. "control" \in Registers /\ Get("control", "return_buf") \in Neutral
    BY InstructionsTyped DEF Registers
<1>2. q \in Seq(Neutral) /\ Piece(q, Point("control"), Get("control", "return_buf"))
    BY <1>1, ReadBytesShape
<1>3. p \in Seq(Neutral) /\ Piece(p, Do("build", s), Do("send", s))
    <2>1. /\ Do("build", s) \in Neutral /\ Do("send", s) \in Neutral
          /\ Do("build", s) \in Steps /\ Do("send", s) \in Steps
        BY InstructionsTyped DEF Neutral
    <2>2. Link(Do("build", s), Do("send", s))
        BY DEF Link, Do
    <2> QED
        BY <2>1, <2>2, TwoSteps
<1>4. Link(Do("send", s), Point("control"))
    BY DEF Link, Point
<1> HIDE DEF p, q
<1>5. p \o q \in Seq(Neutral) /\ Piece(p \o q, Do("build", s), Get("control", "return_buf"))
    BY <1>2, <1>3, <1>4, JoinIn, JoinPieces
<1> QED
    BY <1>5 DEF Control, p, q

LEMMA SelectBlockShape ==
    /\ SelectBlock \in Seq(Puts) /\ SelectBlock \in Seq(Early)
    /\ Piece(SelectBlock, Put("block_control"), Put("block"))
<1>1. \A reg \in {"block_control", "class", "block"} : Put(reg) \in Puts /\ Put(reg) \in Early
    BY InstructionsTyped
<1>2. \A reg \in {"block_control", "class", "block"} : Put(reg) \in Steps
    BY <1>1 DEF Puts
<1>3. Link(Put("block_control"), Put("class")) /\ Link(Put("class"), Put("block"))
    BY DEF Link, Put
<1> QED
    BY <1>1, <1>2, <1>3, ThreeSteps DEF SelectBlock

LEMMA NeutralIsEarly ==
    ASSUME NEW p \in Seq(Neutral)
    PROVE  p \in Seq(Early)
BY DEF Early

LEMMA ReadBlockShape ==
    /\ ReadDataFlashBlock \in Seq(Early)
    /\ Piece(ReadDataFlashBlock, Put("block_control"), Get("checksum", "sum"))
<1> DEFINE d == ReadBytes("data", "data")
           c == ReadBytes("checksum", "sum")
<1>1. /\ "data" \in Registers /\ Get("data", "data") \in Neutral
      /\ "checksum" \in Registers /\ Get("checksum", "sum") \in Neutral
    BY InstructionsTyped DEF Registers
<1>2. d \in Seq(Early) /\ Piece(d, Point("data"), Get("data", "data"))
    BY <1>1, ReadBytesShape, NeutralIsEarly
<1>3. c \in Seq(Early) /\ Piece(c, Point("checksum"), Get("checksum", "sum"))
    BY <1>1, ReadBytesShape, NeutralIsEarly
<1>4. Link(Put("block"), Point("data")) /\ Link(Get("data", "data"), Point("checksum"))
    BY DEF Link, Put, Point, Get
<1> HIDE DEF d, c
<1>5. /\ SelectBlock \o d \in Seq(Early)
      /\ Piece(SelectBlock \o d, Put("block_control"), Get("data", "data"))
    BY <1>2, <1>4, SelectBlockShape, JoinIn, JoinPieces
<1>6. /\ (SelectBlock \o d) \o c \in Seq(Early)
      /\ Piece((SelectBlock \o d) \o c, Put("block_control"), Get("checksum", "sum"))
    BY <1>3, <1>4, <1>5, JoinIn, JoinPieces
<1> QED
    BY <1>6 DEF ReadDataFlashBlock, d, c

LEMMA EarlyOrdered ==
    ASSUME NEW p \in Seq(Early)
    PROVE  Ordered(p)
<1>1. \A i \in 1 .. Len(p) : p[i] \in Early
    BY ElementOfSeq
<1>2. \A x \in Early, y \in Early : Order(x, y)
    BY DEF Early, Neutral, Puts, Order, GetsPack
<1> QED
    BY <1>1, <1>2, LenProperties DEF Ordered

LEMMA AheadJoined ==
    ASSUME NEW p \in Seq(Steps), NEW q \in Seq(Steps)
    PROVE  PackAhead(p \o q) <=> PackAhead(p) \/ PackAhead(q)
<1>1. /\ Len(p \o q) = Len(p) + Len(q) /\ Len(p) \in Nat /\ Len(q) \in Nat
      /\ \A i \in 1 .. Len(p) + Len(q) :
            (p \o q)[i] = IF i <= Len(p) THEN p[i] ELSE q[i - Len(p)]
    BY ConcatProperties, LenProperties
<1>2. \A i \in 1 .. Len(p) : i \in 1 .. Len(p \o q) /\ (p \o q)[i] = p[i]
    BY <1>1
<1>3. \A i \in 1 .. Len(q) : Len(p) + i \in 1 .. Len(p \o q) /\ (p \o q)[Len(p) + i] = q[i]
    BY <1>1
<1>4. \A i \in 1 .. Len(p \o q) :
        \/ i \in 1 .. Len(p) /\ (p \o q)[i] = p[i]
        \/ i - Len(p) \in 1 .. Len(q) /\ (p \o q)[i] = q[i - Len(p)]
    BY <1>1
<1>5. PackAhead(p \o q) => PackAhead(p) \/ PackAhead(q)
    BY <1>4 DEF PackAhead
<1>6. PackAhead(p) => PackAhead(p \o q)
    BY <1>2 DEF PackAhead
<1>7. PackAhead(q) => PackAhead(p \o q)
    BY <1>3 DEF PackAhead
<1> QED
    BY <1>5, <1>6, <1>7

LEMMA ReadPackShape ==
    /\ ReadBytes("pack", "pack") \in Seq(Early)
    /\ Piece(ReadBytes("pack", "pack"), Point("pack"), Get("pack", "pack"))
    /\ PackAhead(ReadBytes("pack", "pack"))
<1> DEFINE p == <<Point("pack"), Get("pack", "pack")>>
<1>1. "pack" \in Registers
    BY DEF Registers
<1>2. /\ Point("pack") \in Early /\ Get("pack", "pack") \in Early
      /\ Point("pack") \in Steps /\ Get("pack", "pack") \in Steps
    BY <1>1, InstructionsTyped DEF Early, Neutral
<1>3. Link(Point("pack"), Get("pack", "pack"))
    BY DEF Link, Point, Get
<1>4. p \in Seq(Early) /\ Piece(p, Point("pack"), Get("pack", "pack"))
    BY <1>2, <1>3, TwoSteps
<1>5. PackAhead(p)
    <2>1. 2 \in 1 .. Len(p) /\ p[2] = Get("pack", "pack")
        OBVIOUS
    <2> HIDE DEF p
    <2> QED
        BY <2>1 DEF PackAhead, GetsPack, Get
<1> QED
    BY <1>4, <1>5 DEF ReadBytes

LEMMA ConfigureShape ==
    /\ ConfigureHostInterrupts \in Seq(Early \cup {Do("decide", "flash")})
    /\ Piece(ConfigureHostInterrupts, Point("pack"), Do("decide", "flash"))
    /\ Ordered(ConfigureHostInterrupts)
    /\ PackAhead(ConfigureHostInterrupts)
<1> DEFINE p == ReadBytes("pack", "pack")
           r == ReadDataFlashBlock
           d == <<Do("decide", "flash")>>
           All == Early \cup {Do("decide", "flash")}
<1>2. p \in Seq(Early) /\ Piece(p, Point("pack"), Get("pack", "pack")) /\ PackAhead(p)
    BY ReadPackShape
<1>3. r \in Seq(Early) /\ Piece(r, Put("block_control"), Get("checksum", "sum"))
    BY ReadBlockShape
<1>4. /\ d \in Seq({Do("decide", "flash")}) /\ Ordered(d)
      /\ Piece(d, Do("decide", "flash"), Do("decide", "flash"))
    BY OneStep, InstructionsTyped
<1>5. /\ Link(Get("pack", "pack"), Put("block_control"))
      /\ Link(Get("checksum", "sum"), Do("decide", "flash"))
    BY DEF Link, Put, Get, Do
<1>6. \A x \in Early, y \in {Do("decide", "flash")} : Order(x, y)
    BY DEF Early, Neutral, Puts, Order, GetsPack, Do
<1> HIDE DEF p, r, d
<1>7. p \o r \in Seq(Early) /\ Piece(p \o r, Point("pack"), Get("checksum", "sum"))
    BY <1>2, <1>3, <1>5, JoinIn, JoinPieces
<1>8. Ordered((p \o r) \o d)
    BY <1>4, <1>6, <1>7, EarlyOrdered, JoinOrdered
<1>9. Piece((p \o r) \o d, Point("pack"), Do("decide", "flash"))
    BY <1>4, <1>5, <1>7, JoinPieces
<1>10. (p \o r) \o d \in Seq(All)
    <2>1. p \o r \in Seq(All) /\ d \in Seq(All)
        BY <1>4, <1>7
    <2> HIDE DEF All
    <2> QED
        BY <2>1, JoinIn
<1>11. PackAhead((p \o r) \o d)
    BY <1>2, <1>3, <1>4, <1>7, AheadJoined DEF Piece
<1> QED
    BY <1>8, <1>9, <1>10, <1>11 DEF ConfigureHostInterrupts, p, r, d

LEMMA HasJoined ==
    ASSUME NEW p \in Seq(Steps), NEW q \in Seq(Steps), NEW op
    PROVE  /\ Has(p \o q, op) <=> Has(p, op) \/ Has(q, op)
           /\ Commits(p \o q) <=> Commits(p) \/ Commits(q)
           /\ Quiet(p \o q) <=> Quiet(p) /\ Quiet(q)
<1>1. /\ Len(p \o q) = Len(p) + Len(q) /\ Len(p) \in Nat /\ Len(q) \in Nat
      /\ \A i \in 1 .. Len(p) + Len(q) :
            (p \o q)[i] = IF i <= Len(p) THEN p[i] ELSE q[i - Len(p)]
    BY ConcatProperties, LenProperties
<1>2. \A i \in 1 .. Len(p) : i \in 1 .. Len(p \o q) /\ (p \o q)[i] = p[i]
    BY <1>1
<1>3. \A i \in 1 .. Len(q) : Len(p) + i \in 1 .. Len(p \o q) /\ (p \o q)[Len(p) + i] = q[i]
    BY <1>1
<1>4. \A i \in 1 .. Len(p \o q) :
        \/ i \in 1 .. Len(p) /\ (p \o q)[i] = p[i]
        \/ i - Len(p) \in 1 .. Len(q) /\ (p \o q)[i] = q[i - Len(p)]
    BY <1>1
<1>5. Has(p \o q, op) <=> Has(p, op) \/ Has(q, op)
    BY <1>2, <1>3, <1>4 DEF Has
<1>6. Commits(p \o q) <=> Commits(p) \/ Commits(q)
    <2>1. Commits(p \o q) => Commits(p) \/ Commits(q)
        BY <1>4 DEF Commits
    <2>2. Commits(p) => Commits(p \o q)
        BY <1>2 DEF Commits
    <2>3. Commits(q) => Commits(p \o q)
        BY <1>3 DEF Commits
    <2> QED
        BY <2>1, <2>2, <2>3
<1>7. Quiet(p \o q) <=> Quiet(p) /\ Quiet(q)
    BY <1>2, <1>3, <1>4 DEF Quiet
<1> QED
    BY <1>5, <1>6, <1>7

LEMMA NoCommit ==
    ASSUME NEW p \in Seq(Early \cup {Do("decide", "flash")})
    PROVE  ~Commits(p) /\ ~Has(p, "verify")
<1>1. \A i \in 1 .. Len(p) : p[i] \in Early \cup {Do("decide", "flash")}
    BY ElementOfSeq
<1>2. \A x \in Early \cup {Do("decide", "flash")} :
        ~(x.op = "put" /\ x.a = "checksum") /\ x.op # "verify"
    BY DEF Early, Neutral, Puts, Do, GetsPack
<1> QED
    BY <1>1, <1>2 DEF Commits, Has

(* From its first instruction on, bq27742_g1_init is linked and ordered. *)
LEMMA BootShape ==
    /\ Piece(Boot, Do("build", "clear_shutdown"), Get("control", "return_buf"))
    /\ Ordered(Boot) /\ Has(Boot, "arm") /\ ~Commits(Boot) /\ ~Has(Boot, "verify")
    /\ PackAhead(Boot)
<1> DEFINE s == Control("clear_shutdown")
           g == ConfigureHostInterrupts
           m == <<Do("arm", "irq")>>
           v == Control("fw_version")
           All == Early \cup {Do("decide", "flash")}
           More == All \cup {Do("arm", "irq")}
<1>1. "clear_shutdown" \in Subcommands /\ "fw_version" \in Subcommands
    BY DEF Subcommands
<1>2. /\ s \in Seq(Neutral) /\ Ordered(s) /\ ~Commits(s) /\ ~Has(s, "verify")
      /\ Piece(s, Do("build", "clear_shutdown"), Get("control", "return_buf"))
    BY <1>1, ControlShape, NeutralShape, NeutralIsEarly, NoCommit
<1>3. /\ v \in Seq(Neutral) /\ Ordered(v) /\ ~Commits(v) /\ ~Has(v, "verify")
      /\ Piece(v, Do("build", "fw_version"), Get("control", "return_buf"))
    BY <1>1, ControlShape, NeutralShape, NeutralIsEarly, NoCommit
<1>4. /\ g \in Seq(All) /\ Ordered(g) /\ ~Commits(g) /\ ~Has(g, "verify")
      /\ Piece(g, Point("pack"), Do("decide", "flash")) /\ PackAhead(g)
    BY ConfigureShape, NoCommit
<1>5. /\ m \in Seq({Do("arm", "irq")}) /\ Ordered(m)
      /\ Piece(m, Do("arm", "irq"), Do("arm", "irq"))
    BY OneStep, InstructionsTyped
<1>6. ~Commits(m) /\ ~Has(m, "verify") /\ Has(m, "arm")
    BY DEF Commits, Has, Do
<1>7. /\ Link(Get("control", "return_buf"), Point("pack"))
      /\ Link(Do("decide", "flash"), Do("arm", "irq"))
      /\ Link(Do("arm", "irq"), Do("build", "fw_version"))
    BY DEF Link, Point, Get, Do
<1>8. /\ \A x \in Neutral, y \in All : Order(x, y)
      /\ \A x \in All, y \in {Do("arm", "irq")} : Order(x, y)
      /\ \A x \in More, y \in Neutral : Order(x, y)
    BY DEF Early, Neutral, Puts, Order, GetsPack, Do
<1>9. s \in Seq(All) /\ m \in Seq(More) /\ Seq(All) \subseteq Seq(More)
    BY <1>2, <1>5, NeutralIsEarly
<1> HIDE DEF s, g, m, v, All, More
<1>10. /\ s \o g \in Seq(All) /\ Ordered(s \o g)
       /\ Piece(s \o g, Do("build", "clear_shutdown"), Do("decide", "flash"))
       /\ ~Commits(s \o g) /\ ~Has(s \o g, "verify") /\ PackAhead(s \o g)
    <2>1. s \o g \in Seq(All)
        BY <1>4, <1>9, JoinIn
    <2>2. Ordered(s \o g)
        BY <1>2, <1>4, <1>8, JoinOrdered
    <2>3. Piece(s \o g, Do("build", "clear_shutdown"), Do("decide", "flash"))
        BY <1>2, <1>4, <1>7, JoinPieces
    <2>4. ~Commits(s \o g) /\ ~Has(s \o g, "verify") /\ PackAhead(s \o g)
        BY <1>2, <1>4, HasJoined, AheadJoined DEF Piece
    <2> QED
        BY <2>1, <2>2, <2>3, <2>4
<1>11. /\ (s \o g) \o m \in Seq(More) /\ Ordered((s \o g) \o m)
       /\ Piece((s \o g) \o m, Do("build", "clear_shutdown"), Do("arm", "irq"))
       /\ ~Commits((s \o g) \o m) /\ ~Has((s \o g) \o m, "verify") /\ Has((s \o g) \o m, "arm")
    <2>1. (s \o g) \o m \in Seq(More)
        BY <1>9, <1>10, JoinIn
    <2>2. Ordered((s \o g) \o m)
        BY <1>5, <1>8, <1>10, JoinOrdered
    <2>3. Piece((s \o g) \o m, Do("build", "clear_shutdown"), Do("arm", "irq"))
        BY <1>5, <1>7, <1>10, JoinPieces
    <2>4. /\ ~Commits((s \o g) \o m) /\ ~Has((s \o g) \o m, "verify")
          /\ Has((s \o g) \o m, "arm")
        BY <1>5, <1>6, <1>10, HasJoined DEF Piece
    <2> QED
        BY <2>1, <2>2, <2>3, <2>4
<1>12. Ordered(((s \o g) \o m) \o v)
    BY <1>3, <1>8, <1>11, JoinOrdered
<1>13. Piece(((s \o g) \o m) \o v, Do("build", "clear_shutdown"), Get("control", "return_buf"))
    BY <1>3, <1>7, <1>11, JoinPieces
<1>14. PackAhead(((s \o g) \o m) \o v)
    <2>1. PackAhead((s \o g) \o m)
        BY <1>5, <1>10, AheadJoined DEF Piece
    <2> QED
        BY <1>3, <1>11, <2>1, AheadJoined DEF Piece
<1>15. /\ ~Commits(((s \o g) \o m) \o v) /\ ~Has(((s \o g) \o m) \o v, "verify")
       /\ Has(((s \o g) \o m) \o v, "arm")
    BY <1>3, <1>11, HasJoined DEF Piece
<1> QED
    BY <1>12, <1>13, <1>14, <1>15 DEF Boot, s, g, m, v

(* A getter, and the five of get_battery_state *)
LEMMA GetRegisterShape ==
    ASSUME NEW reg \in Registers \ {"pack", "data", "checksum"}
    PROVE  /\ GetRegister(reg) \in Seq(Neutral)
           /\ Piece(GetRegister(reg), Do("clear", reg), Do("use", reg))
<1> DEFINE c == <<Do("clear", reg)>>
           r == ReadBytes(reg, "return_buf")
           u == <<Do("use", reg)>>
<1>1. /\ Get(reg, "return_buf") \in Neutral
      /\ Do("clear", reg) \in Neutral /\ Do("use", reg) \in Neutral
      /\ Do("clear", reg) \in Steps /\ Do("use", reg) \in Steps
    BY InstructionsTyped DEF Neutral
<1>2. r \in Seq(Neutral) /\ Piece(r, Point(reg), Get(reg, "return_buf"))
    BY <1>1, ReadBytesShape
<1>3. /\ c \in Seq(Neutral) /\ Piece(c, Do("clear", reg), Do("clear", reg))
      /\ u \in Seq(Neutral) /\ Piece(u, Do("use", reg), Do("use", reg))
    BY <1>1, OneStep
<1>4. Link(Do("clear", reg), Point(reg)) /\ Link(Get(reg, "return_buf"), Do("use", reg))
    BY DEF Link, Point, Get, Do
<1> HIDE DEF c, r, u
<1>5. c \o r \in Seq(Neutral) /\ Piece(c \o r, Do("clear", reg), Get(reg, "return_buf"))
    BY <1>2, <1>3, <1>4, JoinIn, JoinPieces
<1>6. (c \o r) \o u \in Seq(Neutral) /\ Piece((c \o r) \o u, Do("clear", reg), Do("use", reg))
    BY <1>3, <1>4, <1>5, JoinIn, JoinPieces
<1> QED
    BY <1>6 DEF GetRegister, c, r, u

LEMMA JoinGetters ==
    ASSUME NEW p, NEW x, NEW y, NEW reg \in Registers \ {"pack", "data", "checksum"},
           p \in Seq(Neutral), Piece(p, Do("clear", x), Do("use", y))
    PROVE  /\ p \o GetRegister(reg) \in Seq(Neutral)
           /\ Piece(p \o GetRegister(reg), Do("clear", x), Do("use", reg))
<1>1. Link(Do("use", y), Do("clear", reg))
    BY DEF Link, Do
<1> QED
    BY <1>1, GetRegisterShape, JoinIn, JoinPieces

LEMMA GetBatteryStateShape ==
    /\ GetBatteryState \in Seq(Neutral)
    /\ Piece(GetBatteryState, Do("clear", "voltage"), Do("use", "flags"))
<1> DEFINE Good(p, y) == p \in Seq(Neutral) /\ Piece(p, Do("clear", "voltage"), Do("use", y))
           two == GetRegister("voltage") \o GetRegister("safety")
           three == two \o GetRegister("temp")
           four == three \o GetRegister("soh")
<1>1. /\ "voltage" \in Registers \ {"pack", "data", "checksum"}
      /\ "safety" \in Registers \ {"pack", "data", "checksum"}
      /\ "temp" \in Registers \ {"pack", "data", "checksum"}
      /\ "soh" \in Registers \ {"pack", "data", "checksum"}
      /\ "flags" \in Registers \ {"pack", "data", "checksum"}
    BY DEF Registers
<1>2. Good(GetRegister("voltage"), "voltage")
    BY <1>1, GetRegisterShape
<1>3. Good(two, "safety")
    BY <1>1, <1>2, JoinGetters
<1>4. Good(three, "temp")
    <2> HIDE DEF two
    <2> QED
        BY <1>1, <1>3, JoinGetters
<1>5. Good(four, "soh")
    <2> HIDE DEF three
    <2> QED
        BY <1>1, <1>4, JoinGetters
<1>6. Good(four \o GetRegister("flags"), "flags")
    <2> HIDE DEF four
    <2> QED
        BY <1>1, <1>5, JoinGetters
<1> QED
    BY <1>6 DEF GetBatteryState

LEMMA ParseShape ==
    /\ ParseInterruptVals \in Seq(Neutral)
    /\ Piece(ParseInterruptVals, Point("flags"), Do("imax", "flags"))
<1> DEFINE f == ReadBytes("flags", "flags")
           s == ReadBytes("safety", "safety")
           m == <<Do("imax", "flags")>>
<1>1. /\ "flags" \in Registers /\ Get("flags", "flags") \in Neutral
      /\ "safety" \in Registers /\ Get("safety", "safety") \in Neutral
      /\ Do("imax", "flags") \in Neutral /\ Do("imax", "flags") \in Steps
    BY InstructionsTyped DEF Registers, Neutral
<1>2. f \in Seq(Neutral) /\ Piece(f, Point("flags"), Get("flags", "flags"))
    BY <1>1, ReadBytesShape
<1>3. s \in Seq(Neutral) /\ Piece(s, Point("safety"), Get("safety", "safety"))
    BY <1>1, ReadBytesShape
<1>4. m \in Seq(Neutral) /\ Piece(m, Do("imax", "flags"), Do("imax", "flags"))
    BY <1>1, OneStep
<1>5. /\ Link(Get("flags", "flags"), Point("safety"))
      /\ Link(Get("safety", "safety"), Do("imax", "flags"))
    BY DEF Link, Point, Get, Do
<1> HIDE DEF f, s, m
<1>6. f \o s \in Seq(Neutral) /\ Piece(f \o s, Point("flags"), Get("safety", "safety"))
    BY <1>2, <1>3, <1>5, JoinIn, JoinPieces
<1>7. (f \o s) \o m \in Seq(Neutral) /\ Piece((f \o s) \o m, Point("flags"), Do("imax", "flags"))
    BY <1>4, <1>5, <1>6, JoinIn, JoinPieces
<1> QED
    BY <1>7 DEF ParseInterruptVals, f, s, m

-----------------------------------------------------------------------------
(* What a program comes to *)

LEMMA HasTail ==
    ASSUME NEW p \in Seq(Steps), p # <<>>, NEW op
    PROVE  /\ Has(p, op) <=> Head(p).op = op \/ Has(Tail(p), op)
           /\ Commits(p) <=> (Head(p).op = "put" /\ Head(p).a = "checksum") \/ Commits(Tail(p))
           /\ Quiet(p) <=> Head(p).op \notin {"put", "decide", "verify"} /\ Quiet(Tail(p))
<1>1. /\ Len(Tail(p)) = Len(p) - 1 /\ Len(p) \in Nat \ {0} /\ Head(p) = p[1]
      /\ \A i \in 1 .. Len(Tail(p)) : Tail(p)[i] = p[i + 1]
    BY TailKept, EmptySeq, LenProperties
<1>2. \A i \in 1 .. Len(p) : \/ i = 1 /\ p[i] = Head(p)
                             \/ i - 1 \in 1 .. Len(Tail(p)) /\ p[i] = Tail(p)[i - 1]
    BY <1>1
<1>3. 1 \in 1 .. Len(p) /\ p[1] = Head(p)
    BY <1>1
<1>4. \A i \in 1 .. Len(Tail(p)) : i + 1 \in 1 .. Len(p) /\ p[i + 1] = Tail(p)[i]
    BY <1>1
<1>5. Has(p, op) <=> Head(p).op = op \/ Has(Tail(p), op)
    <2>1. Has(p, op) => Head(p).op = op \/ Has(Tail(p), op)
        BY <1>2 DEF Has
    <2>2. Head(p).op = op => Has(p, op)
        BY <1>3 DEF Has
    <2>3. Has(Tail(p), op) => Has(p, op)
        BY <1>4 DEF Has
    <2> QED
        BY <2>1, <2>2, <2>3
<1>6. Commits(p) <=> (Head(p).op = "put" /\ Head(p).a = "checksum") \/ Commits(Tail(p))
    <2>1. Commits(p) => (Head(p).op = "put" /\ Head(p).a = "checksum") \/ Commits(Tail(p))
        BY <1>2 DEF Commits
    <2>2. Head(p).op = "put" /\ Head(p).a = "checksum" => Commits(p)
        BY <1>3 DEF Commits
    <2>3. Commits(Tail(p)) => Commits(p)
        BY <1>4 DEF Commits
    <2> QED
        BY <2>1, <2>2, <2>3
<1>7. Quiet(p) <=> Head(p).op \notin {"put", "decide", "verify"} /\ Quiet(Tail(p))
    <2>1. Quiet(p) => Head(p).op \notin {"put", "decide", "verify"}
        BY <1>3 DEF Quiet
    <2>2. Quiet(p) => Quiet(Tail(p))
        BY <1>4 DEF Quiet
    <2>3. Head(p).op \notin {"put", "decide", "verify"} /\ Quiet(Tail(p)) => Quiet(p)
        BY <1>2 DEF Quiet
    <2> QED
        BY <2>1, <2>2, <2>3
<1> QED
    BY <1>5, <1>6, <1>7

(* Nothing of the configuration comes after a decision, and after arming   *)
(* no arming either; a commit follows only writes.                         *)
LEMMA HeadOrders ==
    ASSUME NEW p \in Seq(Steps), p # <<>>, Ordered(p)
    PROVE  /\ Head(p).op \in {"decide", "verify", "arm"} => Quiet(Tail(p))
           /\ Head(p).op = "arm" => ~Has(Tail(p), "arm")
           /\ Commits(Tail(p)) => Head(p).op = "put"
           /\ Head(p).op = "decide" => ~PackAhead(Tail(p))
<1>1. /\ Len(Tail(p)) = Len(p) - 1 /\ Len(p) \in Nat \ {0} /\ Head(p) = p[1]
      /\ \A i \in 1 .. Len(Tail(p)) : Tail(p)[i] = p[i + 1]
    BY TailKept, EmptySeq, LenProperties
<1>2. \A i \in 1 .. Len(Tail(p)) : Order(Head(p), Tail(p)[i])
    BY <1>1 DEF Ordered
<1>3. Head(p).op \in {"decide", "verify", "arm"} => Quiet(Tail(p))
    BY <1>2 DEF Order, Quiet
<1>4. Head(p).op = "arm" => ~Has(Tail(p), "arm")
    BY <1>2 DEF Order, Has
<1>5. Commits(Tail(p)) => Head(p).op = "put"
    BY <1>2 DEF Order, Commits
<1>6. Head(p).op = "decide" => ~PackAhead(Tail(p))
    BY <1>2 DEF Order, PackAhead
<1> QED
    BY <1>3, <1>4, <1>5, <1>6

LEMMA AheadTail ==
    ASSUME NEW p \in Seq(Steps), p # <<>>
    PROVE  PackAhead(p) <=> GetsPack(Head(p)) \/ PackAhead(Tail(p))
<1>1. /\ Len(Tail(p)) = Len(p) - 1 /\ Len(p) \in Nat \ {0} /\ Head(p) = p[1]
      /\ \A i \in 1 .. Len(Tail(p)) : Tail(p)[i] = p[i + 1]
    BY TailKept, EmptySeq, LenProperties
<1>2. PackAhead(p) => GetsPack(Head(p)) \/ PackAhead(Tail(p))
    <2>1. \A i \in 1 .. Len(p) : \/ i = 1 /\ p[i] = Head(p)
                                 \/ i - 1 \in 1 .. Len(Tail(p)) /\ p[i] = Tail(p)[i - 1]
        BY <1>1
    <2> QED
        BY <2>1 DEF PackAhead
<1>3. GetsPack(Head(p)) => PackAhead(p)
    <2>1. 1 \in 1 .. Len(p) /\ p[1] = Head(p)
        BY <1>1
    <2> QED
        BY <2>1 DEF PackAhead
<1>4. PackAhead(Tail(p)) => PackAhead(p)
    <2>1. \A i \in 1 .. Len(Tail(p)) : i + 1 \in 1 .. Len(p) /\ p[i + 1] = Tail(p)[i]
        BY <1>1
    <2> QED
        BY <2>1 DEF PackAhead
<1> QED
    BY <1>2, <1>3, <1>4

LEMMA QuietMeans ==
    ASSUME NEW p, Quiet(p)
    PROVE  ~Commits(p) /\ ~Has(p, "verify") /\ ~Has(p, "decide") /\ ~Has(p, "put")
BY DEF Quiet, Commits, Has

LEMMA JoinRest ==
    ASSUME NEW p, NEW x, NEW y, NEW t \in Seq(Steps), Piece(p, x, y), Linked(t),
           t # <<>> => Link(y, Head(t))
    PROVE  /\ p \o t \in Seq(Steps) /\ Linked(p \o t) /\ p \o t # <<>>
           /\ Head(p \o t) = x
<1>1. CASE t = <<>>
    <2>1. p \o t = p /\ Head(p) = p[1]
        BY <1>1, ConcatEmptySeq, HeadTailProperties DEF Piece
    <2> QED
        BY <2>1 DEF Piece
<1>2. CASE t # <<>>
    <2>1. Piece(t, Head(t), t[Len(t)])
        BY <1>2, HeadTailProperties DEF Piece
    <2>2. Piece(p \o t, x, t[Len(t)])
        BY <1>2, <2>1, JoinPieces
    <2> QED
        BY <2>2, HeadTailProperties DEF Piece
<1> QED
    BY <1>1, <1>2

LEMMA PieceBegins ==
    ASSUME NEW p, NEW x, NEW y, Piece(p, x, y)
    PROVE  p \in Seq(Steps) /\ p # <<>> /\ Linked(p) /\ Head(p) = x
BY HeadTailProperties DEF Piece

LEMMA WriteBlockShape ==
    /\ WriteDataFlashBlock \in Seq(Puts) /\ Commits(WriteDataFlashBlock)
    /\ Piece(WriteDataFlashBlock, Put("block_control"), Put("checksum"))
<1> DEFINE w == <<Put("data"), Put("checksum")>>
<1>1. /\ Put("data") \in Puts /\ Put("checksum") \in Puts
      /\ Put("data") \in Steps /\ Put("checksum") \in Steps
    BY InstructionsTyped DEF Puts
<1>2. Link(Put("data"), Put("checksum")) /\ Link(Put("block"), Put("data"))
    BY DEF Link, Put
<1>3. w \in Seq(Puts) /\ Piece(w, Put("data"), Put("checksum"))
    BY <1>1, <1>2, TwoSteps
<1>4. Commits(w)
    <2>1. 2 \in 1 .. Len(w) /\ w[2] = Put("checksum")
        OBVIOUS
    <2> HIDE DEF w
    <2> QED
        BY <2>1 DEF Commits, Put
<1> HIDE DEF w
<1>5. /\ SelectBlock \o w \in Seq(Puts)
      /\ Piece(SelectBlock \o w, Put("block_control"), Put("checksum"))
    BY <1>2, <1>3, SelectBlockShape, JoinIn, JoinPieces
<1>6. Commits(SelectBlock \o w)
    BY <1>3, <1>4, SelectBlockShape, HasJoined DEF Piece
<1> QED
    BY <1>5, <1>6 DEF WriteDataFlashBlock, w

(* What configure_host_interrupts has yet to do once it has decided to     *)
(* write, before the rest of bq27742_g1_init                               *)
LEMMA WriteShape ==
    ASSUME NEW t \in Seq(Steps), Linked(t), Ordered(t), Quiet(t),
           NEW d \in Steps, d.op = "decide", t # <<>> => Link(d, Head(t)),
           NEW p, p = WriteDataFlashBlock \o ReadDataFlashBlock \o <<Do("verify", "flash")>> \o t
    PROVE  /\ p \in Seq(Steps) /\ p # <<>> /\ Linked(p) /\ Ordered(p)
           /\ Head(p) = Put("block_control")
           /\ Commits(p) /\ ~Has(p, "decide")
           /\ Has(t, "arm") => Has(p, "arm")
<1> DEFINE w == WriteDataFlashBlock
           r == ReadDataFlashBlock
           v == <<Do("verify", "flash")>>
           All == Puts \cup Early \cup {Do("verify", "flash")}
           Rest == {x \in Steps : x.op \notin {"put", "decide", "verify"}}
<1>1. w \in Seq(Puts) /\ Commits(w) /\ Piece(w, Put("block_control"), Put("checksum"))
    BY WriteBlockShape
<1>2. r \in Seq(Early) /\ Ordered(r) /\ Piece(r, Put("block_control"), Get("checksum", "sum"))
    BY ReadBlockShape, EarlyOrdered
<1>3. /\ v \in Seq({Do("verify", "flash")}) /\ Ordered(v)
      /\ Piece(v, Do("verify", "flash"), Do("verify", "flash"))
    BY InstructionsTyped, OneStep
<1>4. Ordered(w)
    <2>1. \A i \in 1 .. Len(w) : w[i] \in Puts
        BY <1>1, ElementOfSeq
    <2>2. \A x \in Puts, y \in Puts : Order(x, y)
        BY DEF Puts, Order, GetsPack
    <2> QED
        BY <1>1, <2>1, <2>2, LenProperties DEF Ordered
<1>5. /\ Link(Put("checksum"), Put("block_control"))
      /\ Link(Get("checksum", "sum"), Do("verify", "flash"))
    BY DEF Link, Put, Get, Do
<1>6. t # <<>> => Link(Do("verify", "flash"), Head(t))
    BY DEF Link, Do
<1>7. /\ \A x \in Puts, y \in Early : Order(x, y)
      /\ \A x \in Puts \cup Early, y \in {Do("verify", "flash")} : Order(x, y)
      /\ \A x \in All, y \in Rest : Order(x, y)
    BY DEF Puts, Early, Neutral, Order, GetsPack, Do
<1>8. t \in Seq(Rest)
    <2>1. \A i \in 1 .. Len(t) : t[i] \in Rest
        BY ElementOfSeq DEF Quiet
    <2> QED
        BY <2>1, IsASeq, LenProperties
<1> HIDE DEF w, r, v, Rest
<1>9. /\ w \o r \in Seq(Puts \cup Early) /\ Ordered(w \o r)
      /\ Piece(w \o r, Put("block_control"), Get("checksum", "sum")) /\ Commits(w \o r)
    <2>1. w \o r \in Seq(Puts \cup Early)
        BY <1>1, <1>2, JoinIn
    <2>2. Ordered(w \o r)
        BY <1>1, <1>2, <1>4, <1>7, JoinOrdered
    <2>3. Piece(w \o r, Put("block_control"), Get("checksum", "sum"))
        BY <1>1, <1>2, <1>5, JoinPieces
    <2>4. Commits(w \o r)
        BY <1>1, <1>2, HasJoined DEF Piece
    <2> QED
        BY <2>1, <2>2, <2>3, <2>4
<1>10. /\ (w \o r) \o v \in Seq(All) /\ Ordered((w \o r) \o v)
       /\ Piece((w \o r) \o v, Put("block_control"), Do("verify", "flash"))
       /\ Commits((w \o r) \o v)
    <2>1. (w \o r) \o v \in Seq(All)
        <3>1. w \o r \in Seq(All) /\ v \in Seq(All)
            BY <1>3, <1>9
        <3> HIDE DEF All
        <3> QED
            BY <3>1, JoinIn
    <2>2. Ordered((w \o r) \o v)
        BY <1>3, <1>7, <1>9, JoinOrdered
    <2>3. Piece((w \o r) \o v, Put("block_control"), Do("verify", "flash"))
        BY <1>3, <1>5, <1>9, JoinPieces
    <2>4. Commits((w \o r) \o v)
        BY <1>3, <1>9, HasJoined DEF Piece
    <2> QED
        BY <2>1, <2>2, <2>3, <2>4
<1> HIDE DEF All
<1>11. Ordered(((w \o r) \o v) \o t)
    BY <1>7, <1>8, <1>10, JoinOrdered
<1>12. /\ ((w \o r) \o v) \o t \in Seq(Steps) /\ ((w \o r) \o v) \o t # <<>>
       /\ Linked(((w \o r) \o v) \o t) /\ Head(((w \o r) \o v) \o t) = Put("block_control")
    BY <1>6, <1>10, JoinRest
<1>13. /\ Commits(((w \o r) \o v) \o t)
       /\ Has(t, "arm") => Has(((w \o r) \o v) \o t, "arm")
    BY <1>10, HasJoined DEF Piece
<1>14. ~Has(((w \o r) \o v) \o t, "decide")
    <2>1. \A i \in 1 .. Len((w \o r) \o v) : ((w \o r) \o v)[i] \in All
        BY <1>10, ElementOfSeq
    <2>2. \A x \in All : x.op # "decide"
        BY DEF All, Puts, Early, Neutral, GetsPack, Do
    <2>3. ~Has((w \o r) \o v, "decide") /\ ~Has(t, "decide")
        BY <2>1, <2>2, QuietMeans DEF Has
    <2> QED
        BY <1>10, <2>3, HasJoined DEF Piece
<1> QED
    BY <1>11, <1>12, <1>13, <1>14 DEF w, r, v

-----------------------------------------------------------------------------
(* The programs are linked and ordered. *)

(* An instruction is done that is neither the arming nor the end of        *)
(* configure_host_interrupts.                                              *)
LEMMA DoneKept ==
    ASSUME NEW core \in Cores, Programs, program[core] # <<>>, Done(core),
           Head(program[core]).op # "arm", armed' = armed, outcome' = outcome
    PROVE  Programs'
<1> DEFINE p == program[core]
<1>1. p \in Seq(Steps) /\ Linked(p) /\ p # <<>>
    BY DEF Programs
<1>2. Tail(p) \in Seq(Steps) /\ Linked(Tail(p))
    BY <1>1, TailKept
<1>3. program' = [program EXCEPT ![core] = Tail(p)] /\ program \in [Cores -> Seq(Steps)]
    BY DEF Done, Programs
<1>4. CASE core = "core0"
    <2>1. program'["core0"] = Tail(p) /\ program'["core1"] = program["core1"]
        BY <1>3, <1>4 DEF Cores
    <2>2. /\ Ordered(p) => Ordered(Tail(p))
          /\ Quiet(p) => Quiet(Tail(p))
          /\ Has(p, "arm") <=> Has(Tail(p), "arm")
        BY <1>1, TailKept, HasTail
    <2>3. program' \in [Cores -> Seq(Steps)]
        BY <1>2, <1>3
    <2>4. \A c \in Cores : Linked(program'[c])
        BY <1>2, <2>1 DEF Cores, Programs
    <2> QED
        BY <1>4, <2>1, <2>2, <2>3, <2>4 DEF Programs
<1>5. CASE core = "core1"
    <2>1. program'["core1"] = Tail(p) /\ program'["core0"] = program["core0"]
        BY <1>3, <1>5 DEF Cores
    <2>2. Asks(Tail(p))
        <3>1. p \in Seq(Neutral) /\ ~Has(p, "clear") /\ ~Has(p, "use")
            BY <1>5 DEF Programs, Asks
        <3>2. Tail(p) \in Seq(Neutral)
            BY <1>1, <3>1, TailKept
        <3>3. ~Has(Tail(p), "clear") /\ ~Has(Tail(p), "use")
            BY <1>1, <3>1, HasTail
        <3> QED
            BY <3>2, <3>3 DEF Asks
    <2>3. program' \in [Cores -> Seq(Steps)]
        BY <1>2, <1>3
    <2>4. \A c \in Cores : Linked(program'[c])
        BY <1>2, <2>1 DEF Cores, Programs
    <2>5. armed
        BY <1>1, <1>5 DEF Programs
    <2> QED
        BY <2>1, <2>2, <2>3, <2>4, <2>5 DEF Programs
<1> QED
    BY <1>4, <1>5 DEF Cores

(* The rest of a program takes the place of core 0's. *)
LEMMA Core0Kept ==
    ASSUME Programs, NEW p \in Seq(Steps), program' = [program EXCEPT !["core0"] = p],
           Linked(p), Ordered(p),
           IF armed' THEN Quiet(p) /\ ~Has(p, "arm") /\ outcome' = "none"
                     ELSE Has(p, "arm") /\ ~armed,
           outcome' # "none" => Quiet(p)
    PROVE  Programs'
<1>1. program'["core0"] = p /\ program'["core1"] = program["core1"]
      /\ program' \in [Cores -> Seq(Steps)]
    BY DEF Programs, Cores
<1>2. \A c \in Cores : Linked(program'[c])
    BY <1>1 DEF Cores, Programs
<1> QED
    BY <1>1, <1>2 DEF Programs

LEMMA Core1Kept ==
    ASSUME Programs, armed, armed' = armed, outcome' = outcome,
           NEW p \in Seq(Neutral), program' = [program EXCEPT !["core1"] = p],
           Linked(p), Asks(p)
    PROVE  Programs'
<1>1. p \in Seq(Steps)
    BY DEF Neutral
<1>2. program'["core1"] = p /\ program'["core0"] = program["core0"]
      /\ program' \in [Cores -> Seq(Steps)]
    BY <1>1 DEF Programs, Cores
<1>3. \A c \in Cores : Linked(program'[c])
    BY <1>2 DEF Cores, Programs
<1> QED
    BY <1>2, <1>3 DEF Programs

LEMMA AsksAll ==
    /\ Asks(<<>>) /\ Asks(ParseInterruptVals) /\ Asks(Control("imax_clear"))
    /\ \A p, q : Asks(p) /\ Asks(q) => Asks(p \o q)
<1>1. Asks(<<>>)
    BY EmptySeq DEF Asks, Has
<1>2. \A p, q : Asks(p) /\ Asks(q) => Asks(p \o q)
    <2> SUFFICES ASSUME NEW p, NEW q, Asks(p), Asks(q)
                 PROVE  Asks(p \o q)
        OBVIOUS
    <2>1. p \in Seq(Neutral) /\ q \in Seq(Neutral) /\ p \in Seq(Steps) /\ q \in Seq(Steps)
        BY DEF Asks, Neutral
    <2>2. p \o q \in Seq(Neutral)
        BY <2>1, JoinIn
    <2>3. ~Has(p \o q, "clear") /\ ~Has(p \o q, "use")
        BY <2>1, HasJoined DEF Asks
    <2> QED
        BY <2>2, <2>3 DEF Asks
<1>3. \A reg \in Registers : \A into : Get(reg, into) \in Neutral => Asks(ReadBytes(reg, into))
    <2> SUFFICES ASSUME NEW reg \in Registers, NEW into, Get(reg, into) \in Neutral
                 PROVE  Asks(ReadBytes(reg, into))
        OBVIOUS
    <2>1. ReadBytes(reg, into) \in Seq(Neutral)
        BY ReadBytesShape
    <2>2. ~Has(ReadBytes(reg, into), "clear") /\ ~Has(ReadBytes(reg, into), "use")
        BY DEF Has, ReadBytes, Point, Get
    <2> QED
        BY <2>1, <2>2 DEF Asks
<1>4. /\ "flags" \in Registers /\ "safety" \in Registers /\ "control" \in Registers
      /\ "imax_clear" \in Subcommands
    BY DEF Registers, Subcommands
<1>5. /\ Get("flags", "flags") \in Neutral /\ Get("safety", "safety") \in Neutral
      /\ Get("control", "return_buf") \in Neutral /\ Do("imax", "flags") \in Neutral
      /\ Do("build", "imax_clear") \in Neutral /\ Do("send", "imax_clear") \in Neutral
    BY <1>4, InstructionsTyped DEF Registers
<1>6. Asks(<<Do("imax", "flags")>>)
    <2>1. <<Do("imax", "flags")>> \in Seq(Neutral)
        BY <1>5
    <2>2. ~Has(<<Do("imax", "flags")>>, "clear") /\ ~Has(<<Do("imax", "flags")>>, "use")
        BY DEF Has, Do
    <2> QED
        BY <2>1, <2>2 DEF Asks
<1>7. Asks(<<Do("build", "imax_clear"), Do("send", "imax_clear")>>)
    <2>1. <<Do("build", "imax_clear"), Do("send", "imax_clear")>> \in Seq(Neutral)
        BY <1>5
    <2>2. /\ ~Has(<<Do("build", "imax_clear"), Do("send", "imax_clear")>>, "clear")
          /\ ~Has(<<Do("build", "imax_clear"), Do("send", "imax_clear")>>, "use")
        BY DEF Has, Do
    <2> QED
        BY <2>1, <2>2 DEF Asks
<1>8. Asks(ReadBytes("flags", "flags") \o ReadBytes("safety", "safety"))
    BY <1>2, <1>3, <1>4, <1>5
<1>9. Asks(ParseInterruptVals)
    BY <1>2, <1>6, <1>8 DEF ParseInterruptVals
<1>10. Asks(Control("imax_clear"))
    BY <1>2, <1>3, <1>4, <1>5, <1>7 DEF Control
<1> QED
    BY <1>1, <1>2, <1>9, <1>10

LEMMA StartPrograms ==
    Start(program) /\ ~armed /\ outcome = "none" => Programs
<1> SUFFICES ASSUME Start(program), ~armed, outcome = "none"
             PROVE  Programs
    OBVIOUS
<1>1. program["core0"] = Boot /\ program["core1"] = <<>>
    BY DEF Start, Cores
<1>2. Boot \in Seq(Steps) /\ Linked(Boot)
    BY BootShape DEF Piece
<1>3. program \in [Cores -> Seq(Steps)]
    BY <1>2, EmptySeq DEF Start
<1>4. Linked(<<>>)
    BY DEF Linked
<1>5. \A c \in Cores : Linked(program[c])
    BY <1>1, <1>2, <1>4 DEF Cores
<1> QED
    BY <1>1, <1>3, <1>5, BootShape, AsksAll DEF Programs

LEMMA StartProgramsNext ==
    (Start(program) /\ ~armed /\ outcome = "none" => Programs)'
BY StartPrograms, PTL

(* The program once configure_host_interrupts has decided to write *)
AfterDecision ==
    WriteDataFlashBlock \o ReadDataFlashBlock \o <<Do("verify", "flash")>> \o Tail(program["core0"])

LEMMA DecisionShape ==
    ASSUME Programs, Runs("core0", "decide")
    PROVE  /\ AfterDecision \in Seq(Steps) /\ AfterDecision # <<>>
           /\ Linked(AfterDecision) /\ Ordered(AfterDecision) /\ Has(AfterDecision, "arm")
           /\ ~Has(AfterDecision, "decide")
           /\ Head(AfterDecision) = Put("block_control") /\ Commits(AfterDecision)
           /\ ~armed /\ outcome = "none"
<1> DEFINE t == Tail(program["core0"])
<1>1. /\ program["core0"] # <<>> /\ Head(program["core0"]).op = "decide"
      /\ program["core0"] \in Seq(Steps) /\ Linked(program["core0"]) /\ Ordered(program["core0"])
    BY DEF Programs, Runs, Cores
<1>2. /\ t \in Seq(Steps) /\ Linked(t) /\ Ordered(t) /\ Quiet(t)
      /\ Head(program["core0"]) \in Steps
    BY <1>1, TailKept, HeadOrders
<1>3. ~armed /\ Has(t, "arm") /\ outcome = "none"
    BY <1>1, HasTail DEF Programs
<1>4. t # <<>> => Link(Head(program["core0"]), Head(t))
    BY <1>1, NextLinked
<1>5. AfterDecision = WriteDataFlashBlock \o ReadDataFlashBlock \o <<Do("verify", "flash")>> \o t
    BY DEF AfterDecision
<1> HIDE DEF t
<1> QED
    BY <1>1, <1>2, <1>3, <1>4, <1>5, WriteShape

LEMMA ProgramsStep ==
    ASSUME Programs, [Next]_vars
    PROVE  Programs'
<1> USE DEF config, buffers, gauge
<1>1. \A core \in Cores : program[core] \in Seq(Steps) /\ Linked(program[core])
    BY DEF Programs
<1>2. CASE program' = program /\ armed' = armed /\ outcome' = outcome
    BY <1>2 DEF Programs
<1>3. ASSUME NEW core \in Cores, Write(core)
      PROVE  Programs'
    BY <1>3, DoneKept DEF Write, Arrive, Runs
<1>4. ASSUME NEW core \in Cores, WriteFails(core)
      PROVE  Programs'
    BY <1>4, <1>2 DEF WriteFails
<1>5. ASSUME NEW core \in Cores, Read(core)
      PROVE  Programs'
    BY <1>5, DoneKept DEF Read, Runs
<1>6. ASSUME NEW core \in Cores, ReadFails(core)
      PROVE  Programs'
    BY <1>6, <1>2 DEF ReadFails
<1>7. CASE Refuse
    BY <1>7, DoneKept DEF Refuse, Runs, Cores
<1>8. ASSUME NEW core \in Cores, Prepare(core)
      PROVE  Programs'
    BY <1>8, DoneKept DEF Prepare, Runs
<1>9. CASE Use
    BY <1>9, DoneKept DEF Use, Runs, Cores
<1>10. CASE Arm
    <2> DEFINE p == Tail(program["core0"])
    <2>1. program["core0"] # <<>> /\ Head(program["core0"]).op = "arm"
          /\ program' = [program EXCEPT !["core0"] = p]
          /\ armed' = TRUE /\ outcome' = "none"
        BY <1>10 DEF Arm, Runs, Done
    <2>2. p \in Seq(Steps) /\ Linked(p) /\ Ordered(p) /\ Quiet(p) /\ ~Has(p, "arm")
        BY <1>1, <2>1, TailKept, HeadOrders DEF Programs, Cores
    <2> HIDE DEF p
    <2> QED
        BY <2>1, <2>2, Core0Kept
<1>11. ASSUME Runs("core0", "decide") \/ Runs("core0", "verify"), NEW result, Outcome(result),
              armed' = armed
       PROVE  Programs'
    <2> DEFINE p == Tail(program["core0"])
    <2>1. program["core0"] # <<>> /\ Head(program["core0"]).op \in {"decide", "verify"}
          /\ program' = [program EXCEPT !["core0"] = p]
        BY <1>11 DEF Outcome, Runs, Done
    <2>2. p \in Seq(Steps) /\ Linked(p) /\ Ordered(p) /\ Quiet(p)
        BY <1>1, <2>1, TailKept, HeadOrders DEF Programs, Cores
    <2>3. ~armed /\ Has(p, "arm")
        BY <1>1, <2>1, HasTail DEF Programs, Cores
    <2> HIDE DEF p
    <2> QED
        BY <1>11, <2>1, <2>2, <2>3, Core0Kept
<1>12. CASE Decide
    <2>1. CASE Outcome("unread") \/ Outcome("already")
        BY <1>12, <2>1, <1>11 DEF Decide
    <2>2. CASE ~(Outcome("unread") \/ Outcome("already"))
        <3> DEFINE p == AfterDecision
        <3>1. /\ Runs("core0", "decide") /\ program' = [program EXCEPT !["core0"] = p]
              /\ armed' = armed /\ outcome' = outcome
            BY <1>12, <2>2 DEF Decide, AfterDecision
        <3>2. /\ p \in Seq(Steps) /\ Linked(p) /\ Ordered(p) /\ Has(p, "arm")
              /\ ~armed /\ outcome = "none"
            BY <3>1, DecisionShape
        <3> HIDE DEF p
        <3> QED
            BY <3>1, <3>2, Core0Kept
    <2> QED
        BY <2>1, <2>2
<1>13. CASE Verify
    <2>1. \E result : Outcome(result)
        BY <1>13 DEF Verify
    <2> QED
        BY <1>13, <2>1, <1>11 DEF Verify
<1>14. CASE GetState
    <2>1. /\ program["core0"] = <<>> /\ program' = [program EXCEPT !["core0"] = GetBatteryState]
          /\ armed' = armed /\ outcome' = outcome
        BY <1>14 DEF GetState
    <2>2. GetBatteryState \in Seq(Steps) /\ Linked(GetBatteryState)
        BY GetBatteryStateShape DEF Piece
    <2>3. Ordered(GetBatteryState) /\ Quiet(GetBatteryState) /\ ~Has(GetBatteryState, "arm")
        BY GetBatteryStateShape, NeutralShape
    <2>4. armed
        BY <2>1, EmptySeq DEF Programs, Has
    <2>5. outcome' = "none"
        BY <2>1, <2>4 DEF Programs
    <2> QED
        BY <2>1, <2>2, <2>3, <2>4, <2>5, Core0Kept
<1>15. CASE Interrupt
    <2>1. /\ program' = [program EXCEPT !["core1"] = ParseInterruptVals]
          /\ armed /\ armed' = armed /\ outcome' = outcome
        BY <1>15 DEF Interrupt
    <2>2. ParseInterruptVals \in Seq(Neutral) /\ Linked(ParseInterruptVals)
        BY ParseShape DEF Piece
    <2> QED
        BY <2>1, <2>2, AsksAll, Core1Kept
<1>16. CASE CheckImax
    <2> DEFINE t == Tail(program["core1"])
               p == Control("imax_clear") \o t
    <2>1. /\ program["core1"] # <<>> /\ Head(program["core1"]).op = "imax"
          /\ program' = [program EXCEPT !["core1"] = IF imax_seen THEN p ELSE t]
          /\ armed' = armed /\ outcome' = outcome
        BY <1>16 DEF CheckImax, Runs
    <2>2. armed
        BY <2>1 DEF Programs
    <2>3. CASE imax_seen
        <3>1. t \in Seq(Steps) /\ Linked(t) /\ Asks(t)
            <4>1. /\ program["core1"] \in Seq(Neutral)
                  /\ ~Has(program["core1"], "clear") /\ ~Has(program["core1"], "use")
                BY DEF Programs, Asks
            <4>2. t \in Seq(Neutral) /\ t \in Seq(Steps) /\ Linked(t)
                BY <1>1, <2>1, <4>1, TailKept DEF Cores
            <4>3. ~Has(t, "clear") /\ ~Has(t, "use")
                BY <1>1, <2>1, <4>1, HasTail DEF Cores
            <4> QED
                BY <4>2, <4>3 DEF Asks
        <3>2. t # <<>> => Link(Head(program["core1"]), Head(t))
            BY <1>1, <2>1, NextLinked DEF Cores
        <3>3. t # <<>> => Link(Get("control", "return_buf"), Head(t))
            BY <2>1, <3>2 DEF Link
        <3> HIDE DEF t
        <3>4. Piece(Control("imax_clear"), Do("build", "imax_clear"), Get("control", "return_buf"))
            BY ControlShape DEF Subcommands
        <3>5. Linked(p) /\ Asks(p) /\ p \in Seq(Neutral)
            BY <3>1, <3>3, <3>4, JoinRest, AsksAll DEF Asks
        <3> HIDE DEF p
        <3> QED
            BY <2>1, <2>2, <2>3, <3>5, Core1Kept
    <2>4. CASE ~imax_seen
        BY <2>1, <2>4, DoneKept DEF Done, Cores
    <2> QED
        BY <2>3, <2>4
<1>17. CASE SetImax
    BY <1>17, <1>2 DEF SetImax
<1>18. CASE Restart
    BY <1>18, StartProgramsNext DEF Restart
<1>19. CASE UNCHANGED vars
    BY <1>19, <1>2 DEF vars
<1> QED
    BY <1>3, <1>4, <1>5, <1>6, <1>7, <1>8, <1>9, <1>10, <1>12, <1>13, <1>14, <1>15, <1>16, <1>17,
       <1>18, <1>19 DEF Next, Core0, Core1, Transfer, Cores

-----------------------------------------------------------------------------
(* Types *)

(* What TypeOK says beside the programs *)
Values ==
    /\ flash \in Block /\ ram \in Block /\ ptr \in Registers \cup {"beyond"} /\ imax \in BOOLEAN
    /\ retries \in [Cores -> 0 .. MaxRetries - 1]
    /\ stopped \in [Cores -> BOOLEAN]
    /\ send_buf \in {"zero"} \cup Subcommands
    /\ return_buf \in Registers \cup {"beyond", "zero"}
    /\ locals \in [DOMAIN NoLocals ->
            [of : Registers \cup {"beyond", "none"}, block : Block]]
    /\ target \in Block /\ imax_seen \in BOOLEAN
    /\ outcome \in {"none", "unread", "already", "configured", "unverified"}
    /\ armed \in BOOLEAN /\ clean \in [Cores -> BOOLEAN]
    /\ trouble \in BOOLEAN /\ sure \in BOOLEAN

LEMMA ValuesAreTyped ==
    Values /\ Programs => TypeOK
<1> SUFFICES ASSUME Values, Programs
             PROVE  TypeOK
    OBVIOUS
<1>1. program \in [Cores -> Seq(Instructions)]
    <2>1. Steps \subseteq Instructions
        BY DEF Steps
    <2>2. Seq(Steps) \subseteq Seq(Instructions)
        BY <2>1, SeqMonotonic
    <2> QED
        BY <2>2 DEF Programs
<1>2. ASSUME NEW i \in DOMAIN program["core1"]
      PROVE  program["core1"][i].op \notin {"put", "clear", "use", "decide", "verify", "arm"}
    <2>1. program["core1"] \in Seq(Neutral) /\ i \in 1 .. Len(program["core1"])
          /\ ~Has(program["core1"], "clear") /\ ~Has(program["core1"], "use")
        BY LenProperties DEF Programs, Asks
    <2>2. program["core1"][i] \in Neutral
        BY <2>1, ElementOfSeq
    <2> QED
        BY <2>1, <2>2 DEF Neutral, Has
<1> QED
    BY <1>1, <1>2 DEF Values, TypeOK

LEMMA ValuesAreTypedNext ==
    (Values /\ Programs => TypeOK)'
BY ValuesAreTyped, PTL

LEMMA BlocksTyped ==
    /\ NoBlock \in Block
    /\ \A block \in Block : High(block) \in Bytes /\ Low(block) \in Bytes
    /\ \A block \in Block : [block EXCEPT !.rest = "partial"] \in Block
    /\ \A b0 \in Bytes, b1 \in Bytes : [NoBlock EXCEPT !.b0 = b0, !.b1 = b1] \in Block
    /\ \A byte \in Bytes : WithHost(byte) \in Bytes /\ byte \ {BTP_EN} \in Bytes
    /\ \A block \in Block, b0 \in Bytes, b1 \in Bytes, c \in Bytes :
          [block EXCEPT !.b0 = b0, !.b1 = b1, !.c = c] \in Block
<1>1. {} \in Bytes /\ NoBlock \in Block
    BY DEF NoBlock, Block, Bytes
<1>2. \A block \in Block : High(block) \in Bytes /\ Low(block) \in Bytes
    BY DEF High, Low, Block
<1>3. \A block \in Block : [block EXCEPT !.rest = "partial"] \in Block
    BY DEF Block
<1>4. \A b0 \in Bytes, b1 \in Bytes : [NoBlock EXCEPT !.b0 = b0, !.b1 = b1] \in Block
    BY <1>1 DEF NoBlock, Block
<1>5. \A byte \in Bytes : WithHost(byte) \in Bytes /\ byte \ {BTP_EN} \in Bytes
    BY DEF WithHost, Bytes
<1>6. \A block \in Block, b0 \in Bytes, b1 \in Bytes, c \in Bytes :
          [block EXCEPT !.b0 = b0, !.b1 = b1, !.c = c] \in Block
    BY DEF Block
<1> QED
    BY <1>1, <1>2, <1>3, <1>4, <1>5, <1>6

LEMMA LocalsTyped ==
    /\ DOMAIN NoLocals = {"pack", "data", "sum"}
    /\ NoLocals \in [DOMAIN NoLocals -> [of : Registers \cup {"beyond", "none"}, block : Block]]
<1>1. DOMAIN NoLocals = {"pack", "data", "sum"}
    BY DEF NoLocals
<1>2. Nothing \in [of : Registers \cup {"beyond", "none"}, block : Block]
    BY BlocksTyped DEF Nothing
<1>3. NoLocals \in [{"pack", "data", "sum"} ->
                        [of : Registers \cup {"beyond", "none"}, block : Block]]
    BY <1>2 DEF NoLocals
<1> QED
    BY <1>1, <1>3

LEMMA NewBlockTyped ==
    Values => NewBlock \in Block
<1> SUFFICES ASSUME Values
             PROVE  NewBlock \in Block
    OBVIOUS
<1> DEFINE b == locals.data.block
<1>1. b \in Block
    <2>1. "data" \in DOMAIN NoLocals
        BY LocalsTyped
    <2> QED
        BY <2>1 DEF Values
<1>2. /\ b.b0 \in Bytes /\ b.b1 \in Bytes /\ b.c \ {BTP_EN} \in Bytes
      /\ WithHost(b.b0) \in Bytes /\ WithHost(b.b1) \in Bytes
    BY <1>1, BlocksTyped DEF Block
<1>3. NewBlock = [b EXCEPT !.b0 = IF LowFirst THEN b.b0 ELSE WithHost(b.b0),
                           !.b1 = IF LowFirst THEN WithHost(b.b1) ELSE b.b1,
                           !.c = b.c \ {BTP_EN}]
    BY DEF NewBlock
<1> HIDE DEF b
<1> QED
    BY <1>1, <1>2, <1>3, BlocksTyped

LEMMA ContentTyped ==
    Values => \A reg : Content(reg) \in Block
BY BlocksTyped DEF Content, Values

LEMMA BusTyped ==
    ASSUME Values, Programs, NEW core \in Cores, Arrive(core) \/ Break(core)
    PROVE  flash' \in Block /\ ram' \in Block /\ ptr' \in Registers \cup {"beyond"} /\ imax' \in BOOLEAN
<1>1. CASE Runs(core, "point") /\ Arrive(core)
    <2>1. Head(program[core]) \in Steps /\ Head(program[core]).op = "point"
        BY <1>1, TailKept DEF Programs, Runs
    <2>2. Arg(core) \in Registers
        BY <2>1 DEF Steps, Arg
    <2>3. ptr' = Arg(core) /\ flash' = flash /\ ram' = ram /\ imax' = imax
        BY <1>1, <2>1 DEF Arrive, Runs
    <2> QED
        BY <2>2, <2>3 DEF Values
<1>2. CASE ~Runs(core, "point") /\ Arrive(core)
    <2>1. /\ ptr' = "beyond" /\ ram' \in {flash, target, ram} /\ flash' \in {ram, flash}
          /\ imax' = imax \/ imax' = (imax /\ send_buf # "imax_clear")
        BY <1>2 DEF Arrive
    <2> QED
        BY <2>1 DEF Values
<1>3. CASE Break(core)
    <2>1. /\ ptr' = ptr \/ ptr' = "beyond"
          /\ ram' = ram \/ ram' = [target EXCEPT !.rest = "partial"]
          /\ flash' = flash /\ imax' = imax
        BY <1>3 DEF Break, gauge
    <2> QED
        BY <2>1, BlocksTyped DEF Values
<1> QED
    BY <1>1, <1>2, <1>3

LEMMA RetryTyped ==
    ASSUME Values, NEW core \in Cores, Retry(core)
    PROVE  retries' \in [Cores -> 0 .. MaxRetries - 1] /\ stopped' \in [Cores -> BOOLEAN]
<1>1. MaxRetries \in Nat \ {0}
    BY GaugeAccessAssumption
<1>2. retries[core] \in 0 .. MaxRetries - 1
    BY DEF Values
<1>3. CASE retries[core] + 1 < MaxRetries
    <2>1. retries[core] + 1 \in 0 .. MaxRetries - 1
        BY <1>1, <1>2, <1>3
    <2>2. retries' = [retries EXCEPT ![core] = retries[core] + 1] /\ stopped' = stopped
        BY <1>3 DEF Retry
    <2> QED
        BY <2>1, <2>2 DEF Values
<1>4. CASE ~(retries[core] + 1 < MaxRetries)
    BY <1>4 DEF Retry, Values
<1> QED
    BY <1>3, <1>4

LEMMA CleanTyped ==
    ASSUME Values, NEW core \in Cores
    PROVE  Disturb(core) \in [Cores -> BOOLEAN] /\ Begin(core) \in [Cores -> BOOLEAN]
BY DEF Disturb, Begin, Values

LEMMA ValuesStep ==
    ASSUME Values, Programs, [Next]_vars
    PROVE  Values'
<1> USE DEF config, buffers, gauge
<1>0. 0 \in 0 .. MaxRetries - 1
    BY GaugeAccessAssumption
<1>1. ASSUME NEW core \in Cores, Write(core)
      PROVE  Values'
    <2>1. flash' \in Block /\ ram' \in Block /\ ptr' \in Registers \cup {"beyond"} /\ imax' \in BOOLEAN
        BY <1>1, BusTyped DEF Write
    <2>2. retries' \in [Cores -> 0 .. MaxRetries - 1] /\ clean' \in [Cores -> BOOLEAN]
        BY <1>0, <1>1, CleanTyped DEF Write, Values
    <2> QED
        BY <1>1, <2>1, <2>2 DEF Write, Values
<1>2. ASSUME NEW core \in Cores, WriteFails(core)
      PROVE  Values'
    <2>1. flash' \in Block /\ ram' \in Block /\ ptr' \in Registers \cup {"beyond"} /\ imax' \in BOOLEAN
        BY <1>2, BusTyped DEF WriteFails
    <2>2. /\ retries' \in [Cores -> 0 .. MaxRetries - 1] /\ stopped' \in [Cores -> BOOLEAN]
          /\ clean' \in [Cores -> BOOLEAN] /\ trouble' \in BOOLEAN
        BY <1>2, RetryTyped, CleanTyped DEF WriteFails, Values
    <2> QED
        BY <1>2, <2>1, <2>2 DEF WriteFails, Values
<1>3. ASSUME NEW core \in Cores, Read(core)
      PROVE  Values'
    <2>1. retries' \in [Cores -> 0 .. MaxRetries - 1] /\ clean' \in [Cores -> BOOLEAN]
        BY <1>0, <1>3, CleanTyped DEF Read, Values
    <2>2. return_buf' \in Registers \cup {"beyond", "zero"} /\ ptr' \in Registers \cup {"beyond"}
        BY <1>3 DEF Read, Values
    <2>3. locals' \in [DOMAIN NoLocals -> [of : Registers \cup {"beyond", "none"}, block : Block]]
        <3> DEFINE e == [of |-> ptr, block |-> Content(ptr)]
        <3>1. e \in [of : Registers \cup {"beyond", "none"}, block : Block]
            BY ContentTyped DEF Values
        <3> HIDE DEF e
        <3>2. locals' = locals \/ locals' = [locals EXCEPT ![Head(program[core]).into] = e]
            BY <1>3 DEF Read, e
        <3> QED
            BY <3>1, <3>2 DEF Values
    <2>4. imax_seen' \in BOOLEAN
        BY <1>3 DEF Read, Values
    <2> QED
        BY <1>3, <2>1, <2>2, <2>3, <2>4 DEF Read, Values
<1>4. ASSUME NEW core \in Cores, ReadFails(core)
      PROVE  Values'
    <2>1. /\ retries' \in [Cores -> 0 .. MaxRetries - 1] /\ stopped' \in [Cores -> BOOLEAN]
          /\ clean' \in [Cores -> BOOLEAN] /\ trouble' \in BOOLEAN
          /\ ptr' \in Registers \cup {"beyond"}
        BY <1>4, RetryTyped, CleanTyped DEF ReadFails, Values
    <2> QED
        BY <1>4, <2>1 DEF ReadFails, Values
<1>5. CASE Refuse
    <2>1. retries' \in [Cores -> 0 .. MaxRetries - 1] /\ clean' \in [Cores -> BOOLEAN]
        BY <1>0, <1>5, CleanTyped DEF Refuse, Values, Cores
    <2> QED
        BY <1>5, <2>1 DEF Refuse, Values
<1>6. ASSUME NEW core \in Cores, Prepare(core)
      PROVE  Values'
    <2>1. send_buf' \in {"zero"} \cup Subcommands
        <3>1. CASE Runs(core, "build") /\ send_buf' = Arg(core)
            <4>1. Head(program[core]) \in Steps
                BY <3>1, TailKept DEF Programs, Runs
            <4> QED
                BY <3>1, <4>1 DEF Steps, Arg, Runs
        <3> QED
            BY <1>6, <3>1 DEF Prepare
    <2> QED
        BY <1>6, <2>1, CleanTyped DEF Prepare, Values
<1>7. CASE Use \/ GetState
    BY <1>7 DEF Use, GetState, Values
<1>8. ASSUME NEW result \in {"unread", "already", "configured", "unverified"}, Outcome(result)
      PROVE  /\ locals' \in [DOMAIN NoLocals -> [of : Registers \cup {"beyond", "none"}, block : Block]]
             /\ target' \in Block
             /\ outcome' \in {"none", "unread", "already", "configured", "unverified"}
    BY <1>8, LocalsTyped, BlocksTyped DEF Outcome
<1>9. CASE Decide
    <2>1. sure' \in BOOLEAN
        BY <1>9 DEF Decide
    <2>2. /\ locals' \in [DOMAIN NoLocals -> [of : Registers \cup {"beyond", "none"}, block : Block]]
          /\ target' \in Block
          /\ outcome' \in {"none", "unread", "already", "configured", "unverified"}
        BY <1>9, <1>8, NewBlockTyped DEF Decide, Values
    <2> QED
        BY <1>9, <2>1, <2>2 DEF Decide, Values
<1>10. CASE Verify
    <2>1. /\ locals' \in [DOMAIN NoLocals -> [of : Registers \cup {"beyond", "none"}, block : Block]]
          /\ target' \in Block
          /\ outcome' \in {"none", "unread", "already", "configured", "unverified"}
        BY <1>10, <1>8 DEF Verify
    <2> QED
        BY <1>10, <2>1 DEF Verify, Values
<1>11. CASE Arm \/ SetImax \/ CheckImax
    BY <1>11 DEF Arm, SetImax, CheckImax, Values
<1>12. CASE Interrupt
    BY <1>12 DEF Interrupt, Values
<1>13. CASE Restart
    BY <1>0, <1>13, LocalsTyped, BlocksTyped DEF Restart, Values
<1>14. CASE UNCHANGED vars
    BY <1>14 DEF vars, Values
<1> QED
    BY <1>1, <1>2, <1>3, <1>4, <1>5, <1>6, <1>7, <1>9, <1>10, <1>11, <1>12, <1>13, <1>14
       DEF Next, Core0, Core1, Transfer, Cores

LEMMA Initially ==
    ASSUME Init
    PROVE  Values /\ Programs
<1>1. Programs
    BY StartPrograms DEF Init
<1>2. flash \in Block /\ 0 \in 0 .. MaxRetries - 1 /\ "control" \in Registers
    BY GaugeAccessAssumption DEF Init, Registers
<1>3. Values
    BY <1>2, LocalsTyped, BlocksTyped DEF Init, Values
<1> QED
    BY <1>1, <1>3

LEMMA AlwaysTyped ==
    Spec => [](Values /\ Programs)
<1>1. Init => Values /\ Programs
    BY Initially
<1>2. Values /\ Programs /\ [Next]_vars => (Values /\ Programs)'
    BY ValuesStep, ProgramsStep
<1> QED
    BY <1>1, <1>2, PTL DEF Spec

(* The counts of attempts stay below MAX_RETRIES, and core 1 neither writes *)
(* the configuration nor touches the state that is sent.                    *)
THEOREM TypeCorrect ==
    Spec => []TypeOK
BY AlwaysTyped, ValuesAreTyped, PTL

-----------------------------------------------------------------------------
(* A core's own transfers *)

LEMMA CleanAfter ==
    ASSUME Values, NEW core \in Cores
    PROVE  /\ Disturb(core)[core] = clean[core] /\ Begin(core)[core] = TRUE
           /\ \A c \in Cores \ {core} : Disturb(core)[c] = FALSE /\ Begin(core)[c] = FALSE
BY DEF Disturb, Begin, Other, Cores, Values

LEMMA ReadyDirty ==
    ASSUME NEW core \in Cores, clean'[core] = FALSE
    PROVE  ReadyAt(core)'
BY DEF ReadyAt

LEMMA ReadySame ==
    ASSUME NEW core \in Cores, ReadyAt(core), clean'[core] => clean[core],
           program'[core] = program[core], buffers' = buffers, ptr' = ptr
    PROVE  ReadyAt(core)'
BY DEF ReadyAt, buffers, Turn, Arg

(* A program that begins with no transfer to its own end *)
LEMMA ReadyFree ==
    ASSUME NEW core \in Cores,
           program'[core] = <<>> \/ Head(program'[core]).op \notin {"get", "send", "use"}
    PROVE  ReadyAt(core)'
BY DEF ReadyAt, Turn

LEMMA ReadyDone ==
    ASSUME Programs, NEW core \in Cores, program[core] # <<>>, Done(core),
           Head(program[core]).op = "point" => ptr' = Arg(core),
           Head(program[core]).op = "build" => send_buf' = Arg(core),
           Head(program[core]).op = "get" /\ Head(program[core]).into = "return_buf"
               /\ clean'[core] => return_buf' = Arg(core)
    PROVE  ReadyAt(core)'
<1> DEFINE p == program[core]
<1>1. p \in Seq(Steps) /\ Linked(p) /\ program \in [Cores -> Seq(Steps)]
    BY DEF Programs
<1>2. program'[core] = Tail(p)
    BY <1>1 DEF Done
<1>3. Tail(p) # <<>> => Link(Head(p), Head(Tail(p)))
    BY <1>1, NextLinked
<1> HIDE DEF p
<1> QED
    BY <1>2, <1>3 DEF ReadyAt, Turn, Arg, Link, p

LEMMA DoneElsewhere ==
    ASSUME Programs, NEW core \in Cores, Done(core), NEW c \in Cores \ {core}
    PROVE  program'[c] = program[c]
BY DEF Done, Programs

LEMMA ReadyStep ==
    ASSUME Values, Programs, Ready, [Next]_vars
    PROVE  Ready'
<1> USE DEF config, gauge
<1>0. SUFFICES ASSUME NEW c \in Cores
               PROVE  ReadyAt(c)'
    BY DEF Ready
<1>1. ReadyAt(c)
    BY DEF Ready
<1>2. ASSUME NEW core \in Cores, Write(core)
      PROVE  ReadyAt(c)'
    <2>1. CASE c = core
        BY <1>2, <2>1, ReadyDone DEF Write, Arrive, Runs
    <2>2. CASE c # core
        BY <1>2, <2>2, CleanAfter, ReadyDirty DEF Write
    <2> QED
        BY <2>1, <2>2
<1>3. ASSUME NEW core \in Cores, WriteFails(core)
      PROVE  ReadyAt(c)'
    <2>1. CASE c = core
        <3>1. /\ program' = program /\ send_buf' = send_buf /\ clean'[c] = clean[c]
              /\ Head(program[c]).op \notin {"get", "use"}
            BY <1>3, <2>1, CleanAfter DEF WriteFails, Runs, buffers
        <3> QED
            BY <1>1, <3>1 DEF ReadyAt, Turn, Arg
    <2>2. CASE c # core
        BY <1>3, <2>2, CleanAfter, ReadyDirty DEF WriteFails
    <2> QED
        BY <2>1, <2>2
<1>4. ASSUME NEW core \in Cores, Read(core)
      PROVE  ReadyAt(c)'
    <2>1. CASE c = core
        <3>1. /\ program[c] # <<>> /\ Head(program[c]).op = "get" /\ Done(c)
              /\ clean'[c] = clean[c]
              /\ Head(program[c]).into = "return_buf" => return_buf' = ptr
            BY <1>4, <2>1, CleanAfter DEF Read, Runs
        <3>2. clean[c] => ptr = Arg(c)
            BY <1>1, <3>1 DEF ReadyAt, Turn
        <3> QED
            BY <3>1, <3>2, ReadyDone
    <2>2. CASE c # core
        BY <1>4, <2>2, CleanAfter, ReadyDirty DEF Read
    <2> QED
        BY <2>1, <2>2
<1>5. ASSUME NEW core \in Cores, ReadFails(core)
      PROVE  ReadyAt(c)'
    <2>1. CASE ptr' = ptr /\ clean' = Disturb(core) /\ c = core
        BY <1>1, <1>5, <2>1, CleanAfter, ReadySame DEF ReadFails
    <2>2. CASE ptr' = ptr /\ clean' = Disturb(core) /\ c # core
        BY <2>2, CleanAfter, ReadyDirty
    <2>3. CASE clean' = [o \in Cores |-> FALSE]
        BY <2>3, ReadyDirty
    <2> QED
        BY <1>5, <2>1, <2>2, <2>3 DEF ReadFails
<1>6. CASE Refuse
    <2>1. CASE c = "core0"
        BY <1>6, <2>1, ReadyDone DEF Refuse, Runs
    <2>2. CASE c # "core0"
        BY <1>6, <2>2, CleanAfter, ReadyDirty DEF Refuse, Cores
    <2> QED
        BY <2>1, <2>2
<1>7. ASSUME NEW core \in Cores, Prepare(core)
      PROVE  ReadyAt(c)'
    <2>1. CASE c = core
        BY <1>7, <2>1, ReadyDone DEF Prepare, Runs
    <2>2. CASE c # core
        BY <1>7, <2>2, CleanAfter, ReadyDirty DEF Prepare
    <2> QED
        BY <2>1, <2>2
<1>8. ASSUME Done("core0"), program["core0"] # <<>>,
             Head(program["core0"]).op \notin {"point", "build", "get"},
             UNCHANGED <<gauge, buffers, clean>>
      PROVE  ReadyAt(c)'
    <2>1. CASE c = "core0"
        BY <1>8, <2>1, ReadyDone
    <2>2. CASE c # "core0"
        BY <1>1, <1>8, <2>2, DoneElsewhere, ReadySame DEF Cores
    <2> QED
        BY <2>1, <2>2
<1>9. CASE Use \/ Verify \/ Arm
    BY <1>8, <1>9 DEF Use, Verify, Arm, Outcome, Runs
<1>10. CASE Decide
    <2>1. CASE Outcome("unread") \/ Outcome("already")
        BY <1>8, <1>10, <2>1 DEF Decide, Outcome, Runs
    <2>2. CASE ~(Outcome("unread") \/ Outcome("already"))
        <3>1. /\ program' = [program EXCEPT !["core0"] = AfterDecision]
              /\ Runs("core0", "decide") /\ UNCHANGED <<gauge, buffers, clean>>
            BY <1>10, <2>2 DEF Decide, AfterDecision
        <3>2. Head(AfterDecision).op = "put"
            BY <3>1, DecisionShape DEF Put
        <3>3. program \in [Cores -> Seq(Steps)]
            BY DEF Programs
        <3>4. CASE c = "core0"
            <4>1. program'[c] = AfterDecision
                BY <3>1, <3>3, <3>4
            <4> QED
                BY <3>2, <4>1, ReadyFree
        <3>5. CASE c # "core0"
            <4>1. program'[c] = program[c]
                BY <3>1, <3>3, <3>5
            <4> QED
                BY <1>1, <3>1, <4>1, ReadySame
        <3> QED
            BY <3>4, <3>5
    <2> QED
        BY <2>1, <2>2
<1>11. CASE GetState
    <2>1. program \in [Cores -> Seq(Steps)]
          /\ program' = [program EXCEPT !["core0"] = GetBatteryState]
        BY <1>11 DEF GetState, Programs
    <2>2. CASE c = "core0"
        <3>1. Head(GetBatteryState).op = "clear"
            BY GetBatteryStateShape, PieceBegins DEF Do
        <3>2. program'[c] = GetBatteryState
            BY <2>1, <2>2
        <3> QED
            BY <3>1, <3>2, ReadyFree
    <2>3. CASE c # "core0"
        <3>1. program'[c] = program[c]
            BY <2>1, <2>3
        <3> QED
            BY <1>1, <1>11, <3>1, ReadySame DEF GetState
    <2> QED
        BY <2>2, <2>3
<1>12. CASE Interrupt
    <2>1. program \in [Cores -> Seq(Steps)]
          /\ program' = [program EXCEPT !["core1"] = ParseInterruptVals]
        BY <1>12 DEF Interrupt, Programs
    <2>2. CASE c = "core1"
        <3>1. Head(ParseInterruptVals).op = "point"
            BY ParseShape, PieceBegins DEF Point
        <3>2. program'[c] = ParseInterruptVals
            BY <2>1, <2>2
        <3> QED
            BY <3>1, <3>2, ReadyFree
    <2>3. CASE c # "core1"
        <3>1. program'[c] = program[c] /\ clean'[c] = clean[c]
            BY <1>12, <2>1, <2>3 DEF Interrupt, Values
        <3> QED
            BY <1>1, <1>12, <3>1, ReadySame DEF Interrupt
    <2> QED
        BY <2>2, <2>3
<1>13. CASE CheckImax
    <2> DEFINE t == Tail(program["core1"])
    <2>1. /\ Head(program["core1"]).op = "imax" /\ program["core1"] # <<>>
          /\ program' = [program EXCEPT !["core1"] =
                            IF imax_seen THEN Control("imax_clear") \o t ELSE t]
          /\ UNCHANGED <<gauge, buffers, clean>>
        BY <1>13 DEF CheckImax, Runs
    <2>2. program \in [Cores -> Seq(Steps)] /\ Linked(program["core1"])
        BY DEF Programs, Cores
    <2>3. CASE c = "core1"
        <3>1. t \in Seq(Steps) /\ Linked(t)
              /\ (t # <<>> => Link(Head(program["core1"]), Head(t)))
            BY <2>1, <2>2, TailKept, NextLinked DEF Cores
        <3>2. Piece(Control("imax_clear"), Do("build", "imax_clear"), Get("control", "return_buf"))
            BY ControlShape DEF Subcommands
        <3>3. t # <<>> => /\ Head(t).op \notin {"get", "send", "use"}
                          /\ Link(Get("control", "return_buf"), Head(t))
            BY <2>1, <3>1 DEF Link
        <3> HIDE DEF t
        <3>4. Head(Control("imax_clear") \o t).op = "build"
            <4>1. Head(Control("imax_clear") \o t) = Do("build", "imax_clear")
                BY <3>1, <3>2, <3>3, JoinRest
            <4>2. Do("build", "imax_clear").op = "build"
                BY DEF Do
            <4> QED
                BY <4>1, <4>2
        <3>5. program'[c] = Control("imax_clear") \o t \/ program'[c] = t
            BY <2>1, <2>2, <2>3
        <3> QED
            BY <3>3, <3>4, <3>5, ReadyFree
    <2>4. CASE c # "core1"
        <3>1. program'[c] = program[c]
            BY <2>1, <2>2, <2>4
        <3> QED
            BY <1>1, <2>1, <3>1, ReadySame
    <2> QED
        BY <2>3, <2>4
<1>14. CASE SetImax \/ UNCHANGED vars
    BY <1>1, <1>14, ReadySame DEF SetImax, vars
<1>15. CASE Restart
    <2>1. program' = [core \in Cores |-> IF core = "core0" THEN Boot ELSE <<>>]
        BY <1>15 DEF Restart, Start
    <2>2. Head(Boot).op = "build"
        BY BootShape, PieceBegins DEF Do
    <2>3. program'[c] = Boot \/ program'[c] = <<>>
        BY <2>1
    <2> QED
        BY <2>2, <2>3, ReadyFree
<1> QED
    BY <1>2, <1>3, <1>4, <1>5, <1>6, <1>7, <1>9, <1>10, <1>11, <1>12, <1>13, <1>14, <1>15
       DEF Next, Core0, Core1, Transfer, Cores

LEMMA ReadyInitially ==
    ASSUME Init
    PROVE  Ready
<1>1. Head(Boot).op = "build"
    BY BootShape, PieceBegins DEF Do
<1>2. ASSUME NEW c \in Cores
      PROVE  program[c] = Boot \/ program[c] = <<>>
    BY DEF Init, Start
<1> QED
    BY <1>1, <1>2 DEF Ready, ReadyAt, Turn

(* Unless the other core came between, or a read broke off, a core reads   *)
(* the register it has set, sends the subcommand it has built and uses     *)
(* the answer it has read, for whatever retries its transfers take.        *)
THEOREM OwnTransfersAlways ==
    Spec => []OwnTransfers
<1>1. Init => Ready
    BY ReadyInitially
<1>2. Values /\ Programs /\ Ready /\ [Next]_vars => Ready'
    BY ReadyStep
<1>3. Ready => OwnTransfers
    BY DEF Ready, ReadyAt, OwnTransfers, Runs, Turn
<1> QED
    BY <1>1, <1>2, <1>3, AlwaysTyped, PTL DEF Spec

-----------------------------------------------------------------------------
(* The configuration *)

LEMMA NewBlockConfigured ==
    Values =>
        /\ NewBlock.high_first = locals.data.block.high_first
        /\ LowFirst = ~locals.data.block.high_first =>
              /\ Configured(NewBlock)
              /\ WithHost(High(locals.data.block)) = High(NewBlock)
              /\ Low(locals.data.block) = Low(NewBlock)
        /\ locals.data.block.c \ {BTP_EN} = NewBlock.c
        /\ locals.data.block.rest = NewBlock.rest
<1> SUFFICES ASSUME Values
             PROVE  /\ NewBlock.high_first = locals.data.block.high_first
                    /\ LowFirst = ~locals.data.block.high_first =>
                          /\ Configured(NewBlock)
                          /\ WithHost(High(locals.data.block)) = High(NewBlock)
                          /\ Low(locals.data.block) = Low(NewBlock)
                    /\ locals.data.block.c \ {BTP_EN} = NewBlock.c
                    /\ locals.data.block.rest = NewBlock.rest
    OBVIOUS
<1> DEFINE b == locals.data.block
<1>1. b \in Block
    <2>1. "data" \in DOMAIN NoLocals
        BY LocalsTyped
    <2> QED
        BY <2>1 DEF Values
<1>2. NewBlock = [b EXCEPT !.b0 = IF LowFirst THEN b.b0 ELSE WithHost(b.b0),
                           !.b1 = IF LowFirst THEN WithHost(b.b1) ELSE b.b1,
                           !.c = b.c \ {BTP_EN}]
    BY DEF NewBlock
<1>3. LowFirst \in BOOLEAN /\ b.high_first \in BOOLEAN
    BY <1>1 DEF LowFirst, Matches, Block
<1> HIDE DEF b
<1>4. /\ NewBlock.high_first = b.high_first /\ NewBlock.rest = b.rest
      /\ NewBlock.c = b.c \ {BTP_EN}
      /\ NewBlock.b0 = IF LowFirst THEN b.b0 ELSE WithHost(b.b0)
      /\ NewBlock.b1 = IF LowFirst THEN WithHost(b.b1) ELSE b.b1
    BY <1>1, <1>2 DEF Block
<1>5. ASSUME LowFirst = ~b.high_first
      PROVE  /\ WithHost(High(b)) = High(NewBlock) /\ Low(b) = Low(NewBlock)
    BY <1>3, <1>4, <1>5 DEF High, Low
<1>6. \A byte : /\ HOSTIE \in WithHost(byte)
                /\ HOSTIPOL \notin WithHost(byte) /\ HOSTIPU \notin WithHost(byte)
    BY DEF WithHost, HOSTIE, HOSTIPOL, HOSTIPU
<1>7. ASSUME LowFirst = ~b.high_first
      PROVE  Configured(NewBlock)
    BY <1>4, <1>5, <1>6, <1>7 DEF Configured
<1> QED
    BY <1>4, <1>5, <1>7 DEF b

(* What holds of core 0's program when it has done an instruction *)
LEMMA Core0Done ==
    ASSUME Programs, program["core0"] # <<>>, Done("core0")
    PROVE  LET p == program["core0"]
               q == program'["core0"]
           IN  /\ q # <<>> => Link(Head(p), Head(q))
               /\ Head(p) \in Steps
               /\ Commits(q) => Head(p).op = "put"
               /\ Commits(p) <=> (Head(p).op = "put" /\ Head(p).a = "checksum") \/ Commits(q)
               /\ Has(p, "verify") <=> Head(p).op = "verify" \/ Has(q, "verify")
               /\ Head(p).op \in {"decide", "verify"} => Quiet(q)
<1> DEFINE p == program["core0"]
<1>1. p \in Seq(Steps) /\ Linked(p) /\ Ordered(p) /\ p # <<>>
    BY DEF Programs, Cores
<1>2. program'["core0"] = Tail(p)
    BY DEF Programs, Done, Cores
<1> HIDE DEF p
<1>3. /\ Tail(p) # <<>> => Link(Head(p), Head(Tail(p)))
      /\ Head(p) \in Steps
      /\ Commits(Tail(p)) => Head(p).op = "put"
      /\ Commits(p) <=> (Head(p).op = "put" /\ Head(p).a = "checksum") \/ Commits(Tail(p))
      /\ Has(p, "verify") <=> Head(p).op = "verify" \/ Has(Tail(p), "verify")
      /\ Head(p).op \in {"decide", "verify"} => Quiet(Tail(p))
    BY <1>1, NextLinked, TailKept, HasTail, HeadOrders
<1> QED
    BY <1>2, <1>3 DEF p

(* While the gauge is not listened to, core 1 does nothing, and core 0 has *)
(* something to do.                                                        *)
LEMMA OnlyCore0 ==
    ASSUME Programs, ~armed
    PROVE  /\ \A op : ~Runs("core1", op)
           /\ program["core0"] # <<>>
BY EmptySeq DEF Programs, Runs, Has

LEMMA ConfiguringArmed ==
    Programs /\ armed => Configuring
<1> SUFFICES ASSUME Programs, armed
             PROVE  Configuring
    OBVIOUS
<1>1. /\ ~Commits(program["core0"]) /\ ~Has(program["core0"], "verify")
      /\ outcome = "none"
    BY QuietMeans DEF Programs
<1> QED
    BY <1>1 DEF Configuring, Fetched, Writing, Verifying, Untroubled, ConfiguredWhenSaid,
                EndsWell

LEMMA ConfiguringArmedNext ==
    (Programs /\ armed => Configuring)'
BY ConfiguringArmed, PTL

(* An attempt that failed, or nothing of the firmware *)
LEMMA ConfiguringStall ==
    ASSUME Programs, Configuring, ~armed, program' = program, UNCHANGED <<flash, ram, config, armed>>,
           \/ trouble' = TRUE
           \/ trouble' = trouble /\ clean'["core0"] = clean["core0"]
    PROVE  Configuring'
BY DEF Configuring, Fetched, Writing, Verifying, Untroubled, ConfiguredWhenSaid, EndsWell,
       Selected, DataRead, Turn, Arg, config, NewBlock, LowFirst, Matches, Configured, High

(* Instructions other than reads and writes of the block *)
LEMMA ConfiguringOther ==
    ASSUME Programs, Configuring, ~armed, Done("core0"),
           Head(program["core0"]).op \in {"point", "send", "build", "clear", "use"},
           UNCHANGED <<flash, ram, config, armed, trouble>>,
           clean["core0"] => clean'["core0"]
    PROVE  Configuring'
<1> DEFINE p == program["core0"]
           q == program'["core0"]
<1>1. p # <<>>
    BY OnlyCore0
<1>2. /\ q # <<>> => Link(Head(p), Head(q))
      /\ Commits(q) => Head(p).op = "put"
      /\ Commits(p) <=> (Head(p).op = "put" /\ Head(p).a = "checksum") \/ Commits(q)
      /\ Has(p, "verify") <=> Head(p).op = "verify" \/ Has(q, "verify")
    BY <1>1, Core0Done
<1>3. /\ flash' = flash /\ ram' = ram /\ locals' = locals /\ target' = target /\ sure' = sure
      /\ outcome' = outcome /\ armed' = armed /\ trouble' = trouble
    BY DEF config
<1>4. Selected' => Selected
    BY <1>1, <1>2 DEF Selected, Turn, Arg, Link
<1>5. DataRead' => DataRead
    BY <1>1, <1>2 DEF DataRead, Turn, Arg, Link
<1>6. Fetched'
    BY <1>3, <1>4, <1>5 DEF Fetched, Configuring
<1>7. Writing' /\ (Commits(p) <=> Commits(q))
    BY <1>2 DEF Writing
<1>8. Verifying'
    BY <1>2, <1>3 DEF Verifying, Configuring, Configured, High
<1>9. Untroubled'
    <2>1. ~(Turn("core0", "decide") \/ Turn("core0", "verify"))'
        BY <1>1, <1>2 DEF Turn, Link
    <2>2. ~(Turn("core0", "put") /\ Arg("core0") = "checksum")'
        BY <1>1, <1>2 DEF Turn, Link, Arg
    <2> QED
        BY <1>2, <1>3, <1>5, <1>7, <2>1, <2>2 DEF Untroubled, Configuring
<1>10. ConfiguredWhenSaid' /\ EndsWell'
    BY <1>3 DEF Configuring, ConfiguredWhenSaid, EndsWell, Configured, High
<1> QED
    BY <1>6, <1>7, <1>8, <1>9, <1>10 DEF Configuring

LEMMA ConfiguringRead ==
    ASSUME Values, Programs, Ready, Configuring, ~armed, Read("core0")
    PROVE  Configuring'
<1> DEFINE p == program["core0"]
           q == program'["core0"]
<1>1. p # <<>> /\ Head(p).op = "get" /\ Done("core0")
    BY DEF Read, Runs
<1>2. /\ q # <<>> => Link(Head(p), Head(q))
      /\ Head(p) \in Steps
      /\ Commits(q) => Head(p).op = "put"
      /\ Commits(p) <=> (Head(p).op = "put" /\ Head(p).a = "checksum") \/ Commits(q)
      /\ Has(p, "verify") <=> Head(p).op = "verify" \/ Has(q, "verify")
    BY <1>1, Core0Done
<1>3. /\ flash' = flash /\ ram' = ram /\ target' = target /\ sure' = sure
      /\ outcome' = outcome /\ armed' = armed /\ trouble' = trouble
      /\ clean'["core0"] = clean["core0"]
    BY CleanAfter DEF Read, Cores
<1>4. /\ Head(p).a = "data" => Head(p).into = "data"
      /\ Head(p).a = "checksum" => Head(p).into = "sum"
    BY <1>1, <1>2 DEF Steps
<1>5. clean["core0"] => ptr = Head(p).a
    BY <1>1 DEF Ready, ReadyAt, Turn, Arg, Cores
<1>6. /\ Head(p).a = "data" => locals'.data = [of |-> ptr, block |-> Content(ptr)]
      /\ Head(p).a = "checksum" => /\ locals'.data = locals.data
                                   /\ locals'.sum = [of |-> ptr, block |-> Content(ptr)]
    <2>1. locals \in [{"pack", "data", "sum"} ->
                        [of : Registers \cup {"beyond", "none"}, block : Block]]
        BY LocalsTyped DEF Values
    <2>2. Head(p).into \in {"data", "sum"} =>
            locals' = [locals EXCEPT ![Head(p).into] = [of |-> ptr, block |-> Content(ptr)]]
        BY <2>1 DEF Read
    <2> QED
        BY <1>4, <2>1, <2>2
<1>7. ptr \in {"data", "checksum"} => Content(ptr) = ram
    BY DEF Content
<1>8. Selected' => Selected
    BY <1>1, <1>2 DEF Selected, Turn, Arg, Link
<1>9. DataRead' => \/ Head(p).a = "data"
                   \/ Head(p).a = "checksum" /\ DataRead
    BY <1>1, <1>2 DEF DataRead, Turn, Arg, Link
<1>10. (Turn("core0", "decide") \/ Turn("core0", "verify"))' => Head(p).a = "checksum"
    BY <1>1, <1>2 DEF Turn, Link
<1>11. Head(p).a \in {"data", "checksum"} => ram = flash
    BY <1>1 DEF Configuring, Fetched, Selected, Turn, Arg
<1>12. Fetched'
    <2>1. Selected' => ram' = flash'
        BY <1>3, <1>8 DEF Configuring, Fetched
    <2>2. DataRead' /\ locals'.data.of = "data" => locals'.data.block = flash'
        <3>1. CASE Head(p).a = "data"
            BY <1>3, <1>6, <1>7, <1>11, <3>1
        <3>2. CASE Head(p).a = "checksum" /\ DataRead
            BY <1>3, <1>6, <3>2 DEF Configuring, Fetched
        <3> QED
            BY <1>9, <3>1, <3>2
    <2> QED
        BY <2>1, <2>2 DEF Fetched
<1>13. Writing'
    BY <1>1, <1>2 DEF Writing
<1>14. Verifying'
    BY <1>1, <1>2, <1>3 DEF Verifying, Configuring, Configured, High
<1>15. Untroubled'
    <2> SUFFICES ASSUME ~trouble
                 PROVE  /\ clean'["core0"]
                        /\ DataRead' => locals'.data.of = "data"
                        /\ (Turn("core0", "decide") \/ Turn("core0", "verify"))' =>
                                locals'.sum = [of |-> "checksum", block |-> flash']
                        /\ ~(Turn("core0", "put") /\ Arg("core0") = "checksum")'
                        /\ Has(q, "verify") /\ ~Commits(q) => flash' = target'
        BY <1>3 DEF Untroubled
    <2>1. clean'["core0"] /\ ptr = Head(p).a
        BY <1>3, <1>5 DEF Untroubled, Configuring
    <2>2. DataRead' => locals'.data.of = "data"
        <3>1. CASE Head(p).a = "data"
            BY <1>6, <2>1, <3>1
        <3>2. CASE Head(p).a = "checksum" /\ DataRead
            BY <1>6, <3>2 DEF Untroubled, Configuring
        <3> QED
            BY <1>9, <3>1, <3>2
    <2>3. Head(p).a = "checksum" => locals'.sum = [of |-> "checksum", block |-> flash']
        BY <1>3, <1>6, <1>7, <1>11, <2>1
    <2>4. ~(Turn("core0", "put") /\ Arg("core0") = "checksum")'
        BY <1>1, <1>2 DEF Turn, Link, Arg
    <2>5. Has(q, "verify") /\ ~Commits(q) => flash' = target'
        BY <1>1, <1>2, <1>3 DEF Untroubled, Configuring
    <2> QED
        BY <1>10, <2>1, <2>2, <2>3, <2>4, <2>5
<1>16. ConfiguredWhenSaid' /\ EndsWell'
    BY <1>3 DEF Configuring, ConfiguredWhenSaid, EndsWell, Configured, High
<1> QED
    BY <1>12, <1>13, <1>14, <1>15, <1>16 DEF Configuring

(* The block that is committed is the new one. *)
LEMMA CommitKept ==
    ASSUME Values, Configuring, Commits(program["core0"]), UNCHANGED config,
           flash' = flash \/ flash' = target
    PROVE  /\ target' = NewBlock' /\ (flash' = locals'.data.block \/ flash' = target')
           /\ sure' = (LowFirst' = ~flash'.high_first)
           /\ flash'.high_first = flash.high_first
<1>1. /\ target = NewBlock /\ (flash = locals.data.block \/ flash = target)
      /\ sure = (LowFirst = ~flash.high_first)
    BY DEF Configuring, Writing
<1>2. NewBlock.high_first = locals.data.block.high_first
    BY NewBlockConfigured
<1>3. /\ target' = target /\ locals' = locals /\ sure' = sure
      /\ NewBlock' = NewBlock /\ LowFirst' = LowFirst
    BY DEF config, NewBlock, LowFirst, Matches
<1>4. flash'.high_first = flash.high_first
    BY <1>1, <1>2
<1> QED
    BY <1>1, <1>3, <1>4

LEMMA VerifyingKept ==
    ASSUME Configuring, Has(program["core0"], "verify"), UNCHANGED config,
           flash' = flash \/ flash' = target
    PROVE  /\ target'.high_first = flash'.high_first
           /\ sure' => Configured(target')
<1>1. target' = target /\ sure' = sure
    BY DEF config
<1> QED
    BY <1>1 DEF Configuring, Verifying

(* What a put does, whether the firmware learns of it or not *)
LEMMA PutArrives ==
    ASSUME Runs("core0", "put"), Arrive("core0")
    PROVE  /\ ram' = CASE Arg("core0") = "block" -> flash
                       [] Arg("core0") = "data" -> target
                       [] OTHER -> ram
           /\ flash' = IF Arg("core0") = "checksum" /\ ram = target THEN ram ELSE flash
BY DEF Arrive, Runs

LEMMA ConfiguringPut ==
    ASSUME Values, Programs, Configuring, ~armed, Runs("core0", "put"), Done("core0"),
           UNCHANGED <<config, armed>>,
           \/ /\ Arrive("core0") /\ trouble' = trouble
              /\ clean'["core0"] = clean["core0"]
           \/ /\ Arg("core0") = "checksum" /\ UNCHANGED <<flash, ram>>
              /\ trouble' = TRUE
    PROVE  Configuring'
<1> DEFINE p == program["core0"]
           q == program'["core0"]
<1>1. p # <<>> /\ Head(p).op = "put"
    BY DEF Runs
<1>2. /\ q # <<>> => Link(Head(p), Head(q))
      /\ Commits(p) <=> (Head(p).op = "put" /\ Head(p).a = "checksum") \/ Commits(q)
      /\ Has(p, "verify") <=> Head(p).op = "verify" \/ Has(q, "verify")
    BY <1>1, Core0Done
<1>3. /\ locals' = locals /\ target' = target /\ sure' = sure
      /\ outcome' = outcome /\ armed' = armed
    BY DEF config
<1>4. /\ flash' = flash \/ flash' = target
      /\ Head(p).a # "checksum" => flash' = flash
    BY PutArrives DEF Arg
<1>5. outcome = "none"
    BY <1>1, HasTail DEF Programs, Cores
<1>6. Selected' => /\ Turn("core0", "point")' /\ Arg("core0")' = "data"
                   /\ Head(p).a = "block"
    BY <1>1, <1>2 DEF Selected, Turn, Arg, Link
<1>7. ~DataRead'
    BY <1>1, <1>2 DEF DataRead, Turn, Arg, Link
<1>8. Fetched'
    <2>1. Head(p).a = "block" => ram' = flash /\ flash' = flash
        BY PutArrives DEF Arg
    <2> QED
        BY <1>6, <1>7, <2>1 DEF Fetched
<1>9. Writing'
    BY <1>2, <1>4, CommitKept DEF Writing
<1>10. Verifying'
    BY <1>1, <1>2, <1>4, VerifyingKept DEF Verifying
<1>11. Untroubled'
    <2> SUFFICES ASSUME ~trouble'
                 PROVE  /\ clean'["core0"]
                        /\ ~(Turn("core0", "decide") \/ Turn("core0", "verify"))'
                        /\ (Turn("core0", "put") /\ Arg("core0") = "checksum")' => ram' = target'
                        /\ Has(q, "verify") /\ ~Commits(q) => flash' = target'
        BY <1>7 DEF Untroubled
    <2>1. Arrive("core0") /\ ~trouble /\ clean'["core0"] = clean["core0"]
        OBVIOUS
    <2>2. clean["core0"]
        BY <2>1 DEF Untroubled, Configuring
    <2>3. ~(Turn("core0", "decide") \/ Turn("core0", "verify"))'
        BY <1>1, <1>2 DEF Turn, Link
    <2>4. (Turn("core0", "put") /\ Arg("core0") = "checksum")' => ram' = target'
        <3>1. (Turn("core0", "put") /\ Arg("core0") = "checksum")' => Head(p).a = "data"
            BY <1>1, <1>2 DEF Turn, Link, Arg
        <3>2. Head(p).a = "data" => ram' = target
            BY <2>1, PutArrives DEF Arg
        <3> QED
            BY <1>3, <3>1, <3>2
    <2>5. Has(q, "verify") /\ ~Commits(q) => flash' = target'
        <3>1. CASE Head(p).a = "checksum"
            <4>1. ram = target
                BY <1>1, <2>1, <3>1 DEF Untroubled, Configuring, Turn, Arg
            <4>2. flash' = target
                BY <2>1, <3>1, <4>1, PutArrives DEF Arg
            <4> QED
                BY <1>3, <4>2
        <3>2. CASE Head(p).a # "checksum"
            BY <1>1, <1>2, <1>3, <1>4, <2>1, <3>2 DEF Untroubled, Configuring
        <3> QED
            BY <3>1, <3>2
    <2> QED
        BY <2>1, <2>2, <2>3, <2>4, <2>5
<1>12. ConfiguredWhenSaid' /\ EndsWell'
    BY <1>3, <1>5 DEF ConfiguredWhenSaid, EndsWell
<1> QED
    BY <1>8, <1>9, <1>10, <1>11, <1>12 DEF Configuring

LEMMA ConfiguringPutFails ==
    ASSUME Values, Programs, Configuring, ~armed, Runs("core0", "put"), program' = program,
           UNCHANGED <<config, armed>>, trouble' = TRUE, Arrive("core0") \/ Break("core0")
    PROVE  Configuring'
<1> DEFINE p == program["core0"]
<1>1. p # <<>> /\ Head(p).op = "put"
    BY DEF Runs
<1>2. outcome' = "none"
    BY <1>1, HasTail DEF Programs, Cores, config
<1>3. flash' = flash \/ flash' = target
    BY PutArrives DEF Break, gauge
<1>4. Fetched'
    BY <1>1 DEF Fetched, Selected, DataRead, Turn
<1>5. Writing'
    BY <1>3, CommitKept DEF Writing
<1>6. Verifying'
    BY <1>3, VerifyingKept DEF Verifying
<1>7. Untroubled' /\ ConfiguredWhenSaid' /\ EndsWell'
    BY <1>2 DEF Untroubled, ConfiguredWhenSaid, EndsWell
<1> QED
    BY <1>4, <1>5, <1>6, <1>7 DEF Configuring

(* A configure_host_interrupts that ends *)
LEMMA ConfiguringEnds ==
    ASSUME Programs, Configuring, ~armed, NEW result, Outcome(result),
           Runs("core0", "decide") \/ Runs("core0", "verify"),
           UNCHANGED <<flash, ram, armed, clean, trouble>>,
           result \in {"already", "configured"} /\ sure' => Configured(flash),
           ~trouble => result \in {"already", "configured"}
    PROVE  Configuring'
<1> DEFINE p == program["core0"]
           q == program'["core0"]
<1>1. p # <<>> /\ Head(p).op \in {"decide", "verify"} /\ Done("core0")
      /\ outcome' = result
    BY DEF Runs, Outcome
<1>2. (q # <<>> => Link(Head(p), Head(q))) /\ Quiet(q)
    BY <1>1, Core0Done
<1>3. ~Commits(q) /\ ~Has(q, "verify")
    BY <1>2, QuietMeans
<1>4. ~Selected' /\ ~DataRead'
    BY <1>1, <1>2 DEF Selected, DataRead, Turn, Arg, Link
<1>5. Fetched' /\ Writing' /\ Verifying'
    BY <1>3, <1>4 DEF Fetched, Writing, Verifying
<1>6. Untroubled'
    <2>1. ~(Turn("core0", "put") /\ Arg("core0") = "checksum")'
        BY <1>1, <1>2 DEF Turn, Link, Arg
    <2>2. ~(Turn("core0", "decide") \/ Turn("core0", "verify"))'
        BY <1>4 DEF Selected
    <2> QED
        BY <1>3, <1>4, <2>1, <2>2 DEF Untroubled, Configuring
<1>7. ConfiguredWhenSaid' /\ EndsWell'
    BY <1>1 DEF ConfiguredWhenSaid, EndsWell, Configured, High
<1> QED
    BY <1>5, <1>6, <1>7 DEF Configuring

LEMMA ConfiguringDecide ==
    ASSUME Values, Programs, Configuring, ~armed, Decide
    PROVE  Configuring'
<1> DEFINE b == locals.data.block
<1>1. /\ Runs("core0", "decide") /\ Turn("core0", "decide")
      /\ UNCHANGED <<flash, ram, armed, clean, trouble>>
      /\ sure' = (LowFirst = ~flash.high_first)
    BY DEF Decide, Runs, Turn, gauge
<1>2. /\ ReadWhole => b = flash
      /\ ~trouble => ReadWhole
    <2>1. locals.data.of = "data" => b = flash
        BY <1>1 DEF Configuring, Fetched, DataRead
    <2>2. ~trouble => /\ locals.data.of = "data"
                      /\ locals.sum = [of |-> "checksum", block |-> flash]
        BY <1>1 DEF Configuring, Untroubled, DataRead
    <2> QED
        BY <2>1, <2>2 DEF ReadWhole
<1>3. ReadWhole => /\ NewBlock.high_first = flash.high_first
                   /\ sure' => Configured(NewBlock)
    BY <1>1, <1>2, NewBlockConfigured
<1>4. CASE ~ReadWhole /\ Outcome("unread")
    BY <1>1, <1>2, <1>4, ConfiguringEnds
<1>5. CASE ReadWhole /\ NewBlock = b /\ Outcome("already")
    <2>1. sure' => Configured(flash)
        BY <1>2, <1>3, <1>5
    <2> QED
        BY <1>1, <1>5, <2>1, ConfiguringEnds
<1>6. CASE ReadWhole /\ target' = NewBlock /\ UNCHANGED <<locals, outcome>>
           /\ program' = [program EXCEPT !["core0"] = AfterDecision]
    <2>1. /\ program'["core0"] = AfterDecision
          /\ Head(program'["core0"]) = Put("block_control") /\ program'["core0"] # <<>>
          /\ Commits(program'["core0"]) /\ outcome = "none"
        BY <1>1, <1>6, DecisionShape DEF Programs, Cores
    <2>2. ~Selected' /\ ~DataRead'
        BY <2>1 DEF Selected, DataRead, Turn, Put
    <2>3. Fetched'
        BY <2>2 DEF Fetched
    <2>4. Writing'
        <3>1. NewBlock' = NewBlock /\ LowFirst' = LowFirst
            BY <1>6 DEF NewBlock, LowFirst, Matches
        <3> QED
            BY <1>1, <1>2, <1>6, <3>1 DEF Writing
    <2>5. Verifying'
        BY <1>1, <1>3, <1>6 DEF Verifying, Configured, High
    <2>6. Untroubled'
        <3>1. ~(Turn("core0", "put") /\ Arg("core0") = "checksum")'
            BY <2>1 DEF Turn, Arg, Put
        <3>2. ~(Turn("core0", "decide") \/ Turn("core0", "verify"))'
            BY <2>2 DEF Selected
        <3> QED
            BY <1>1, <2>1, <2>2, <3>1, <3>2 DEF Untroubled, Configuring
    <2>7. ConfiguredWhenSaid' /\ EndsWell'
        BY <1>6, <2>1 DEF ConfiguredWhenSaid, EndsWell
    <2> QED
        BY <2>3, <2>4, <2>5, <2>6, <2>7 DEF Configuring
<1> QED
    BY <1>4, <1>5, <1>6 DEF Decide, AfterDecision

LEMMA ConfiguringVerify ==
    ASSUME Values, Programs, Configuring, ~armed, Verify
    PROVE  Configuring'
<1> DEFINE b == locals.data.block
           p == program["core0"]
<1>1. /\ Runs("core0", "verify") /\ Turn("core0", "verify")
      /\ UNCHANGED <<flash, ram, armed, clean, trouble>> /\ sure' = sure
      /\ Outcome(IF Verified THEN "configured" ELSE "unverified") /\ Done("core0")
    BY DEF Verify, Runs, Turn, gauge, Outcome
<1>2. /\ ReadWhole => b = flash
      /\ ~trouble => ReadWhole
    <2>1. locals.data.of = "data" => b = flash
        BY <1>1 DEF Configuring, Fetched, DataRead
    <2>2. ~trouble => /\ locals.data.of = "data"
                      /\ locals.sum = [of |-> "checksum", block |-> flash]
        BY <1>1 DEF Configuring, Untroubled, DataRead
    <2> QED
        BY <2>1, <2>2 DEF ReadWhole
<1>3. Has(p, "verify") /\ ~Commits(p)
    <2>1. p # <<>> /\ Head(p).op = "verify"
        BY <1>1 DEF Turn
    <2>2. /\ Commits(p) <=> (Head(p).op = "put" /\ Head(p).a = "checksum") \/ Commits(program'["core0"])
          /\ Has(p, "verify") <=> Head(p).op = "verify" \/ Has(program'["core0"], "verify")
          /\ Quiet(program'["core0"])
        BY <1>1, <2>1, Core0Done
    <2> QED
        BY <2>1, <2>2, QuietMeans
<1>4. /\ target.high_first = flash.high_first
      /\ sure => Configured(target)
      /\ ~trouble => flash = target
    BY <1>3 DEF Configuring, Verifying, Untroubled
<1>5. Verified /\ sure => Configured(flash)
    BY <1>2, <1>4 DEF Verified, Configured, High
<1>6. ~trouble => Verified
    BY <1>2, <1>4 DEF Verified
<1> QED
    BY <1>1, <1>5, <1>6, ConfiguringEnds

LEMMA ConfiguringStart ==
    Start(program) /\ ~armed /\ outcome = "none" /\ clean = [core \in Cores |-> TRUE] => Configuring
<1> SUFFICES ASSUME Start(program), ~armed, outcome = "none", clean = [core \in Cores |-> TRUE]
             PROVE  Configuring
    OBVIOUS
<1>1. program["core0"] = Boot /\ clean["core0"]
    BY DEF Start, Cores
<1>2. /\ Boot # <<>> /\ Head(Boot) = Do("build", "clear_shutdown")
      /\ ~Commits(Boot) /\ ~Has(Boot, "verify")
    BY BootShape, PieceBegins
<1>3. Head(Boot).op = "build"
    BY <1>2 DEF Do
<1> QED
    BY <1>1, <1>2, <1>3 DEF Configuring, Fetched, Writing, Verifying, Untroubled, Selected, DataRead,
       Turn, ConfiguredWhenSaid, EndsWell

LEMMA ConfiguringStartNext ==
    (Start(program) /\ ~armed /\ outcome = "none" /\ clean = [core \in Cores |-> TRUE]
        => Configuring)'
BY ConfiguringStart, PTL

LEMMA ConfiguringStep ==
    ASSUME Values, Programs, Ready, Configuring, [Next]_vars
    PROVE  Configuring'
<1>1. CASE armed'
    BY <1>1, ProgramsStep, ConfiguringArmedNext
<1>2. CASE Restart
    BY <1>2, ConfiguringStartNext DEF Restart
<1>3. CASE ~armed' /\ ~Restart
    <2>1. ~armed
        BY <1>3 DEF Next, Core0, Core1, Transfer, Write, WriteFails, Read, ReadFails, Refuse, Prepare,
            Use, Decide, Verify, Arm, GetState, Interrupt, CheckImax, SetImax, vars
    <2>2. /\ \A op : ~Runs("core1", op)
          /\ program["core0"] # <<>>
        BY <2>1, OnlyCore0
    <2>3. CASE Write("core0")
        <3>1. CASE Runs("core0", "put")
            BY <2>1, <2>3, <3>1, CleanAfter, ConfiguringPut DEF Write, config, Cores
        <3>2. CASE ~Runs("core0", "put")
            <4>1. Head(program["core0"]).op \in {"point", "send"}
                  /\ UNCHANGED <<flash, ram, config, armed, trouble>> /\ Done("core0")
                  /\ clean'["core0"] = clean["core0"]
                BY <2>3, <3>2, CleanAfter DEF Write, Arrive, Runs, Cores
            <4> QED
                BY <2>1, <4>1, ConfiguringOther
        <3> QED
            BY <3>1, <3>2
    <2>4. CASE WriteFails("core0")
        <3>1. /\ program' = program /\ UNCHANGED <<config, armed>> /\ trouble' = TRUE
              /\ Arrive("core0") \/ Break("core0")
            BY <2>1, <2>4 DEF WriteFails
        <3>2. CASE Runs("core0", "put")
            BY <2>1, <3>1, <3>2, ConfiguringPutFails
        <3>3. CASE ~Runs("core0", "put")
            <4>1. UNCHANGED <<flash, ram>>
                BY <3>1, <3>3 DEF Arrive, Break, gauge
            <4> QED
                BY <2>1, <3>1, <4>1, ConfiguringStall
        <3> QED
            BY <3>2, <3>3
    <2>5. CASE Read("core0")
        BY <2>1, <2>5, ConfiguringRead
    <2>6. CASE ReadFails("core0")
        BY <2>1, <2>6, ConfiguringStall DEF ReadFails
    <2>7. CASE Refuse
        BY <2>1, <2>7, ConfiguringPut DEF Refuse
    <2>8. CASE Prepare("core0")
        <3>1. Head(program["core0"]).op \in {"build", "clear"} /\ Done("core0")
              /\ UNCHANGED <<flash, ram, config, armed, trouble>> /\ clean'["core0"] = TRUE
            BY <2>8, CleanAfter DEF Prepare, Runs, gauge, Cores
        <3> QED
            BY <2>1, <3>1, ConfiguringOther
    <2>9. CASE Use
        BY <2>1, <2>9, ConfiguringOther DEF Use, Runs, gauge
    <2>10. CASE Decide
        BY <2>1, <2>10, ConfiguringDecide
    <2>11. CASE Verify
        BY <2>1, <2>11, ConfiguringVerify
    <2>12. CASE SetImax \/ UNCHANGED vars
        BY <2>1, <2>12, ConfiguringStall DEF SetImax, vars, gauge, config
    <2>13. ~Core1
        BY <2>2 DEF Core1, Transfer, Write, WriteFails, Read, ReadFails, Prepare, CheckImax, Arrive
    <2>14. ~Arm /\ ~GetState /\ ~Interrupt
        BY <1>3, <2>1, <2>2 DEF Arm, GetState, Interrupt
    <2> QED
        BY <1>3, <2>3, <2>4, <2>5, <2>6, <2>7, <2>8, <2>9, <2>10, <2>11, <2>12, <2>13, <2>14
           DEF Next, Core0, Transfer
<1> QED
    BY <1>1, <1>2, <1>3

(* The block goes to the flash only where core 0 commits it.               *)
LEMMA FlashChanges ==
    ASSUME Values, Programs, Configuring, [Next]_vars, flash' # flash
    PROVE  /\ sure' = sure
           /\ Commits(program["core0"]) /\ flash' = target /\ ram = target
<1>1. \A op \in {"put"} : ~Runs("core1", op)
    <2>1. program["core1"] # <<>> => Head(program["core1"]).op # "put"
        <3>1. program["core1"] \in Seq(Neutral)
            BY DEF Programs, Asks
        <3>2. program["core1"] # <<>> => Head(program["core1"]) \in Neutral
            BY <3>1, HeadTailProperties
        <3> QED
            BY <3>2 DEF Neutral
    <2> QED
        BY <2>1 DEF Runs
<1>2. PICK core \in Cores : (Write(core) \/ WriteFails(core)) /\ Arrive(core)
    BY DEF Next, Core0, Core1, Transfer, Write, WriteFails, Break, Read, ReadFails, Refuse, Prepare,
           Use, Decide, Verify, Arm, GetState, Interrupt, CheckImax, SetImax, Restart, vars, gauge, Cores
<1>3. /\ Runs(core, "put") /\ Arg(core) = "checksum" /\ ram = target /\ flash' = ram
    BY <1>2 DEF Arrive
<1>4. core = "core0"
    BY <1>1, <1>3 DEF Cores
<1>5. Commits(program["core0"])
    BY <1>3, <1>4, HasTail DEF Programs, Runs, Arg, Cores
<1> QED
    BY <1>2, <1>3, <1>5 DEF Write, WriteFails, config

LEMMA AlwaysConfiguring ==
    Spec => [](Values /\ Programs /\ Configuring)
<1>1. Init => Ready /\ Configuring
    BY ReadyInitially, ConfiguringStart DEF Init
<1>2. Values /\ Programs /\ Ready /\ Configuring /\ [Next]_vars => (Ready /\ Configuring)'
    BY ReadyStep, ConfiguringStep
<1> QED
    BY <1>1, <1>2, AlwaysTyped, PTL DEF Spec

(* If the firmware had the order of PackConfiguration's bytes right, the   *)
(* log never says that the host interrupts are or were configured when the *)
(* flash says otherwise, whatever failed or was repeated on the way and    *)
(* whatever the flash held before.  Nothing is said of a gauge that has    *)
(* the low byte first and was taken for the other, because its word was    *)
(* misread or its bytes are alike.                                         *)
THEOREM ConfiguredWhenSaidAlways ==
    Spec => []ConfiguredWhenSaid
<1>1. Configuring => ConfiguredWhenSaid
    BY DEF Configuring
<1> QED
    BY <1>1, AlwaysConfiguring, PTL

(* An instruction other than the decision and the verification *)
LEMMA TellingDone ==
    ASSUME Programs, Telling, ~armed, ~trouble, ~trouble', Done("core0"), program["core0"] # <<>>,
           Head(program["core0"]).op \notin {"decide", "verify"},
           target' = target, sure' = sure, outcome' = outcome,
           flash' = flash \/ (Head(program["core0"]).op = "put" /\ Arg("core0") = "checksum"),
           GetsPack(Head(program["core0"])) => locals'.pack = Pack,
           ~GetsPack(Head(program["core0"])) => locals'.pack = locals.pack
    PROVE  Telling'
<1> DEFINE p == program["core0"]
           q == program'["core0"]
<1>1. p \in Seq(Steps) /\ q = Tail(p)
    BY DEF Programs, Done, Cores
<1>2. /\ Has(p, "decide") <=> Head(p).op = "decide" \/ Has(q, "decide")
      /\ Has(p, "verify") <=> Head(p).op = "verify" \/ Has(q, "verify")
      /\ Has(p, "put") <=> Head(p).op = "put" \/ Has(q, "put")
      /\ Commits(p) <=> (Head(p).op = "put" /\ Head(p).a = "checksum") \/ Commits(q)
      /\ PackAhead(p) <=> GetsPack(Head(p)) \/ PackAhead(q)
    BY <1>1, HasTail, AheadTail
<1>3. Has(q, "decide") => ~Commits(q) /\ flash' = flash
    BY <1>2 DEF Telling, Arg
<1>4. Has(q, "decide") /\ ~PackAhead(q) => locals'.pack = Pack'
    <2>1. flash' = flash => Pack' = Pack
        BY DEF Pack, High, Low
    <2> QED
        BY <1>2, <1>3, <2>1 DEF Telling
<1>5. Has(q, "verify") => sure' \/ TakenForHighFirst(target')
    BY <1>2 DEF Telling
<1>6. outcome' # "none" => sure' \/ TakenForHighFirst(flash')
    <2>1. outcome # "none" => ~Has(p, "put")
        BY QuietMeans DEF Programs
    <2>2. outcome # "none" => flash' = flash
        BY <1>2, <2>1
    <2> QED
        BY <2>2 DEF Telling
<1> QED
    BY <1>3, <1>4, <1>5, <1>6 DEF Telling, TakenForHighFirst

(* Nothing of the firmware *)
LEMMA TellingStall ==
    ASSUME Telling, UNCHANGED <<flash, program, config, armed, trouble>>
    PROVE  Telling'
BY DEF Telling, config, Pack, High, Low, TakenForHighFirst

(* What decides leaves nothing to verify. *)
LEMMA TellingEnds ==
    ASSUME Programs, ~armed, Done("core0"), program["core0"] # <<>>,
           Head(program["core0"]).op \in {"decide", "verify"},
           sure' \/ TakenForHighFirst(flash')
    PROVE  Telling'
<1>1. Quiet(program'["core0"])
    BY Core0Done
<1>2. ~Has(program'["core0"], "decide") /\ ~Has(program'["core0"], "verify")
    BY <1>1, QuietMeans
<1> QED
    BY <1>2 DEF Telling, TakenForHighFirst

(* The order of the bytes is told of what was read, unless they are alike. *)
LEMMA OrderTold ==
    ASSUME Values, locals.pack = Pack, locals.data.block = flash
    PROVE  LowFirst = ~flash.high_first \/ TakenForHighFirst(NewBlock)
<1>1. flash \in Block
    BY DEF Values
<1>2. \A first, second : Matches(first, second) <=> High(flash) = first /\ Low(flash) = second
    <2>1. /\ locals.pack.of = "pack"
          /\ locals.pack.block = [NoBlock EXCEPT !.b0 = High(flash), !.b1 = Low(flash)]
        BY DEF Pack
    <2>2. [NoBlock EXCEPT !.b0 = High(flash), !.b1 = Low(flash)].b0 = High(flash)
          /\ [NoBlock EXCEPT !.b0 = High(flash), !.b1 = Low(flash)].b1 = Low(flash)
        BY DEF NoBlock
    <2>3. locals.pack.block.b0 = High(flash) /\ locals.pack.block.b1 = Low(flash)
        BY <2>1, <2>2
    <2> QED
        BY <2>1, <2>3 DEF Matches
<1>3. LowFirst <=> /\ High(flash) = flash.b1 /\ Low(flash) = flash.b0
                   /\ ~(High(flash) = flash.b0 /\ Low(flash) = flash.b1)
    BY <1>2 DEF LowFirst
<1>4. flash.high_first \in BOOLEAN /\ LowFirst \in BOOLEAN
    BY <1>1, <1>3 DEF Block, LowFirst
<1>5. CASE flash.high_first
    <2>1. ~LowFirst
        BY <1>3, <1>5 DEF High, Low
    <2> QED
        BY <1>4, <1>5, <2>1
<1>6. CASE ~flash.high_first /\ flash.b0 # flash.b1
    <2>1. LowFirst
        BY <1>3, <1>6 DEF High, Low
    <2> QED
        BY <1>4, <1>6, <2>1
<1>7. CASE ~flash.high_first /\ flash.b0 = flash.b1
    <2>1. ~LowFirst
        BY <1>3, <1>7 DEF High, Low
    <2>2. NewBlock = [flash EXCEPT !.b0 = WithHost(flash.b0), !.b1 = flash.b1,
                                   !.c = flash.c \ {BTP_EN}]
        BY <2>1 DEF NewBlock
    <2>3. /\ NewBlock.b0 = WithHost(flash.b0) /\ NewBlock.b1 = flash.b1
          /\ NewBlock.high_first = flash.high_first
        BY <1>1, <2>2 DEF Block
    <2> QED
        BY <1>7, <2>3 DEF TakenForHighFirst
<1> QED
    BY <1>4, <1>5, <1>6, <1>7

LEMMA TellingDecide ==
    ASSUME Values, Programs, Configuring, Telling, ~armed, ~trouble, Decide
    PROVE  Telling'
<1> DEFINE p == program["core0"]
<1>1. /\ Runs("core0", "decide") /\ Turn("core0", "decide")
      /\ p # <<>> /\ Head(p).op = "decide" /\ p \in Seq(Steps) /\ Ordered(p)
      /\ UNCHANGED <<flash, armed, trouble>>
      /\ sure' = (LowFirst = ~flash.high_first)
    BY DEF Decide, Runs, Turn, gauge, Programs, Cores
<1>2. locals.pack = Pack
    <2>1. Has(p, "decide")
        BY <1>1, HasTail
    <2>2. ~PackAhead(p)
        BY <1>1, HeadOrders, AheadTail DEF GetsPack
    <2> QED
        BY <2>1, <2>2 DEF Telling
<1>3. ReadWhole /\ locals.data.block = flash
    <2>1. DataRead
        BY <1>1 DEF DataRead
    <2>2. locals.data.of = "data" /\ locals.sum = [of |-> "checksum", block |-> flash]
        BY <1>1, <2>1 DEF Configuring, Untroubled
    <2>3. locals.data.block = flash
        BY <2>1, <2>2 DEF Configuring, Fetched
    <2> QED
        BY <2>2, <2>3 DEF ReadWhole
<1>4. sure' \/ TakenForHighFirst(NewBlock)
    BY <1>1, <1>2, <1>3, OrderTold
<1>5. CASE NewBlock = locals.data.block /\ Outcome("already")
    <2>1. sure' \/ TakenForHighFirst(flash')
        BY <1>1, <1>3, <1>4, <1>5
    <2>2. Done("core0")
        BY <1>5 DEF Outcome
    <2> QED
        BY <1>1, <2>1, <2>2, TellingEnds
<1>6. CASE target' = NewBlock /\ UNCHANGED outcome
           /\ program' = [program EXCEPT !["core0"] = AfterDecision]
    <2>1. /\ program'["core0"] = AfterDecision /\ ~Has(program'["core0"], "decide")
          /\ outcome = "none"
        BY <1>1, <1>6, DecisionShape DEF Programs, Cores
    <2>2. sure' \/ TakenForHighFirst(target')
        BY <1>4, <1>6
    <2> QED
        BY <1>6, <2>1, <2>2 DEF Telling, TakenForHighFirst
<1> QED
    BY <1>3, <1>5, <1>6 DEF Decide, AfterDecision

LEMMA TellingVerify ==
    ASSUME Programs, Configuring, Telling, ~armed, ~trouble, Verify
    PROVE  Telling'
<1> DEFINE p == program["core0"]
           q == program'["core0"]
<1>1. /\ p # <<>> /\ Head(p).op = "verify" /\ Done("core0")
      /\ flash' = flash /\ sure' = sure
    BY DEF Verify, Runs, gauge, Outcome
<1>2. Has(p, "verify") /\ ~Commits(p)
    <2>1. /\ Commits(p) <=> (Head(p).op = "put" /\ Head(p).a = "checksum") \/ Commits(q)
          /\ Has(p, "verify") <=> Head(p).op = "verify" \/ Has(q, "verify")
          /\ Quiet(q)
        BY <1>1, Core0Done
    <2> QED
        BY <1>1, <2>1, QuietMeans
<1>3. flash = target /\ (sure \/ TakenForHighFirst(target))
    BY <1>2 DEF Configuring, Untroubled, Telling
<1>4. sure' \/ TakenForHighFirst(flash')
    BY <1>1, <1>3
<1> QED
    BY <1>1, <1>4, TellingEnds

LEMMA TellingStart ==
    Start(program) /\ ~armed /\ outcome = "none" => Telling
<1> SUFFICES ASSUME Start(program), ~armed, outcome = "none"
             PROVE  Telling
    OBVIOUS
<1>1. program["core0"] = Boot
    BY DEF Start, Cores
<1> QED
    BY <1>1, BootShape DEF Telling

LEMMA TellingStartNext ==
    (Start(program) /\ ~armed /\ outcome = "none" => Telling)'
BY TellingStart, PTL

LEMMA TellingStep ==
    ASSUME Values, Programs, Ready, Configuring, Telling, [Next]_vars
    PROVE  Telling'
<1>1. CASE armed' \/ trouble'
    BY <1>1 DEF Telling
<1>2. CASE Restart
    BY <1>2, TellingStartNext DEF Restart
<1>3. CASE ~armed' /\ ~trouble' /\ ~Restart
    <2> DEFINE p == program["core0"]
    <2>1. ~armed
        BY <1>3 DEF Next, Core0, Core1, Transfer, Write, WriteFails, Read, ReadFails, Refuse, Prepare,
            Use, Decide, Verify, Arm, GetState, Interrupt, CheckImax, SetImax, vars
    <2>2. /\ \A op : ~Runs("core1", op)
          /\ p # <<>>
        BY <2>1, OnlyCore0
    <2>3. ~trouble
        BY <1>3 DEF Next, Core0, Core1, Transfer, Write, WriteFails, Read, ReadFails, Refuse, Prepare,
            Use, Decide, Verify, Arm, GetState, Interrupt, CheckImax, SetImax, vars
    <2>4. CASE Write("core0")
        <3>1. /\ Done("core0") /\ Head(p).op \in {"point", "send", "put"}
              /\ UNCHANGED config
            BY <2>4 DEF Write, Arrive, Runs
        <3>2. flash' = flash \/ (Head(p).op = "put" /\ Arg("core0") = "checksum")
            BY <2>4 DEF Write, Arrive, Runs
        <3>3. ~GetsPack(Head(p))
            BY <3>1 DEF GetsPack
        <3>4. locals' = locals /\ target' = target /\ sure' = sure /\ outcome' = outcome
            BY <3>1 DEF config
        <3> QED
            BY <1>3, <2>1, <2>2, <2>3, <3>1, <3>2, <3>3, <3>4, TellingDone
    <2>5. CASE Read("core0")
        <3>1. /\ Done("core0") /\ Head(p).op = "get"
              /\ UNCHANGED <<flash, target, outcome, sure>>
            BY <2>5 DEF Read, Runs
        <3>2. Head(p) \in Steps
            BY <2>2, Core0Done, <3>1
        <3>3. locals \in [{"pack", "data", "sum"} ->
                            [of : Registers \cup {"beyond", "none"}, block : Block]]
            BY LocalsTyped DEF Values
        <3>4. locals' = IF Head(p).into \in {"pack", "data", "sum"}
                        THEN [locals EXCEPT ![Head(p).into] = [of |-> ptr, block |-> Content(ptr)]]
                        ELSE locals
            BY <2>5, <3>3 DEF Read
        <3>5. CASE GetsPack(Head(p))
            <4>1. Head(p).into = "pack"
                BY <3>2, <3>5 DEF Steps, GetsPack
            <4>2. clean["core0"] => ptr = Head(p).a
                BY <2>2, <3>1 DEF Ready, ReadyAt, Turn, Arg, Cores
            <4>3. clean["core0"]
                BY <2>1, <2>3 DEF Configuring, Untroubled
            <4>4. ptr = "pack"
                BY <3>5, <4>2, <4>3 DEF GetsPack
            <4>5. locals'.pack = [of |-> ptr, block |-> Content(ptr)]
                BY <3>3, <3>4, <4>1
            <4>6. locals'.pack = Pack
                BY <4>4, <4>5 DEF Pack, Content
            <4> QED
                BY <1>3, <2>1, <2>2, <2>3, <3>1, <3>5, <4>6, TellingDone
        <3>6. CASE ~GetsPack(Head(p))
            <4>1. Head(p).into # "pack"
                BY <3>1, <3>2, <3>6 DEF Steps
            <4>2. locals'.pack = locals.pack
                BY <3>3, <3>4, <4>1
            <4> QED
                BY <1>3, <2>1, <2>2, <2>3, <3>1, <3>6, <4>2, TellingDone
        <3> QED
            BY <3>5, <3>6
    <2>6. CASE Prepare("core0") \/ Use
        <3>1. /\ Done("core0") /\ Head(p).op \in {"build", "clear", "use"}
              /\ UNCHANGED <<flash, config>>
            BY <2>6 DEF Prepare, Use, Runs, gauge
        <3>2. ~GetsPack(Head(p))
            BY <3>1 DEF GetsPack
        <3>3. locals' = locals /\ target' = target /\ sure' = sure /\ outcome' = outcome
            BY <3>1 DEF config
        <3> QED
            BY <1>3, <2>1, <2>2, <2>3, <3>1, <3>2, <3>3, TellingDone
    <2>7. CASE Decide
        BY <2>1, <2>3, <2>7, TellingDecide
    <2>8. CASE Verify
        BY <2>1, <2>3, <2>8, TellingVerify
    <2>9. CASE SetImax \/ UNCHANGED vars
        BY <2>9, TellingStall DEF SetImax, vars, gauge, config
    <2>10. ~Core1
        BY <2>2 DEF Core1, Transfer, Write, WriteFails, Read, ReadFails, Prepare, CheckImax, Arrive
    <2>11. ~Arm /\ ~GetState /\ ~Interrupt /\ ~Refuse /\ ~WriteFails("core0") /\ ~ReadFails("core0")
        BY <1>3, <2>1, <2>2 DEF Arm, GetState, Interrupt, Refuse, WriteFails, ReadFails
    <2> QED
        BY <1>3, <2>4, <2>5, <2>6, <2>7, <2>8, <2>9, <2>10, <2>11 DEF Next, Core0, Transfer
<1> QED
    BY <1>1, <1>2, <1>3

(* A start on which no transfer fails says that the gauge is configured,   *)
(* and its flash is, but for a gauge that has the low byte first and the   *)
(* two bytes alike, of which the low byte is configured instead.           *)
THEOREM GoodBootConfiguresAlways ==
    Spec => []GoodBootConfigures
<1>1. Init => Ready /\ Telling
    BY ReadyInitially, TellingStart DEF Init
<1>2. Values /\ Programs /\ Ready /\ Configuring /\ Telling /\ [Next]_vars => (Ready /\ Telling)'
    BY ReadyStep, TellingStep
<1>3. Programs /\ Configuring /\ Telling => GoodBootConfigures
    <2> SUFFICES ASSUME Programs, Configuring, Telling, outcome # "none", ~trouble
                 PROVE  /\ outcome \in {"already", "configured"}
                        /\ Configured(flash) \/ TakenForHighFirst(flash)
        BY DEF GoodBootConfigures
    <2>1. ~armed
        BY DEF Programs
    <2> QED
        BY <2>1 DEF Configuring, EndsWell, ConfiguredWhenSaid, Telling
<1> QED
    BY <1>1, <1>2, <1>3, AlwaysConfiguring, PTL DEF Spec

(* No step of either core changes the flash but to the configuration, and  *)
(* then in one write and with every other bit kept, if the firmware had    *)
(* the order of PackConfiguration's bytes right: where they are alike or   *)
(* were misread on a gauge that has the low byte first, the low byte is    *)
(* changed.                                                                *)
THEOREM OtherBitsKeptAlways ==
    Spec => OtherBitsKept
<1> DEFINE Kept ==
        flash' # flash /\ sure =>
            /\ Configured(flash')
            /\ WithHost(High(flash)) = High(flash')
            /\ Low(flash) = Low(flash')
            /\ flash.c \ {BTP_EN} = flash'.c
            /\ flash.rest = flash'.rest
<1>1. ASSUME Values, Programs, Configuring, [Next]_vars
      PROVE  Kept
    <2> SUFFICES ASSUME flash' # flash, sure
                 PROVE  Kept
        OBVIOUS
    <2>1. Commits(program["core0"]) /\ flash' = target
        BY <1>1, FlashChanges
    <2>2. /\ target = NewBlock /\ flash = locals.data.block
          /\ LowFirst = ~flash.high_first
        BY <1>1, <2>1 DEF Configuring, Writing
    <2>3. flash' = NewBlock
        BY <2>1, <2>2
    <2> QED
        BY <1>1, <2>2, <2>3, NewBlockConfigured
<1>2. Values /\ Programs /\ Configuring /\ [Next]_vars => [Kept]_vars
    BY <1>1
<1> QED
    BY <1>2, AlwaysConfiguring, PTL DEF Spec, OtherBitsKept
=============================================================================
