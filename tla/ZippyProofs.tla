----------------------------- MODULE ZippyProofs ------------------------------
(***************************************************************************)
(* Proofs about ZippyTb, for every set of addresses and values, every kind *)
(* of instruction and every number of polls: only the write of an edited   *)
(* counter can be given up, the halted view shows one state of the         *)
(* processor, an edit is seen, and a step is one instruction.              *)
(***************************************************************************)
EXTENDS ZippyTb, SequenceTheorems, TLAPS

(* An access that is not stalled takes four clocks.                        *)
EnoughPatience == Patience >= 5

-----------------------------------------------------------------------------
(* What the program has still to do.                                       *)
Ops ==
  [do : {"write", "read", "poll", "tick", "show", "reset", "go", "crash"},
   reg : {0, 1}, data : Word, into : Addrs \cup {Nowhere},
   fail : {"no", "exit", "abort"}]

Halts(op) ==
  op.do = "write" /\ op.reg = 0 /\ op.data.halt /\ ~op.data.step /\ ~op.data.reset
Reads(op, a) == op.do = "read" /\ op.into = a
Sets(op) == op.do = "write" /\ op.reg = 1
Peripheral(op) == op.do = "read" /\ op.into \in 32..51

(* An operation that leaves a halted processor as it is.                   *)
Peeks(op) == Halts(op) \/ op.do = "poll" \/ op.do = "read"

(* What stands before an operation that needs the processor to stand       *)
(* still, and what may follow one that has shown it to.                    *)
Local(s, i) ==
  /\ s[i].do = "poll" => s[i].reg = 0 /\ s[i].fail # "no" /\ (i > 1 => Halts(s[i - 1]))
  /\ s[i].do = "read" /\ s[i].into # Nowhere =>
       s[i].reg = 1 /\ (i > 1 => s[i - 1].do = "poll") /\ (i > 2 => s[i - 2].data.addr = s[i].into)
  /\ s[i].do = "read" /\ s[i].into = Nowhere => s[i].reg = 0 /\ (i > 1 => s[i - 1].do = "read")
  /\ Sets(s[i]) => (i > 1 => s[i - 1].do = "poll")
  /\ Peripheral(s[i]) => (i > 3 => s[i - 3].do = "read")

Grammar(s) ==
  /\ s \in Seq(Ops)
  /\ \A i \in 1..Len(s) : Local(s, i)
  /\ \A i, j \in 1..Len(s) : i < j /\ s[i].do = "read" => Peeks(s[j])

(* The k-th operation is one on a peripheral.                              *)
Ahead(k) == Len(todo) >= k /\ Peripheral(todo[k])

-----------------------------------------------------------------------------
(* The port and the processor.                                             *)
PortTypes ==
  port \in [cyc : BOOLEAN, stb : BOOLEAN, we : BOOLEAN, reg : {0, 1}, data : Word,
            ack : BOOLEAN, out : [free : BOOLEAN, val : Values], dbg_ack : BOOLEAN,
            cmd_reset : BOOLEAN, cmd_halt : BOOLEAN, cmd_step : BOOLEAN, cmd_addr : Addrs]

CpuTypes ==
  cpu \in [regs : [Addrs -> Values], pipe : {"none", "busy", "load", "local", "done"},
           into : CpuRegs \cup {Nowhere}, next : {"empty", "ready", "break", "asleep"},
           dbgv : [reg : CpuRegs \cup {Nowhere}, val : Values], stall : BOOLEAN,
           dbg_reg : Values, live : BOOLEAN, issued : 0..2]

Types ==
  /\ PortTypes /\ CpuTypes
  /\ Grammar(todo)
  /\ phase \in {"ask", "stall", "ack"} /\ errcount \in Nat
  /\ mode \in {"load", "autorun", "autostep", "interactive"}
  /\ m_state \in [Addrs -> Values \cup {Unread}]
  /\ manual \in BOOLEAN /\ halted \in BOOLEAN /\ stepping \in BOOLEAN
  /\ m_show_user_timers \in BOOLEAN /\ bomb \in BOOLEAN
  /\ edit = NoEdit \/ (edit.cursor \in Cursors /\ edit.val \in Values)
  /\ mode = "load" => todo = << >> /\ port = PortInit /\ m_state = NoState
  /\ mode # "interactive" => edit = NoEdit /\ ~stepping

Halting == port.cmd_halt /\ ~port.cmd_step /\ ~port.cmd_reset
Idle == cpu.pipe = "none" /\ cpu.dbgv.reg = Nowhere
Drained == Idle /\ ~cpu.live
Steady == Halting /\ Drained
Settled == Steady /\ cpu.next # "empty" /\ ~cpu.stall

(* The write of a counter.  It alone may be kept waiting: every other      *)
(* access takes four clocks.                                               *)
Counting == Working /\ Sets(todo[1]) /\ port.cmd_addr >= 32

Asking == phase = "ask"
Taken == phase = "stall"
Served == phase = "ack" /\ ~port.ack
Answered == phase = "ack" /\ port.ack

Bus ==
  /\ Asking => ~port.cyc /\ ~port.ack /\ errcount = 0
  /\ ~Asking => OnBus /\ port.cyc /\ port.reg = todo[1].reg /\ port.we = (Doing = "write")
  /\ Taken => /\ port.stb /\ ~port.ack /\ ~port.dbg_ack
              /\ Doing = "write" => port.data = todo[1].data
              /\ ~Counting => errcount = 0
  /\ Served => ~port.stb /\ port.dbg_ack /\ (~Counting => errcount = 2)
  /\ Answered => ~port.stb /\ (~Counting => errcount = 3)
  /\ cpu.dbgv.reg # Nowhere => Served /\ Sets(todo[1]) /\ port.cmd_addr < 32

(* What an operation needs of the processor when its turn comes, and how   *)
(* far it has come with it.                                                *)
Commanding ==
  Halts(todo[1]) =>
    /\ Ahead(3) => Steady
    /\ Served \/ Answered => Halting /\ port.cmd_addr = todo[1].data.addr
    /\ Answered => cpu.pipe # "busy"

Polling ==
  Doing = "poll" =>
    /\ Halting /\ cpu.pipe # "busy"
    /\ Len(todo) > 1 /\ todo[2].do = "read" /\ todo[2].into # Nowhere =>
         port.cmd_addr = todo[2].into
    /\ Served /\ ~cpu.stall => cpu.pipe = "none"
    /\ Answered /\ port.out.free => Drained
    /\ Ahead(2) =>
         /\ Steady
         /\ Served /\ ~cpu.stall => cpu.next # "empty"
         /\ Answered /\ port.out.free => Settled

Reading ==
  Doing = "read" =>
    /\ Steady
    /\ todo[1].into # Nowhere =>
         /\ port.cmd_addr = todo[1].into
         /\ Ahead(1) => Settled
         /\ Served /\ port.cmd_addr < 32 => cpu.dbg_reg = cpu.regs[port.cmd_addr]
         /\ Answered => port.out.val = cpu.regs[port.cmd_addr]

Setting ==
  Sets(todo[1]) =>
    /\ Halting /\ cpu.pipe = "none" /\ ~cpu.live
    /\ IF Counting
       THEN Served \/ Answered => cpu.regs[port.cmd_addr] = todo[1].data.val
       ELSE /\ Served => cpu.dbgv = [reg |-> port.cmd_addr, val |-> todo[1].data.val]
            /\ Answered /\ ~IsCC(port.cmd_addr) =>
                 cpu.regs[port.cmd_addr] = todo[1].data.val

Level == Working => Commanding /\ Polling /\ Reading /\ Setting

(* Step and reset are pulses, which are over when the program listens.     *)
Pulses ==
  Running /\ mode = "interactive" /\ (port.cmd_step \/ (port.cmd_reset /\ port.cmd_halt)) =>
    Working /\ (Doing = "tick" \/ (Doing = "write" /\ Served))

BusInv == Types /\ Bus /\ Level /\ Pulses

-----------------------------------------------------------------------------
(* A value is written where the edit says, and nothing else is given up.   *)
Aimed ==
  \A i \in 1 .. Len(todo) : Sets(todo[i]) =>
    /\ edit # NoEdit
    /\ i > 2 => todo[i - 2].data.addr = EditedAt(edit.cursor)
    /\ i <= 2 => port.cmd_addr = EditedAt(edit.cursor)

WriteInv == Aimed /\ (bomb => edit # NoEdit /\ EditedAt(edit.cursor) >= 32)

(* The view: from inside or through the port, and what has been read is    *)
(* still there.                                                            *)
OneView ==
  \A i \in 1 .. Len(todo) :
    /\ todo[i].do = "show" => Inside(manual, halted)
    /\ todo[i].do = "read" => ~Inside(manual, halted)

Viewing == Running /\ mode = "interactive" /\ ~manual /\ halted /\ m_state # NoState

Seen ==
  Viewing =>
    /\ Steady
    /\ \A i \in 1 .. Len(todo) : Peeks(todo[i])
    /\ \A a \in Addrs : m_state[a] \in {Unread, cpu.regs[a]}

ViewInv == OneView /\ Seen

(* The edit: before, while and after it is written.                        *)
Shown == ShownAt(edit.cursor, m_show_user_timers)
Wanted == IF Elsewhere(edit.cursor) THEN edit.other ELSE edit.val
Coming(op) == op.do = "show" \/ Reads(op, Shown)

Pending(i) ==
  /\ Sets(todo[i]) /\ todo[i].data.val = edit.val
  /\ \A j \in i + 1 .. Len(todo) : Peeks(todo[j]) \/ todo[j].do = "show"
  /\ \E j \in i + 1 .. Len(todo) : Coming(todo[j])

Arrived ==
  /\ Steady /\ cpu.regs[EditedAt(edit.cursor)] = edit.val
  /\ \A j \in 1 .. Len(todo) : Peeks(todo[j]) \/ todo[j].do = "show"
  /\ m_state[Shown] = Wanted \/ \E j \in 1 .. Len(todo) : Coming(todo[j])

Crashing == \E i \in 1 .. Len(todo) : todo[i].do = "crash"

(* What is done for an edit.                                               *)
Mild(op) == Peeks(op) \/ Sets(op) \/ op.do \in {"show", "crash"}

(* The same counter of the other set keeps what it had.                    *)
OtherKept ==
  EditedAt(edit.cursor) >= 32 => Held(OtherSet(EditedAt(edit.cursor))) = edit.other

EditInv ==
  Running /\ edit # NoEdit =>
    /\ Halting /\ OtherKept
    /\ \A j \in 1 .. Len(todo) : Mild(todo[j])
    /\ ~bomb /\ ~IsCC(EditedAt(edit.cursor)) =>
         Crashing \/ (\E i \in 1 .. Len(todo) : Pending(i)) \/ Arrived

(* The step: before and after the one clock without a halt.                *)
AboutToStep ==
  /\ Working /\ todo[1].do = "write" /\ todo[1].reg = 0 /\ todo[1].data = CMD_STEP
  /\ \A i \in 2 .. Len(todo) : Peeks(todo[i])
  /\ port.cmd_halt /\ ~port.cmd_reset /\ (port.cmd_step <=> Served)
  /\ IF Answered THEN cpu.issued = 1
     ELSE cpu.issued = 0 /\ cpu.pipe = "none" /\ cpu.next = "ready"

HasStepped ==
  /\ Halting /\ cpu.issued = 1
  /\ \A i \in 1 .. Len(todo) : Peeks(todo[i])

StepInv == stepping => cpu.issued <= 1 /\ (Running => AboutToStep \/ HasStepped)

-----------------------------------------------------------------------------
(* Sequences of operations.                                                *)
LEMMA TailOf ==
  ASSUME NEW S, NEW s \in Seq(S), s # << >>
  PROVE  /\ Tail(s) \in Seq(S) /\ Len(Tail(s)) = Len(s) - 1 /\ Len(s) \in Nat \ {0}
         /\ \A i \in 1 .. Len(s) - 1 : Tail(s)[i] = s[i + 1]
         /\ s[1] \in S
  BY SMT

LEMMA GrammarTail ==
  ASSUME NEW s, Grammar(s), s # << >>
  PROVE  Grammar(Tail(s))
<1> DEFINE r == Tail(s)
           n == Len(s)
<1>1. /\ r \in Seq(Ops) /\ Len(r) = n - 1 /\ n \in Nat \ {0}
      /\ \A i \in 1 .. n - 1 : r[i] = s[i + 1]
  BY TailOf DEF Grammar
<1>2. /\ \A i \in 1 .. n : Local(s, i)
      /\ \A i, j \in 1 .. n : i < j /\ s[i].do = "read" => Peeks(s[j])
  BY DEF Grammar
<1> HIDE DEF r, n
<1>3. ASSUME NEW i \in 1 .. n - 1 PROVE Local(r, i)
  <2>1. Local(s, i + 1)
    BY <1>1, <1>2
  <2>2. /\ r[i] = s[i + 1]
        /\ i > 1 => r[i - 1] = s[i]
        /\ i > 2 => r[i - 2] = s[i - 1]
        /\ i > 3 => r[i - 3] = s[i - 2]
    BY <1>1
  <2>3. i + 1 - 1 = i /\ i + 1 - 2 = i - 1 /\ i + 1 - 3 = i - 2
    BY <1>1
  <2> QED
    BY <1>1, <2>1, <2>2, <2>3 DEF Local
<1>4. ASSUME NEW i \in 1 .. n - 1, NEW j \in 1 .. n - 1, i < j, r[i].do = "read"
      PROVE  Peeks(r[j])
  <2>1. i + 1 \in 1 .. n /\ j + 1 \in 1 .. n /\ i + 1 < j + 1
    BY <1>1, <1>4
  <2> QED
    BY <1>1, <1>2, <1>4, <2>1
<1>5. Grammar(r)
  BY <1>1, <1>3, <1>4 DEF Grammar
<1> QED
  BY <1>5 DEF r

LEMMA Together ==
  ASSUME NEW S, NEW s \in Seq(S), NEW r \in Seq(S)
  PROVE  /\ s \o r \in Seq(S) /\ Len(s \o r) = Len(s) + Len(r)
         /\ \A i \in 1 .. Len(s) : (s \o r)[i] = s[i]
         /\ \A i \in 1 .. Len(r) : (s \o r)[Len(s) + i] = r[i]
  BY SMT

(* What is appended begins a reading of its own, or reads nothing.         *)
Opens(s) ==
  /\ Len(s) >= 1 => s[1].do # "poll" /\ s[1].do # "read" /\ ~Sets(s[1])
  /\ Len(s) >= 2 => s[2].do # "read" /\ ~Sets(s[2])
  /\ Len(s) >= 3 => ~Peripheral(s[3])

LEMMA GrammarTogether ==
  ASSUME NEW s, NEW r, Grammar(s), Grammar(r), Opens(r),
         (\A i \in 1 .. Len(s) : s[i].do # "read") \/ (\A i \in 1 .. Len(r) : Peeks(r[i]))
  PROVE  Grammar(s \o r)
<1> DEFINE t == s \o r
           n == Len(s)
           m == Len(r)
<1>1. /\ n \in Nat /\ m \in Nat
      /\ t \in Seq(Ops) /\ Len(t) = n + m
      /\ \A i \in 1 .. n : t[i] = s[i]
      /\ \A i \in 1 .. m : t[n + i] = r[i]
  BY Together DEF Grammar
<1>2. /\ \A i \in 1 .. n : Local(s, i)
      /\ \A i \in 1 .. m : Local(r, i)
      /\ \A i, j \in 1 .. n : i < j /\ s[i].do = "read" => Peeks(s[j])
      /\ \A i, j \in 1 .. m : i < j /\ r[i].do = "read" => Peeks(r[j])
      /\ (\A i \in 1 .. n : s[i].do # "read") \/ (\A i \in 1 .. m : Peeks(r[i]))
  BY DEF Grammar
<1>3. /\ m >= 1 => r[1].do # "poll" /\ r[1].do # "read" /\ ~Sets(r[1])
      /\ m >= 2 => r[2].do # "read" /\ ~Sets(r[2])
      /\ m >= 3 => ~Peripheral(r[3])
  BY DEF Opens
<1> HIDE DEF t, n, m
<1>4. ASSUME NEW i \in 1 .. n PROVE Local(t, i)
  <2>1. Local(s, i)
    BY <1>2
  <2>2. /\ t[i] = s[i]
        /\ i > 1 => t[i - 1] = s[i - 1]
        /\ i > 2 => t[i - 2] = s[i - 2]
        /\ i > 3 => t[i - 3] = s[i - 3]
    BY <1>1
  <2> QED
    BY <1>1, <2>1, <2>2 DEF Local
<1>5. ASSUME NEW k \in 1 .. m PROVE Local(t, n + k)
  <2>1. Local(r, k)
    BY <1>2
  <2>2. /\ t[n + k] = r[k]
        /\ k > 1 => t[n + k - 1] = r[k - 1]
        /\ k > 2 => t[n + k - 2] = r[k - 2]
        /\ k > 3 => t[n + k - 3] = r[k - 3]
    <3>1. /\ k > 1 => t[n + (k - 1)] = r[k - 1]
          /\ k > 2 => t[n + (k - 2)] = r[k - 2]
          /\ k > 3 => t[n + (k - 3)] = r[k - 3]
      BY <1>1
    <3>2. /\ n + (k - 1) = n + k - 1
          /\ n + (k - 2) = n + k - 2
          /\ n + (k - 3) = n + k - 3
      BY <1>1
    <3> QED
      BY <1>1, <3>1, <3>2
  <2>3. CASE k = 1
    <3>1. r[k].do # "poll" /\ r[k].do # "read" /\ ~Sets(r[k])
      BY <1>1, <1>3, <2>3
    <3> QED
      BY <2>2, <3>1 DEF Local, Peripheral
  <2>4. CASE k = 2
    <3>1. r[k].do # "read" /\ ~Sets(r[k])
      BY <1>1, <1>3, <2>4
    <3> QED
      BY <1>1, <2>1, <2>2, <2>4, <3>1 DEF Local, Peripheral
  <2>5. CASE k = 3
    <3>1. ~Peripheral(r[k])
      BY <1>1, <1>3, <2>5
    <3> QED
      BY <1>1, <2>1, <2>2, <2>5, <3>1 DEF Local
  <2>6. CASE k > 3
    BY <1>1, <2>1, <2>2, <2>6 DEF Local
  <2> QED
    BY <1>1, <2>3, <2>4, <2>5, <2>6
<1>6. ASSUME NEW i \in 1 .. n + m, i > n PROVE i - n \in 1 .. m /\ i = n + (i - n)
  BY <1>1, <1>6
<1>7. ASSUME NEW i \in 1 .. n + m PROVE Local(t, i)
  <2>1. CASE i <= n
    <3>1. i \in 1 .. n
      BY <1>1, <2>1
    <3> QED
      BY <1>4, <3>1
  <2>2. CASE i > n
    BY <1>5, <1>6, <2>2
  <2> QED
    BY <1>1, <2>1, <2>2
<1>8. ASSUME NEW i \in 1 .. n + m, NEW j \in 1 .. n + m, i < j, t[i].do = "read"
      PROVE  Peeks(t[j])
  <2>1. CASE j <= n
    BY <1>1, <1>2, <1>8, <2>1
  <2>2. CASE i <= n /\ j > n
    <3>1. i \in 1 .. n /\ j - n \in 1 .. m /\ t[j] = r[j - n] /\ t[i] = s[i]
      BY <1>1, <1>6, <2>2
    <3> QED
      BY <1>2, <1>8, <3>1
  <2>3. CASE i > n
    <3>1. i - n \in 1 .. m /\ j - n \in 1 .. m /\ i - n < j - n
      BY <1>1, <1>8, <2>3
    <3>2. t[i] = r[i - n] /\ t[j] = r[j - n]
      <4>1. j > n
        BY <1>1, <1>8, <2>3
      <4> QED
        BY <1>1, <1>6, <2>3, <4>1
    <3> QED
      BY <1>2, <1>8, <3>1, <3>2
  <2> QED
    BY <1>1, <1>8, <2>1, <2>2, <2>3
<1>9. Grammar(t)
  BY <1>1, <1>7, <1>8 DEF Grammar
<1> QED
  BY <1>9 DEF t

-----------------------------------------------------------------------------
(* The operations the program is made of.                                  *)
LEMMA WordsAre ==
  /\ \A v \in Values : Value(v) \in Word
  /\ \A rs, hl, st \in BOOLEAN, a \in Addrs : Command(rs, hl, st, a) \in Word
  /\ 0 \in Addrs /\ 0 \in Values
<1>1. \A rs, hl, st \in BOOLEAN, a \in Addrs : Command(rs, hl, st, a) \in Word
  BY ValuesAssumption DEF Command, Word
<1>2. ASSUME NEW v \in Values PROVE Value(v) \in Word
  BY AddrsAssumption DEF Value, Word
<1> QED
  BY <1>1, <1>2, AddrsAssumption, ValuesAssumption

LEMMA OpsAre ==
  ASSUME NEW do \in {"write", "read", "poll", "tick", "show", "reset", "go", "crash"},
         NEW reg \in {0, 1}, NEW data \in Word, NEW into \in Addrs \cup {Nowhere}
  PROVE  Op(do, reg, data, into) \in Ops
  BY DEF Op, Ops

LEMMA PollFields ==
  ASSUME NEW fail
  PROVE  Poll(fail) = [do |-> "poll", reg |-> 0, data |-> Value(0), into |-> Nowhere,
                       fail |-> fail]
  BY DEF Poll, Op

LEMMA CommandsAre ==
  /\ \A a \in Addrs : WbWrite(0, CMD_HALT(a)) \in Ops
  /\ \A rs, hl \in BOOLEAN : WbWrite(0, Command(rs, hl, FALSE, 0)) \in Ops
  /\ WbWrite(0, CMD_STEP) \in Ops
  /\ \A v \in Values : WbWrite(1, Value(v)) \in Ops
  /\ \A a \in Addrs : WbRead(1, a) \in Ops
  /\ WbRead(0, Nowhere) \in Ops
  /\ \A fail \in {"exit", "abort"} : Poll(fail) \in Ops
  /\ Tick \in Ops /\ Show \in Ops /\ Reset \in Ops /\ GoOn \in Ops
  /\ Op("crash", 0, Value(0), Nowhere) \in Ops
<1>1. Value(0) \in Word
  BY WordsAre
<1>2. \A fail \in {"exit", "abort"} : Poll(fail) \in Ops
  BY <1>1, PollFields DEF Ops
<1>3. \A a \in Addrs : CMD_HALT(a) \in Word
  BY WordsAre DEF CMD_HALT
<1>4. CMD_STEP \in Word
  BY WordsAre DEF CMD_STEP
<1>5. Tick \in Ops /\ Show \in Ops /\ Reset \in Ops /\ GoOn \in Ops
      /\ Op("crash", 0, Value(0), Nowhere) \in Ops
  BY <1>1, OpsAre DEF Tick, Show, Reset, GoOn
<1>6. (\A a \in Addrs : WbRead(1, a) \in Ops) /\ WbRead(0, Nowhere) \in Ops
  BY <1>1, OpsAre DEF WbRead
<1>7. /\ \A a \in Addrs : WbWrite(0, CMD_HALT(a)) \in Ops
      /\ WbWrite(0, CMD_STEP) \in Ops
  BY <1>3, <1>4, OpsAre DEF WbWrite
<1>8. /\ \A rs, hl \in BOOLEAN : WbWrite(0, Command(rs, hl, FALSE, 0)) \in Ops
      /\ \A v \in Values : WbWrite(1, Value(v)) \in Ops
  BY WordsAre, OpsAre DEF WbWrite
<1> QED
  BY <1>2, <1>5, <1>6, <1>7, <1>8

(* What the grammar looks at in each.                                      *)
LEMMA HaltKind ==
  ASSUME NEW a
  PROVE  LET op == WbWrite(0, CMD_HALT(a)) IN
         /\ op.do = "write" /\ op.reg = 0 /\ op.data.addr = a
         /\ Halts(op) /\ Peeks(op) /\ ~Sets(op) /\ ~Peripheral(op)
<1>1. WbWrite(0, CMD_HALT(a)) =
        [do |-> "write", reg |-> 0, into |-> Nowhere, fail |-> "no",
         data |-> [reset |-> FALSE, halt |-> TRUE, step |-> FALSE, addr |-> a, val |-> 0]]
  BY DEF WbWrite, Op, CMD_HALT, Command
<1> QED
  BY <1>1 DEF Halts, Peeks, Sets, Peripheral

LEMMA PollKind ==
  ASSUME NEW fail
  PROVE  LET op == Poll(fail) IN
         /\ op.do = "poll" /\ op.reg = 0 /\ op.fail = fail
         /\ Peeks(op) /\ ~Halts(op) /\ ~Sets(op) /\ ~Peripheral(op)
  BY PollFields DEF Halts, Peeks, Sets, Peripheral

LEMMA ReadKind ==
  ASSUME NEW a, NEW reg
  PROVE  LET op == WbRead(reg, a) IN
         /\ op.do = "read" /\ op.reg = reg /\ op.into = a
         /\ Peeks(op) /\ ~Halts(op) /\ ~Sets(op) /\ (Peripheral(op) <=> a \in 32 .. 51)
<1>1. WbRead(reg, a) =
        [do |-> "read", reg |-> reg, into |-> a, fail |-> "no", data |-> Value(0)]
  BY DEF WbRead, Op
<1> QED
  BY <1>1 DEF Halts, Peeks, Sets, Peripheral

LEMMA AddressIs ==
  ASSUME NEW a \in Addrs
  PROVE  a \in 0 .. 51 /\ a # Nowhere
  BY AddrsAssumption DEF Nowhere

LEMMA CmdReadIs ==
  ASSUME NEW a \in Addrs
  PROVE  /\ cmd_read(a) \in Seq(Ops) /\ Len(cmd_read(a)) = 3
         /\ cmd_read(a)[1] = WbWrite(0, CMD_HALT(a))
         /\ cmd_read(a)[2] = Poll("exit")
         /\ cmd_read(a)[3] = WbRead(1, a)
<1>1. WbWrite(0, CMD_HALT(a)) \in Ops /\ Poll("exit") \in Ops /\ WbRead(1, a) \in Ops
  BY CommandsAre
<1> QED
  BY <1>1 DEF cmd_read

LEMMA CmdReadGrammar ==
  ASSUME NEW a \in Addrs, a < 32
  PROVE  /\ Grammar(cmd_read(a)) /\ Opens(cmd_read(a))
         /\ \A i \in 1 .. Len(cmd_read(a)) : Peeks(cmd_read(a)[i])
<1> DEFINE s == cmd_read(a)
<1>1. /\ s \in Seq(Ops) /\ Len(s) = 3
      /\ s[1] = WbWrite(0, CMD_HALT(a)) /\ s[2] = Poll("exit") /\ s[3] = WbRead(1, a)
  BY CmdReadIs
<1>2. /\ Halts(s[1]) /\ Peeks(s[1]) /\ s[1].data.addr = a /\ s[1].do = "write" /\ ~Sets(s[1])
  BY <1>1, HaltKind
<1>3. /\ s[2].do = "poll" /\ s[2].reg = 0 /\ s[2].fail # "no" /\ Peeks(s[2]) /\ ~Sets(s[2])
  BY <1>1, PollKind
<1>4. /\ s[3].do = "read" /\ s[3].into = a /\ s[3].reg = 1 /\ a # Nowhere /\ Peeks(s[3])
      /\ ~Peripheral(s[3])
  BY <1>1, ReadKind, AddressIs
<1> HIDE DEF s
<1>5. \A i \in 1 .. 3 : Peeks(s[i])
  BY <1>2, <1>3, <1>4
<1>6. Local(s, 1)
  BY <1>2 DEF Local, Peripheral
<1>7. Local(s, 2)
  BY <1>2, <1>3 DEF Local, Peripheral
<1>8. Local(s, 3)
  BY <1>2, <1>3, <1>4 DEF Local, Sets
<1>9. \A i \in 1 .. 3 : Local(s, i)
  BY <1>6, <1>7, <1>8
<1>10. Grammar(s)
  BY <1>1, <1>5, <1>9 DEF Grammar
<1>11. Opens(s)
  BY <1>1, <1>2, <1>3, <1>4 DEF Opens
<1> QED
  BY <1>1, <1>5, <1>10, <1>11 DEF s

(* The registers are read in the order of their addresses.                 *)
LEMMA OrderIs ==
  /\ InOrder \in Seq(Addrs) /\ Len(InOrder) \in Nat \ {0}
  /\ InOrder[1] = 0
  /\ \A g \in 1 .. Len(InOrder) : InOrder[g] \in Addrs
  /\ \A a \in Addrs : \E g \in 1 .. Len(InOrder) : InOrder[g] = a
<1>1. /\ InOrder \in Seq(Addrs)
      /\ \A a \in Addrs : \E g \in 1 .. Len(InOrder) : InOrder[g] = a
      /\ \A i, j \in 1 .. Len(InOrder) : i < j => InOrder[i] < InOrder[j]
  BY OrderAssumption
<1>2. Len(InOrder) \in Nat /\ \A g \in 1 .. Len(InOrder) : InOrder[g] \in Addrs
  BY <1>1
<1>3. PICK g \in 1 .. Len(InOrder) : InOrder[g] = 0
  BY <1>1, AddrsAssumption
<1>4. 1 \in 1 .. Len(InOrder) /\ Len(InOrder) # 0
  BY <1>2, <1>3
<1>5. InOrder[1] \in 0 .. 51
  BY <1>2, <1>4, AddressIs
<1>6. g = 1
  <2> SUFFICES ASSUME 1 < g PROVE FALSE
    BY <1>3
  <2>1. InOrder[1] < 0
    BY <1>1, <1>3, <1>4
  <2>2. \A x \in 0 .. 51 : ~(x < 0)
    OBVIOUS
  <2> QED
    BY <1>5, <2>1, <2>2
<1> QED
  BY <1>1, <1>2, <1>3, <1>4, <1>6

(* Three operations to a register.                                         *)
LEMMA ThreeEach ==
  ASSUME NEW n \in Nat, NEW k \in 1 .. 3 * n
  PROVE  /\ (k + 2) \div 3 \in 1 .. n
         /\ \/ k = 3 * ((k + 2) \div 3) - 2 /\ (k - 1) % 3 = 0
            \/ k = 3 * ((k + 2) \div 3) - 1 /\ (k - 1) % 3 = 1
            \/ k = 3 * ((k + 2) \div 3) /\ (k - 1) % 3 = 2
  OBVIOUS

LEMMA OneOfThree ==
  ASSUME NEW g \in Nat \ {0}
  PROVE  /\ (3 * g - 2 + 2) \div 3 = g /\ (3 * g - 2 - 1) % 3 = 0
         /\ (3 * g - 1 + 2) \div 3 = g /\ (3 * g - 1 - 1) % 3 = 1
         /\ (3 * g + 2) \div 3 = g /\ (3 * g - 1) % 3 = 2
  OBVIOUS

LEMMA RawIs ==
  /\ read_raw_state \in Seq(Ops) /\ Len(read_raw_state) = 3 * Len(InOrder)
  /\ \A g \in 1 .. Len(InOrder) :
       /\ read_raw_state[3 * g - 2] = WbWrite(0, CMD_HALT(InOrder[g]))
       /\ read_raw_state[3 * g - 1] = Poll("exit")
       /\ read_raw_state[3 * g] = WbRead(1, InOrder[g])
<1> DEFINE n == Len(InOrder)
           R == read_raw_state
<1>1. n \in Nat /\ \A g \in 1 .. n : InOrder[g] \in Addrs
  BY OrderIs
<1>2. \A k \in 1 .. 3 * n : R[k] = cmd_read(InOrder[(k + 2) \div 3])[1 + ((k - 1) % 3)]
  BY DEF read_raw_state
<1>3. R = [k \in 1 .. 3 * n |-> R[k]]
  BY DEF read_raw_state
<1> HIDE DEF R, n
<1>4. ASSUME NEW k \in 1 .. 3 * n PROVE R[k] \in Ops
  <2> DEFINE g == (k + 2) \div 3
  <2>1. g \in 1 .. n /\ (k - 1) % 3 \in {0, 1, 2}
    BY <1>1, ThreeEach
  <2>2. R[k] = cmd_read(InOrder[g])[1 + ((k - 1) % 3)]
    BY <1>2
  <2> HIDE DEF g
  <2>3. InOrder[g] \in Addrs
    BY <1>1, <2>1
  <2>4. \A j \in {0, 1, 2} : cmd_read(InOrder[g])[1 + j] \in Ops
    <3>1. /\ cmd_read(InOrder[g]) \in Seq(Ops) /\ Len(cmd_read(InOrder[g])) = 3
      BY <2>3, CmdReadIs
    <3> QED
      BY <3>1
  <2> QED
    BY <2>1, <2>2, <2>4
<1>5. R \in [1 .. 3 * n -> Ops] /\ 3 * n \in Nat
  BY <1>1, <1>3, <1>4
<1>6. R \in Seq(Ops) /\ Len(R) = 3 * n
  <2>1. R \in Seq(Ops)
    BY <1>5, IsASeq
  <2> QED
    BY <1>5, <2>1
<1>7. ASSUME NEW g \in 1 .. n
      PROVE  /\ R[3 * g - 2] = cmd_read(InOrder[g])[1]
             /\ R[3 * g - 1] = cmd_read(InOrder[g])[2]
             /\ R[3 * g] = cmd_read(InOrder[g])[3]
  <2>1. /\ 3 * g - 2 \in 1 .. 3 * n
        /\ 3 * g - 1 \in 1 .. 3 * n
        /\ 3 * g \in 1 .. 3 * n
    BY <1>1
  <2>2. g \in Nat \ {0}
    BY <1>1
  <2>3. /\ (3 * g - 2 + 2) \div 3 = g /\ (3 * g - 2 - 1) % 3 = 0
        /\ (3 * g - 1 + 2) \div 3 = g /\ (3 * g - 1 - 1) % 3 = 1
        /\ (3 * g + 2) \div 3 = g /\ (3 * g - 1) % 3 = 2
    BY <2>2, OneOfThree
  <2>4. R[3 * g - 2] = cmd_read(InOrder[g])[1 + 0]
    BY <1>2, <2>1, <2>3
  <2>5. R[3 * g - 1] = cmd_read(InOrder[g])[1 + 1]
    BY <1>2, <2>1, <2>3
  <2>6. R[3 * g] = cmd_read(InOrder[g])[1 + 2]
    BY <1>2, <2>1, <2>3
  <2> QED
    BY <2>4, <2>5, <2>6
<1>8. ASSUME NEW g \in 1 .. n
      PROVE  /\ R[3 * g - 2] = WbWrite(0, CMD_HALT(InOrder[g]))
             /\ R[3 * g - 1] = Poll("exit")
             /\ R[3 * g] = WbRead(1, InOrder[g])
  BY <1>1, <1>7, CmdReadIs
<1> QED
  BY <1>6, <1>8 DEF R, n

LEMMA RawGrammar ==
  /\ Grammar(read_raw_state) /\ Opens(read_raw_state)
  /\ Len(read_raw_state) \in Nat \ {0}
  /\ read_raw_state[Len(read_raw_state)].do = "read"
  /\ \A i \in 1 .. Len(read_raw_state) : Peeks(read_raw_state[i])
  /\ \A a \in Addrs : \E i \in 1 .. Len(read_raw_state) : Reads(read_raw_state[i], a)
<1> DEFINE n == Len(InOrder)
           R == read_raw_state
<1>1. n \in Nat \ {0} /\ InOrder[1] = 0 /\ \A g \in 1 .. n : InOrder[g] \in Addrs
  BY OrderIs
<1>2. /\ R \in Seq(Ops) /\ Len(R) = 3 * n
      /\ \A g \in 1 .. n :
           /\ R[3 * g - 2] = WbWrite(0, CMD_HALT(InOrder[g]))
           /\ R[3 * g - 1] = Poll("exit")
           /\ R[3 * g] = WbRead(1, InOrder[g])
  BY RawIs
<1>3. \A a \in Addrs : \E g \in 1 .. n : InOrder[g] = a
  BY OrderIs
<1> HIDE DEF n, R
<1>4. ASSUME NEW g \in 1 .. n
      PROVE  /\ Halts(R[3 * g - 2]) /\ Peeks(R[3 * g - 2]) /\ R[3 * g - 2].do = "write"
             /\ R[3 * g - 2].data.addr = InOrder[g] /\ ~Sets(R[3 * g - 2])
             /\ R[3 * g - 1].do = "poll" /\ R[3 * g - 1].reg = 0 /\ R[3 * g - 1].fail # "no"
             /\ Peeks(R[3 * g - 1]) /\ ~Sets(R[3 * g - 1])
             /\ R[3 * g].do = "read" /\ R[3 * g].reg = 1 /\ R[3 * g].into = InOrder[g]
             /\ InOrder[g] # Nowhere /\ Peeks(R[3 * g]) /\ ~Sets(R[3 * g])
             /\ g = 1 => ~Peripheral(R[3 * g])
  <2>1. InOrder[g] \in Addrs /\ InOrder[g] # Nowhere
    BY <1>1, AddressIs
  <2>2. g = 1 => InOrder[g] = 0
    BY <1>1
  <2> DEFINE a == InOrder[g]
  <2>3. /\ R[3 * g - 2] = WbWrite(0, CMD_HALT(a))
        /\ R[3 * g - 1] = Poll("exit")
        /\ R[3 * g] = WbRead(1, a)
    BY <1>2
  <2> HIDE DEF a
  <2>4. /\ Halts(R[3 * g - 2]) /\ Peeks(R[3 * g - 2]) /\ R[3 * g - 2].do = "write"
        /\ R[3 * g - 2].data.addr = a /\ ~Sets(R[3 * g - 2])
    BY <2>3, HaltKind
  <2>5. /\ R[3 * g - 1].do = "poll" /\ R[3 * g - 1].reg = 0 /\ R[3 * g - 1].fail # "no"
        /\ Peeks(R[3 * g - 1]) /\ ~Sets(R[3 * g - 1])
    BY <2>3, PollKind
  <2>6. /\ R[3 * g].do = "read" /\ R[3 * g].reg = 1 /\ R[3 * g].into = a
        /\ Peeks(R[3 * g]) /\ ~Sets(R[3 * g]) /\ (Peripheral(R[3 * g]) => a \in 32 .. 51)
    BY <2>3, ReadKind
  <2>7. g = 1 => a \notin 32 .. 51
    BY <2>2 DEF a
  <2> QED
    BY <2>1, <2>4, <2>5, <2>6, <2>7 DEF a
<1>5. ASSUME NEW k \in 1 .. 3 * n
      PROVE  \E g \in 1 .. n : k \in {3 * g - 2, 3 * g - 1, 3 * g}
  BY <1>1, ThreeEach
<1>6. ASSUME NEW g \in 1 .. n
      PROVE  Local(R, 3 * g - 2) /\ Local(R, 3 * g - 1) /\ Local(R, 3 * g)
  <2>1. Local(R, 3 * g - 2)
    BY <1>4 DEF Local, Peripheral
  <2>2. Local(R, 3 * g - 1)
    <3>1. 3 * g - 1 - 1 = 3 * g - 2
      BY <1>1
    <3> QED
      BY <1>4, <3>1 DEF Local, Peripheral
  <2>3. Local(R, 3 * g)
    <3>1. g > 1 => R[3 * g - 3].do = "read"
      <4> SUFFICES ASSUME g > 1 PROVE R[3 * g - 3].do = "read"
        OBVIOUS
      <4>1. g - 1 \in 1 .. n /\ 3 * (g - 1) = 3 * g - 3
        BY <1>1
      <4>2. R[3 * (g - 1)].do = "read"
        BY <1>4, <4>1
      <4> QED
        BY <4>1, <4>2
    <3>2. 3 * g > 3 => g > 1
      BY <1>1
    <3>3. Peripheral(R[3 * g]) => g > 1
      BY <1>1, <1>4
    <3> QED
      BY <1>4, <3>1, <3>2, <3>3 DEF Local
  <2> QED
    BY <2>1, <2>2, <2>3
<1>7. \A k \in 1 .. 3 * n : Local(R, k) /\ Peeks(R[k])
  BY <1>4, <1>5, <1>6
<1>8. Grammar(R)
  BY <1>2, <1>7 DEF Grammar
<1>9. 1 \in 1 .. n /\ n \in 1 .. n /\ 3 * n \in Nat \ {0}
      /\ 3 * 1 - 2 = 1 /\ 3 * 1 - 1 = 2 /\ 3 * 1 = 3
  BY <1>1
<1>10. Opens(R)
  <2>1. /\ R[1].do = "write" /\ ~Sets(R[1])
        /\ R[2].do = "poll" /\ ~Sets(R[2])
        /\ ~Peripheral(R[3])
    BY <1>4, <1>9
  <2> QED
    BY <2>1 DEF Opens
<1>11. R[Len(R)].do = "read"
  BY <1>2, <1>4, <1>9
<1>12. ASSUME NEW a \in Addrs PROVE \E i \in 1 .. Len(R) : Reads(R[i], a)
  <2>1. PICK g \in 1 .. n : InOrder[g] = a
    BY <1>3
  <2>2. 3 * g \in 1 .. Len(R)
    BY <1>1, <1>2
  <2>3. Reads(R[3 * g], a)
    BY <1>4, <2>1 DEF Reads
  <2> QED
    BY <2>2, <2>3
<1> QED
  BY <1>2, <1>7, <1>8, <1>9, <1>10, <1>11, <1>12 DEF R

(* The control register may be read behind another read.                   *)
LEMMA OneMore ==
  ASSUME NEW s, Grammar(s), Opens(s), Len(s) \in Nat, Len(s) >= 3, s[Len(s)].do = "read",
         \A i \in 1 .. Len(s) : Peeks(s[i])
  PROVE  LET t == s \o << WbRead(0, Nowhere) >> IN
         /\ Grammar(t) /\ Opens(t) /\ Len(t) = Len(s) + 1
         /\ \A i \in 1 .. Len(s) : t[i] = s[i]
         /\ \A i \in 1 .. Len(t) : Peeks(t[i])
<1> DEFINE op == WbRead(0, Nowhere)
           r == << op >>
           t == s \o r
           n == Len(s)
<1>1. op \in Ops /\ op.do = "read" /\ op.reg = 0 /\ op.into = Nowhere /\ Peeks(op)
      /\ ~Sets(op) /\ ~Peripheral(op)
  <2>1. Nowhere \notin 32 .. 51
    BY DEF Nowhere
  <2> QED
    BY <2>1, CommandsAre, ReadKind
<1> HIDE DEF op
<1>2. r \in Seq(Ops) /\ Len(r) = 1 /\ r[1] = op
  BY <1>1
<1>3. s \in Seq(Ops) /\ \A i \in 1 .. n : Local(s, i)
  BY DEF Grammar
<1> HIDE DEF r
<1>4. /\ t \in Seq(Ops) /\ Len(t) = Len(s) + Len(r)
      /\ \A i \in 1 .. Len(s) : t[i] = s[i]
      /\ \A i \in 1 .. Len(r) : t[Len(s) + i] = r[i]
  BY <1>2, <1>3, Together
<1>5. /\ n \in Nat /\ n >= 3 /\ Len(t) = n + 1
      /\ \A i \in 1 .. n : t[i] = s[i] /\ Peeks(s[i])
      /\ t[n + 1] = op /\ s[n].do = "read"
  BY <1>2, <1>4
<1> HIDE DEF t, n
<1>6. \A i \in 1 .. n + 1 : Peeks(t[i])
  BY <1>1, <1>5
<1>7. ASSUME NEW i \in 1 .. n PROVE Local(t, i)
  <2>1. Local(s, i)
    BY <1>3
  <2>2. /\ t[i] = s[i]
        /\ i > 1 => t[i - 1] = s[i - 1]
        /\ i > 2 => t[i - 2] = s[i - 2]
        /\ i > 3 => t[i - 3] = s[i - 3]
    BY <1>5
  <2> QED
    BY <1>5, <2>1, <2>2 DEF Local
<1>8. Local(t, n + 1)
  <2>1. t[n + 1] = op /\ n \in Nat /\ n + 1 - 1 = n /\ t[n].do = "read"
    BY <1>5
  <2> QED
    BY <1>1, <2>1 DEF Local
<1>9. \A i \in 1 .. n + 1 : Local(t, i)
  BY <1>5, <1>7, <1>8
<1>10. Grammar(t)
  BY <1>4, <1>5, <1>6, <1>9 DEF Grammar
<1>11. Opens(t)
  <2>1. t[1] = s[1] /\ t[2] = s[2] /\ t[3] = s[3] /\ Len(s) >= 3
    BY <1>5 DEF n
  <2>2. /\ s[1].do # "poll" /\ s[1].do # "read" /\ ~Sets(s[1])
        /\ s[2].do # "read" /\ ~Sets(s[2]) /\ ~Peripheral(s[3])
    BY <2>1 DEF Opens
  <2> QED
    BY <2>1, <2>2 DEF Opens
<1> QED
  BY <1>5, <1>6, <1>10, <1>11 DEF t, r, n, op

LEMMA EmptyGrammar == Grammar(<< >>) /\ Len(<< >>) = 0
<1>1. << >> \in Seq(Ops) /\ Len(<< >>) = 0
  OBVIOUS
<1> QED
  BY <1>1 DEF Grammar

LEMMA OpensTogether ==
  ASSUME NEW s, NEW r, Grammar(s), Grammar(r), Opens(s), Len(s) >= 3
  PROVE  Opens(s \o r)
<1>1. s \in Seq(Ops) /\ r \in Seq(Ops)
  BY DEF Grammar
<1>2. Len(s) \in Nat /\ \A i \in 1 .. Len(s) : (s \o r)[i] = s[i]
  BY <1>1, Together
<1>3. (s \o r)[1] = s[1] /\ (s \o r)[2] = s[2] /\ (s \o r)[3] = s[3]
  BY <1>2
<1>4. /\ s[1].do # "poll" /\ s[1].do # "read" /\ ~Sets(s[1])
      /\ s[2].do # "read" /\ ~Sets(s[2]) /\ ~Peripheral(s[3])
  BY <1>2 DEF Opens
<1> QED
  BY <1>3, <1>4 DEF Opens

(* The view of a halted processor reads every register and changes none.   *)
LEMMA StateIs ==
  /\ Grammar(read_state) /\ Opens(read_state)
  /\ Len(read_state) \in Nat \ {0}
  /\ \A i \in 1 .. Len(read_state) : Peeks(read_state[i])
  /\ \A a \in Addrs : \E i \in 1 .. Len(read_state) : Reads(read_state[i], a)
<1> DEFINE R == read_raw_state
           s == R \o << WbRead(0, Nowhere) >>
           r == IF 15 \in Addrs THEN cmd_read(15) ELSE << >>
           t == s \o r
<1>1. /\ Grammar(R) /\ Opens(R) /\ Len(R) \in Nat \ {0} /\ R[Len(R)].do = "read"
      /\ \A i \in 1 .. Len(R) : Peeks(R[i])
      /\ \A a \in Addrs : \E i \in 1 .. Len(R) : Reads(R[i], a)
  BY RawGrammar
<1>2. Len(R) >= 3
  BY RawIs, OrderIs
<1>3. t = read_state
  BY DEF read_state
<1> HIDE DEF R
<1>4. /\ Grammar(s) /\ Opens(s) /\ Len(s) = Len(R) + 1
      /\ \A i \in 1 .. Len(R) : s[i] = R[i]
      /\ \A i \in 1 .. Len(s) : Peeks(s[i])
  BY <1>1, <1>2, OneMore
<1>5. Grammar(r) /\ Opens(r) /\ \A i \in 1 .. Len(r) : Peeks(r[i])
  <2>1. CASE 15 \in Addrs
    BY <2>1, CmdReadGrammar
  <2>2. CASE 15 \notin Addrs
    BY <2>2, EmptyGrammar DEF Opens
  <2> QED
    BY <2>1, <2>2
<1> HIDE DEF s, r
<1>6. Grammar(t)
  BY <1>4, <1>5, GrammarTogether
<1>7. Len(s) >= 3
  BY <1>1, <1>2, <1>4
<1>8. Opens(t)
  BY <1>4, <1>5, <1>7, OpensTogether
<1>9. /\ Len(s) \in Nat /\ Len(r) \in Nat /\ Len(t) = Len(s) + Len(r)
      /\ \A i \in 1 .. Len(s) : t[i] = s[i]
      /\ \A i \in 1 .. Len(r) : t[Len(s) + i] = r[i]
  <2>1. s \in Seq(Ops) /\ r \in Seq(Ops)
    BY <1>4, <1>5 DEF Grammar
  <2> QED
    BY <2>1, Together
<1> HIDE DEF t
<1>10. ASSUME NEW i \in 1 .. Len(t) PROVE Peeks(t[i])
  <2>1. CASE i <= Len(s)
    <3>1. i \in 1 .. Len(s)
      BY <1>9, <2>1
    <3> QED
      BY <1>4, <1>9, <3>1
  <2>2. CASE i > Len(s)
    <3>1. i - Len(s) \in 1 .. Len(r) /\ Len(s) + (i - Len(s)) = i
      BY <1>9, <2>2
    <3>2. t[i] = r[i - Len(s)]
      BY <1>9, <3>1
    <3> QED
      BY <1>5, <3>1, <3>2
  <2> QED
    BY <1>9, <2>1, <2>2
<1>11. ASSUME NEW a \in Addrs PROVE \E i \in 1 .. Len(t) : Reads(t[i], a)
  <2>1. PICK i \in 1 .. Len(R) : Reads(R[i], a)
    BY <1>1
  <2>2. i \in 1 .. Len(s) /\ i \in 1 .. Len(t)
    BY <1>1, <1>4, <1>9
  <2>3. t[i] = R[i]
    BY <1>4, <1>9, <2>2
  <2> QED
    BY <2>1, <2>2, <2>3
<1>12. Len(t) \in Nat \ {0}
  BY <1>7, <1>9
<1> QED
  BY <1>3, <1>6, <1>8, <1>10, <1>11, <1>12

LEMMA ViewIs ==
  ASSUME NEW man \in BOOLEAN, NEW hlt \in BOOLEAN
  PROVE  /\ Grammar(View(man, hlt)) /\ Opens(View(man, hlt))
         /\ Len(View(man, hlt)) \in Nat \ {0}
         /\ \A i \in 1 .. Len(View(man, hlt)) :
              IF Inside(man, hlt) THEN View(man, hlt)[i].do = "show" ELSE Peeks(View(man, hlt)[i])
         /\ \A a \in Addrs : \E i \in 1 .. Len(View(man, hlt)) :
              Reads(View(man, hlt)[i], a) \/ View(man, hlt)[i].do = "show"
<1>1. CASE ~Inside(man, hlt)
  <2>1. View(man, hlt) = read_state
    BY <1>1 DEF View
  <2> QED
    BY <1>1, <2>1, StateIs
<1>2. CASE Inside(man, hlt)
  <2> DEFINE V == << Show >>
  <2>1. View(man, hlt) = V
    BY <1>2 DEF View
  <2>2. Show \in Ops /\ Show.do = "show"
    BY CommandsAre DEF Show, Op
  <2>3. V \in Seq(Ops) /\ Len(V) = 1 /\ V[1].do = "show"
    BY <2>2
  <2> HIDE DEF V
  <2>4. Local(V, 1)
    BY <2>3 DEF Local, Sets, Peripheral
  <2>5. Grammar(V)
    BY <2>3, <2>4 DEF Grammar
  <2>6. Opens(V)
    BY <2>3 DEF Opens, Sets
  <2> QED
    BY <1>2, <2>1, <2>3, <2>5, <2>6
<1> QED
  BY <1>1, <1>2

-----------------------------------------------------------------------------
(* One edge of the clock.                                                  *)
LEMMA PortStep ==
  ASSUME NEW in, NEW rst, Edge(port, cpu, in, rst)
  PROVE  /\ port'.cyc = in.cyc
         /\ port'.ack = (port.dbg_ack /\ port.cyc /\ in.cyc)
         /\ port'.out = Odata(port, cpu)
         /\ port'.dbg_ack = (port.cyc /\ ~DbgStall(port, cpu, rst))
         /\ port'.cmd_reset = (CmdWrite(port) /\ port.data.reset)
         /\ port'.cmd_halt = \/ rst
                             \/ IF CmdWrite(port) THEN port.data.halt \/ port.data.step
                                ELSE port.cmd_halt \/ port.cmd_step \/ Break(cpu)
         /\ port'.cmd_step = (CmdWrite(port) /\ port.data.step)
         /\ port'.cmd_addr = IF CmdWrite(port) THEN port.data.addr ELSE port.cmd_addr
         /\ IF Stalled(port, cpu)
            THEN /\ port'.stb = port.stb /\ port'.we = port.we
                 /\ port'.reg = port.reg /\ port'.data = port.data
            ELSE /\ port'.stb = (in.cyc /\ in.stb) /\ port'.we = in.we
                 /\ port'.reg = in.reg /\ port'.data = in.data
  BY DEF Edge, PortEdge

(* What the program puts on the bus.                                       *)
Carriable(in) ==
  /\ in.cyc \in BOOLEAN /\ in.stb \in BOOLEAN /\ in.we \in BOOLEAN
  /\ in.reg \in {0, 1} /\ in.data \in Word

LEMMA PortFields ==
  ASSUME PortTypes
  PROVE  /\ port.cyc \in BOOLEAN /\ port.stb \in BOOLEAN /\ port.we \in BOOLEAN
         /\ port.reg \in {0, 1} /\ port.data \in Word
         /\ port.ack \in BOOLEAN /\ port.out.free \in BOOLEAN /\ port.out.val \in Values
         /\ port.dbg_ack \in BOOLEAN /\ port.cmd_reset \in BOOLEAN
         /\ port.cmd_halt \in BOOLEAN /\ port.cmd_step \in BOOLEAN
         /\ port.cmd_addr \in Addrs
         /\ port.data.reset \in BOOLEAN /\ port.data.halt \in BOOLEAN
         /\ port.data.step \in BOOLEAN /\ port.data.addr \in Addrs
         /\ port.data.val \in Values
  BY DEF PortTypes, Word

LEMMA CpuFields ==
  ASSUME CpuTypes
  PROVE  /\ cpu.regs \in [Addrs -> Values]
         /\ cpu.pipe \in {"none", "busy", "load", "local", "done"}
         /\ cpu.into \in CpuRegs \cup {Nowhere}
         /\ cpu.next \in {"empty", "ready", "break", "asleep"}
         /\ cpu.dbgv.reg \in CpuRegs \cup {Nowhere} /\ cpu.dbgv.val \in Values
         /\ cpu.stall \in BOOLEAN /\ cpu.dbg_reg \in Values /\ cpu.live \in BOOLEAN
         /\ cpu.issued \in 0 .. 2
  BY DEF CpuTypes

LEMMA PortTyped ==
  ASSUME NEW in, NEW rst \in BOOLEAN, Edge(port, cpu, in, rst),
         PortTypes, CpuTypes, Carriable(in)
  PROVE  PortTypes'
<1>1. /\ port' = PortEdge(port, cpu, in, rst)
  BY DEF Edge
<1>2. Odata(port, cpu) \in [free : BOOLEAN, val : Values]
  BY PortFields, CpuFields, ValuesAssumption DEF Odata
<1>3. CmdWrite(port) \in BOOLEAN /\ Break(cpu) \in BOOLEAN
      /\ DbgStall(port, cpu, rst) \in BOOLEAN
  BY PortFields DEF CmdWrite, Break, DbgStall
<1>4. /\ (port.dbg_ack /\ port.cyc /\ in.cyc) \in BOOLEAN
      /\ (in.cyc /\ in.stb) \in BOOLEAN
      /\ (port.cyc /\ ~DbgStall(port, cpu, rst)) \in BOOLEAN
      /\ (CmdWrite(port) /\ port.data.reset) \in BOOLEAN
      /\ (CmdWrite(port) /\ port.data.step) \in BOOLEAN
      /\ (\/ rst
          \/ IF CmdWrite(port) THEN port.data.halt \/ port.data.step
             ELSE port.cmd_halt \/ port.cmd_step \/ Break(cpu)) \in BOOLEAN
  OBVIOUS
<1>5. (IF CmdWrite(port) THEN port.data.addr ELSE port.cmd_addr) \in Addrs
  BY PortFields
<1> DEFINE held == Stalled(port, cpu)
           stb == IF held THEN port.stb ELSE in.cyc /\ in.stb
           we == IF held THEN port.we ELSE in.we
           reg == IF held THEN port.reg ELSE in.reg
           data == IF held THEN port.data ELSE in.data
<1>6. stb \in BOOLEAN /\ we \in BOOLEAN /\ reg \in {0, 1} /\ data \in Word
  BY PortFields DEF Carriable
<1>7. port' = [cyc |-> in.cyc, stb |-> stb, we |-> we, reg |-> reg, data |-> data,
               ack |-> port.dbg_ack /\ port.cyc /\ in.cyc,
               out |-> Odata(port, cpu),
               dbg_ack |-> port.cyc /\ ~DbgStall(port, cpu, rst),
               cmd_reset |-> CmdWrite(port) /\ port.data.reset,
               cmd_halt |-> \/ rst
                            \/ IF CmdWrite(port) THEN port.data.halt \/ port.data.step
                               ELSE port.cmd_halt \/ port.cmd_step \/ Break(cpu),
               cmd_step |-> CmdWrite(port) /\ port.data.step,
               cmd_addr |-> IF CmdWrite(port) THEN port.data.addr ELSE port.cmd_addr]
  BY <1>1 DEF PortEdge
<1> HIDE DEF held, stb, we, reg, data
<1> QED
  BY <1>2, <1>4, <1>5, <1>6, <1>7 DEF PortTypes, Carriable

(* The processor after an edge without a reset: whether it has issued an   *)
(* instruction, what is in execution and where it goes, the registers, and *)
(* what waits.                                                             *)
After(i, e, t, r, n, rst) ==
  [regs |-> PeriphWrite(port, cpu, r, rst),
   pipe |-> e,
   into |-> IF e = "none" THEN Nowhere ELSE t,
   next |-> n,
   dbgv |-> IF CpuHalt(port, rst) /\ CpuDbgWe(port)
            THEN [reg |-> port.cmd_addr, val |-> port.data.val]
            ELSE [reg |-> Nowhere, val |-> 0],
   stall |-> CpuHalt(port, rst) /\ (cpu.pipe \in {"load", "local"} \/ cpu.next = "empty"),
   dbg_reg |-> IF port.cmd_addr < 32 THEN cpu.regs[port.cmd_addr] ELSE 0,
   live |-> ~CpuHalt(port, rst) \/ cpu.pipe # "none",
   issued |-> IF i /\ cpu.issued < 2 THEN cpu.issued + 1 ELSE cpu.issued]

LEMMA CpuStep ==
  ASSUME NEW in, NEW rst, Edge(port, cpu, in, rst), ~CpuReset(port, rst)
  PROVE  \E i \in Issues(port, cpu, rst) :
         \E e \in Executes(cpu, i), t \in IF i THEN CpuRegs ELSE {cpu.into},
            r \in Registers(cpu, CpuHalt(port, rst)),
            n \in Fetched(cpu, i, CpuHalt(port, rst)) :
           cpu' = After(i, e, t, r, n, rst)
  BY DEF Edge, CpuEdge, After

(* The processor after an edge with a reset.                               *)
Restarted(stall, dbg_reg, regs) ==
  [cpu EXCEPT !.regs = regs,
              !.pipe = "none", !.into = Nowhere, !.next = "empty",
              !.dbgv = [reg |-> Nowhere, val |-> 0],
              !.stall = stall, !.dbg_reg = dbg_reg, !.live = TRUE]

LEMMA ResetStep ==
  ASSUME NEW in, NEW rst, Edge(port, cpu, in, rst), CpuReset(port, rst)
  PROVE  cpu' = Restarted(CpuHalt(port, rst) /\ cpu.pipe \in {"load", "local"},
                          IF port.cmd_addr < 32 THEN cpu.regs[port.cmd_addr] ELSE 0,
                          [a \in Addrs |-> IF a = 15 THEN 0 ELSE cpu.regs[a]])
  BY DEF Edge, CpuEdge, Restarted

(* What becomes of the registers, in three steps.                          *)
LEMMA RegistersAre ==
  ASSUME NEW halt, NEW r \in Registers(cpu, halt)
  PROVE  \E w \in Written(cpu) : \E f \in Flagged(w, cpu, halt) : r \in Counted(f, cpu, halt)
  BY DEF Registers

LEMMA WrittenTyped ==
  ASSUME CpuTypes, NEW r \in Written(cpu)
  PROVE  r \in [Addrs -> Values] /\ \A b \in Counters : r[b] = cpu.regs[b]
<1>1. cpu.regs \in [Addrs -> Values] /\ cpu.dbgv.val \in Values
  BY CpuFields
<1> DEFINE into == IF cpu.dbgv.reg # Nowhere THEN cpu.dbgv.reg ELSE cpu.into
<1>2. into \in CpuRegs \cup {Nowhere}
  BY CpuFields
<1>3. CASE r = cpu.regs
  BY <1>1, <1>3
<1>4. ASSUME NEW v \in Values, r = [cpu.regs EXCEPT ![into] = v], into # Nowhere
      PROVE  r \in [Addrs -> Values] /\ \A b \in Counters : r[b] = cpu.regs[b]
  <2>1. into \in Addrs /\ into < 32
    BY <1>2, <1>4 DEF CpuRegs
  <2>2. \A b \in Counters : b \in Addrs /\ b # into
    BY <2>1 DEF Counters
  <2> HIDE DEF into
  <2> QED
    BY <1>1, <1>4, <2>1, <2>2
<1>5. r = cpu.regs \/ (into # Nowhere /\ \E v \in Values : r = [cpu.regs EXCEPT ![into] = v])
  <2> DEFINE vals == IF cpu.pipe = "done" THEN Values ELSE {cpu.dbgv.val}
  <2>1. vals \subseteq Values
    BY <1>1
  <2>2. Written(cpu) = IF into = Nowhere THEN {cpu.regs}
                       ELSE IF cpu.pipe = "done" \/ cpu.dbgv.reg # Nowhere
                            THEN {[cpu.regs EXCEPT ![into] = v] : v \in vals}
                            ELSE {cpu.regs}
    BY DEF Written
  <2> HIDE DEF into, vals
  <2>3. CASE into # Nowhere /\ r \in {[cpu.regs EXCEPT ![into] = v] : v \in vals}
    BY <2>1, <2>3
  <2> QED
    BY <2>2, <2>3
<1> QED
  BY <1>3, <1>4, <1>5

LEMMA FlaggedTyped ==
  ASSUME NEW w \in [Addrs -> Values], NEW halt, NEW f \in Flagged(w, cpu, halt)
  PROVE  f \in [Addrs -> Values] /\ \A b \in Counters : f[b] = w[b]
<1>1. CASE f = w
  BY <1>1
<1>2. ASSUME NEW codes \in [{a \in Addrs : IsCC(a)} -> Values],
             f = [a \in Addrs |-> IF IsCC(a) THEN codes[a] ELSE w[a]]
      PROVE  f \in [Addrs -> Values] /\ \A b \in Counters : f[b] = w[b]
  <2>1. \A b \in Counters : b \in Addrs /\ ~IsCC(b)
    BY DEF Counters, IsCC
  <2>2. ASSUME NEW a \in Addrs
        PROVE  (IF IsCC(a) THEN codes[a] ELSE w[a]) \in Values
    BY <1>2
  <2> QED
    BY <1>2, <2>1, <2>2
<1>3. CASE halt /\ cpu.pipe = "none" /\ ~cpu.live /\ ~IsCC(cpu.dbgv.reg)
  BY <1>1, <1>3 DEF Flagged
<1>4. CASE ~(halt /\ cpu.pipe = "none" /\ ~cpu.live /\ ~IsCC(cpu.dbgv.reg))
  <2> DEFINE vals == IF halt /\ cpu.pipe = "none" THEN Values ELSE {0}
             C == {a \in Addrs : IsCC(a)}
  <2>1. PICK codes \in [C -> vals] : f = [a \in Addrs |-> IF IsCC(a) THEN codes[a] ELSE w[a]]
    BY <1>4 DEF Flagged
  <2>2. vals \subseteq Values
    BY ValuesAssumption
  <2> HIDE DEF vals
  <2>3. codes \in [C -> Values]
    BY <2>2
  <2> QED
    BY <1>2, <2>1, <2>3
<1> QED
  BY <1>3, <1>4

LEMMA CountedTyped ==
  ASSUME CpuTypes, NEW f \in [Addrs -> Values], NEW halt, NEW r \in Counted(f, cpu, halt)
  PROVE  r \in [Addrs -> Values] /\ (halt => r = f)
<1>1. CASE halt
  BY <1>1 DEF Counted
<1>2. CASE ~halt
  <2>1. PICK user \in BOOLEAN :
          r = [a \in Addrs |->
                 IF a \in Counters /\ (a < 44 \/ user)
                 THEN IF cpu.regs[a] + 1 \in Values THEN cpu.regs[a] + 1 ELSE 0
                 ELSE f[a]]
    BY <1>2 DEF Counted
  <2> QED
    BY <1>2, <2>1, ValuesAssumption
<1> QED
  BY <1>1, <1>2

LEMMA RegsTyped ==
  ASSUME NEW rst, NEW halt, PortTypes, CpuTypes, NEW r \in Registers(cpu, halt)
  PROVE  /\ PeriphWrite(port, cpu, r, rst) \in [Addrs -> Values]
         /\ r \in [Addrs -> Values]
         /\ halt => \A b \in Counters : r[b] = cpu.regs[b]
<1>1. PICK w \in Written(cpu) : \E f \in Flagged(w, cpu, halt) : r \in Counted(f, cpu, halt)
  BY RegistersAre
<1>2. PICK f \in Flagged(w, cpu, halt) : r \in Counted(f, cpu, halt)
  BY <1>1
<1>3. w \in [Addrs -> Values] /\ \A b \in Counters : w[b] = cpu.regs[b]
  BY WrittenTyped
<1>4. f \in [Addrs -> Values] /\ \A b \in Counters : f[b] = w[b]
  BY <1>3, FlaggedTyped
<1>5. r \in [Addrs -> Values] /\ (halt => r = f)
  BY <1>2, <1>4, CountedTyped
<1>6. port.cmd_addr \in Addrs /\ port.data.val \in Values
  BY PortFields
<1>7. PeriphWrite(port, cpu, r, rst) \in [Addrs -> Values]
  BY <1>5, <1>6 DEF PeriphWrite
<1> QED
  BY <1>3, <1>4, <1>5, <1>7

LEMMA CpuTyped ==
  ASSUME NEW in, NEW rst, Edge(port, cpu, in, rst), PortTypes, CpuTypes
  PROVE  CpuTypes'
<1>1. CASE CpuReset(port, rst)
  <2> DEFINE halt == CpuHalt(port, rst)
             busy == cpu.pipe \in {"load", "local"}
             dbg_reg == IF port.cmd_addr < 32 THEN cpu.regs[port.cmd_addr] ELSE 0
             regs == [a \in Addrs |-> IF a = 15 THEN 0 ELSE cpu.regs[a]]
  <2>1. cpu' = Restarted(halt /\ busy, dbg_reg, regs)
    BY <1>1, ResetStep
  <2>2. regs \in [Addrs -> Values] /\ dbg_reg \in Values
    BY PortFields, CpuFields, ValuesAssumption
  <2>3. (halt /\ busy) \in BOOLEAN
    OBVIOUS
  <2>4. [reg |-> Nowhere, val |-> 0] \in [reg : CpuRegs \cup {Nowhere}, val : Values]
    BY ValuesAssumption
  <2> HIDE DEF halt, busy, dbg_reg, regs
  <2> QED
    BY <2>1, <2>2, <2>3, <2>4 DEF CpuTypes, Restarted
<1>2. CASE ~CpuReset(port, rst)
  <2>1. PICK i \in Issues(port, cpu, rst) :
         \E e \in Executes(cpu, i), t \in IF i THEN CpuRegs ELSE {cpu.into},
            r \in Registers(cpu, CpuHalt(port, rst)),
            n \in Fetched(cpu, i, CpuHalt(port, rst)) :
           cpu' = After(i, e, t, r, n, rst)
    BY <1>2, CpuStep
  <2>2. PICK e \in Executes(cpu, i), t \in IF i THEN CpuRegs ELSE {cpu.into},
             r \in Registers(cpu, CpuHalt(port, rst)),
             n \in Fetched(cpu, i, CpuHalt(port, rst)) :
           cpu' = After(i, e, t, r, n, rst)
    BY <2>1
  <2>3. e \in {"none", "busy", "load", "local", "done"}
    BY KindsAssumption DEF Executes
  <2>4. n \in {"empty", "ready", "break", "asleep"}
    BY CpuFields DEF Fetched
  <2>5. (IF e = "none" THEN Nowhere ELSE t) \in CpuRegs \cup {Nowhere}
    BY CpuFields
  <2>6. (IF CpuHalt(port, rst) /\ CpuDbgWe(port)
         THEN [reg |-> port.cmd_addr, val |-> port.data.val]
         ELSE [reg |-> Nowhere, val |-> 0]) \in [reg : CpuRegs \cup {Nowhere}, val : Values]
    BY PortFields, ValuesAssumption DEF CpuDbgWe, CpuRegs
  <2>7. (CpuHalt(port, rst) /\ (cpu.pipe \in {"load", "local"} \/ cpu.next = "empty")) \in BOOLEAN
    OBVIOUS
  <2>8. (IF port.cmd_addr < 32 THEN cpu.regs[port.cmd_addr] ELSE 0) \in Values
    BY PortFields, CpuFields, ValuesAssumption
  <2>9. (IF i /\ cpu.issued < 2 THEN cpu.issued + 1 ELSE cpu.issued) \in 0 .. 2
    BY CpuFields
  <2>10. PeriphWrite(port, cpu, r, rst) \in [Addrs -> Values]
    BY RegsTyped
  <2>11. (~CpuHalt(port, rst) \/ cpu.pipe # "none") \in BOOLEAN
    OBVIOUS
  <2> QED
    BY <2>2, <2>3, <2>4, <2>5, <2>6, <2>7, <2>8, <2>9, <2>10, <2>11 DEF CpuTypes, After
<1> QED
  BY <1>1, <1>2

(* A halted processor completes what is in execution, and issues nothing.  *)
LEMMA HaltedStep ==
  ASSUME NEW in, Edge(port, cpu, in, FALSE), PortTypes, CpuTypes, Halting
  PROVE  /\ cpu'.issued = cpu.issued
         /\ cpu'.pipe # "busy"
         /\ cpu.pipe \in {"none", "done"} => cpu'.pipe = "none"
         /\ cpu.pipe = "none" => ~cpu'.live
         /\ cpu'.stall = (cpu.pipe \in {"load", "local"} \/ cpu.next = "empty")
         /\ cpu'.dbg_reg = IF port.cmd_addr < 32 THEN cpu.regs[port.cmd_addr] ELSE 0
         /\ CpuDbgWe(port) => cpu'.dbgv = [reg |-> port.cmd_addr, val |-> port.data.val]
         /\ ~CpuDbgWe(port) => cpu'.dbgv.reg = Nowhere
         /\ Drained => cpu'.regs = PeriphWrite(port, cpu, cpu.regs, FALSE)
         /\ cpu.pipe = "none" /\ ~cpu.live /\ cpu.dbgv.reg # Nowhere /\ ~IsCC(cpu.dbgv.reg) =>
              cpu'.regs = PeriphWrite(port, cpu,
                            [cpu.regs EXCEPT ![cpu.dbgv.reg] = cpu.dbgv.val], FALSE)
         /\ Idle /\ cpu.next # "empty" => cpu'.next = cpu.next
         /\ \E r \in [Addrs -> Values] :
              /\ cpu'.regs = PeriphWrite(port, cpu, r, FALSE)
              /\ \A b \in Counters : r[b] = cpu.regs[b]
<1>1. ~CpuReset(port, FALSE) /\ CpuHalt(port, FALSE)
  BY DEF CpuReset, CpuHalt, Halting
<1>2. Issues(port, cpu, FALSE) = {FALSE}
  BY <1>1 DEF Issues
<1> DEFINE halt == CpuHalt(port, FALSE)
<1>3. PICK i \in Issues(port, cpu, FALSE) :
       \E e \in Executes(cpu, i), t \in IF i THEN CpuRegs ELSE {cpu.into},
          r \in Registers(cpu, halt), n \in Fetched(cpu, i, halt) :
         cpu' = After(i, e, t, r, n, FALSE)
  BY <1>1, CpuStep
<1>4. i = FALSE
  BY <1>2
<1>5. PICK e \in Executes(cpu, FALSE), t \in {cpu.into},
           r \in Registers(cpu, halt), n \in Fetched(cpu, FALSE, halt) :
         cpu' = After(FALSE, e, t, r, n, FALSE)
  BY <1>3, <1>4
<1>6. e # "busy" /\ (cpu.pipe \in {"none", "done"} => e = "none")
  BY CpuFields DEF Executes
<1>7. PICK w \in Written(cpu) : \E f \in Flagged(w, cpu, halt) : r \in Counted(f, cpu, halt)
  BY RegistersAre
<1>8. r \in Flagged(w, cpu, halt)
  BY <1>1, <1>7 DEF Counted
<1>9. cpu.pipe = "none" /\ ~cpu.live /\ ~IsCC(cpu.dbgv.reg) => r = w
  BY <1>1, <1>8 DEF Flagged
<1>10. ~IsCC(Nowhere)
  BY DEF IsCC, Nowhere
<1>11. Drained => r = cpu.regs
  <2> SUFFICES ASSUME Drained PROVE r = cpu.regs
    OBVIOUS
  <2>1. cpu.pipe = "none" /\ ~cpu.live /\ cpu.dbgv.reg = Nowhere
    BY DEF Drained, Idle
  <2>2. w = cpu.regs
    BY <2>1 DEF Written
  <2> QED
    BY <1>8, <1>9, <1>10, <2>1, <2>2
<1>12. cpu.pipe = "none" /\ ~cpu.live /\ cpu.dbgv.reg # Nowhere /\ ~IsCC(cpu.dbgv.reg) =>
         r = [cpu.regs EXCEPT ![cpu.dbgv.reg] = cpu.dbgv.val]
  BY <1>8, <1>9 DEF Written
<1>13. Idle /\ cpu.next # "empty" => n = cpu.next
  <2> SUFFICES ASSUME Idle, cpu.next # "empty" PROVE n = cpu.next
    OBVIOUS
  <2>1. cpu.pipe = "none" /\ cpu.dbgv.reg = Nowhere
    BY DEF Idle
  <2>2. \A a \in CpuRegs : cpu.dbgv.reg # a
    BY <2>1, AddressIs DEF CpuRegs
  <2>3. ~WritesCodes(cpu)
    BY <1>10, <2>1 DEF WritesCodes
  <2> QED
    BY <1>1, <2>1, <2>2, <2>3 DEF Fetched
<1>14. /\ cpu'.regs = PeriphWrite(port, cpu, r, FALSE)
       /\ cpu'.pipe = e /\ cpu'.next = n /\ cpu'.issued = cpu.issued
       /\ cpu'.live = (~CpuHalt(port, FALSE) \/ cpu.pipe # "none")
       /\ cpu'.dbgv = IF CpuHalt(port, FALSE) /\ CpuDbgWe(port)
                      THEN [reg |-> port.cmd_addr, val |-> port.data.val]
                      ELSE [reg |-> Nowhere, val |-> 0]
       /\ cpu'.stall = (CpuHalt(port, FALSE)
                          /\ (cpu.pipe \in {"load", "local"} \/ cpu.next = "empty"))
       /\ cpu'.dbg_reg = IF port.cmd_addr < 32 THEN cpu.regs[port.cmd_addr] ELSE 0
  BY <1>5 DEF After
<1>15. /\ Drained => cpu'.regs = PeriphWrite(port, cpu, cpu.regs, FALSE)
       /\ cpu.pipe = "none" /\ ~cpu.live /\ cpu.dbgv.reg # Nowhere /\ ~IsCC(cpu.dbgv.reg) =>
            cpu'.regs = PeriphWrite(port, cpu,
                          [cpu.regs EXCEPT ![cpu.dbgv.reg] = cpu.dbgv.val], FALSE)
       /\ Idle /\ cpu.next # "empty" => cpu'.next = cpu.next
  BY <1>11, <1>12, <1>13, <1>14
<1>16. /\ CpuDbgWe(port) => cpu'.dbgv = [reg |-> port.cmd_addr, val |-> port.data.val]
       /\ ~CpuDbgWe(port) => cpu'.dbgv.reg = Nowhere
  BY <1>1, <1>14
<1>17. /\ cpu'.pipe # "busy"
       /\ cpu.pipe \in {"none", "done"} => cpu'.pipe = "none"
       /\ cpu.pipe = "none" => ~cpu'.live
       /\ cpu'.stall = (cpu.pipe \in {"load", "local"} \/ cpu.next = "empty")
  BY <1>1, <1>6, <1>14
<1>18. r \in [Addrs -> Values] /\ \A b \in Counters : r[b] = cpu.regs[b]
  BY <1>1, RegsTyped
<1> QED
  BY <1>14, <1>15, <1>16, <1>17, <1>18

(* Only a write to the data register puts a value on its way.              *)
LEMMA DbgvStep ==
  ASSUME NEW in, NEW rst, Edge(port, cpu, in, rst), CpuTypes
  PROVE  cpu'.dbgv.reg # Nowhere => CpuDbgWe(port)
<1>1. CASE CpuReset(port, rst)
  <2>1. PICK stall, dbg_reg, regs : cpu' = Restarted(stall, dbg_reg, regs)
    BY <1>1, ResetStep
  <2>2. cpu'.dbgv.reg = Nowhere
    BY <2>1 DEF CpuTypes, Restarted
  <2> QED
    BY <2>2
<1>2. CASE ~CpuReset(port, rst)
  <2>1. \E i, e, t, r, n : cpu' = After(i, e, t, r, n, rst)
    BY <1>2, CpuStep
  <2>2. cpu'.dbgv = IF CpuHalt(port, rst) /\ CpuDbgWe(port)
                    THEN [reg |-> port.cmd_addr, val |-> port.data.val]
                    ELSE [reg |-> Nowhere, val |-> 0]
    BY <2>1 DEF After
  <2> QED
    BY <2>2
<1> QED
  BY <1>1, <1>2

(* The clock of the step pulse issues the instruction that waits.          *)
LEMMA SteppingStep ==
  ASSUME NEW in, Edge(port, cpu, in, FALSE), CpuTypes,
         port.cmd_halt, port.cmd_step, ~port.cmd_reset,
         cpu.pipe = "none", cpu.next = "ready", cpu.issued = 0
  PROVE  cpu'.issued = 1
<1>1. ~CpuReset(port, FALSE) /\ ~CpuHalt(port, FALSE)
  BY DEF CpuReset, CpuHalt
<1>2. Issues(port, cpu, FALSE) = {TRUE}
  BY <1>1 DEF Issues
<1>3. \E e, t, r, n : cpu' = After(TRUE, e, t, r, n, FALSE)
  BY <1>1, <1>2, CpuStep
<1> QED
  BY <1>3 DEF After

(* An edge that changes nothing of a processor that stands still: no value *)
(* is set, and a command, if there is one, only halts.                     *)
Calm ==
  /\ ~CpuDbgWe(port)
  /\ ~(port.stb /\ port.we /\ port.cmd_addr >= 32 /\ SysDbgCyc(port, cpu, FALSE))
  /\ CmdWrite(port) => port.data.halt /\ ~port.data.step /\ ~port.data.reset

LEMMA CalmStep ==
  ASSUME NEW in, Edge(port, cpu, in, FALSE), PortTypes, CpuTypes, Halting, Calm
  PROVE  /\ Halting' /\ cpu'.issued = cpu.issued
         /\ cpu'.pipe # "busy" /\ cpu'.dbgv.reg = Nowhere
         /\ cpu.pipe \in {"none", "done"} => cpu'.pipe = "none"
         /\ cpu.pipe = "none" => ~cpu'.live
         /\ ~cpu'.stall => cpu.pipe \notin {"load", "local"} /\ cpu.next # "empty"
         /\ cpu'.dbg_reg = IF port.cmd_addr < 32 THEN cpu.regs[port.cmd_addr] ELSE 0
         /\ Drained => cpu'.regs = cpu.regs
         /\ Idle /\ cpu.next # "empty" => cpu'.next = cpu.next
         /\ \A b \in Counters : cpu'.regs[b] = cpu.regs[b]
         /\ Steady => Steady'
         /\ Settled => Settled'
<1>1. /\ port'.cmd_reset = (CmdWrite(port) /\ port.data.reset)
      /\ port'.cmd_halt = \/ FALSE
                          \/ IF CmdWrite(port) THEN port.data.halt \/ port.data.step
                             ELSE port.cmd_halt \/ port.cmd_step \/ Break(cpu)
      /\ port'.cmd_step = (CmdWrite(port) /\ port.data.step)
  BY PortStep
<1>2. Halting'
  BY <1>1, PortFields DEF Calm, Halting
<1>3. ~CpuDbgWe(port)
  BY DEF Calm
<1>4. \A r : PeriphWrite(port, cpu, r, FALSE) = r
  BY DEF Calm, PeriphWrite
<1>5. /\ cpu'.issued = cpu.issued
      /\ cpu'.pipe # "busy"
      /\ cpu.pipe \in {"none", "done"} => cpu'.pipe = "none"
      /\ cpu.pipe = "none" => ~cpu'.live
      /\ cpu'.stall = (cpu.pipe \in {"load", "local"} \/ cpu.next = "empty")
      /\ cpu'.dbg_reg = IF port.cmd_addr < 32 THEN cpu.regs[port.cmd_addr] ELSE 0
      /\ ~CpuDbgWe(port) => cpu'.dbgv.reg = Nowhere
      /\ Drained => cpu'.regs = PeriphWrite(port, cpu, cpu.regs, FALSE)
      /\ Idle /\ cpu.next # "empty" => cpu'.next = cpu.next
      /\ \E r \in [Addrs -> Values] :
           /\ cpu'.regs = PeriphWrite(port, cpu, r, FALSE)
           /\ \A b \in Counters : r[b] = cpu.regs[b]
  BY HaltedStep
<1>6. Drained => Drained' /\ cpu'.regs = cpu.regs
  BY <1>3, <1>4, <1>5 DEF Drained, Idle
<1>7. Steady => Steady'
  BY <1>2, <1>6 DEF Steady
<1>8. Settled => Settled'
  <2> SUFFICES ASSUME Settled PROVE Settled'
    OBVIOUS
  <2>1. Idle /\ Steady /\ cpu.next # "empty" /\ cpu.pipe = "none"
    BY DEF Settled, Steady, Drained, Idle
  <2>2. ~cpu'.stall /\ cpu'.next # "empty"
    BY <1>5, <2>1
  <2> QED
    BY <1>7, <2>1, <2>2 DEF Settled
<1>9. ~cpu'.stall => cpu.pipe \notin {"load", "local"} /\ cpu.next # "empty"
  BY <1>5
<1>10. \A b \in Counters : cpu'.regs[b] = cpu.regs[b]
  BY <1>4, <1>5
<1> QED
  BY <1>2, <1>3, <1>5, <1>6, <1>7, <1>8, <1>9, <1>10

-----------------------------------------------------------------------------
(* The access in progress.                                                 *)
LEMMA HeadIs ==
  ASSUME Types, Working
  PROVE  /\ todo \in Seq(Ops) /\ Len(todo) \in Nat \ {0} /\ todo[1] \in Ops
         /\ todo[1].reg \in {0, 1} /\ todo[1].data \in Word
         /\ todo[1].into \in Addrs \cup {Nowhere}
         /\ todo[1].data.addr \in Addrs /\ todo[1].data.val \in Values
         /\ \A i \in 1 .. Len(todo) : Local(todo, i)
         /\ Doing = todo[1].do
         /\ Tail(todo) \in Seq(Ops) /\ Len(Tail(todo)) = Len(todo) - 1
         /\ \A i \in 1 .. Len(todo) - 1 : Tail(todo)[i] = todo[i + 1]
         /\ Grammar(Tail(todo))
<1>1. todo \in Seq(Ops) /\ todo # << >> /\ \A i \in 1 .. Len(todo) : Local(todo, i)
  BY DEF Types, Grammar, Working
<1>2. /\ Tail(todo) \in Seq(Ops) /\ Len(Tail(todo)) = Len(todo) - 1
      /\ Len(todo) \in Nat \ {0}
      /\ \A i \in 1 .. Len(todo) - 1 : Tail(todo)[i] = todo[i + 1]
      /\ todo[1] \in Ops
  BY <1>1, TailOf
<1>3. Grammar(Tail(todo))
  BY <1>1, GrammarTail DEF Types
<1>4. /\ todo[1].reg \in {0, 1} /\ todo[1].data \in Word
      /\ todo[1].into \in Addrs \cup {Nowhere}
  BY <1>2 DEF Ops
<1>5. todo[1].data.addr \in Addrs /\ todo[1].data.val \in Values
  BY <1>4 DEF Word
<1> QED
  BY <1>1, <1>2, <1>3, <1>4, <1>5 DEF Doing

LEMMA PhasesAre ==
  ASSUME Types, Bus
  PROVE  /\ Asking \/ Taken \/ Served \/ Answered
         /\ Asking => ~Taken /\ ~Served /\ ~Answered
         /\ Taken => ~Asking /\ ~Served /\ ~Answered
         /\ Served => ~Asking /\ ~Taken /\ ~Answered
         /\ Answered => ~Asking /\ ~Taken /\ ~Served
  BY DEF Types, Bus, Asking, Taken, Served, Answered

(* Only the write of a counter is kept waiting.                            *)
LEMMA NotStalled ==
  ASSUME Types, Bus, Level, Stalled(port, cpu)
  PROVE  /\ Taken /\ Counting /\ Halting /\ cpu.pipe = "none" /\ OnBus /\ Doing = "write"
         /\ port.reg = 1 /\ port.reg # 0 /\ port.cmd_addr >= 32 /\ ~(port.cmd_addr < 32)
         /\ ~SysDbgCyc(port, cpu, FALSE)
<1>1. port.stb /\ port.cyc /\ port.reg = 1 /\ ~SysDbgCyc(port, cpu, FALSE)
  BY DEF Stalled, DbgStall
<1>2. OnBus /\ Working /\ todo[1].reg = 1 /\ Taken
  BY <1>1, PhasesAre DEF Bus, OnBus
<1>3. Local(todo, 1) /\ Doing = todo[1].do /\ Len(todo) >= 1
      /\ todo[1].into \in Addrs \cup {Nowhere}
  BY <1>2, HeadIs
<1>4. port.cmd_addr \in 0 .. 51
  BY PortFields, AddressIs DEF Types
<1>5. ASSUME cpu.pipe = "none", Halting, port.cmd_addr < 32 \/ ~cpu.stall PROVE FALSE
  <2>1. CpuHalt(port, FALSE)
    BY <1>5 DEF Halting, CpuHalt
  <2> QED
    BY <1>1, <1>5, <2>1 DEF SysDbgCyc
<1>6. CASE Doing = "write"
  <2>1. Sets(todo[1])
    BY <1>2, <1>3, <1>6 DEF Sets
  <2>2. cpu.pipe = "none" /\ Halting
    BY <1>2, <2>1 DEF Level, Setting
  <2>3. port.cmd_addr >= 32 /\ ~(port.cmd_addr < 32)
    BY <1>4, <1>5, <2>2
  <2>4. port.reg # 0
    BY <1>1
  <2> QED
    BY <1>1, <1>2, <1>6, <2>1, <2>2, <2>3, <2>4 DEF Counting
<1>7. CASE Doing = "read"
  <2>1. todo[1].into # Nowhere
    BY <1>2, <1>3, <1>7 DEF Local
  <2>2. /\ Steady /\ port.cmd_addr = todo[1].into
        /\ Ahead(1) => Settled
    BY <1>2, <1>7, <2>1 DEF Level, Reading
  <2>3. port.cmd_addr >= 32 => ~cpu.stall
    <3> SUFFICES ASSUME port.cmd_addr >= 32 PROVE ~cpu.stall
      OBVIOUS
    <3>1. port.cmd_addr \in 32 .. 51
      BY <1>4
    <3>2. Peripheral(todo[1])
      BY <1>3, <1>7, <2>2, <3>1 DEF Peripheral
    <3> QED
      BY <1>3, <2>2, <3>2 DEF Ahead, Settled
  <2>4. port.cmd_addr < 32 \/ ~cpu.stall
    BY <1>4, <2>3
  <2> QED
    BY <1>5, <2>2, <2>4 DEF Steady, Drained, Idle
<1>8. CASE Doing = "poll"
  BY <1>2, <1>3, <1>8 DEF Local
<1> QED
  BY <1>2, <1>6, <1>7, <1>8 DEF OnBus

LEMMA CalmWhen ==
  ASSUME Types, Bus, Level, Taken => Peeks(todo[1]) \/ Stalled(port, cpu)
  PROVE  Calm
<1>1. port.cyc /\ port.stb => Taken
  BY PhasesAre DEF Bus
<1>2. CASE ~(port.cyc /\ port.stb)
  BY <1>2 DEF Calm, CmdWrite, CpuDbgWe, SysDbgCyc
<1>3. CASE Stalled(port, cpu)
  <2>1. port.reg # 0 /\ ~(port.cmd_addr < 32) /\ ~SysDbgCyc(port, cpu, FALSE)
    BY <1>3, NotStalled
  <2> QED
    BY <2>1 DEF Calm, CmdWrite, CpuDbgWe
<1>4. CASE port.cyc /\ port.stb /\ Peeks(todo[1])
  <2>1. /\ Taken /\ port.reg = todo[1].reg
        /\ port.we = (Doing = "write")
        /\ Doing = "write" => port.data = todo[1].data
    BY <1>1, <1>4, PhasesAre DEF Bus
  <2>2. Doing = "write" /\ port.we => Halts(todo[1])
    BY <1>4 DEF Peeks, Doing
  <2>3. port.we => /\ Halts(todo[1]) /\ port.data = todo[1].data /\ port.reg = todo[1].reg
    BY <2>1, <2>2
  <2>4. port.we => /\ port.reg = 0
                   /\ port.data.halt /\ ~port.data.step /\ ~port.data.reset
    BY <2>3 DEF Halts
  <2>5. port.we => port.reg # 1
    BY <2>4
  <2> QED
    BY <2>4, <2>5 DEF Calm, CmdWrite, CpuDbgWe, SysDbgCyc
<1> QED
  BY <1>1, <1>2, <1>3, <1>4

LEMMA OnTheBus ==
  ASSUME Types, Working
  PROVE  /\ Carriable(Request) /\ Carriable(Hold) /\ Carriable(Quiet)
         /\ Request.cyc = TRUE /\ Request.stb = TRUE /\ Request.reg = todo[1].reg
         /\ Request.we = (Doing = "write")
         /\ Doing = "write" => Request.data = todo[1].data
         /\ Hold.cyc = TRUE /\ Hold.stb = FALSE /\ Hold.reg = todo[1].reg
         /\ Hold.we = (Doing = "write")
         /\ Quiet.cyc = FALSE
<1>1. Value(0) \in Word
  BY WordsAre
<1>2. todo[1].reg \in {0, 1} /\ todo[1].data \in Word
  BY HeadIs
<1>3. Quiet.cyc = FALSE /\ Carriable(Quiet)
  BY <1>1 DEF Quiet, Carry, Carriable
<1> DEFINE data == IF Doing = "write" THEN todo[1].data ELSE Value(0)
<1>4. data \in Word /\ (Doing = "write" => data = todo[1].data)
  BY <1>1, <1>2
<1>5. Request = [cyc |-> TRUE, stb |-> TRUE, we |-> Doing = "write",
                 reg |-> todo[1].reg, data |-> data]
  BY DEF Request, Carry
<1>6. (Doing = "write") \in BOOLEAN
  OBVIOUS
<1> HIDE DEF data
<1>7. /\ Request.cyc = TRUE /\ Request.stb = TRUE /\ Request.reg = todo[1].reg
      /\ Request.we = (Doing = "write") /\ Request.data = data
  BY <1>5
<1>8. /\ Hold.cyc = TRUE /\ Hold.stb = FALSE /\ Hold.reg = todo[1].reg
      /\ Hold.we = (Doing = "write") /\ Hold.data = data
  BY <1>5 DEF Hold
<1> QED
  BY <1>2, <1>3, <1>4, <1>6, <1>7, <1>8 DEF Carriable

(* The clocks of an access: those it is kept waiting, the one that serves  *)
(* it, and the one that waits for the answer.                              *)
Waits == Taken /\ Counting /\ Stalled(port, cpu)
Serves == Taken /\ ~Stalled(port, cpu)

LEMMA AwaitIs ==
  ASSUME BusInv, Await
  PROVE  /\ OnBus /\ Working
         /\ \/ /\ Waits /\ Edge(port, cpu, Request, FALSE)
               /\ phase' = "stall" /\ errcount' = errcount + 1
            \/ /\ Serves /\ Edge(port, cpu, Hold, FALSE)
               /\ phase' = "ack" /\ errcount' = errcount + 2
            \/ /\ Served /\ ~Stalled(port, cpu) /\ Edge(port, cpu, Hold, FALSE)
               /\ phase' = "ack" /\ errcount' = errcount + 1
         /\ UNCHANGED << todo, polls, m_state, bomb, ended, settings >>
<1>1. /\ phase # "ask" /\ ~Over /\ OnBus /\ Working
      /\ UNCHANGED << todo, polls, m_state, bomb, ended, settings >>
  BY DEF Await, OnBus
<1>2. errcount \in Nat /\ Patience \in Nat
  BY BoundsAssumption DEF BusInv, Types
<1>3. Stalled(port, cpu) => Taken /\ Counting
  BY NotStalled DEF BusInv
<1>4. CASE Stalling
  <2>1. /\ Edge(port, cpu, Request, FALSE) /\ phase' = "stall" /\ errcount' = errcount + 1
    BY <1>4 DEF Await
  <2> QED
    BY <1>1, <1>3, <1>4, <2>1 DEF Stalling, Waits
<1>5. CASE ~Stalling
  <2>1. /\ Edge(port, cpu, Hold, FALSE) /\ phase' = "ack" /\ errcount' = Waited + 1
    BY <1>5 DEF Await
  <2>2. ~(Waited >= Patience) /\ ~port.ack
    BY <1>1, <1>5 DEF Over
  <2>3. CASE phase = "stall"
    <3>1. Waited = errcount + 1
      BY <2>3 DEF Waited
    <3>2. errcount < Patience /\ errcount' = errcount + 2
      BY <1>2, <2>1, <2>2, <3>1
    <3>3. ~Stalled(port, cpu)
      BY <1>5, <2>3, <3>2 DEF Stalling
    <3> QED
      BY <1>1, <2>1, <2>3, <3>2, <3>3 DEF Serves, Taken
  <2>4. CASE phase = "ack"
    <3>1. Served /\ Waited = errcount
      BY <2>2, <2>4 DEF Served, Waited
    <3>2. ~Stalled(port, cpu)
      BY <1>3, <2>4 DEF Taken
    <3> QED
      BY <1>1, <2>1, <3>1, <3>2
  <2> QED
    BY <1>1, <2>3, <2>4 DEF BusInv, Types
<1> QED
  BY <1>4, <1>5

LEMMA ReleaseIs ==
  ASSUME BusInv, EnoughPatience, Release
  PROVE  /\ OnBus /\ Working /\ Edge(port, cpu, Quiet, FALSE)
         /\ phase' = "ask" /\ errcount' = 0
         /\ ~Counting => Answered /\ bomb' = bomb
         /\ ~Answered => Counting /\ bomb'
         /\ bomb => bomb'
         /\ Deliver /\ UNCHANGED settings
<1>1. /\ OnBus /\ Working /\ phase # "ask" /\ Over /\ Edge(port, cpu, Quiet, FALSE)
      /\ phase' = "ask" /\ errcount' = 0 /\ Deliver /\ UNCHANGED settings
      /\ bomb' = (bomb \/ Waited + 1 >= Patience)
  BY DEF Release, OnBus
<1>2. /\ Patience \in Nat /\ Patience >= 5 /\ errcount \in Nat /\ Waited \in Nat
  BY BoundsAssumption DEF EnoughPatience, BusInv, Types, Waited
<1>3. Types /\ Bus
  BY DEF BusInv
<1>4. ~Answered => Waited >= Patience
  BY <1>1, <1>3, PhasesAre DEF Over, Bus, Asking, Served
<1>5. ~Answered => bomb'
  <2>1. Waited >= Patience => Waited + 1 >= Patience
    BY <1>2
  <2> QED
    BY <1>1, <1>4, <2>1
<1>6. ~Counting => Answered
  <2> SUFFICES ASSUME ~Counting, Taken \/ Served PROVE ~(Waited >= Patience)
    BY <1>1, <1>3, <1>4, PhasesAre DEF Asking
  <2>1. Waited \in {1, 2}
    <3>1. CASE Taken
      <4>1. errcount = 0 /\ phase = "stall"
        BY <1>3, <3>1 DEF Bus, Taken
      <4> QED
        BY <4>1 DEF Waited
    <3>2. CASE Served
      <4>1. errcount = 2 /\ phase = "ack"
        BY <1>3, <3>2 DEF Bus, Served
      <4> QED
        BY <4>1 DEF Waited
    <3> QED
      BY <3>1, <3>2
  <2> QED
    BY <1>2, <2>1
<1>7. ~Counting => bomb' = bomb
  <2> SUFFICES ASSUME ~Counting PROVE ~(Waited + 1 >= Patience)
    BY <1>1, <1>3 DEF Types
  <2>1. errcount = 3 /\ phase = "ack"
    BY <1>3, <1>6 DEF Bus, Answered
  <2>2. Waited = 3
    BY <2>1 DEF Waited
  <2> QED
    BY <1>2, <2>2
<1> QED
  BY <1>1, <1>5, <1>6, <1>7

(* An edge under the invariant.                                            *)
LEMMA Beat ==
  ASSUME NEW in, NEW rst \in BOOLEAN, Edge(port, cpu, in, rst), Carriable(in), Types
  PROVE  /\ PortTypes' /\ CpuTypes'
         /\ port'.cyc = in.cyc
         /\ port'.ack = (port.dbg_ack /\ port.cyc /\ in.cyc)
         /\ port'.out = Odata(port, cpu)
         /\ port'.dbg_ack = (port.cyc /\ ~DbgStall(port, cpu, rst))
         /\ port'.cmd_reset = (CmdWrite(port) /\ port.data.reset)
         /\ port'.cmd_halt = \/ rst
                             \/ IF CmdWrite(port) THEN port.data.halt \/ port.data.step
                                ELSE port.cmd_halt \/ port.cmd_step \/ Break(cpu)
         /\ port'.cmd_step = (CmdWrite(port) /\ port.data.step)
         /\ port'.cmd_addr = IF CmdWrite(port) THEN port.data.addr ELSE port.cmd_addr
         /\ ~Stalled(port, cpu) =>
              /\ port'.stb = (in.cyc /\ in.stb) /\ port'.we = in.we
              /\ port'.reg = in.reg /\ port'.data = in.data
         /\ Stalled(port, cpu) =>
              /\ port'.stb = port.stb /\ port'.we = port.we
              /\ port'.reg = port.reg /\ port'.data = port.data
         /\ cpu'.dbgv.reg # Nowhere => CpuDbgWe(port)
<1>1. PortTypes /\ CpuTypes
  BY DEF Types
<1>2. PortTypes' /\ CpuTypes'
  BY <1>1, PortTyped, CpuTyped
<1>3. cpu'.dbgv.reg # Nowhere => CpuDbgWe(port)
  BY <1>1, DbgvStep
<1> QED
  BY <1>2, <1>3, PortStep

(* And one that changes nothing of a processor that stands still.          *)
LEMMA CalmBeat ==
  ASSUME NEW in, Edge(port, cpu, in, FALSE), Types, Bus, Level,
         Taken => Peeks(todo[1]) \/ Stalled(port, cpu), Halting
  PROVE  /\ Halting' /\ cpu'.issued = cpu.issued
         /\ cpu'.pipe # "busy" /\ cpu'.dbgv.reg = Nowhere
         /\ cpu.pipe \in {"none", "done"} => cpu'.pipe = "none"
         /\ cpu.pipe = "none" => ~cpu'.live
         /\ ~cpu'.stall => cpu.pipe \notin {"load", "local"} /\ cpu.next # "empty"
         /\ cpu'.dbg_reg = IF port.cmd_addr < 32 THEN cpu.regs[port.cmd_addr] ELSE 0
         /\ Drained => cpu'.regs = cpu.regs
         /\ Idle /\ cpu.next # "empty" => cpu'.next = cpu.next
         /\ \A b \in Counters : cpu'.regs[b] = cpu.regs[b]
         /\ Steady => Steady'
         /\ Settled => Settled'
<1>1. Calm /\ PortTypes /\ CpuTypes
  BY CalmWhen DEF Types
<1> QED
  BY <1>1, CalmStep

LEMMA AskIs ==
  ASSUME BusInv, Ask
  PROVE  /\ OnBus /\ Working /\ Asking /\ Edge(port, cpu, Request, FALSE)
         /\ phase' = "stall" /\ errcount' = 0
         /\ UNCHANGED << todo, polls, m_state, bomb, ended, settings >>
  BY DEF Ask, OnBus, Asking

-----------------------------------------------------------------------------
(* The three actions of an access keep the invariant of the bus.           *)
LEMMA TypesKept ==
  ASSUME Types, Working, PortTypes', CpuTypes', phase' \in {"ask", "stall", "ack"},
         errcount' \in Nat, UNCHANGED << todo, polls, m_state, bomb, ended, settings >>
  PROVE  Types'
<1>1. mode # "load"
  BY DEF Types, Working
<1> QED
  BY <1>1 DEF Types, settings

LEMMA AskKeeps ==
  ASSUME BusInv, Ask
  PROVE  BusInv'
<1>1. /\ OnBus /\ Working /\ Asking /\ Edge(port, cpu, Request, FALSE)
      /\ phase' = "stall" /\ errcount' = 0
      /\ UNCHANGED << todo, polls, m_state, bomb, ended, settings >>
  BY AskIs
<1>2. Types /\ Bus /\ Level /\ Carriable(Request)
  BY <1>1, OnTheBus DEF BusInv
<1>3. /\ Request.cyc = TRUE /\ Request.stb = TRUE /\ Request.reg = todo[1].reg
      /\ Request.we = (Doing = "write") /\ (Doing = "write" => Request.data = todo[1].data)
  BY <1>1, <1>2, OnTheBus
<1>4. ~port.cyc /\ ~port.ack /\ ~Taken /\ ~Served /\ ~Answered /\ ~CmdWrite(port)
  BY <1>1, <1>2, PhasesAre DEF Bus, CmdWrite
<1>5. ~Stalled(port, cpu) /\ ~CpuDbgWe(port)
  BY <1>4 DEF Stalled, DbgStall, CpuDbgWe
<1>6. /\ PortTypes' /\ CpuTypes'
      /\ port'.cyc = TRUE /\ port'.stb = TRUE /\ port'.we = (Doing = "write")
      /\ port'.reg = todo[1].reg /\ (Doing = "write" => port'.data = todo[1].data)
      /\ port'.ack = FALSE /\ port'.dbg_ack = FALSE
      /\ port'.cmd_reset = FALSE /\ port'.cmd_step = FALSE
      /\ port'.cmd_addr = port.cmd_addr /\ cpu'.dbgv.reg = Nowhere
  BY <1>1, <1>2, <1>3, <1>4, <1>5, Beat
<1>7. Halting => /\ Halting' /\ cpu'.pipe # "busy"
                 /\ cpu.pipe = "none" => cpu'.pipe = "none" /\ ~cpu'.live
                 /\ Steady => Steady'
                 /\ Settled => Settled'
  BY <1>1, <1>2, <1>4, CalmBeat
<1>8. (Steady => Steady') /\ (Settled => Settled')
  BY <1>7 DEF Steady, Settled
<1>9. Taken' /\ ~Asking' /\ ~Served' /\ ~Answered' /\ OnBus' /\ Working'
      /\ todo' = todo /\ Doing' = Doing
  BY <1>1 DEF Taken, Asking, Served, Answered, OnBus, Working, Doing, Running
<1>10. Types'
  BY <1>1, <1>2, <1>6, TypesKept
<1>11. Bus'
  BY <1>1, <1>6, <1>9 DEF Bus
<1>12. Commanding'
  BY <1>1, <1>2, <1>8, <1>9 DEF Level, Commanding, Ahead
<1>13. Polling'
  BY <1>1, <1>2, <1>6, <1>7, <1>8, <1>9 DEF Level, Polling, Ahead
<1>14. Reading'
  BY <1>1, <1>2, <1>6, <1>8, <1>9 DEF Level, Reading, Ahead
<1>15. Setting'
  BY <1>1, <1>2, <1>6, <1>7, <1>9 DEF Level, Setting
<1>16. Pulses'
  BY <1>6 DEF Pulses
<1> QED
  BY <1>10, <1>11, <1>12, <1>13, <1>14, <1>15, <1>16 DEF BusInv, Level

LEMMA WaitingKeeps ==
  ASSUME BusInv, Await, Waits, Edge(port, cpu, Request, FALSE), phase' = "stall"
  PROVE  BusInv'
<1>1. /\ OnBus /\ Working /\ errcount' = errcount + 1
      /\ UNCHANGED << todo, polls, m_state, bomb, ended, settings >>
  BY AwaitIs DEF Serves, Served, Taken
<1>2. Types /\ Bus /\ Level /\ Carriable(Request) /\ Stalled(port, cpu) /\ Taken /\ Counting
  BY <1>1, OnTheBus DEF BusInv, Waits
<1>3. /\ Halting /\ cpu.pipe = "none" /\ Doing = "write" /\ port.reg = 1 /\ port.reg # 0
      /\ port.cmd_addr >= 32 /\ ~SysDbgCyc(port, cpu, FALSE)
  BY <1>2, NotStalled
<1>4. /\ port.cyc /\ port.stb /\ port.we /\ port.reg = todo[1].reg /\ port.data = todo[1].data
      /\ ~Asking /\ ~Served /\ ~Answered
  BY <1>2, <1>3, PhasesAre DEF Bus
<1>5. /\ ~CmdWrite(port) /\ DbgStall(port, cpu, FALSE)
      /\ Request.cyc = TRUE
  BY <1>1, <1>2, <1>3, OnTheBus DEF CmdWrite, Stalled
<1>6. /\ PortTypes' /\ CpuTypes'
      /\ port'.cyc = TRUE /\ port'.stb = port.stb /\ port'.we = port.we
      /\ port'.reg = port.reg /\ port'.data = port.data
      /\ port'.ack = (port.dbg_ack /\ port.cyc /\ TRUE) /\ port'.dbg_ack = FALSE
      /\ port'.cmd_reset = FALSE /\ port'.cmd_step = FALSE
      /\ port'.cmd_addr = port.cmd_addr
  BY <1>1, <1>2, <1>5, Beat
<1>7. port'.ack = FALSE
  BY <1>2, <1>6 DEF Bus
<1>8. Halting' /\ cpu'.pipe = "none" /\ ~cpu'.live /\ cpu'.dbgv.reg = Nowhere
  BY <1>2, <1>3, CalmBeat
<1>9. Taken' /\ ~Asking' /\ ~Served' /\ ~Answered' /\ OnBus' /\ Working'
      /\ todo' = todo /\ Doing' = Doing /\ Counting'
  BY <1>1, <1>2, <1>6 DEF Taken, Asking, Served, Answered, OnBus, Working, Doing, Running, Counting
<1>10. Types'
  <2>1. errcount' \in Nat
    BY <1>1, <1>2 DEF Types
  <2> QED
    BY <1>1, <1>2, <1>6, <2>1, TypesKept
<1>11. Bus'
  BY <1>3, <1>4, <1>6, <1>7, <1>8, <1>9 DEF Bus
<1>12. Sets(todo[1]) /\ Doing = todo[1].do
  BY <1>2 DEF Counting, Doing
<1>13. Commanding' /\ Polling' /\ Reading'
  BY <1>3, <1>9, <1>12 DEF Commanding, Polling, Reading, Halts, Sets
<1>14. Setting'
  BY <1>8, <1>9 DEF Setting
<1>15. Pulses'
  BY <1>6 DEF Pulses
<1> QED
  BY <1>10, <1>11, <1>13, <1>14, <1>15 DEF BusInv, Level

LEMMA TakenKeeps ==
  ASSUME BusInv, Await, Serves, Edge(port, cpu, Hold, FALSE), phase' = "ack"
  PROVE  BusInv'
<1>1. /\ OnBus /\ Working /\ errcount' = errcount + 2
      /\ UNCHANGED << todo, polls, m_state, bomb, ended, settings >>
  BY AwaitIs DEF Waits, Serves, Served, Taken
<1>2. Types /\ Bus /\ Level /\ Carriable(Hold) /\ Taken /\ ~Stalled(port, cpu)
  BY <1>1, OnTheBus DEF BusInv, Serves
<1>3. Hold.cyc = TRUE /\ Hold.stb = FALSE /\ Hold.reg = todo[1].reg
      /\ Hold.we = (Doing = "write")
  BY <1>1, <1>2, OnTheBus
<1>4. /\ port.cyc /\ port.stb /\ ~port.ack /\ ~port.dbg_ack
      /\ port.reg = todo[1].reg /\ port.we = (Doing = "write")
      /\ Doing = "write" => port.data = todo[1].data
      /\ ~Asking /\ ~Served /\ ~Answered
  BY <1>2, PhasesAre DEF Bus
<1>5. port.cyc /\ ~DbgStall(port, cpu, FALSE)
  BY <1>2, <1>4 DEF Stalled
<1>6. /\ PortTypes' /\ CpuTypes'
      /\ port'.cyc = TRUE /\ port'.stb = FALSE /\ port'.we = (Doing = "write")
      /\ port'.reg = todo[1].reg
      /\ port'.ack = FALSE /\ port'.dbg_ack = TRUE
      /\ port'.cmd_reset = (CmdWrite(port) /\ port.data.reset)
      /\ port'.cmd_halt = \/ FALSE
                          \/ IF CmdWrite(port) THEN port.data.halt \/ port.data.step
                             ELSE port.cmd_halt \/ port.cmd_step \/ Break(cpu)
      /\ port'.cmd_step = (CmdWrite(port) /\ port.data.step)
      /\ port'.cmd_addr = IF CmdWrite(port) THEN port.data.addr ELSE port.cmd_addr
      /\ cpu'.dbgv.reg # Nowhere => CpuDbgWe(port)
  BY <1>1, <1>2, <1>3, <1>4, <1>5, Beat
<1>7. CmdWrite(port) <=> Doing = "write" /\ todo[1].reg = 0
  BY <1>4 DEF CmdWrite
<1>8. Halting /\ Peeks(todo[1]) =>
        /\ Halting' /\ cpu'.pipe # "busy"
        /\ cpu.pipe \in {"none", "done"} => cpu'.pipe = "none"
        /\ ~cpu'.stall => cpu.pipe \notin {"load", "local"} /\ cpu.next # "empty"
        /\ cpu'.dbg_reg = IF port.cmd_addr < 32 THEN cpu.regs[port.cmd_addr] ELSE 0
        /\ Drained => cpu'.regs = cpu.regs
        /\ Idle /\ cpu.next # "empty" => cpu'.next = cpu.next
        /\ Steady => Steady'
        /\ Settled => Settled'
  BY <1>1, <1>2, CalmBeat
<1>9. Served' /\ ~Asking' /\ ~Taken' /\ ~Answered' /\ OnBus' /\ Working'
      /\ todo' = todo /\ Doing' = Doing
  BY <1>1, <1>6 DEF Taken, Asking, Served, Answered, OnBus, Working, Doing, Running
<1>10. Types'
  <2>1. errcount' \in Nat
    BY <1>1, <1>2 DEF Types
  <2> QED
    BY <1>1, <1>2, <1>6, <2>1, TypesKept
<1>11. Bus'
  <2>1. cpu'.dbgv.reg # Nowhere => Sets(todo[1]) /\ port'.cmd_addr < 32
    <3> SUFFICES ASSUME CpuDbgWe(port) PROVE Sets(todo[1]) /\ port'.cmd_addr < 32
      BY <1>6
    <3>1. Doing = "write" /\ port.reg = 1 /\ port.cmd_addr < 32
      BY <1>4 DEF CpuDbgWe
    <3>2. todo[1].reg = 1 /\ todo[1].reg # 0
      BY <1>4, <3>1
    <3> QED
      BY <1>6, <1>7, <3>1, <3>2 DEF Sets, Doing
  <2>2. ~Counting' => errcount' = 2
    <3>1. Counting' <=> Counting
      <4>1. Sets(todo[1]) => ~CmdWrite(port)
        BY <1>7 DEF Sets
      <4> QED
        BY <1>1, <1>6, <1>9, <4>1 DEF Counting
    <3> QED
      BY <1>1, <1>2, <3>1 DEF Bus
  <2> QED
    BY <1>1, <1>6, <1>9, <2>1, <2>2 DEF Bus
<1>12. Commanding'
  <2> SUFFICES ASSUME Halts(todo[1]) PROVE Commanding'
    BY <1>9 DEF Commanding
  <2>1. /\ CmdWrite(port) /\ port.data = todo[1].data /\ Peeks(todo[1])
        /\ todo[1].data.halt /\ ~todo[1].data.step /\ ~todo[1].data.reset
    BY <1>4, <1>7 DEF Halts, Peeks, Doing
  <2>2. Halting' /\ port'.cmd_addr = todo[1].data.addr
    <3>1. port.data.halt /\ ~port.data.step /\ ~port.data.reset
      BY <2>1
    <3>2. port'.cmd_halt /\ ~port'.cmd_step /\ ~port'.cmd_reset
      BY <1>6, <2>1, <3>1
    <3> QED
      BY <1>6, <2>1, <3>2 DEF Halting
  <2>3. Ahead(3) => Steady'
    BY <1>1, <1>2, <1>8, <2>1 DEF Level, Commanding, Steady
  <2> QED
    BY <1>9, <2>2, <2>3 DEF Commanding, Ahead
<1>13. Polling'
  <2> SUFFICES ASSUME Doing = "poll" PROVE Polling'
    BY <1>9 DEF Polling
  <2>1. /\ Halting /\ cpu.pipe # "busy" /\ Peeks(todo[1]) /\ ~CmdWrite(port)
        /\ Len(todo) > 1 /\ todo[2].do = "read" /\ todo[2].into # Nowhere =>
             port.cmd_addr = todo[2].into
        /\ Ahead(2) => Steady
    BY <1>1, <1>2, <1>7 DEF Level, Polling, Peeks, Doing
  <2>2. ~cpu'.stall => cpu'.pipe = "none"
    <3>1. cpu.pipe \in {"none", "busy", "load", "local", "done"}
      BY <1>2, CpuFields DEF Types
    <3> QED
      BY <1>8, <2>1, <3>1
  <2>3. Ahead(2) => Steady' /\ (~cpu'.stall => cpu'.next # "empty")
    BY <1>8, <2>1 DEF Steady, Drained
  <2>4. Halting' /\ cpu'.pipe # "busy" /\ port'.cmd_addr = port.cmd_addr
    BY <1>6, <1>8, <2>1
  <2> QED
    BY <1>9, <2>1, <2>2, <2>3, <2>4 DEF Polling, Ahead
<1>14. Reading'
  <2> SUFFICES ASSUME Doing = "read" PROVE Reading'
    BY <1>9 DEF Reading
  <2>1. /\ Steady /\ Halting /\ Drained /\ Peeks(todo[1]) /\ ~CmdWrite(port)
        /\ todo[1].into # Nowhere => port.cmd_addr = todo[1].into /\ (Ahead(1) => Settled)
    BY <1>1, <1>2, <1>7 DEF Level, Reading, Peeks, Steady, Doing
  <2>2. /\ Steady' /\ cpu'.regs = cpu.regs /\ port'.cmd_addr = port.cmd_addr
        /\ Settled => Settled'
        /\ port.cmd_addr < 32 => cpu'.dbg_reg = cpu.regs[port.cmd_addr]
    BY <1>6, <1>8, <2>1
  <2> QED
    BY <1>9, <2>1, <2>2 DEF Reading, Ahead
<1>15. Setting'
  <2> SUFFICES ASSUME Sets(todo[1]) PROVE Setting'
    BY <1>9 DEF Setting
  <2>1. /\ Halting /\ cpu.pipe = "none" /\ port.cmd_addr \in Addrs
        /\ port.we /\ port.reg = 1 /\ port.data = todo[1].data /\ ~CmdWrite(port)
    <3>1. Doing = "write" /\ todo[1].reg = 1
      BY DEF Sets, Doing
    <3>2. Halting /\ cpu.pipe = "none" /\ port.cmd_addr \in Addrs
      BY <1>1, <1>2, PortFields DEF Level, Setting, Types
    <3>3. port.we /\ port.reg = 1 /\ port.data = todo[1].data
      BY <1>4, <3>1
    <3>4. ~CmdWrite(port)
      BY <3>3 DEF CmdWrite
    <3> QED
      BY <3>2, <3>3, <3>4
  <2>2. port'.cmd_addr = port.cmd_addr /\ Halting'
    BY <1>6, <2>1 DEF Halting
  <2>3. /\ cpu'.pipe = "none" /\ ~cpu'.live
        /\ CpuDbgWe(port) => cpu'.dbgv = [reg |-> port.cmd_addr, val |-> port.data.val]
        /\ \E r \in [Addrs -> Values] : cpu'.regs = PeriphWrite(port, cpu, r, FALSE)
    BY <1>2, <2>1, HaltedStep DEF Types
  <2>4. CASE Counting
    <3>1. port.cmd_addr >= 32 /\ Counting'
      BY <1>9, <2>2, <2>4 DEF Counting
    <3>2. SysDbgCyc(port, cpu, FALSE)
      BY <1>5, <2>1 DEF DbgStall
    <3>3. PICK r \in [Addrs -> Values] : cpu'.regs = PeriphWrite(port, cpu, r, FALSE)
      BY <2>3
    <3>4. cpu'.regs = [r EXCEPT ![port.cmd_addr] = port.data.val]
      BY <1>4, <2>1, <3>1, <3>2, <3>3 DEF PeriphWrite
    <3>5. cpu'.regs[port.cmd_addr] = port.data.val
      BY <2>1, <3>4
    <3> QED
      BY <1>9, <2>1, <2>2, <2>3, <3>1, <3>5 DEF Setting
  <2>5. CASE ~Counting
    <3>1. port.cmd_addr < 32
      <4>1. port.cmd_addr \in Int
        BY <2>1, AddressIs
      <4> QED
        BY <1>1, <2>5, <4>1 DEF Counting
    <3>2. CpuDbgWe(port)
      BY <1>4, <2>1, <3>1 DEF CpuDbgWe
    <3>3. ~Counting'
      BY <1>1, <1>9, <2>2, <2>5 DEF Counting
    <3> QED
      BY <1>9, <2>1, <2>2, <2>3, <3>2, <3>3 DEF Setting
  <2> QED
    BY <2>4, <2>5
<1>16. Pulses'
  <2>1. port'.cmd_step \/ port'.cmd_reset => Doing = "write"
    BY <1>6, <1>7
  <2> QED
    BY <1>9, <2>1 DEF Pulses
<1> QED
  BY <1>10, <1>11, <1>12, <1>13, <1>14, <1>15, <1>16 DEF BusInv, Level

LEMMA ServedKeeps ==
  ASSUME BusInv, Await, Served
  PROVE  BusInv'
<1>1. /\ OnBus /\ Working /\ Edge(port, cpu, Hold, FALSE) /\ phase' = "ack"
      /\ errcount' = errcount + 1 /\ ~Stalled(port, cpu)
      /\ UNCHANGED << todo, polls, m_state, bomb, ended, settings >>
  BY AwaitIs DEF Waits, Serves, Taken, Served
<1>2. Types /\ Bus /\ Level /\ Carriable(Hold)
  BY <1>1, OnTheBus DEF BusInv
<1>3. Hold.cyc = TRUE /\ Hold.stb = FALSE /\ Hold.reg = todo[1].reg
      /\ Hold.we = (Doing = "write")
  BY <1>1, <1>2, OnTheBus
<1>4. /\ port.cyc /\ ~port.stb /\ port.dbg_ack /\ port.reg = todo[1].reg
      /\ ~Asking /\ ~Taken /\ ~Answered /\ ~CmdWrite(port) /\ ~CpuDbgWe(port)
  BY <1>2, PhasesAre DEF Bus, Served, CmdWrite, CpuDbgWe
<1>5. /\ PortTypes' /\ CpuTypes'
      /\ port'.cyc = TRUE /\ port'.stb = FALSE /\ port'.we = (Doing = "write")
      /\ port'.reg = todo[1].reg
      /\ port'.ack = TRUE /\ port'.out = Odata(port, cpu)
      /\ port'.cmd_reset = FALSE /\ port'.cmd_step = FALSE
      /\ port'.cmd_addr = port.cmd_addr /\ cpu'.dbgv.reg = Nowhere
  BY <1>1, <1>2, <1>3, <1>4, Beat
<1>6. Halting =>
        /\ Halting' /\ cpu'.pipe # "busy"
        /\ cpu.pipe = "none" => cpu'.pipe = "none" /\ ~cpu'.live
        /\ \A b \in Counters : cpu'.regs[b] = cpu.regs[b]
        /\ Drained => cpu'.regs = cpu.regs
        /\ Steady => Steady'
        /\ Settled => Settled'
  BY <1>1, <1>2, <1>4, CalmBeat
<1>7. Answered' /\ ~Asking' /\ ~Taken' /\ ~Served' /\ OnBus' /\ Working'
      /\ todo' = todo /\ Doing' = Doing
  BY <1>1, <1>5 DEF Taken, Asking, Served, Answered, OnBus, Working, Doing, Running
<1>8. Types'
  <2>1. errcount' \in Nat
    BY <1>1, <1>2 DEF Types
  <2> QED
    BY <1>1, <1>2, <1>5, <2>1, TypesKept
<1>9. Bus'
  <2>1. ~Counting' => errcount' = 3
    <3>1. Counting' <=> Counting
      BY <1>1, <1>5, <1>7 DEF Counting
    <3> QED
      BY <1>1, <1>2, <3>1 DEF Bus
  <2> QED
    BY <1>1, <1>5, <1>7, <2>1 DEF Bus
<1>10. Commanding'
  <2> SUFFICES ASSUME Halts(todo[1]) PROVE Commanding'
    BY <1>7 DEF Commanding
  <2>1. /\ Halting /\ port.cmd_addr = todo[1].data.addr
        /\ Ahead(3) => Steady
    BY <1>1, <1>2 DEF Level, Commanding
  <2> QED
    BY <1>5, <1>6, <1>7, <2>1 DEF Commanding, Ahead
<1>11. Polling'
  <2> SUFFICES ASSUME Doing = "poll" PROVE Polling'
    BY <1>7 DEF Polling
  <2>1. /\ Halting /\ cpu.pipe # "busy"
        /\ Len(todo) > 1 /\ todo[2].do = "read" /\ todo[2].into # Nowhere =>
             port.cmd_addr = todo[2].into
        /\ ~cpu.stall => cpu.pipe = "none"
        /\ Ahead(2) => Steady /\ (~cpu.stall => cpu.next # "empty")
    BY <1>1, <1>2 DEF Level, Polling
  <2>2. port'.out.free = ~cpu.stall
    <3>1. Local(todo, 1) /\ Doing = todo[1].do
      BY <1>1, <1>2, HeadIs
    <3>2. port.reg = 0
      BY <1>4, <3>1 DEF Local
    <3> QED
      BY <1>5, <3>2 DEF Odata
  <2>3. port'.out.free => Drained'
    BY <1>5, <1>6, <2>1, <2>2 DEF Drained, Idle
  <2>4. Ahead(2) => Steady' /\ (port'.out.free => Settled')
    BY <1>6, <2>1, <2>2 DEF Settled, Steady
  <2> QED
    BY <1>5, <1>6, <1>7, <2>1, <2>3, <2>4 DEF Polling, Ahead
<1>12. Reading'
  <2> SUFFICES ASSUME Doing = "read" PROVE Reading'
    BY <1>7 DEF Reading
  <2>1. /\ Steady /\ Halting /\ Drained
        /\ todo[1].into # Nowhere =>
             /\ port.cmd_addr = todo[1].into /\ (Ahead(1) => Settled)
             /\ port.cmd_addr < 32 => cpu.dbg_reg = cpu.regs[port.cmd_addr]
    BY <1>1, <1>2 DEF Level, Reading, Steady
  <2>2. Steady' /\ cpu'.regs = cpu.regs /\ (Settled => Settled')
    BY <1>6, <2>1
  <2>3. todo[1].into # Nowhere => port'.out.val = cpu.regs[port.cmd_addr]
    <3> SUFFICES ASSUME todo[1].into # Nowhere
                 PROVE  port'.out.val = cpu.regs[port.cmd_addr]
      OBVIOUS
    <3>1. Local(todo, 1) /\ Doing = todo[1].do
      BY <1>1, <1>2, HeadIs
    <3>2. port.reg = 1
      BY <1>4, <3>1 DEF Local
    <3> QED
      BY <1>5, <2>1, <3>2 DEF Odata
  <2> QED
    BY <1>5, <1>7, <2>1, <2>2, <2>3 DEF Reading, Ahead
<1>13. Setting'
  <2> SUFFICES ASSUME Sets(todo[1]) PROVE Setting'
    BY <1>7 DEF Setting
  <2>1. /\ Halting /\ cpu.pipe = "none" /\ ~cpu.live /\ Setting
        /\ port.cmd_addr \in Addrs /\ port.cmd_addr # Nowhere /\ port.cmd_addr \in Int
        /\ cpu.regs \in [Addrs -> Values]
    BY <1>1, <1>2, PortFields, CpuFields, AddressIs DEF Level, Setting, Types
  <2>2. Halting' /\ cpu'.pipe = "none" /\ ~cpu'.live
    BY <1>6, <2>1
  <2>3. /\ todo[1]' = todo[1] /\ port'.cmd_addr = port.cmd_addr
        /\ ~Served' /\ (Counting' <=> Counting)
    BY <1>1, <1>5, <1>7 DEF Counting
  <2>4. CASE Counting
    <3>1. cpu.regs[port.cmd_addr] = todo[1].data.val
      BY <2>1, <2>4 DEF Setting
    <3>2. port.cmd_addr \in Counters
      BY <2>1, <2>4, AddrsAssumption DEF Counting, Counters
    <3>3. cpu'.regs[port.cmd_addr] = todo[1].data.val
      BY <1>6, <2>1, <3>1, <3>2
    <3> QED
      BY <2>2, <2>3, <2>4, <3>3 DEF Setting
  <2>5. CASE ~Counting
    <3>1. cpu.dbgv = [reg |-> port.cmd_addr, val |-> todo[1].data.val]
      BY <2>1, <2>5 DEF Setting
    <3>2. ASSUME ~IsCC(port.cmd_addr)
          PROVE  cpu'.regs[port.cmd_addr] = todo[1].data.val
      <4>1. cpu.dbgv.reg = port.cmd_addr /\ cpu.dbgv.val = todo[1].data.val
        BY <3>1
      <4>2. cpu.dbgv.reg # Nowhere /\ ~IsCC(cpu.dbgv.reg) /\ PortTypes /\ CpuTypes
        BY <1>2, <2>1, <3>2, <4>1 DEF Types
      <4>3. cpu'.regs = PeriphWrite(port, cpu,
                          [cpu.regs EXCEPT ![cpu.dbgv.reg] = cpu.dbgv.val], FALSE)
        BY <1>1, <2>1, <4>2, HaltedStep
      <4>4. cpu'.regs = [cpu.regs EXCEPT ![port.cmd_addr] = todo[1].data.val]
        BY <1>4, <4>1, <4>3 DEF PeriphWrite
      <4> QED
        BY <2>1, <4>4
    <3> QED
      BY <2>2, <2>3, <2>5, <3>2 DEF Setting
  <2> QED
    BY <2>4, <2>5
<1>14. Pulses'
  BY <1>5 DEF Pulses
<1> QED
  BY <1>8, <1>9, <1>10, <1>11, <1>12, <1>13, <1>14 DEF BusInv, Level

(* What the caller has after an access.                                    *)
LEMMA Delivered ==
  ASSUME BusInv, EnoughPatience, Release
  PROVE  /\ OnBus /\ Working /\ Edge(port, cpu, Quiet, FALSE) /\ Asking'
         /\ phase' = "ask" /\ errcount' = 0 /\ UNCHANGED settings
         /\ ~Counting => Answered /\ bomb' = bomb
         /\ ~Answered => Counting /\ bomb'
         /\ bomb => bomb'
         /\ \/ todo' = todo /\ Doing = "poll"
            \/ todo' = Tail(todo) /\ (Running' /\ Doing = "poll" => port.out.free)
         /\ m_state' = IF Doing = "read" /\ todo[1].into # Nowhere
                       THEN [m_state EXCEPT ![todo[1].into] = port.out.val] ELSE m_state
<1>1. /\ OnBus /\ Working /\ Edge(port, cpu, Quiet, FALSE)
      /\ phase' = "ask" /\ errcount' = 0 /\ Deliver /\ UNCHANGED settings
      /\ ~Counting => Answered /\ bomb' = bomb
      /\ ~Answered => Counting /\ bomb'
      /\ bomb => bomb'
  BY ReleaseIs
<1>2. Asking'
  BY <1>1 DEF Asking
<1>3. Local(todo, 1) /\ Doing = todo[1].do
  BY <1>1, HeadIs DEF BusInv
<1>4. CASE Doing = "poll"
  <2>1. /\ IF polls >= MaxErr THEN ended' = todo[1].fail ELSE UNCHANGED ended
        /\ IF port.out.free \/ polls >= MaxErr
           THEN todo' = Tail(todo) /\ polls' = 0
           ELSE todo' = todo /\ polls' = Polled(polls)
        /\ UNCHANGED m_state
    BY <1>1, <1>4 DEF Deliver
  <2>2. todo[1].fail # "no"
    BY <1>3, <1>4 DEF Local
  <2>3. Running' => ~(polls >= MaxErr)
    BY <2>1, <2>2 DEF Running
  <2> QED
    BY <1>1, <1>2, <1>4, <2>1, <2>3
<1>5. CASE Doing # "poll"
  BY <1>1, <1>2, <1>5 DEF Deliver
<1> QED
  BY <1>4, <1>5

LEMMA ReleaseBeat ==
  ASSUME BusInv, EnoughPatience, Release
  PROVE  /\ Types /\ Bus /\ Level /\ PortTypes' /\ CpuTypes'
         /\ ~port'.cyc /\ ~port'.ack
         /\ port'.cmd_reset = FALSE /\ port'.cmd_step = FALSE
         /\ port'.cmd_addr = port.cmd_addr /\ cpu'.dbgv.reg = Nowhere
         /\ Halting => Halting'
         /\ Halting /\ Answered =>
              /\ cpu'.pipe # "busy" /\ cpu'.issued = cpu.issued
              /\ cpu.pipe = "none" => cpu'.pipe = "none"
              /\ Steady => Steady' /\ cpu'.regs = cpu.regs
              /\ Settled => Settled'
<1>1. OnBus /\ Working /\ Edge(port, cpu, Quiet, FALSE) /\ (~Answered => Counting)
  BY Delivered
<1>2. Types /\ Bus /\ Level /\ Carriable(Quiet) /\ Quiet.cyc = FALSE
  BY <1>1, OnTheBus DEF BusInv
<1>3. ~CmdWrite(port) /\ ~CpuDbgWe(port)
  <2> SUFFICES ASSUME port.cyc, port.stb PROVE port.reg # 0 /\ ~(port.cmd_addr < 32)
    BY DEF CmdWrite, CpuDbgWe
  <2>1. Taken /\ ~Answered
    BY <1>2, PhasesAre DEF Bus
  <2>2. Counting /\ ~Asking
    BY <1>1, <1>2, <2>1, PhasesAre
  <2>3. port.reg = todo[1].reg
    BY <1>2, <2>2 DEF Bus
  <2>5. port.cmd_addr \in Int
    <3>1. port.cmd_addr \in Addrs
      BY <1>2, PortFields DEF Types
    <3> QED
      BY <3>1, AddressIs
  <2>4. port.reg = 1 /\ port.cmd_addr >= 32
    BY <2>2, <2>3 DEF Counting, Sets
  <2> QED
    BY <2>4, <2>5
<1>4. /\ PortTypes' /\ CpuTypes'
      /\ port'.cyc = FALSE /\ port'.ack = (port.dbg_ack /\ port.cyc /\ FALSE)
      /\ port'.cmd_reset = FALSE /\ port'.cmd_step = FALSE
      /\ port'.cmd_halt = (port.cmd_halt \/ port.cmd_step \/ Break(cpu))
      /\ port'.cmd_addr = port.cmd_addr /\ cpu'.dbgv.reg = Nowhere
  BY <1>1, <1>2, <1>3, Beat
<1>5. Halting => Halting'
  BY <1>4 DEF Halting
<1>6. Halting /\ Answered =>
        /\ cpu'.pipe # "busy" /\ cpu'.issued = cpu.issued
        /\ cpu.pipe \in {"none", "done"} => cpu'.pipe = "none"
        /\ Drained => cpu'.regs = cpu.regs
        /\ Steady => Steady'
        /\ Settled => Settled'
  BY <1>1, <1>2, PhasesAre, CalmBeat
<1> QED
  BY <1>2, <1>4, <1>5, <1>6 DEF Steady

LEMMA ReleaseTypes ==
  ASSUME BusInv, EnoughPatience, Release
  PROVE  Types'
<1>1. /\ Working /\ phase' = "ask" /\ errcount' = 0 /\ UNCHANGED settings
      /\ todo' = todo \/ todo' = Tail(todo)
      /\ m_state' = IF Doing = "read" /\ todo[1].into # Nowhere
                    THEN [m_state EXCEPT ![todo[1].into] = port.out.val] ELSE m_state
  BY Delivered
<1>2. Types /\ PortTypes' /\ CpuTypes' /\ mode # "load"
  BY <1>1, ReleaseBeat DEF Types, Working
<1>3. Grammar(todo)'
  <2>1. Grammar(todo) /\ Grammar(Tail(todo))
    BY <1>1, <1>2, HeadIs DEF Types
  <2> QED
    BY <1>1, <2>1
<1>4. m_state' \in [Addrs -> Values \cup {Unread}]
  <2>1. port.out.val \in Values /\ m_state \in [Addrs -> Values \cup {Unread}]
    BY <1>2, PortFields DEF Types
  <2> QED
    BY <1>1, <2>1
<1>5. /\ mode' = mode /\ manual' = manual /\ halted' = halted /\ edit' = edit
      /\ stepping' = stepping /\ m_show_user_timers' = m_show_user_timers
  BY <1>1 DEF settings
<1>6. (edit = NoEdit \/ (edit.cursor \in Cursors /\ edit.val \in Values))'
  BY <1>2, <1>5 DEF Types, NoEdit
<1>7. /\ mode \in {"load", "autorun", "autostep", "interactive"}
      /\ manual \in BOOLEAN /\ halted \in BOOLEAN /\ stepping \in BOOLEAN
      /\ m_show_user_timers \in BOOLEAN /\ bomb \in BOOLEAN
      /\ mode # "interactive" => edit = NoEdit /\ ~stepping
  BY <1>2 DEF Types
<1>8. (mode # "interactive" => edit = NoEdit /\ ~stepping)'
  BY <1>5, <1>7 DEF NoEdit
<1>9. bomb' \in BOOLEAN
  BY DEF Release
<1> QED
  BY <1>1, <1>2, <1>3, <1>4, <1>5, <1>6, <1>7, <1>8, <1>9 DEF Types

LEMMA ReleaseKeeps ==
  ASSUME BusInv, EnoughPatience, Release
  PROVE  BusInv'
<1>1. /\ OnBus /\ Working /\ Asking' /\ phase' = "ask" /\ errcount' = 0
      /\ ~Answered => Counting
      /\ \/ todo' = todo /\ Doing = "poll"
         \/ todo' = Tail(todo) /\ (Running' /\ Doing = "poll" => port.out.free)
  BY Delivered
<1>2. /\ Types /\ Bus /\ Level
      /\ ~port'.cyc /\ ~port'.ack
      /\ port'.cmd_reset = FALSE /\ port'.cmd_step = FALSE
      /\ port'.cmd_addr = port.cmd_addr /\ cpu'.dbgv.reg = Nowhere
  BY ReleaseBeat
<1>3. Halting /\ ~Counting =>
        /\ Halting' /\ cpu'.pipe # "busy"
        /\ cpu.pipe = "none" => cpu'.pipe = "none"
        /\ Steady => Steady'
        /\ Settled => Settled'
  BY <1>1, ReleaseBeat
<1>4. ~Counting => /\ Steady => Steady'
                   /\ Settled => Settled'
                   /\ Answered /\ ~Served /\ cpu.dbgv.reg = Nowhere
  BY <1>1, <1>2, <1>3, PhasesAre DEF Steady, Settled, Bus
<1>5. ~Taken' /\ ~Served' /\ ~Answered' /\ phase' # "ack"
  BY <1>1 DEF Taken, Served, Answered
<1>6. Types'
  BY ReleaseTypes
<1>7. Bus'
  BY <1>1, <1>2, <1>5 DEF Bus
<1>8. Pulses'
  BY <1>2 DEF Pulses
<1>9. CASE todo' = todo /\ Doing = "poll"
  <2>1. ~Counting
    BY <1>9 DEF Counting, Sets, Doing
  <2>2. /\ Halting
        /\ Len(todo) > 1 /\ todo[2].do = "read" /\ todo[2].into # Nowhere =>
             port.cmd_addr = todo[2].into
        /\ Ahead(2) => Steady
    BY <1>1, <1>2, <1>9 DEF Level, Polling
  <2>3. Polling'
    BY <1>2, <1>3, <1>4, <1>5, <1>9, <2>1, <2>2 DEF Polling, Ahead
  <2>4. Commanding' /\ Reading' /\ Setting'
    BY <1>9 DEF Commanding, Reading, Setting, Halts, Sets, Doing
  <2> QED
    BY <1>1, <1>6, <1>7, <1>8, <2>3, <2>4 DEF BusInv, Level
<1>10. CASE todo' = Tail(todo) /\ (Running' /\ Doing = "poll" => port.out.free)
  <2> SUFFICES ASSUME Working' PROVE (Commanding /\ Polling /\ Reading /\ Setting)'
    BY <1>1, <1>6, <1>7, <1>8 DEF BusInv, Level
  <2>1. Running' /\ todo' # << >> /\ (Doing = "poll" => port.out.free)
    BY <1>10 DEF Working
  <2> DEFINE n == Len(todo)
  <2>2. /\ n \in Nat /\ n >= 2 /\ Len(todo') = n - 1
        /\ \A i \in 1 .. n - 1 : todo'[i] = todo[i + 1]
        /\ \A i \in 1 .. n : Local(todo, i)
        /\ Doing = todo[1].do
    <3>1. /\ n \in Nat \ {0} /\ Tail(todo) \in Seq(Ops) /\ Len(Tail(todo)) = n - 1
          /\ \A i \in 1 .. n - 1 : Tail(todo)[i] = todo[i + 1]
          /\ \A i \in 1 .. n : Local(todo, i)
          /\ Doing = todo[1].do
      BY <1>1, <1>2, HeadIs
    <3> HIDE DEF n
    <3>2. n - 1 # 0
      BY <1>10, <2>1, <3>1, EmptySeq
    <3> QED
      BY <1>10, <3>1, <3>2
  <2> HIDE DEF n
  <2>3. /\ todo'[1] = todo[2]
        /\ n >= 3 => todo'[2] = todo[3]
        /\ n >= 4 => todo'[3] = todo[4]
    BY <2>2
  <2>4. /\ Local(todo, 2)
        /\ n >= 3 => Local(todo, 3)
        /\ n >= 4 => Local(todo, 4)
    BY <2>2
  <2>5. Doing' = todo[2].do
    BY <2>3 DEF Doing
  <2>6. /\ Ahead(1)' <=> Peripheral(todo[2])
        /\ Ahead(2)' <=> n >= 3 /\ Peripheral(todo[3])
        /\ Ahead(3)' <=> n >= 4 /\ Peripheral(todo[4])
    BY <2>2, <2>3 DEF Ahead
  <2>7. /\ Ahead(2) <=> Peripheral(todo[2])
        /\ Ahead(3) <=> n >= 3 /\ Peripheral(todo[3])
    BY <2>2 DEF Ahead, n
  <2>13. Doing = "read" \/ Doing = "poll" \/ Halts(todo[1]) => ~Counting
    BY <2>2 DEF Counting, Sets, Halts
  <2>14. Doing = "read" => Steady'
    <3>1. Doing = "read" => Steady
      BY <1>1, <1>2 DEF Level, Reading
    <3> QED
      BY <1>4, <2>13, <3>1
  <2>8. Commanding'
    <3>1. n >= 4 /\ Peripheral(todo[4]) => Doing = "read"
      BY <2>2, <2>4 DEF Local
    <3> QED
      BY <1>5, <2>6, <2>14, <3>1 DEF Commanding
  <2>9. Polling'
    <3> SUFFICES ASSUME todo[2].do = "poll" PROVE Polling'
      BY <2>5 DEF Polling
    <3>1. Halts(todo[1])
      BY <2>4 DEF Local
    <3>2. Halting /\ port.cmd_addr = todo[1].data.addr /\ (Ahead(3) => Steady)
      BY <1>1, <1>2, <1>4, <2>13, <3>1 DEF Level, Commanding
    <3>3. Halting' /\ cpu'.pipe # "busy" /\ port'.cmd_addr = todo[1].data.addr
          /\ (Ahead(3) => Steady')
      BY <1>2, <1>3, <1>4, <2>13, <3>1, <3>2
    <3>4. n >= 3 /\ todo[3].do = "read" /\ todo[3].into # Nowhere =>
            todo[1].data.addr = todo[3].into
      BY <2>4 DEF Local
    <3>5. Len(todo') > 1 => n >= 3
      BY <2>2
    <3> QED
      BY <1>5, <2>3, <2>6, <2>7, <3>3, <3>4, <3>5 DEF Polling
  <2>10. Doing = "poll" =>
           /\ Halting /\ Drained /\ Steady
           /\ todo[2].do = "read" /\ todo[2].into # Nowhere => port.cmd_addr = todo[2].into
           /\ Ahead(2) => Settled
    <3> SUFFICES ASSUME Doing = "poll"
                 PROVE  /\ Halting /\ Drained /\ Steady
                        /\ todo[2].do = "read" /\ todo[2].into # Nowhere =>
                             port.cmd_addr = todo[2].into
                        /\ Ahead(2) => Settled
      OBVIOUS
    <3>1. Polling /\ port.out.free /\ Len(todo) > 1 /\ Answered
      BY <1>1, <1>2, <1>4, <2>1, <2>2, <2>13 DEF Level, n
    <3>2. /\ Halting /\ Drained
          /\ todo[2].do = "read" /\ todo[2].into # Nowhere => port.cmd_addr = todo[2].into
          /\ Ahead(2) => Settled
      BY <3>1 DEF Polling
    <3> QED
      BY <3>2 DEF Steady
  <2>11. Reading'
    <3> SUFFICES ASSUME todo[2].do = "read" PROVE Reading'
      BY <2>5 DEF Reading
    <3>1. CASE todo[2].into # Nowhere
      <4>1. Doing = "poll"
        BY <2>2, <2>4, <3>1 DEF Local
      <4>2. Steady' /\ (Settled => Settled')
        BY <1>4, <2>10, <2>13, <4>1
      <4>3. port'.cmd_addr = todo[2].into /\ (Ahead(2) => Settled')
        BY <1>2, <2>3, <2>10, <2>14, <3>1, <4>1, <4>2
      <4> QED
        BY <1>5, <2>3, <2>6, <2>7, <4>2, <4>3 DEF Reading
    <3>2. CASE todo[2].into = Nowhere
      <4>1. Doing = "read"
        BY <2>2, <2>4, <3>2 DEF Local
      <4> QED
        BY <2>3, <2>14, <3>2, <4>1 DEF Reading
    <3> QED
      BY <3>1, <3>2
  <2>12. Setting'
    <3> SUFFICES ASSUME Sets(todo[2]) PROVE Setting'
      BY <2>3 DEF Setting
    <3>1. Doing = "poll"
      BY <2>2, <2>4 DEF Local
    <3>2. Halting' /\ Steady'
      BY <1>3, <1>4, <2>10, <2>13, <3>1
    <3> QED
      BY <1>5, <3>2 DEF Setting, Steady, Drained, Idle
  <2> QED
    BY <2>8, <2>9, <2>11, <2>12
<1> QED
  BY <1>1, <1>9, <1>10

-----------------------------------------------------------------------------
(* What the program does with the bus at rest.  The operation that comes   *)
(* next asks nothing of the processor.                                     *)
Fresh(s) ==
  /\ Len(s) >= 1 => s[1].do # "poll" /\ s[1].do # "read" /\ ~Sets(s[1])
  /\ Len(s) >= 3 => ~Peripheral(s[3])

LEMMA Resting ==
  ASSUME Types', Pulses', Asking', errcount' = 0,
         ~port'.cyc, ~port'.ack, cpu'.dbgv.reg = Nowhere,
         Running' => Fresh(todo')
  PROVE  BusInv'
<1>1. ~Taken' /\ ~Served' /\ ~Answered' /\ phase' # "ack"
  BY DEF Asking, Taken, Served, Answered
<1>2. Bus'
  BY <1>1 DEF Bus
<1>3. Level'
  <2> SUFFICES ASSUME Working' PROVE (Commanding /\ Polling /\ Reading /\ Setting)'
    BY DEF Level
  <2>1. Len(todo') >= 1 /\ Fresh(todo')
    <3>1. todo' \in Seq(Ops) /\ todo' # << >> /\ Running'
      BY DEF Types, Grammar, Working
    <3> DEFINE n == Len(todo')
    <3>2. n \in Nat /\ n # 0
      BY <3>1, EmptySeq
    <3> HIDE DEF n
    <3>3. n >= 1
      BY <3>2
    <3> QED
      BY <3>1, <3>3 DEF n
  <2>2. Doing' # "poll" /\ Doing' # "read" /\ ~Sets(todo'[1])
    BY <2>1 DEF Fresh, Doing
  <2>3. ~Ahead(3)'
    BY <2>1 DEF Fresh, Ahead
  <2> QED
    BY <1>1, <2>2, <2>3 DEF Commanding, Polling, Reading, Setting
<1> QED
  BY <1>2, <1>3 DEF BusInv

LEMMA AtRest ==
  ASSUME Types, Bus, Working => Doing \notin {"write", "read", "poll"}
  PROVE  /\ Asking /\ ~port.cyc /\ ~port.ack /\ errcount = 0
         /\ cpu.dbgv.reg = Nowhere /\ ~Taken
         /\ ~CmdWrite(port) /\ ~CpuDbgWe(port) /\ ~Stalled(port, cpu)
<1>1. Asking
  BY DEF Bus, OnBus
<1>2. /\ ~port.cyc /\ ~port.ack /\ errcount = 0 /\ cpu.dbgv.reg = Nowhere /\ ~Taken
  BY <1>1, PhasesAre DEF Bus
<1> QED
  BY <1>1, <1>2 DEF CmdWrite, CpuDbgWe, Stalled, DbgStall

(* Behind an operation that is none of the port's.                         *)
LEMMA FreshTail ==
  ASSUME Types, Working, Doing \notin {"write", "read", "poll"}
  PROVE  Fresh(Tail(todo)) /\ \A i \in 1 .. Len(todo) : ~(Sets(todo[i]) /\ i <= 3)
<1> DEFINE n == Len(todo)
           s == Tail(todo)
<1>1. /\ n \in Nat \ {0} /\ Len(s) = n - 1
      /\ \A i \in 1 .. n - 1 : s[i] = todo[i + 1]
      /\ \A i \in 1 .. n : Local(todo, i)
      /\ Doing = todo[1].do
  BY HeadIs
<1> HIDE DEF n, s
<1>2. ~Halts(todo[1]) /\ ~Sets(todo[1])
  BY <1>1 DEF Halts, Sets
<1>3. n >= 2 => todo[2].do # "poll" /\ todo[2].do # "read" /\ ~Sets(todo[2])
  <2> SUFFICES ASSUME n >= 2 PROVE todo[2].do # "poll" /\ todo[2].do # "read" /\ ~Sets(todo[2])
    OBVIOUS
  <2>1. Local(todo, 2)
    BY <1>1
  <2> QED
    BY <1>1, <1>2, <2>1 DEF Local
<1>4. n >= 3 => ~Sets(todo[3])
  <2> SUFFICES ASSUME n >= 3 PROVE ~Sets(todo[3])
    OBVIOUS
  <2>1. Local(todo, 3)
    BY <1>1
  <2> QED
    BY <1>1, <1>3, <2>1 DEF Local
<1>5. n >= 4 => ~Peripheral(todo[4])
  <2> SUFFICES ASSUME n >= 4 PROVE ~Peripheral(todo[4])
    OBVIOUS
  <2>1. Local(todo, 4)
    BY <1>1
  <2> QED
    BY <1>1, <2>1 DEF Local
<1>6. Fresh(s)
  BY <1>1, <1>3, <1>5 DEF Fresh
<1>7. \A i \in 1 .. n : i <= 3 => ~Sets(todo[i])
  BY <1>1, <1>2, <1>3, <1>4
<1> QED
  BY <1>6, <1>7 DEF s, n

LEMMA TypesRest ==
  ASSUME Types, Working, PortTypes', CpuTypes', todo' \in {todo, Tail(todo)},
         m_state' \in [Addrs -> Values \cup {Unread}],
         UNCHANGED << phase, errcount, bomb, settings >>
  PROVE  Types'
<1>1. mode # "load"
  BY DEF Types, Working
<1>2. Grammar(todo)'
  <2>1. Grammar(todo) /\ Grammar(Tail(todo))
    BY HeadIs DEF Types
  <2> QED
    BY <2>1
<1>3. /\ mode' = mode /\ manual' = manual /\ halted' = halted /\ edit' = edit
      /\ stepping' = stepping /\ phase' = phase /\ errcount' = errcount
      /\ m_show_user_timers' = m_show_user_timers /\ bomb' = bomb
  BY DEF settings
<1>4. (edit = NoEdit \/ (edit.cursor \in Cursors /\ edit.val \in Values))'
  BY <1>3 DEF Types, NoEdit
<1>5. (mode # "interactive" => edit = NoEdit /\ ~stepping)'
  BY <1>3 DEF Types, NoEdit
<1> QED
  BY <1>1, <1>2, <1>3, <1>4, <1>5 DEF Types

LEMMA TickKeeps ==
  ASSUME BusInv, TickQuiet \/ ResetTick
  PROVE  BusInv'
<1>1. PICK op \in {"tick", "reset"}, rst \in BOOLEAN : TickOnce(op, rst)
  BY DEF TickQuiet, ResetTick
<1>2. /\ Working /\ Doing = op /\ Edge(port, cpu, Quiet, rst) /\ todo' = Tail(todo)
      /\ UNCHANGED << phase, errcount, polls, m_state, bomb, ended, settings >>
  BY <1>1 DEF TickOnce
<1>3. Types /\ Bus /\ Level /\ Doing \notin {"write", "read", "poll"}
  BY <1>2 DEF BusInv
<1>4. /\ Asking /\ ~port.cyc /\ ~port.ack /\ errcount = 0
      /\ ~CmdWrite(port) /\ ~CpuDbgWe(port)
  BY <1>3, AtRest
<1>5. Carriable(Quiet) /\ Quiet.cyc = FALSE
  BY <1>2, <1>3, OnTheBus
<1>6. /\ PortTypes' /\ CpuTypes'
      /\ port'.cyc = FALSE /\ ~port'.ack
      /\ port'.cmd_reset = FALSE /\ port'.cmd_step = FALSE
      /\ cpu'.dbgv.reg = Nowhere
  BY <1>2, <1>3, <1>4, <1>5, Beat
<1>7. Types'
  <2>1. m_state' \in [Addrs -> Values \cup {Unread}]
    BY <1>2, <1>3 DEF Types
  <2> QED
    BY <1>2, <1>3, <1>6, <2>1, TypesRest
<1>8. Fresh(todo')
  BY <1>2, <1>3, FreshTail
<1>9. Pulses'
  BY <1>6 DEF Pulses
<1> QED
  BY <1>2, <1>3, <1>4, <1>6, <1>7, <1>8, <1>9, Resting DEF Asking

LEMMA ShowKeeps ==
  ASSUME BusInv, ShowState \/ PokeGo \/ Crash
  PROVE  BusInv'
<1>1. /\ Working /\ Doing \in {"show", "go", "crash"}
      /\ UNCHANGED << cpu, phase, errcount, polls, bomb, settings >>
      /\ m_state' = m_state \/ m_state' = Cheating
      /\ todo' = Tail(todo) \/ (todo' = todo /\ ~Running')
      /\ port' = port \/ port' = [port EXCEPT !.cmd_halt = FALSE]
  BY DEF ShowState, PokeGo, Crash, settings, Running
<1>2. Types /\ Bus /\ Level /\ Pulses /\ Doing \notin {"write", "read", "poll"}
  BY <1>1 DEF BusInv
<1>3. /\ Asking /\ ~port.cyc /\ ~port.ack /\ errcount = 0
      /\ cpu.dbgv.reg = Nowhere
  BY <1>2, AtRest
<1>4. PortTypes' /\ CpuTypes'
  BY <1>1, <1>2 DEF Types, PortTypes, CpuTypes
<1>5. /\ port'.cyc = port.cyc /\ port'.ack = port.ack
      /\ port'.cmd_step = port.cmd_step /\ port'.cmd_reset = port.cmd_reset
      /\ port'.cmd_halt => port.cmd_halt
  BY <1>1, <1>2 DEF Types, PortTypes
<1>6. m_state' \in [Addrs -> Values \cup {Unread}]
  <2>1. cpu.regs \in [Addrs -> Values]
    BY <1>2, CpuFields DEF Types
  <2>3. \A b : Held(b) \in Values
    BY <2>1, ValuesAssumption DEF Held
  <2>2. Cheating \in [Addrs -> Values \cup {Unread}]
    BY <2>3 DEF Cheating
  <2> QED
    BY <1>1, <1>2, <2>2 DEF Types
<1>7. Types'
  BY <1>1, <1>2, <1>4, <1>6, TypesRest
<1>8. Running' => Fresh(todo')
  BY <1>1, <1>2, FreshTail
<1>9. Pulses'
  <2>1. Running /\ mode = "interactive" => ~port.cmd_step /\ ~(port.cmd_reset /\ port.cmd_halt)
    BY <1>1, <1>2 DEF Pulses
  <2>2. mode' = mode /\ Running
    BY <1>1 DEF settings, Working
  <2> QED
    BY <1>5, <2>1, <2>2 DEF Pulses
<1> QED
  BY <1>1, <1>2, <1>3, <1>5, <1>7, <1>8, <1>9, Resting DEF Asking

(* Sequences without polls, reads and values.                              *)
Plain(s) == \A i \in 1 .. Len(s) : s[i].do # "poll" /\ s[i].do # "read" /\ ~Sets(s[i])

LEMMA PlainGrammar ==
  ASSUME NEW s \in Seq(Ops), Plain(s)
  PROVE  Grammar(s) /\ Opens(s) /\ Fresh(s)
<1>1. Len(s) \in Nat
  OBVIOUS
<1>2. \A i \in 1 .. Len(s) : s[i].do # "poll" /\ s[i].do # "read" /\ ~Sets(s[i])
  BY DEF Plain
<1>3. \A i \in 1 .. Len(s) : Local(s, i)
  BY <1>2 DEF Local, Peripheral
<1>4. Grammar(s)
  BY <1>2, <1>3 DEF Grammar
<1>5. Opens(s) /\ Fresh(s)
  BY <1>1, <1>2 DEF Opens, Fresh, Peripheral
<1> QED
  BY <1>4, <1>5

LEMMA PlainKinds ==
  /\ \A op \in {Reset, Tick, GoOn} : op \in Ops /\ op.do \in {"reset", "tick", "go"}
  /\ Tick.do = "tick"
  /\ \A rs, hl \in BOOLEAN : LET op == WbWrite(0, Command(rs, hl, FALSE, 0)) IN
       op \in Ops /\ op.do = "write" /\ ~Sets(op)
  /\ WbWrite(0, CMD_STEP) \in Ops /\ WbWrite(0, CMD_STEP).do = "write"
  /\ WbWrite(0, CMD_STEP).reg = 0 /\ WbWrite(0, CMD_STEP).data = CMD_STEP
  /\ ~Sets(WbWrite(0, CMD_STEP))
<1>1. /\ Reset.do = "reset" /\ Tick.do = "tick" /\ GoOn.do = "go"
  BY DEF Reset, Tick, GoOn, Op
<1>2. \A d : /\ WbWrite(0, d).do = "write" /\ WbWrite(0, d).reg = 0
             /\ WbWrite(0, d).data = d /\ ~Sets(WbWrite(0, d))
  BY DEF WbWrite, Op, Sets
<1> QED
  BY <1>1, <1>2, CommandsAre

LEMMA PlainOne ==
  ASSUME NEW op \in Ops, op.do # "poll", op.do # "read", ~Sets(op)
  PROVE  << op >> \in Seq(Ops) /\ Len(<< op >>) = 1 /\ << op >>[1] = op /\ Plain(<< op >>)
  BY DEF Plain

LEMMA StartKeeps ==
  ASSUME BusInv, NEW how \in {"autorun", "autostep", "interactive"}, NEW ops \in Seq(Ops),
         Plain(ops),
         NEW p, Start(how, p, ops),
         IF how = "interactive" THEN p = [port EXCEPT !.cmd_reset = TRUE, !.cmd_halt = FALSE]
         ELSE p = port
  PROVE  BusInv'
<1>1. /\ mode = "load" /\ Running /\ mode' = how /\ todo' = ops
      /\ UNCHANGED << cpu, phase, errcount, m_state, manual, halted, m_show_user_timers, bomb,
                      ended, edit, stepping >>
      /\ port' = IF how = "interactive"
                 THEN [port EXCEPT !.cmd_reset = TRUE, !.cmd_halt = FALSE] ELSE port
  BY DEF Start
<1>2. Types /\ Bus /\ todo = << >> /\ port = PortInit
      /\ edit = NoEdit /\ ~stepping
  BY <1>1 DEF BusInv, Types
<1>3. /\ Asking /\ ~port.cyc /\ ~port.ack /\ errcount = 0
      /\ cpu.dbgv.reg = Nowhere
  BY <1>2, AtRest DEF Working
<1>4. /\ port'.cyc = port.cyc /\ port'.ack = port.ack
      /\ port'.cmd_step = FALSE /\ (how = "interactive" => port'.cmd_halt = FALSE)
      /\ PortTypes'
  <2>1. PortTypes /\ port.cmd_step = FALSE
    BY <1>2 DEF Types, PortInit
  <2> QED
    BY <1>1, <2>1 DEF PortTypes
<1>5. Grammar(ops) /\ Fresh(ops)
  BY PlainGrammar
<1>6. Types'
  <2>1. CpuTypes'
    BY <1>1, <1>2 DEF Types, CpuTypes
  <2>2. (edit = NoEdit)' /\ ~stepping'
    BY <1>1, <1>2 DEF NoEdit
  <2> QED
    BY <1>1, <1>2, <1>4, <1>5, <2>1, <2>2 DEF Types
<1>7. Pulses'
  BY <1>1, <1>4 DEF Pulses
<1> QED
  BY <1>1, <1>2, <1>3, <1>4, <1>5, <1>6, <1>7, Resting DEF Asking

LEMMA MainKeeps ==
  ASSUME BusInv, Main
  PROVE  BusInv'
<1>1. CASE StartAutorun
  <2> DEFINE ops == << Reset, Tick, Tick, GoOn >>
  <2>1. ops \in Seq(Ops) /\ Plain(ops)
    <3>1. /\ Reset \in Ops /\ Tick \in Ops /\ GoOn \in Ops
          /\ Reset.do = "reset" /\ Tick.do = "tick" /\ GoOn.do = "go"
      BY PlainKinds DEF Reset, GoOn, Op
    <3> QED
      BY <3>1 DEF Plain, Sets
  <2>2. Start("autorun", port, ops)
    BY <1>1 DEF StartAutorun
  <2> HIDE DEF ops
  <2> QED
    BY <2>1, <2>2, StartKeeps
<1>2. CASE StartAutostep
  <2> DEFINE op == WbWrite(0, Command(TRUE, TRUE, FALSE, 0))
  <2>1. op \in Ops /\ op.do = "write" /\ ~Sets(op)
    BY PlainKinds
  <2>2. Start("autostep", port, << op >>)
    BY <1>2 DEF StartAutostep
  <2> HIDE DEF op
  <2>3. << op >> \in Seq(Ops) /\ Plain(<< op >>)
    BY <2>1, PlainOne
  <2> QED
    BY <2>2, <2>3, StartKeeps
<1>3. CASE StartInteractive
  <2>1. << >> \in Seq(Ops) /\ Plain(<< >>)
    BY EmptyGrammar DEF Grammar, Plain
  <2>2. Start("interactive", [port EXCEPT !.cmd_reset = TRUE, !.cmd_halt = FALSE], << >>)
    BY <1>3 DEF StartInteractive
  <2> QED
    BY <2>1, <2>2, StartKeeps
<1>4. CASE Load \/ AutoLoop \/ Report
  <2>1. /\ UNCHANGED << port, cpu, phase, errcount, m_state, bomb, mode, manual, halted,
                         m_show_user_timers, edit, stepping >>
        /\ todo = << >> /\ Running
        /\ \/ todo' = todo /\ mode = "load"
           \/ todo' = todo /\ ~Running'
           \/ /\ mode \in {"autorun", "autostep"}
              /\ todo' \in {<< Tick >>, << WbWrite(0, CMD_STEP) >>}
    <3>1. CASE Load
      <4>1. mode = "load" => todo = << >>
        BY DEF BusInv, Types
      <4> QED
        BY <3>1, <4>1 DEF Load
    <3>2. CASE AutoLoop
      BY <3>2 DEF AutoLoop, settings
    <3>3. CASE Report
      <4>1. ended' \in {"bombed", "reported"}
        BY <3>3 DEF Report
      <4> QED
        BY <3>3, <4>1 DEF Report, settings, Running
    <3> QED
      BY <1>4, <3>1, <3>2, <3>3
  <2>2. Types /\ Bus /\ Pulses
    BY DEF BusInv
  <2>3. /\ Asking /\ ~port.cyc /\ ~port.ack /\ errcount = 0
        /\ cpu.dbgv.reg = Nowhere
    BY <2>1, <2>2, AtRest DEF Working
  <2>4. Grammar(todo)' /\ Fresh(todo)'
    <3>1. Plain(<< >>) /\ << >> \in Seq(Ops)
      BY EmptyGrammar DEF Grammar, Plain
    <3>2. CASE todo' = << >>
      BY <3>1, <3>2, PlainGrammar
    <3>3. CASE todo' \in {<< Tick >>, << WbWrite(0, CMD_STEP) >>}
      <4>1. PICK op \in {Tick, WbWrite(0, CMD_STEP)} : todo' = << op >>
        BY <3>3
      <4>2. op \in Ops /\ op.do # "poll" /\ op.do # "read" /\ ~Sets(op)
        BY PlainKinds DEF Sets
      <4>3. << op >> \in Seq(Ops) /\ Plain(<< op >>)
        BY <4>2, PlainOne
      <4> QED
        BY <4>1, <4>3, PlainGrammar
    <3> QED
      BY <2>1, <3>2, <3>3
  <2>5. PortTypes' /\ CpuTypes'
    BY <2>1, <2>2 DEF Types, PortTypes, CpuTypes
  <2>6. Types'
    <3>1. (edit = NoEdit \/ (edit.cursor \in Cursors /\ edit.val \in Values))'
      BY <2>1, <2>2 DEF Types, NoEdit
    <3>2. (mode = "load" => todo = << >> /\ port = PortInit /\ m_state = NoState)'
      BY <2>1, <2>2 DEF Types, PortInit, NoState
    <3>3. (mode # "interactive" => edit = NoEdit /\ ~stepping)'
      BY <2>1, <2>2 DEF Types, NoEdit
    <3> QED
      BY <2>1, <2>2, <2>4, <2>5, <3>1, <3>2, <3>3 DEF Types
  <2>7. Pulses'
    BY <2>1, <2>2 DEF Pulses, Working
  <2> QED
    BY <2>1, <2>2, <2>3, <2>4, <2>6, <2>7, Resting DEF Asking
<1> QED
  BY <1>1, <1>2, <1>3, <1>4 DEF Main

(* The edit of a register or of a counter.                                 *)
LEMMA CmdWriteIs ==
  ASSUME NEW a \in Addrs, NEW v \in Values
  PROVE  LET s == cmd_write(a, v) IN
         /\ Grammar(s) /\ Opens(s) /\ Len(s) = 3
         /\ \A i \in 1 .. Len(s) : s[i].do # "read" /\ s[i].do # "show"
         /\ s[1].data.addr = a
         /\ s[3].do = "crash" \/ (Sets(s[3]) /\ s[3].data.val = v)
         /\ \A i \in 1 .. Len(s) : Mild(s[i]) /\ (Sets(s[i]) => i = 3)
<1> DEFINE s == cmd_write(a, v)
           op == IF a % 16 = 15 THEN Op("crash", 0, Value(0), Nowhere) ELSE WbWrite(1, Value(v))
<1>1. /\ op \in Ops /\ op.do # "read" /\ op.do # "poll" /\ op.do # "show"
      /\ op.do = "crash" \/ (Sets(op) /\ op.data.val = v)
  <2>1. CASE a % 16 = 15
    <3>1. Op("crash", 0, Value(0), Nowhere).do = "crash"
      BY DEF Op
    <3> QED
      BY <2>1, <3>1, CommandsAre
  <2>2. CASE a % 16 # 15
    <3>1. /\ WbWrite(1, Value(v)).do = "write" /\ WbWrite(1, Value(v)).reg = 1
          /\ WbWrite(1, Value(v)).data.val = v
      BY DEF WbWrite, Op, Value
    <3> QED
      BY <2>2, <3>1, CommandsAre DEF Sets
  <2> QED
    BY <2>1, <2>2
<1>2. s = << WbWrite(0, CMD_HALT(a)), Poll("abort"), op >>
  BY DEF cmd_write
<1> HIDE DEF op, s
<1>3. s \in Seq(Ops) /\ Len(s) = 3
      /\ s[1] = WbWrite(0, CMD_HALT(a)) /\ s[2] = Poll("abort") /\ s[3] = op
  <2>1. WbWrite(0, CMD_HALT(a)) \in Ops /\ Poll("abort") \in Ops
    BY CommandsAre
  <2> QED
    BY <1>1, <1>2, <2>1
<1>4. /\ Halts(s[1]) /\ s[1].data.addr = a /\ s[1].do = "write" /\ ~Sets(s[1])
  BY <1>3, HaltKind
<1>5. /\ s[2].do = "poll" /\ s[2].reg = 0 /\ s[2].fail # "no" /\ ~Sets(s[2])
  BY <1>3, PollKind
<1>6. \A i \in 1 .. 3 : s[i].do # "read" /\ s[i].do # "show"
  BY <1>1, <1>3, <1>4, <1>5
<1>7. Local(s, 1)
  BY <1>4 DEF Local, Peripheral
<1>8. Local(s, 2)
  BY <1>4, <1>5 DEF Local, Peripheral
<1>9. Local(s, 3)
  BY <1>1, <1>3, <1>4, <1>5 DEF Local, Peripheral
<1>10. \A i \in 1 .. 3 : Local(s, i)
  BY <1>7, <1>8, <1>9
<1>11. Grammar(s)
  BY <1>3, <1>6, <1>10 DEF Grammar
<1>12. Opens(s)
  BY <1>3, <1>4, <1>5, <1>6 DEF Opens, Peripheral
<1>13. \A i \in 1 .. 3 : Mild(s[i]) /\ (Sets(s[i]) => i = 3)
  BY <1>1, <1>3, <1>4, <1>5 DEF Mild, Peeks
<1> QED
  BY <1>1, <1>3, <1>4, <1>6, <1>11, <1>12, <1>13 DEF s

(* What a key does before the view is drawn.                               *)
Short(s) ==
  /\ Grammar(s) /\ \A i \in 1 .. Len(s) : s[i].do # "read" /\ s[i].do # "show"
  /\ \/ Len(s) = 0
     \/ Len(s) = 1 /\ Plain(s)
     \/ Len(s) = 3 /\ Opens(s)

LEMMA ShortTogether ==
  ASSUME NEW s, Short(s), NEW v, Grammar(v), Opens(v)
  PROVE  Fresh(s \o v) /\ Grammar(s \o v)
<1> DEFINE t == s \o v
           n == Len(s)
           m == Len(v)
<1>1. /\ n \in Nat /\ m \in Nat /\ Len(t) = n + m
      /\ \A i \in 1 .. n : t[i] = s[i]
      /\ \A i \in 1 .. m : t[n + i] = v[i]
  BY Together DEF Short, Grammar
<1>2. /\ m >= 1 => v[1].do # "poll" /\ v[1].do # "read" /\ ~Sets(v[1])
      /\ m >= 2 => v[2].do # "read"
      /\ m >= 3 => ~Peripheral(v[3])
  BY DEF Opens
<1>3. \/ n = 0
      \/ n = 1 /\ Plain(s)
      \/ n = 3 /\ Opens(s)
  BY DEF Short
<1>4. Grammar(t)
  BY GrammarTogether DEF Short
<1>5. /\ n = 1 /\ Plain(s) => s[1].do # "poll" /\ s[1].do # "read" /\ ~Sets(s[1])
      /\ n = 3 /\ Opens(s) => /\ s[1].do # "poll" /\ s[1].do # "read" /\ ~Sets(s[1])
                              /\ ~Peripheral(s[3])
  BY DEF Plain, Opens
<1> HIDE DEF t, n, m
<1>6. Fresh(t)
  <2>1. CASE n = 0
    <3>1. \A i \in 1 .. m : t[i] = v[i]
      BY <1>1, <2>1
    <3>2. Len(t) = m
      BY <1>1, <2>1
    <3> QED
      BY <1>1, <1>2, <3>1, <3>2 DEF Fresh
  <2>2. CASE n = 1 /\ Plain(s)
    <3>1. t[1] = s[1]
      BY <1>1, <2>2
    <3>2. m >= 2 => t[3] = v[2]
      BY <1>1, <2>2
    <3>3. Len(t) = m + 1
      BY <1>1, <2>2
    <3> QED
      BY <1>1, <1>2, <1>5, <2>2, <3>1, <3>2, <3>3 DEF Fresh, Peripheral
  <2>3. CASE n = 3 /\ Opens(s)
    BY <1>1, <1>5, <2>3 DEF Fresh
  <2> QED
    BY <1>3, <2>1, <2>2, <2>3
<1> QED
  BY <1>4, <1>6 DEF t

LEMMA KeyKeeps ==
  ASSUME BusInv, NEW p, NEW ops, NEW man \in BOOLEAN, NEW hlt \in BOOLEAN,
         Key(p, ops, man, hlt), Short(ops), PortTypes', CpuTypes',
         cpu'.dbgv = cpu.dbgv, p.cyc = port.cyc, p.ack = port.ack,
         p.cmd_step \/ (p.cmd_reset /\ p.cmd_halt) => ops = << Tick >>,
         edit' = NoEdit \/ (edit'.cursor \in Cursors /\ edit'.val \in Values),
         stepping' \in BOOLEAN, m_show_user_timers' \in BOOLEAN
  PROVE  BusInv'
<1> DEFINE v == View(man, hlt)
<1>1. /\ Running /\ todo = << >> /\ mode = "interactive"
      /\ port' = p /\ manual' = man /\ halted' = hlt /\ todo' = ops \o v
      /\ m_state' = NoState
      /\ UNCHANGED << mode, phase, errcount, polls, bomb, mptr, ended >>
  BY DEF Key, Listening
<1>2. Types /\ Bus
  BY DEF BusInv
<1>3. /\ Asking /\ ~port.cyc /\ ~port.ack /\ errcount = 0
      /\ cpu.dbgv.reg = Nowhere
  BY <1>1, <1>2, AtRest DEF Working
<1>4. Grammar(v) /\ Opens(v)
  BY ViewIs
<1> HIDE DEF v
<1>5. Grammar(todo') /\ Fresh(todo')
  BY <1>1, <1>4, ShortTogether
<1>6. m_state' \in [Addrs -> Values \cup {Unread}]
  BY <1>1 DEF NoState
<1>7. Types'
  <2>1. (edit = NoEdit \/ (edit.cursor \in Cursors /\ edit.val \in Values))'
    BY DEF NoEdit
  <2>2. /\ mode' = "interactive" /\ phase' \in {"ask", "stall", "ack"} /\ errcount' \in Nat
        /\ bomb' \in BOOLEAN
    BY <1>1, <1>2 DEF Types
  <2> QED
    BY <1>1, <1>5, <1>6, <2>1, <2>2 DEF Types
<1>8. Pulses'
  <2> SUFFICES ASSUME ops = << Tick >> PROVE Working' /\ Doing' = "tick"
    BY <1>1 DEF Pulses
  <2>1. Len(ops) = 1 /\ ops[1] = Tick
    OBVIOUS
  <2>2. todo'[1] = Tick /\ Len(todo') >= 1 /\ todo' \in Seq(Ops)
    <3>1. ops \in Seq(Ops) /\ v \in Seq(Ops)
      BY <1>4 DEF Short, Grammar
    <3> HIDE DEF v
    <3>2. /\ Len(v) \in Nat /\ Len(ops \o v) = Len(ops) + Len(v)
          /\ \A i \in 1 .. Len(ops) : (ops \o v)[i] = ops[i]
          /\ ops \o v \in Seq(Ops)
      BY <3>1, Together
    <3> QED
      BY <1>1, <2>1, <3>2
  <2>3. todo' # << >>
    BY <2>2, EmptySeq
  <2> QED
    BY <1>1, <2>2, <2>3, PlainKinds DEF Working, Running, Doing
<1> QED
  BY <1>1, <1>2, <1>3, <1>5, <1>7, <1>8, Resting DEF Asking

LEMMA ShortOne ==
  ASSUME NEW op \in Ops, op.do \notin {"poll", "read", "show"}, ~Sets(op)
  PROVE  Short(<< op >>)
<1>1. << op >> \in Seq(Ops) /\ Len(<< op >>) = 1 /\ << op >>[1] = op /\ Plain(<< op >>)
  BY PlainOne
<1>2. Grammar(<< op >>)
  BY <1>1, PlainGrammar
<1>3. \A i \in 1 .. Len(<< op >>) : << op >>[i].do # "read" /\ << op >>[i].do # "show"
  BY <1>1
<1> QED
  BY <1>1, <1>2, <1>3 DEF Short

LEMMA ShortOps ==
  /\ Short(<< >>) /\ Short(<< Tick >>) /\ Short(<< Reset >>)
  /\ Short(<< WbWrite(0, CMD_HALT(0)) >>) /\ Short(<< WbWrite(0, CMD_STEP) >>)
  /\ \A rs, hl \in BOOLEAN : Short(<< WbWrite(0, Command(rs, hl, FALSE, 0)) >>)
<1>1. Short(<< WbWrite(0, CMD_HALT(0)) >>)
  <2>1. WbWrite(0, CMD_HALT(0)) \in Ops
    BY CommandsAre, WordsAre
  <2> QED
    BY <2>1, HaltKind, ShortOne
<1>2. \A rs, hl \in BOOLEAN : Short(<< WbWrite(0, Command(rs, hl, FALSE, 0)) >>)
  BY PlainKinds, ShortOne
<1>3. Short(<< Reset >>) /\ Short(<< Tick >>)
  <2>1. Reset \in Ops /\ Reset.do = "reset" /\ Tick \in Ops /\ Tick.do = "tick"
    BY PlainKinds DEF Reset, Op
  <2> QED
    BY <2>1, ShortOne DEF Sets
<1>4. Short(<< WbWrite(0, CMD_STEP) >>)
  BY PlainKinds, ShortOne
<1>5. Short(<< >>)
  BY EmptyGrammar DEF Short
<1> QED
  BY <1>1, <1>2, <1>3, <1>4, <1>5

(* A key that leaves the port to the operations.                           *)
LEMMA QuietKey ==
  ASSUME BusInv, NEW ops, NEW man \in BOOLEAN, NEW hlt \in BOOLEAN,
         Key(port, ops, man, hlt), Short(ops), CpuTypes', cpu'.dbgv = cpu.dbgv,
         edit' = NoEdit \/ (edit'.cursor \in Cursors /\ edit'.val \in Values),
         stepping' \in BOOLEAN, m_show_user_timers' \in BOOLEAN
  PROVE  BusInv'
<1>1. Running /\ todo = << >> /\ mode = "interactive" /\ port' = port
  BY DEF Key, Listening
<1>2. ~(port.cmd_step \/ (port.cmd_reset /\ port.cmd_halt))
  BY <1>1 DEF BusInv, Pulses, Working
<1>3. PortTypes'
  BY <1>1 DEF BusInv, Types, PortTypes
<1> QED
  BY <1>2, <1>3, KeyKeeps

(* The histories touch nothing that the program or the port sees.          *)
LEMMA ForgetIs ==
  ASSUME CpuTypes, cpu' = Uncounted
  PROVE  /\ CpuTypes' /\ cpu'.dbgv = cpu.dbgv /\ cpu'.regs = cpu.regs
         /\ cpu'.pipe = cpu.pipe /\ cpu'.live = cpu.live
  BY DEF CpuTypes, Uncounted

LEMMA KeyHaltKeeps ==
  ASSUME BusInv, KeyHalt \/ KeyGo \/ KeyReset
  PROVE  BusInv'
<1>1. /\ edit' = NoEdit /\ stepping' = FALSE /\ cpu' = Uncounted
      /\ m_show_user_timers' = m_show_user_timers
  BY DEF KeyHalt, KeyGo, KeyReset, Forget
<1>2. /\ CpuTypes' /\ cpu'.dbgv = cpu.dbgv /\ manual \in BOOLEAN
      /\ m_show_user_timers' \in BOOLEAN
  BY <1>1, ForgetIs DEF BusInv, Types
<1>3. \E op \in {WbWrite(0, CMD_HALT(0)), WbWrite(0, Command(FALSE, FALSE, FALSE, 0)), Reset,
                 WbWrite(0, Command(TRUE, TRUE, FALSE, 0))},
         man \in BOOLEAN, hlt \in BOOLEAN : Key(port, << op >>, man, hlt)
  BY <1>2 DEF KeyHalt, KeyGo, KeyReset
<1> QED
  BY <1>1, <1>2, <1>3, ShortOps, QuietKey

LEMMA KeyStepKeeps ==
  ASSUME BusInv, KeyStep
  PROVE  BusInv'
<1>1. /\ Key(port, << WbWrite(0, CMD_STEP) >>, FALSE, TRUE)
      /\ edit' = NoEdit /\ stepping' = Ready
      /\ cpu' = IF Ready THEN [cpu EXCEPT !.issued = 0] ELSE Uncounted
      /\ m_show_user_timers' = m_show_user_timers
  BY DEF KeyStep
<1>2. Short(<< WbWrite(0, CMD_STEP) >>)
  BY ShortOps
<1>3. CpuTypes' /\ cpu'.dbgv = cpu.dbgv
  <2>1. CpuTypes
    BY DEF BusInv, Types
  <2>2. CASE Ready
    BY <1>1, <2>1, <2>2 DEF CpuTypes
  <2>3. CASE ~Ready
    BY <1>1, <2>1, <2>3, ForgetIs
  <2> QED
    BY <2>2, <2>3
<1>4. stepping' \in BOOLEAN /\ m_show_user_timers' \in BOOLEAN
  BY <1>1, PortFields DEF Ready, BusInv, Types
<1> QED
  BY <1>1, <1>2, <1>3, <1>4, QuietKey

LEMMA KeyTimersKeeps ==
  ASSUME BusInv, KeyTimers \/ KeyOther
  PROVE  BusInv'
<1>1. /\ edit' = NoEdit /\ stepping' = FALSE /\ cpu' = Uncounted
      /\ m_show_user_timers' \in BOOLEAN
  BY KeysAssumption DEF KeyTimers, KeyOther, Forget, BusInv, Types
<1>2. /\ CpuTypes' /\ cpu'.dbgv = cpu.dbgv /\ manual \in BOOLEAN /\ halted \in BOOLEAN
  BY <1>1, ForgetIs DEF BusInv, Types
<1>3. Short(<< Tick >>)
  BY ShortOps
<1>4. Key(port, << >>, manual, halted) \/ Key(port, << Tick >>, manual, halted)
  BY DEF KeyTimers, KeyOther
<1> QED
  BY <1>1, <1>2, <1>3, <1>4, ShortOps, QuietKey

LEMMA KeyManualKeeps ==
  ASSUME BusInv, KeyManual
  PROVE  BusInv'
<1>1. /\ edit' = NoEdit /\ stepping' = FALSE /\ cpu' = Uncounted
      /\ m_show_user_timers' = m_show_user_timers
  BY DEF KeyManual, Forget
<1>2. /\ CpuTypes' /\ cpu'.dbgv = cpu.dbgv /\ PortTypes
      /\ m_show_user_timers' \in BOOLEAN
  BY <1>1, ForgetIs DEF BusInv, Types
<1>3. Short(<< Tick >>)
  BY ShortOps
<1>4. PICK p \in {[port EXCEPT !.cmd_halt = FALSE, !.cmd_step = TRUE],
                  [port EXCEPT !.cmd_halt = TRUE, !.cmd_step = FALSE],
                  [port EXCEPT !.cmd_halt = FALSE]},
           hlt \in BOOLEAN : Key(p, << Tick >>, TRUE, hlt)
  BY DEF KeyManual
<1>5. p.cyc = port.cyc /\ p.ack = port.ack /\ port' = p
  BY <1>2, <1>4 DEF PortTypes, Key
<1>6. PortTypes'
  BY <1>2, <1>4, <1>5 DEF PortTypes
<1> QED
  BY <1>1, <1>2, <1>3, <1>4, <1>5, <1>6, KeyKeeps

(* The field that is edited.                                               *)
LEMMA EditedIs ==
  ASSUME NEW c \in Cursors
  PROVE  /\ c \in 8 .. 43 /\ EditedAt(c) \in Addrs
         /\ \A users \in BOOLEAN : ShownAt(c, users) \in Addrs
  BY CursorsAssumption

LEMMA PokedIs ==
  ASSUME CpuTypes, NEW a \in Addrs, NEW v \in Values, cpu' \in Poked(Uncounted, a, v)
  PROVE  CpuTypes' /\ cpu'.dbgv = cpu.dbgv
<1> DEFINE c == Uncounted
<1>1. \/ cpu' \in {c, [c EXCEPT !.next = "empty"]}
      \/ \E b \in Addrs : cpu' \in {[c EXCEPT !.regs[b] = v],
                                    [c EXCEPT !.regs[b] = v, !.next = "empty"]}
  <2> HIDE DEF c
  <2>1. a \in 0 .. 51
    BY AddressIs
  <2>2. CASE a >= 32
    BY <2>2 DEF Poked, c
  <2>3. CASE ~(a >= 32)
    BY <2>3 DEF Poked, c
  <2> QED
    BY <2>2, <2>3
<1>2. /\ c \in [regs : [Addrs -> Values], pipe : {"none", "busy", "load", "local", "done"},
                into : CpuRegs \cup {Nowhere}, next : {"empty", "ready", "break", "asleep"},
                dbgv : [reg : CpuRegs \cup {Nowhere}, val : Values], stall : BOOLEAN,
                dbg_reg : Values, live : BOOLEAN, issued : 0 .. 2]
      /\ c.dbgv = cpu.dbgv
  BY DEF CpuTypes, Uncounted
<1> HIDE DEF c
<1>3. \A b \in Addrs : [c.regs EXCEPT ![b] = v] \in [Addrs -> Values]
  BY <1>2
<1>4. CASE cpu' \in {c, [c EXCEPT !.next = "empty"]}
  BY <1>2, <1>4 DEF CpuTypes
<1>5. CASE \E b \in Addrs : cpu' \in {[c EXCEPT !.regs[b] = v],
                                      [c EXCEPT !.regs[b] = v, !.next = "empty"]}
  <2>1. PICK b \in Addrs : \/ cpu' = [c EXCEPT !.regs[b] = v]
                           \/ cpu' = [c EXCEPT !.regs[b] = v, !.next = "empty"]
    BY <1>5
  <2> DEFINE r == [c.regs EXCEPT ![b] = v]
  <2>2. r \in [Addrs -> Values]
    BY <1>3
  <2>3. cpu' = [c EXCEPT !.regs = r] \/ cpu' = [c EXCEPT !.regs = r, !.next = "empty"]
    BY <1>2, <2>1
  <2> HIDE DEF r
  <2> QED
    BY <1>2, <2>2, <2>3 DEF CpuTypes
<1> QED
  BY <1>1, <1>4, <1>5

LEMMA KeyEnterKeeps ==
  ASSUME BusInv, KeyEnter
  PROVE  BusInv'
<1>1. PICK c \in Cursors, v \in Values :
        LET a == EditedAt(c) IN
        IF port.cmd_halt
        THEN /\ Key(port, cmd_write(a, v), manual, halted)
             /\ edit' = [cursor |-> c, val |-> v,
                         other |-> IF a >= 32 THEN Held(OtherSet(a)) ELSE 0]
             /\ cpu' = Uncounted
        ELSE /\ Key(port, << >>, manual, halted)
             /\ edit' = NoEdit
             /\ cpu' \in Poked(Uncounted, a, v)
  BY KeysAssumption DEF KeyEnter
<1>2. stepping' = FALSE /\ m_show_user_timers' = m_show_user_timers
  BY DEF KeyEnter
<1>3. EditedAt(c) \in Addrs
  BY EditedIs
<1>4. /\ Types /\ CpuTypes /\ manual \in BOOLEAN /\ halted \in BOOLEAN
      /\ m_show_user_timers' \in BOOLEAN
  BY <1>2 DEF BusInv, Types
<1>5. CASE port.cmd_halt
  <2>1. /\ Key(port, cmd_write(EditedAt(c), v), manual, halted)
        /\ edit' = [cursor |-> c, val |-> v,
                    other |-> IF EditedAt(c) >= 32 THEN Held(OtherSet(EditedAt(c))) ELSE 0]
        /\ cpu' = Uncounted
    BY <1>1, <1>5
  <2>2. Short(cmd_write(EditedAt(c), v))
    BY <1>3, CmdWriteIs DEF Short
  <2>3. CpuTypes' /\ cpu'.dbgv = cpu.dbgv
    BY <1>4, <2>1, ForgetIs
  <2>4. edit'.cursor \in Cursors /\ edit'.val \in Values
    BY <2>1
  <2> QED
    BY <1>2, <1>4, <2>1, <2>2, <2>3, <2>4, QuietKey
<1>6. CASE ~port.cmd_halt
  <2>1. Key(port, << >>, manual, halted) /\ edit' = NoEdit
        /\ cpu' \in Poked(Uncounted, EditedAt(c), v)
    BY <1>1, <1>6
  <2>2. CpuTypes' /\ cpu'.dbgv = cpu.dbgv
    BY <1>3, <1>4, <2>1, PokedIs
  <2> QED
    BY <1>2, <1>4, <2>1, <2>2, ShortOps, QuietKey
<1> QED
  BY <1>5, <1>6

LEMMA BusStep ==
  ASSUME BusInv, EnoughPatience, [Next]_vars
  PROVE  BusInv'
<1>1. CASE Work
  <2>1. CASE Await
    <3>1. \/ Waits /\ Edge(port, cpu, Request, FALSE) /\ phase' = "stall"
          \/ Serves /\ Edge(port, cpu, Hold, FALSE) /\ phase' = "ack"
          \/ Served
      BY <2>1, AwaitIs
    <3> QED
      BY <2>1, <3>1, WaitingKeeps, TakenKeeps, ServedKeeps
  <2> QED
    BY <1>1, <2>1, AskKeeps, ReleaseKeeps, TickKeeps, ShowKeeps DEF Work
<1>2. CASE Keys
  BY <1>2, KeyHaltKeeps, KeyStepKeeps, KeyTimersKeeps, KeyManualKeeps, KeyEnterKeeps DEF Keys
<1>3. CASE Main
  BY <1>3, MainKeeps
<1>4. CASE UNCHANGED vars
  <2>1. UNCHANGED << port, cpu, mode, todo, phase, errcount, m_state, manual, halted,
                     m_show_user_timers, bomb, ended, edit, stepping >>
    BY <1>4 DEF vars, program
  <2>2. Types'
    BY <2>1 DEF BusInv, Types, PortTypes, CpuTypes, NoEdit, NoState, PortInit
  <2>3. Bus' /\ Pulses'
    BY <2>1 DEF BusInv, Bus, Pulses, Asking, Taken, Served, Answered, OnBus, Working, Running,
                Doing, Counting
  <2>4. Level'
    BY <2>1 DEF BusInv, Level, Commanding, Polling, Reading, Setting, Ahead, Steady, Settled,
                Halting, Drained, Idle, Counting, Served, Answered, Working, Running, Doing
  <2> QED
    BY <2>1, <2>2, <2>3, <2>4 DEF BusInv
<1> QED
  BY <1>1, <1>2, <1>3, <1>4 DEF Next

LEMMA BusInit ==
  ASSUME Init
  PROVE  BusInv
<1>1. /\ port = PortInit /\ cpu = CpuInit /\ mode = "load" /\ todo = << >> /\ phase = "ask"
      /\ errcount = 0 /\ m_state = NoState /\ manual = TRUE /\ halted = TRUE /\ bomb = FALSE
      /\ m_show_user_timers = FALSE
      /\ ended = "no" /\ edit = NoEdit /\ stepping = FALSE
  BY DEF Init
<1>2. PortTypes
  <2>1. Value(0) \in Word /\ 0 \in Addrs /\ 0 \in Values
    BY WordsAre
  <2> QED
    BY <1>1, <2>1 DEF PortTypes, PortInit
<1>3. CpuTypes
  BY <1>1, ValuesAssumption DEF CpuTypes, CpuInit
<1>4. Grammar(todo)
  BY <1>1, EmptyGrammar
<1>5. m_state \in [Addrs -> Values \cup {Unread}]
  BY <1>1 DEF NoState
<1>6. Types
  BY <1>1, <1>2, <1>3, <1>4, <1>5 DEF Types
<1>7. /\ ~Working /\ Asking /\ ~Taken /\ ~Served /\ ~Answered /\ phase # "ack"
  BY <1>1 DEF Working, Asking, Taken, Served, Answered
<1>8. Bus
  <2>1. ~port.cyc /\ ~port.ack /\ cpu.dbgv.reg = Nowhere
    BY <1>1 DEF PortInit, CpuInit
  <2> QED
    BY <1>1, <1>7, <2>1 DEF Bus
<1> QED
  BY <1>1, <1>6, <1>7, <1>8 DEF BusInv, Level, Pulses

-----------------------------------------------------------------------------
(* An access, seen by what it leaves of a processor that stands still.     *)
LEMMA AccessBeat ==
  ASSUME BusInv, Ask \/ Await, Halting, Peeks(todo[1])
  PROVE  /\ UNCHANGED << todo, polls, m_state, bomb, ended, settings >>
         /\ Halting' /\ cpu'.issued = cpu.issued
         /\ \A b \in Counters : cpu'.regs[b] = cpu.regs[b]
         /\ Steady => Steady' /\ cpu'.regs = cpu.regs
<1>1. /\ UNCHANGED << todo, polls, m_state, bomb, ended, settings >>
      /\ \E in : Edge(port, cpu, in, FALSE)
  BY AskIs, AwaitIs
<1>2. /\ Halting' /\ cpu'.issued = cpu.issued
      /\ Drained => cpu'.regs = cpu.regs
      /\ \A b \in Counters : cpu'.regs[b] = cpu.regs[b]
      /\ Steady => Steady'
  BY <1>1, CalmBeat DEF BusInv
<1> QED
  BY <1>1, <1>2 DEF Steady

LEMMA OnBusHead ==
  ASSUME BusInv, EnoughPatience, Ask \/ Await \/ Release
  PROVE  /\ Working /\ 1 \in 1 .. Len(todo) /\ Len(todo) \in Nat
         /\ todo[1].do \in {"write", "read", "poll"} /\ Doing = todo[1].do
         /\ mode # "load"
<1>1. OnBus /\ Working
  BY AskIs, AwaitIs, Delivered
<1> QED
  BY <1>1, HeadIs DEF BusInv, OnBus, Doing, Types, Working

(* A command leaves the port only when the program asks for it.            *)
LEMMA CommandIs ==
  ASSUME BusInv, CmdWrite(port)
  PROVE  Taken /\ Working /\ todo[1].do = "write" /\ todo[1].reg = 0 /\ port.data = todo[1].data
<1>1. port.stb => Taken
  BY PhasesAre DEF BusInv, Bus, Served, Answered, CmdWrite
<1> QED
  BY <1>1, PhasesAre DEF BusInv, Bus, CmdWrite, Doing, OnBus

(* The rest of what is to be done is what is left of it.                   *)
LEMMA TailLeft ==
  ASSUME Types, Working, todo' = Tail(todo)
  PROVE  /\ Len(todo) \in Nat \ {0} /\ Len(todo') = Len(todo) - 1
         /\ \A i \in 1 .. Len(todo') : i + 1 \in 1 .. Len(todo) /\ todo'[i] = todo[i + 1]
         /\ \A i \in 1 .. Len(todo) : i > 1 => i - 1 \in 1 .. Len(todo') /\ todo'[i - 1] = todo[i]
<1> DEFINE n == Len(todo)
<1>1. /\ n \in Nat \ {0} /\ Len(todo') = n - 1
      /\ \A i \in 1 .. n - 1 : todo'[i] = todo[i + 1]
  BY HeadIs
<1> HIDE DEF n
<1>2. \A i \in 1 .. n : i > 1 => i - 1 \in 1 .. n - 1 /\ todo'[i - 1] = todo[i]
  <2> SUFFICES ASSUME NEW i \in 1 .. n, i > 1
               PROVE  i - 1 \in 1 .. n - 1 /\ todo'[i - 1] = todo[i]
    OBVIOUS
  <2>1. i - 1 \in 1 .. n - 1 /\ (i - 1) + 1 = i
    BY <1>1
  <2> QED
    BY <1>1, <2>1
<1>3. \A i \in 1 .. n - 1 : i + 1 \in 1 .. n
  BY <1>1
<1> QED
  BY <1>1, <1>2, <1>3 DEF n

(* Every key is a few operations and a view; only Enter sets a value.      *)
LEMMA KeyIs ==
  ASSUME BusInv, Keys
  PROVE  /\ Running /\ todo = << >> /\ mode = "interactive" /\ m_state' = NoState /\ ~bomb /\ ~bomb'
         /\ \E p, ops : \E man, hlt \in BOOLEAN :
              /\ Short(ops) /\ Key(p, ops, man, hlt)
              /\ \/ \A i \in 1 .. Len(ops) : ~Sets(ops[i])
                 \/ \E c \in Cursors, v \in Values :
                      ops = cmd_write(EditedAt(c), v) /\ edit'.cursor = c /\ edit' # NoEdit
<1>1. manual \in BOOLEAN /\ halted \in BOOLEAN
  BY DEF BusInv, Types
<1>2. ASSUME NEW op \in Ops, ~Sets(op)
      PROVE  \A i \in 1 .. Len(<< op >>) : ~Sets(<< op >>[i])
  <2>1. Len(<< op >>) = 1 /\ << op >>[1] = op
    OBVIOUS
  <2> QED
    BY <1>2, <2>1
<1>3. /\ \A i \in 1 .. Len(<< >>) : ~Sets(<< >>[i])
      /\ \A i \in 1 .. Len(<< Tick >>) : ~Sets(<< Tick >>[i])
      /\ \A i \in 1 .. Len(<< Reset >>) : ~Sets(<< Reset >>[i])
      /\ \A i \in 1 .. Len(<< WbWrite(0, CMD_HALT(0)) >>) : ~Sets(<< WbWrite(0, CMD_HALT(0)) >>[i])
      /\ \A i \in 1 .. Len(<< WbWrite(0, CMD_STEP) >>) : ~Sets(<< WbWrite(0, CMD_STEP) >>[i])
      /\ \A rs, hl \in BOOLEAN : \A i \in 1 .. Len(<< WbWrite(0, Command(rs, hl, FALSE, 0)) >>) :
           ~Sets(<< WbWrite(0, Command(rs, hl, FALSE, 0)) >>[i])
  <2>1. Tick \in Ops /\ Reset \in Ops /\ ~Sets(Tick) /\ ~Sets(Reset)
    BY PlainKinds DEF Sets
  <2>2. WbWrite(0, CMD_HALT(0)) \in Ops /\ ~Sets(WbWrite(0, CMD_HALT(0)))
    BY CommandsAre, WordsAre, HaltKind
  <2>3. Len(<< >>) = 0
    BY EmptyGrammar
  <2>4. \A i \in 1 .. Len(<< >>) : ~Sets(<< >>[i])
    BY <2>3
  <2> QED
    BY <1>2, <2>1, <2>2, <2>4, PlainKinds
<1>4. \E p, ops : \E man, hlt \in BOOLEAN :
        /\ Short(ops) /\ Key(p, ops, man, hlt)
        /\ \/ \A i \in 1 .. Len(ops) : ~Sets(ops[i])
           \/ \E c \in Cursors, v \in Values :
                ops = cmd_write(EditedAt(c), v) /\ edit'.cursor = c /\ edit' # NoEdit
  <2>1. CASE KeyHalt \/ KeyGo \/ KeyReset
    <3>1. \E op \in {WbWrite(0, CMD_HALT(0)), WbWrite(0, Command(FALSE, FALSE, FALSE, 0)), Reset,
                     WbWrite(0, Command(TRUE, TRUE, FALSE, 0))},
             man \in BOOLEAN, hlt \in BOOLEAN : Key(port, << op >>, man, hlt)
      BY <1>1, <2>1 DEF KeyHalt, KeyGo, KeyReset
    <3>2. \A op \in {WbWrite(0, CMD_HALT(0)), WbWrite(0, Command(FALSE, FALSE, FALSE, 0)), Reset,
                     WbWrite(0, Command(TRUE, TRUE, FALSE, 0))} :
            Short(<< op >>) /\ \A i \in 1 .. Len(<< op >>) : ~Sets(<< op >>[i])
      BY <1>3, ShortOps
    <3> QED
      BY <3>1, <3>2
  <2>2. CASE KeyStep \/ KeyManual \/ KeyTimers \/ KeyOther
    <3>1. \E p : \E ops \in {<< >>, << Tick >>, << WbWrite(0, CMD_STEP) >>},
             man \in BOOLEAN, hlt \in BOOLEAN : Key(p, ops, man, hlt)
      BY <1>1, <2>2 DEF KeyStep, KeyManual, KeyTimers, KeyOther
    <3>2. \A ops \in {<< >>, << Tick >>, << WbWrite(0, CMD_STEP) >>} :
            Short(ops) /\ \A i \in 1 .. Len(ops) : ~Sets(ops[i])
      BY <1>3, ShortOps
    <3> QED
      BY <3>1, <3>2
  <2>3. CASE KeyEnter
    <3>1. PICK c \in Cursors, v \in Values :
            \/ /\ Key(port, cmd_write(EditedAt(c), v), manual, halted)
               /\ edit' = [cursor |-> c, val |-> v,
                           other |-> IF EditedAt(c) >= 32
                                     THEN Held(OtherSet(EditedAt(c))) ELSE 0]
            \/ Key(port, << >>, manual, halted)
      BY <2>3, KeysAssumption DEF KeyEnter
    <3>2. Short(cmd_write(EditedAt(c), v))
      BY EditedIs, CmdWriteIs DEF Short
    <3>3. CASE Key(port, << >>, manual, halted)
      BY <1>1, <1>3, <3>3, ShortOps
    <3>4. CASE /\ Key(port, cmd_write(EditedAt(c), v), manual, halted)
               /\ edit' = [cursor |-> c, val |-> v,
                           other |-> IF EditedAt(c) >= 32
                                     THEN Held(OtherSet(EditedAt(c))) ELSE 0]
      <4>1. edit'.cursor = c
        BY <3>4
      <4>2. c # Unread /\ NoEdit.cursor = Unread
        BY EditedIs DEF Unread, NoEdit
      <4> QED
        BY <1>1, <3>2, <3>4, <4>1, <4>2
    <3> QED
      BY <3>1, <3>3, <3>4
  <2> QED
    BY <2>1, <2>2, <2>3 DEF Keys
<1> QED
  BY <1>4 DEF Key, Listening

-----------------------------------------------------------------------------
(* A value is written where it was edited.                                 *)
LEMMA AimedTail ==
  ASSUME Types, Working, Aimed, todo' = Tail(todo), edit' = edit,
         \A i \in 1 .. Len(todo) : Sets(todo[i]) /\ i > 1 /\ i <= 3 =>
           port'.cmd_addr = EditedAt(edit.cursor)
  PROVE  Aimed'
<1> SUFFICES ASSUME NEW i \in 1 .. Len(todo'), Sets(todo'[i])
             PROVE  /\ edit' # NoEdit
                    /\ i > 2 => todo'[i - 2].data.addr = EditedAt(edit'.cursor)
                    /\ i <= 2 => port'.cmd_addr = EditedAt(edit'.cursor)
  BY DEF Aimed, NoEdit
<1> DEFINE k == i + 1
<1>1. /\ k \in 1 .. Len(todo) /\ todo'[i] = todo[k] /\ k > 1 /\ Len(todo) \in Nat
      /\ (i - 2) + 1 = k - 2 /\ (i > 2 => k > 2) /\ (i <= 2 => k <= 3)
  BY TailLeft
<1> HIDE DEF k
<1>2. /\ Sets(todo[k]) /\ edit # NoEdit
      /\ k > 2 => todo[k - 2].data.addr = EditedAt(edit.cursor)
  BY <1>1 DEF Aimed
<1>3. i <= 2 => port'.cmd_addr = EditedAt(edit.cursor)
  BY <1>1, <1>2
<1>4. i > 2 => todo'[i - 2].data.addr = EditedAt(edit.cursor)
  <2> SUFFICES ASSUME i > 2 PROVE todo'[i - 2].data.addr = EditedAt(edit.cursor)
    OBVIOUS
  <2>1. i - 2 \in 1 .. Len(todo') /\ (i - 2) + 1 = k - 2 /\ k > 2
    BY <1>1
  <2>2. todo'[i - 2] = todo[(i - 2) + 1]
    BY <2>1, TailLeft
  <2> QED
    BY <1>2, <2>1, <2>2
<1>5. EditedAt(edit'.cursor) = EditedAt(edit.cursor) /\ edit' = edit
  OBVIOUS
<1> QED
  BY <1>2, <1>3, <1>4, <1>5

LEMMA WriteAccess ==
  ASSUME BusInv, EnoughPatience, WriteInv, Ask \/ Await
  PROVE  WriteInv'
<1>1. /\ Working /\ UNCHANGED << todo, bomb, edit >>
      /\ \E in : Edge(port, cpu, in, FALSE) /\ Carriable(in)
  BY AskIs, AwaitIs, OnTheBus DEF settings, BusInv
<1>2. Types /\ \A i \in 1 .. Len(todo) : Local(todo, i)
  BY <1>1, HeadIs DEF BusInv
<1>3. ASSUME NEW i \in 1 .. Len(todo), Sets(todo[i]), i <= 2
      PROVE  port'.cmd_addr = port.cmd_addr
  <2>1. ~(todo[1].do = "write" /\ todo[1].reg = 0)
    <3>1. CASE i = 1
      BY <1>3, <3>1 DEF Sets
    <3>2. CASE i = 2
      BY <1>2, <1>3, <3>2 DEF Local
    <3> QED
      BY <1>3, <3>1, <3>2
  <2>2. ~CmdWrite(port)
    BY <2>1, CommandIs
  <2> QED
    BY <1>1, <1>2, <2>2, Beat
<1>4. Aimed'
  BY <1>1, <1>3 DEF WriteInv, Aimed, NoEdit
<1> QED
  BY <1>1, <1>4 DEF WriteInv, NoEdit

LEMMA WriteRelease ==
  ASSUME BusInv, EnoughPatience, WriteInv, Release
  PROVE  WriteInv'
<1>1. /\ Working /\ edit' = edit /\ todo' \in {todo, Tail(todo)}
      /\ ~Counting => Answered /\ bomb' = bomb
  BY Delivered DEF settings
<1>2. /\ Types /\ Level /\ port'.cmd_addr = port.cmd_addr
  BY ReleaseBeat
<1>3. /\ 1 \in 1 .. Len(todo) /\ Len(todo) \in Nat /\ \A i \in 1 .. Len(todo) : Local(todo, i)
  BY <1>1, <1>2, HeadIs
<1>4. bomb' => edit # NoEdit /\ EditedAt(edit.cursor) >= 32
  <2>1. CASE Counting
    <3>1. Sets(todo[1]) /\ port.cmd_addr >= 32
      BY <2>1 DEF Counting
    <3>2. edit # NoEdit /\ port.cmd_addr = EditedAt(edit.cursor)
      BY <1>3, <3>1 DEF WriteInv, Aimed
    <3> QED
      BY <3>1, <3>2
  <2>2. CASE ~Counting
    BY <1>1, <2>2 DEF WriteInv
  <2> QED
    BY <2>1, <2>2
<1>5. ASSUME NEW i \in 1 .. Len(todo), Sets(todo[i]), i > 1, i <= 3
      PROVE  port'.cmd_addr = EditedAt(edit.cursor)
  <2>1. /\ i > 2 => todo[i - 2].data.addr = EditedAt(edit.cursor)
        /\ i <= 2 => port.cmd_addr = EditedAt(edit.cursor)
    BY <1>5 DEF WriteInv, Aimed
  <2>2. CASE i = 2
    BY <1>2, <2>1, <2>2
  <2>3. CASE i = 3
    <3>1. Local(todo, 2) /\ Local(todo, 3)
      BY <1>3, <2>3
    <3>2. Halts(todo[1])
      BY <1>5, <2>3, <3>1 DEF Local
    <3>3. Answered
      BY <1>1, <3>2 DEF Counting, Sets, Halts
    <3>4. port.cmd_addr = todo[1].data.addr
      BY <1>1, <1>2, <3>2, <3>3 DEF Level, Commanding
    <3> QED
      BY <1>2, <2>1, <2>3, <3>4
  <2> QED
    BY <1>5, <2>2, <2>3
<1>6. Aimed'
  <2>1. CASE todo' = todo
    BY <1>1, <1>2, <2>1 DEF WriteInv, Aimed, NoEdit
  <2>2. CASE todo' = Tail(todo)
    BY <1>1, <1>2, <1>5, <2>2, AimedTail DEF WriteInv
  <2> QED
    BY <1>1, <2>1, <2>2
<1> QED
  BY <1>1, <1>4, <1>6 DEF WriteInv, NoEdit

(* Everything that is not an access finds nothing that sets a value next.  *)
LEMMA WriteRest ==
  ASSUME BusInv, WriteInv, TickQuiet \/ ResetTick \/ ShowState \/ PokeGo \/ Crash
  PROVE  WriteInv'
<1>1. /\ Working /\ Doing \in {"tick", "reset", "show", "go", "crash"}
      /\ edit' = edit /\ bomb' = bomb
      /\ \/ todo' = Tail(todo)
         \/ todo' = todo /\ port' = port
  BY DEF TickQuiet, ResetTick, TickOnce, ShowState, PokeGo, Crash, settings
<1>2. Types
  BY DEF BusInv
<1>3. Aimed'
  <2>1. CASE todo' = todo /\ port' = port
    BY <1>1, <2>1 DEF WriteInv, Aimed, NoEdit
  <2>2. CASE todo' = Tail(todo)
    <3>1. \A i \in 1 .. Len(todo) : ~(Sets(todo[i]) /\ i <= 3)
      BY <1>1, <1>2, FreshTail
    <3> QED
      BY <1>1, <1>2, <2>2, <3>1, AimedTail DEF WriteInv
  <2> QED
    BY <1>1, <2>1, <2>2
<1> QED
  BY <1>1, <1>3 DEF WriteInv, NoEdit

(* What main begins, and what it does between two accesses.                *)
LEMMA MainIs ==
  ASSUME Main
  PROVE  /\ mode # "interactive" \/ Report
         /\ UNCHANGED << edit, bomb, manual, halted, cpu, stepping, m_state >>
         /\ \/ todo' = todo
            \/ todo' = << Reset, Tick, Tick, GoOn >>
            \/ \E op \in {Tick, WbWrite(0, CMD_STEP), WbWrite(0, Command(TRUE, TRUE, FALSE, 0))} :
                 todo' = << op >>
            \/ todo' = << >>
         /\ mode' = "interactive" => mode = "load" \/ ended' \in {"bombed", "reported"}
<1>1. CASE Load \/ Report \/ AutoLoop
  BY <1>1 DEF Load, Report, AutoLoop, settings
<1>2. CASE StartAutorun \/ StartAutostep \/ StartInteractive
  BY <1>2 DEF StartAutorun, StartAutostep, StartInteractive, Start
<1> QED
  BY <1>1, <1>2 DEF Main

LEMMA MainOps ==
  ASSUME BusInv, Main, NEW i \in 1 .. Len(todo')
  PROVE  \/ todo' = todo
         \/ ~Sets(todo'[i]) /\ todo'[i].do # "show" /\ todo'[i].do # "read"
<1>1. /\ Reset.do = "reset" /\ Tick.do = "tick" /\ GoOn.do = "go"
      /\ Reset \in Ops /\ Tick \in Ops /\ GoOn \in Ops
  BY PlainKinds DEF Reset, Tick, GoOn, Op
<1>2. CASE todo' = << >>
  BY <1>2, EmptyGrammar
<1>3. CASE todo' = << Reset, Tick, Tick, GoOn >>
  <2>1. todo'[i] \in {Reset, Tick, GoOn}
    BY <1>3
  <2> QED
    BY <1>1, <2>1 DEF Sets
<1>4. CASE \E op \in {Tick, WbWrite(0, CMD_STEP), WbWrite(0, Command(TRUE, TRUE, FALSE, 0))} :
             todo' = << op >>
  <2>1. todo'[i] \in {Tick, WbWrite(0, CMD_STEP), WbWrite(0, Command(TRUE, TRUE, FALSE, 0))}
    <3>1. PICK op \in {Tick, WbWrite(0, CMD_STEP), WbWrite(0, Command(TRUE, TRUE, FALSE, 0))} :
            todo' = << op >>
      BY <1>4
    <3>2. todo'[i] = op
      BY <3>1
    <3> QED
      BY <3>2
  <2>2. /\ WbWrite(0, CMD_STEP).do = "write" /\ ~Sets(WbWrite(0, CMD_STEP))
        /\ WbWrite(0, Command(TRUE, TRUE, FALSE, 0)).do = "write"
        /\ ~Sets(WbWrite(0, Command(TRUE, TRUE, FALSE, 0)))
    BY PlainKinds
  <2> QED
    BY <1>1, <2>1, <2>2 DEF Sets
<1> QED
  BY <1>2, <1>3, <1>4, MainIs

LEMMA WriteMain ==
  ASSUME BusInv, WriteInv, Main
  PROVE  WriteInv'
<1>1. edit' = edit /\ bomb' = bomb
  BY MainIs
<1>2. CASE todo = << >> /\ todo' = todo
  <2>1. Len(todo') = 0
    BY <1>2, EmptyGrammar
  <2> QED
    BY <1>1, <2>1 DEF WriteInv, Aimed, NoEdit
<1>3. CASE todo' # todo
  BY <1>1, <1>3, MainOps DEF WriteInv, Aimed, NoEdit
<1>4. CASE Load
  BY <1>4 DEF Load, WriteInv, Aimed, NoEdit
<1>5. CASE ~Load
  <2>1. todo = << >> \/ todo' # todo
    BY <1>5 DEF Main, StartAutorun, StartAutostep, StartInteractive, AutoLoop, Report, Start,
                BusInv, Types
  <2> QED
    BY <1>2, <1>3, <2>1
<1> QED
  BY <1>4, <1>5

LEMMA WriteKey ==
  ASSUME BusInv, WriteInv, Keys
  PROVE  WriteInv'
<1>1. PICK p, ops : \E man, hlt \in BOOLEAN :
        /\ Short(ops) /\ Key(p, ops, man, hlt)
        /\ \/ \A i \in 1 .. Len(ops) : ~Sets(ops[i])
           \/ \E c \in Cursors, v \in Values :
                ops = cmd_write(EditedAt(c), v) /\ edit'.cursor = c /\ edit' # NoEdit
  BY KeyIs
<1>2. PICK man \in BOOLEAN, hlt \in BOOLEAN :
        /\ Short(ops) /\ Key(p, ops, man, hlt)
        /\ \/ \A i \in 1 .. Len(ops) : ~Sets(ops[i])
           \/ \E c \in Cursors, v \in Values :
                ops = cmd_write(EditedAt(c), v) /\ edit'.cursor = c /\ edit' # NoEdit
  BY <1>1
<1> DEFINE w == View(man, hlt)
<1>3. todo' = ops \o w
  BY <1>2 DEF Key
<1>4. Grammar(w) /\ \A i \in 1 .. Len(w) : ~Sets(w[i])
  BY ViewIs DEF Peeks, Halts, Sets
<1>5. ~bomb'
  BY KeyIs
<1> HIDE DEF w
<1>6. /\ Len(ops) \in Nat /\ Len(w) \in Nat /\ Len(todo') = Len(ops) + Len(w)
      /\ \A i \in 1 .. Len(ops) : todo'[i] = ops[i]
      /\ \A i \in 1 .. Len(w) : todo'[Len(ops) + i] = w[i]
  BY <1>2, <1>3, <1>4, Together DEF Short, Grammar
<1>7. ASSUME NEW i \in 1 .. Len(todo'), Sets(todo'[i])
      PROVE  i \in 1 .. Len(ops) /\ Sets(ops[i])
  <2>1. CASE i <= Len(ops)
    BY <1>6, <1>7, <2>1
  <2>2. CASE i > Len(ops)
    <3>1. i - Len(ops) \in 1 .. Len(w) /\ Len(ops) + (i - Len(ops)) = i
      BY <1>6, <2>2
    <3> QED
      BY <1>4, <1>6, <1>7, <3>1
  <2> QED
    BY <1>6, <2>1, <2>2
<1>8. ASSUME NEW i \in 1 .. Len(todo'), Sets(todo'[i])
      PROVE  edit' # NoEdit /\ i > 2 /\ todo'[i - 2].data.addr = EditedAt(edit'.cursor)
  <2>1. i \in 1 .. Len(ops) /\ Sets(ops[i])
    BY <1>7, <1>8
  <2>2. PICK c \in Cursors, v \in Values :
          ops = cmd_write(EditedAt(c), v) /\ edit'.cursor = c /\ edit' # NoEdit
    BY <1>2, <2>1
  <2>3. Len(ops) = 3 /\ i = 3 /\ ops[1].data.addr = EditedAt(c)
    BY <2>1, <2>2, EditedIs, CmdWriteIs
  <2>4. todo'[1] = ops[1]
    BY <1>6, <2>3
  <2> QED
    BY <2>2, <2>3, <2>4
<1> QED
  BY <1>5, <1>8 DEF WriteInv, Aimed, NoEdit

LEMMA WriteStep ==
  ASSUME BusInv, EnoughPatience, WriteInv, [Next]_vars
  PROVE  WriteInv'
<1>1. CASE UNCHANGED vars
  BY <1>1 DEF WriteInv, Aimed, NoEdit, vars, program
<1> QED
  BY <1>1, WriteAccess, WriteRelease, WriteRest, WriteMain, WriteKey DEF Next, Work

LEMMA WriteInit ==
  ASSUME Init
  PROVE  WriteInv
<1>1. todo = << >> /\ ~bomb /\ Len(<< >>) = 0
  BY EmptyGrammar DEF Init
<1> QED
  BY <1>1 DEF WriteInv, Aimed

(* The write of an edited counter is the only access that is ever kept     *)
(* waiting, and the only one that can be given up: every other finds the   *)
(* port free and has its answer after four clocks, of the 100 that the     *)
(* loops of wb_write and wb_read allow (zippy_tb.cpp:1412, 1442).          *)
THEOREM AccessesServed ==
  ASSUME EnoughPatience
  PROVE  Spec => []OnlyCounterWaits
<1>1. Init => BusInv /\ WriteInv
  BY BusInit, WriteInit
<1>2. BusInv /\ WriteInv /\ [Next]_vars => (BusInv /\ WriteInv)'
  BY BusStep, WriteStep
<1>3. BusInv /\ WriteInv => OnlyCounterWaits
  <2> SUFFICES ASSUME BusInv, WriteInv PROVE OnlyCounterWaits
    OBVIOUS
  <2>1. Stalled(port, cpu) =>
          /\ OnBus /\ Doing = "write" /\ port.cmd_addr >= 32
          /\ Halting /\ cpu.pipe = "none"
    BY NotStalled DEF BusInv
  <2> QED
    BY <2>1 DEF OnlyCounterWaits, WriteInv, Halting
<1> QED
  BY <1>1, <1>2, <1>3, PTL DEF Spec

-----------------------------------------------------------------------------
(* The view is drawn from inside or through the port, as the flags say.    *)
LEMMA OneViewStep ==
  ASSUME BusInv, EnoughPatience, OneView, [Next]_vars
  PROVE  OneView'
<1>1. CASE todo' = todo /\ manual' = manual /\ halted' = halted
  BY <1>1 DEF OneView, Inside
<1>2. CASE Working /\ todo' = Tail(todo) /\ manual' = manual /\ halted' = halted
  <2>1. \A i \in 1 .. Len(todo') : i + 1 \in 1 .. Len(todo) /\ todo'[i] = todo[i + 1]
    BY <1>2, TailLeft DEF BusInv
  <2> QED
    BY <1>2, <2>1 DEF OneView, Inside
<1>3. CASE Main
  <2>1. manual' = manual /\ halted' = halted
    BY <1>3, MainIs
  <2> QED
    BY <1>1, <1>3, <2>1, MainOps DEF OneView
<1>4. CASE Keys
  <2>1. PICK p, ops : \E man, hlt \in BOOLEAN : Short(ops) /\ Key(p, ops, man, hlt)
    BY <1>4, KeyIs
  <2>2. PICK man \in BOOLEAN, hlt \in BOOLEAN : Short(ops) /\ Key(p, ops, man, hlt)
    BY <2>1
  <2> DEFINE w == View(man, hlt)
  <2>3. todo' = ops \o w /\ manual' = man /\ halted' = hlt
    BY <2>2 DEF Key
  <2>4. /\ Grammar(w)
        /\ \A i \in 1 .. Len(w) :
             /\ w[i].do = "show" => Inside(man, hlt)
             /\ w[i].do = "read" => ~Inside(man, hlt)
    <3>1. /\ Grammar(w)
          /\ \A i \in 1 .. Len(w) : IF Inside(man, hlt) THEN w[i].do = "show" ELSE Peeks(w[i])
      BY ViewIs
    <3> HIDE DEF w
    <3> QED
      BY <3>1 DEF Peeks, Halts
  <2>5. /\ Grammar(ops) /\ \A i \in 1 .. Len(ops) : ops[i].do # "show" /\ ops[i].do # "read"
    BY <2>2 DEF Short
  <2> HIDE DEF w
  <2>6. /\ Len(ops) \in Nat /\ Len(w) \in Nat /\ Len(todo') = Len(ops) + Len(w)
        /\ \A i \in 1 .. Len(ops) : todo'[i] = ops[i]
        /\ \A i \in 1 .. Len(w) : todo'[Len(ops) + i] = w[i]
    BY <2>3, <2>4, <2>5, Together DEF Grammar
  <2>7. ASSUME NEW i \in 1 .. Len(todo')
        PROVE  /\ todo'[i].do = "show" => Inside(man, hlt)
               /\ todo'[i].do = "read" => ~Inside(man, hlt)
    <3>1. CASE i <= Len(ops)
      BY <2>5, <2>6, <3>1
    <3>2. CASE i > Len(ops)
      <4>1. i - Len(ops) \in 1 .. Len(w) /\ Len(ops) + (i - Len(ops)) = i
        BY <2>6, <3>2
      <4> QED
        BY <2>4, <2>6, <4>1
    <3> QED
      BY <2>6, <3>1, <3>2
  <2> QED
    BY <2>3, <2>7 DEF OneView
<1>5. CASE Work
  <2>1. CASE Ask \/ Await \/ Crash
    BY <1>1, <2>1 DEF Ask, Await, Crash, settings
  <2>2. CASE Release
    <3>1. /\ Working /\ UNCHANGED settings
          /\ todo' = todo \/ todo' = Tail(todo)
      BY <2>2, Delivered
    <3> QED
      BY <1>1, <1>2, <3>1 DEF settings
  <2>3. CASE TickQuiet \/ ResetTick \/ ShowState \/ PokeGo
    BY <1>2, <2>3 DEF TickQuiet, ResetTick, TickOnce, ShowState, PokeGo, settings
  <2> QED
    BY <1>5, <2>1, <2>2, <2>3 DEF Work
<1>6. CASE UNCHANGED vars
  BY <1>1, <1>6 DEF vars, program
<1> QED
  BY <1>3, <1>4, <1>5, <1>6 DEF Next

LEMMA SeenStep ==
  ASSUME BusInv, EnoughPatience, ViewInv, [Next]_vars
  PROVE  Seen'
<1>1. CASE Ask \/ Await
  <2> SUFFICES ASSUME Viewing' PROVE Seen'
    BY DEF Seen
  <2>1. UNCHANGED << todo, m_state, mode, manual, halted, ended >>
    BY <1>1, AskIs, AwaitIs DEF settings
  <2>2. Viewing
    BY <2>1 DEF Viewing, Running, NoState
  <2>3. /\ Steady /\ Halting /\ Peeks(todo[1])
        /\ \A i \in 1 .. Len(todo) : Peeks(todo[i])
        /\ \A a \in Addrs : m_state[a] \in {Unread, cpu.regs[a]}
    BY <1>1, <2>2, OnBusHead DEF ViewInv, Seen, Steady
  <2>4. Steady' /\ cpu'.regs = cpu.regs
    BY <1>1, <2>3, AccessBeat
  <2> QED
    BY <2>1, <2>3, <2>4 DEF Seen, Peeks, Halts
<1>2. CASE Release
  <2> SUFFICES ASSUME Viewing' PROVE Seen'
    BY DEF Seen
  <2>1. /\ Working /\ UNCHANGED << mode, manual, halted >>
        /\ todo' = todo \/ todo' = Tail(todo)
        /\ ~Counting => Answered
        /\ m_state' = IF Doing = "read" /\ todo[1].into # Nowhere
                      THEN [m_state EXCEPT ![todo[1].into] = port.out.val] ELSE m_state
    BY <1>2, Delivered DEF settings
  <2>2. /\ Types /\ Level
        /\ Halting /\ Answered /\ Steady => Steady' /\ cpu'.regs = cpu.regs
    BY <1>2, ReleaseBeat
  <2>3. 1 \in 1 .. Len(todo) /\ Len(todo) \in Nat /\ Doing = todo[1].do
    BY <1>2, OnBusHead
  <2>4. m_state # NoState \/ (Doing = "read" /\ todo[1].into # Nowhere)
    BY <2>1 DEF Viewing, NoState
  <2>5. m_state # NoState => Viewing
    BY <2>1 DEF Viewing, Working
  <2>6. Answered
    <3>1. CASE Doing = "read"
      BY <2>1, <2>3, <3>1 DEF Counting, Sets
    <3>2. CASE Viewing
      <4>1. Peeks(todo[1])
        BY <2>3, <3>2 DEF ViewInv, Seen
      <4> QED
        BY <2>1, <4>1 DEF Counting, Sets, Peeks, Halts
    <3> QED
      BY <2>4, <2>5, <3>1, <3>2
  <2>7. Doing = "read" => /\ Steady
                          /\ todo[1].into # Nowhere =>
                               port.out.val = cpu.regs[todo[1].into]
    BY <2>1, <2>2, <2>6 DEF Level, Reading
  <2>8. Steady /\ Steady' /\ cpu'.regs = cpu.regs
    BY <2>2, <2>4, <2>5, <2>6, <2>7 DEF ViewInv, Seen, Steady
  <2>9. \A i \in 1 .. Len(todo) : i > 1 => Peeks(todo[i])
    <3>1. Doing = "read" => \A i \in 1 .. Len(todo) : i > 1 => Peeks(todo[i])
      BY <2>2, <2>3 DEF Types, Grammar, Doing
    <3> QED
      BY <2>4, <2>5, <3>1 DEF ViewInv, Seen
  <2>10. todo' = todo => Peeks(todo[1])
    <3>1. Doing = "read" => Peeks(todo[1])
      BY DEF Peeks, Doing
    <3> QED
      BY <2>3, <2>4, <2>5, <3>1 DEF ViewInv, Seen
  <2>11. \A i \in 1 .. Len(todo') : Peeks(todo'[i])
    <3>1. CASE todo' = todo
      <4>1. \A i \in 1 .. Len(todo) : i = 1 \/ i > 1
        BY <2>3
      <4> QED
        BY <2>9, <2>10, <3>1, <4>1
    <3>2. CASE todo' = Tail(todo)
      <4>1. \A i \in 1 .. Len(todo') :
              i + 1 \in 1 .. Len(todo) /\ todo'[i] = todo[i + 1] /\ i + 1 > 1
        <5>1. \A i \in 1 .. Len(todo') : i + 1 \in 1 .. Len(todo) /\ todo'[i] = todo[i + 1]
          BY <2>1, <2>2, <3>2, TailLeft
        <5>2. \A i \in 1 .. Len(todo') : i + 1 > 1
          OBVIOUS
        <5> QED
          BY <5>1, <5>2
      <4> QED
        BY <2>9, <4>1
    <3> QED
      BY <2>1, <3>1, <3>2
  <2>12. \A a \in Addrs : m_state[a] \in {Unread, cpu.regs[a]}
    <3>1. m_state = NoState => \A a \in Addrs : m_state[a] = Unread
      BY DEF NoState
    <3> QED
      BY <2>5, <3>1 DEF ViewInv, Seen
  <2>13. \A a \in Addrs : m_state'[a] \in {Unread, cpu.regs[a]}
    <3>1. m_state \in [Addrs -> Values \cup {Unread}]
      BY <2>2 DEF Types
    <3>2. CASE Doing = "read" /\ todo[1].into # Nowhere
      BY <2>1, <2>7, <2>12, <3>1, <3>2
    <3>3. CASE ~(Doing = "read" /\ todo[1].into # Nowhere)
      BY <2>1, <2>12, <3>3
    <3> QED
      BY <3>2, <3>3
  <2> QED
    BY <2>8, <2>11, <2>13 DEF Seen
<1>3. CASE TickQuiet \/ ResetTick \/ PokeGo
  <2>1. /\ Working /\ Doing \in {"tick", "reset", "go"}
        /\ UNCHANGED << m_state, mode, manual, halted, ended >>
    BY <1>3 DEF TickQuiet, ResetTick, TickOnce, PokeGo, settings
  <2>2. ~Viewing
    <3> SUFFICES ASSUME Viewing PROVE FALSE
      OBVIOUS
    <3>1. 1 \in 1 .. Len(todo) /\ Doing = todo[1].do
      BY <2>1, HeadIs DEF BusInv
    <3>2. Peeks(todo[1])
      BY <3>1 DEF ViewInv, Seen
    <3> QED
      BY <2>1, <3>1, <3>2 DEF Peeks, Halts
  <2> QED
    BY <2>1, <2>2 DEF Seen, Viewing, Running, NoState
<1>4. CASE ShowState
  <2>1. /\ Working /\ Doing = "show" /\ UNCHANGED << manual, halted >>
    BY <1>4 DEF ShowState, settings
  <2>2. 1 \in 1 .. Len(todo) /\ Doing = todo[1].do
    BY <2>1, HeadIs DEF BusInv
  <2>3. manual \/ ~halted
    BY <2>1, <2>2 DEF ViewInv, OneView, Inside
  <2> QED
    BY <2>1, <2>3 DEF Seen, Viewing
<1>5. CASE Crash
  <2>1. ended' = "crash"
    BY <1>5 DEF Crash
  <2> QED
    BY <2>1 DEF Seen, Viewing, Running
<1>6. CASE Main
  <2>1. m_state' = m_state
    BY <1>6, MainIs
  <2>2. CASE mode = "load"
    <3>1. m_state' = NoState
      BY <2>1, <2>2 DEF BusInv, Types
    <3> QED
      BY <3>1 DEF Seen, Viewing, NoState
  <2>3. CASE mode # "load"
    <3>1. mode' # "interactive" \/ ended' \in {"bombed", "reported"}
      BY <1>6, <2>3, MainIs
    <3> QED
      BY <3>1 DEF Seen, Viewing, Running
  <2> QED
    BY <2>2, <2>3
<1>7. CASE Keys
  <2>1. m_state' = NoState
    BY <1>7, KeyIs
  <2> QED
    BY <2>1 DEF Seen, Viewing, NoState
<1>8. CASE UNCHANGED vars
  BY <1>8 DEF ViewInv, Seen, Viewing, Running, NoState, Steady, Halting, Drained, Idle, Peeks,
              Halts, vars, program
<1> QED
  BY <1>1, <1>2, <1>3, <1>4, <1>5, <1>6, <1>7, <1>8 DEF Next, Work

(* The view of a halted processor shows one state of it: whatever has been *)
(* read stays the register's value until the next key (cmd_read,           *)
(* zippy_tb.cpp:767, waits until the processor does not stall).            *)
THEOREM ViewShowsOneState ==
  ASSUME EnoughPatience
  PROVE  Spec => []ViewIsTrue
<1>1. Init => BusInv /\ ViewInv
  <2> SUFFICES ASSUME Init PROVE BusInv /\ ViewInv
    OBVIOUS
  <2>1. todo = << >> /\ m_state = NoState
    BY DEF Init
  <2> QED
    BY <2>1, BusInit, EmptyGrammar DEF ViewInv, OneView, Seen, Viewing
<1>2. BusInv /\ ViewInv /\ [Next]_vars => (BusInv /\ ViewInv)'
  BY BusStep, OneViewStep, SeenStep DEF ViewInv
<1>3. BusInv /\ ViewInv => ViewIsTrue
  <2> SUFFICES ASSUME ViewInv, mode = "interactive", ~manual, halted, Running
               PROVE  \A a \in Addrs : m_state[a] \in {Unread, cpu.regs[a]}
    BY DEF ViewIsTrue
  <2>1. m_state = NoState => \A a \in Addrs : m_state[a] = Unread
    BY DEF NoState
  <2> QED
    BY <2>1 DEF ViewInv, Seen, Viewing
<1> QED
  BY <1>1, <1>2, <1>3, PTL DEF Spec

-----------------------------------------------------------------------------
(* What is done for an edit leaves the halt, and every counter but the one *)
(* that is set.                                                            *)
LEMMA MildBeat ==
  ASSUME BusInv, EnoughPatience, Ask \/ Await \/ Release, Halting, Mild(todo[1])
  PROVE  /\ Halting'
         /\ \A b \in Counters : (Sets(todo[1]) => b # port.cmd_addr) =>
              cpu'.regs[b] = cpu.regs[b]
<1>1. \E in : Edge(port, cpu, in, FALSE) /\ Carriable(in)
  BY AskIs, AwaitIs, Delivered, OnTheBus DEF BusInv
<1>2. Types /\ Bus /\ Level /\ PortTypes /\ CpuTypes
  BY DEF BusInv, Types
<1>3. todo[1].do \in {"write", "read", "poll"} /\ Doing = todo[1].do
  BY OnBusHead
<1>4. CASE Taken => Peeks(todo[1]) \/ Stalled(port, cpu)
  BY <1>1, <1>2, <1>4, CalmBeat
<1>5. CASE ~(Taken => Peeks(todo[1]) \/ Stalled(port, cpu))
  <2>1. Sets(todo[1]) /\ Taken
    BY <1>3, <1>5 DEF Mild
  <2>2. todo[1].reg # 0
    BY <2>1 DEF Sets
  <2>3. ~CmdWrite(port)
    BY <2>2, CommandIs
  <2>4. Halting'
    <3>1. PICK in : Edge(port, cpu, in, FALSE) /\ Carriable(in)
      BY <1>1
    <3>2. /\ port'.cmd_reset = (CmdWrite(port) /\ port.data.reset)
          /\ port'.cmd_halt = \/ FALSE
                              \/ IF CmdWrite(port) THEN port.data.halt \/ port.data.step
                                 ELSE port.cmd_halt \/ port.cmd_step \/ Break(cpu)
          /\ port'.cmd_step = (CmdWrite(port) /\ port.data.step)
      BY <1>2, <3>1, Beat
    <3>3. port'.cmd_halt /\ ~port'.cmd_reset /\ ~port'.cmd_step
      BY <2>3, <3>2 DEF Halting
    <3> QED
      BY <3>3 DEF Halting
  <2>5. PICK r \in [Addrs -> Values] :
          /\ cpu'.regs = PeriphWrite(port, cpu, r, FALSE)
          /\ \A b \in Counters : r[b] = cpu.regs[b]
    BY <1>1, <1>2, HaltedStep
  <2>6. \A b \in Addrs : b # port.cmd_addr => cpu'.regs[b] = r[b]
    BY <2>5 DEF PeriphWrite
  <2>7. \A b \in Counters : b \in Addrs
    BY DEF Counters
  <2> QED
    BY <2>1, <2>4, <2>5, <2>6, <2>7
<1> QED
  BY <1>4, <1>5

(* The counter of the other set is not the one that is written.            *)
LEMMA OtherIs ==
  ASSUME NEW c \in Cursors, EditedAt(c) >= 32
  PROVE  /\ c \in 8 .. 11 /\ EditedAt(c) \in 40 .. 43
         /\ OtherSet(EditedAt(c)) = EditedAt(c) + 4
         /\ OtherSet(EditedAt(c)) # EditedAt(c)
         /\ OtherSet(EditedAt(c)) \in Addrs => OtherSet(EditedAt(c)) \in Counters
<1>1. c \in 8 .. 43
  BY EditedIs
<1>2. c \in 8 .. 11 /\ EditedAt(c) = c + 32
  BY <1>1 DEF EditedAt
<1>3. EditedAt(c) \in 40 .. 43
  BY <1>2
<1>4. OtherSet(EditedAt(c)) = EditedAt(c) + 4
  BY <1>3 DEF OtherSet
<1>5. EditedAt(c) + 4 # EditedAt(c) /\ EditedAt(c) + 4 \in 40 .. 47
  BY <1>3
<1> QED
  BY <1>2, <1>3, <1>4, <1>5 DEF Counters

LEMMA OtherStays ==
  ASSUME Types, edit # NoEdit, OtherKept, edit' = edit,
         \A b \in Counters : b # EditedAt(edit.cursor) => cpu'.regs[b] = cpu.regs[b]
  PROVE  OtherKept'
<1>1. edit.cursor \in Cursors
  BY DEF Types
<1> DEFINE o == OtherSet(EditedAt(edit.cursor))
<1> SUFFICES ASSUME EditedAt(edit.cursor) >= 32
             PROVE  (IF o \in Addrs THEN cpu'.regs[o] ELSE 0) = edit.other
  BY DEF OtherKept, Held
<1>2. (IF o \in Addrs THEN cpu.regs[o] ELSE 0) = edit.other
  BY DEF OtherKept, Held
<1>3. o \in Addrs => o \in Counters /\ o # EditedAt(edit.cursor)
  BY <1>1, OtherIs
<1> HIDE DEF o
<1> QED
  BY <1>2, <1>3

(* What the view shows of the edit, from inside and through the port.      *)
LEMMA WantedIs ==
  ASSUME Types, edit # NoEdit, OtherKept, cpu.regs[EditedAt(edit.cursor)] = edit.val,
         ~IsCC(EditedAt(edit.cursor))
  PROVE  /\ Shown \in Addrs
         /\ ~Inside(manual, halted) => cpu.regs[Shown] = Wanted
         /\ Inside(manual, halted) => Cheating[Shown] = Wanted
<1> DEFINE c == edit.cursor
           e == EditedAt(c)
           users == m_show_user_timers
           ins == Inside(manual, halted)
<1>1. c \in Cursors /\ users \in BOOLEAN /\ ins \in BOOLEAN
  BY DEF Types, Inside
<1>2. /\ c \in 8 .. 43 /\ e \in Addrs /\ Shown \in Addrs
  BY <1>1, EditedIs DEF Shown
<1>3. CASE c >= 12
  <2>1. e = c - 12 /\ e \in 0 .. 31 /\ Shown = e
    BY <1>2, <1>3 DEF EditedAt, ShownAt, Shown
  <2>2. ~(c \in 8 .. 11)
    BY <1>3
  <2>3. Wanted = edit.val
    BY <2>2 DEF Wanted, Elsewhere
  <2>4. OtherSet(e) = e
    BY <2>1 DEF OtherSet
  <2>5. Cheating[e] = cpu.regs[e]
    BY <1>2, <2>4 DEF Cheating, Held
  <2> QED
    BY <1>2, <2>1, <2>3, <2>5
<1>4. CASE ~(c >= 12)
  <2>1. c \in 8 .. 11 /\ e = c + 32 /\ e \in 40 .. 43 /\ e >= 32
    BY <1>2, <1>4 DEF EditedAt
  <2>2. (users => Shown = e) /\ (~users => Shown = e + 4)
    <3>1. Shown = IF users THEN c + 32 ELSE c + 36
      BY <1>4, <2>1 DEF ShownAt, Shown
    <3>2. c + 32 = e /\ c + 36 = e + 4
      BY <2>1
    <3> QED
      BY <3>1, <3>2
  <2>3. OtherSet(e) = e + 4 /\ OtherSet(e + 4) = e /\ ~IsCC(e + 4)
    BY <2>1 DEF OtherSet, IsCC
  <2>4. edit.other = Held(e + 4)
    BY <2>1, <2>3 DEF OtherKept
  <2>5. /\ users = ins => Wanted = edit.other
        /\ users # ins => Wanted = edit.val
    BY <2>1 DEF Wanted, Elsewhere
  <2>6. CASE users /\ ~ins
    <3>1. Wanted = edit.val
      BY <2>5, <2>6
    <3> QED
      BY <1>2, <2>2, <2>6, <3>1
  <2>7. CASE ~users /\ ~ins
    <3>1. Wanted = edit.other
      BY <1>1, <2>5, <2>7
    <3>2. Held(e + 4) = cpu.regs[e + 4]
      BY <1>2, <2>2, <2>7 DEF Held
    <3> QED
      BY <1>2, <2>2, <2>4, <2>7, <3>1, <3>2
  <2>8. CASE users /\ ins
    <3>1. Wanted = edit.other
      BY <1>1, <2>5, <2>8
    <3>2. Cheating[e] = Held(e + 4)
      BY <1>2, <2>3 DEF Cheating
    <3> QED
      BY <1>2, <2>2, <2>4, <2>8, <3>1, <3>2
  <2>9. CASE ~users /\ ins
    <3>1. Wanted = edit.val
      BY <1>1, <2>5, <2>9
    <3>2. Cheating[e + 4] = cpu.regs[e]
      BY <1>2, <2>2, <2>3, <2>9 DEF Cheating, Held
    <3> QED
      BY <1>2, <2>2, <2>9, <3>1, <3>2
  <2> QED
    BY <2>6, <2>7, <2>8, <2>9
<1> QED
  BY <1>3, <1>4

(* What is left of an edit when one operation is done.                     *)
LEMMA EditTail ==
  ASSUME Types, Working, todo' = Tail(todo), UNCHANGED settings
  PROVE  /\ (\A j \in 1 .. Len(todo) : Mild(todo[j])) => (\A j \in 1 .. Len(todo) : Mild(todo[j]))'
         /\ Crashing /\ todo[1].do # "crash" => Crashing'
         /\ \A i \in 1 .. Len(todo) : Pending(i) /\ i > 1 =>
              (\E k \in 1 .. Len(todo) : Pending(k))'
         /\ \A j \in 1 .. Len(todo) : Coming(todo[j]) /\ j > 1 =>
              (\E k \in 1 .. Len(todo) : Coming(todo[k]))'
<1>1. /\ \A i \in 1 .. Len(todo') : i + 1 \in 1 .. Len(todo) /\ todo'[i] = todo[i + 1]
      /\ \A i \in 1 .. Len(todo) : i > 1 =>
           i - 1 \in 1 .. Len(todo') /\ todo'[i - 1] = todo[i]
      /\ Len(todo') = Len(todo) - 1 /\ Len(todo) \in Nat
  BY TailLeft
<1>2. /\ edit' = edit /\ Shown' = Shown
  BY DEF settings, Shown
<1>3. (\A j \in 1 .. Len(todo) : Mild(todo[j])) => (\A j \in 1 .. Len(todo) : Mild(todo[j]))'
  BY <1>1 DEF Mild, Peeks, Halts, Sets
<1>4. Crashing /\ todo[1].do # "crash" => Crashing'
  <2> SUFFICES ASSUME NEW i \in 1 .. Len(todo), todo[i].do = "crash", todo[1].do # "crash"
               PROVE  Crashing'
    BY DEF Crashing
  <2>1. i > 1
    OBVIOUS
  <2> QED
    BY <1>1, <2>1 DEF Crashing
<1>5. ASSUME NEW j \in 1 .. Len(todo), Coming(todo[j]), j > 1
      PROVE  (\E k \in 1 .. Len(todo) : Coming(todo[k]))'
  BY <1>1, <1>2, <1>5 DEF Coming, Reads
<1>6. ASSUME NEW i \in 1 .. Len(todo), Pending(i), i > 1
      PROVE  (\E k \in 1 .. Len(todo) : Pending(k))'
  <2> DEFINE k == i - 1
  <2>1. /\ Sets(todo[i]) /\ todo[i].data.val = edit.val
        /\ \A j \in i + 1 .. Len(todo) : Peeks(todo[j]) \/ todo[j].do = "show"
        /\ \E j \in i + 1 .. Len(todo) : Coming(todo[j])
    BY <1>6 DEF Pending
  <2>2. k \in 1 .. Len(todo') /\ todo'[k] = todo[i] /\ i = k + 1 /\ k \in Nat
    BY <1>1, <1>6
  <2>3. \A j \in k + 1 .. Len(todo') : Peeks(todo'[j]) \/ todo'[j].do = "show"
    <3> SUFFICES ASSUME NEW j \in k + 1 .. Len(todo')
                 PROVE  Peeks(todo'[j]) \/ todo'[j].do = "show"
      OBVIOUS
    <3>1. j \in 1 .. Len(todo') /\ j + 1 >= i + 1
      BY <2>2
    <3>2. j + 1 \in 1 .. Len(todo) /\ todo'[j] = todo[j + 1]
      BY <1>1, <3>1
    <3>3. j + 1 \in i + 1 .. Len(todo)
      BY <1>1, <3>1, <3>2
    <3> QED
      BY <2>1, <3>2, <3>3
  <2>4. \E j \in k + 1 .. Len(todo') : Coming(todo'[j])
    <3>1. PICK j \in i + 1 .. Len(todo) : Coming(todo[j])
      BY <2>1
    <3>2. j \in 1 .. Len(todo) /\ j > 1
      BY <1>1, <1>6
    <3>3. j - 1 \in 1 .. Len(todo') /\ todo'[j - 1] = todo[j]
      BY <1>1, <3>2
    <3>4. j - 1 \in k + 1 .. Len(todo')
      BY <3>1, <3>2, <3>3
    <3> QED
      BY <3>1, <3>3, <3>4
  <2>5. Pending(k)'
    <3>1. Sets(todo'[k]) /\ todo'[k].data.val = edit'.val
      BY <1>2, <2>1, <2>2
    <3>2. \E j \in k + 1 .. Len(todo') : todo'[j].do = "show" \/ Reads(todo'[j], Shown')
      BY <1>2, <2>4 DEF Coming
    <3> HIDE DEF k
    <3> QED
      BY <2>3, <3>1, <3>2 DEF Pending, Coming
  <2> QED
    BY <2>2, <2>5
<1> QED
  BY <1>3, <1>4, <1>5, <1>6

LEMMA EditAccess ==
  ASSUME BusInv, EnoughPatience, WriteInv, EditInv, Ask \/ Await
  PROVE  EditInv'
<1>1. /\ Working /\ UNCHANGED << todo, m_state, bomb, ended, settings >>
  BY AskIs, AwaitIs
<1>2. Types /\ edit' = edit /\ Shown' = Shown /\ Wanted' = Wanted
  BY <1>1 DEF BusInv, settings, Shown, Wanted, Elsewhere, Inside
<1>3. /\ 1 \in 1 .. Len(todo) /\ Len(todo) \in Nat /\ todo[1].do \in {"write", "read", "poll"}
  BY OnBusHead
<1> SUFFICES ASSUME Running, edit # NoEdit
             PROVE  /\ (Halting /\ OtherKept /\ \A j \in 1 .. Len(todo) : Mild(todo[j]))'
                    /\ ~bomb /\ ~IsCC(EditedAt(edit.cursor)) =>
                         (Crashing \/ (\E i \in 1 .. Len(todo) : Pending(i)) \/ Arrived)'
  BY <1>1, <1>2 DEF EditInv, Running, NoEdit
<1>4. /\ Halting /\ OtherKept /\ \A j \in 1 .. Len(todo) : Mild(todo[j])
      /\ ~bomb /\ ~IsCC(EditedAt(edit.cursor)) =>
           Crashing \/ (\E i \in 1 .. Len(todo) : Pending(i)) \/ Arrived
  BY DEF EditInv
<1>5. /\ Halting'
      /\ \A b \in Counters : (Sets(todo[1]) => b # port.cmd_addr) => cpu'.regs[b] = cpu.regs[b]
  BY <1>3, <1>4, MildBeat
<1>6. Sets(todo[1]) => port.cmd_addr = EditedAt(edit.cursor)
  BY <1>3 DEF WriteInv, Aimed
<1>7. OtherKept'
  BY <1>2, <1>4, <1>5, <1>6, OtherStays
<1>8. (\A j \in 1 .. Len(todo) : Mild(todo[j]))'
  BY <1>1, <1>4 DEF Mild, Peeks, Halts, Sets
<1>9. CASE Crashing
  BY <1>1, <1>5, <1>7, <1>8, <1>9 DEF Crashing
<1>10. ASSUME NEW i \in 1 .. Len(todo), Pending(i) PROVE Pending(i)'
  BY <1>1, <1>2, <1>10 DEF Pending, Coming, Reads, Sets, Peeks, Halts
<1>11. CASE Arrived
  <2>1. /\ Steady /\ Halting /\ Peeks(todo[1])
        /\ cpu.regs[EditedAt(edit.cursor)] = edit.val
        /\ \A j \in 1 .. Len(todo) : Peeks(todo[j]) \/ todo[j].do = "show"
        /\ m_state[Shown] = Wanted \/ \E j \in 1 .. Len(todo) : Coming(todo[j])
    BY <1>3, <1>11 DEF Arrived, Steady
  <2>2. Steady' /\ cpu'.regs = cpu.regs
    BY <2>1, AccessBeat
  <2>3. Arrived'
    BY <1>1, <1>2, <2>1, <2>2 DEF Arrived, Coming, Reads, Peeks, Halts
  <2> QED
    BY <1>5, <1>7, <1>8, <2>3
<1> QED
  BY <1>1, <1>4, <1>5, <1>7, <1>8, <1>9, <1>10, <1>11

LEMMA EditRelease ==
  ASSUME BusInv, EnoughPatience, WriteInv, OneView, EditInv, Release
  PROVE  EditInv'
<1>1. /\ Working /\ UNCHANGED settings
      /\ ~Answered => bomb'
      /\ bomb => bomb'
      /\ \/ todo' = todo /\ Doing = "poll"
         \/ todo' = Tail(todo)
      /\ m_state' = IF Doing = "read" /\ todo[1].into # Nowhere
                    THEN [m_state EXCEPT ![todo[1].into] = port.out.val] ELSE m_state
  BY Delivered
<1>2. /\ Types /\ Bus /\ Level
      /\ Halting /\ Answered => /\ Steady => Steady' /\ cpu'.regs = cpu.regs
  BY ReleaseBeat
<1>3. /\ 1 \in 1 .. Len(todo) /\ Len(todo) \in Nat /\ todo[1].do \in {"write", "read", "poll"}
      /\ Doing = todo[1].do
  BY OnBusHead
<1>4. edit' = edit /\ Shown' = Shown /\ Wanted' = Wanted
  BY <1>1 DEF settings, Shown, Wanted, Elsewhere, Inside
<1> SUFFICES ASSUME Running, edit # NoEdit
             PROVE  /\ (Halting /\ OtherKept /\ \A j \in 1 .. Len(todo) : Mild(todo[j]))'
                    /\ ~bomb' /\ ~IsCC(EditedAt(edit.cursor)) =>
                         (Crashing \/ (\E i \in 1 .. Len(todo) : Pending(i)) \/ Arrived)'
  BY <1>1, <1>4 DEF EditInv, Running, NoEdit, Working
<1> DEFINE e == EditedAt(edit.cursor)
<1>5. /\ Halting /\ OtherKept /\ \A j \in 1 .. Len(todo) : Mild(todo[j])
      /\ ~bomb /\ ~IsCC(e) =>
           Crashing \/ (\E i \in 1 .. Len(todo) : Pending(i)) \/ Arrived
  BY DEF EditInv
<1>6. Sets(todo[1]) => port.cmd_addr = e
  BY <1>3 DEF WriteInv, Aimed
<1>7. /\ Halting' /\ OtherKept'
  <2>1. /\ Halting'
        /\ \A b \in Counters : (Sets(todo[1]) => b # port.cmd_addr) => cpu'.regs[b] = cpu.regs[b]
    BY <1>3, <1>5, MildBeat
  <2> QED
    BY <1>2, <1>4, <1>5, <1>6, <2>1, OtherStays
<1>8. (\A j \in 1 .. Len(todo) : Mild(todo[j]))'
  <2>1. CASE todo' = todo
    BY <1>5, <2>1 DEF Mild, Peeks, Halts, Sets
  <2> QED
    BY <1>1, <1>2, <1>5, <2>1, EditTail
<1> SUFFICES ASSUME ~bomb', ~IsCC(e)
             PROVE  (Crashing \/ (\E i \in 1 .. Len(todo) : Pending(i)) \/ Arrived)'
  BY <1>7, <1>8
<1>9. Answered
  BY <1>1
<1>10. Steady => Steady' /\ cpu'.regs = cpu.regs
  BY <1>2, <1>9 DEF Steady
<1>11. CASE Crashing
  <2>1. CASE todo' = todo
    BY <1>11, <2>1 DEF Crashing
  <2> QED
    BY <1>1, <1>2, <1>3, <1>11, <2>1, EditTail
<1>12. ASSUME NEW i \in 1 .. Len(todo), Pending(i), i > 1
       PROVE  (\E k \in 1 .. Len(todo) : Pending(k))'
  <2>1. CASE todo' = todo
    <3>1. Pending(i)'
      BY <1>4, <1>12, <2>1 DEF Pending, Coming, Reads, Sets, Peeks, Halts
    <3> QED
      BY <2>1, <3>1
  <2> QED
    BY <1>1, <1>2, <1>12, <2>1, EditTail
<1>13. CASE Pending(1)
  <2>1. /\ Sets(todo[1]) /\ todo[1].data.val = edit.val /\ port.cmd_addr = e
        /\ \A j \in 1 + 1 .. Len(todo) : Peeks(todo[j]) \/ todo[j].do = "show"
        /\ \E j \in 1 + 1 .. Len(todo) : Coming(todo[j])
    BY <1>6, <1>13 DEF Pending
  <2>2. /\ Halting /\ cpu.pipe = "none" /\ ~cpu.live /\ cpu.regs[e] = edit.val
    BY <1>1, <1>2, <1>9, <2>1 DEF Level, Setting
  <2>3. Steady
    BY <1>2, <1>9, <2>2, PhasesAre DEF Steady, Drained, Idle, Bus
  <2>4. todo' = Tail(todo)
    BY <1>1, <1>3, <2>1 DEF Sets
  <2>5. \A j \in 1 .. Len(todo') : Peeks(todo'[j]) \/ todo'[j].do = "show"
    BY <1>1, <1>2, <1>3, <2>1, <2>4, TailLeft
  <2>6. (\E j \in 1 .. Len(todo) : Coming(todo[j]))'
    <3>1. PICK j \in 1 + 1 .. Len(todo) : Coming(todo[j])
      BY <2>1
    <3>2. j \in 1 .. Len(todo) /\ j > 1
      BY <1>3
    <3> QED
      BY <1>1, <1>2, <2>4, <3>1, <3>2, EditTail
  <2>7. cpu'.regs[e] = edit.val /\ Steady'
    BY <1>10, <2>2, <2>3
  <2> HIDE DEF e
  <2>8. Arrived'
    BY <1>4, <2>5, <2>6, <2>7 DEF Arrived, e
  <2> QED
    BY <2>8
<1>14. CASE Arrived
  <2>1. /\ Steady /\ cpu.regs[e] = edit.val
        /\ \A j \in 1 .. Len(todo) : Peeks(todo[j]) \/ todo[j].do = "show"
        /\ m_state[Shown] = Wanted \/ \E j \in 1 .. Len(todo) : Coming(todo[j])
    BY <1>14 DEF Arrived
  <2>2. m_state \in [Addrs -> Values \cup {Unread}] /\ Shown \in Addrs
        /\ todo[1].into \in Addrs \cup {Nowhere}
    BY <1>1, <1>2, <1>5, <2>1, WantedIs, HeadIs DEF Types
  <2>3. \A j \in 1 .. Len(todo') : Peeks(todo'[j]) \/ todo'[j].do = "show"
    <3>1. CASE todo' = todo
      BY <2>1, <3>1
    <3>2. CASE todo' = Tail(todo)
      BY <1>1, <1>2, <2>1, <3>2, TailLeft
    <3> QED
      BY <1>1, <3>1, <3>2
  <2>4. Doing = "read" /\ todo[1].into # Nowhere => port.out.val = cpu.regs[todo[1].into]
    BY <1>1, <1>2, <1>9 DEF Level, Reading
  <2>5. Doing = "read" => cpu.regs[Shown] = Wanted
    <3>1. Doing = "read" => ~Inside(manual, halted)
      BY <1>3 DEF OneView
    <3> QED
      BY <1>2, <1>5, <2>1, <3>1, WantedIs
  <2>6. m_state[Shown] = Wanted => m_state'[Shown] = Wanted
    BY <1>1, <2>2, <2>4, <2>5
  <2>7. Coming(todo[1]) => m_state'[Shown] = Wanted
    <3> SUFFICES ASSUME Coming(todo[1]) PROVE m_state'[Shown] = Wanted
      OBVIOUS
    <3>1. Doing = "read" /\ todo[1].into = Shown
      BY <1>3 DEF Coming, Reads
    <3>2. Shown # Nowhere
      BY <2>2, AddressIs
    <3> QED
      BY <1>1, <2>2, <2>4, <2>5, <3>1, <3>2
  <2>8. m_state'[Shown] = Wanted \/ (\E k \in 1 .. Len(todo) : Coming(todo[k]))'
    <3>1. CASE m_state[Shown] = Wanted
      BY <2>6, <3>1
    <3>2. ASSUME NEW j \in 1 .. Len(todo), Coming(todo[j])
          PROVE  m_state'[Shown] = Wanted \/ (\E k \in 1 .. Len(todo) : Coming(todo[k]))'
      <4>1. CASE j = 1
        BY <2>7, <3>2, <4>1
      <4>2. CASE j > 1 /\ todo' = Tail(todo)
        BY <1>1, <1>2, <3>2, <4>2, EditTail
      <4>3. CASE todo' = todo
        BY <1>4, <3>2, <4>3 DEF Coming, Reads
      <4> QED
        BY <1>1, <1>3, <4>1, <4>2, <4>3
    <3> QED
      BY <2>1, <3>1, <3>2
  <2>9. cpu'.regs[e] = edit.val /\ Steady'
    BY <1>10, <2>1
  <2> HIDE DEF e
  <2>10. Arrived'
    BY <1>4, <2>3, <2>8, <2>9 DEF Arrived, e
  <2> QED
    BY <2>10
<1>15. \A i \in 1 .. Len(todo) : i = 1 \/ i > 1
  BY <1>3
<1> QED
  BY <1>1, <1>5, <1>11, <1>12, <1>13, <1>14, <1>15

LEMMA EditRest ==
  ASSUME BusInv, OneView, EditInv, TickQuiet \/ ResetTick \/ ShowState \/ PokeGo
  PROVE  EditInv'
<1>1. /\ Working /\ Doing \in {"tick", "reset", "show", "go"} /\ todo' = Tail(todo)
      /\ UNCHANGED settings /\ bomb' = bomb /\ ended' = ended
      /\ Doing = "show" => m_state' = Cheating /\ port' = port /\ cpu' = cpu
  BY DEF TickQuiet, ResetTick, TickOnce, ShowState, PokeGo
<1>2. Types
  BY DEF BusInv
<1>3. /\ 1 \in 1 .. Len(todo) /\ Len(todo) \in Nat /\ Doing = todo[1].do
  BY <1>1, <1>2, HeadIs
<1>4. edit' = edit /\ Shown' = Shown /\ Wanted' = Wanted
  BY <1>1 DEF settings, Shown, Wanted, Elsewhere, Inside
<1> SUFFICES ASSUME Running, edit # NoEdit
             PROVE  /\ (Halting /\ OtherKept /\ \A j \in 1 .. Len(todo) : Mild(todo[j]))'
                    /\ ~bomb /\ ~IsCC(EditedAt(edit.cursor)) =>
                         (Crashing \/ (\E i \in 1 .. Len(todo) : Pending(i)) \/ Arrived)'
  BY <1>1, <1>4 DEF EditInv, Running, NoEdit
<1> DEFINE e == EditedAt(edit.cursor)
<1>5. /\ Halting /\ OtherKept /\ \A j \in 1 .. Len(todo) : Mild(todo[j])
      /\ ~bomb /\ ~IsCC(e) =>
           Crashing \/ (\E i \in 1 .. Len(todo) : Pending(i)) \/ Arrived
  BY DEF EditInv
<1>6. Doing = "show"
  <2>1. Mild(todo[1])
    BY <1>3, <1>5
  <2> QED
    BY <1>1, <1>3, <2>1 DEF Mild, Peeks, Halts, Sets
<1>7. Halting' /\ OtherKept'
  BY <1>1, <1>4, <1>5, <1>6 DEF Halting, OtherKept, Held
<1>8. (\A j \in 1 .. Len(todo) : Mild(todo[j]))'
  BY <1>1, <1>2, <1>5, EditTail
<1> SUFFICES ASSUME ~bomb, ~IsCC(e)
             PROVE  (Crashing \/ (\E i \in 1 .. Len(todo) : Pending(i)) \/ Arrived)'
  BY <1>7, <1>8
<1>9. CASE Crashing
  BY <1>1, <1>2, <1>3, <1>6, <1>9, EditTail
<1>10. ASSUME NEW i \in 1 .. Len(todo), Pending(i)
       PROVE  (\E k \in 1 .. Len(todo) : Pending(k))'
  <2>1. i # 1
    BY <1>3, <1>6, <1>10 DEF Pending, Sets
  <2>2. i > 1
    BY <2>1
  <2> QED
    BY <1>1, <1>2, <1>10, <2>2, EditTail
<1>11. CASE Arrived
  <2>1. /\ Steady /\ cpu.regs[e] = edit.val
        /\ \A j \in 1 .. Len(todo) : Peeks(todo[j]) \/ todo[j].do = "show"
    BY <1>11 DEF Arrived
  <2>2. Inside(manual, halted)
    BY <1>3, <1>6 DEF OneView
  <2>3. m_state'[Shown] = Wanted
    BY <1>1, <1>2, <1>5, <1>6, <2>1, <2>2, WantedIs
  <2>4. \A j \in 1 .. Len(todo') : Peeks(todo'[j]) \/ todo'[j].do = "show"
    BY <1>1, <1>2, <2>1, TailLeft
  <2>5. Steady' /\ cpu'.regs[e] = edit.val
    BY <1>1, <1>6, <2>1 DEF Steady, Halting, Drained, Idle
  <2> HIDE DEF e
  <2>6. Arrived'
    BY <1>4, <2>3, <2>4, <2>5 DEF Arrived, e
  <2> QED
    BY <2>6
<1> QED
  BY <1>5, <1>9, <1>10, <1>11

(* The key Enter on a halted processor.                                    *)
LEMMA EditBegins ==
  ASSUME BusInv, NEW c \in Cursors, NEW v \in Values, port.cmd_halt,
         Key(port, cmd_write(EditedAt(c), v), manual, halted),
         edit' = [cursor |-> c, val |-> v,
                  other |-> IF EditedAt(c) >= 32 THEN Held(OtherSet(EditedAt(c))) ELSE 0],
         cpu' = Uncounted, m_show_user_timers' = m_show_user_timers
  PROVE  EditInv'
<1> DEFINE a == EditedAt(c)
           s == cmd_write(a, v)
           w == View(manual, halted)
<1>1. Types /\ CpuTypes /\ a \in Addrs
  BY EditedIs DEF BusInv, Types
<1>2. /\ edit'.cursor = c /\ edit'.val = v /\ EditedAt(edit'.cursor) = a
      /\ edit'.other = IF a >= 32 THEN Held(OtherSet(a)) ELSE 0
  OBVIOUS
<1>3. /\ todo' = s \o w /\ port' = port
      /\ Running /\ todo = << >> /\ mode = "interactive"
  BY DEF Key, Listening
<1>4. Halting'
  <2>1. Halting
    BY <1>3 DEF Halting, BusInv, Pulses, Working
  <2> QED
    BY <1>3, <2>1 DEF Halting
<1>5. OtherKept'
  <2>1. cpu'.regs = cpu.regs
    BY <1>1, ForgetIs
  <2>2. Held(OtherSet(a))' = Held(OtherSet(a))
    BY <2>1 DEF Held
  <2> HIDE DEF a
  <2> QED
    BY <1>2, <2>2 DEF OtherKept
<1>6. /\ Grammar(s) /\ Len(s) = 3
      /\ s[3].do = "crash" \/ (Sets(s[3]) /\ s[3].data.val = v)
      /\ \A i \in 1 .. 3 : Mild(s[i])
  BY <1>1, CmdWriteIs
<1>7. Shown' \in Addrs
  <2>1. m_show_user_timers \in BOOLEAN
    BY <1>1 DEF Types
  <2>2. Shown' = ShownAt(c, m_show_user_timers)
    BY <1>2 DEF Shown
  <2> QED
    BY <2>1, <2>2, EditedIs
<1> DEFINE b == Shown'
<1>8. /\ Grammar(w)
      /\ \A i \in 1 .. Len(w) : Peeks(w[i]) \/ w[i].do = "show"
      /\ \E i \in 1 .. Len(w) : Reads(w[i], b) \/ w[i].do = "show"
  <2>1. manual \in BOOLEAN /\ halted \in BOOLEAN
    BY <1>1 DEF Types
  <2>2. /\ Grammar(w)
        /\ \A i \in 1 .. Len(w) : Peeks(w[i]) \/ w[i].do = "show"
        /\ \A d \in Addrs : \E i \in 1 .. Len(w) : Reads(w[i], d) \/ w[i].do = "show"
    <3>1. /\ Grammar(w)
          /\ \A i \in 1 .. Len(w) : IF Inside(manual, halted) THEN w[i].do = "show" ELSE Peeks(w[i])
      BY <2>1, ViewIs
    <3>2. \A d \in Addrs : \E i \in 1 .. Len(w) : Reads(w[i], d) \/ w[i].do = "show"
      BY <2>1, ViewIs
    <3> HIDE DEF w
    <3> QED
      BY <3>1, <3>2
  <2> HIDE DEF w, b
  <2>3. b \in Addrs
    BY <1>7 DEF b
  <2> QED
    BY <2>2, <2>3
<1> HIDE DEF s, w, a, b
<1>9. /\ Len(w) \in Nat /\ Len(todo') = 3 + Len(w)
      /\ \A i \in 1 .. 3 : todo'[i] = s[i]
      /\ \A i \in 1 .. Len(w) : todo'[3 + i] = w[i]
  <2>1. s \in Seq(Ops) /\ w \in Seq(Ops)
    BY <1>6, <1>8 DEF Grammar
  <2>2. /\ Len(s \o w) = Len(s) + Len(w) /\ Len(w) \in Nat
        /\ \A i \in 1 .. Len(s) : (s \o w)[i] = s[i]
        /\ \A i \in 1 .. Len(w) : (s \o w)[Len(s) + i] = w[i]
    BY <2>1, Together
  <2> QED
    BY <1>3, <1>6, <2>2
<1>10. \A j \in 4 .. Len(todo') : Peeks(todo'[j]) \/ todo'[j].do = "show"
  <2> SUFFICES ASSUME NEW j \in 4 .. Len(todo')
               PROVE  Peeks(todo'[j]) \/ todo'[j].do = "show"
    OBVIOUS
  <2>1. j - 3 \in 1 .. Len(w) /\ 3 + (j - 3) = j
    BY <1>9
  <2> QED
    BY <1>8, <1>9, <2>1
<1>11. (\A j \in 1 .. Len(todo) : Mild(todo[j]))'
  <2> SUFFICES ASSUME NEW j \in 1 .. Len(todo') PROVE Mild(todo'[j])
    BY DEF Mild, Peeks, Halts, Sets
  <2>1. CASE j <= 3
    BY <1>6, <1>9, <2>1
  <2>2. CASE j > 3
    BY <1>9, <1>10, <2>2 DEF Mild
  <2> QED
    BY <1>9, <2>1, <2>2
<1>12. (Crashing \/ \E i \in 1 .. Len(todo) : Pending(i))'
  <2>1. 3 \in 1 .. Len(todo') /\ todo'[3] = s[3]
    BY <1>9
  <2>2. CASE s[3].do = "crash"
    BY <2>1, <2>2 DEF Crashing
  <2>3. CASE Sets(s[3]) /\ s[3].data.val = v
    <3>1. \E j \in 3 + 1 .. Len(todo') : todo'[j].do = "show" \/ Reads(todo'[j], b)
      <4>1. PICK i \in 1 .. Len(w) : Reads(w[i], b) \/ w[i].do = "show"
        BY <1>8
      <4>2. 3 + i \in 3 + 1 .. Len(todo') /\ todo'[3 + i] = w[i]
        BY <1>9
      <4> QED
        BY <4>1, <4>2
    <3>2. (\E j \in 3 + 1 .. Len(todo) : Coming(todo[j]))'
      BY <3>1 DEF Coming, b
    <3>3. Sets(todo'[3]) /\ todo'[3].data.val = edit'.val
      BY <1>2, <2>1, <2>3
    <3>4. Pending(3)'
      BY <1>10, <3>2, <3>3 DEF Pending
    <3> QED
      BY <2>1, <3>4
  <2> QED
    BY <1>6, <2>2, <2>3
<1> QED
  BY <1>4, <1>5, <1>11, <1>12 DEF EditInv

LEMMA EditKey ==
  ASSUME BusInv, Keys
  PROVE  EditInv'
<1>1. CASE ~KeyEnter
  BY <1>1 DEF Keys, KeyHalt, KeyGo, KeyReset, KeyStep, KeyManual, KeyTimers, KeyOther, Forget,
              EditInv, NoEdit
<1>2. CASE KeyEnter
  <2>1. PICK c \in Cursors, v \in Values :
          IF port.cmd_halt
          THEN /\ Key(port, cmd_write(EditedAt(c), v), manual, halted)
               /\ edit' = [cursor |-> c, val |-> v,
                           other |-> IF EditedAt(c) >= 32
                                     THEN Held(OtherSet(EditedAt(c))) ELSE 0]
               /\ cpu' = Uncounted
          ELSE edit' = NoEdit
    BY <1>2, KeysAssumption DEF KeyEnter
  <2>2. m_show_user_timers' = m_show_user_timers
    BY <1>2 DEF KeyEnter
  <2>3. CASE port.cmd_halt
    BY <2>1, <2>2, <2>3, EditBegins
  <2>4. CASE ~port.cmd_halt
    BY <2>1, <2>4 DEF EditInv, NoEdit
  <2> QED
    BY <2>3, <2>4
<1> QED
  BY <1>1, <1>2

LEMMA EditStep ==
  ASSUME BusInv, EnoughPatience, WriteInv, OneView, EditInv, [Next]_vars
  PROVE  EditInv'
<1>1. CASE Ask \/ Await \/ Release \/ TickQuiet \/ ResetTick \/ ShowState \/ PokeGo
  BY <1>1, EditAccess, EditRelease, EditRest
<1>2. CASE Crash \/ Report
  <2>1. ended' \in {"crash", "bombed", "reported"}
    BY <1>2 DEF Crash, Report
  <2> QED
    BY <2>1 DEF EditInv, Running
<1>3. CASE Keys
  BY <1>3, EditKey
<1>4. CASE Main /\ ~Report
  <2>1. mode # "interactive" /\ edit' = edit
    BY <1>4, MainIs
  <2>2. edit' = NoEdit
    BY <2>1 DEF BusInv, Types
  <2> QED
    BY <2>2 DEF EditInv, NoEdit
<1>5. CASE UNCHANGED vars
  BY <1>5 DEF EditInv, OtherKept, Held, Mild, Running, NoEdit, Crashing, Pending, Arrived,
              Shown, Wanted, Elsewhere, Inside, Coming, Reads, Sets, Peeks, Halts, Steady,
              Halting, Drained, Idle, vars, program
<1> QED
  BY <1>1, <1>2, <1>3, <1>4, <1>5 DEF Next, Work

(* An edit of a halted processor takes effect, whatever was being          *)
(* completed when the key was pressed, and the view drawn after it shows   *)
(* it, or of a counter what the other set held, in the field the labels    *)
(* say (get_value and cmd_write, zippy_tb.cpp:1482; read_state, :863).     *)
THEOREM EditTakesEffect ==
  ASSUME EnoughPatience
  PROVE  Spec => []EditSeen
<1> DEFINE I == BusInv /\ WriteInv /\ OneView /\ EditInv
<1>1. Init => I
  <2> SUFFICES ASSUME Init PROVE I
    OBVIOUS
  <2>1. todo = << >> /\ edit = NoEdit /\ Len(<< >>) = 0
    BY EmptyGrammar DEF Init
  <2> QED
    BY <2>1, BusInit, WriteInit DEF OneView, EditInv
<1>2. I /\ [Next]_vars => I'
  BY BusStep, WriteStep, OneViewStep, EditStep
<1>3. I => EditSeen
  <2> SUFFICES ASSUME I, edit # NoEdit, todo = << >>, Running, ~bomb,
                      ~IsCC(EditedAt(edit.cursor))
               PROVE  /\ cpu.regs[EditedAt(edit.cursor)] = edit.val
                      /\ m_state[Shown] = Wanted
    BY DEF EditSeen, Shown, Wanted
  <2>1. Len(todo) = 0
    BY EmptyGrammar
  <2>2. \A i : i \notin 1 .. Len(todo)
    BY <2>1
  <2>3. Arrived
    BY <2>2 DEF EditInv, Crashing
  <2> QED
    BY <2>2, <2>3 DEF Arrived
<1> QED
  BY <1>1, <1>2, <1>3, PTL DEF Spec

-----------------------------------------------------------------------------
(* The step.                                                               *)
LEMMA StepAccess ==
  ASSUME BusInv, EnoughPatience, StepInv, stepping, Running, Ask \/ Await
  PROVE  cpu'.issued <= 1 /\ (AboutToStep \/ HasStepped)'
<1>1. /\ Working /\ UNCHANGED << todo, ended, stepping >> /\ Running'
      /\ \E in : Edge(port, cpu, in, FALSE) /\ Carriable(in)
  BY AskIs, AwaitIs, OnTheBus DEF settings, BusInv, Running
<1>2. Types /\ Bus /\ Level /\ PortTypes /\ CpuTypes
  BY DEF BusInv, Types
<1>3. /\ 1 \in 1 .. Len(todo) /\ Len(todo) \in Nat /\ Doing = todo[1].do
  BY OnBusHead DEF Doing
<1>4. CASE HasStepped
  <2>1. /\ Halting /\ cpu.issued = 1 /\ Peeks(todo[1])
        /\ \A i \in 1 .. Len(todo) : Peeks(todo[i])
    BY <1>3, <1>4 DEF HasStepped
  <2>2. Halting' /\ cpu'.issued = 1
    BY <2>1, AccessBeat
  <2> QED
    BY <1>1, <2>1, <2>2 DEF HasStepped
<1>5. CASE AboutToStep
  <2>1. /\ todo[1].do = "write" /\ todo[1].reg = 0 /\ todo[1].data = CMD_STEP
        /\ \A i \in 2 .. Len(todo) : Peeks(todo[i])
        /\ port.cmd_halt /\ ~port.cmd_reset /\ (port.cmd_step <=> Served)
        /\ ~Answered => cpu.issued = 0 /\ cpu.pipe = "none" /\ cpu.next = "ready"
    BY <1>5 DEF AboutToStep
  <2>2. ~Sets(todo[1]) /\ cpu.dbgv.reg = Nowhere
    BY <1>2, <2>1 DEF Sets, Bus
  <2>3. /\ CMD_STEP.halt = TRUE /\ CMD_STEP.step = TRUE /\ CMD_STEP.reset = FALSE
    BY DEF CMD_STEP, Command
  <2>4. PICK in : Edge(port, cpu, in, FALSE) /\ Carriable(in)
    BY <1>1
  <2>5. /\ port'.cmd_reset = (CmdWrite(port) /\ port.data.reset)
        /\ port'.cmd_halt = \/ FALSE
                            \/ IF CmdWrite(port) THEN port.data.halt \/ port.data.step
                               ELSE port.cmd_halt \/ port.cmd_step \/ Break(cpu)
        /\ port'.cmd_step = (CmdWrite(port) /\ port.data.step)
    BY <1>2, <2>4, Beat
  <2>6. todo' = todo /\ Working'
    BY <1>1 DEF Working
  <2>7. CASE Ask
    <3>1. Asking /\ phase' = "stall"
      BY <2>7, AskIs
    <3>2. ~Taken /\ ~Served /\ ~Answered /\ ~CmdWrite(port) /\ ~Served' /\ ~Answered'
      BY <1>2, <3>1, PhasesAre DEF Bus, CmdWrite, Served, Answered
    <3>3. Halting
      BY <2>1, <3>2 DEF Halting
    <3>4. /\ cpu'.issued = cpu.issued /\ cpu'.pipe = "none" /\ cpu'.next = cpu.next
      BY <1>2, <2>1, <2>2, <2>4, <3>2, <3>3, CalmBeat DEF Idle
    <3>5. port'.cmd_halt /\ ~port'.cmd_reset /\ port'.cmd_step = FALSE
      BY <2>1, <2>5, <3>2
    <3>6. AboutToStep'
      BY <2>1, <2>6, <3>2, <3>4, <3>5 DEF AboutToStep
    <3> QED
      BY <2>1, <3>2, <3>4, <3>6
  <2>8. CASE Await /\ Taken
    <3>1. phase' = "ack"
      BY <1>2, <2>2, <2>8, AwaitIs, PhasesAre DEF Waits, Counting
    <3>2. port'.ack = FALSE
      <4>1. port.dbg_ack = FALSE
        BY <1>2, <2>8, PortFields DEF Bus
      <4> QED
        BY <1>2, <2>4, <4>1, Beat
    <3>3. Served' /\ ~Answered' /\ ~Served /\ ~Answered
      BY <1>2, <2>8, <3>1, <3>2, PhasesAre DEF Served, Answered
    <3>4. CmdWrite(port) /\ port.data = CMD_STEP
      BY <1>2, <1>3, <2>1, <2>8, PhasesAre DEF Bus, CmdWrite
    <3>5. Halting
      BY <2>1, <3>3 DEF Halting
    <3>6. cpu'.issued = cpu.issued /\ cpu'.pipe = "none" /\ cpu'.next = cpu.next
      BY <1>2, <2>1, <2>2, <2>4, <3>3, <3>5, HaltedStep DEF Idle
    <3>7. port.data.halt = TRUE /\ port.data.step = TRUE /\ port.data.reset = FALSE
      BY <2>3, <3>4
    <3>8. port'.cmd_halt /\ ~port'.cmd_reset /\ port'.cmd_step = TRUE
      BY <2>5, <3>4, <3>7
    <3>9. AboutToStep'
      BY <2>1, <2>6, <3>3, <3>6, <3>8 DEF AboutToStep
    <3> QED
      BY <2>1, <3>3, <3>6, <3>9
  <2>9. CASE Await /\ Served
    <3>1. phase' = "ack" /\ Edge(port, cpu, Hold, FALSE)
      BY <1>2, <2>9, AwaitIs, PhasesAre DEF Waits, Serves
    <3>2. port'.ack = TRUE
      <4>1. Carriable(Hold) /\ Hold.cyc = TRUE /\ port.dbg_ack = TRUE /\ port.cyc = TRUE
        BY <1>1, <1>2, <2>9, OnTheBus, PhasesAre, PortFields DEF Bus
      <4> QED
        BY <1>2, <3>1, <4>1, Beat
    <3>3. ~Served' /\ Answered' /\ ~Answered /\ ~CmdWrite(port)
      BY <1>2, <2>9, <3>1, <3>2, PhasesAre DEF Bus, CmdWrite, Served, Answered
    <3>4. port.cmd_step
      BY <2>1, <2>9
    <3>5. cpu'.issued = 1
      BY <1>2, <2>1, <2>4, <3>3, <3>4, SteppingStep
    <3>6. port'.cmd_halt /\ ~port'.cmd_reset /\ port'.cmd_step = FALSE
      BY <2>1, <2>5, <3>3
    <3>7. AboutToStep'
      BY <2>1, <2>6, <3>3, <3>5, <3>6 DEF AboutToStep
    <3> QED
      BY <3>5, <3>7
  <2>10. Ask \/ (Await /\ Taken) \/ (Await /\ Served)
    BY AwaitIs DEF Waits, Serves
  <2> QED
    BY <2>7, <2>8, <2>9, <2>10
<1> QED
  BY <1>4, <1>5 DEF StepInv

LEMMA StepRelease ==
  ASSUME BusInv, EnoughPatience, StepInv, stepping, Running, Release
  PROVE  cpu'.issued <= 1 /\ (AboutToStep \/ HasStepped)'
<1>1. /\ Working /\ (~Counting => Answered)
      /\ \/ todo' = todo /\ Doing = "poll"
         \/ todo' = Tail(todo)
  BY Delivered
<1>2. /\ Types /\ (Halting => Halting')
      /\ Halting /\ Answered => cpu'.issued = cpu.issued
  BY ReleaseBeat
<1>3. /\ 1 \in 1 .. Len(todo) /\ Len(todo) \in Nat /\ Doing = todo[1].do
  BY OnBusHead DEF Doing
<1>4. Answered
  <2>1. ~Sets(todo[1])
    BY <1>3 DEF StepInv, AboutToStep, HasStepped, Peeks, Halts, Sets
  <2> QED
    BY <1>1, <2>1 DEF Counting
<1>5. Halting /\ cpu.issued = 1
  <2>1. CASE HasStepped
    BY <2>1 DEF HasStepped
  <2>2. CASE AboutToStep
    <3>1. ~Served
      BY <1>2, <1>4, PhasesAre DEF BusInv
    <3> QED
      BY <1>4, <2>2, <3>1 DEF AboutToStep, Halting
  <2> QED
    BY <2>1, <2>2 DEF StepInv
<1>6. \A i \in 2 .. Len(todo) : Peeks(todo[i])
  BY DEF StepInv, AboutToStep, HasStepped
<1>7. todo' = todo => \A i \in 1 .. Len(todo) : Peeks(todo[i])
  <2>1. Doing = "poll" => Peeks(todo[1])
    BY <1>3 DEF Peeks
  <2>2. todo' = Tail(todo) => todo' # todo
    <3>1. todo' = Tail(todo) => Len(todo') = Len(todo) - 1
      BY <1>1, <1>2, TailLeft
    <3>2. Len(todo) - 1 # Len(todo)
      BY <1>3
    <3> QED
      BY <3>1, <3>2
  <2>3. \A i \in 1 .. Len(todo) : i = 1 \/ i \in 2 .. Len(todo)
    BY <1>3
  <2> QED
    BY <1>1, <1>6, <2>1, <2>2, <2>3
<1>8. todo' = Tail(todo) => \A i \in 1 .. Len(todo') : Peeks(todo'[i])
  <2>1. todo' = Tail(todo) =>
          \A i \in 1 .. Len(todo') : i + 1 \in 1 .. Len(todo) /\ todo'[i] = todo[i + 1]
    BY <1>1, <1>2, TailLeft
  <2>2. \A i \in 1 .. Len(todo') : i + 1 \in 1 .. Len(todo) => i + 1 \in 2 .. Len(todo)
    BY <1>3
  <2> QED
    BY <1>6, <2>1, <2>2
<1>9. HasStepped'
  BY <1>1, <1>2, <1>5, <1>7, <1>8, <1>4 DEF HasStepped
<1> QED
  BY <1>2, <1>5, <1>9, <1>4

(* Nothing else is done while a step is on its way.                        *)
LEMMA StepOnly ==
  ASSUME BusInv, StepInv, stepping, Working, Doing \in {"tick", "reset", "show", "go", "crash"}
  PROVE  FALSE
<1>1. 1 \in 1 .. Len(todo) /\ Doing = todo[1].do
  BY HeadIs DEF BusInv
<1>2. Running
  BY DEF Working
<1>3. CASE AboutToStep
  BY <1>1, <1>3 DEF AboutToStep
<1>4. CASE HasStepped
  <2>1. Peeks(todo[1])
    BY <1>1, <1>4 DEF HasStepped
  <2> QED
    BY <1>1, <2>1 DEF Peeks, Halts
<1> QED
  BY <1>2, <1>3, <1>4 DEF StepInv

LEMMA StepKey ==
  ASSUME BusInv, Keys
  PROVE  StepInv'
<1>1. CASE ~KeyStep
  BY <1>1 DEF Keys, KeyHalt, KeyGo, KeyReset, KeyEnter, KeyManual, KeyTimers, KeyOther, Forget,
              StepInv
<1>2. CASE KeyStep
  <2> DEFINE op == WbWrite(0, CMD_STEP)
             w == View(FALSE, TRUE)
  <2>1. /\ port' = port /\ todo' = << op >> \o w /\ stepping' = Ready
        /\ cpu' = (IF Ready THEN [cpu EXCEPT !.issued = 0] ELSE Uncounted)
        /\ phase' = phase /\ ended' = ended
        /\ Running /\ todo = << >> /\ mode = "interactive"
    BY <1>2 DEF KeyStep, Key, Listening
  <2>2. op \in Ops /\ op.do = "write" /\ op.reg = 0 /\ op.data = CMD_STEP
    BY PlainKinds
  <2>3. Grammar(w) /\ \A i \in 1 .. Len(w) : Peeks(w[i])
    <3>1. /\ Grammar(w)
          /\ \A i \in 1 .. Len(w) : IF Inside(FALSE, TRUE) THEN w[i].do = "show" ELSE Peeks(w[i])
      BY ViewIs
    <3> QED
      BY <3>1 DEF Inside
  <2> HIDE DEF op, w
  <2> SUFFICES ASSUME Ready PROVE cpu'.issued <= 1 /\ AboutToStep'
    BY <2>1 DEF StepInv
  <2>4. port.cmd_halt /\ cpu.pipe = "none" /\ cpu.next = "ready"
    BY DEF Ready
  <2>5. ~port.cmd_step /\ ~port.cmd_reset
    BY <2>1, <2>4 DEF BusInv, Pulses, Working
  <2>6. /\ cpu'.issued = 0 /\ cpu'.pipe = "none" /\ cpu'.next = "ready"
    <3>1. cpu' = [cpu EXCEPT !.issued = 0]
      BY <2>1
    <3> QED
      BY <2>4, <3>1 DEF BusInv, Types, CpuTypes
  <2>7. Asking /\ phase' = "ask"
    BY <2>1, AtRest DEF BusInv, Working, Asking
  <2>8. ~Served' /\ ~Answered'
    BY <2>7 DEF Served, Answered
  <2>9. /\ Len(w) \in Nat /\ Len(todo') = 1 + Len(w) /\ todo'[1] = op
        /\ \A i \in 1 .. Len(w) : todo'[1 + i] = w[i]
        /\ todo' \in Seq(Ops)
    <3>1. << op >> \in Seq(Ops) /\ w \in Seq(Ops) /\ Len(<< op >>) = 1 /\ << op >>[1] = op
      BY <2>2, <2>3 DEF Grammar
    <3> DEFINE s == << op >>
    <3>2. s \in Seq(Ops) /\ w \in Seq(Ops) /\ Len(s) = 1 /\ s[1] = op
      BY <3>1
    <3>3. todo' = s \o w
      BY <2>1
    <3> HIDE DEF s
    <3>4. /\ Len(s \o w) = Len(s) + Len(w) /\ Len(w) \in Nat /\ s \o w \in Seq(Ops)
          /\ \A i \in 1 .. Len(s) : (s \o w)[i] = s[i]
          /\ \A i \in 1 .. Len(w) : (s \o w)[Len(s) + i] = w[i]
      BY <3>2, Together
    <3> QED
      BY <3>2, <3>3, <3>4
  <2>10. \A i \in 2 .. Len(todo') : Peeks(todo'[i])
    <3> SUFFICES ASSUME NEW i \in 2 .. Len(todo') PROVE Peeks(todo'[i])
      OBVIOUS
    <3>1. i - 1 \in 1 .. Len(w) /\ 1 + (i - 1) = i
      BY <2>9
    <3> QED
      BY <2>3, <2>9, <3>1
  <2>11. Working'
    <3>1. todo' # << >>
      BY <2>9, EmptySeq
    <3> QED
      BY <2>1, <3>1 DEF Working, Running
  <2>12. /\ port'.cmd_halt /\ ~port'.cmd_reset /\ port'.cmd_step = FALSE
    BY <2>1, <2>4, <2>5, PortFields DEF BusInv, Types
  <2>13. AboutToStep'
    BY <2>2, <2>6, <2>8, <2>9, <2>10, <2>11, <2>12 DEF AboutToStep
  <2> QED
    BY <2>6, <2>13
<1> QED
  BY <1>1, <1>2

LEMMA StepStep ==
  ASSUME BusInv, EnoughPatience, StepInv, [Next]_vars
  PROVE  StepInv'
<1>1. CASE Ask \/ Await \/ Release
  <2>1. Running /\ stepping' = stepping
    BY <1>1, AskIs, AwaitIs, Delivered DEF settings, Working
  <2> QED
    BY <1>1, <2>1, StepAccess, StepRelease DEF StepInv
<1>2. CASE TickQuiet \/ ResetTick \/ ShowState \/ PokeGo \/ Crash
  <2>1. /\ Working /\ Doing \in {"tick", "reset", "show", "go", "crash"}
        /\ stepping' = stepping
    BY <1>2 DEF TickQuiet, ResetTick, TickOnce, ShowState, PokeGo, Crash, settings
  <2> QED
    BY <2>1, StepOnly DEF StepInv
<1>3. CASE Report
  <2>1. ended' \in {"bombed", "reported"} /\ stepping' = stepping
        /\ cpu' = cpu
    BY <1>3 DEF Report, settings
  <2> QED
    BY <2>1 DEF StepInv, Running
<1>4. CASE Keys
  BY <1>4, StepKey
<1>5. CASE Main /\ ~Report
  <2>1. mode # "interactive" /\ stepping' = stepping
    BY <1>5, MainIs
  <2> QED
    BY <2>1 DEF BusInv, Types, StepInv
<1>6. CASE UNCHANGED vars
  BY <1>6 DEF StepInv, Running, Working, AboutToStep, HasStepped, Served, Answered, Peeks,
              Halts, Halting, CMD_STEP, Command, vars, program
<1> QED
  BY <1>1, <1>2, <1>3, <1>4, <1>5, <1>6 DEF Next, Work

(* The key s on a processor that stands still is one instruction: not two  *)
(* at any time, and not none when the view is drawn (zipsystem.v:310,      *)
(* cmd_step is up for one clock and lifts the halt for that clock).        *)
THEOREM StepIsOneInstruction ==
  ASSUME EnoughPatience
  PROVE  Spec => []StepsOnce
<1>1. Init => BusInv /\ StepInv
  BY BusInit DEF Init, StepInv
<1>2. BusInv /\ StepInv /\ [Next]_vars => (BusInv /\ StepInv)'
  BY BusStep, StepStep
<1>3. BusInv /\ StepInv => StepsOnce
  BY DEF StepInv, StepsOnce, AboutToStep, HasStepped, Working
<1> QED
  BY <1>1, <1>2, <1>3, PTL DEF Spec

===============================================================================
