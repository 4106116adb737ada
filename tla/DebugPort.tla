------------------------------- MODULE DebugPort -------------------------------
(***************************************************************************)
(* The debug port of the ZipSystem (zipsystem.v, behind the bus delay of   *)
(* busdelay.v) and what a debugger sees of the processor behind it         *)
(* (zipcpu.v): registers, an instruction that waits to be issued, and one  *)
(* that is being executed.  What an instruction computes is left open.     *)
(*                                                                         *)
(* A step is one rising edge of the clock.  PortEdge and CpuEdge give what *)
(* an edge makes of the port and the processor; the programs that drive    *)
(* the port decide when an edge comes and what the bus carries then.       *)
(*                                                                         *)
(* Addresses are those of the debug port: 0 to 31 are registers of the     *)
(* processor, 32 and above peripherals, of which only counters are here.   *)
(* The condition codes, 14 and 30, are gathered from flip-flops all over   *)
(* the processor: what they hold after a write is left open.               *)
(***************************************************************************)
EXTENDS Integers

CONSTANTS
  Addrs,    (* the addresses of this instance *)
  Values,   (* what a register can hold: 0, 1, ... *)
  Kinds     (* what an instruction can wait for: see CpuInit *)

ASSUME AddrsAssumption == Addrs \subseteq 0..31 \cup 40..47 /\ 0 \in Addrs
ASSUME ValuesAssumption == 0 \in Values
ASSUME KindsAssumption == Kinds \subseteq {"busy", "load", "local"}

VARIABLES
  port,   (* the registers of busdelay and of the debug interface *)
  cpu     (* the processor *)

CpuRegs == {a \in Addrs : a < 32}
Counters == {a \in Addrs : a \in 40..47}
IsPC(a) == a \in {15, 31}
IsCC(a) == a \in {14, 30}
Nowhere == 99

(* A word for the port: the bits of a command, or a value. *)
Word == [reset : BOOLEAN, halt : BOOLEAN, step : BOOLEAN, addr : Addrs, val : Values]
Command(rs, hl, st, a) == [reset |-> rs, halt |-> hl, step |-> st, addr |-> a, val |-> 0]
Value(v) == [reset |-> FALSE, halt |-> FALSE, step |-> FALSE, addr |-> 0, val |-> v]

(* What the bus carries at an edge. *)
Carry(cyc, stb, we, reg, data) ==
  [cyc |-> cyc, stb |-> stb, we |-> we, reg |-> reg, data |-> data]
Quiet == Carry(FALSE, FALSE, FALSE, 0, Value(0))

PortInit ==
  [cyc |-> FALSE, stb |-> FALSE, we |-> FALSE, reg |-> 0, data |-> Value(0),
   ack |-> FALSE, out |-> [free |-> TRUE, val |-> 0], dbg_ack |-> FALSE,
   cmd_reset |-> TRUE, cmd_halt |-> TRUE, cmd_step |-> FALSE, cmd_addr |-> 0]

(* pipe: the instruction in execution.  "busy" is a multiplication, "load" *)
(* and "local" wait for the outer and for the peripheral bus, "done" is    *)
(* written back at the next edge.  next: the instruction that waits to be  *)
(* issued, or "asleep" if the condition codes say that none is.            *)
(* dbgv: the debugger's write, one edge on its way.  live: at the last     *)
(* edge something was in execution or could be issued.  issued: history,   *)
(* the instructions issued while they are counted, 2 for many.             *)
CpuInit ==
  [regs |-> [a \in Addrs |-> 0], pipe |-> "none", into |-> Nowhere, next |-> "empty",
   dbgv |-> [reg |-> Nowhere, val |-> 0], stall |-> FALSE, dbg_reg |-> 0,
   live |-> TRUE, issued |-> 2]

(***************************************************************************)
(* The port                                                                *)
(***************************************************************************)
CmdWrite(p) == p.cyc /\ p.stb /\ p.we /\ p.reg = 0

CpuReset(p, rst) == p.cmd_reset \/ rst

(* The step pulse lifts the halt for its one clock. *)
HaltKept(p, rst) == rst \/ p.cmd_halt   \* faulty
CpuHalt(p, rst) == rst \/ (p.cmd_halt /\ ~p.cmd_step)

CpuDbgWe(p) == p.cyc /\ p.stb /\ p.we /\ p.reg = 1 /\ p.cmd_addr < 32

SysDbgCyc(p, c, rst) ==
  /\ p.cyc /\ p.reg = 1
  /\ c.pipe # "local"
  /\ (CpuHalt(p, rst) /\ ~c.stall) \/ p.cmd_addr < 32

DbgStall(p, c, rst) == p.cyc /\ p.reg = 1 /\ ~SysDbgCyc(p, c, rst)

(* o_dbg_stall, as the master of the bus sees it. *)
Stalled(p, c) == p.stb /\ DbgStall(p, c, FALSE)

(* A break instruction stops the processor once nothing is in execution. *)
Break(c) == c.next = "break" /\ c.pipe = "none"

(* dbg_odata: the control register's bit 9 is ~cpu_dbg_stall. *)
Odata(p, c) ==
  IF p.reg = 0 THEN [free |-> ~c.stall, val |-> 0]
  ELSE [free |-> TRUE,
        val |-> IF p.cmd_addr < 32 THEN c.dbg_reg ELSE c.regs[p.cmd_addr]]

PortEdge(p, c, in, rst) ==
  LET held == Stalled(p, c)
      cmd == CmdWrite(p)
  IN [cyc |-> in.cyc,
      stb |-> IF held THEN p.stb ELSE in.cyc /\ in.stb,
      we |-> IF held THEN p.we ELSE in.we,
      reg |-> IF held THEN p.reg ELSE in.reg,
      data |-> IF held THEN p.data ELSE in.data,
      ack |-> p.dbg_ack /\ p.cyc /\ in.cyc,
      out |-> Odata(p, c),
      dbg_ack |-> p.cyc /\ ~DbgStall(p, c, rst),
      cmd_reset |-> cmd /\ p.data.reset,
      cmd_halt |-> \/ rst
                   \/ IF cmd THEN p.data.halt \/ p.data.step
                      ELSE p.cmd_halt \/ p.cmd_step \/ Break(c),
      cmd_step |-> cmd /\ p.data.step,
      cmd_addr |-> IF cmd THEN p.data.addr ELSE p.cmd_addr]

(***************************************************************************)
(* The processor                                                           *)
(***************************************************************************)
(* An instruction must be issued when nothing is in execution, and may be  *)
(* while the one before is written back.                                   *)
Issues(p, c, rst) ==
  IF CpuHalt(p, rst) \/ c.next # "ready" THEN {FALSE}
  ELSE IF c.pipe = "none" THEN {TRUE}
  ELSE IF c.pipe = "done" THEN BOOLEAN
  ELSE {FALSE}

Executes(c, issue) ==
  IF issue THEN Kinds \cup {"done"}
  ELSE IF c.pipe \in {"load", "local"} THEN {c.pipe, "done"}
  ELSE IF c.pipe = "busy" THEN {"done"}
  ELSE {"none"}

(* Write-back.  A write of the debugger that meets an instruction's leaves *)
(* the instruction's register alone and may put either value in its own.   *)
Written(c) ==
  LET into == IF c.dbgv.reg # Nowhere THEN c.dbgv.reg ELSE c.into
      vals == IF c.pipe = "done" THEN Values ELSE {c.dbgv.val}
  IN IF into = Nowhere THEN {c.regs}
     ELSE IF c.pipe = "done" \/ c.dbgv.reg # Nowhere
          THEN {[c.regs EXCEPT ![into] = v] : v \in vals}
          ELSE {c.regs}

(* A write of condition codes, by an instruction or by the debugger.       *)
WritesCodes(c) == IsCC(c.dbgv.reg) \/ (c.pipe = "done" /\ IsCC(c.into))

(* The condition codes: flags that any instruction sets, errors that show  *)
(* an edge after it, the mode and the sleep bit, a bit to enable breaks    *)
(* that the first edge of a halt clears, and what a write leaves of them,  *)
(* of which each set sees the other's mode.  They come to rest an edge     *)
(* after the processor; until then nothing looks at them, and 0 stands for *)
(* what they are.                                                          *)
Flagged(regs, c, halt) ==
  IF halt /\ c.pipe = "none" /\ ~c.live /\ ~IsCC(c.dbgv.reg) THEN {regs}
  ELSE {[a \in Addrs |-> IF IsCC(a) THEN codes[a] ELSE regs[a]] :
          codes \in [{a \in Addrs : IsCC(a)} ->
                       IF halt /\ c.pipe = "none" THEN Values ELSE {0}]}

(* The counters count while the processor is not halted; the user's ones   *)
(* only in user mode, which is left open.                                  *)
Counted(regs, c, halt) ==
  IF halt THEN {regs}
  ELSE {[a \in Addrs |->
           IF a \in Counters /\ (a < 44 \/ user)
           THEN IF c.regs[a] + 1 \in Values THEN c.regs[a] + 1 ELSE 0
           ELSE regs[a]] : user \in BOOLEAN}

(* What an edge can make of the registers. *)
Registers(c, halt) ==
  UNION {Counted(f, c, halt) : f \in UNION {Flagged(w, c, halt) : w \in Written(c)}}

(* A write of a peripheral from the port. *)
PeriphWrite(p, c, regs, rst) ==
  IF p.stb /\ p.we /\ p.cmd_addr >= 32 /\ SysDbgCyc(p, c, rst)
  THEN [regs EXCEPT ![p.cmd_addr] = p.data.val] ELSE regs

(* The next instruction: kept until issued, lost when the program counter  *)
(* is written or the mode changes, and fetched at an open time.  What is   *)
(* executed may put the processor to sleep.  It wakes by an interrupt,     *)
(* none of which comes during a halt, or by a write of its codes.          *)
Fetched(c, issue, halt) ==
  IF \E a \in CpuRegs : IsPC(a) /\ c.dbgv.reg = a THEN {"empty"}
  ELSE IF \/ c.next = "empty" \/ issue
          \/ c.next = "asleep" /\ (~halt \/ c.pipe = "done" \/ WritesCodes(c))
       THEN {"empty", "ready", "break", "asleep"}
  ELSE IF WritesCodes(c) THEN {"empty", "asleep", c.next}
  ELSE IF c.pipe = "done" /\ IsPC(c.into) THEN {"empty", c.next}
  ELSE {c.next}

CpuEdge(p, c, rst) ==
  LET halt == CpuHalt(p, rst)
      busy == c.pipe \in {"load", "local"}
      dbg_reg == IF p.cmd_addr < 32 THEN c.regs[p.cmd_addr] ELSE 0
  IN IF CpuReset(p, rst)
     THEN {[c EXCEPT !.regs = [a \in Addrs |-> IF a = 15 THEN 0 ELSE @[a]],
                     !.pipe = "none", !.into = Nowhere, !.next = "empty",
                     !.dbgv = [reg |-> Nowhere, val |-> 0],
                     !.stall = halt /\ busy, !.dbg_reg = dbg_reg, !.live = TRUE]}
     ELSE UNION {
       {[regs |-> PeriphWrite(p, c, r, rst),
         pipe |-> e,
         into |-> IF e = "none" THEN Nowhere ELSE t,
         next |-> n,
         dbgv |-> IF halt /\ CpuDbgWe(p)
                  THEN [reg |-> p.cmd_addr, val |-> p.data.val]
                  ELSE [reg |-> Nowhere, val |-> 0],
         stall |-> halt /\ (busy \/ c.next = "empty"),
         dbg_reg |-> dbg_reg,
         live |-> ~halt \/ c.pipe # "none",
         issued |-> IF i /\ c.issued < 2 THEN c.issued + 1 ELSE c.issued]
         : e \in Executes(c, i), t \in IF i THEN CpuRegs ELSE {c.into},
           r \in Registers(c, halt), n \in Fetched(c, i, halt)}
       : i \in Issues(p, c, rst)}

(* One edge. *)
Edge(p, c, in, rst) ==
  /\ port' = PortEdge(p, c, in, rst)
  /\ cpu' \in CpuEdge(p, c, rst)

===============================================================================
