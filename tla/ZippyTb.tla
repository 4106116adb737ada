-------------------------------- MODULE ZippyTb --------------------------------
(***************************************************************************)
(* The test bench bench/cpp/zippy_tb.cpp: a program that clocks the        *)
(* simulated system itself, drives its debug port, and shows the           *)
(* processor's registers.  A step of the program is either one tick of the *)
(* clock or a decision between two ticks.                                  *)
(*                                                                         *)
(* What the program still has to do before it looks at the keyboard again  *)
(* is the sequence todo; the functions of ZIPPY_TB append to it.  Two      *)
(* views are drawn: read_state reads every register through the port,      *)
(* show_state looks into the simulation.                                   *)
(***************************************************************************)
EXTENDS DebugPort, Sequences

CONSTANTS
  InOrder,    (* Addrs in the order of the loop of read_raw_state *)
  Patience,   (* clocks an access may take: 100 in wb_write and wb_read *)
  MaxErr,     (* MAXERR, the times a halt is asked for: 10000 *)
  Cursors,    (* the fields of the screen this instance edits *)
  Typed,      (* and the values it enters *)
  Timers,     (* what the keys m and u choose to show in this instance *)
  MemSize     (* words of memory: 2^20 *)

ASSUME OrderAssumption ==
  /\ InOrder \in Seq(Addrs)
  /\ \A a \in Addrs : \E i \in 1..Len(InOrder) : InOrder[i] = a
  /\ \A i, j \in 1..Len(InOrder) : i < j => InOrder[i] < InOrder[j]
ASSUME BoundsAssumption == Patience \in Nat /\ MaxErr \in Nat /\ MemSize \in Nat \ {0}
ASSUME KeysAssumption == Typed \subseteq Values /\ Timers \subseteq BOOLEAN

VARIABLES
  mode,       (* load, then what the options ask for *)
  todo,       (* the operations before the next key *)
  phase,      (* where in wb_write or wb_read: ask, stall, ack *)
  errcount, polls,
  m_state,    (* the registers as read for the view, by address *)
  manual, halted, m_show_user_timers,
  bomb, mptr,
  ended,      (* how the program ended *)
  edit,       (* history: the edit of a halted processor since the last key, *)
              (* with what the same counter of the other set held then       *)
  stepping    (* history: the last key stepped a processor that stood still *)

program == <<mode, todo, phase, errcount, polls, m_state, manual, halted,
             m_show_user_timers, bomb, mptr, ended, edit, stepping>>
vars == <<port, cpu, program>>

Unread == 99
NoEdit == [cursor |-> Unread, val |-> 0, other |-> 0]
NoState == [a \in Addrs |-> Unread]

(***************************************************************************)
(* Operations                                                              *)
(***************************************************************************)
Op(do, reg, data, into) ==
  [do |-> do, reg |-> reg, data |-> data, into |-> into, fail |-> "no"]

WbWrite(reg, data) == Op("write", reg, data, Nowhere)
WbRead(reg, into) == Op("read", reg, Value(0), into)
(* Read the control register until the processor is not stalled, or end.  *)
Poll(fail) == [Op("poll", 0, Value(0), Nowhere) EXCEPT !.fail = fail]
Tick == Op("tick", 0, Value(0), Nowhere)
Show == Op("show", 0, Value(0), Nowhere)

CMD_HALT(a) == Command(FALSE, TRUE, FALSE, a)
CMD_STEP == Command(FALSE, TRUE, TRUE, 0)

(* Faulty: reads the control register once, whatever it says.              *)
cmd_read_at_once(a) == <<WbWrite(0, CMD_HALT(a)), WbRead(0, Nowhere), WbRead(1, a)>>
cmd_read(a) == <<WbWrite(0, CMD_HALT(a)), Poll("exit"), WbRead(1, a)>>

(* Faulty: the value before the address it is for. *)
cmd_write_swapped(a, v) ==
  <<WbWrite(1, Value(v)), WbWrite(0, CMD_HALT(a)), Poll("abort")>>

(* With an address that ends in 15 the debugging output is written, to a   *)
(* file that was never opened.                                             *)
cmd_write(a, v) ==
  <<WbWrite(0, CMD_HALT(a)), Poll("abort"),
    IF a % 16 = 15 THEN Op("crash", 0, Value(0), Nowhere) ELSE WbWrite(1, Value(v))>>

(* The registers one by one, three operations each. *)
read_raw_state ==
  [k \in 1..(3 * Len(InOrder)) |->
     cmd_read(InOrder[(k + 2) \div 3])[1 + ((k - 1) % 3)]]

(* The program counter is read a second time while it is drawn. *)
read_state ==
  read_raw_state \o <<WbRead(0, Nowhere)>> \o (IF 15 \in Addrs THEN cmd_read(15) ELSE <<>>)

(* The counter of the same name in the other set.                          *)
OtherSet(a) == IF a \in 40..43 THEN a + 4 ELSE IF a \in 44..47 THEN a - 4 ELSE a
Held(a) == IF a \in Addrs THEN cpu.regs[a] ELSE 0

(* read_raw_state_cheating puts the user's counters where the addresses    *)
(* have the master's, and the other way round.  The condition codes, of    *)
(* which it gathers other bits than the port does, are left out.           *)
Cheating == [a \in Addrs |-> IF IsCC(a) THEN Unread ELSE Held(OtherSet(a))]

(* show_state looks into the simulation. *)
Inside(man, hlt) == man \/ ~hlt
View(man, hlt) == IF Inside(man, hlt) THEN <<Show>> ELSE read_state

(***************************************************************************)
(* Fields of the screen: four to a row, eleven rows                        *)
(***************************************************************************)
cursor_up(c) == IF c > 3 THEN c - 4 ELSE c
cursor_down(c) == IF c < 40 THEN c + 4 ELSE c
cursor_left(c) == IF c > 0 THEN c - 1 ELSE 43
cursor_right(c) == IF c < 43 THEN c + 1 ELSE 0

(* The address whose value read_state shows at the cursor. *)
ShownAt(c, users) ==
  IF c >= 12 THEN c - 12
  ELSE IF c \in 8..11 THEN IF users THEN c + 32 ELSE c + 36
  ELSE c + 32

(* The address get_value writes. *)
EditedAt(c) == IF c >= 12 THEN c - 12 ELSE c + 32

(* The fields of this instance are those of the addresses it has.          *)
ASSUME CursorsAssumption ==
  \A c \in Cursors :
    c \in 8..43 /\ EditedAt(c) \in Addrs /\ \A users \in BOOLEAN : ShownAt(c, users) \in Addrs

(* Where a row of cursor keys can take the cursor. *)
Keyed(S) ==
  S \cup {cursor_up(c) : c \in S} \cup {cursor_down(c) : c \in S}
    \cup {cursor_left(c) : c \in S} \cup {cursor_right(c) : c \in S}
Walk[n \in 0..22] == IF n = 0 THEN {0} ELSE Keyed(Walk[n - 1])
Fields == Walk[22]

(* get_value pokes a running simulation: the register, and for the program *)
(* counter in use also the pipeline.  Of the condition codes, which 0      *)
(* stands for here, it reaches the upper bits.  The fields of the counters *)
(* write past the end of the registers, on what lies behind them.          *)
Poked(c, a, v) ==
  CASE a >= 32 -> {c, [c EXCEPT !.next = "empty"]}
                    \cup {[c EXCEPT !.regs[b] = v] : b \in {b \in Addrs : ~IsCC(b)}}
    [] IsCC(a) -> {c}
    [] IsPC(a) -> {[c EXCEPT !.regs[a] = v], [c EXCEPT !.regs[a] = v, !.next = "empty"]}
    [] OTHER -> {[c EXCEPT !.regs[a] = v]}

(***************************************************************************)
(* The operations at work                                                  *)
(***************************************************************************)
Init ==
  /\ port = PortInit /\ cpu = CpuInit
  /\ mode = "load" /\ mptr = 0
  /\ todo = <<>> /\ phase = "ask" /\ errcount = 0 /\ polls = 0
  /\ m_state = NoState
  /\ manual = TRUE /\ halted = TRUE
  /\ m_show_user_timers = FALSE
  /\ bomb = FALSE /\ ended = "no"
  /\ edit = NoEdit /\ stepping = FALSE

Running == ended = "no"
Working == Running /\ todo # <<>>
Doing == todo[1].do
OnBus == Working /\ Doing \in {"write", "read", "poll"}

settings == <<mode, manual, halted, m_show_user_timers, mptr, edit, stepping>>

Request == Carry(TRUE, TRUE, Doing = "write", todo[1].reg, 
                 IF Doing = "write" THEN todo[1].data ELSE Value(0))
Hold == [Request EXCEPT !.stb = FALSE]

(* The first tick of wb_write or wb_read. *)
Ask ==
  /\ OnBus /\ phase = "ask"
  /\ Edge(port, cpu, Request, FALSE)
  /\ phase' = "stall" /\ errcount' = 0
  /\ UNCHANGED <<todo, polls, m_state, bomb, ended, settings>>

(* The two loops after it: hold the request while the port stalls, then    *)
(* wait for the acknowledgement.  Both count into errcount.                *)
Stalling == phase = "stall" /\ errcount < Patience /\ Stalled(port, cpu)
Waited == IF phase = "stall" THEN errcount + 1 ELSE errcount
Over == ~Stalling /\ (Waited >= Patience \/ port.ack)

Await ==
  /\ OnBus /\ phase # "ask" /\ ~Over
  /\ Edge(port, cpu, IF Stalling THEN Request ELSE Hold, FALSE)
  /\ phase' = IF Stalling THEN "stall" ELSE "ack"
  /\ errcount' = IF Stalling THEN errcount + 1 ELSE Waited + 1
  /\ UNCHANGED <<todo, polls, m_state, bomb, ended, settings>>

(* One more time the halt was asked for and not seen. *)
PolledUncounted(n) == n    \* faulty
Polled(n) == n + 1

(* What the caller does with the access: the loop of cmd_read and          *)
(* cmd_write gives up after MaxErr, even when the last answer was good.    *)
Deliver ==
  IF Doing = "poll"
  THEN /\ IF polls >= MaxErr THEN ended' = todo[1].fail ELSE UNCHANGED ended
       /\ IF port.out.free \/ polls >= MaxErr
          THEN todo' = Tail(todo) /\ polls' = 0
          ELSE todo' = todo /\ polls' = Polled(polls)
       /\ UNCHANGED m_state
  ELSE /\ todo' = Tail(todo)
       /\ m_state' = IF Doing = "read" /\ todo[1].into # Nowhere
                     THEN [m_state EXCEPT ![todo[1].into] = port.out.val]
                     ELSE m_state
       /\ UNCHANGED <<polls, ended>>

(* The tick that releases the bus; the value was taken before it. *)
Release ==
  /\ OnBus /\ phase # "ask" /\ Over
  /\ Edge(port, cpu, Quiet, FALSE)
  /\ phase' = "ask" /\ errcount' = 0
  /\ bomb' = (bomb \/ Waited + 1 >= Patience)
  /\ Deliver
  /\ UNCHANGED settings

(* A tick of its own, with the reset up or not. *)
TickOnce(op, rst) ==
  /\ Working /\ Doing = op
  /\ Edge(port, cpu, Quiet, rst)
  /\ todo' = Tail(todo)
  /\ UNCHANGED <<phase, errcount, polls, m_state, bomb, ended, settings>>

TickQuiet == TickOnce("tick", FALSE)
ResetTick == TickOnce("reset", TRUE)

ShowState ==
  /\ Working /\ Doing = "show"
  /\ m_state' = Cheating
  /\ todo' = Tail(todo)
  /\ UNCHANGED <<port, cpu, phase, errcount, polls, bomb, ended, settings>>

(* The write to a file that is not open ends the program. *)
Crash ==
  /\ Working /\ Doing = "crash"
  /\ ended' = "crash"
  /\ UNCHANGED <<port, cpu, todo, phase, errcount, polls, m_state, bomb, settings>>

(***************************************************************************)
(* main                                                                    *)
(***************************************************************************)
(* A file is read behind the ones before it; an empty one, one of zeros,   *)
(* or one for which there is no room ends the program.                     *)
Load ==
  /\ mode = "load" /\ Running
  /\ \E n \in 0..(MemSize - mptr), zeros \in BOOLEAN :
       IF n = 0 \/ zeros
       THEN ended' = "exit" /\ UNCHANGED mptr
       ELSE mptr' = mptr + n /\ UNCHANGED ended
  /\ UNCHANGED <<port, cpu, mode, todo, phase, errcount, polls, m_state, manual,
                 halted, m_show_user_timers, bomb, edit, stepping>>

(* The options choose how to run.  The first ticks of an automatic run are *)
(* under reset, which leaves the processor halted until it is poked.       *)
Start(how, p, ops) ==
  /\ mode = "load" /\ Running /\ mptr > 0
  /\ mode' = how /\ port' = p /\ todo' = ops
  /\ UNCHANGED <<cpu, phase, errcount, polls, m_state, manual, halted,
                 m_show_user_timers, bomb, mptr, ended, edit, stepping>>

Reset == Op("reset", 0, Value(0), Nowhere)
GoOn == Op("go", 0, Value(0), Nowhere)

StartAutorun == Start("autorun", port, <<Reset, Tick, Tick, GoOn>>)
StartAutostep ==
  Start("autostep", port, <<WbWrite(0, Command(TRUE, TRUE, FALSE, 0))>>)
StartInteractive ==
  Start("interactive", [port EXCEPT !.cmd_reset = TRUE, !.cmd_halt = FALSE], <<>>)

PokeGo ==
  /\ Working /\ Doing = "go"
  /\ port' = [port EXCEPT !.cmd_halt = FALSE]
  /\ todo' = Tail(todo)
  /\ UNCHANGED <<cpu, phase, errcount, polls, m_state, bomb, ended, settings>>

(* The loops without a keyboard: one tick or one step, until the program   *)
(* under test ends well or badly or the user interrupts.                   *)
AutoLoop ==
  /\ Running /\ todo = <<>> /\ mode \in {"autorun", "autostep"}
  /\ todo' = <<IF mode = "autorun" THEN Tick ELSE WbWrite(0, CMD_STEP)>>
  /\ UNCHANGED <<port, cpu, phase, errcount, polls, m_state, bomb, ended, settings>>

(* The end of main: its result says what the test bench saw last. *)
Report ==
  /\ Running /\ todo = <<>> /\ mode # "load"
  /\ ended' = IF bomb THEN "bombed" ELSE "reported"
  /\ UNCHANGED <<port, cpu, todo, phase, errcount, polls, m_state, bomb, settings>>

(***************************************************************************)
(* Keys                                                                    *)
(***************************************************************************)
Listening == Running /\ todo = <<>> /\ mode = "interactive" /\ ~bomb

(* Every key ends with a view, drawn by what the key has made of the two   *)
(* flags.                                                                  *)
Key(p, ops, man, hlt) ==
  /\ Listening
  /\ port' = p
  /\ manual' = man /\ halted' = hlt
  /\ todo' = ops \o View(man, hlt)
  /\ m_state' = NoState
  /\ UNCHANGED <<mode, phase, errcount, polls, bomb, mptr, ended>>

(* The histories end with every key.                                       *)
Uncounted == [cpu EXCEPT !.issued = 2]
Forget == edit' = NoEdit /\ stepping' = FALSE /\ cpu' = Uncounted

KeyHalt ==
  Key(port, <<WbWrite(0, CMD_HALT(0))>>, manual, TRUE) /\ Forget /\ UNCHANGED m_show_user_timers

KeyGo ==
  Key(port, <<WbWrite(0, Command(FALSE, FALSE, FALSE, 0))>>, FALSE, FALSE)
    /\ Forget /\ UNCHANGED m_show_user_timers

KeyReset ==
  /\ Key(port, <<IF manual THEN Reset ELSE WbWrite(0, Command(TRUE, TRUE, FALSE, 0))>>,
         manual, TRUE)
  /\ Forget /\ UNCHANGED m_show_user_timers

(* The processor stands still, with an instruction that can be issued. *)
Ready == port.cmd_halt /\ cpu.pipe = "none" /\ cpu.next = "ready"

KeyStep ==
  /\ Key(port, <<WbWrite(0, CMD_STEP)>>, FALSE, TRUE)
  /\ edit' = NoEdit /\ stepping' = Ready
  /\ cpu' = IF Ready THEN [cpu EXCEPT !.issued = 0] ELSE Uncounted
  /\ UNCHANGED m_show_user_timers

(* S, T and t set the port's flip-flops themselves and tick once. *)
KeyManual ==
  /\ \/ Key([port EXCEPT !.cmd_halt = FALSE, !.cmd_step = TRUE], <<Tick>>, TRUE, TRUE)
     \/ Key([port EXCEPT !.cmd_halt = TRUE, !.cmd_step = FALSE], <<Tick>>, TRUE, TRUE)
     \/ Key([port EXCEPT !.cmd_halt = FALSE], <<Tick>>, TRUE, FALSE)
  /\ Forget /\ UNCHANGED m_show_user_timers

KeyTimers ==
  /\ Key(port, <<>>, manual, halted)
  /\ m_show_user_timers' \in Timers
  /\ Forget

(* Cursor keys to a field, each of which only draws the view again, and    *)
(* Enter: get_value.                                                       *)
KeyEnter ==
  /\ \E m_cursor \in Fields \cap Cursors, v \in Typed :
       LET a == EditedAt(m_cursor) IN
       IF port.cmd_halt
       THEN /\ Key(port, cmd_write(a, v), manual, halted)
            /\ edit' = [cursor |-> m_cursor, val |-> v,
                        other |-> IF a >= 32 THEN Held(OtherSet(a)) ELSE 0]
            /\ cpu' = Uncounted
       ELSE /\ Key(port, <<>>, manual, halted)
            /\ edit' = NoEdit
            /\ cpu' \in Poked(Uncounted, a, v)
  /\ stepping' = FALSE
  /\ UNCHANGED m_show_user_timers

(* Any other key, or none in time. *)
KeyOther ==
  Key(port, IF manual THEN <<>> ELSE <<Tick>>, manual, halted)
    /\ Forget /\ UNCHANGED m_show_user_timers

(***************************************************************************)
(* Specification                                                           *)
(***************************************************************************)
Work ==
  \/ Ask \/ Await \/ Release \/ TickQuiet \/ ResetTick
  \/ ShowState \/ Crash \/ PokeGo

Keys ==
  \/ KeyHalt \/ KeyGo \/ KeyReset \/ KeyStep \/ KeyManual
  \/ KeyTimers \/ KeyEnter \/ KeyOther

Main == Load \/ StartAutorun \/ StartAutostep \/ StartInteractive \/ AutoLoop \/ Report

Next == Work \/ Keys \/ Main

(* The program works when it has work to do: weak fairness of Work, with   *)
(* its condition written out.  Only Work takes a step while Working.       *)
WorksOn == []<>~Working \/ []<><<Working>>_vars

Spec == Init /\ [][Next]_vars /\ WorksOn

(***************************************************************************)
(* Properties                                                              *)
(***************************************************************************)
(* The halted view shows one state of the processor: every value it has    *)
(* read is still the register's, until the next key.  (zippy_tb.cpp:767,   *)
(* cmd_read, waits until the processor does not stall; zipsystem.v:712.)   *)
ViewIsTrue ==
  mode = "interactive" /\ ~manual /\ halted /\ Running
    => \A a \in Addrs : m_state[a] \in {Unread, cpu.regs[a]}

(* An edit of a halted processor takes effect, and the view drawn after it *)
(* shows it where it was typed, but for the counters: of those the view    *)
(* read through the port shows the other set than the labels say, so that, *)
(* unless the labels are the user's, the field keeps what it had.  In the  *)
(* view from inside it is the other way round.  Which bits the condition   *)
(* codes keep of an edit is left open.  (get_value and cmd_write,          *)
(* zippy_tb.cpp:1482, against an instruction that is being completed;      *)
(* read_state, :863, and read_raw_state_cheating, :221.)                   *)
Elsewhere(c) == c \in 8..11 /\ m_show_user_timers = Inside(manual, halted)

EditSeen ==
  edit # NoEdit /\ todo = <<>> /\ Running /\ ~bomb /\ ~IsCC(EditedAt(edit.cursor)) =>
    /\ cpu.regs[EditedAt(edit.cursor)] = edit.val
    /\ m_state[ShownAt(edit.cursor, m_show_user_timers)] =
         IF Elsewhere(edit.cursor) THEN edit.other ELSE edit.val

(* The key s on a processor that stands still makes it issue one           *)
(* instruction, no more, and by the time the view is drawn no less.        *)
(* (zipsystem.v:310, cmd_step is up for one clock.)                        *)
StepsOnce ==
  stepping =>
    /\ cpu.issued <= 1
    /\ todo = <<>> /\ Running => cpu.issued = 1

(* One access alone is ever kept waiting, and can be given up: the write   *)
(* of a counter that was edited, which cmd_write begins when the control   *)
(* register has said that the processor stands still, while it fetches     *)
(* the instruction after a jump that was just completed.  (The loops of    *)
(* wb_write, zippy_tb.cpp:1412; o_dbg_stall, zipcpu.v:1692, is an edge     *)
(* late; sys_dbg_cyc, zipsystem.v:712.)                                    *)
OnlyCounterWaits ==
  /\ Stalled(port, cpu) =>
       /\ OnBus /\ Doing = "write" /\ port.cmd_addr >= 32
       /\ port.cmd_halt /\ cpu.pipe = "none"
  /\ bomb => edit # NoEdit /\ EditedAt(edit.cursor) >= 32

(* Whatever the processor does, the program comes back to the keyboard or  *)
(* ends.  (The loops of wb_read, wb_write and cmd_read count.)             *)
ComesBack == (todo # <<>>) ~> (todo = <<>> \/ ~Running)

===============================================================================
