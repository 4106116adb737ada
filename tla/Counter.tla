------------------------------ MODULE Counter -------------------------------
(***************************************************************************)
(* One counter of the 8253 timer, src/i8253/counter.vhd: a bus process on  *)
(* clock_i that takes commands and count bytes, and a counting process on  *)
(* clock_c_i.  The two clocks are unrelated; the bus side raises ce_q and  *)
(* newcmd_q, the counting side answers with clr_ce_s and clr_ncmd_s.       *)
(*                                                                         *)
(* BusEdge is a rising edge of clock_i, CountEdge one of clock_c_i.  The   *)
(* variables n, t, loaded, bytes, owed, busy and gap are history: what the *)
(* counter was last loaded for and when, the count bytes written, the      *)
(* reads the bus owes to a latched count, and the distances between edges. *)
(***************************************************************************)
EXTENDS Integers, Sequences

CONSTANTS Base,       \* the values of a byte, 256 in the code
          Written,    \* the count bytes the bus writes
          Formats,    \* the values of bits 5..4 of a command the bus writes
          Modes,      \* the values of its bits 3..1
          MinGap,     \* counting edges between two bus accesses, at least
          MaxBytes    \* count bytes after one command, at most

ASSUME BaseAssumption == Base \in Nat /\ Base >= 2 /\ Base % 2 = 0
ASSUME FormatsAssumption == Formats \subseteq 0 .. 3 /\ Modes \subseteq 0 .. 7
ASSUME WrittenAssumption == Written \subseteq 0 .. Base - 1
ASSUME GapAssumption == MinGap \in Nat /\ MaxBytes \in Nat

Byte    == 0 .. Base - 1
Modulus == Base * Base       \* value_q is 16 bits wide

VARIABLES last_cs_s, state_q, mode_q, initial_q, rd_q, latched_q, ce_q, newcmd_q,
          out_q, value_q, strobe_q, clr_ncmd_s, clr_ce_s,
          n, t, loaded, bytes, owed, busy, gap

registers == <<state_q, mode_q, initial_q, rd_q, latched_q, ce_q, newcmd_q>>
counting  == <<out_q, value_q, strobe_q, clr_ncmd_s, clr_ce_s>>
history   == <<n, t, loaded, bytes, owed, busy, gap>>
vars      == <<last_cs_s, registers, counting, history>>

-----------------------------------------------------------------------------
(* The bus side.  state_q is <<bit 1, bit 0>>: counting, and the byte that *)
(* is written next; mode_q is [rw, m], bits 5..4 and 3..1 of the command.  *)

Bit(b) == IF b THEN 1 ELSE 0

\* "0" & state_q(0) + "0" & (mode_q(5) xor mode_q(4)) + "01": & and + bind
\* alike and to the left, so state_q(0) has the weight 2; the low two of the
\* sum's three bits are kept.
NextState(s, rw) ==
  LET sum == 2 * s[2] + Bit(rw \in {1, 2}) + 1 IN <<(sum \div 2) % 2, sum % 2>>

\* A command that leaves the old count running until the new one is there.
CommandStateRunning(rw) == <<1, Bit(rw = 2)>>

\* After a command: not counting; the high byte is next only when it is alone.
CommandState(rw) == <<0, Bit(rw = 2)>>

\* state_q(0) selects the half of initial_q a count byte goes to.
PutByte(count, s, d) ==
  IF s[2] = 1 THEN d * Base + (count % Base) ELSE (count \div Base) * Base + d

\* The request for a load that the answer does not take back.
CeForever == ce_q

CeKept == ce_q /\ ~clr_ce_s

(* The two bytes of a count latched in the word format are owed a read     *)
(* each; any other write in between starts their reading anew.             *)
OwedAfterWrite == IF owed > 0 THEN 2 ELSE 0

WriteData(d) ==
  /\ ce_q' = TRUE /\ rd_q' = FALSE
  /\ initial_q' = PutByte(initial_q, state_q, d)
  /\ state_q' = NextState(state_q, mode_q.rw)
  /\ bytes' = Append(bytes, d) /\ owed' = OwedAfterWrite
  /\ UNCHANGED <<mode_q, latched_q, loaded>>

WriteCommand(rw, m) ==
  /\ ce_q' = TRUE /\ rd_q' = FALSE
  /\ IF rw # 0
     THEN /\ mode_q' = [rw |-> rw, m |-> m]
          /\ state_q' = CommandState(rw)
          /\ bytes' = <<>> /\ loaded' = FALSE /\ owed' = OwedAfterWrite
          /\ UNCHANGED latched_q
     ELSE /\ latched_q' = (mode_q.rw = 3)
          /\ owed' = IF mode_q.rw = 3 THEN 2 ELSE 0
          /\ UNCHANGED <<mode_q, state_q, bytes, loaded>>
  /\ UNCHANGED initial_q

Read ==
  /\ rd_q' = ~rd_q
  /\ latched_q' = (latched_q /\ ~rd_q)
  /\ owed' = IF owed > 0 THEN owed - 1 ELSE 0
  /\ ce_q' = CeKept
  /\ UNCHANGED <<state_q, mode_q, initial_q, bytes, loaded>>

\* An access begins with cs rising; later edges of the same access do nothing.
Access ==
  /\ ~last_cs_s /\ gap >= MinGap
  /\ last_cs_s' = TRUE /\ gap' = 0
  /\ \/ \E d \in Written : Len(bytes) < MaxBytes /\ WriteData(d)
                        /\ newcmd_q' = (newcmd_q /\ ~clr_ncmd_s)
     \/ \E rw \in Formats, m \in Modes :
          WriteCommand(rw, m) /\ newcmd_q' = (rw # 0 \/ (newcmd_q /\ ~clr_ncmd_s))
     \/ Read /\ newcmd_q' = (newcmd_q /\ ~clr_ncmd_s)

NoAccess ==
  /\ last_cs_s' \in {FALSE, last_cs_s}
  /\ ce_q' = CeKept
  /\ newcmd_q' = (newcmd_q /\ ~clr_ncmd_s)
  /\ UNCHANGED <<state_q, mode_q, initial_q, rd_q, latched_q, loaded, bytes, owed, gap>>

BusEdge == (Access \/ NoAccess) /\ busy' = FALSE /\ UNCHANGED <<counting, n, t>>

-----------------------------------------------------------------------------
(* The counting side.                                                      *)

Enabled == state_q[1] = 1 /\ ~latched_q

Down(v, k) == (v - k) % Modulus

\* initial_q(15 downto 1) & (high and initial_q(0)): an odd count keeps its
\* last bit for the high half of the wave only.
HalfBoth(count, high) == count

Half(count, high) == IF high \/ count % 2 = 0 THEN count ELSE count - 1

\* Every counting edge is counted that is not the bus's to make up for; one
\* full turn is enough.
Tick == t' = IF owed = 0 /\ t <= Modulus THEN t + 1 ELSE t

Load(v) == value_q' = v /\ n' = initial_q /\ t' = 0 /\ loaded' = TRUE

CountDown(k) == value_q' = Down(value_q, k) /\ Tick /\ UNCHANGED <<n, loaded>>

\* The one-shot output raised one count late.
TerminalLate(v) == v = 0

Terminal(v) == v = 1

OneShot ==   \* modes 0 and 1
  \/ /\ ce_q /\ out_q' = FALSE /\ clr_ce_s' = TRUE /\ Load(initial_q)
     /\ UNCHANGED strobe_q
  \/ /\ ~ce_q /\ CountDown(1)
     /\ out_q' = (out_q \/ Terminal(value_q))
     /\ clr_ce_s' = FALSE /\ UNCHANGED strobe_q

PulseAt(v) == v = 2

Rate ==      \* modes 2 and 6
  /\ out_q' = ~PulseAt(value_q)
  /\ \/ /\ value_q = 1 \/ newcmd_q
        /\ clr_ce_s' = ce_q /\ Load(initial_q)
     \/ /\ value_q # 1 /\ ~newcmd_q
        /\ clr_ce_s' = FALSE /\ CountDown(1)
  /\ UNCHANGED strobe_q

Square ==    \* modes 3 and 7
  /\ \/ /\ value_q \in {1, 2} \/ newcmd_q
        /\ out_q' = (~out_q \/ newcmd_q)
        /\ clr_ce_s' = ce_q
        /\ Load(Half(initial_q, ~out_q \/ newcmd_q))
     \/ /\ value_q \notin {1, 2} /\ ~newcmd_q
        /\ clr_ce_s' = FALSE /\ CountDown(2)
        /\ UNCHANGED out_q
  /\ UNCHANGED strobe_q

StrobeOver == ~strobe_q

Strobe ==    \* modes 4 and 5
  \/ /\ ce_q /\ out_q' = TRUE /\ clr_ce_s' = TRUE /\ strobe_q' = TRUE
     /\ Load(initial_q)
  \/ /\ ~ce_q /\ clr_ce_s' = FALSE /\ CountDown(1)
     /\ out_q' = IF Terminal(value_q) THEN out_q /\ StrobeOver ELSE TRUE
     /\ strobe_q' = (strobe_q /\ ~Terminal(value_q))

CountEdge ==
  /\ ~busy /\ busy' = TRUE
  /\ gap' = IF gap < MinGap THEN gap + 1 ELSE gap
  /\ UNCHANGED <<last_cs_s, registers, bytes, owed>>
  /\ IF Enabled
     THEN /\ clr_ncmd_s' = newcmd_q
          /\ \/ mode_q.m \in {0, 1} /\ OneShot
             \/ mode_q.m \in {2, 6} /\ Rate
             \/ mode_q.m \in {3, 7} /\ Square
             \/ mode_q.m \in {4, 5} /\ Strobe
     ELSE /\ clr_ncmd_s' = FALSE /\ clr_ce_s' = FALSE
          /\ Tick /\ UNCHANGED <<out_q, value_q, strobe_q, n, loaded>>

-----------------------------------------------------------------------------
\* reset_n_i, which both processes take asynchronously; last_cs_s has no reset.
Init ==
  /\ last_cs_s = FALSE
  /\ state_q = <<0, 0>> /\ mode_q = [rw |-> 0, m |-> 0] /\ initial_q = 0
  /\ rd_q = FALSE /\ latched_q = FALSE /\ ce_q = FALSE /\ newcmd_q = FALSE
  /\ out_q = TRUE /\ value_q = 0 /\ strobe_q = FALSE
  /\ clr_ncmd_s = FALSE /\ clr_ce_s = FALSE
  /\ n = 0 /\ t = 0 /\ loaded = FALSE /\ bytes = <<>> /\ owed = 0
  /\ busy = FALSE /\ gap = MinGap

Next == BusEdge \/ CountEdge

\* Both clocks run.
Spec == Init /\ [][Next]_vars /\ WF_vars(CountEdge) /\ WF_vars(BusEdge)

-----------------------------------------------------------------------------
\* A count of zero stands for the whole turn of the register.
Turns(count) == IF count = 0 THEN Modulus ELSE count

\* What the counter may be loaded with: bytes are those written since the
\* command.
Composed(count) ==
  LET last == bytes[Len(bytes)]
  IN  /\ Len(bytes) >= (IF mode_q.rw = 1 THEN 1 ELSE 2)
      /\ CASE mode_q.rw = 1 -> count % Base = last
           [] mode_q.rw = 2 -> count = last + Base * bytes[1]
           [] OTHER         -> count = bytes[1] + Base * last

(* No load takes a count of which a byte is missing, and which bytes it is  *)
(* put together from: in the word format the first after the command is    *)
(* the low half and the last one, whenever the load comes, the high half.  *)
(* So the first two make the count meant; a third byte changes the count a *)
(* running counter is reloaded with at once (lines 115, 172-175).          *)
CountTaken ==
  [][CountEdge /\ Enabled /\ t' = 0 => Composed(n')]_vars

(* In modes 0 and 1 the output rises exactly n counting edges after the    *)
(* load and stays up, whatever is read or rewritten meanwhile.  The edges  *)
(* the counter loses are exactly those from a latch command to the second  *)
(* read of the latched count.                                              *)
OneShotTiming ==
  loaded /\ mode_q.m \in {0, 1} => (out_q <=> t >= Turns(n))

(* In modes 2 and 6 the output is low for the last counting edge of every  *)
(* period and only then (a count of one is outside the mode).  At the load *)
(* edge itself the pulse may still be that of the count before a command.  *)
RateTiming ==
  loaded /\ mode_q.m \in {2, 6} /\ t > 0 /\ Turns(n) > 1 =>
    (~out_q <=> t = Turns(n) - 1)

(* In modes 3 and 7 the wave is high for half the count, rounded up, and   *)
(* low for the rest, so that an odd count gives its exact period (a count  *)
(* of one is outside the mode).                                            *)
SquareTiming ==
  [][CountEdge /\ loaded /\ Enabled /\ mode_q.m \in {3, 7} /\ Turns(n) > 1
       /\ ~newcmd_q /\ t' = 0
       => t + 1 = IF out_q THEN (Turns(n) + 1) \div 2 ELSE Turns(n) \div 2]_vars

(* In modes 4 and 5 the output is low at the n-th counting edge after the  *)
(* load, for one edge, and the strobe does not repeat when the counter     *)
(* comes round.                                                            *)
StrobeTiming ==
  loaded /\ mode_q.m \in {4, 5} => (~out_q <=> t = Turns(n))

(* The output of the modes that are not square waves, edge by edge.  The   *)
(* counting process (counter.vhd:163-229) reads the mode, the count and    *)
(* the state while the bus changes them on its own clock, and stands still *)
(* while a count is latched (line 163): t counts the edges since the load  *)
(* at which no read is owed to a latch, whether the counter moves or not.  *)
OutputTiming == OneShotTiming /\ RateTiming /\ StrobeTiming

(* The four-phase handshake between the clocks: with MinGap counting edges *)
(* between accesses a write that asks for a load is never forgotten.  By   *)
(* the next access the request is down again and the counter runs from the *)
(* count as it then stands, or it is stopped.                              *)
LoadTaken ==
  gap = MinGap /\ Enabled /\ mode_q.m \in {0, 1, 4, 5} =>
    ~ce_q /\ loaded /\ n = initial_q

(* A count of the word format is two bytes, the low one first: after every *)
(* second byte the count register holds the two written last.              *)
WordAsWritten ==
  mode_q.rw = 3 /\ Len(bytes) > 0 /\ Len(bytes) % 2 = 0 =>
    initial_q = bytes[Len(bytes) - 1] + Base * bytes[Len(bytes)]
=============================================================================
