------------------------------- MODULE DpSdram ------------------------------
(***************************************************************************)
(* The SDRAM controller src/ram/dpsdram.vhd (spsdram.vhd is the same with  *)
(* one port) and the chip behind it.  One process detects the falling edge *)
(* of a port's access line and answers the port; the other runs a routine  *)
(* of commands for one request, or a refresh, at a time.                   *)
(*                                                                         *)
(* One step is one rising edge of clock_i, at which the chip takes the     *)
(* command the controller has put out at the edge before.  The timing of   *)
(* the chip is counted in edges of a 100 MHz clock.  There is no wait      *)
(* line: a master holds its access for at least MinHold edges.             *)
(***************************************************************************)
EXTENDS Naturals

CONSTANTS Row, Col, Data,
          NoData, NoRow, NoRequest,
          MinHold,        \* the shortest bus cycle of a master, in edges
          Requests,       \* Requests[p]: the accesses port p's master makes
          RefreshInputs,  \* the values of refresh_i
          RfshCycles,     \* rfsh_cycles_g
          RfshPeriod      \* freq_g * 1000 * rfsh_period_g

ASSUME HoldAssumption == MinHold \in Nat \ {0}
ASSUME RefreshAssumption == /\ RefreshInputs \subseteq BOOLEAN
                            /\ RfshCycles \in Nat /\ RfshPeriod \in Nat \ {0}
ASSUME NoneAssumption == /\ NoData \notin Data \cup [{0, 1} -> Data]
                         /\ NoRow \notin Row
ASSUME SizeAssumption == Row # {} /\ Col # {} /\ Data # {}

Ports == {1, 2}
Addr  == [row : Row, col : Col, lane : {0, 1}]

ASSUME RequestsAssumption ==
  Requests \in [Ports -> SUBSET [we : BOOLEAN, a : Addr, d : Data]]

VARIABLES pcs_v, ram_req_s, ram_ack_s, ram_addr_s, ram_din_s, ram_we_n_s,
          ram_dout_s, data_o,
          SdrRoutine_v, SdrRoutineSeq_v, refreshDelayCounter_v,
          SdrRefreshCounter_v, SdrAddress_v, port_v,
          SdrCmd_s, SdrAdr_s, SdrMask_s, SdrDat_s,
          mem, open, busy, rcd, pipe, mem_data_io,    \* the chip
          held        \* the masters: edges they have held their access for

requests == <<ram_req_s, ram_addr_s, ram_din_s, ram_we_n_s>>
routine  == <<SdrRoutine_v, SdrRoutineSeq_v, SdrAddress_v, port_v>>
refresh  == <<refreshDelayCounter_v, SdrRefreshCounter_v>>
pins     == <<SdrCmd_s, SdrAdr_s, SdrMask_s, SdrDat_s>>
chip     == <<mem, open, busy, rcd, pipe, mem_data_io>>
vars     == <<pcs_v, requests, ram_ack_s, ram_dout_s, data_o, routine, refresh,
              pins, chip, held>>

-----------------------------------------------------------------------------
(* The chip.  A row is open from an activate to the read or write with     *)
(* auto-precharge; busy counts the edges for which a closed chip takes no  *)
(* command, rcd those for which an open one takes no read or write.        *)

Rc == 7     \* activate to activate       Rp == 2, Wr == 2, Rcd == 2
Rfc == 7    \* refresh to activate

\* Edges from a command to the next on a closed chip: a read or write goes
\* on into its precharge.
Recovery == [xx |-> 0, pr |-> 2, re |-> Rfc, ms |-> 2, ac |-> Rc, rd |-> 1 + 2, wr |-> 2 + 2]

Sooner(n) == IF n > 0 THEN n - 1 ELSE 0

Later(m, n) == IF m > n THEN m ELSE n

Chip ==
  /\ mem' = IF SdrCmd_s = "wr"
            THEN [mem EXCEPT ![open][SdrAdr_s] =
                    [l \in {0, 1} |-> IF l \in SdrMask_s THEN @[l] ELSE SdrDat_s]]
            ELSE mem
  /\ open' = CASE SdrCmd_s = "ac" -> SdrAdr_s
               [] SdrCmd_s \in {"rd", "wr"} -> NoRow
               [] OTHER -> open
  /\ busy' = Sooner(Later(busy, Recovery[SdrCmd_s]))
  /\ rcd' = IF SdrCmd_s = "ac" THEN 1 ELSE Sooner(rcd)
  /\ pipe' = IF SdrCmd_s = "rd" THEN mem[open][SdrAdr_s] ELSE NoData
  /\ mem_data_io' = pipe            \* CAS latency 2

-----------------------------------------------------------------------------
(* The routines: the number of the last step of each, the command of each  *)
(* step, and the step at which the request is acknowledged.                *)

Routines == {"Init", "RefreshAll", "ReadOne", "WriteOne"}

\* The write routine without its recovery time.
LastStepShort == [Init |-> 23, RefreshAll |-> 6, ReadOne |-> 6, WriteOne |-> 3]

LastStep == [Init |-> 23, RefreshAll |-> 6, ReadOne |-> 6, WriteOne |-> 5]

Command(r, n) ==
  CASE r = "Init" /\ n = 0 -> "pr"
    [] r = "Init" /\ n \in {4, 12} -> "re"
    [] r = "Init" /\ n = 20 -> "ms"
    [] r = "RefreshAll" /\ n = 0 -> "re"
    [] r \in {"ReadOne", "WriteOne"} /\ n = 0 -> "ac"
    [] r = "ReadOne" /\ n = 2 -> "rd"
    [] r = "WriteOne" /\ n = 2 -> "wr"
    [] OTHER -> "xx"

Acks(r, n) == \/ r = "ReadOne" /\ n = 5
              \/ r = "WriteOne" /\ n = 3

\* Both bytes of the word written.
MaskNone(lane) == {}

Mask(lane) == {0, 1} \ {lane}

Pins ==
  LET cmd == Command(SdrRoutine_v, SdrRoutineSeq_v)
  IN  /\ SdrCmd_s' = cmd
      /\ SdrAdr_s' = CASE cmd = "ac" -> SdrAddress_v.row
                       [] cmd \in {"rd", "wr"} -> SdrAddress_v.col
                       [] OTHER -> SdrAdr_s
      /\ SdrMask_s' = CASE cmd = "pr" -> {0, 1}
                        [] cmd = "rd" -> {}
                        [] cmd = "wr" -> Mask(SdrAddress_v.lane)
                        [] OTHER -> SdrMask_s
      /\ SdrDat_s' = CASE cmd = "wr" -> ram_din_s[port_v]
                       [] SdrRoutine_v = "WriteOne" /\ SdrRoutineSeq_v \notin {2, 3} -> SdrDat_s
                       [] OTHER -> NoData

Sampled == IF SdrDat_s # NoData THEN SdrDat_s
           ELSE IF mem_data_io = NoData THEN CHOOSE d \in Data : TRUE    \* not driven
           ELSE mem_data_io[SdrAddress_v.lane]

Acknowledge ==
  LET acks == Acks(SdrRoutine_v, SdrRoutineSeq_v)
  IN  /\ ram_ack_s' = [p \in Ports |-> acks /\ p = port_v]
      /\ ram_dout_s' = IF acks /\ SdrRoutine_v = "ReadOne" THEN Sampled ELSE ram_dout_s

\* The port that is served next: port 1's request goes first.
Chosen == {p \in Ports : /\ ram_req_s[p] /\ ~ram_ack_s[p]
                         /\ p = 2 => ~(ram_req_s[1] /\ ~ram_ack_s[1])}

StartRequest(p) ==
  /\ SdrAddress_v' = ram_addr_s[p]
  /\ SdrRoutine_v' = IF ram_we_n_s[p] THEN "ReadOne" ELSE "WriteOne"
  /\ port_v' = p

\* Where the two counters of the refresh go on from.
Tick(count) ==
  IF refreshDelayCounter_v + 1 >= RfshPeriod
  THEN refreshDelayCounter_v' = 0 /\ SdrRefreshCounter_v' = 0
  ELSE refreshDelayCounter_v' = refreshDelayCounter_v + 1 /\ SdrRefreshCounter_v' = count

Routine(refresh_i) ==
  \/ /\ SdrRoutine_v = "Null"
     /\ SdrRoutine_v' = IF refreshDelayCounter_v = 0 THEN "Init" ELSE "Null"
     /\ Tick(SdrRefreshCounter_v)
     /\ UNCHANGED <<SdrRoutineSeq_v, SdrAddress_v, port_v>>
  \/ /\ SdrRoutine_v = "Idle"
     /\ \E p \in Chosen : StartRequest(p)
     /\ Tick(SdrRefreshCounter_v)
     /\ UNCHANGED SdrRoutineSeq_v
  \/ /\ SdrRoutine_v = "Idle" /\ Chosen = {}
     /\ LET again == SdrRefreshCounter_v < RfshCycles /\ refresh_i
        IN  /\ SdrRoutine_v' = IF again THEN "RefreshAll" ELSE "Idle"
            /\ Tick(IF again THEN SdrRefreshCounter_v + 1 ELSE SdrRefreshCounter_v)
     /\ UNCHANGED <<SdrRoutineSeq_v, SdrAddress_v, port_v>>
  \/ /\ SdrRoutine_v \in Routines
     /\ LET last == SdrRoutineSeq_v = LastStep[SdrRoutine_v]
        IN  /\ SdrRoutineSeq_v' = IF last THEN 0 ELSE SdrRoutineSeq_v + 1
            /\ SdrRoutine_v' = IF last THEN "Idle" ELSE SdrRoutine_v
     /\ Tick(SdrRefreshCounter_v)
     /\ UNCHANGED <<SdrAddress_v, port_v>>

-----------------------------------------------------------------------------
(* The request process.  pcs_v[p] is <<the access line two edges ago, one  *)
(* edge ago>>; '0' (FALSE) is an access.                                   *)

Answered == {p \in Ports : /\ ram_req_s[p] /\ ram_ack_s[p]
                           /\ p = 2 => ~(ram_req_s[1] /\ ram_ack_s[1])}

Fell(p) == pcs_v[p] = <<TRUE, FALSE>>

\* The flag raised again for as long as the access lasts.
DetectedLevel == {p \in Ports : ~pcs_v[p][2] /\ (p = 2 => pcs_v[1][2])}

Detected == {p \in Ports : Fell(p) /\ (p = 2 => ~Fell(1))}

Request(in) ==
  /\ data_o' = [p \in Ports |-> IF p \in Answered /\ ram_we_n_s[p] THEN ram_dout_s
                                ELSE data_o[p]]
  /\ ram_req_s' = [p \in Ports |-> p \in Detected \/ (ram_req_s[p] /\ p \notin Answered)]
  /\ ram_addr_s' = [p \in Ports |-> IF p \in Detected THEN in[p].a ELSE ram_addr_s[p]]
  /\ ram_we_n_s' = [p \in Ports |-> IF p \in Detected THEN ~in[p].we ELSE ram_we_n_s[p]]
  /\ ram_din_s' = [p \in Ports |-> IF p \in Detected /\ in[p].we THEN in[p].d
                                   ELSE ram_din_s[p]]

(* A master keeps an access it has begun for MinHold edges, and begins one *)
(* at any edge after one without, when the chip has been set up, as the    *)
(* reset of the system lasts longer than that.                             *)
MasterMay(p, access) ==
  /\ ~pcs_v[p][2] /\ access => held[p] >= MinHold
  /\ pcs_v[p][2] /\ ~access => SdrRoutine_v \notin {"Null", "Init"}

\* access[p] is port p's access line, in[p] its other inputs.
Clock(access, in, refresh_i) ==
  /\ \A p \in Ports : MasterMay(p, access[p])
  /\ held' = [p \in Ports |-> IF access[p] THEN 0
                              ELSE IF held[p] < MinHold THEN held[p] + 1 ELSE MinHold]
  /\ pcs_v' = [p \in Ports |-> <<pcs_v[p][2], access[p]>>]
  /\ Request(in)
  /\ Pins /\ Acknowledge
  /\ Routine(refresh_i)
  /\ Chip

\* Registers that are written before they are read.
AnyAddr == CHOOSE a \in Addr : TRUE
AnyData == CHOOSE d \in Data : TRUE

Init ==
  /\ pcs_v = [p \in Ports |-> <<TRUE, TRUE>>]
  /\ ram_req_s = [p \in Ports |-> FALSE] /\ ram_ack_s = [p \in Ports |-> FALSE]
  /\ ram_addr_s = [p \in Ports |-> AnyAddr] /\ ram_din_s = [p \in Ports |-> AnyData]
  /\ ram_we_n_s = [p \in Ports |-> TRUE]
  /\ ram_dout_s = AnyData /\ data_o = [p \in Ports |-> AnyData]
  /\ SdrRoutine_v = "Null" /\ SdrRoutineSeq_v = 0
  /\ refreshDelayCounter_v = 0 /\ SdrRefreshCounter_v = 0
  /\ SdrAddress_v = AnyAddr /\ port_v = 1
  /\ SdrCmd_s = "xx" /\ SdrAdr_s = AnyAddr.row /\ SdrMask_s = {} /\ SdrDat_s = NoData
  /\ mem \in [Row -> [Col -> [{0, 1} -> Data]]]
  /\ open = NoRow /\ busy = 0 /\ rcd = 0 /\ pipe = NoData /\ mem_data_io = NoData
  /\ held = [p \in Ports |-> 0]

\* The other inputs of a port are looked at at the edge after its access line
\* fell.
Offered(p) == IF Fell(p) THEN Requests[p] ELSE {CHOOSE r \in Requests[p] : TRUE}

Next == \E access \in [Ports -> BOOLEAN], refresh_i \in RefreshInputs,
           in1 \in Offered(1), in2 \in Offered(2) :
          Clock(access, <<in1, in2>>, refresh_i)

\* The clock does not stop.
Spec == Init /\ [][Next]_vars /\ WF_vars(Next)

-----------------------------------------------------------------------------
(* Every command comes when the chip can take it: activate, refresh and    *)
(* mode set on a closed and recovered chip, read and write on an open row, *)
(* and the read data is taken in the one edge in which it is there.        *)
CommandsInTime ==
  /\ SdrCmd_s \in {"ac", "re", "ms", "pr"} => open = NoRow /\ busy = 0
  /\ SdrCmd_s \in {"rd", "wr"} => open # NoRow /\ rcd = 0
  /\ SdrCmd_s = "wr" => SdrDat_s # NoData
  /\ Acks(SdrRoutine_v, SdrRoutineSeq_v) /\ SdrRoutine_v = "ReadOne" =>
       mem_data_io # NoData
  /\ SdrDat_s # NoData => mem_data_io = NoData

\* Two falling edges in one clock edge: the process sees that of port 1 and
\* that of port 2 does not come again (line 156).
Loses(p) == p = 2 /\ held[1] = held[2]

(* Without a wait line: an access is taken when its falling edge has been  *)
(* there, which is for one edge, and not taken exactly if port 1 has begun *)
(* in the same edge; and what is taken has been answered, behind a refresh *)
(* and the other port, when its master has held it for MinHold edges.      *)
DoneWhenReleased ==
  \A p \in Ports : /\ held[p] = 2 => (ram_req_s[p] <=> ~Loses(p))
                   /\ held[p] = MinHold => ~ram_req_s[p]

Memory == INSTANCE PortMemory WITH
  mem <- [a \in Addr |-> mem[a.row][a.col][a.lane]],
  pending <- [p \in Ports |-> IF ram_req_s[p] /\ ~ram_ack_s[p]
                              THEN [we |-> ~ram_we_n_s[p], a |-> ram_addr_s[p],
                                    d |-> ram_din_s[p]]
                              ELSE NoRequest],
  out <- [p \in Ports |-> IF ram_req_s[p] /\ ram_ack_s[p] /\ ram_we_n_s[p]
                          THEN ram_dout_s ELSE data_o[p]]

(* Both ports together behave as atomic accesses to one memory.            *)
ImplementsMemory == Memory!Spec
=============================================================================
