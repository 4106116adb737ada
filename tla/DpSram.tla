------------------------------- MODULE DpSram -------------------------------
(***************************************************************************)
(* The two-port controller src/ram/dpsram_5128.vhd in front of an 8-bit    *)
(* asynchronous SRAM (dpsram_25616.vhd is the same process with byte       *)
(* lanes): each port latches a request on the falling edge of its      *)
(* access line, state 0 puts one request on the pins, port 0's first, and  *)
(* state 1 takes it off again, looking at the request flags a second time. *)
(*                                                                         *)
(* There is no wait line: a bus master starts an access, holds it for at   *)
(* least MinHold edges and relies on it being done by then.  One step is   *)
(* one rising edge of clock_i with clock_en_i = '1'.                       *)
(***************************************************************************)
EXTENDS Naturals

CONSTANTS Addr, Data,
          NoData,       \* the data pins are not driven by the controller
          NoRequest,    \* for PortMemory
          MinHold       \* the shortest bus cycle of a master, in edges

ASSUME HoldAssumption == MinHold \in Nat \ {0}
ASSUME NoDataAssumption == NoData \notin Data

Ports == {0, 1}

VARIABLES state_v,
          ce_v,       \* ce_v[p]: the access line at the last edge, p0_ce_v(0) ..
          req_v,      \* req_v[p]: p0_req_v, p1_req_v
          we_v, addr_v, data_v,
          sram_addr_o, sram_data_io, sram_we_n_s, sram_oe_n_s,
          port_data_o,
          sram,       \* the chip
          held        \* held[p]: edges the master has held its cycle for

latches == <<req_v, we_v, addr_v, data_v>>
pins    == <<sram_addr_o, sram_data_io, sram_we_n_s, sram_oe_n_s>>
vars    == <<state_v, ce_v, latches, pins, port_data_o, sram, held>>

Access == [we : BOOLEAN, a : Addr, d : Data]

ASSUME NoRequestAssumption == NoRequest \notin Access

-----------------------------------------------------------------------------
(* Which request a state serves: port 0's when it has one, otherwise port  *)
(* 1's, and none without a request.                                        *)

\* Two separate tests in place of the if / elsif chain.
ChosenAny(req) == {p \in Ports : req[p]}

Chosen(req) == {p \in Ports : req[p] /\ (p = 1 => ~req[0])}

\* The finished request that stays latched.
ClearedNone(req) == req

\* Both flags lowered by either branch.
ClearedAll(req) == [p \in Ports |-> FALSE]

Cleared(req) == [p \in Ports |-> req[p] /\ p \notin Chosen(req)]

\* What the pins carry at the next edge.
Bus == IF sram_data_io # NoData THEN sram_data_io ELSE sram[sram_addr_o]

\* The write pulse left on the pins when state 1 is over.
WeAfterStuck == sram_we_n_s

WeAfter == TRUE

Chip == IF sram_we_n_s THEN sram ELSE [sram EXCEPT ![sram_addr_o] = Bus]

-----------------------------------------------------------------------------
(* A master keeps an access it has begun for MinHold edges, and begins one *)
(* at any edge.                                                            *)
MasterMay(p, access) == ~ce_v[p] /\ access => held[p] >= MinHold

Init ==
  /\ state_v = 0
  /\ ce_v = [p \in Ports |-> TRUE]
  /\ req_v = [p \in Ports |-> FALSE]
  /\ we_v = [p \in Ports |-> FALSE]
  /\ addr_v \in [Ports -> Addr] /\ data_v \in [Ports -> Data]
  /\ sram_addr_o \in Addr /\ sram_data_io = NoData
  /\ sram_we_n_s = TRUE /\ sram_oe_n_s = TRUE
  /\ port_data_o \in [Ports -> Data]
  /\ sram \in [Addr -> Data]
  /\ held = [p \in Ports |-> 0]

\* access[p] is port p's access line ('0' is a request), in[p] its other inputs.
Masters(access) ==
  /\ \A p \in Ports : MasterMay(p, access[p])
  /\ held' = [p \in Ports |-> IF access[p] THEN 0
                              ELSE IF held[p] < MinHold THEN held[p] + 1 ELSE MinHold]
  /\ ce_v' = access

(* What the process holds in its variables once it has looked for falling  *)
(* edges.                                                                  *)
New(access) == {p \in Ports : ce_v[p] /\ ~access[p]}
Req(access) == [p \in Ports |-> req_v[p] \/ p \in New(access)]
We(access, in) == [p \in Ports |-> IF p \in New(access) THEN in[p].we ELSE we_v[p]]
AddrOf(access, in) == [p \in Ports |-> IF p \in New(access) THEN in[p].a ELSE addr_v[p]]
DataOf(access, in) ==
  [p \in Ports |-> IF p \in New(access) /\ in[p].we THEN in[p].d ELSE data_v[p]]

Latch(access, in) ==
  /\ we_v' = We(access, in)
  /\ addr_v' = AddrOf(access, in)
  /\ data_v' = DataOf(access, in)
  /\ sram' = Chip

\* Either state, without a request.
Rest(access) ==
  /\ Chosen(Req(access)) = {}
  /\ sram_data_io' = IF state_v = 0 THEN NoData ELSE sram_data_io
  /\ req_v' = Req(access)
  /\ UNCHANGED <<state_v, sram_addr_o, sram_we_n_s, sram_oe_n_s, port_data_o>>

\* State 0: port p's request is put on the pins.
Begin(p, access, in) ==
  /\ state_v = 0
  /\ sram_addr_o' = AddrOf(access, in)[p]
  /\ sram_data_io' = IF We(access, in)[p] THEN DataOf(access, in)[p] ELSE NoData
  /\ sram_we_n_s' = ~We(access, in)[p]
  /\ sram_oe_n_s' = We(access, in)[p]
  /\ state_v' = 1 /\ req_v' = Req(access)
  /\ UNCHANGED port_data_o

\* State 1: it is taken off again, and the data of a read are taken.
Complete(p, access, in) ==
  /\ state_v = 1
  /\ sram_we_n_s' = WeAfter /\ sram_oe_n_s' = TRUE
  /\ sram_data_io' = NoData
  /\ port_data_o' = IF We(access, in)[p] THEN port_data_o
                    ELSE [port_data_o EXCEPT ![p] = Bus]
  /\ state_v' = 0 /\ req_v' = Cleared(Req(access))
  /\ UNCHANGED sram_addr_o

Clock(access, in) ==
  /\ Masters(access)
  /\ Latch(access, in)
  /\ \/ Rest(access)
     \/ \E p \in Chosen(Req(access)) : Begin(p, access, in)
     \/ \E p \in Chosen(Req(access)) : Complete(p, access, in)

Next == \E access \in [Ports -> BOOLEAN], in \in [Ports -> Access] : Clock(access, in)

\* The clock does not stop.
Spec == Init /\ [][Next]_vars /\ WF_vars(Next)

-----------------------------------------------------------------------------
(* The controller and the chip never drive the data pins together, and a   *)
(* write pulse always has data behind it.                                  *)
NoContention ==
  /\ sram_data_io # NoData => sram_oe_n_s
  /\ ~sram_we_n_s => sram_data_io # NoData

(* Without a wait line: when a master has held its cycle for MinHold edges *)
(* its request has been served, also behind one of the other port.         *)
DoneWhenReleased == \A p \in Ports : held[p] = MinHold => ~req_v[p]

(* Port 0 begins an access in the edge in which that of port 1 is taken    *)
(* off the pins: state 1 chooses the port again, and finds port 0's flag   *)
(* (line 147).                                                             *)
Overtakes == state_v = 1 /\ ~req_v[0] /\ ce_v[0] /\ ~ce_v'[0]

Finishes(p) == (req_v[p] \/ (ce_v[p] /\ ~ce_v'[p])) /\ ~req_v'[p]

(* A request is only taken down for the access that was on the pins: the   *)
(* data a port reads is what the SRAM returned for its address (lines 151  *)
(* and 160) and a write has reached its address.  The one exception is an  *)
(* overtaking: it ends port 0's access in the edge in which it begins, and *)
(* never ends port 1's.                                                    *)
ServesOwnRequest ==
  [][/\ \A p \in Ports : Finishes(p) /\ ~(p = 0 /\ Overtakes) =>
          /\ sram_addr_o = addr_v'[p]
          /\ sram_we_n_s = ~we_v'[p]
          /\ we_v'[p] => sram_data_io = data_v'[p]
     /\ Overtakes => Finishes(0) /\ ~Finishes(1)]_vars

Pending == [p \in Ports |-> IF req_v[p]
                            THEN [we |-> we_v[p], a |-> addr_v[p], d |-> data_v[p]]
                            ELSE NoRequest]

Memory == INSTANCE PortMemory WITH
  mem <- sram, pending <- Pending, out <- port_data_o

(* What an overtaking does to the memory: port 0's access is lost, a read  *)
(* returning the byte of port 1's address, and that of port 1 is done and  *)
(* remains to be done.                                                     *)
Overtaken ==
  LET lasting == Pending[1]
  IN  /\ Overtakes
      /\ Pending' = Pending
      /\ sram' = IF lasting.we THEN [sram EXCEPT ![lasting.a] = lasting.d] ELSE sram
      /\ port_data_o' \in {port_data_o, [port_data_o EXCEPT ![0] = sram'[lasting.a]]}

(* Both ports together behave as atomic accesses to one memory, in every   *)
(* step but an overtaking, which repeats an access of port 1 and loses one *)
(* of port 0.                                                              *)
ImplementsMemory ==
  Memory!Init /\ [][Memory!Next \/ Overtaken]_Memory!vars /\ Memory!Live
=============================================================================
