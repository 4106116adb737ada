---------------------------- MODULE DpSdramProofs ----------------------------
(***************************************************************************)
(* Proofs about DpSdram, for every size of the chip, all bus masters, and  *)
(* every refresh setting: the commands keep to the chip's times, requests  *)
(* are answered in time, and the two ports are atomic accesses to one      *)
(* memory.                                                                 *)
(***************************************************************************)
EXTENDS DpSdram, TLAPS

-----------------------------------------------------------------------------
(* What the registers hold.                                                *)
Word == [{0, 1} -> Data]

Types ==
  /\ ram_addr_s \in [Ports -> Addr] /\ ram_din_s \in [Ports -> Data]
  /\ SdrAddress_v \in Addr /\ port_v \in Ports
  /\ mem \in [Row -> [Col -> Word]]

(* Where a routine is, and the command the step before has put out.         *)
Place ==
  /\ SdrRoutine_v \in {"Null", "Idle", "Init", "RefreshAll", "ReadOne", "WriteOne"}
  /\ SdrRoutineSeq_v \in Nat
  /\ SdrRoutine_v \in {"Null", "Idle"} => SdrRoutineSeq_v = 0
  /\ SdrRoutine_v \in Routines => SdrRoutineSeq_v <= LastStep[SdrRoutine_v]
  /\ SdrCmd_s = IF SdrRoutineSeq_v = 0 THEN "xx"
                ELSE Command(SdrRoutine_v, SdrRoutineSeq_v - 1)

(* For how long the chip may still be busy: from the idle state a routine   *)
(* takes two edges to its first command.                                   *)
Atmost(n) == IF n > 0 THEN n ELSE 0

BusyAtMost(r, n) ==
  CASE r = "Null" -> 0
    [] r = "Idle" -> 2
    [] r = "Init" -> (IF n <= 1 THEN 0
                      ELSE IF n <= 5 THEN Atmost(3 - n)
                      ELSE IF n <= 13 THEN Atmost(12 - n)
                      ELSE IF n <= 21 THEN Atmost(20 - n) ELSE 23 - n)
    [] OTHER -> (IF n <= 1 THEN 1 - n ELSE 8 - n)

Recovers == busy \in Nat /\ busy <= BusyAtMost(SdrRoutine_v, SdrRoutineSeq_v)

Accessing == SdrRoutine_v \in {"ReadOne", "WriteOne"}

At(r, n) == SdrRoutine_v = r /\ SdrRoutineSeq_v = n

Accesses(n) == At("ReadOne", n) \/ At("WriteOne", n)

(* A row is open while the read or write to it is on its way.               *)
RowOpen ==
  /\ Accesses(1) => SdrAdr_s \in Row
  /\ Accesses(3) => SdrAdr_s \in Col
  /\ IF Accesses(2) \/ Accesses(3) THEN open \in Row ELSE open = NoRow
  /\ Accesses(2) => rcd = 1
  /\ Accesses(3) => rcd = 0

(* The data of a read go through the chip, those of a write to it.          *)
DataPath ==
  /\ IF At("ReadOne", 4) THEN pipe # NoData ELSE pipe = NoData
  /\ IF At("ReadOne", 5) THEN mem_data_io # NoData ELSE mem_data_io = NoData
  /\ IF At("WriteOne", 3) THEN SdrDat_s \in Data ELSE SdrDat_s = NoData

TimingInv == Types /\ Place /\ Recovers /\ RowOpen /\ DataPath

-----------------------------------------------------------------------------
(* The step of a routine that comes next.                                   *)
LEMMA Moves ==
  ASSUME Place, Next
  PROVE  \/ /\ SdrRoutine_v = "Null" /\ SdrRoutine_v' \in {"Null", "Init"}
            /\ SdrRoutineSeq_v' = 0
         \/ /\ SdrRoutine_v = "Idle"
            /\ SdrRoutine_v' \in {"Idle", "RefreshAll", "ReadOne", "WriteOne"}
            /\ SdrRoutineSeq_v' = 0
         \/ /\ SdrRoutine_v \in Routines
            /\ SdrRoutineSeq_v = LastStep[SdrRoutine_v]
            /\ SdrRoutine_v' = "Idle" /\ SdrRoutineSeq_v' = 0
         \/ /\ SdrRoutine_v \in Routines
            /\ SdrRoutineSeq_v < LastStep[SdrRoutine_v]
            /\ SdrRoutine_v' = SdrRoutine_v
            /\ SdrRoutineSeq_v' = SdrRoutineSeq_v + 1
<1>1. PICK refresh_i \in RefreshInputs : Routine(refresh_i)
  BY DEF Next, Clock
<1>2. SdrRoutine_v \in Routines => SdrRoutineSeq_v <= LastStep[SdrRoutine_v]
                                   /\ LastStep[SdrRoutine_v] \in Nat
  BY DEF Place, Routines, LastStep
<1>3. CASE SdrRoutine_v = "Null"
  BY <1>1, <1>3 DEF Place, Routine, Routines
<1>4. CASE SdrRoutine_v = "Idle"
  BY <1>1, <1>4 DEF Place, Routine, Routines, StartRequest
<1>5. CASE SdrRoutine_v \in Routines
  BY <1>1, <1>2, <1>5 DEF Place, Routine, Routines
<1> QED
  BY <1>3, <1>4, <1>5 DEF Place, Routines

(* What the step before has put out.                                        *)
LEMMA CommandOut ==
  ASSUME Place
  PROVE  /\ SdrCmd_s = "pr" <=> At("Init", 1)
         /\ SdrCmd_s = "re" <=> At("Init", 5) \/ At("Init", 13) \/ At("RefreshAll", 1)
         /\ SdrCmd_s = "ms" <=> At("Init", 21)
         /\ SdrCmd_s = "ac" <=> Accesses(1)
         /\ SdrCmd_s = "rd" <=> At("ReadOne", 3)
         /\ SdrCmd_s = "wr" <=> At("WriteOne", 3)
         /\ SdrCmd_s \in {"xx", "pr", "re", "ms", "ac", "rd", "wr"}
<1>1. CASE SdrRoutineSeq_v = 0
  BY <1>1 DEF Place, At, Accesses
<1>2. CASE SdrRoutineSeq_v # 0
  <2>1. /\ SdrCmd_s = Command(SdrRoutine_v, SdrRoutineSeq_v - 1)
        /\ SdrRoutine_v \in Routines /\ SdrRoutineSeq_v \in Nat
    BY <1>2 DEF Place, Routines
  <2> QED
    BY <1>2, <2>1 DEF Command, At, Accesses, Routines
<1> QED
  BY <1>1, <1>2

LEMMA PlaceStep ==
  ASSUME Place, Next
  PROVE  Place'
<1>1. SdrCmd_s' = Command(SdrRoutine_v, SdrRoutineSeq_v)
  BY DEF Next, Clock, Pins
<1>2. SdrRoutine_v \in {"Null", "Idle"} => SdrCmd_s' = "xx"
  BY <1>1 DEF Command
<1>3. SdrRoutine_v \in Routines /\ SdrRoutineSeq_v = LastStep[SdrRoutine_v] => SdrCmd_s' = "xx"
  BY <1>1 DEF Command, Routines, LastStep
<1>4. SdrRoutineSeq_v' = SdrRoutineSeq_v + 1 => SdrRoutineSeq_v' - 1 = SdrRoutineSeq_v
  BY DEF Place
<1> QED
  BY <1>1, <1>2, <1>3, <1>4, Moves DEF Place, Routines, LastStep

LEMMA RecoversStep ==
  ASSUME Place, Recovers, Next
  PROVE  Recovers'
<1>1. busy' = Sooner(Later(busy, Recovery[SdrCmd_s]))
  BY DEF Next, Clock, Chip
<1>2. Recovery[SdrCmd_s] = CASE SdrCmd_s \in {"re", "ac"} -> 7
                             [] SdrCmd_s \in {"pr", "ms"} -> 2
                             [] SdrCmd_s = "rd" -> 3
                             [] SdrCmd_s = "wr" -> 4
                             [] OTHER -> 0
  BY CommandOut DEF Recovery, Rc, Rfc
<1>3. busy \in Nat /\ busy <= BusyAtMost(SdrRoutine_v, SdrRoutineSeq_v)
  BY DEF Recovers
<1>4. SdrRoutineSeq_v \in Nat
  BY DEF Place
<1>5. CASE SdrRoutine_v \in {"Null", "Idle"}
  <2>1. Recovery[SdrCmd_s] = 0 /\ SdrRoutineSeq_v = 0 /\ SdrRoutineSeq_v' = 0
    BY <1>2, <1>5, CommandOut, Moves DEF At, Accesses, Place, Routines
  <2>2. CASE SdrRoutine_v = "Null"
    BY <1>1, <1>3, <2>1, <2>2, Moves DEF Recovers, BusyAtMost, Sooner, Later, Routines
  <2>3. CASE SdrRoutine_v = "Idle"
    BY <1>1, <1>3, <2>1, <2>3, Moves DEF Recovers, BusyAtMost, Sooner, Later, Routines
  <2> QED
    BY <1>5, <2>2, <2>3
<1>6. CASE SdrRoutine_v = "Init"
  <2>1. Recovery[SdrCmd_s] = CASE SdrRoutineSeq_v \in {5, 13} -> 7
                               [] SdrRoutineSeq_v \in {1, 21} -> 2
                               [] OTHER -> 0
    BY <1>2, <1>6, CommandOut DEF At, Accesses
  <2>2. \/ SdrRoutineSeq_v = 23 /\ SdrRoutine_v' = "Idle" /\ SdrRoutineSeq_v' = 0
        \/ /\ SdrRoutineSeq_v < 23
           /\ SdrRoutine_v' = "Init" /\ SdrRoutineSeq_v' = SdrRoutineSeq_v + 1
    BY <1>6, Moves DEF Routines, LastStep
  <2> QED
    BY <1>1, <1>3, <1>4, <1>6, <2>1, <2>2
    DEF Recovers, BusyAtMost, Atmost, Sooner, Later
<1>7. CASE SdrRoutine_v \in {"RefreshAll", "ReadOne", "WriteOne"}
  <2>1. /\ Recovery[SdrCmd_s] \in 0 .. 7
        /\ SdrRoutineSeq_v # 1 => Recovery[SdrCmd_s] <= 4
        /\ SdrRoutineSeq_v \notin {1, 3} => Recovery[SdrCmd_s] = 0
    BY <1>2, <1>7, CommandOut DEF At, Accesses
  <2>2. \/ /\ SdrRoutineSeq_v \in {5, 6}
           /\ SdrRoutine_v' = "Idle" /\ SdrRoutineSeq_v' = 0
        \/ /\ SdrRoutineSeq_v <= 5 /\ SdrRoutine_v' = SdrRoutine_v
           /\ SdrRoutineSeq_v' = SdrRoutineSeq_v + 1
    BY <1>4, <1>7, Moves DEF Routines, LastStep
  <2>3. busy <= IF SdrRoutineSeq_v <= 1 THEN 1 - SdrRoutineSeq_v ELSE 8 - SdrRoutineSeq_v
    BY <1>3, <1>7 DEF BusyAtMost
  <2>4. /\ busy' \in Nat
        /\ busy' <= IF SdrRoutineSeq_v = 0 THEN 0 ELSE 7 - SdrRoutineSeq_v
    BY <1>1, <1>3, <1>4, <2>1, <2>2, <2>3 DEF Sooner, Later
  <2> QED
    BY <1>4, <1>7, <2>2, <2>4 DEF Recovers, BusyAtMost
<1> QED
  BY <1>5, <1>6, <1>7 DEF Place

LEMMA TypesStep ==
  ASSUME TimingInv, Next
  PROVE  Types'
<1>1. PICK access \in [Ports -> BOOLEAN], refresh_i \in RefreshInputs,
           in1 \in Offered(1), in2 \in Offered(2) :
        Clock(access, <<in1, in2>>, refresh_i)
  BY DEF Next
<1>2. ASSUME NEW p \in Detected
      PROVE  <<in1, in2>>[p] \in [we : BOOLEAN, a : Addr, d : Data]
  BY <1>1, <1>2, RequestsAssumption DEF Detected, Offered, Ports
<1>3. ram_addr_s' \in [Ports -> Addr] /\ ram_din_s' \in [Ports -> Data]
  BY <1>1, <1>2 DEF TimingInv, Types, Clock, Request
<1>4. SdrAddress_v' \in Addr /\ port_v' \in Ports
  BY <1>1 DEF TimingInv, Types, Clock, Routine, StartRequest, Chosen
<1>5. mem' \in [Row -> [Col -> Word]]
  <2>1. CASE SdrCmd_s = "wr"
    <3>1. open \in Row /\ SdrAdr_s \in Col /\ SdrDat_s \in Data
      BY <2>1, CommandOut DEF TimingInv, RowOpen, DataPath, Accesses
    <3>2. mem \in [Row -> [Col -> Word]]
      BY DEF TimingInv, Types
    <3> DEFINE old == mem[open][SdrAdr_s]
               new == [l \in {0, 1} |-> IF l \in SdrMask_s THEN old[l] ELSE SdrDat_s]
    <3>3. new \in Word
      BY <3>1, <3>2 DEF Word
    <3>4. mem' = [mem EXCEPT ![open] = [mem[open] EXCEPT ![SdrAdr_s] = new]]
      BY <1>1, <2>1 DEF Clock, Chip
    <3> HIDE DEF new
    <3> QED
      BY <3>1, <3>2, <3>3, <3>4
  <2>2. CASE SdrCmd_s # "wr"
    BY <1>1, <2>2 DEF Clock, Chip, TimingInv, Types
  <2> QED
    BY <2>1, <2>2
<1> QED
  BY <1>3, <1>4, <1>5 DEF Types

(* Where the routine is after the step: at its next step, or at none of     *)
(* those of an access.                                                      *)
LEMMA Places ==
  ASSUME Place, Next, NEW r \in {"ReadOne", "WriteOne"}, NEW n \in 1 .. 5
  PROVE  At(r, n)' => At(r, n - 1)
<1>1. CASE SdrRoutine_v \in Routines /\ SdrRoutineSeq_v' = SdrRoutineSeq_v + 1
  BY <1>1, Moves DEF At, Place
<1>2. CASE SdrRoutineSeq_v' = 0
  BY <1>2 DEF At
<1> QED
  BY <1>1, <1>2, Moves

LEMMA NextPlaces ==
  ASSUME Place, Next, NEW r \in {"ReadOne", "WriteOne"}, NEW n \in 0 .. 4, At(r, n)
  PROVE  At(r, n + 1)'
  BY Moves DEF At, Place, Routines, LastStep

LEMMA RowOpenStep ==
  ASSUME TimingInv, Next
  PROVE  RowOpen'
<1>1. PICK access \in [Ports -> BOOLEAN], refresh_i \in RefreshInputs,
           in1 \in Offered(1), in2 \in Offered(2) :
        Clock(access, <<in1, in2>>, refresh_i)
  BY DEF Next
<1>2. /\ open' = CASE SdrCmd_s = "ac" -> SdrAdr_s
                   [] SdrCmd_s \in {"rd", "wr"} -> NoRow
                   [] OTHER -> open
      /\ rcd' = IF SdrCmd_s = "ac" THEN 1 ELSE Sooner(rcd)
  BY <1>1 DEF Clock, Chip
<1>3. /\ Place /\ SdrRoutineSeq_v \in Nat
      /\ SdrAddress_v.row \in Row /\ SdrAddress_v.col \in Col
  BY DEF TimingInv, Types, Place, Addr
<1>4. Accesses(1)' => SdrAdr_s' \in Row
  <2>1. Accesses(1)' => Accesses(0)
    BY <1>3, Places DEF Accesses
  <2> QED
    BY <1>1, <1>3, <2>1 DEF Clock, Pins, Command, Accesses, At
<1>5. Accesses(3)' => SdrAdr_s' \in Col
  <2>1. Accesses(3)' => Accesses(2)
    BY <1>3, Places DEF Accesses
  <2> QED
    BY <1>1, <1>3, <2>1 DEF Clock, Pins, Command, Accesses, At
<1>6. Accesses(2)' <=> Accesses(1)
  BY <1>3, Places, NextPlaces DEF Accesses
<1>7. Accesses(3)' <=> Accesses(2)
  BY <1>3, Places, NextPlaces DEF Accesses
<1>8. /\ SdrCmd_s = "ac" <=> Accesses(1)
      /\ SdrCmd_s \in {"rd", "wr"} <=> Accesses(3)
  BY <1>3, CommandOut DEF Accesses
<1>9. ~(Accesses(1) /\ Accesses(2)) /\ ~(Accesses(1) /\ Accesses(3)) /\ ~(Accesses(2) /\ Accesses(3))
  BY DEF Accesses, At
<1>10. IF Accesses(2)' \/ Accesses(3)' THEN open' \in Row ELSE open' = NoRow
  <2>1. CASE Accesses(1)
    BY <1>2, <1>6, <1>8, <2>1 DEF TimingInv, RowOpen
  <2>2. CASE Accesses(2)
    BY <1>2, <1>7, <1>8, <1>9, <2>2 DEF TimingInv, RowOpen
  <2>3. CASE Accesses(3)
    BY <1>2, <1>6, <1>7, <1>8, <1>9, <2>3
  <2>4. CASE ~Accesses(1) /\ ~Accesses(2) /\ ~Accesses(3)
    BY <1>2, <1>6, <1>7, <1>8, <2>4 DEF TimingInv, RowOpen
  <2> QED
    BY <2>1, <2>2, <2>3, <2>4
<1>11. (Accesses(2)' => rcd' = 1) /\ (Accesses(3)' => rcd' = 0)
  BY <1>2, <1>6, <1>7, <1>8, <1>9 DEF TimingInv, RowOpen, Sooner
<1> QED
  BY <1>4, <1>5, <1>10, <1>11 DEF RowOpen

LEMMA DataPathStep ==
  ASSUME TimingInv, Next
  PROVE  DataPath'
<1>1. PICK access \in [Ports -> BOOLEAN], refresh_i \in RefreshInputs,
           in1 \in Offered(1), in2 \in Offered(2) :
        Clock(access, <<in1, in2>>, refresh_i)
  BY DEF Next
<1>2. Place /\ SdrRoutineSeq_v \in Nat
  BY DEF TimingInv, Place
<1>3. /\ At("ReadOne", 4)' <=> At("ReadOne", 3)
      /\ At("ReadOne", 5)' <=> At("ReadOne", 4)
      /\ At("WriteOne", 3)' <=> At("WriteOne", 2)
  BY <1>2, Places, NextPlaces
<1>4. IF At("ReadOne", 4)' THEN pipe' # NoData ELSE pipe' = NoData
  <2>1. SdrCmd_s = "rd" <=> At("ReadOne", 3)
    BY <1>2, CommandOut
  <2>2. CASE SdrCmd_s = "rd"
    <3>1. mem[open][SdrAdr_s] \in Word
      BY <2>1, <2>2 DEF TimingInv, Types, RowOpen, Accesses
    <3>2. pipe' \in Word
      BY <1>1, <2>2, <3>1 DEF Clock, Chip
    <3> QED
      BY <1>3, <2>1, <2>2, <3>2, NoneAssumption DEF Word
  <2>3. CASE SdrCmd_s # "rd"
    BY <1>1, <1>3, <2>1, <2>3 DEF Clock, Chip
  <2> QED
    BY <2>2, <2>3
<1>5. IF At("ReadOne", 5)' THEN mem_data_io' # NoData ELSE mem_data_io' = NoData
  BY <1>1, <1>3 DEF TimingInv, DataPath, Clock, Chip
<1>6. IF At("WriteOne", 3)' THEN SdrDat_s' \in Data ELSE SdrDat_s' = NoData
  <2>1. CASE At("WriteOne", 2)
    <3>1. ram_din_s[port_v] \in Data
      BY DEF TimingInv, Types
    <3>2. Command(SdrRoutine_v, SdrRoutineSeq_v) = "wr"
      BY <2>1 DEF Command, At
    <3>3. SdrDat_s' = ram_din_s[port_v]
      BY <1>1, <2>1, <3>2 DEF Clock, Pins, At
    <3> QED
      BY <1>3, <2>1, <3>1, <3>3
  <2>2. CASE ~At("WriteOne", 2)
    <3>1. Command(SdrRoutine_v, SdrRoutineSeq_v) # "wr"
      BY <2>2 DEF Command, At
    <3>2. SdrDat_s' = NoData
      <4>1. CASE At("WriteOne", 3)
        BY <1>1, <3>1, <4>1 DEF Clock, Pins, At
      <4>2. CASE ~At("WriteOne", 3)
        BY <1>1, <3>1, <4>2 DEF Clock, Pins, TimingInv, DataPath
      <4> QED
        BY <4>1, <4>2
    <3> QED
      BY <1>3, <2>2, <3>2
  <2> QED
    BY <2>1, <2>2
<1> QED
  BY <1>4, <1>5, <1>6 DEF DataPath

LEMMA TimingInit == Init => TimingInv
<1> SUFFICES ASSUME Init PROVE TimingInv
  OBVIOUS
<1>1. AnyAddr \in Addr /\ AnyData \in Data
  <2>1. (\E a \in Addr : TRUE) /\ (\E d \in Data : TRUE)
    <3>1. PICK r \in Row, c \in Col, d \in Data : TRUE
      BY SizeAssumption
    <3>2. [row |-> r, col |-> c, lane |-> 0] \in Addr
      BY DEF Addr
    <3> QED
      BY <3>2
  <2> QED
    BY <2>1 DEF AnyAddr, AnyData
<1>2. Types
  BY <1>1 DEF Init, Types, Ports, Word
<1>3. Place /\ Recovers /\ RowOpen /\ DataPath
  BY DEF Init, Place, Recovers, RowOpen, DataPath, Routines, BusyAtMost, At, Accesses
<1> QED
  BY <1>2, <1>3 DEF TimingInv

LEMMA TimingStep == TimingInv /\ [Next]_vars => TimingInv'
<1> SUFFICES ASSUME TimingInv, [Next]_vars PROVE TimingInv'
  OBVIOUS
<1>1. CASE Next
  BY <1>1, TypesStep, PlaceStep, RecoversStep, RowOpenStep, DataPathStep DEF TimingInv
<1>2. CASE UNCHANGED vars
  BY <1>2 DEF vars, requests, routine, pins, chip, TimingInv, Types, Place, Recovers,
              RowOpen, DataPath, At, Accesses
<1> QED
  BY <1>1, <1>2

(* Every command comes when the chip can take it and the data meet it at    *)
(* the edge they are there: whatever the size of the chip, the masters and  *)
(* the refreshes between the accesses.                                      *)
THEOREM CommandsOnTime == Spec => []CommandsInTime
<1>1. TimingInv => CommandsInTime
  <2> SUFFICES ASSUME TimingInv PROVE CommandsInTime
    OBVIOUS
  <2>1. Place
    BY DEF TimingInv
  <2>2. ASSUME SdrCmd_s \in {"ac", "re", "ms", "pr"} PROVE open = NoRow /\ busy = 0
    <3>1. \/ Accesses(1) \/ At("RefreshAll", 1)
          \/ At("Init", 1) \/ At("Init", 5) \/ At("Init", 13) \/ At("Init", 21)
      BY <2>1, <2>2, CommandOut
    <3>2. ~Accesses(2) /\ ~Accesses(3)
      BY <3>1 DEF At, Accesses
    <3>3. BusyAtMost(SdrRoutine_v, SdrRoutineSeq_v) = 0
      BY <3>1 DEF At, Accesses, BusyAtMost, Atmost
    <3> QED
      BY <3>2, <3>3 DEF TimingInv, RowOpen, Recovers
  <2>3. ASSUME SdrCmd_s \in {"rd", "wr"} PROVE open # NoRow /\ rcd = 0
    BY <2>1, <2>3, CommandOut, NoneAssumption DEF Accesses, TimingInv, RowOpen
  <2>4. SdrCmd_s = "wr" => SdrDat_s # NoData
    BY <2>1, CommandOut, NoneAssumption DEF TimingInv, DataPath
  <2>5. /\ Acks(SdrRoutine_v, SdrRoutineSeq_v) /\ SdrRoutine_v = "ReadOne" => mem_data_io # NoData
        /\ SdrDat_s # NoData => mem_data_io = NoData
    BY DEF TimingInv, DataPath, Acks, At
  <2> QED
    BY <2>2, <2>3, <2>4, <2>5 DEF CommandsInTime
<1> QED
  BY <1>1, TimingInit, TimingStep, PTL DEF Spec

-----------------------------------------------------------------------------
(* In time.  The access line and the edges the master has held it for; a    *)
(* request lies within one bus cycle.                                       *)
Lines ==
  /\ held \in [Ports -> 0 .. MinHold]
  /\ pcs_v \in [Ports -> BOOLEAN \X BOOLEAN]
  /\ ram_req_s \in [Ports -> BOOLEAN] /\ ram_ack_s \in [Ports -> BOOLEAN]
  /\ \A p \in Ports : /\ (held[p] = 0) <=> (pcs_v[p][2] = TRUE)
                      /\ (held[p] = 1) <=> (pcs_v[p] = <<TRUE, FALSE>>)
                      /\ ram_req_s[p] = TRUE => held[p] >= 2
  /\ SdrRoutine_v \in {"Null", "Init"} => \A p \in Ports : held[p] = 0

Serving(p) == Accessing /\ port_v = p

(* The step at which the request is acknowledged, and the first edge of a   *)
(* bus cycle at which the routine can begin: port 1 waits for one routine,  *)
(* port 2 for one and for port 1's.                                         *)
Answers == IF SdrRoutine_v = "ReadOne" THEN 6 ELSE 4

First(p) == IF p = 1 THEN 10 ELSE 18

Serves ==
  /\ port_v \in Ports
  /\ \A p \in Ports :
       /\ (ram_ack_s[p] = TRUE) <=> (Serving(p) /\ SdrRoutineSeq_v = Answers)
       /\ Serving(p) => /\ held[p] >= 2 /\ held[p] <= First(p) + SdrRoutineSeq_v
                        /\ (ram_req_s[p] = TRUE) <=> (SdrRoutineSeq_v <= Answers)

(* Edges until the routine is idle, at most.                                *)
ToIdle == IF SdrRoutine_v = "Idle" THEN 0 ELSE 7 - SdrRoutineSeq_v

\* Port 1 cannot come first any more.
Next2 == Serving(1) \/ (SdrRoutine_v = "Idle" /\ ram_req_s[1] = FALSE)

Waits ==
  /\ ram_req_s[1] = TRUE /\ ~Serving(1) => held[1] + ToIdle <= 9
  /\ ram_req_s[2] = TRUE /\ ~Serving(2) =>
       held[2] + ToIdle <= IF Next2 THEN 17 ELSE 9

TimeInv == Place /\ Lines /\ Serves /\ Waits

(* What an edge does to a port's access line.                               *)
LEMMA LineStep ==
  ASSUME TimeInv, MinHold >= 25, Next, NEW p \in Ports
  PROVE  /\ held'[p] \in 0 .. MinHold
         /\ pcs_v'[p] \in BOOLEAN \X BOOLEAN
         /\ (held'[p] = 0) <=> (pcs_v'[p][2] = TRUE)
         /\ (held'[p] = 1) <=> (pcs_v'[p] = <<TRUE, FALSE>>)
         /\ held[p] \in 1 .. 24 => held'[p] = held[p] + 1
         /\ held[p] = 0 => held'[p] \in {0, 1}
         /\ held[p] = 0 /\ SdrRoutine_v \in {"Null", "Init"} => held'[p] = 0
<1>1. PICK access \in [Ports -> BOOLEAN], refresh_i \in RefreshInputs,
           in1 \in Offered(1), in2 \in Offered(2) :
        Clock(access, <<in1, in2>>, refresh_i)
  BY DEF Next
<1> DEFINE a == access[p]
           l == pcs_v[p][2]
           h == held[p]
<1>2. a \in BOOLEAN /\ l \in BOOLEAN /\ h \in Nat /\ h <= MinHold /\ MinHold \in Nat
  BY HoldAssumption DEF TimeInv, Lines
<1>3. (h = 0) <=> (l = TRUE)
  BY DEF TimeInv, Lines
<1>4. held'[p] = IF a THEN 0 ELSE IF h < MinHold THEN h + 1 ELSE MinHold
  BY <1>1 DEF Clock
<1>5. pcs_v'[p] = << l, a >>
  BY <1>1 DEF Clock
<1>6. /\ ~l /\ a => h >= MinHold
      /\ l /\ ~a => SdrRoutine_v \notin {"Null", "Init"}
  BY <1>1 DEF Clock, MasterMay
<1> HIDE DEF a, l, h
<1>7. /\ held'[p] \in 0 .. MinHold
      /\ (held'[p] = 0) <=> (a = TRUE)
      /\ (held'[p] = 1) <=> (l = TRUE /\ a = FALSE)
      /\ h \in 1 .. 24 => held'[p] = h + 1
      /\ h = 0 => held'[p] \in {0, 1}
      /\ h = 0 /\ SdrRoutine_v \in {"Null", "Init"} => held'[p] = 0
  BY <1>2, <1>3, <1>4, <1>6
<1>8. /\ pcs_v'[p] \in BOOLEAN \X BOOLEAN
      /\ (pcs_v'[p][2] = TRUE) <=> (a = TRUE)
      /\ (pcs_v'[p] = <<TRUE, FALSE>>) <=> (l = TRUE /\ a = FALSE)
  <2>1. << l, a >> \in BOOLEAN \X BOOLEAN
    BY <1>2
  <2>2. << l, a >>[2] = a
    OBVIOUS
  <2>3. (<< l, a >> = <<TRUE, FALSE>>) <=> (l = TRUE /\ a = FALSE)
    BY <1>2
  <2> QED
    BY <1>5, <2>1, <2>2, <2>3
<1> QED
  BY <1>7, <1>8 DEF h

(* No two ports are acknowledged at once, so each answer is taken.          *)
LEMMA AnsweredPorts ==
  ASSUME Lines, Serves, NEW p \in Ports
  PROVE  p \in Answered <=> (ram_req_s[p] = TRUE /\ ram_ack_s[p] = TRUE)
<1>1. ram_req_s[p] \in BOOLEAN /\ ram_ack_s[p] \in BOOLEAN
  BY DEF Lines
<1>2. ~(ram_ack_s[1] = TRUE /\ ram_ack_s[2] = TRUE)
  BY DEF Serves, Serving, Ports
<1>3. ram_ack_s[1] \in BOOLEAN /\ ram_ack_s[2] \in BOOLEAN
  BY DEF Lines, Ports
<1>4. CASE p = 1
  BY <1>1, <1>2, <1>3, <1>4 DEF Answered, Ports
<1>5. CASE p = 2
  BY <1>1, <1>2, <1>3, <1>5 DEF Answered, Ports
<1> QED
  BY <1>4, <1>5 DEF Ports

(* What an edge does to a port's request: it is raised at the edge after    *)
(* the line fell and lowered at the edge after it was acknowledged.         *)
LEMMA RequestStep ==
  ASSUME TimeInv, MinHold >= 25, Next, NEW p \in Ports
  PROVE  /\ ram_req_s'[p] \in BOOLEAN
         /\ held[p] >= 2 =>
              ((ram_req_s'[p] = TRUE) <=> (ram_req_s[p] = TRUE /\ ram_ack_s[p] = FALSE))
         /\ held[p] = 0 => ram_req_s'[p] = FALSE
<1>1. ram_req_s'[p] = (p \in Detected \/ (ram_req_s[p] /\ p \notin Answered))
  BY DEF Next, Clock, Request
<1>2. ram_req_s[p] \in BOOLEAN /\ ram_ack_s[p] \in BOOLEAN /\ held[p] \in Nat
  BY HoldAssumption DEF TimeInv, Lines
<1>3. /\ ram_req_s[p] = TRUE => held[p] >= 2
      /\ (held[p] = 1) <=> Fell(p)
  BY DEF TimeInv, Lines, Fell
<1>4. p \in Answered <=> (ram_req_s[p] = TRUE /\ ram_ack_s[p] = TRUE)
  BY AnsweredPorts DEF TimeInv
<1>5. p \in Detected => held[p] = 1
  BY <1>3 DEF Detected
<1>6. (ram_req_s'[p] = TRUE) <=> (p \in Detected \/ (ram_req_s[p] = TRUE /\ p \notin Answered))
  BY <1>1, <1>2
<1>7. ram_req_s'[p] \in BOOLEAN
  BY <1>1
<1> QED
  BY <1>2, <1>3, <1>4, <1>5, <1>6, <1>7

(* What an edge does to the routine, and which port it takes up.            *)
LEMMA RoutineStep ==
  ASSUME TimeInv, Next
  PROVE  \/ SdrRoutine_v \in {"Null", "Init"}
         \/ /\ SdrRoutine_v = "Idle" /\ SdrRoutine_v' \in {"Idle", "RefreshAll"}
            /\ SdrRoutineSeq_v' = 0 /\ port_v' = port_v
            /\ ram_req_s[1] = FALSE /\ ram_req_s[2] = FALSE
         \/ /\ SdrRoutine_v = "Idle" /\ SdrRoutine_v' \in {"ReadOne", "WriteOne"}
            /\ SdrRoutineSeq_v' = 0 /\ port_v' \in Ports
            /\ ram_req_s[port_v'] = TRUE
            /\ port_v' = 2 => ram_req_s[1] = FALSE
         \/ /\ SdrRoutine_v \in {"RefreshAll", "ReadOne", "WriteOne"}
            /\ SdrRoutineSeq_v = LastStep[SdrRoutine_v]
            /\ SdrRoutine_v' = "Idle" /\ SdrRoutineSeq_v' = 0 /\ port_v' = port_v
         \/ /\ SdrRoutine_v \in {"RefreshAll", "ReadOne", "WriteOne"}
            /\ SdrRoutineSeq_v < LastStep[SdrRoutine_v]
            /\ SdrRoutine_v' = SdrRoutine_v /\ SdrRoutineSeq_v' = SdrRoutineSeq_v + 1
            /\ port_v' = port_v
<1>1. PICK refresh_i \in RefreshInputs : Routine(refresh_i)
  BY DEF Next, Clock
<1>2. CASE SdrRoutine_v = "Idle"
  <2>1. /\ ram_ack_s[1] = FALSE /\ ram_ack_s[2] = FALSE
        /\ ram_req_s[1] \in BOOLEAN /\ ram_req_s[2] \in BOOLEAN
        /\ SdrRoutineSeq_v = 0
    BY <1>2 DEF TimeInv, Lines, Serves, Serving, Accessing, Ports, Place
  <2>2. CASE Chosen = {}
    <3>1. ram_req_s[1] = FALSE
      <4>1. 1 \notin Chosen
        BY <2>2
      <4> QED
        BY <2>1, <4>1 DEF Chosen, Ports
    <3>2. ram_req_s[2] = FALSE
      <4>1. 2 \notin Chosen
        BY <2>2
      <4> QED
        BY <2>1, <3>1, <4>1 DEF Chosen, Ports
    <3> QED
      BY <1>1, <1>2, <2>1, <2>2, <3>1, <3>2 DEF Routine, Routines
  <2>3. CASE Chosen # {}
    <3>1. PICK q \in Chosen : StartRequest(q) /\ SdrRoutineSeq_v' = SdrRoutineSeq_v
      BY <1>1, <1>2, <2>3 DEF Routine, Routines
    <3>2. /\ q \in Ports /\ ram_req_s[q] = TRUE
          /\ q = 2 => ram_req_s[1] = FALSE
      BY <2>1 DEF Chosen, Ports
    <3> QED
      BY <1>2, <2>1, <3>1, <3>2 DEF StartRequest
  <2> QED
    BY <2>2, <2>3
<1>3. CASE SdrRoutine_v \in {"RefreshAll", "ReadOne", "WriteOne"}
  BY <1>1, <1>3, Moves DEF Routine, Routines, TimeInv
<1> QED
  BY <1>2, <1>3 DEF TimeInv, Place

(* Which request an edge acknowledges.                                      *)
LEMMA AckStep ==
  ASSUME Next, NEW p \in Ports
  PROVE  (ram_ack_s'[p] = TRUE) <=> (Acks(SdrRoutine_v, SdrRoutineSeq_v) /\ p = port_v)
<1>1. ram_ack_s'[p] = (Acks(SdrRoutine_v, SdrRoutineSeq_v) /\ p = port_v)
  BY DEF Next, Clock, Acknowledge
<1> QED
  BY <1>1 DEF Acks

LEMMA AckType ==
  ASSUME Next
  PROVE  ram_ack_s' \in [Ports -> BOOLEAN]
<1>1. ram_ack_s' = [p \in Ports |-> Acks(SdrRoutine_v, SdrRoutineSeq_v) /\ p = port_v]
  BY DEF Next, Clock, Acknowledge
<1>2. Acks(SdrRoutine_v, SdrRoutineSeq_v) \in BOOLEAN
  BY DEF Acks
<1> QED
  BY <1>1, <1>2

(* Until the chip is set up no port is served.                              *)
LEMMA NullStep ==
  ASSUME Next, SdrRoutine_v \in {"Null", "Init"}
  PROVE  SdrRoutine_v' \in {"Null", "Init", "Idle"} /\ port_v' = port_v
<1>1. PICK refresh_i \in RefreshInputs : Routine(refresh_i)
  BY DEF Next, Clock
<1> QED
  BY <1>1 DEF Routine, Routines

LEMMA PortTypes ==
  ASSUME Lines, NEW p \in Ports
  PROVE  /\ held[p] \in Nat /\ held[p] <= MinHold
         /\ ram_req_s[p] \in BOOLEAN /\ ram_ack_s[p] \in BOOLEAN
         /\ ram_req_s[p] = TRUE => held[p] >= 2
<1>1. held[p] \in 0 .. MinHold /\ MinHold \in Nat
  BY HoldAssumption DEF Lines
<1>2. ram_req_s[p] \in BOOLEAN /\ ram_ack_s[p] \in BOOLEAN
  BY DEF Lines
<1>3. ram_req_s[p] = TRUE => held[p] >= 2
  BY DEF Lines
<1> QED
  BY <1>1, <1>2, <1>3

(* A request is answered within 24 edges of the bus cycle.                  *)
LEMMA Outlasts ==
  ASSUME TimeInv, NEW p \in Ports, ram_req_s[p] = TRUE
  PROVE  held[p] <= 24
<1>1. held[p] \in Nat /\ held[p] >= 2 /\ SdrRoutineSeq_v \in Nat
  BY PortTypes DEF TimeInv, Place
<1>2. SdrRoutine_v \notin {"Null", "Init"}
  BY <1>1 DEF TimeInv, Lines
<1>3. SdrRoutineSeq_v <= 6
  BY <1>1, <1>2 DEF TimeInv, Place, Routines, LastStep
<1>4. CASE Serving(p)
  BY <1>1, <1>3, <1>4 DEF TimeInv, Serves, First
<1>5. CASE ~Serving(p)
  <2>1. ToIdle \in Nat
    BY <1>1, <1>3 DEF ToIdle
  <2>2. held[p] + ToIdle <= 17
    BY <1>1, <1>5, <2>1 DEF TimeInv, Waits, Ports
  <2> QED
    BY <1>1, <2>1, <2>2
<1> QED
  BY <1>4, <1>5

LEMMA LinesStep ==
  ASSUME TimeInv, MinHold >= 25, Next
  PROVE  Lines'
<1>1. held' \in [Ports -> 0 .. MinHold]
  <2>1. held' = [p \in Ports |-> held'[p]]
    BY DEF Next, Clock
  <2> QED
    BY <2>1, LineStep
<1>2. pcs_v' \in [Ports -> BOOLEAN \X BOOLEAN]
  <2>1. pcs_v' = [p \in Ports |-> pcs_v'[p]]
    BY DEF Next, Clock
  <2> QED
    BY <2>1, LineStep
<1>3. ram_req_s' \in [Ports -> BOOLEAN]
  <2>1. ram_req_s' = [p \in Ports |-> ram_req_s'[p]]
    BY DEF Next, Clock, Request
  <2> QED
    BY <2>1, RequestStep
<1>4. ASSUME NEW p \in Ports
      PROVE  /\ (held'[p] = 0) <=> (pcs_v'[p][2] = TRUE)
             /\ (held'[p] = 1) <=> (pcs_v'[p] = <<TRUE, FALSE>>)
             /\ ram_req_s'[p] = TRUE => held'[p] >= 2
  <2>1. ASSUME ram_req_s'[p] = TRUE
        PROVE  held'[p] >= 2
    <3>1. held[p] \in Nat
      BY PortTypes DEF TimeInv
    <3>2. held[p] # 0
      BY <2>1, RequestStep
    <3>3. ram_req_s[p] = TRUE => held[p] <= 24
      BY Outlasts
    <3>4. held[p] >= 2 => ram_req_s[p] = TRUE
      BY <2>1, RequestStep
    <3>5. held[p] \in 1 .. 24
      BY <3>1, <3>2, <3>3, <3>4
    <3>6. held'[p] = held[p] + 1
      BY <3>5, LineStep
    <3> QED
      BY <3>5, <3>6
  <2> QED
    BY <2>1, LineStep
<1>5. ASSUME SdrRoutine_v' \in {"Null", "Init"}, NEW p \in Ports
      PROVE  held'[p] = 0
  <2>1. SdrRoutine_v \in {"Null", "Init"}
    BY <1>5, Moves DEF TimeInv
  <2> QED
    BY <2>1, LineStep DEF TimeInv, Lines
<1> QED
  BY <1>1, <1>2, <1>3, <1>4, <1>5, AckType DEF Lines

(* The port that is served stays behind its request.                        *)
LEMMA ServesStep ==
  ASSUME TimeInv, MinHold >= 25, Next
  PROVE  Serves'
<1>1. /\ SdrRoutineSeq_v \in Nat /\ port_v \in Ports
      /\ SdrRoutine_v \in {"Null", "Idle", "Init", "RefreshAll", "ReadOne", "WriteOne"}
      /\ SdrRoutine_v = "Idle" => SdrRoutineSeq_v = 0
  BY DEF TimeInv, Place, Serves
<1>2. \/ /\ SdrRoutine_v \in {"Null", "Init"}
         /\ SdrRoutine_v' \in {"Null", "Init", "Idle"}
         /\ port_v' = port_v
      \/ SdrRoutine_v \notin {"Null", "Init"}
  BY NullStep
<1>3. port_v' \in Ports
  BY <1>1, <1>2, RoutineStep
<1>4. ASSUME NEW p \in Ports
      PROVE  (ram_ack_s'[p] = TRUE) <=> (Serving(p)' /\ SdrRoutineSeq_v' = Answers')
  <2>1. (ram_ack_s'[p] = TRUE) <=> (Acks(SdrRoutine_v, SdrRoutineSeq_v) /\ p = port_v)
    BY AckStep
  <2>2. (Serving(p)' /\ SdrRoutineSeq_v' = Answers')
          <=> (Acks(SdrRoutine_v, SdrRoutineSeq_v) /\ p = port_v)
    <3>1. CASE SdrRoutine_v \in {"Null", "Init"}
      BY <1>2, <3>1 DEF Acks, Serving, Accessing
    <3>2. CASE SdrRoutine_v = "Idle"
      <4>1. SdrRoutineSeq_v' = 0
        BY <3>2, RoutineStep
      <4>2. SdrRoutineSeq_v' # Answers'
        BY <4>1 DEF Answers
      <4> QED
        BY <3>2, <4>2 DEF Acks
    <3>3. CASE SdrRoutine_v = "RefreshAll"
      BY <1>1, <3>3, RoutineStep DEF Acks, Serving, Accessing, Answers, LastStep
    <3>4. CASE SdrRoutine_v = "ReadOne"
      BY <1>1, <3>4, RoutineStep DEF Acks, Serving, Accessing, Answers, LastStep
    <3>5. CASE SdrRoutine_v = "WriteOne"
      BY <1>1, <3>5, RoutineStep DEF Acks, Serving, Accessing, Answers, LastStep
    <3> QED
      BY <1>1, <3>1, <3>2, <3>3, <3>4, <3>5
  <2> QED
    BY <2>1, <2>2
<1>5. ASSUME NEW p \in Ports, Serving(p)'
      PROVE  /\ held'[p] >= 2 /\ held'[p] <= First(p) + SdrRoutineSeq_v'
             /\ (ram_req_s'[p] = TRUE) <=> (SdrRoutineSeq_v' <= Answers')
  <2>1. /\ held[p] \in Nat /\ ram_req_s[p] \in BOOLEAN /\ ram_ack_s[p] \in BOOLEAN
        /\ ram_req_s[p] = TRUE => held[p] >= 2
    BY PortTypes DEF TimeInv
  <2>2. CASE Serving(p)
    <3>1. /\ SdrRoutineSeq_v' = SdrRoutineSeq_v + 1 /\ Answers' = Answers
          /\ SdrRoutineSeq_v <= 5
      <4>1. CASE SdrRoutine_v = "ReadOne"
        BY <1>1, <1>5, <4>1, RoutineStep DEF Serving, Accessing, Answers, LastStep
      <4>2. CASE SdrRoutine_v = "WriteOne"
        BY <1>1, <1>5, <4>2, RoutineStep DEF Serving, Accessing, Answers, LastStep
      <4> QED
        BY <2>2, <4>1, <4>2 DEF Serving, Accessing
    <3>2. /\ held[p] >= 2 /\ held[p] <= First(p) + SdrRoutineSeq_v
          /\ (ram_req_s[p] = TRUE) <=> (SdrRoutineSeq_v <= Answers)
          /\ (ram_ack_s[p] = TRUE) <=> (SdrRoutineSeq_v = Answers)
      BY <2>2 DEF TimeInv, Serves
    <3>3. held[p] \in 1 .. 24 /\ Answers \in Nat /\ First(p) \in Nat
      BY <1>1, <2>1, <3>1, <3>2 DEF First, Answers
    <3>4. held'[p] = held[p] + 1
      BY <3>3, LineStep
    <3>5. (ram_req_s'[p] = TRUE) <=> (ram_req_s[p] = TRUE /\ ram_ack_s[p] = FALSE)
      BY <3>2, RequestStep
    <3> QED
      BY <1>1, <2>1, <3>1, <3>2, <3>3, <3>4, <3>5
  <2>3. CASE ~Serving(p)
    <3>1. /\ SdrRoutine_v = "Idle" /\ SdrRoutineSeq_v' = 0 /\ ram_req_s[p] = TRUE
          /\ p = 2 => ram_req_s[1] = FALSE
      BY <1>1, <1>2, <1>5, <2>3, RoutineStep DEF Serving, Accessing
    <3>2. held[p] >= 2 /\ held[p] <= First(p) - 1
      BY <2>1, <2>3, <3>1 DEF TimeInv, Waits, Next2, ToIdle, First, Ports
    <3>3. held[p] \in 1 .. 24 /\ First(p) \in Nat
      BY <2>1, <3>2 DEF First
    <3>4. held'[p] = held[p] + 1
      BY <3>3, LineStep
    <3>5. ram_ack_s[p] = FALSE
      BY <2>1, <2>3 DEF TimeInv, Serves
    <3>6. ram_req_s'[p] = TRUE
      BY <3>1, <3>2, <3>5, RequestStep
    <3>7. Answers' \in Nat
      BY DEF Answers
    <3> QED
      BY <2>1, <3>1, <3>2, <3>3, <3>4, <3>6, <3>7
  <2> QED
    BY <2>2, <2>3
<1> QED
  BY <1>3, <1>4, <1>5 DEF Serves, First

(* An acknowledged request is gone at the end of its routine.               *)
LEMMA ServedOnce ==
  ASSUME TimeInv, MinHold >= 25, Next, NEW p \in Ports,
         Serving(p), SdrRoutineSeq_v >= Answers
  PROVE  ram_req_s'[p] = FALSE
<1>1. SdrRoutineSeq_v \in Nat /\ Answers \in Nat
  BY DEF TimeInv, Place, Answers
<1>2. /\ ram_req_s[p] \in BOOLEAN /\ ram_req_s'[p] \in BOOLEAN
  BY PortTypes, RequestStep DEF TimeInv
<1>3. /\ held[p] >= 2
      /\ (ram_ack_s[p] = TRUE) <=> (SdrRoutineSeq_v = Answers)
      /\ (ram_req_s[p] = TRUE) <=> (SdrRoutineSeq_v <= Answers)
  BY DEF TimeInv, Serves
<1>4. ~(ram_req_s[p] = TRUE /\ ram_ack_s[p] = FALSE)
  BY <1>1, <1>3
<1> QED
  BY <1>2, <1>3, <1>4, RequestStep

(* A routine goes on, or it is past its acknowledgement and ends.           *)
LEMMA KeepsServing ==
  ASSUME TimeInv, Next, NEW p \in Ports, Serving(p)
  PROVE  \/ Serving(p)' /\ SdrRoutine_v' # "Idle"
         \/ SdrRoutine_v' = "Idle" /\ SdrRoutineSeq_v >= Answers
<1>1. SdrRoutine_v = "ReadOne" \/ SdrRoutine_v = "WriteOne"
  BY DEF Serving, Accessing
<1>2. CASE SdrRoutineSeq_v = LastStep[SdrRoutine_v]
  <2>1. SdrRoutineSeq_v >= Answers
    BY <1>1, <1>2 DEF Answers, LastStep
  <2>2. SdrRoutineSeq_v \in Nat
    BY DEF TimeInv, Place
  <2>3. ~(SdrRoutineSeq_v < LastStep[SdrRoutine_v])
    BY <1>2, <2>2
  <2>4. SdrRoutine_v' = "Idle"
    BY <1>1, <2>3, RoutineStep
  <2> QED
    BY <2>1, <2>4
<1>3. CASE SdrRoutineSeq_v # LastStep[SdrRoutine_v]
  <2>1. SdrRoutine_v' = SdrRoutine_v /\ port_v' = port_v
    BY <1>1, <1>3, RoutineStep
  <2> QED
    BY <1>1, <2>1 DEF Serving, Accessing
<1> QED
  BY <1>2, <1>3

(* The edges to the idle state pass.                                        *)
LEMMA Sooner1 ==
  ASSUME TimeInv, Next, SdrRoutine_v \notin {"Null", "Init"}
  PROVE  /\ ToIdle \in Nat /\ ToIdle' \in Nat /\ ToIdle' <= 7
         /\ SdrRoutine_v # "Idle" => ToIdle' <= ToIdle - 1
<1>1. /\ SdrRoutineSeq_v \in Nat
      /\ SdrRoutine_v \in {"Idle", "RefreshAll", "ReadOne", "WriteOne"}
      /\ SdrRoutine_v # "Idle" => SdrRoutineSeq_v <= LastStep[SdrRoutine_v]
      /\ SdrRoutine_v # "Idle" => LastStep[SdrRoutine_v] \in {5, 6}
  BY DEF TimeInv, Place, Routines, LastStep
<1>2. ToIdle \in Nat
  BY <1>1 DEF ToIdle
<1>3. CASE SdrRoutine_v = "Idle"
  <2>1. SdrRoutineSeq_v' = 0
    BY <1>3, RoutineStep
  <2> QED
    BY <1>2, <1>3, <2>1 DEF ToIdle
<1>4. CASE SdrRoutine_v # "Idle" /\ SdrRoutineSeq_v = LastStep[SdrRoutine_v]
  <2>1. SdrRoutine_v' = "Idle"
    <3>1. ~(SdrRoutineSeq_v < LastStep[SdrRoutine_v])
      BY <1>1, <1>4
    <3> QED
      BY <1>1, <1>4, <3>1, RoutineStep
  <2> QED
    BY <1>1, <1>2, <1>4, <2>1 DEF ToIdle
<1>5. CASE SdrRoutine_v # "Idle" /\ SdrRoutineSeq_v # LastStep[SdrRoutine_v]
  <2>1. SdrRoutine_v' = SdrRoutine_v /\ SdrRoutineSeq_v' = SdrRoutineSeq_v + 1
    BY <1>1, <1>5, RoutineStep
  <2>2. SdrRoutineSeq_v + 1 <= 6
    BY <1>1, <1>5
  <2> QED
    BY <1>1, <1>2, <1>5, <2>1, <2>2 DEF ToIdle
<1> QED
  BY <1>3, <1>4, <1>5

(* The requests that wait get no further behind than the routines that go   *)
(* before them.                                                             *)
LEMMA WaitsStep ==
  ASSUME TimeInv, MinHold >= 25, Next
  PROVE  Waits'
<1>1. /\ SdrRoutineSeq_v \in Nat /\ port_v \in Ports
      /\ SdrRoutine_v \in {"Null", "Idle", "Init", "RefreshAll", "ReadOne", "WriteOne"}
      /\ SdrRoutine_v = "Idle" => SdrRoutineSeq_v = 0
  BY DEF TimeInv, Place, Serves
(* A request that is still there at the next edge.                           *)
<1>3. ASSUME NEW p \in Ports, ram_req_s'[p] = TRUE
      PROVE  /\ SdrRoutine_v \notin {"Null", "Init"}
             /\ held[p] \in Nat
             /\ \/ held'[p] = 2
                \/ /\ ram_req_s[p] = TRUE /\ held'[p] = held[p] + 1
                   /\ ~(Serving(p) /\ SdrRoutineSeq_v >= Answers)
  <2>1. held[p] \in Nat /\ held[p] # 0
    BY <1>3, RequestStep, PortTypes DEF TimeInv
  <2>2. SdrRoutine_v \notin {"Null", "Init"}
    BY <2>1 DEF TimeInv, Lines
  <2>3. CASE held[p] = 1
    <3>1. held[p] \in 1 .. 24
      BY <2>3
    <3>2. held'[p] = held[p] + 1
      BY <3>1, LineStep
    <3> QED
      BY <2>1, <2>2, <2>3, <3>2
  <2>4. CASE held[p] >= 2
    <3>1. ram_req_s[p] = TRUE /\ ram_ack_s[p] = FALSE
      BY <1>3, <2>4, RequestStep
    <3>2. held[p] \in 1 .. 24
      <4>1. held[p] <= 24
        BY <3>1, Outlasts
      <4> QED
        BY <2>1, <2>4, <4>1
    <3>3. held'[p] = held[p] + 1
      BY <3>2, LineStep
    <3>4. ~(Serving(p) /\ SdrRoutineSeq_v >= Answers)
      BY <1>3, ServedOnce
    <3> QED
      BY <2>1, <2>2, <3>1, <3>3, <3>4
  <2>5. held[p] = 1 \/ held[p] >= 2
    BY <2>1
  <2> QED
    BY <2>3, <2>4, <2>5
<1>4. SdrRoutine_v \notin {"Null", "Init"} => ToIdle \in Nat
  BY Sooner1
<1>5. SdrRoutine_v \notin {"Null", "Init"} => ToIdle' \in Nat /\ ToIdle' <= 7
  BY Sooner1
<1>6. SdrRoutine_v \in {"RefreshAll", "ReadOne", "WriteOne"} => ToIdle' <= ToIdle - 1
  BY Sooner1
<1>7. ASSUME ram_req_s'[1] = TRUE, ~Serving(1)'
      PROVE  held'[1] + ToIdle' <= 9
  <2>1. /\ SdrRoutine_v \notin {"Null", "Init"} /\ held[1] \in Nat
        /\ \/ held'[1] = 2
           \/ /\ ram_req_s[1] = TRUE /\ held'[1] = held[1] + 1
              /\ ~(Serving(1) /\ SdrRoutineSeq_v >= Answers)
    BY <1>3, <1>7 DEF Ports
  <2>2. CASE held'[1] = 2
    BY <1>5, <2>1, <2>2
  <2>3. CASE held'[1] # 2
    <3>1. SdrRoutine_v # "Idle"
      BY <1>7, <2>1, <2>3, RoutineStep DEF Serving, Accessing, Ports
    <3>2. ~Serving(1)
      BY <1>7, <2>1, <2>3, KeepsServing DEF Ports
    <3>3. held[1] + ToIdle <= 9
      BY <2>1, <2>3, <3>2 DEF TimeInv, Waits
    <3> QED
      BY <1>1, <1>4, <1>5, <1>6, <2>1, <2>3, <3>1, <3>3
  <2> QED
    BY <2>2, <2>3
<1>8. ASSUME ram_req_s'[2] = TRUE, ~Serving(2)'
      PROVE  held'[2] + ToIdle' <= IF Next2' THEN 17 ELSE 9
  <2>1. /\ SdrRoutine_v \notin {"Null", "Init"} /\ held[2] \in Nat
        /\ \/ held'[2] = 2
           \/ /\ ram_req_s[2] = TRUE /\ held'[2] = held[2] + 1
              /\ ~(Serving(2) /\ SdrRoutineSeq_v >= Answers)
    BY <1>3, <1>8 DEF Ports
  <2>2. CASE held'[2] = 2
    BY <1>5, <2>1, <2>2
  <2>3. CASE held'[2] # 2
    <3>1. ~Serving(2)
      BY <1>8, <2>1, <2>3, KeepsServing DEF Ports
    <3>2. held[2] + ToIdle <= IF Next2 THEN 17 ELSE 9
      BY <2>1, <2>3, <3>1 DEF TimeInv, Waits
    (* Idle: port 1 is taken up, as port 2 is not.                           *)
    <3>3. CASE SdrRoutine_v = "Idle"
      <4>1. /\ SdrRoutine_v' \in {"ReadOne", "WriteOne"} /\ port_v' = 1
            /\ ram_req_s[1] = TRUE
        BY <1>8, <2>1, <2>3, <3>3, RoutineStep DEF Serving, Accessing, Ports
      <4>2. Next2' /\ ~Next2
        BY <3>3, <4>1 DEF Next2, Serving, Accessing
      <4> QED
        BY <1>4, <1>5, <2>1, <2>3, <3>2, <4>2
    (* A routine runs: port 1 stays in front of port 2 or has been served.   *)
    <3>4. CASE SdrRoutine_v # "Idle"
      <4>1. Next2 => Next2'
        <5>1. SUFFICES ASSUME Serving(1) PROVE Next2'
          BY <3>4 DEF Next2
        <5>2. CASE SdrRoutine_v' = "Idle"
          <6>1. SdrRoutineSeq_v >= Answers
            BY <5>1, <5>2, KeepsServing DEF Ports
          <6>2. ram_req_s'[1] = FALSE
            BY <5>1, <6>1, ServedOnce DEF Ports
          <6> QED
            BY <5>2, <6>2 DEF Next2
        <5>3. CASE SdrRoutine_v' # "Idle"
          BY <5>1, <5>3, KeepsServing DEF Next2, Ports
        <5> QED
          BY <5>2, <5>3
      <4> QED
        BY <1>1, <1>4, <1>5, <1>6, <2>1, <2>3, <3>2, <3>4, <4>1
    <3> QED
      BY <3>3, <3>4
  <2> QED
    BY <2>2, <2>3
<1> QED
  BY <1>7, <1>8 DEF Waits

LEMMA TimeInit == Init => TimeInv
<1>1. SUFFICES ASSUME Init PROVE TimeInv
  OBVIOUS
<1>2. /\ SdrRoutine_v = "Null" /\ SdrRoutineSeq_v = 0 /\ SdrCmd_s = "xx" /\ port_v = 1
      /\ held = [p \in Ports |-> 0] /\ pcs_v = [p \in Ports |-> <<TRUE, TRUE>>]
      /\ ram_req_s = [p \in Ports |-> FALSE] /\ ram_ack_s = [p \in Ports |-> FALSE]
  BY <1>1 DEF Init
<1>3. Place
  BY <1>2 DEF Place, Routines
<1>4. Lines
  <2>1. 0 \in 0 .. MinHold
    BY HoldAssumption
  <2>2. held \in [Ports -> 0 .. MinHold]
    BY <1>2, <2>1
  <2>3. pcs_v \in [Ports -> BOOLEAN \X BOOLEAN]
    BY <1>2
  <2>4. ram_req_s \in [Ports -> BOOLEAN] /\ ram_ack_s \in [Ports -> BOOLEAN]
    BY <1>2
  <2>5. ASSUME NEW p \in Ports
        PROVE  /\ held[p] = 0 /\ pcs_v[p] = <<TRUE, TRUE>> /\ ram_req_s[p] = FALSE
               /\ pcs_v[p][2] = TRUE /\ pcs_v[p] # <<TRUE, FALSE>>
    BY <1>2
  <2>6. ASSUME NEW p \in Ports
        PROVE  /\ (held[p] = 0) <=> (pcs_v[p][2] = TRUE)
               /\ (held[p] = 1) <=> (pcs_v[p] = <<TRUE, FALSE>>)
               /\ ram_req_s[p] = TRUE => held[p] >= 2
    <3>1. (held[p] = 0) <=> (pcs_v[p][2] = TRUE)
      BY <2>5
    <3>2. (held[p] = 1) <=> (pcs_v[p] = <<TRUE, FALSE>>)
      <4>1. held[p] = 0 /\ pcs_v[p] # <<TRUE, FALSE>>
        BY <2>5
      <4>2. held[p] # 1
        BY <4>1
      <4> QED
        BY <4>1, <4>2
    <3>3. ram_req_s[p] # TRUE
      BY <2>5
    <3> QED
      BY <3>1, <3>2, <3>3
  <2>7. SdrRoutine_v \in {"Null", "Init"} => \A p \in Ports : held[p] = 0
    BY <2>5
  <2> QED
    BY <2>2, <2>3, <2>4, <2>6, <2>7 DEF Lines
<1>5. ~Accessing
  BY <1>2 DEF Accessing
<1>6. Serves
  BY <1>2, <1>5 DEF Serves, Serving, Ports
<1>7. Waits
  BY <1>2 DEF Waits, Ports
<1> QED
  BY <1>3, <1>4, <1>6, <1>7 DEF TimeInv

LEMMA TimeStep ==
  ASSUME MinHold >= 25
  PROVE  TimeInv /\ [Next]_vars => TimeInv'
<1>1. SUFFICES ASSUME TimeInv, [Next]_vars
               PROVE  TimeInv'
  OBVIOUS
<1>2. CASE Next
  BY <1>1, <1>2, PlaceStep, LinesStep, ServesStep, WaitsStep DEF TimeInv
<1>3. CASE UNCHANGED vars
  BY <1>1, <1>3 DEF TimeInv, Place, Lines, Serves, Waits, Serving, Accessing, Answers,
     ToIdle, Next2, vars, requests, routine, pins
<1> QED
  BY <1>1, <1>2, <1>3

(* A falling edge is taken, unless port 1's line falls at the same edge.    *)
TakenInv ==
  \A p \in Ports : held[p] = 2 => ((ram_req_s[p] = TRUE) <=> ~Loses(p))

LEMMA TakenStep ==
  ASSUME TimeInv, MinHold >= 25, Next
  PROVE  TakenInv'
<1>1. PICK access \in [Ports -> BOOLEAN], refresh_i \in RefreshInputs,
           in1 \in Offered(1), in2 \in Offered(2) :
        Clock(access, <<in1, in2>>, refresh_i)
  BY DEF Next
<1>2. ASSUME NEW p \in Ports
      PROVE  (held'[p] = 2) <=> (held[p] = 1)
  <2>1. held'[p] = IF access[p] THEN 0
                   ELSE IF held[p] < MinHold THEN held[p] + 1 ELSE MinHold
    BY <1>1 DEF Clock
  <2>2. held[p] \in Nat /\ MinHold \in Nat
    BY PortTypes, HoldAssumption DEF TimeInv
  <2>3. ASSUME held[p] = 1 PROVE held'[p] = held[p] + 1
    <3>1. held[p] \in 1 .. 24
      BY <2>3
    <3> QED
      BY <3>1, LineStep
  <2> QED
    BY <2>1, <2>2, <2>3
<1>3. ASSUME NEW p \in Ports, held'[p] = 2
      PROVE  (ram_req_s'[p] = TRUE) <=> ~(p = 2 /\ held[1] = 1)
  <2>1. held[p] = 1
    BY <1>2, <1>3
  <2>2. ram_req_s[p] = FALSE
    <3>1. ram_req_s[p] \in BOOLEAN
      BY PortTypes DEF TimeInv
    <3>2. ram_req_s[p] = TRUE => held[p] >= 2
      BY DEF TimeInv, Lines
    <3> QED
      BY <2>1, <3>1, <3>2
  <2>3. \A q \in Ports : Fell(q) <=> held[q] = 1
    BY DEF TimeInv, Lines, Fell
  <2>4. p \in Detected <=> ~(p = 2 /\ held[1] = 1)
    BY <2>1, <2>3 DEF Detected, Ports
  <2>5. ram_req_s'[p] = (p \in Detected \/ (ram_req_s[p] /\ p \notin Answered))
    BY <1>1 DEF Clock, Request
  <2> QED
    BY <2>2, <2>4, <2>5
<1>4. ASSUME NEW p \in Ports, held'[p] = 2
      PROVE  Loses(p)' <=> p = 2 /\ held[1] = 1
  BY <1>2, <1>4 DEF Loses, Ports
<1> QED
  BY <1>3, <1>4 DEF TakenInv

(* There is no wait line.  If the masters keep their cycles for 25 edges or *)
(* more, an access is taken unless the other port begins at the same edge   *)
(* and goes first, and what is taken is answered before its master lets go, *)
(* whatever the other port and the refresh do.                              *)
THEOREM AnsweredInTime ==
  ASSUME MinHold >= 25
  PROVE  Spec => []DoneWhenReleased
<1>1. TimeInv /\ TakenInv => DoneWhenReleased
  <2>1. SUFFICES ASSUME TimeInv, TakenInv, NEW p \in Ports
                 PROVE  /\ held[p] = 2 => (ram_req_s[p] <=> ~Loses(p))
                        /\ held[p] = MinHold => ~ram_req_s[p]
    BY DEF DoneWhenReleased
  <2>2. ram_req_s[p] \in BOOLEAN /\ held[p] \in Nat
    BY <2>1, PortTypes DEF TimeInv
  <2>3. held[p] = 2 => (ram_req_s[p] <=> ~Loses(p))
    BY <2>1, <2>2 DEF TakenInv
  <2>4. ASSUME held[p] = MinHold PROVE ram_req_s[p] # TRUE
    <3>1. ~(held[p] <= 24)
      BY <2>2, <2>4
    <3> QED
      BY <2>1, <3>1, Outlasts
  <2> QED
    BY <2>2, <2>3, <2>4
<1>2. Init => TakenInv
  BY DEF Init, TakenInv
<1>3. TimeInv /\ TakenInv /\ [Next]_vars => TakenInv'
  BY TakenStep DEF TakenInv, Loses, vars, requests
<1>4. (Init => TimeInv) /\ (TimeInv /\ [Next]_vars => TimeInv')
  BY TimeInit, TimeStep
<1> QED
  BY <1>1, <1>2, <1>3, <1>4, PTL DEF Spec

-----------------------------------------------------------------------------
(* The routine works on the request as the port holds it, and the row,      *)
(* column, byte and data go the way of the step counter.                    *)
WorksOn ==
  /\ ram_we_n_s \in [Ports -> BOOLEAN]
  /\ Accessing /\ SdrRoutineSeq_v <= Answers =>
       /\ SdrAddress_v = ram_addr_s[port_v]
       /\ (ram_we_n_s[port_v] = TRUE) <=> (SdrRoutine_v = "ReadOne")

Cell == mem[SdrAddress_v.row][SdrAddress_v.col]

OnTheWay ==
  /\ Accesses(1) => SdrAdr_s = SdrAddress_v.row
  /\ Accesses(2) \/ Accesses(3) => open = SdrAddress_v.row
  /\ Accesses(3) => SdrAdr_s = SdrAddress_v.col
  /\ At("WriteOne", 3) => /\ SdrMask_s = {0, 1} \ {SdrAddress_v.lane}
                          /\ SdrDat_s = ram_din_s[port_v]
  /\ At("ReadOne", 4) => pipe = Cell
  /\ At("ReadOne", 5) => mem_data_io = Cell

MemInv == TimingInv /\ TimeInv /\ WorksOn /\ OnTheWay

-----------------------------------------------------------------------------
(* An edge, without the inputs.                                             *)
LEMMA Edge ==
  ASSUME Next
  PROVE  \E in1 \in Offered(1), in2 \in Offered(2), refresh_i \in RefreshInputs :
           Request(<<in1, in2>>) /\ Pins /\ Acknowledge /\ Routine(refresh_i) /\ Chip
BY DEF Next, Clock

(* A port's latches are written only at the falling edge of its line.       *)
LEMMA Latched ==
  ASSUME MemInv, Next, NEW p \in Ports, p \notin Detected
  PROVE  /\ ram_addr_s'[p] = ram_addr_s[p] /\ ram_we_n_s'[p] = ram_we_n_s[p]
         /\ ram_din_s'[p] = ram_din_s[p]
BY Edge DEF Request

LEMMA DetectedAtOne ==
  ASSUME TimeInv, NEW p \in Ports, p \in Detected
  PROVE  held[p] = 1 /\ ram_req_s[p] = FALSE /\ ~Serving(p)
<1>1. held[p] = 1
  BY DEF TimeInv, Lines, Detected, Fell
<1>2. ~(held[p] >= 2)
  BY <1>1
<1>3. ram_req_s[p] # TRUE /\ ram_req_s[p] \in BOOLEAN
  BY <1>2, PortTypes DEF TimeInv
<1> QED
  BY <1>1, <1>2, <1>3 DEF TimeInv, Serves

(* The address of a routine is the one its port held as it was chosen.      *)
LEMMA AddressStep ==
  ASSUME MemInv, Next
  PROVE  /\ SdrRoutine_v # "Idle" => SdrAddress_v' = SdrAddress_v
         /\ SdrRoutine_v = "Idle" /\ Accessing' =>
              /\ SdrAddress_v' = ram_addr_s[port_v']
              /\ SdrRoutine_v' = IF ram_we_n_s[port_v'] THEN "ReadOne" ELSE "WriteOne"
<1>1. PICK refresh_i \in RefreshInputs : Routine(refresh_i)
  BY Edge
<1>2. CASE SdrRoutine_v # "Idle"
  BY <1>1, <1>2 DEF Routine
<1>3. CASE SdrRoutine_v = "Idle"
  BY <1>1, <1>3 DEF Routine, StartRequest, Routines, Accessing
<1> QED
  BY <1>2, <1>3

LEMMA WorksOnStep ==
  ASSUME MemInv, MinHold >= 25, Next
  PROVE  WorksOn'
<1>1. PICK in1 \in Offered(1), in2 \in Offered(2) : Request(<<in1, in2>>)
  BY Edge
<1>2. ram_we_n_s' \in [Ports -> BOOLEAN]
  <2>1. ASSUME NEW p \in Ports PROVE ram_we_n_s'[p] \in BOOLEAN
    BY <1>1 DEF Request, MemInv, WorksOn
  <2>2. ram_we_n_s' = [p \in Ports |-> ram_we_n_s'[p]]
    BY <1>1 DEF Request
  <2> QED
    BY <2>1, <2>2
<1>3. ASSUME Accessing', SdrRoutineSeq_v' <= Answers'
      PROVE  /\ SdrAddress_v' = ram_addr_s'[port_v']
             /\ (ram_we_n_s'[port_v'] = TRUE) <=> (SdrRoutine_v' = "ReadOne")
  <2>1. CASE SdrRoutine_v = "Idle"
    <3>1. port_v' \in Ports /\ ram_req_s[port_v'] = TRUE
      BY <1>3, <2>1, RoutineStep DEF MemInv, Accessing
    <3>2. port_v' \notin Detected
      BY <3>1, DetectedAtOne DEF MemInv
    <3>3. ram_we_n_s[port_v'] \in BOOLEAN
      BY <3>1 DEF MemInv, WorksOn
    <3> QED
      BY <1>3, <2>1, <3>1, <3>2, <3>3, Latched, AddressStep
  <2>2. CASE SdrRoutine_v # "Idle"
    <3>1. /\ Accessing /\ SdrRoutine_v' = SdrRoutine_v /\ port_v' = port_v
          /\ SdrRoutineSeq_v' = SdrRoutineSeq_v + 1
      <4>1. SdrRoutine_v \notin {"Null", "Init"}
        BY <1>3, NullStep DEF Accessing
      <4> QED
        BY <1>3, <2>2, <4>1, RoutineStep DEF MemInv, Accessing
    <3>2. port_v \in Ports /\ SdrRoutineSeq_v \in Nat /\ Answers \in Nat /\ Answers' = Answers
      BY <3>1 DEF MemInv, TimeInv, Serves, Place, Answers
    <3>3. SdrRoutineSeq_v <= Answers
      BY <1>3, <3>1, <3>2
    <3>4. port_v \notin Detected
      BY <3>1, <3>2, DetectedAtOne DEF MemInv, Serving
    <3> QED
      BY <2>2, <3>1, <3>2, <3>3, <3>4, Latched, AddressStep DEF MemInv, WorksOn
  <2> QED
    BY <2>1, <2>2
<1> QED
  BY <1>2, <1>3 DEF WorksOn

LEMMA OnTheWayStep ==
  ASSUME MemInv, Next
  PROVE  OnTheWay'
<1>1. Pins /\ Chip
  BY Edge
<1>2. /\ Place /\ SdrRoutineSeq_v \in Nat /\ SdrAddress_v.row \in Row
      /\ SdrAddress_v.col \in Col /\ SdrAddress_v.lane \in {0, 1}
      /\ port_v \in Ports
  BY DEF MemInv, TimingInv, Types, Place, Addr
<1>3. /\ Accesses(1)' => Accesses(0)
      /\ Accesses(2)' => Accesses(1)
      /\ Accesses(3)' => Accesses(2)
      /\ At("WriteOne", 3)' => At("WriteOne", 2)
      /\ At("ReadOne", 4)' => At("ReadOne", 3)
      /\ At("ReadOne", 5)' => At("ReadOne", 4)
  BY <1>2, Places DEF Accesses
<1>4. ASSUME SdrRoutine_v # "Idle"
      PROVE  SdrAddress_v' = SdrAddress_v
  BY <1>4, AddressStep
<1>5. /\ SdrCmd_s = "ac" <=> Accesses(1)
      /\ SdrCmd_s \in {"rd", "wr"} <=> Accesses(3)
      /\ SdrCmd_s = "rd" <=> At("ReadOne", 3)
      /\ SdrCmd_s = "wr" <=> At("WriteOne", 3)
  BY <1>2, CommandOut DEF Accesses
<1>6. /\ open' = CASE SdrCmd_s = "ac" -> SdrAdr_s
                   [] SdrCmd_s \in {"rd", "wr"} -> NoRow
                   [] OTHER -> open
      /\ SdrCmd_s = "rd" => pipe' = mem[open][SdrAdr_s]
      /\ SdrCmd_s # "wr" => mem' = mem
      /\ mem_data_io' = pipe
  BY <1>1 DEF Chip
<1>7. ASSUME Accesses(1)'
      PROVE  SdrAdr_s' = SdrAddress_v'.row
  BY <1>1, <1>3, <1>4, <1>7 DEF Pins, Command, Accesses, At
<1>8. ASSUME Accesses(2)' \/ Accesses(3)'
      PROVE  open' = SdrAddress_v'.row
  <2>1. CASE Accesses(1)
    <3>1. SdrCmd_s = "ac"
      BY <1>5, <2>1
    <3> QED
      BY <1>4, <1>6, <2>1, <3>1 DEF MemInv, OnTheWay, Accesses, At
  <2>2. CASE Accesses(2)
    <3>1. ~Accesses(1) /\ ~Accesses(3)
      BY <2>2 DEF Accesses, At
    <3>2. open' = open
      BY <1>5, <1>6, <3>1
    <3> QED
      BY <1>4, <2>2, <3>2 DEF MemInv, OnTheWay, Accesses, At
  <2> QED
    BY <1>3, <1>8, <2>1, <2>2
<1>9. ASSUME Accesses(3)'
      PROVE  SdrAdr_s' = SdrAddress_v'.col
  BY <1>1, <1>3, <1>4, <1>9 DEF Pins, Command, Accesses, At
<1>10. ASSUME At("WriteOne", 3)'
       PROVE  /\ SdrMask_s' = {0, 1} \ {SdrAddress_v'.lane}
              /\ SdrDat_s' = ram_din_s'[port_v']
  <2>1. At("WriteOne", 2)
    BY <1>3, <1>10
  <2>2. Command(SdrRoutine_v, SdrRoutineSeq_v) = "wr"
    BY <2>1 DEF Command, At
  <2>3. SdrAddress_v' = SdrAddress_v
    BY <1>4, <2>1 DEF At
  <2>4. SdrMask_s' = {0, 1} \ {SdrAddress_v.lane} /\ SdrDat_s' = ram_din_s[port_v]
    <3>1. SdrMask_s' = Mask(SdrAddress_v.lane)
      BY <1>1, <2>2 DEF Pins
    <3>2. SdrDat_s' = ram_din_s[port_v]
      BY <1>1, <2>1, <2>2 DEF Pins, At
    <3> QED
      BY <3>1, <3>2 DEF Mask
  <2>5. Serving(port_v)
    BY <2>1 DEF Serving, Accessing, At
  <2>6. ram_din_s'[port_v] = ram_din_s[port_v]
    BY <1>2, <2>5, DetectedAtOne, Latched DEF MemInv
  <2>7. port_v' = port_v
    BY <2>1, RoutineStep DEF MemInv, At
  <2> QED
    BY <2>3, <2>4, <2>6, <2>7
<1>11. ASSUME At("ReadOne", 4)'
       PROVE  pipe' = Cell'
  <2>1. At("ReadOne", 3) /\ Accesses(3)
    BY <1>3, <1>11 DEF Accesses
  <2>2. SdrCmd_s = "rd"
    BY <1>5, <2>1
  <2>3. open = SdrAddress_v.row /\ SdrAdr_s = SdrAddress_v.col
    BY <2>1 DEF MemInv, OnTheWay
  <2>4. SdrAddress_v' = SdrAddress_v
    BY <1>4, <2>1 DEF At
  <2> QED
    BY <1>6, <2>2, <2>3, <2>4 DEF Cell
<1>12. ASSUME At("ReadOne", 5)'
       PROVE  mem_data_io' = Cell'
  <2>1. At("ReadOne", 4)
    BY <1>3, <1>12
  <2>2. SdrCmd_s # "wr"
    BY <1>5, <2>1 DEF At
  <2>3. SdrAddress_v' = SdrAddress_v
    BY <1>4, <2>1 DEF At
  <2> QED
    BY <1>6, <2>1, <2>2, <2>3 DEF Cell, MemInv, OnTheWay
<1> QED
  BY <1>7, <1>8, <1>9, <1>10, <1>11, <1>12 DEF OnTheWay

LEMMA MemInit == Init => MemInv
<1>1. SUFFICES ASSUME Init PROVE MemInv
  OBVIOUS
<1>2. TimingInv /\ TimeInv
  BY <1>1, TimingInit, TimeInit
<1>3. WorksOn
  BY <1>1 DEF Init, WorksOn, Accessing
<1>4. OnTheWay
  BY <1>1 DEF Init, OnTheWay, Accesses, At
<1> QED
  BY <1>2, <1>3, <1>4 DEF MemInv

LEMMA MemStep ==
  ASSUME MinHold >= 25
  PROVE  MemInv /\ [Next]_vars => MemInv'
<1>1. SUFFICES ASSUME MemInv, [Next]_vars PROVE MemInv'
  OBVIOUS
<1>2. TimingInv' /\ TimeInv'
  BY <1>1, TimingStep, TimeStep DEF MemInv
<1>3. CASE Next
  BY <1>1, <1>2, <1>3, WorksOnStep, OnTheWayStep DEF MemInv
<1>4. CASE UNCHANGED vars
  <2>1. WorksOn'
    BY <1>1, <1>4 DEF MemInv, WorksOn, Accessing, Answers, vars, requests, routine
  <2>2. OnTheWay'
    BY <1>1, <1>4 DEF MemInv, OnTheWay, Accesses, At, Cell, vars, requests, routine, pins, chip
  <2> QED
    BY <1>2, <2>1, <2>2 DEF MemInv
<1> QED
  BY <1>1, <1>3, <1>4

-----------------------------------------------------------------------------
(* What the ports show of the memory.                                       *)
Bytes == [a \in Addr |-> mem[a.row][a.col][a.lane]]

Pending == [p \in Ports |-> IF ram_req_s[p] /\ ~ram_ack_s[p]
                            THEN [we |-> ~ram_we_n_s[p], a |-> ram_addr_s[p],
                                  d |-> ram_din_s[p]]
                            ELSE NoRequest]

Returned == [p \in Ports |-> IF ram_req_s[p] /\ ram_ack_s[p] /\ ram_we_n_s[p]
                             THEN ram_dout_s ELSE data_o[p]]

\* The port whose request this edge acknowledges.
Acked == {p \in Ports : Acks(SdrRoutine_v, SdrRoutineSeq_v) /\ p = port_v}

(* It is behind its routine, with its request waiting.                      *)
LEMMA AckedServing ==
  ASSUME MemInv, Next, NEW p \in Acked
  PROVE  /\ p \in Ports /\ p = port_v /\ Serving(p) /\ p \notin Detected
         /\ \/ At("ReadOne", 5) /\ ram_we_n_s[p] = TRUE
            \/ At("WriteOne", 3) /\ ram_we_n_s[p] = FALSE
         /\ ram_req_s[p] = TRUE /\ ram_ack_s[p] = FALSE
         /\ SdrAddress_v = ram_addr_s[p]
<1>1. p \in Ports /\ p = port_v /\ Acks(SdrRoutine_v, SdrRoutineSeq_v)
  BY DEF Acked
<1>2. Serving(p) /\ (At("ReadOne", 5) \/ At("WriteOne", 3))
  BY <1>1 DEF Acks, Serving, Accessing, At
<1>3. SdrRoutineSeq_v <= Answers /\ SdrRoutineSeq_v # Answers
  BY <1>2 DEF At, Answers
<1>4. ram_req_s[p] = TRUE /\ ram_ack_s[p] # TRUE
  BY <1>1, <1>2, <1>3 DEF MemInv, TimeInv, Serves
<1>5. ram_ack_s[p] \in BOOLEAN
  BY <1>1, PortTypes DEF MemInv, TimeInv
<1>6. p \notin Detected
  BY <1>1, <1>2, DetectedAtOne DEF MemInv
<1>7. /\ SdrAddress_v = ram_addr_s[p] /\ ram_we_n_s[p] \in BOOLEAN
      /\ (ram_we_n_s[p] = TRUE) <=> (SdrRoutine_v = "ReadOne")
  BY <1>1, <1>2, <1>3 DEF MemInv, WorksOn, Serving
<1>8. \/ At("ReadOne", 5) /\ ram_we_n_s[p] = TRUE
      \/ At("WriteOne", 3) /\ ram_we_n_s[p] = FALSE
  BY <1>2, <1>7 DEF At
<1> QED
  BY <1>1, <1>2, <1>4, <1>5, <1>6, <1>7, <1>8

(* What becomes of the requests.                                            *)
LEMMA PendingTaken ==
  ASSUME MemInv, MinHold >= 25, Next, NEW p \in Detected
  PROVE  Pending[p] = NoRequest /\ Pending'[p] \in Memory!Request
<1>1. p \in Ports
  BY DEF Detected
<1>2. held[p] = 1 /\ ram_req_s[p] = FALSE /\ ~Serving(p)
  BY <1>1, DetectedAtOne DEF MemInv
<1>3. p \notin Acked
  BY <1>2 DEF Acked, Acks, Serving, Accessing
<1>4. ram_ack_s'[p] = FALSE
  BY <1>1, <1>3, AckStep, AckType DEF Acked
<1>5. ram_req_s'[p] = TRUE
  BY <1>1, Edge DEF Request
<1>6. MemInv'
  BY MemStep
<1>7. ram_addr_s'[p] \in Addr /\ ram_din_s'[p] \in Data /\ ram_we_n_s'[p] \in BOOLEAN
  BY <1>1, <1>6 DEF MemInv, TimingInv, Types, WorksOn
<1>8. Pending'[p] = [we |-> ~ram_we_n_s'[p], a |-> ram_addr_s'[p], d |-> ram_din_s'[p]]
  BY <1>1, <1>4, <1>5 DEF Pending
<1>9. Pending[p] = NoRequest
  BY <1>1, <1>2 DEF Pending
<1> QED
  BY <1>7, <1>8, <1>9 DEF Memory!Request

LEMMA PendingServed ==
  ASSUME MemInv, Next, NEW p \in Acked
  PROVE  /\ Pending[p] = [we |-> ~ram_we_n_s[p], a |-> ram_addr_s[p], d |-> ram_din_s[p]]
         /\ Pending'[p] = NoRequest
<1>1. p \in Ports /\ ram_req_s[p] = TRUE /\ ram_ack_s[p] = FALSE
  BY AckedServing
<1>2. ram_ack_s'[p] = TRUE
  BY AckStep DEF Acked
<1> QED
  BY <1>1, <1>2 DEF Pending

LEMMA PendingKept ==
  ASSUME MemInv, MinHold >= 25, Next, NEW p \in Ports, p \notin Detected, p \notin Acked
  PROVE  Pending'[p] = Pending[p]
<1>1. ram_ack_s'[p] = FALSE
  BY AckStep, AckType DEF Acked
<1>2. /\ ram_addr_s'[p] = ram_addr_s[p] /\ ram_we_n_s'[p] = ram_we_n_s[p]
      /\ ram_din_s'[p] = ram_din_s[p]
  BY Latched
<1>3. p \in Answered <=> (ram_req_s[p] = TRUE /\ ram_ack_s[p] = TRUE)
  BY AnsweredPorts DEF MemInv, TimeInv
<1>4. ram_req_s'[p] = (ram_req_s[p] /\ p \notin Answered)
  BY Edge DEF Request
<1>5. ram_req_s[p] \in BOOLEAN /\ ram_ack_s[p] \in BOOLEAN
  BY PortTypes DEF MemInv, TimeInv
<1>6. (ram_req_s'[p] /\ ~ram_ack_s'[p]) <=> (ram_req_s[p] /\ ~ram_ack_s[p])
  BY <1>1, <1>3, <1>4, <1>5
<1> QED
  BY <1>2, <1>6 DEF Pending

(* What becomes of the data returned.                                       *)
LEMMA ReadData ==
  ASSUME MemInv, Next, NEW p \in Acked, ram_we_n_s[p] = TRUE
  PROVE  ram_dout_s' = Bytes[ram_addr_s[p]]
<1>1. At("ReadOne", 5) /\ p = port_v /\ SdrAddress_v = ram_addr_s[p]
  BY AckedServing
<1>2. Acks(SdrRoutine_v, SdrRoutineSeq_v) /\ SdrRoutine_v = "ReadOne"
  BY <1>1 DEF Acks, At
<1>3. ram_dout_s' = Sampled
  BY <1>2, Edge DEF Acknowledge
<1>4. SdrDat_s = NoData /\ mem_data_io = Cell /\ mem_data_io # NoData
  BY <1>1 DEF MemInv, TimingInv, DataPath, OnTheWay, At
<1>5. Sampled = Cell[SdrAddress_v.lane]
  BY <1>4 DEF Sampled
<1>6. SdrAddress_v \in Addr
  BY DEF MemInv, TimingInv, Types
<1> QED
  BY <1>1, <1>3, <1>5, <1>6 DEF Bytes, Cell

LEMMA ReturnedStep ==
  ASSUME MemInv, MinHold >= 25, Next
  PROVE  Returned' = [p \in Ports |-> IF p \in Acked /\ ~Pending[p].we
                                      THEN Bytes[Pending[p].a] ELSE Returned[p]]
<1>1. SUFFICES ASSUME NEW p \in Ports
               PROVE  Returned'[p] = IF p \in Acked /\ ~Pending[p].we
                                     THEN Bytes[Pending[p].a] ELSE Returned[p]
  BY DEF Returned
<1>2. data_o'[p] = IF p \in Answered /\ ram_we_n_s[p] THEN ram_dout_s ELSE data_o[p]
  BY Edge DEF Request
<1>3. p \in Answered <=> (ram_req_s[p] = TRUE /\ ram_ack_s[p] = TRUE)
  BY AnsweredPorts DEF MemInv, TimeInv
<1>4. ram_req_s[p] \in BOOLEAN /\ ram_ack_s[p] \in BOOLEAN /\ ram_we_n_s[p] \in BOOLEAN
  BY PortTypes DEF MemInv, TimeInv, WorksOn
<1>5. CASE p \in Acked
  <2>1. ram_req_s[p] = TRUE /\ ram_ack_s[p] = FALSE /\ p \notin Detected
    BY <1>5, AckedServing
  <2>2. Pending[p].we = ~ram_we_n_s[p] /\ Pending[p].a = ram_addr_s[p]
    <3>1. Pending[p] = [we |-> ~ram_we_n_s[p], a |-> ram_addr_s[p], d |-> ram_din_s[p]]
      BY <1>5, PendingServed
    <3> QED
      BY <3>1
  <2>3. ram_ack_s'[p] = TRUE /\ ram_we_n_s'[p] = ram_we_n_s[p]
    BY <1>5, <2>1, AckStep, Latched DEF Acked
  <2>4. ram_req_s'[p] = (ram_req_s[p] /\ p \notin Answered)
    BY <2>1, Edge DEF Request
  <2>5. ram_req_s'[p] = TRUE
    BY <1>3, <2>1, <2>4
  <2>6. data_o'[p] = data_o[p] /\ Returned[p] = data_o[p]
    BY <1>2, <1>3, <2>1 DEF Returned
  <2>7. Returned'[p] = IF ram_we_n_s[p] THEN ram_dout_s' ELSE data_o[p]
    BY <2>3, <2>5, <2>6 DEF Returned
  <2>8. CASE ram_we_n_s[p] = TRUE
    BY <1>5, <2>2, <2>7, <2>8, ReadData
  <2>9. CASE ram_we_n_s[p] = FALSE
    BY <2>2, <2>6, <2>7, <2>9
  <2> QED
    BY <1>4, <2>8, <2>9
<1>6. CASE p \notin Acked
  <2>1. ram_ack_s'[p] = FALSE
    BY <1>6, AckStep, AckType DEF Acked
  <2>2. Returned'[p] = data_o'[p]
    BY <2>1 DEF Returned
  <2>3. Returned[p] = IF p \in Answered /\ ram_we_n_s[p] THEN ram_dout_s ELSE data_o[p]
    BY <1>3, <1>4 DEF Returned
  <2> QED
    BY <1>2, <1>6, <2>2, <2>3
<1> QED
  BY <1>5, <1>6

(* What becomes of the memory: it is written in the edge that acknowledges. *)
LEMMA BytesStep ==
  ASSUME MemInv, Next
  PROVE  Bytes' = [a \in Addr |-> IF \E p \in Acked : Pending[p].we /\ Pending[p].a = a
                                  THEN Pending[port_v].d ELSE Bytes[a]]
<1>1. Chip
  BY Edge
<1>2. mem \in [Row -> [Col -> Word]] /\ port_v \in Ports
  BY DEF MemInv, TimingInv, Types
<1>3. SdrCmd_s = "wr" <=> At("WriteOne", 3)
  BY CommandOut DEF MemInv, TimingInv
<1>4. CASE At("WriteOne", 3)
  <2>1. port_v \in Acked
    BY <1>2, <1>4 DEF Acked, Acks, At
  <2>2. /\ Pending[port_v].we = TRUE /\ Pending[port_v].a = ram_addr_s[port_v]
        /\ Pending[port_v].d = ram_din_s[port_v] /\ SdrAddress_v = ram_addr_s[port_v]
    <3>1. ram_we_n_s[port_v] = FALSE /\ SdrAddress_v = ram_addr_s[port_v]
      BY <1>4, <2>1, AckedServing DEF At
    <3>2. Pending[port_v] = [we |-> ~ram_we_n_s[port_v], a |-> ram_addr_s[port_v],
                             d |-> ram_din_s[port_v]]
      BY <2>1, PendingServed
    <3>3. /\ Pending[port_v].we = ~ram_we_n_s[port_v]
          /\ Pending[port_v].a = ram_addr_s[port_v] /\ Pending[port_v].d = ram_din_s[port_v]
      BY <3>2
    <3> QED
      BY <3>1, <3>3
  <2>3. /\ open = SdrAddress_v.row /\ SdrAdr_s = SdrAddress_v.col
        /\ SdrMask_s = {0, 1} \ {SdrAddress_v.lane} /\ SdrDat_s = ram_din_s[port_v]
    BY <1>4 DEF MemInv, OnTheWay, Accesses
  <2>4. /\ SdrAddress_v \in Addr /\ SdrAddress_v.row \in Row /\ SdrAddress_v.col \in Col
        /\ SdrAddress_v.lane \in {0, 1}
    BY DEF MemInv, TimingInv, Types, Addr
  <2> DEFINE r == SdrAddress_v.row
             c == SdrAddress_v.col
             b == SdrAddress_v.lane
             d == ram_din_s[port_v]
             new == [l \in {0, 1} |-> IF l \in {0, 1} \ {b} THEN mem[r][c][l] ELSE d]
  <2>5. mem' = [mem EXCEPT ![r] = [mem[r] EXCEPT ![c] = new]]
    BY <1>1, <1>3, <1>4, <2>3 DEF Chip
  <2>6. ASSUME NEW a \in Addr
        PROVE  Bytes'[a] = IF SdrAddress_v = a THEN d ELSE Bytes[a]
    <3>1. a.row \in Row /\ a.col \in Col /\ a.lane \in {0, 1}
      BY DEF Addr
    <3>2. Bytes'[a] = mem'[a.row][a.col][a.lane] /\ Bytes[a] = mem[a.row][a.col][a.lane]
      BY DEF Bytes
    <3>3. SdrAddress_v = a <=> r = a.row /\ c = a.col /\ b = a.lane
      BY <2>4 DEF Addr
    <3>4. \A l \in {0, 1} : new[l] = IF l = b THEN d ELSE mem[r][c][l]
      BY <2>4
    <3> HIDE DEF new, r, c, b, d
    <3>5. r \in Row /\ c \in Col
      BY <2>4 DEF r, c
    <3>6. mem'[a.row][a.col] = IF r = a.row /\ c = a.col THEN new ELSE mem[a.row][a.col]
      BY <1>2, <2>5, <3>1, <3>5
    <3> QED
      BY <3>1, <3>2, <3>3, <3>4, <3>6
  <2>7. \A a \in Addr : (\E p \in Acked : Pending[p].we /\ Pending[p].a = a)
                          <=> SdrAddress_v = a
    BY <2>1, <2>2 DEF Acked
  <2>8. Bytes' = [a \in Addr |-> Bytes'[a]]
    BY DEF Bytes
  <2> QED
    BY <2>2, <2>6, <2>7, <2>8
<1>5. CASE ~At("WriteOne", 3)
  <2>1. mem' = mem
    BY <1>1, <1>3, <1>5 DEF Chip
  <2>2. ~(\E p \in Acked : Pending[p].we)
    <3>1. SUFFICES ASSUME NEW p \in Acked PROVE ~Pending[p].we
      OBVIOUS
    <3>2. ram_we_n_s[p] = TRUE
      BY <1>5, AckedServing
    <3>3. Pending[p] = [we |-> ~ram_we_n_s[p], a |-> ram_addr_s[p], d |-> ram_din_s[p]]
      BY PendingServed
    <3>4. Pending[p].we = ~ram_we_n_s[p]
      BY <3>3
    <3> QED
      BY <3>2, <3>4
  <2> QED
    BY <2>1, <2>2 DEF Bytes
<1> QED
  BY <1>4, <1>5

-----------------------------------------------------------------------------
LEMMA OnlyMember == ASSUME NEW x PROVE (CHOOSE r \in {x} : TRUE) = x
  OBVIOUS

LEMMA MemoryStep ==
  ASSUME MemInv, MinHold >= 25, NoRequest \notin Memory!Request, Next,
         NEW takes, NEW serves, takes = Detected, serves = Acked
  PROVE  Memory!Step(takes, serves)
<1>1. Detected \subseteq Ports /\ Acked \subseteq Ports /\ DOMAIN Pending' = Ports
  BY DEF Detected, Acked, Pending
<1>2. Detected \cap Acked = {}
  BY AckedServing
<1>3. \A p, q \in Acked : p = q
  BY DEF Acked
<1>4. ASSUME NEW p \in Acked PROVE Pending[p] # NoRequest /\ Pending'[p] = NoRequest
  <2>1. /\ ram_addr_s[p] \in Addr /\ ram_din_s[p] \in Data /\ ram_we_n_s[p] \in BOOLEAN
    BY <1>1 DEF MemInv, TimingInv, Types, WorksOn
  <2>2. Pending[p] = [we |-> ~ram_we_n_s[p], a |-> ram_addr_s[p], d |-> ram_din_s[p]]
    BY PendingServed
  <2>3. Pending[p] \in Memory!Request
    BY <2>1, <2>2 DEF Memory!Request
  <2> QED
    BY <2>3, PendingServed
<1>5. Bytes' = [a \in Addr |->
                  IF \E p \in Acked : Pending[p].we /\ Pending[p].a = a
                  THEN (CHOOSE r \in {Pending[p] : p \in Acked} : TRUE).d
                  ELSE Bytes[a]]
  <2>1. ASSUME NEW q \in Acked
        PROVE  (CHOOSE r \in {Pending[p] : p \in Acked} : TRUE) = Pending[port_v]
    <3>1. {Pending[p] : p \in Acked} = {Pending[port_v]}
      BY DEF Acked
    <3> QED
      BY <3>1, OnlyMember
  <2> QED
    BY <2>1, BytesStep
<1>6. /\ takes \cap serves = {} /\ \A p, q \in serves : p = q
      /\ DOMAIN Pending' = Ports
  BY <1>1, <1>2, <1>3
<1>7. \A p \in takes : Pending[p] = NoRequest /\ Pending'[p] \in Memory!Request
  BY PendingTaken
<1>8. \A p \in serves : Pending[p] # NoRequest /\ Pending'[p] = NoRequest
  BY <1>4
<1>9. \A p \in Ports \ (takes \cup serves) : Pending'[p] = Pending[p]
  BY PendingKept
<1>10. Bytes' = [a \in Addr |->
                   IF \E p \in serves : Pending[p].we /\ Pending[p].a = a
                   THEN (CHOOSE r \in {Pending[p] : p \in serves} : TRUE).d
                   ELSE Bytes[a]]
  BY <1>5
<1>11. Returned' = [p \in Ports |-> IF p \in serves /\ ~Pending[p].we
                                    THEN Bytes[Pending[p].a] ELSE Returned[p]]
  BY ReturnedStep
<1> QED
  BY <1>6, <1>7, <1>8, <1>9, <1>10, <1>11 DEF Memory!Step, Bytes, Pending, Returned

(* Both ports together behave as atomic accesses to one memory, if the      *)
(* masters keep their cycles for 25 edges: the safety part of               *)
(* ImplementsMemory.                                                        *)
THEOREM SdramIsMemory ==
  ASSUME MinHold >= 25, NoRequest \notin Memory!Request
  PROVE  Spec => Memory!Init /\ [][Memory!Next]_Memory!vars
<1>1. Init => Memory!Init
  <2>1. SUFFICES ASSUME Init PROVE Memory!Init
    OBVIOUS
  <2>2. mem \in [Row -> [Col -> [{0, 1} -> Data]]] /\ AnyData \in Data
    BY <2>1, SizeAssumption DEF Init, AnyData
  <2>3. Bytes \in [Addr -> Data]
    BY <2>2 DEF Bytes, Addr
  <2>4. Pending = [p \in Ports |-> NoRequest]
    BY <2>1 DEF Init, Pending
  <2>5. Returned \in [Ports -> Data]
    BY <2>1, <2>2 DEF Init, Returned
  <2> QED
    BY <2>3, <2>4, <2>5 DEF Memory!Init, Bytes, Pending, Returned
<1>2. MemInv /\ [Next]_vars => [Memory!Next]_Memory!vars
  <2>1. SUFFICES ASSUME MemInv, [Next]_vars PROVE [Memory!Next]_Memory!vars
    OBVIOUS
  <2>2. CASE Next
    <3>1. PICK takes \in SUBSET Ports, serves \in SUBSET Ports :
            takes = Detected /\ serves = Acked
      BY DEF Detected, Acked
    <3>2. Memory!Step(takes, serves)
      BY <2>1, <2>2, <3>1, MemoryStep
    <3> QED
      BY <3>2 DEF Memory!Next
  <2>3. CASE UNCHANGED vars
    BY <2>3 DEF vars, requests, chip, Memory!vars
  <2> QED
    BY <2>1, <2>2, <2>3
<1>3. (Init => MemInv) /\ (MemInv /\ [Next]_vars => MemInv')
  BY MemInit, MemStep
<1> QED
  BY <1>1, <1>2, <1>3, PTL DEF Spec
=============================================================================
