------------------------------ MODULE UartMsx -------------------------------
(***************************************************************************)
(* The 8251 of the MSX MIDI interface, src/MSX/i8251/UART.vhd: the bus     *)
(* side on clock_i, the serial side (UartLine) on clock_c_i, and the flags *)
(* tx_empty_s and rx_ready_s between them.  rxd_i is connected to txd_o,   *)
(* cts_n_i is '0' as in Midi3.vhd, and the mode has been programmed.       *)
(*                                                                         *)
(* BusEdge is a rising edge of clock_i, SerialEdge one of clock_c_i; there *)
(* are 1 .. MaxBusEdges of the first between two of the second.  The       *)
(* processor looks at a flag (Poll) before each byte it writes.            *)
(***************************************************************************)
EXTENDS UartLine

CONSTANTS MaxBusEdges,
          Flags,         \* the flags polled: "ready" (status 0), "empty" (status 2)
          MaxBytes       \* no byte is written when so many have been due

ASSUME BusAssumption == MaxBusEdges \in Nat \ {0}
ASSUME FlagsAssumption == Flags \subseteq {"ready", "empty"}
ASSUME MaxBytesAssumption == MaxBytes \in Nat

VARIABLES last_cs2_s, tx_data_s, tx_empty_s,
          rx_ready_s, overrun_err_s, frame_err_s, reseterr_a, clr_reserr_s,
          permit,        \* the processor has seen a flag and may write
          edges          \* bus edges since the last serial edge

txside  == <<last_cs2_s, tx_data_s, tx_empty_s>>
rxside  == <<rx_ready_s, overrun_err_s, frame_err_s, reseterr_a, clr_reserr_s>>
history == <<permit, edges>>
vars    == <<line, written, txside, rxside, history>>

-----------------------------------------------------------------------------
tx_ready_s == tx_state = "IDLE" /\ ~load_tsr_s(tx_empty_s)

Seen(flag) == IF flag = "ready" THEN tx_ready_s ELSE tx_empty_s

\* The flag cleared when the byte goes to the shift register.
ClrTxEmptyAtLoad == load_tsr_s(tx_empty_s)

ClrTxEmpty == start_s

\* The processor reads the status register and finds the flag set.
Poll(flag) ==
  /\ ~permit /\ ~last_cs2_s /\ Len(written) < MaxBytes
  /\ Seen(flag)
  /\ permit' = TRUE
  /\ UNCHANGED <<line, written, txside, rxside, edges>>

\* start_s sets the flag of the byte it sends at every bus edge, and with it
\* that of one handed over while start_s is up: nobody will send that one.
TakenBack == start_s /\ ~tx_empty_s /\ Len(written) = Len(sent) + 2

Due(begins, d) ==
  IF begins THEN Append(written, d)
  ELSE IF TakenBack THEN SubSeq(written, 1, Len(sent) + 1) ELSE written

TxControl(datawrite, d) ==
  LET begins == datawrite /\ ~last_cs2_s
      ends   == ~datawrite /\ last_cs2_s
  IN  /\ last_cs2_s' = datawrite
      /\ tx_data_s' = IF begins THEN d ELSE tx_data_s
      /\ tx_empty_s' = (~ends /\ (ClrTxEmpty \/ tx_empty_s))
      /\ written' = Due(begins, d)
      /\ permit' = (~begins /\ permit)

RxControl(dataread) ==
  /\ rx_ready_s' = (~dataread /\ (set_ready_s \/ rx_ready_s))
  /\ clr_reserr_s' = reseterr_a
  /\ overrun_err_s' = (~reseterr_a /\ (overrun_err_s \/ set_oe_s(rx_ready_s)))
  /\ frame_err_s' = (~reseterr_a /\ (frame_err_s \/ set_fe_s(txd_s, rx_ready_s)))

\* ctrlwrite: the processor writes the control register with bit 4 set.
Control(ctrlwrite) == reseterr_a' = (ctrlwrite \/ (reseterr_a /\ ~clr_reserr_s))

\* access: what the processor does on the bus at this edge.
BusEdge(access, d) ==
  /\ edges < MaxBusEdges
  /\ access = "write" /\ ~last_cs2_s => permit
  /\ access = "read" => rx_ready_s
  /\ access = "control" => overrun_err_s \/ frame_err_s
  /\ TxControl(access = "write", d)
  /\ RxControl(access = "read")
  /\ Control(access = "control")
  /\ edges' = edges + 1
  /\ UNCHANGED line

SerialEdge ==
  /\ edges > 0
  /\ Line(tx_empty_s, tx_data_s, TRUE, txd_s, rx_ready_s)
  /\ edges' = 0
  /\ UNCHANGED <<written, txside, rxside, permit>>

Init ==
  /\ ResetLine
  /\ last_cs2_s = FALSE /\ tx_data_s \in Bytes /\ tx_empty_s = TRUE
  /\ rx_ready_s = FALSE /\ overrun_err_s = FALSE /\ frame_err_s = FALSE
  /\ reseterr_a = FALSE /\ clr_reserr_s = FALSE
  /\ permit = FALSE /\ edges = 0

AnyBusEdge == \E access \in {"none", "write", "read", "control"}, d \in Bytes :
                BusEdge(access, d)

Next == SerialEdge \/ AnyBusEdge \/ \E flag \in Flags : Poll(flag)

\* A write strobe is released.
Release == last_cs2_s /\ \E d \in Bytes : BusEdge("none", d)

\* Neither clock stops, and the processor does not hold a strobe for ever.
Spec == /\ Init /\ [][Next]_vars
        /\ WF_vars(SerialEdge) /\ WF_vars(AnyBusEdge) /\ SF_vars(Release)

-----------------------------------------------------------------------------
(* Every byte the processor hands over after polling a flag goes out once, *)
(* in order and well framed, although tx_empty_s is set on one clock for   *)
(* the other (lines 189-203), and no byte is left when the flags say so;   *)
(* except a byte whose strobe ends while the start bit of the one before   *)
(* is due, and at least a bus edge before the serial edge that sends it:   *)
(* that byte, and no other, is never sent.                                 *)
BytesOnceInOrder == SentInOrder /\ (~last_cs2_s => IdleMeansSent(tx_empty_s))

(* Every byte that was handed over, and not taken back like that, reaches  *)
(* the line.                                                               *)
EveryByteSent ==
  \A k \in 1 .. MaxBytes : Len(written) >= k ~> Len(sent) >= k \/ Len(written) < k
=============================================================================
