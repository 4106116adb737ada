-------------------------------- MODULE Uart --------------------------------
(***************************************************************************)
(* The 8251 of src/UART/i8251/UART.vhd: the serial side (UartLine) and the *)
(* flags run on clock_i; the bus strobes act on the flags asynchronously.  *)
(* rxd_i is connected to txd_o, both directions are enabled, the mode has  *)
(* been programmed.                                                        *)
(*                                                                         *)
(* datawrite_s and dataread_s are levels: a strobe begins and ends between *)
(* any two rising edges of clock_i (Edge), MaxHold of which may fall into  *)
(* it, and holds its flag at '0' for as long.  The control register takes  *)
(* its byte when its strobe begins, so that ResetErrors is one step.       *)
(***************************************************************************)
EXTENDS UartLine

CONSTANTS MaxHold,       \* clock edges under one strobe, at most
          Flags,         \* the flags polled: "ready" (status 0), "empty" (status 2)
          MaxBytes       \* no byte is written when so many have been due

ASSUME HoldAssumption == MaxHold \in Nat
ASSUME FlagsAssumption == Flags \subseteq {"ready", "empty"}
ASSUME MaxBytesAssumption == MaxBytes \in Nat

VARIABLES tx_data_s, tx_empty_s,
          rx_ready_s, overrun_err_s, frame_err_s, reseterr_a, clr_reserr_s,
          access,        \* the strobe that is up: "write", "read" or "none"
          hold,          \* the clock edges since it went up
          permit,        \* the flag the processor has seen, and may write for
          got,           \* the bytes it has read
          kept,          \* the frames received while no byte was unread
          lost,          \* bytes lost because one was unread or being read
          told,          \* how many of them when the errors were last reset
          missed,        \* those since that came at an edge when the flag could
          asked          \* not be set; a reset of the errors is asked for

txside  == <<tx_data_s, tx_empty_s>>
errors  == <<overrun_err_s, frame_err_s, reseterr_a, clr_reserr_s>>
bus     == <<access, hold, permit, got>>
history == <<kept, lost, told, missed, asked>>
vars    == <<line, written, txside, rx_ready_s, errors, bus, history>>

-----------------------------------------------------------------------------
datawrite_s == access = "write"
dataread_s  == access = "read"

tx_ready_s == tx_state = "IDLE"

Seen(flag) == IF flag = "ready" THEN tx_ready_s ELSE tx_empty_s

Poll(flag) ==
  /\ access = "none" /\ permit = "none" /\ Len(written) < MaxBytes
  /\ Seen(flag)
  /\ permit' = flag
  /\ UNCHANGED <<line, written, txside, rx_ready_s, errors, access, hold, got, history>>

Replaced(s, x) == [s EXCEPT ![Len(s)] = x]

\* "ready" is the state of the transmitter: a byte may still wait for it in
\* tx_data_s, and the next one takes its place.
WriteBegins(d) ==
  /\ access = "none" /\ permit # "none"
  /\ access' = "write" /\ hold' = 0 /\ permit' = "none"
  /\ tx_empty_s' = FALSE /\ tx_data_s' = d
  /\ written' = IF permit = "ready" /\ ~tx_empty_s THEN Replaced(written, d)
                                                   ELSE Append(written, d)
  /\ UNCHANGED <<line, rx_ready_s, errors, got, history>>

WriteEnds ==
  /\ datawrite_s
  /\ access' = "none" /\ hold' = 0
  /\ UNCHANGED <<line, written, txside, rx_ready_s, errors, permit, got, history>>

ReadBegins ==
  /\ access = "none" /\ rx_ready_s
  /\ access' = "read" /\ hold' = 0
  /\ rx_ready_s' = FALSE
  /\ UNCHANGED <<line, written, txside, errors, permit, got, history>>

\* The processor takes what is on data_o when it ends its strobe.
ReadEnds ==
  /\ dataread_s
  /\ access' = "none" /\ hold' = 0
  /\ got' = Append(got, rdr_o)
  /\ UNCHANGED <<line, written, txside, rx_ready_s, errors, permit, history>>

\* The control register is written with bit 4 set: lost while clr_reserr_s
\* holds the bit down.
ResetErrors ==
  /\ access = "none" /\ (overrun_err_s \/ frame_err_s)
  /\ reseterr_a' = ~clr_reserr_s
  /\ asked' = TRUE
  /\ UNCHANGED <<line, written, txside, rx_ready_s, overrun_err_s, frame_err_s,
                 clr_reserr_s, bus, kept, lost, told, missed>>

\* The bit that asks for the reset stays up.
ResetBitStuck == reseterr_a

ResetBit == FALSE

\* clr_reserr_s takes reseterr_a down as soon as it is up; nothing moves while
\* dataread_s is.
Errors ==
  IF dataread_s
  THEN UNCHANGED errors
  ELSE /\ clr_reserr_s' = reseterr_a
       /\ reseterr_a' = IF reseterr_a THEN ResetBit ELSE FALSE
       /\ overrun_err_s' = (~reseterr_a /\ (overrun_err_s \/ set_oe_s(rx_ready_s)))
       /\ frame_err_s' = (~reseterr_a /\ (frame_err_s \/ set_fe_s(txd_s, rx_ready_s)))

\* The flag not cleared: the byte is sent over and over.
ClrNever == FALSE

ClrTxEmpty == load_tsr_s(tx_empty_s)

\* A byte loaded under its own strobe stays due once more.
Due == IF datawrite_s /\ load_tsr_s(tx_empty_s) THEN Append(written, tx_data_s) ELSE written

\* A frame that ends under the read strobe takes the place of the byte read.
Keep(byte) == IF dataread_s THEN Replaced(kept, byte)
              ELSE IF rx_ready_s THEN kept ELSE Append(kept, byte)

Tally ==
  LET loss == IF set_ready_s /\ (rx_ready_s \/ dataread_s) THEN 1 ELSE 0
  IN  /\ kept' = IF set_ready_s THEN Keep(SubSeq(frame, 2, 9)) ELSE kept
      /\ lost' = lost + loss
      /\ \/ /\ asked /\ ~dataread_s
            /\ told' = lost /\ missed' = loss /\ asked' = FALSE
         \/ /\ dataread_s
            /\ missed' = missed + loss /\ UNCHANGED <<told, asked>>
         \/ /\ ~asked /\ ~dataread_s
            /\ UNCHANGED <<told, missed, asked>>

Edge ==
  /\ access # "none" => hold < MaxHold
  /\ Line(tx_empty_s, tx_data_s, TRUE, txd_s, rx_ready_s)
  /\ tx_empty_s' = (~datawrite_s /\ (ClrTxEmpty \/ tx_empty_s))
  /\ rx_ready_s' = (~dataread_s /\ (set_ready_s \/ rx_ready_s))
  /\ Errors
  /\ hold' = IF access = "none" THEN 0 ELSE hold + 1
  /\ written' = Due
  /\ Tally
  /\ UNCHANGED <<tx_data_s, access, permit, got>>

Init ==
  /\ ResetLine
  /\ tx_data_s \in Bytes /\ tx_empty_s = TRUE
  /\ rx_ready_s = FALSE /\ overrun_err_s = FALSE /\ frame_err_s = FALSE
  /\ reseterr_a = FALSE /\ clr_reserr_s = FALSE
  /\ access = "none" /\ hold = 0 /\ permit = "none" /\ got = <<>>
  /\ kept = <<>> /\ lost = 0 /\ told = 0 /\ missed = 0 /\ asked = FALSE

Next ==
  \/ Edge
  \/ \E flag \in Flags : Poll(flag)
  \/ \E d \in Bytes : WriteBegins(d)
  \/ WriteEnds
  \/ ReadBegins
  \/ ReadEnds
  \/ ResetErrors

Spec == Init /\ [][Next]_vars

-----------------------------------------------------------------------------
(* What goes out on the line, whenever the strobes begin and end: every    *)
(* byte written, in order, and once, but for two.  A byte goes out once    *)
(* more when the transmitter takes it while the strobe that writes it is   *)
(* up, which holds tx_empty_s at '0' (TX control).  And a byte written     *)
(* after "ready" was polled, but never one after "empty", takes the place  *)
(* of one the transmitter has not taken yet.                               *)
BytesOnceInOrder == SentInOrder /\ IdleMeansSent(tx_empty_s)

(* What the processor reads, with the byte that still waits for it or is   *)
(* being read, is what was received: no byte twice, changed, or out of     *)
(* order.  Missing are a byte that comes while another is unread, which    *)
(* stays, and a byte that is being read when the next one ends: the next   *)
(* one takes its place (UART_receiver.vhd, RECV_DATA; RX Control).         *)
ReceivedIntact ==
  kept = got \o (IF rx_ready_s \/ dataread_s THEN <<rdr_o>> ELSE <<>>)

(* A byte lost since the errors were last reset shows in the overrun flag, *)
(* and the flag shows nothing else, except one that is lost at the very    *)
(* edge that resets the errors or under a read strobe: nothing ever tells  *)
(* of it.  A second reset is never needed (RX Control, reseterr_a and      *)
(* clr_reserr_s).                                                          *)
OverrunReported == overrun_err_s <=> lost > told + missed
=============================================================================
