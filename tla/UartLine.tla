------------------------------ MODULE UartLine ------------------------------
(***************************************************************************)
(* The serial half of the 8251, as in src/MSX/i8251 and src/UART/i8251:    *)
(* UART_transmitter.vhd, UART_receiver.vhd and clk_divider.vhd, which run  *)
(* on one clock.  A byte is the tuple of its eight bits, bit 0 first.      *)
(*                                                                         *)
(* Line is a rising edge of that clock.  written, sent and frame are       *)
(* history: the bytes handed over that are due on the line (the bus side   *)
(* says which these are), the frames that have been on txd_o, and the bits *)
(* of the frame that is there now, as a receiver that samples at the end   *)
(* of every bit sees them.                                                 *)
(***************************************************************************)
EXTENDS Integers, Sequences

CONSTANTS BitClock,     \* clocks per bit: 16 or 64 in the code
          Bytes,        \* the bytes written
          NoByte,       \* a frame without a stop bit
          CharLen,      \* mode_r(3 downto 2): 3 is 8 bits
          StopBits      \* mode_r(7 downto 6): 1 is one stop bit

ASSUME BitClockAssumption == BitClock \in Nat /\ BitClock >= 4 /\ BitClock % 2 = 0
ASSUME BytesAssumption == Bytes \subseteq [1 .. 8 -> {0, 1}] /\ NoByte \notin Bytes
ASSUME ModeAssumption == CharLen \in 0 .. 3 /\ StopBits \in 0 .. 3

VARIABLES counter_q, bclk_dlayed_s,
          tx_state, tsr_q, bitcount_q,
          rx_state, rsr_r, ct1_q, rdr_o,
          written, sent, frame

transmitter == <<tx_state, tsr_q, bitcount_q>>
receiver    == <<rx_state, rsr_r, ct1_q, rdr_o>>
line        == <<counter_q, bclk_dlayed_s, transmitter, receiver, sent, frame>>

-----------------------------------------------------------------------------
(* The bit clock: a bit of a free-running counter, and its rising edge.    *)

baudclk_s == counter_q >= BitClock \div 2

bclk_rising_s == baudclk_s /\ ~bclk_dlayed_s

(* The transmitter: its line and its control outputs.                      *)

txd_s == tsr_q[1]

BitMax == 5 + CharLen + StopBits

load_tsr_s(tx_empty) == tx_state = "IDLE" /\ ~tx_empty

start_s == tx_state = "SYNCH" /\ bclk_rising_s

\* bitcount_q kept after the last bit.
CountAfterKept == bitcount_q

CountAfter == 0

LoadAndShift(tx_empty, tx_data) ==
  \/ /\ load_tsr_s(tx_empty)
     /\ tsr_q' = <<1>> \o tx_data
     /\ tx_state' = "SYNCH"
     /\ UNCHANGED bitcount_q
  \/ /\ start_s
     /\ tsr_q' = [tsr_q EXCEPT ![1] = 0]
     /\ tx_state' = "TDATA"
     /\ UNCHANGED bitcount_q
  \/ /\ tx_state = "TDATA" /\ bclk_rising_s /\ bitcount_q # BitMax
     /\ tsr_q' = Append(Tail(tsr_q), 1)
     /\ bitcount_q' = bitcount_q + 1
     /\ UNCHANGED tx_state
  \/ /\ tx_state = "TDATA" /\ bclk_rising_s /\ bitcount_q = BitMax
     /\ bitcount_q' = CountAfter
     /\ tx_state' = "IDLE"
     /\ UNCHANGED tsr_q

TxWaits(tx_empty) == \/ tx_state = "IDLE" /\ tx_empty
                     \/ tx_state # "IDLE" /\ ~bclk_rising_s

Transmit(tx_empty, tx_data) ==
  \/ LoadAndShift(tx_empty, tx_data)
  \/ TxWaits(tx_empty) /\ UNCHANGED transmitter

(* The receiver.                                                           *)

set_ready_s == rx_state = "RECV_DATA" /\ bclk_rising_s /\ ct1_q = 8

set_oe_s(ready) == set_ready_s /\ ready

set_fe_s(rx, ready) == set_ready_s /\ ~ready /\ rx = 0

Shift(rx) ==
  /\ rx_state = "RECV_DATA" /\ bclk_rising_s /\ ct1_q # 8
  /\ rsr_r' = Append(Tail(rsr_r), rx)
  /\ ct1_q' = ct1_q + 1
  /\ UNCHANGED <<rx_state, rdr_o>>

\* The byte put into the data register over one that is unread.
LoadedOverUnread(rx, ready) == IF rx = 1 THEN rsr_r ELSE rdr_o

Loaded(rx, ready) == IF ~ready /\ rx = 1 THEN rsr_r ELSE rdr_o

Receive(enable, rx, ready) ==
  \/ /\ rx_state = "IDLE" /\ rx = 0 /\ enable
     /\ rx_state' = "START_DETECTED"
     /\ UNCHANGED <<rsr_r, ct1_q, rdr_o>>
  \/ /\ rx_state = "START_DETECTED" /\ bclk_rising_s
     /\ rx_state' = IF rx = 1 THEN "IDLE" ELSE "RECV_DATA"
     /\ ct1_q' = 0
     /\ UNCHANGED <<rsr_r, rdr_o>>
  \/ Shift(rx)
  \/ /\ set_ready_s
     /\ rdr_o' = Loaded(rx, ready)
     /\ ct1_q' = 0 /\ rx_state' = "IDLE"
     /\ UNCHANGED rsr_r
  \/ /\ \/ rx_state = "IDLE" /\ ~(rx = 0 /\ enable)
        \/ rx_state # "IDLE" /\ ~bclk_rising_s
     /\ UNCHANGED receiver

-----------------------------------------------------------------------------
(* The observer of txd_o: frames of ten bits, a 0, eight bits and a 1.     *)
Observe ==
  IF ~bclk_rising_s \/ (frame = <<>> /\ txd_s = 1)
  THEN UNCHANGED <<sent, frame>>
  ELSE IF Len(frame) < 9
       THEN frame' = Append(frame, txd_s) /\ UNCHANGED sent
       ELSE /\ frame' = <<>>
            /\ sent' = Append(sent, IF txd_s = 1 THEN SubSeq(frame, 2, 9) ELSE NoByte)

ResetLine ==
  /\ counter_q = 0 /\ bclk_dlayed_s = FALSE
  /\ tx_state = "IDLE" /\ tsr_q = [i \in 1 .. 9 |-> 1] /\ bitcount_q = 0
  /\ rx_state = "IDLE" /\ ct1_q = 0 /\ rdr_o = [i \in 1 .. 8 |-> 1]
  /\ rsr_r \in {[i \in 1 .. 8 |-> b] : b \in {0, 1}}    \* not reset
  /\ written = <<>> /\ sent = <<>> /\ frame = <<>>

Line(tx_empty, tx_data, enable, rx, ready) ==
  /\ Transmit(tx_empty, tx_data)
  /\ Receive(enable, rx, ready)
  /\ Observe
  /\ counter_q' = (counter_q + 1) % BitClock
  /\ bclk_dlayed_s' = baudclk_s

(* The frames on the line are the bytes due, each once and in order,       *)
(* each with its start and stop bit, and at most two are still to come:    *)
(* one in the shift register, one behind it in the data register.          *)
SentInOrder ==
  /\ Len(written) - Len(sent) \in 0 .. 2
  /\ sent = SubSeq(written, 1, Len(sent))

(* When the transmitter says it is idle nothing is still to be sent.       *)
IdleMeansSent(tx_empty) ==
  tx_state = "IDLE" /\ tx_empty /\ frame = <<>> => sent = written
=============================================================================
