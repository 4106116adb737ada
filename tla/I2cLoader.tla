----------------------------- MODULE I2cLoader ------------------------------
(***************************************************************************)
(* src/audio/i2c_loader.vhd, which writes a table of codec registers over  *)
(* I2C after reset, and the codec at the other end of the bus.             *)
(*                                                                         *)
(* One step is one rising edge of clock_i with clken = '1', a quarter of   *)
(* an SCL cycle.  Lines are 0 and 1, a line is low when one side pulls it. *)
(* The codec samples at the rise of SCL, pulls or does not pull SDA for    *)
(* the ninth clock, and lets go of it at the end of that clock or somewhat *)
(* earlier, as the comment at lines 241-246 says the Wolfson codec does.   *)
(***************************************************************************)
EXTENDS Integers, Sequences

CONSTANTS init_regs,        \* the table, bytes in transmission order
          device_address,
          num_retries,
          MaxNaks           \* bytes the codec does not acknowledge, at most

ASSUME TableAssumption ==
  /\ init_regs \in Seq(0 .. 255) /\ Len(init_regs) > 0 /\ Len(init_regs) % 2 = 0
ASSUME AddressAssumption == device_address \in 0 .. 127
ASSUME RetriesAssumption == num_retries \in Nat /\ MaxNaks \in Nat

VARIABLES state, phase, nbit, nbyte, thisbyte, retries, shiftreg, scl_out, sda_out, nak,
          listening, bits, ninth, pulls, burst, written, naks      \* the codec

bus     == <<scl_out, sda_out>>
codec   == <<listening, bits, ninth, pulls, burst, written, naks>>
counts  == <<nbit, nbyte, thisbyte, retries>>
vars    == <<state, phase, counts, shiftreg, nak, bus, codec>>

burst_length == 2

Weight == <<128, 64, 32, 16, 8, 4, 2, 1>>

\* The most significant bit first.
Bits(byte) == [i \in 1 .. 8 |-> (byte \div Weight[i]) % 2]

Low(line) == line = 0

sda == IF Low(sda_out) \/ pulls THEN 0 ELSE 1

\* The byte after the next.
TableBitsLate(i) == IF i + 1 < Len(init_regs) THEN Bits(init_regs[i + 2]) ELSE Bits(255)

\* Beyond the table there is no byte.
TableBits(i) == IF i < Len(init_regs) THEN Bits(init_regs[i + 1]) ELSE Bits(255)

AddressBits == Bits(2 * device_address)

-----------------------------------------------------------------------------
(* The codec, for what the loader does to the lines in the same step.      *)

Sda(next_pulls) == IF Low(sda_out') \/ next_pulls THEN 0 ELSE 1

Starts == scl_out = 1 /\ scl_out' = 1 /\ sda = 1 /\ Sda(pulls') = 0
Stops  == scl_out = 1 /\ scl_out' = 1 /\ sda = 0 /\ Sda(pulls') = 1
Rises  == scl_out = 0 /\ scl_out' = 1
Falls  == scl_out = 1 /\ scl_out' = 0

\* At the fall after the eighth bit the codec acknowledges or does not; it
\* holds its acknowledgement over the ninth clock's rise.
Pulls ==
  \/ /\ Falls /\ listening /\ Len(bits) = 8 /\ ~ninth
     /\ \/ pulls' = TRUE /\ naks' = naks
        \/ pulls' = FALSE /\ naks < MaxNaks /\ naks' = naks + 1
  \/ /\ ~(Falls /\ listening /\ Len(bits) = 8 /\ ~ninth)
     /\ pulls' \in (IF ~pulls \/ (Falls /\ ninth) THEN {FALSE}
                    ELSE IF scl_out = 1 /\ scl_out' = 1 THEN {TRUE, FALSE} ELSE {TRUE})
     /\ naks' = naks

Codec ==
  /\ Pulls
  /\ listening' = (Starts \/ (listening /\ ~Stops /\ naks' = naks))
  /\ bits' = IF Starts \/ (Falls /\ ninth) THEN <<>>
             ELSE IF Rises /\ Len(bits) < 8 /\ listening THEN Append(bits, Sda(pulls'))
             ELSE bits
  /\ ninth' = \/ Falls /\ listening /\ Len(bits) = 8 /\ ~ninth /\ naks' = naks
              \/ ninth /\ ~Falls /\ ~Starts
  /\ burst' = IF Starts THEN <<>>
              ELSE IF Falls /\ ninth THEN Append(burst, bits) ELSE burst
  /\ written' = IF Stops /\ burst # <<>> THEN Append(written, burst) ELSE written

-----------------------------------------------------------------------------
(* The loader.                                                             *)

\* The phase left out of the default.
PhaseStays == phase' = phase

NextPhase == phase' = (phase + 1) % 4

Idle ==
  /\ state = "Idle"
  /\ state' = "Start" /\ phase' = 0
  /\ scl_out' = 1 /\ sda_out' = 1
  /\ UNCHANGED <<counts, shiftreg, nak>>

Start ==
  /\ state = "Start" /\ NextPhase
  /\ sda_out' = IF phase = 0 THEN 0 ELSE sda_out
  /\ scl_out' = IF phase = 2 THEN 0 ELSE scl_out
  /\ IF phase = 3
     THEN /\ state' = "Data" /\ nbit' = 7 /\ nbyte' = burst_length
          /\ shiftreg' = AddressBits
     ELSE UNCHANGED <<state, nbit, nbyte, shiftreg>>
  /\ UNCHANGED <<thisbyte, retries, nak>>

LastBit == nbit = 0

Data ==
  /\ state = "Data" /\ NextPhase
  /\ scl_out' = CASE phase = 0 -> 0 [] phase = 2 -> 1 [] OTHER -> scl_out
  /\ IF phase = 1
     THEN sda_out' = Head(shiftreg) /\ shiftreg' = Append(Tail(shiftreg), 0)
     ELSE UNCHANGED <<sda_out, shiftreg>>
  /\ state' = IF phase = 3 /\ LastBit THEN "Ack" ELSE state
  /\ nbit' = IF phase = 3 /\ ~LastBit THEN nbit - 1 ELSE nbit
  /\ UNCHANGED <<nbyte, thisbyte, retries, nak>>

\* SDA let go of as soon as the acknowledgement is seen.
HeldAckReleased == 1

HeldAck == 0

\* The rest of the table sent after an error.
SkippedNothing == thisbyte

Skipped == Len(init_regs)

SampleAck ==
  /\ nak' = sda
  /\ scl_out' = 1
  /\ IF sda = 1
     THEN nbyte' = 0 /\ thisbyte' = Skipped /\ UNCHANGED sda_out
     ELSE sda_out' = HeldAck /\ UNCHANGED <<nbyte, thisbyte>>

NextByte ==
  IF nbyte = 0
  THEN state' = "Stop" /\ UNCHANGED <<nbit, shiftreg, nbyte, thisbyte>>
  ELSE /\ state' = "Data" /\ nbit' = 7
       /\ shiftreg' = TableBits(thisbyte)
       /\ nbyte' = nbyte - 1 /\ thisbyte' = thisbyte + 1

Ack ==
  /\ state = "Ack" /\ NextPhase
  /\ \/ phase = 0 /\ scl_out' = 0 /\ UNCHANGED <<sda_out, nak, state, shiftreg, nbit, nbyte, thisbyte>>
     \/ phase = 1 /\ sda_out' = 1 /\ UNCHANGED <<scl_out, nak, state, shiftreg, nbit, nbyte, thisbyte>>
     \/ phase = 2 /\ SampleAck /\ UNCHANGED <<state, shiftreg, nbit>>
     \/ phase = 3 /\ NextByte /\ UNCHANGED <<bus, nak>>
  /\ UNCHANGED retries

Stop ==
  /\ state = "Stop" /\ NextPhase
  /\ scl_out' = CASE phase = 0 -> 0 [] phase = 2 -> 1 [] OTHER -> scl_out
  /\ sda_out' = IF phase = 1 THEN 0 ELSE sda_out
  /\ state' = IF phase # 3 THEN state
              ELSE IF thisbyte = Len(init_regs) THEN "Done" ELSE "Pause"
  /\ UNCHANGED <<counts, shiftreg, nak>>

Pause ==
  /\ state = "Pause" /\ NextPhase
  /\ scl_out' = 1 /\ sda_out' = 1
  /\ state' = IF phase = 3 THEN "Start" ELSE state
  /\ UNCHANGED <<counts, shiftreg, nak>>

Done ==
  /\ state = "Done" /\ NextPhase
  /\ scl_out' = 1 /\ sda_out' = 1
  /\ IF nak = 1 /\ retries > 0
     THEN retries' = retries - 1 /\ state' = "Idle"
     ELSE UNCHANGED <<retries, state>>
  /\ UNCHANGED <<nbit, nbyte, thisbyte, shiftreg, nak>>

Init ==
  /\ state = "Idle" /\ phase = 0 /\ nbit = 0 /\ nbyte = 0 /\ thisbyte = 0
  /\ retries = num_retries /\ shiftreg = Bits(0)
  /\ scl_out = 1 /\ sda_out = 1 /\ nak = 0
  /\ listening = FALSE /\ bits = <<>> /\ ninth = FALSE /\ pulls = FALSE
  /\ burst = <<>> /\ written = <<>> /\ naks = 0

Loader == Idle \/ Start \/ Data \/ Ack \/ Stop \/ Pause \/ Done

Next == Loader /\ Codec

\* The clock does not stop.
Spec == Init /\ [][Next]_vars /\ WF_vars(Next)

-----------------------------------------------------------------------------
(* "avoid spurious stops" (lines 241-246): while SCL is high SDA moves     *)
(* only for a start, a stop, or while the bus is idle, also when the codec *)
(* lets go of its acknowledgement before SCL falls.                        *)
NoSpuriousConditions ==
  [][Starts \/ Stops => state \in {"Start", "Pause", "Done"}]_vars

(* The k-th burst: the device address with the write bit, and two bytes.   *)
Expected(k) == <<AddressBits, Bits(init_regs[2 * k - 1]), Bits(init_regs[2 * k])>>

(* What the codec has been sent is the table from its beginning, burst by  *)
(* burst; the last burst may be cut off by a byte it did not acknowledge.  *)
TableInOrder ==
  \A k \in 1 .. Len(written) :
    /\ written[k] = SubSeq(Expected(k), 1, Len(written[k]))
    /\ Len(written[k]) < 3 => k = Len(written) /\ naks > 0

(* The status outputs: done without an error means that the codec has the  *)
(* whole table, done with one that it did not acknowledge a byte.          *)
DoneMeansLoaded ==
  state = "Done" /\ scl_out = 1 /\ sda_out = 1 =>
    IF nak = 0 THEN written = [k \in 1 .. Len(init_regs) \div 2 |-> Expected(k)]
    ELSE naks > 0

(* The loader finishes.                                                    *)
EventuallyDone == <>(state = "Done")
=============================================================================
