-------------------------------- MODULE I2s ---------------------------------
(***************************************************************************)
(* The I2S interface to an audio codec, src/audio/i2s_intf.vhd (the        *)
(* transmitter i2s_transmitter.vhd is the same process without the input). *)
(* Three down-counters make LRCLK and BCLK from one clock; a shift         *)
(* register sends a word and takes one in every LRCLK half cycle (slot).   *)
(*                                                                         *)
(* i2s_shiftreg is the code's shiftreg.                                    *)
(*                                                                         *)
(* One step is one rising edge of clock_i.  word, incoming and taken are   *)
(* the other end of the wire: the word the slot was loaded with, the word  *)
(* the codec sends in it, and the bits it has sampled at rises of BCLK.    *)
(***************************************************************************)
EXTENDS Integers, Sequences

CONSTANTS ratio_mclk_fs, preamble, word_length

nbits == preamble + word_length

ASSUME GenericsAssumption ==
  /\ preamble \in Nat /\ word_length \in Nat \ {0} /\ ratio_mclk_fs \in Nat
  /\ ratio_mclk_fs >= 4 * nbits     \* else bdivider's range is empty

lrdivider_top == ratio_mclk_fs - 1

\* As it would be with the quotient rounded up.
bdivider_top_rounded == 2 * ((ratio_mclk_fs \div 4) \div nbits + 1) - 1

bdivider_top == 2 * ((ratio_mclk_fs \div 4) \div nbits) - 1

Word == [0 .. word_length - 1 -> {0, 1}]

Silence == [i \in 0 .. word_length - 1 |-> 0]

VARIABLES lrdivider, bdivider, bitcount, lrclk_r, bclk_r, i2s_shiftreg,
          pcm_inl_o, pcm_inr_o,
          word, incoming, taken

clocks == <<lrdivider, bdivider, bitcount, lrclk_r, bclk_r>>
i2s_vars == <<clocks, i2s_shiftreg, pcm_inl_o, pcm_inr_o, word, incoming, taken>>

-----------------------------------------------------------------------------
i2s_d_o == i2s_shiftreg[nbits]

ReceivedLeft == [i \in 0 .. word_length - 1 |-> i2s_shiftreg[i + 1]]

ReceivedWord == [i \in 0 .. word_length - 1 |-> i2s_shiftreg[i]]

\* The word put in right justified.
LoadedRight(w) == [i \in 0 .. nbits |-> IF i < word_length THEN w[i] ELSE 0]

\* The word left justified behind the preamble; bit 0 is for the input.
Loaded(w) ==
  [i \in 0 .. nbits |-> IF i = 0 THEN i2s_shiftreg[0] ELSE IF i > word_length THEN 0 ELSE w[i - 1]]

ShiftedWord == [i \in 0 .. nbits |-> IF i = 0 THEN i2s_shiftreg[0] ELSE i2s_shiftreg[i - 1]]

\* The bit the codec drives: something during the preamble, then its word.
Driven == {b \in {0, 1} : bitcount \in 1 .. word_length => b = incoming[bitcount - 1]}

\* lrdivider = 0: the next slot, of the other channel, is loaded with w; the
\* codec answers with in.
Slot(l, r, in) ==
  LET w == IF lrclk_r = 0 THEN r ELSE l
  IN  /\ lrdivider = 0
      /\ lrdivider' = lrdivider_top /\ bdivider' = bdivider_top
      /\ bitcount' = nbits
      /\ lrclk_r' = 1 - lrclk_r /\ bclk_r' = 0
      /\ i2s_shiftreg' = Loaded(w)
      /\ pcm_inl_o' = IF lrclk_r = 0 THEN ReceivedWord ELSE pcm_inl_o
      /\ pcm_inr_o' = IF lrclk_r = 0 THEN pcm_inr_o ELSE ReceivedWord
      /\ word' = w /\ incoming' = in /\ taken' = <<>>

Tick ==
  /\ lrdivider > 0 /\ bdivider > 0
  /\ lrdivider' = lrdivider - 1 /\ bdivider' = bdivider - 1
  /\ UNCHANGED <<bitcount, lrclk_r, bclk_r, i2s_shiftreg, pcm_inl_o, pcm_inr_o,
                 word, incoming, taken>>

\* BCLK parked low.
WaitLow ==
  /\ lrdivider > 0 /\ bdivider = 0 /\ bitcount = 0
  /\ lrdivider' = lrdivider - 1 /\ bclk_r' = 0
  /\ UNCHANGED <<bdivider, bitcount, lrclk_r, i2s_shiftreg, pcm_inl_o, pcm_inr_o,
                 word, incoming, taken>>

\* Every bit is out: BCLK waits for LRCLK.
Wait ==
  /\ lrdivider > 0 /\ bdivider = 0 /\ bitcount = 0
  /\ lrdivider' = lrdivider - 1
  /\ UNCHANGED <<bdivider, bitcount, lrclk_r, bclk_r, i2s_shiftreg, pcm_inl_o, pcm_inr_o,
                 word, incoming, taken>>

Rise(i2s_d_i) ==
  /\ lrdivider > 0 /\ bdivider = 0 /\ bitcount > 0 /\ bclk_r = 0
  /\ lrdivider' = lrdivider - 1 /\ bdivider' = bdivider_top
  /\ bclk_r' = 1 /\ bitcount' = bitcount - 1
  /\ i2s_shiftreg' = [i2s_shiftreg EXCEPT ![0] = i2s_d_i]
  /\ taken' = Append(taken, i2s_d_o)
  /\ UNCHANGED <<lrclk_r, pcm_inl_o, pcm_inr_o, word, incoming>>

Fall ==
  /\ lrdivider > 0 /\ bdivider = 0 /\ bitcount > 0 /\ bclk_r = 1
  /\ lrdivider' = lrdivider - 1 /\ bdivider' = bdivider_top
  /\ bclk_r' = 0
  /\ i2s_shiftreg' = ShiftedWord
  /\ UNCHANGED <<bitcount, lrclk_r, pcm_inl_o, pcm_inr_o, word, incoming, taken>>

I2sInit ==
  /\ lrdivider = lrdivider_top /\ bdivider = bdivider_top /\ bitcount = nbits
  /\ lrclk_r = 0 /\ bclk_r = 0
  /\ i2s_shiftreg = [i \in 0 .. nbits |-> 0]
  /\ pcm_inl_o = Silence /\ pcm_inr_o = Silence
  /\ word = Silence /\ incoming \in Word /\ taken = <<>>

I2sNext ==
  \/ \E l, r, in \in Word : Slot(l, r, in)
  \/ Tick
  \/ Wait
  \/ \E i2s_d_i \in Driven : Rise(i2s_d_i)
  \/ Fall

I2sSpec == I2sInit /\ [][I2sNext]_i2s_vars

-----------------------------------------------------------------------------
TypeOK ==
  /\ lrdivider \in 0 .. lrdivider_top
  /\ bdivider \in 0 .. bdivider_top
  /\ bitcount \in 0 .. nbits
  /\ lrclk_r \in {0, 1} /\ bclk_r \in {0, 1}
  /\ i2s_shiftreg \in [0 .. nbits -> {0, 1}]
  /\ pcm_inl_o \in Word /\ pcm_inr_o \in Word
  /\ word \in Word /\ incoming \in Word /\ taken \in Seq({0, 1})

(* "The bit rate is determined such that it is fast enough to fit preamble *)
(* + word_length bits into each LRCLK half cycle" (i2s_intf.vhd:66-68):    *)
(* when the slot ends every bit has been sampled.                          *)
BitsFit == lrdivider = 0 => bitcount = 0

(* "The first falling edge of each timeslot is always synchronised with    *)
(* the LRCLK edge" (i2s_intf.vhd:71-72): BCLK is high when the slot ends   *)
(* and falls with LRCLK, and after that data changes on falls only.        *)
FallsWithLrclk == lrdivider = 0 => bclk_r = 1

(* In the slot the codec has sampled the preamble and the word that was    *)
(* loaded, most significant bit first.                                     *)
WordSent ==
  lrdivider = 0 => taken = [k \in 1 .. nbits |-> IF k <= preamble THEN 0 ELSE word[nbits - k]]

(* The word the codec sent in a slot is put out at its end, on the output  *)
(* of the channel the slot belonged to.                                    *)
WordReceived ==
  [][lrclk_r' # lrclk_r =>
       (IF lrclk_r = 0 THEN pcm_inl_o' ELSE pcm_inr_o') = incoming]_i2s_vars

(* The argument for BitsFit.  Until the last bit is sampled the clocks of  *)
(* the slot so far are those of the halves of BCLK it has finished and of  *)
(* the one it is in.                                                       *)
half_period == bdivider_top + 1

halves == 2 * (nbits - bitcount) - bclk_r

SlotBudget ==
  bitcount > 0 =>
    lrdivider_top - lrdivider = halves * half_period + (bdivider_top - bdivider)

ParkedHigh == bitcount = 0 => bclk_r = 1

SlotInv == TypeOK /\ SlotBudget /\ ParkedHigh
=============================================================================
