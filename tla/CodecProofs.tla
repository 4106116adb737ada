---------------------------- MODULE CodecProofs -----------------------------
(***************************************************************************)
(* Proofs about the two halves of the interface to the audio codec.        *)
(*                                                                         *)
(* I2s, for every clock ratio, preamble and word length the entity         *)
(* elaborates with: the bits fit into the slot, and BCLK is back in step   *)
(* with LRCLK; what a slot was loaded with is what the codec samples in    *)
(* it, and what the codec sends is what is put out.                        *)
(*                                                                         *)
(* I2cLoader without retries, for every table, device address and number   *)
(* of refused bytes: the codec receives the table in order, the status     *)
(* tells whether it has all of it, and the bus sees no stray start or      *)
(* stop.                                                                   *)
(***************************************************************************)
EXTENDS I2s, I2cLoader, SequenceTheorems, TLAPS

\* The half period of BCLK: twice the divider's quotient.
quarter == (ratio_mclk_fs \div 4) \div nbits

-----------------------------------------------------------------------------
(* Integer division rounds down.                                           *)
LEMMA DivRoundsDown ==
  ASSUME NEW a \in Nat, NEW d \in Nat \ {0}
  PROVE  /\ a \div d \in Nat
         /\ d * (a \div d) <= a
         /\ a >= d => a \div d >= 1
  BY SMT

(* A product grows with its first factor.                                  *)
LEMMA ProductMonotone ==
  ASSUME NEW a \in Int, NEW b \in Int, a <= b, NEW c \in Nat
  PROVE  a * c <= b * c
  BY SMT

(* Distributivity, in the one form that is needed.                         *)
LEMMA OneMoreHalf ==
  ASSUME NEW e \in Int, NEW b \in Int
  PROVE  (e + 1) * b = e * b + b
  BY SMT

(* All halves of BCLK in a slot, two for each bit, together take no more   *)
(* clocks than the slot has.                                               *)
LEMMA HalvesFit ==
  /\ nbits \in Nat \ {0} /\ quarter \in Nat \ {0}
  /\ half_period = 2 * quarter
  /\ half_period \in Nat \ {0}
  /\ bdivider_top = half_period - 1 /\ bdivider_top \in Nat
  /\ lrdivider_top \in Nat \ {0} /\ lrdivider_top + 1 = ratio_mclk_fs
  /\ (2 * nbits) * half_period <= ratio_mclk_fs
<1>1. nbits \in Nat \ {0} /\ ratio_mclk_fs \in Nat /\ ratio_mclk_fs >= 4 * nbits
  BY GenericsAssumption DEF nbits
<1>2. /\ ratio_mclk_fs \div 4 \in Nat
      /\ 4 * (ratio_mclk_fs \div 4) <= ratio_mclk_fs
      /\ ratio_mclk_fs \div 4 >= nbits
  BY <1>1, SMT
<1>3. /\ quarter \in Nat /\ nbits * quarter <= ratio_mclk_fs \div 4
      /\ quarter >= 1
  BY <1>1, <1>2, DivRoundsDown DEF quarter
<1>4. half_period = 2 * quarter
  BY <1>3, SMT DEF half_period, bdivider_top, quarter
<1>5. (2 * nbits) * (2 * quarter) = 4 * (nbits * quarter)
  BY <1>1, <1>3, SMT
<1>6. (2 * nbits) * half_period <= ratio_mclk_fs
  BY <1>1, <1>2, <1>3, <1>4, <1>5, SMT
<1>7. bdivider_top = half_period - 1
  BY <1>3, <1>4, SMT DEF half_period, bdivider_top, quarter
<1> QED
  BY <1>1, <1>3, <1>4, <1>6, <1>7, SMT DEF lrdivider_top

(* One half more is one half period more.                                  *)
LEMMA NextHalf ==
  ASSUME NEW e \in Int
  PROVE  (e + 1) * half_period = e * half_period + half_period
  BY HalvesFit, OneMoreHalf

-----------------------------------------------------------------------------
(* The type invariant holds initially.                                     *)
LEMMA InitType == I2sInit => TypeOK
<1> SUFFICES ASSUME I2sInit PROVE TypeOK
  OBVIOUS
<1>1. Silence \in Word /\ [i \in 0 .. nbits |-> 0] \in [0 .. nbits -> {0, 1}]
  BY DEF Silence, Word
<1>2. lrdivider \in 0 .. lrdivider_top /\ bdivider \in 0 .. bdivider_top /\ bitcount \in 0 .. nbits
  BY HalvesFit, SMT DEF I2sInit
<1> QED
  BY <1>1, <1>2 DEF I2sInit, TypeOK

(* The words read from and loaded into the shift register have their type. *)
LEMMA ShiftRegisterTypes ==
  ASSUME TypeOK
  PROVE  /\ ReceivedWord \in Word
         /\ \A w \in Word : Loaded(w) \in [0 .. nbits -> {0, 1}]
         /\ ShiftedWord \in [0 .. nbits -> {0, 1}]
         /\ i2s_d_o \in {0, 1}
<1> USE GenericsAssumption DEF TypeOK, nbits
<1>1. \A i \in 0 .. word_length - 1 : i \in 0 .. nbits
  BY SMT
<1>2. ReceivedWord \in Word
  BY <1>1 DEF ReceivedWord, Word
<1>3. ASSUME NEW w \in Word PROVE Loaded(w) \in [0 .. nbits -> {0, 1}]
  <2>1. \A i \in 0 .. nbits : i # 0 /\ ~(i > word_length) => i - 1 \in 0 .. word_length - 1
    BY SMT
  <2>2. 0 \in 0 .. nbits
    BY SMT
  <2> QED
    BY <2>1, <2>2 DEF Loaded, Word
<1>4. ShiftedWord \in [0 .. nbits -> {0, 1}]
  <2>1. \A i \in 0 .. nbits : i # 0 => i - 1 \in 0 .. nbits
    BY SMT
  <2>2. 0 \in 0 .. nbits
    BY SMT
  <2> QED
    BY <2>1, <2>2 DEF ShiftedWord
<1>5. i2s_d_o \in {0, 1}
  <2>1. nbits \in 0 .. nbits
    BY SMT
  <2> QED
    BY <2>1 DEF i2s_d_o
<1> QED
  BY <1>2, <1>3, <1>4, <1>5

(* The divider's ranges as arithmetic facts.                               *)
LEMMA CountersInRange ==
  ASSUME TypeOK
  PROVE  /\ lrdivider \in Nat /\ lrdivider <= lrdivider_top
         /\ bdivider \in Nat /\ bdivider <= bdivider_top
         /\ bitcount \in Nat /\ bitcount <= nbits
         /\ bclk_r \in {0, 1}
         /\ halves \in Int
  BY HalvesFit, SMT DEF TypeOK, halves

(* Every step preserves the type invariant.                                *)
LEMMA NextType == TypeOK /\ [I2sNext]_i2s_vars => TypeOK'
<1> SUFFICES ASSUME TypeOK, [I2sNext]_i2s_vars PROVE TypeOK'
  OBVIOUS
<1> USE HalvesFit, CountersInRange
<1>1. ASSUME NEW l \in Word, NEW r \in Word, NEW in \in Word, Slot(l, r, in) PROVE TypeOK'
  <2> DEFINE w == IF lrclk_r = 0 THEN r ELSE l
  <2>1. w \in Word /\ Loaded(w) \in [0 .. nbits -> {0, 1}] /\ ReceivedWord \in Word
    BY ShiftRegisterTypes
  <2>2. /\ lrdivider' \in 0 .. lrdivider_top /\ bdivider' \in 0 .. bdivider_top
        /\ bitcount' \in 0 .. nbits
    BY <1>1, SMT DEF Slot
  <2>3. lrclk_r' \in {0, 1} /\ bclk_r' \in {0, 1}
    BY <1>1, SMT DEF Slot, TypeOK
  <2>4. pcm_inl_o' \in Word /\ pcm_inr_o' \in Word
    BY <1>1, <2>1 DEF Slot, TypeOK
  <2>5. i2s_shiftreg' \in [0 .. nbits -> {0, 1}] /\ word' \in Word /\ incoming' \in Word
    BY <1>1, <2>1 DEF Slot
  <2>6. taken' \in Seq({0, 1})
    BY <1>1 DEF Slot
  <2> QED
    BY <2>2, <2>3, <2>4, <2>5, <2>6 DEF TypeOK
<1>2. CASE Tick
  <2>1. lrdivider' \in 0 .. lrdivider_top /\ bdivider' \in 0 .. bdivider_top
    BY <1>2, SMT DEF Tick
  <2> QED
    BY <1>2, <2>1 DEF Tick, TypeOK
<1>3. CASE Wait
  <2>1. lrdivider' \in 0 .. lrdivider_top
    BY <1>3, SMT DEF Wait
  <2> QED
    BY <1>3, <2>1 DEF Wait, TypeOK
<1>4. ASSUME NEW d \in Driven, Rise(d) PROVE TypeOK'
  <2>1. /\ lrdivider' \in 0 .. lrdivider_top /\ bdivider' \in 0 .. bdivider_top
        /\ bitcount' \in 0 .. nbits
    BY <1>4, SMT DEF Rise
  <2>2. d \in {0, 1}
    BY DEF Driven
  <2>3. i2s_shiftreg' \in [0 .. nbits -> {0, 1}]
    BY <1>4, <2>2 DEF Rise, TypeOK
  <2>4. taken' \in Seq({0, 1})
    BY <1>4, ShiftRegisterTypes DEF Rise, TypeOK
  <2> QED
    BY <1>4, <2>1, <2>3, <2>4 DEF Rise, TypeOK
<1>5. CASE Fall
  <2>1. lrdivider' \in 0 .. lrdivider_top /\ bdivider' \in 0 .. bdivider_top
    BY <1>5, SMT DEF Fall
  <2>2. i2s_shiftreg' \in [0 .. nbits -> {0, 1}]
    BY <1>5, ShiftRegisterTypes DEF Fall
  <2> QED
    BY <1>5, <2>1, <2>2 DEF Fall, TypeOK
<1>6. CASE UNCHANGED i2s_vars
  BY <1>6 DEF i2s_vars, clocks, TypeOK
<1> QED
  BY <1>1, <1>2, <1>3, <1>4, <1>5, <1>6 DEF I2sNext

-----------------------------------------------------------------------------
(* The account in the next state: only the counters change.                *)
LEMMA NextBudget ==
  SlotBudget' <=>
    (bitcount' > 0 =>
       lrdivider_top - lrdivider' = halves' * half_period + (bdivider_top - bdivider'))
  BY DEF SlotBudget, half_period, lrdivider_top, bdivider_top

(* The clocks of the finished halves are an integer.                       *)
LEMMA ProductType ==
  ASSUME NEW e \in Int
  PROVE  e * half_period \in Int
  BY HalvesFit, SMT

(* The slot's invariant holds initially.                                   *)
LEMMA InitSlot == I2sInit => SlotInv
<1> SUFFICES ASSUME I2sInit PROVE SlotInv
  OBVIOUS
<1>1. TypeOK
  BY InitType
<1>2. halves = 0
  BY HalvesFit, SMT DEF I2sInit, halves
<1>3. halves * half_period = 0
  BY <1>2, HalvesFit, SMT
<1>4. SlotBudget
  BY <1>3, HalvesFit, SMT DEF I2sInit, SlotBudget
<1>5. ParkedHigh
  BY HalvesFit, SMT DEF I2sInit, ParkedHigh
<1> QED
  BY <1>1, <1>4, <1>5 DEF SlotInv

(* Every step keeps the account of the slot's clocks.                      *)
LEMMA NextSlot == SlotInv /\ [I2sNext]_i2s_vars => SlotInv'
<1> SUFFICES ASSUME SlotInv, [I2sNext]_i2s_vars PROVE SlotInv'
  OBVIOUS
<1>t. TypeOK /\ SlotBudget /\ ParkedHigh
  BY DEF SlotInv
<1>u. TypeOK'
  BY <1>t, NextType
<1> USE <1>t, HalvesFit, CountersInRange
<1>1. ASSUME NEW l \in Word, NEW r \in Word, NEW in \in Word, Slot(l, r, in)
      PROVE  SlotBudget' /\ ParkedHigh'
  <2>1. /\ lrdivider' = lrdivider_top /\ bdivider' = bdivider_top
        /\ bitcount' = nbits /\ bclk_r' = 0
    BY <1>1 DEF Slot
  <2>2. halves' = 0
    BY <2>1, SMT DEF halves
  <2>3. halves' * half_period = 0
    BY <2>2, SMT
  <2>4. ParkedHigh'
    BY <2>1, SMT DEF ParkedHigh
  <2> QED
    BY <2>1, <2>3, <2>4, NextBudget, SMT
<1>2. CASE Tick
  <2>0. /\ lrdivider' = lrdivider - 1 /\ bdivider' = bdivider - 1
        /\ bitcount' = bitcount /\ bclk_r' = bclk_r
    BY <1>2 DEF Tick
  <2>1. halves' = halves
    BY <2>0 DEF halves
  <2>2. halves' * half_period = halves * half_period /\ halves * half_period \in Int
    BY <2>1, ProductType
  <2>3. SlotBudget'
    BY <2>0, <2>2, NextBudget, SMT DEF SlotBudget
  <2>4. ParkedHigh'
    BY <1>2 DEF Tick, ParkedHigh
  <2> QED
    BY <1>u, <2>3, <2>4 DEF SlotInv
<1>3. CASE Wait
  <2>1. SlotBudget'
    BY <1>3, NextBudget, SMT DEF Wait
  <2>2. ParkedHigh'
    BY <1>3 DEF Wait, ParkedHigh
  <2> QED
    BY <1>u, <2>1, <2>2 DEF SlotInv
<1>4. ASSUME NEW d \in Driven, Rise(d) PROVE SlotBudget' /\ ParkedHigh'
  <2>1. /\ lrdivider' = lrdivider - 1 /\ bdivider' = bdivider_top /\ bdivider = 0
        /\ bitcount' = bitcount - 1 /\ bitcount > 0 /\ bclk_r = 0 /\ bclk_r' = 1
    BY <1>4 DEF Rise
  <2>2. halves' = halves + 1
    BY <2>1, SMT DEF halves
  <2>3. /\ halves' * half_period = halves * half_period + half_period
        /\ halves * half_period \in Int
    BY <2>2, NextHalf, ProductType
  <2>4. SlotBudget'
    BY <2>1, <2>3, NextBudget, SMT DEF SlotBudget
  <2>5. ParkedHigh'
    BY <2>1, SMT DEF ParkedHigh
  <2> QED
    BY <2>4, <2>5
<1>5. CASE Fall
  <2>1. /\ lrdivider' = lrdivider - 1 /\ bdivider' = bdivider_top /\ bdivider = 0
        /\ bitcount' = bitcount /\ bitcount > 0 /\ bclk_r = 1 /\ bclk_r' = 0
    BY <1>5 DEF Fall
  <2>2. halves' = halves + 1
    BY <2>1, SMT DEF halves
  <2>3. /\ halves' * half_period = halves * half_period + half_period
        /\ halves * half_period \in Int
    BY <2>2, NextHalf, ProductType
  <2>4. SlotBudget'
    BY <2>1, <2>3, NextBudget, SMT DEF SlotBudget
  <2>5. ParkedHigh'
    BY <2>1, SMT DEF ParkedHigh
  <2> QED
    BY <1>u, <2>4, <2>5 DEF SlotInv
<1>6. CASE UNCHANGED i2s_vars
  <2>1. /\ bitcount' = bitcount /\ lrdivider' = lrdivider /\ bdivider' = bdivider
        /\ bclk_r' = bclk_r
    BY <1>6 DEF i2s_vars, clocks
  <2>2. halves' = halves
    BY <2>1 DEF halves
  <2>3. SlotBudget'
    BY <2>1, <2>2, NextBudget DEF SlotBudget
  <2> QED
    BY <1>u, <2>1, <2>3 DEF SlotInv, ParkedHigh
<1> QED
  BY <1>u, <1>1, <1>2, <1>3, <1>4, <1>5, <1>6 DEF I2sNext, SlotInv

-----------------------------------------------------------------------------
(* A slot whose clocks are used up has sampled all its bits.               *)
LEMMA BudgetSuffices == SlotInv => BitsFit
<1> SUFFICES ASSUME SlotInv, lrdivider = 0, bitcount # 0 PROVE FALSE
  BY DEF BitsFit
<1> USE HalvesFit
<1>1. /\ bitcount \in Nat /\ bitcount > 0
      /\ bdivider \in Nat /\ bclk_r \in {0, 1} /\ halves \in Int
  BY CountersInRange, SMT DEF SlotInv
<1>2. lrdivider_top = halves * half_period + (bdivider_top - bdivider)
  BY <1>1, SMT DEF SlotInv, SlotBudget
<1>3. halves + 1 <= 2 * nbits - 1
  BY <1>1, SMT DEF halves
<1>4. (halves + 1) * half_period <= (2 * nbits - 1) * half_period
  BY <1>1, <1>3, ProductMonotone
<1>5. (2 * nbits - 1) * half_period + half_period = (2 * nbits) * half_period
  BY NextHalf, SMT
<1>6. (halves + 1) * half_period = halves * half_period + half_period
  BY <1>1, NextHalf
<1>7. halves * half_period \in Int /\ (2 * nbits - 1) * half_period \in Int
  BY <1>1, SMT
<1> QED
  BY <1>1, <1>2, <1>4, <1>5, <1>6, <1>7, SMT

(* Every reachable state has the slot's invariant.                         *)
LEMMA SlotInvariant == I2sSpec => []SlotInv
  BY InitSlot, NextSlot, PTL DEF I2sSpec

(* The registers of the process keep their declared ranges: no counter     *)
(* runs below zero or past its top (i2s_intf.vhd:88-98).                   *)
THEOREM TypeCorrect == I2sSpec => []TypeOK
<1>1. SlotInv => TypeOK
  BY DEF SlotInv
<1> QED
  BY <1>1, SlotInvariant, PTL

(* The preamble and the word fit into every LRCLK half cycle, whatever the *)
(* two integer divisions round away (i2s_intf.vhd:66-68, 85).              *)
THEOREM BitsCorrect == I2sSpec => []BitsFit
  BY BudgetSuffices, SlotInvariant, PTL

(* BCLK is high when the slot ends, so that its first fall is the edge of  *)
(* LRCLK (i2s_intf.vhd:71-72).                                             *)
THEOREM SyncCorrect == I2sSpec => []FallsWithLrclk
<1>1. SlotInv => FallsWithLrclk
  BY BudgetSuffices DEF SlotInv, ParkedHigh, BitsFit, FallsWithLrclk
<1> QED
  BY <1>1, SlotInvariant, PTL

-----------------------------------------------------------------------------
\* The k-th bit of a slot, and how many have been sampled.
Out(k) == IF k <= preamble THEN 0 ELSE word[nbits - k]
sampled == nbits - bitcount

(* The codec has sampled the first bits of the slot, and the next ones     *)
(* stand in the shift register in the same order, one place further down   *)
(* while BCLK is high.                                                     *)
SampledBits == Len(taken) = sampled /\ \A k \in 1 .. sampled : taken[k] = Out(k)
ToCome ==
  \A j \in 1 .. bitcount : i2s_shiftreg[nbits - j + 1 - bclk_r] = Out(sampled + j)

(* Every bit of the codec's word that has been taken in stands where its   *)
(* remaining shifts will carry it to its own place.                        *)
Captured ==
  \A m \in 0 .. word_length - 1 :
    bitcount <= m => i2s_shiftreg[m - bitcount + 1 - bclk_r] = incoming[m]

WordInv == SlotInv /\ SampledBits /\ ToCome /\ Captured

-----------------------------------------------------------------------------
(* The ranges that index arithmetic needs.                                 *)
LEMMA Ranges ==
  ASSUME SlotInv
  PROVE  /\ nbits \in Nat /\ preamble \in Nat /\ word_length \in Nat
         /\ word_length > 0 /\ nbits = preamble + word_length
         /\ bitcount \in Nat /\ bitcount <= nbits
         /\ bclk_r \in {0, 1}
         /\ i2s_shiftreg \in [0 .. nbits -> {0, 1}]
         /\ taken \in Seq({0, 1})
<1>1. TypeOK
  BY DEF SlotInv
<1> QED
  BY <1>1, CountersInRange, GenericsAssumption DEF TypeOK, nbits

(* A freshly loaded register holds the preamble and the word.              *)
LEMMA LoadedBits ==
  ASSUME SlotInv, NEW w \in Word, NEW j \in 1 .. nbits
  PROVE  Loaded(w)[nbits - j + 1] = IF j <= preamble THEN 0 ELSE w[nbits - j]
<1> USE Ranges
<1>1. nbits - j + 1 \in 0 .. nbits /\ nbits - j + 1 # 0
  BY SMT
<1>2. nbits - j + 1 > word_length <=> j <= preamble
  BY SMT
<1>3. (nbits - j + 1) - 1 = nbits - j
  BY SMT
<1> QED
  BY <1>1, <1>2, <1>3 DEF Loaded

LEMMA WordInit == I2sInit => WordInv
<1> SUFFICES ASSUME I2sInit PROVE WordInv
  OBVIOUS
<1>1. SlotInv
  BY InitSlot
<1> USE <1>1, Ranges
<1>2. bitcount = nbits /\ bclk_r = 0 /\ sampled = 0 /\ taken = <<>>
  BY SMT DEF I2sInit, sampled
<1>3. \A j \in 1 .. nbits : Out(j) = 0
  <2> SUFFICES ASSUME NEW j \in 1 .. nbits, ~(j <= preamble) PROVE word[nbits - j] = 0
    BY DEF Out
  <2>1. nbits - j \in 0 .. word_length - 1
    BY SMT
  <2> QED
    BY <2>1 DEF I2sInit, Silence
<1>4. SampledBits
  BY <1>2 DEF SampledBits
<1>5. ToCome
  <2> SUFFICES ASSUME NEW j \in 1 .. nbits
               PROVE  i2s_shiftreg[nbits - j + 1 - 0] = Out(0 + j)
    BY <1>2 DEF ToCome
  <2>1. nbits - j + 1 - 0 \in 0 .. nbits /\ 0 + j = j
    BY SMT
  <2> QED
    BY <1>3, <2>1 DEF I2sInit
<1>6. Captured
  BY <1>2, SMT DEF Captured
<1> QED
  BY <1>1, <1>4, <1>5, <1>6 DEF WordInv

(* A new slot: nothing sampled, everything to come.                        *)
LEMMA SlotWord ==
  ASSUME WordInv, NEW l \in Word, NEW r \in Word, NEW in \in Word, Slot(l, r, in)
  PROVE  SampledBits' /\ ToCome' /\ Captured'
<1>1. SlotInv
  BY DEF WordInv
<1> USE <1>1, Ranges
<1> DEFINE w == IF lrclk_r = 0 THEN r ELSE l
<1>2. /\ bitcount' = nbits /\ bclk_r' = 0 /\ taken' = <<>> /\ word' = w
      /\ i2s_shiftreg' = Loaded(w) /\ w \in Word
  BY DEF Slot
<1> HIDE DEF w
<1>3. nbits' = nbits /\ sampled' = 0
  BY <1>2, SMT DEF sampled, nbits
<1>4. SampledBits'
  BY <1>2, <1>3 DEF SampledBits
<1>5. ToCome'
  <2> SUFFICES ASSUME NEW j \in 1 .. nbits
               PROVE  Loaded(w)[nbits - j + 1 - 0] = Out(0 + j)'
    BY <1>2, <1>3 DEF ToCome
  <2>1. nbits - j + 1 - 0 = nbits - j + 1 /\ 0 + j = j
    BY SMT
  <2> QED
    BY <1>2, <1>3, <2>1, LoadedBits DEF Out
<1>6. Captured'
  BY <1>2, SMT DEF Captured
<1> QED
  BY <1>4, <1>5, <1>6

(* A rise samples the top bit and puts the codec's bit in at the bottom.   *)
LEMMA RiseWord ==
  ASSUME WordInv, NEW d \in Driven, Rise(d)
  PROVE  SampledBits' /\ ToCome' /\ Captured'
<1>1. SlotInv
  BY DEF WordInv
<1> USE <1>1, Ranges
<1>2. /\ bitcount > 0 /\ bitcount' = bitcount - 1 /\ bclk_r = 0 /\ bclk_r' = 1
      /\ i2s_shiftreg' = [i2s_shiftreg EXCEPT ![0] = d] /\ taken' = Append(taken, i2s_shiftreg[nbits])
      /\ word' = word /\ incoming' = incoming
  BY DEF Rise, i2s_d_o
<1>3. /\ sampled \in Nat /\ sampled' = sampled + 1
      /\ \A k : Out(k)' = Out(k)
  BY <1>2, SMT DEF sampled, Out, nbits
<1>4. \A i \in 1 .. nbits : i2s_shiftreg'[i] = i2s_shiftreg[i]
  BY <1>2, SMT
<1>5. SampledBits'
  <2>1. i2s_shiftreg[nbits] = Out(sampled + 1)
    <3>1. 1 \in 1 .. bitcount /\ nbits - 1 + 1 - bclk_r = nbits
      BY <1>2, SMT
    <3> QED
      BY <3>1 DEF WordInv, ToCome
  <2>2. Len(taken) = sampled /\ \A k \in 1 .. sampled : taken[k] = Out(k)
    BY DEF WordInv, SampledBits
  <2>3. Len(taken') = sampled + 1 /\ taken'[sampled + 1] = i2s_shiftreg[nbits]
        /\ \A k \in 1 .. sampled : taken'[k] = taken[k]
    BY <1>2, <1>3, <2>2
  <2>4. \A k \in 1 .. sampled + 1 : k \in 1 .. sampled \/ k = sampled + 1
    BY <1>3, SMT
  <2> QED
    BY <1>3, <2>1, <2>2, <2>3, <2>4 DEF SampledBits
<1>6. ToCome'
  <2> SUFFICES ASSUME NEW j \in 1 .. bitcount - 1
               PROVE  i2s_shiftreg'[nbits - j + 1 - 1] = Out((sampled + 1) + j)
    BY <1>2, <1>3 DEF ToCome, nbits
  <2>1. /\ j + 1 \in 1 .. bitcount
        /\ nbits - (j + 1) + 1 - bclk_r = nbits - j + 1 - 1
        /\ (sampled + 1) + j = sampled + (j + 1)
        /\ nbits - j + 1 - 1 \in 1 .. nbits
    BY <1>2, <1>3, SMT
  <2> QED
    BY <1>4, <2>1 DEF WordInv, ToCome
<1>7. Captured'
  <2> SUFFICES ASSUME NEW m \in 0 .. word_length - 1, bitcount - 1 <= m
               PROVE  i2s_shiftreg'[m - (bitcount - 1) + 1 - 1] = incoming[m]
    BY <1>2 DEF Captured
  <2>1. CASE bitcount <= m
    <3>1. /\ m - (bitcount - 1) + 1 - 1 = m - bitcount + 1 - bclk_r
          /\ m - (bitcount - 1) + 1 - 1 \in 1 .. nbits
      BY <1>2, <2>1, SMT
    <3> QED
      BY <1>4, <2>1, <3>1 DEF WordInv, Captured
  <2>2. CASE bitcount - 1 = m
    <3>1. m - (bitcount - 1) + 1 - 1 = 0 /\ bitcount \in 1 .. word_length
      BY <1>2, <2>2, SMT
    <3>2. d = incoming[m]
      BY <2>2, <3>1 DEF Driven
    <3>3. i2s_shiftreg'[0] = d
      BY <1>2, SMT
    <3> QED
      BY <3>1, <3>2, <3>3
  <2> QED
    BY <1>2, <2>1, <2>2, SMT
<1> QED
  BY <1>5, <1>6, <1>7

(* A fall shifts: every place holds what was below it.                     *)
LEMMA FallWord ==
  ASSUME WordInv, Fall
  PROVE  SampledBits' /\ ToCome' /\ Captured'
<1>1. SlotInv
  BY DEF WordInv
<1> USE <1>1, Ranges
<1>2. /\ bitcount > 0 /\ bitcount' = bitcount /\ bclk_r = 1 /\ bclk_r' = 0
      /\ i2s_shiftreg' = ShiftedWord /\ taken' = taken /\ word' = word /\ incoming' = incoming
  BY DEF Fall
<1>3. /\ sampled \in Nat /\ sampled' = sampled
      /\ \A k : Out(k)' = Out(k)
  BY <1>2, SMT DEF sampled, Out, nbits
<1>4. \A i \in 1 .. nbits : i2s_shiftreg'[i] = i2s_shiftreg[i - 1]
  BY <1>2, SMT DEF ShiftedWord
<1>5. SampledBits'
  BY <1>2, <1>3 DEF WordInv, SampledBits
<1>6. ToCome'
  <2> SUFFICES ASSUME NEW j \in 1 .. bitcount
               PROVE  i2s_shiftreg'[nbits - j + 1 - 0] = Out(sampled + j)
    BY <1>2, <1>3 DEF ToCome, nbits
  <2>1. /\ nbits - j + 1 - 0 \in 1 .. nbits
        /\ (nbits - j + 1 - 0) - 1 = nbits - j + 1 - bclk_r
    BY <1>2, SMT
  <2> QED
    BY <1>4, <2>1 DEF WordInv, ToCome
<1>7. Captured'
  <2> SUFFICES ASSUME NEW m \in 0 .. word_length - 1, bitcount <= m
               PROVE  i2s_shiftreg'[m - bitcount + 1 - 0] = incoming[m]
    BY <1>2 DEF Captured
  <2>1. /\ m - bitcount + 1 - 0 \in 1 .. nbits
        /\ (m - bitcount + 1 - 0) - 1 = m - bitcount + 1 - bclk_r
    BY <1>2, SMT
  <2> QED
    BY <1>4, <2>1 DEF WordInv, Captured
<1> QED
  BY <1>5, <1>6, <1>7

(* Every step keeps the account of both words.                             *)
LEMMA WordStep == WordInv /\ [I2sNext]_i2s_vars => WordInv'
<1> SUFFICES ASSUME WordInv, [I2sNext]_i2s_vars PROVE WordInv'
  OBVIOUS
<1>1. SlotInv'
  BY NextSlot DEF WordInv
<1>2. CASE \/ \E l, r, in \in Word : Slot(l, r, in)
           \/ \E i2s_d_i \in Driven : Rise(i2s_d_i)
           \/ Fall
  BY <1>1, <1>2, SlotWord, RiseWord, FallWord DEF WordInv
<1>3. CASE Tick \/ Wait \/ UNCHANGED i2s_vars
  <2>1. /\ bitcount' = bitcount /\ bclk_r' = bclk_r /\ i2s_shiftreg' = i2s_shiftreg
        /\ word' = word /\ incoming' = incoming /\ taken' = taken
    BY <1>3 DEF Tick, Wait, i2s_vars, clocks
  <2> QED
    BY <1>1, <2>1 DEF WordInv, SampledBits, ToCome, Captured, sampled, Out
<1> QED
  BY <1>2, <1>3 DEF I2sNext

LEMMA WordInvariant == I2sSpec => []WordInv
  BY WordInit, WordStep, PTL DEF I2sSpec

(* The codec has sampled the preamble and the whole word when a slot ends,  *)
(* for every clock ratio, preamble and word length.                        *)
THEOREM SentCorrect == I2sSpec => []WordSent
<1>1. WordInv => WordSent
  <2> SUFFICES ASSUME WordInv, lrdivider = 0
               PROVE  taken = [k \in 1 .. nbits |-> IF k <= preamble THEN 0 ELSE word[nbits - k]]
    BY DEF WordSent
  <2>1. SlotInv
    BY DEF WordInv
  <2>2. bitcount = 0
    BY <2>1, BudgetSuffices DEF BitsFit
  <2>3. nbits \in Nat /\ sampled = nbits /\ taken \in Seq({0, 1})
    BY <2>1, <2>2, Ranges, SMT DEF sampled
  <2>4. Len(taken) = nbits /\ \A k \in 1 .. nbits : taken[k] = Out(k)
    BY <2>3 DEF WordInv, SampledBits
  <2>5. taken = [k \in 1 .. nbits |-> Out(k)]
    BY <2>3, <2>4
  <2> QED
    BY <2>5 DEF Out
<1> QED
  BY <1>1, WordInvariant, PTL

(* The word the codec sent in a slot is put out at its end, on its own      *)
(* channel.                                                                *)
THEOREM ReceivedCorrect == I2sSpec => WordReceived
<1>1. WordInv /\ [I2sNext]_i2s_vars =>
        [lrclk_r' # lrclk_r =>
           (IF lrclk_r = 0 THEN pcm_inl_o' ELSE pcm_inr_o') = incoming]_i2s_vars
  <2> SUFFICES ASSUME WordInv, I2sNext, lrclk_r' # lrclk_r
               PROVE  (IF lrclk_r = 0 THEN pcm_inl_o' ELSE pcm_inr_o') = incoming
    OBVIOUS
  <2>1. SlotInv
    BY DEF WordInv
  <2>2. PICK l \in Word, r \in Word, in \in Word : Slot(l, r, in)
    BY DEF I2sNext, Tick, Wait, Rise, Fall
  <2>3. bitcount = 0 /\ bclk_r = 1
    BY <2>1, <2>2, BudgetSuffices DEF BitsFit, Slot, SlotInv, ParkedHigh
  <2>4. \A m \in 0 .. word_length - 1 : i2s_shiftreg[m] = incoming[m]
    <3> SUFFICES ASSUME NEW m \in 0 .. word_length - 1 PROVE i2s_shiftreg[m] = incoming[m]
      OBVIOUS
    <3>1. bitcount <= m /\ m - bitcount + 1 - bclk_r = m
      BY <2>1, <2>3, Ranges, SMT
    <3> QED
      BY <3>1 DEF WordInv, Captured
  <2>5. incoming \in Word
    BY <2>1 DEF SlotInv, TypeOK
  <2>6. ReceivedWord = incoming
    BY <2>4, <2>5 DEF ReceivedWord, Word
  <2> QED
    BY <2>2, <2>6 DEF Slot
<1> QED
  BY <1>1, WordInvariant, PTL DEF WordReceived, I2sSpec

-----------------------------------------------------------------------------
(* Sequences that grow along another one.                                  *)
Prefix(s, n) == [i \in 1 .. n |-> s[i]]

LEMMA PrefixIsSeq ==
  ASSUME NEW S, NEW s, NEW n \in Nat, \A i \in 1 .. n : s[i] \in S
  PROVE  Prefix(s, n) \in Seq(S) /\ Len(Prefix(s, n)) = n
<1>1. Prefix(s, n) \in [1 .. n -> S]
  BY DEF Prefix
<1>2. Prefix(s, n) \in Seq(S)
  BY <1>1, IsASeq DEF Prefix
<1> QED
  BY <1>1, <1>2, LenProperties DEF Prefix

LEMMA PrefixAppend ==
  ASSUME NEW S, NEW s, NEW n \in Nat, \A i \in 1 .. n + 1 : s[i] \in S
  PROVE  Append(Prefix(s, n), s[n + 1]) = Prefix(s, n + 1)
<1> DEFINE p == Prefix(s, n)
           a == Append(p, s[n + 1])
<1>1. p \in Seq(S) /\ Len(p) = n
  BY PrefixIsSeq
<1>2. /\ a \in Seq(S) /\ Len(a) = n + 1
      /\ \A i \in 1 .. n : a[i] = p[i]
      /\ a[n + 1] = s[n + 1]
  BY <1>1, AppendProperties
<1>3. \A i \in 1 .. n : p[i] = s[i]
  BY DEF Prefix
<1>4. a = [i \in 1 .. n + 1 |-> a[i]]
  BY <1>2, LenProperties
<1>5. \A i \in 1 .. n + 1 : a[i] = s[i]
  BY <1>2, <1>3
<1> HIDE DEF a
<1>6. a = Prefix(s, n + 1)
  BY <1>4, <1>5 DEF Prefix
<1> QED
  BY <1>6 DEF a

LEMMA PrefixEmpty == ASSUME NEW s PROVE Prefix(s, 0) = << >>
<1>1. Prefix(s, 0) \in Seq({}) /\ Len(Prefix(s, 0)) = 0
  BY PrefixIsSeq
<1> QED
  BY <1>1, EmptySeq

Byte == [1 .. 8 -> {0, 1}]

LEMMA BitsType ==
  ASSUME NEW byte \in Nat
  PROVE  Bits(byte) \in Byte
<1>1. ASSUME NEW i \in 1 .. 8
      PROVE  (byte \div Weight[i]) % 2 \in {0, 1}
  <2>1. Weight[i] \in Nat \ {0}
    BY DEF Weight
  <2> DEFINE q == byte \div Weight[i]
  <2>2. q \in Int
    BY <2>1
  <2> HIDE DEF q
  <2>3. q % 2 \in {0, 1}
    BY <2>2
  <2> QED
    BY <2>3 DEF q
<1> QED
  BY <1>1 DEF Bits, Byte

LEMMA ShiftOut ==
  ASSUME NEW s \in Byte
  PROVE  /\ Head(s) = s[1] /\ Append(Tail(s), 0) \in Byte
         /\ \A i \in 1 .. 7 : Append(Tail(s), 0)[i] = s[i + 1]
<1>1. s \in Seq({0, 1}) /\ Len(s) = 8
  <2>1. s = [i \in 1 .. 8 |-> s[i]] /\ \A i \in 1 .. 8 : s[i] \in {0, 1}
    BY DEF Byte
  <2> DEFINE n == 8
  <2>2. n \in Nat /\ s = Prefix(s, n) /\ \A i \in 1 .. n : s[i] \in {0, 1}
    BY <2>1 DEF Prefix
  <2> HIDE DEF n
  <2>3. s \in Seq({0, 1}) /\ Len(s) = n
    BY <2>2, PrefixIsSeq
  <2> QED
    BY <2>3 DEF n
<1>2. s # << >>
  BY <1>1, EmptySeq
<1> DEFINE t == Tail(s)
           z == 0
           B == {0, 1}
           a == Append(t, z)
<1>3. /\ t \in Seq(B) /\ Len(t) = Len(s) - 1
      /\ \A i \in 1 .. Len(t) : t[i] = s[i + 1]
  BY <1>1, <1>2, HeadTailProperties
<1>4. z \in B
  OBVIOUS
<1> HIDE DEF t, z, B
<1>5. /\ a \in Seq(B) /\ Len(a) = Len(t) + 1
      /\ \A i \in 1 .. Len(t) : a[i] = t[i]
  BY <1>3, <1>4, AppendProperties
<1> HIDE DEF a
<1>6. Len(t) = 7 /\ Len(a) = 8
  BY <1>1, <1>3, <1>5
<1>7. a \in Byte
  BY <1>5, <1>6, LenProperties DEF Byte, B
<1>8. \A i \in 1 .. 7 : a[i] = s[i + 1]
  BY <1>3, <1>5, <1>6
<1>9. Head(s) = s[1]
  BY <1>1, <1>2, HeadTailProperties
<1> QED
  BY <1>7, <1>8, <1>9 DEF a, t, z

-----------------------------------------------------------------------------
(* What the registers and the codec hold.                                   *)
Serial == Seq({0, 1})

LoaderTypes ==
  /\ state \in {"Idle", "Start", "Data", "Ack", "Stop", "Pause", "Done"}
  /\ phase \in 0 .. 3 /\ nbit \in 0 .. 7 /\ nbyte \in 0 .. 2
  /\ thisbyte \in Nat /\ retries = 0 /\ shiftreg \in Byte
  /\ scl_out \in {0, 1} /\ sda_out \in {0, 1} /\ nak \in {0, 1}

CodecTypes ==
  /\ listening \in BOOLEAN /\ ninth \in BOOLEAN /\ pulls \in BOOLEAN /\ naks \in Nat
  /\ bits \in Serial /\ burst \in Seq(Serial) /\ written \in Seq(Seq(Serial))

Types == LoaderTypes /\ CodecTypes

(* The burst on its way, how many of its bytes have gone, and the next.      *)
K == Len(written) + 1

Sent == burst_length - nbyte

Current == Expected(K)[Sent + 1]

(* The lines at each place.                                                  *)
Pins ==
  /\ state = "Idle" => scl_out = 1 /\ sda_out = 1
  /\ state = "Start" => /\ scl_out = IF phase = 3 THEN 0 ELSE 1
                        /\ sda_out = IF phase = 0 THEN 1 ELSE 0
  /\ state = "Data" => /\ phase = 0 => scl_out = IF nbyte = 2 /\ nbit = 7 THEN 0 ELSE 1
                       /\ phase \in {1, 2} => scl_out = 0
                       /\ phase = 3 => scl_out = 1
  /\ state = "Ack" => /\ scl_out = IF phase \in {1, 2} THEN 0 ELSE 1
                      /\ phase = 2 => sda_out = 1
                      /\ phase = 3 => sda_out = nak
  /\ state = "Stop" => /\ scl_out = IF phase \in {1, 2} THEN 0 ELSE 1
                       /\ phase \in {2, 3} => sda_out = 0
  /\ state = "Pause" => scl_out = 1 /\ sda_out = IF phase = 0 THEN 0 ELSE 1
  /\ state = "Done" => scl_out = 1

(* Where the codec stands in its ninth clock, and where no burst is open.    *)
InNinth ==
  \/ state = "Ack" /\ phase # 0
  \/ state = "Data" /\ phase = 0 /\ nbit = 7 /\ nbyte # 2
  \/ state = "Stop" /\ phase = 0

Between ==
  \/ state = "Idle"
  \/ state = "Start" /\ phase = 0
  \/ state = "Pause" /\ phase # 0
  \/ state = "Done" /\ sda_out = 1

(* The codec follows the loader, and after a refused byte, of which there    *)
(* is one, the loader gives up.                                              *)
Follows ==
  /\ (ninth = TRUE) <=> (naks = 0 /\ InNinth)
  /\ (listening = TRUE) <=> (naks = 0 /\ ~Between)
  /\ pulls = TRUE => ninth = TRUE
  /\ naks = 0 /\ state = "Ack" /\ phase \in {1, 2} => pulls = TRUE
  /\ naks = 0 => nak = 0
  /\ naks > 0 => \/ state = "Ack" /\ phase \in {1, 2}
                 \/ /\ (state = "Ack" /\ phase = 3) \/ state \in {"Stop", "Done"}
                    /\ nak = 1 /\ nbyte = 0 /\ thisbyte = Len(init_regs)

(* The place in the table.                                                   *)
Place ==
  /\ \/ state \in {"Start", "Idle"}
     \/ state = "Pause" /\ phase # 0
     \/ naks = 0 /\ state \in {"Data", "Ack", "Stop"}
    => 2 * K <= Len(init_regs)
  /\ state \in {"Idle", "Start"} \/ (state = "Pause" /\ phase # 0) => thisbyte = 2 * (K - 1)
  /\ naks = 0 /\ state \in {"Data", "Ack"} => thisbyte = 2 * (K - 1) + Sent
  /\ naks = 0 /\ state = "Stop" => thisbyte = 2 * K
  /\ state = "Stop" => nbyte = 0
  /\ state = "Pause" /\ phase = 0 => thisbyte = 2 * K /\ 2 * K < Len(init_regs)
  /\ naks = 0 /\ state = "Done" => Len(init_regs) = 2 * IF sda_out = 1 THEN K - 1 ELSE K

(* The byte on its way: what the codec has sampled of it, what is on the     *)
(* line, and what is still in the shift register.                            *)
Shifted == IF phase \in {0, 1} THEN 7 - nbit ELSE 8 - nbit

Sampled == IF phase = 3 THEN 8 - nbit ELSE 7 - nbit

ByteInv ==
  /\ state = "Data" => /\ \A i \in 1 .. 8 - Shifted : shiftreg[i] = Current[Shifted + i]
                       /\ ~InNinth => bits = Prefix(Current, Sampled)
                       /\ phase \in {2, 3} => sda_out = Current[8 - nbit]
  /\ state = "Ack" /\ phase = 0 => bits = Prefix(Current, 8)
  /\ ninth = TRUE => Len(bits) = 8
  /\ state = "Start" /\ phase # 0 => bits = << >>

(* The burst on its way: a byte counts as soon as it is acknowledged.        *)
Received == IF ninth THEN Append(burst, bits) ELSE burst

Complete ==
  \/ state = "Stop"
  \/ state = "Pause" /\ phase = 0
  \/ state = "Done" /\ sda_out = 0

BurstInv ==
  /\ state = "Start" /\ phase # 0 => burst = << >>
  /\ naks = 0 /\ (state = "Data" \/ (state = "Ack" /\ phase = 0)) =>
       Received = Prefix(Expected(K), Sent)
  /\ naks = 0 /\ state = "Ack" /\ phase # 0 => Received = Prefix(Expected(K), Sent + 1)
  /\ naks = 0 /\ Complete => Received = Prefix(Expected(K), 3)
  /\ naks > 0 /\ ~(state = "Done" /\ sda_out = 1) =>
       \E n \in 0 .. 2 : burst = Prefix(Expected(K), n)

(* The bursts that are over: whole, the last one after a refused byte not.   *)
Whole(k) == written[k] = Prefix(Expected(k), 3)

Cut(k) == \E n \in 0 .. 2 : written[k] = Prefix(Expected(k), n)

WrittenInv ==
  \A k \in 1 .. Len(written) :
    \/ Whole(k)
    \/ naks > 0 /\ state = "Done" /\ sda_out = 1 /\ k = Len(written) /\ Cut(k)

LoadInv == Types /\ Pins /\ Follows /\ Place /\ ByteInv /\ BurstInv /\ WrittenInv
-----------------------------------------------------------------------------
(* What the codec makes of the four things that can happen to the lines.    *)
CodecStays ==
  /\ listening' = listening /\ bits' = bits /\ ninth' = ninth
  /\ burst' = burst /\ written' = written /\ naks' = naks

LEMMA PullsLow ==
  ASSUME CodecTypes, Pulls, ~Falls, ~(scl_out = 1 /\ scl_out' = 1)
  PROVE  naks' = naks /\ pulls' = pulls
<1>1. naks' = naks
  BY DEF Pulls
<1>2. CASE pulls = TRUE
  BY <1>2 DEF Pulls
<1>3. CASE pulls = FALSE
  BY <1>3 DEF Pulls
<1> QED
  BY <1>1, <1>2, <1>3 DEF CodecTypes

LEMMA ClockLow ==
  ASSUME CodecTypes, Codec, scl_out = 0, scl_out' = 0
  PROVE  CodecStays /\ pulls' = pulls
<1>1. ~Starts /\ ~Stops /\ ~Rises /\ ~Falls
  BY DEF Starts, Stops, Rises, Falls
<1>2. naks' = naks /\ pulls' = pulls
  BY <1>1, PullsLow DEF Codec
<1> QED
  BY <1>1, <1>2 DEF Codec, CodecStays, CodecTypes

LEMMA ClockRises ==
  ASSUME CodecTypes, Codec, scl_out = 0, scl_out' = 1
  PROVE  /\ listening' = listening /\ ninth' = ninth /\ pulls' = pulls
         /\ burst' = burst /\ written' = written /\ naks' = naks
         /\ bits' = IF Len(bits) < 8 /\ listening THEN Append(bits, Sda(pulls)) ELSE bits
<1>1. ~Starts /\ ~Stops /\ Rises /\ ~Falls
  BY DEF Starts, Stops, Rises, Falls
<1>2. naks' = naks /\ pulls' = pulls
  BY <1>1, PullsLow DEF Codec
<1> QED
  BY <1>1, <1>2 DEF Codec, CodecTypes

(* The fall after the eighth bit.                                           *)
LEMMA ByteEnds ==
  ASSUME CodecTypes, Codec, scl_out = 1, scl_out' = 0,
         listening = TRUE, Len(bits) = 8, ninth = FALSE
  PROVE  /\ bits' = bits /\ burst' = burst /\ written' = written
         /\ \/ /\ pulls' = TRUE /\ naks' = naks /\ listening' = TRUE /\ ninth' = TRUE
            \/ /\ pulls' = FALSE /\ naks' = naks + 1 /\ listening' = FALSE /\ ninth' = FALSE
<1>1. ~Starts /\ ~Stops /\ ~Rises /\ Falls
  BY DEF Starts, Stops, Rises, Falls
<1>2. \/ pulls' = TRUE /\ naks' = naks
      \/ pulls' = FALSE /\ naks' = naks + 1
  BY <1>1 DEF Codec, Pulls
<1>3. naks \in Nat
  BY DEF CodecTypes
<1>4. bits' = bits /\ burst' = burst /\ written' = written
  BY <1>1 DEF Codec
<1>5. /\ naks' = naks => listening' = TRUE /\ ninth' = TRUE
      /\ naks' # naks => listening' = FALSE /\ ninth' = FALSE
  BY <1>1 DEF Codec
<1>6. CASE pulls' = TRUE /\ naks' = naks
  BY <1>4, <1>5, <1>6
<1>7. CASE pulls' = FALSE /\ naks' = naks + 1
  BY <1>3, <1>4, <1>5, <1>7
<1> QED
  BY <1>2, <1>6, <1>7

(* The fall after the ninth.                                                *)
LEMMA NinthEnds ==
  ASSUME CodecTypes, Codec, scl_out = 1, scl_out' = 0, ninth = TRUE
  PROVE  /\ listening' = listening /\ ninth' = FALSE /\ pulls' = FALSE
         /\ bits' = << >> /\ burst' = Append(burst, bits)
         /\ written' = written /\ naks' = naks
<1>1. ~Starts /\ ~Stops /\ ~Rises /\ Falls
  BY DEF Starts, Stops, Rises, Falls
<1>2. naks' = naks /\ pulls' = FALSE
  BY <1>1 DEF Codec, Pulls
<1> QED
  BY <1>1, <1>2 DEF Codec, CodecTypes

(* Any other fall.                                                          *)
LEMMA ClockFalls ==
  ASSUME CodecTypes, Codec, scl_out = 1, scl_out' = 0, ninth = FALSE, pulls = FALSE,
         listening = FALSE \/ Len(bits) # 8
  PROVE  CodecStays /\ pulls' = FALSE
<1>1. ~Starts /\ ~Stops /\ ~Rises /\ Falls
  BY DEF Starts, Stops, Rises, Falls
<1>2. naks' = naks /\ pulls' = FALSE
  BY <1>1 DEF Codec, Pulls
<1> QED
  BY <1>1, <1>2 DEF Codec, CodecStays, CodecTypes

(* While the clock is high the codec may let go of SDA, if the loader does  *)
(* not leave it to the codec alone.                                         *)
LEMMA ClockHigh ==
  ASSUME CodecTypes, Codec, scl_out = 1, scl_out' = 1, sda_out' = sda_out,
         sda_out = 0 \/ pulls = FALSE
  PROVE  CodecStays /\ (pulls' = FALSE \/ pulls' = pulls) /\ pulls' \in BOOLEAN
<1>1. ~Rises /\ ~Falls
  BY DEF Rises, Falls
<1>2. /\ naks' = naks
      /\ pulls = FALSE => pulls' = FALSE
      /\ pulls' \in BOOLEAN
  BY <1>1 DEF Codec, Pulls, CodecTypes
<1>3. pulls' = FALSE \/ pulls' = pulls
  BY <1>2 DEF CodecTypes
<1>4. Sda(pulls') = sda
  BY <1>2 DEF Sda, sda, Low
<1>5. ~Starts /\ ~Stops
  BY <1>4 DEF Starts, Stops
<1> QED
  BY <1>1, <1>2, <1>3, <1>5 DEF Codec, CodecStays, CodecTypes

(* Nor is that a start or a stop.                                           *)
LEMMA NoCondition ==
  ASSUME CodecTypes, Codec, sda_out' = sda_out, sda_out = 0 \/ pulls = FALSE
  PROVE  ~Starts /\ ~Stops
<1>1. CASE scl_out = 1 /\ scl_out' = 1
  <2>1. pulls = FALSE => pulls' = FALSE
    BY <1>1 DEF Codec, Pulls, Falls
  <2>2. Sda(pulls') = sda
    BY <2>1 DEF Sda, sda, Low
  <2> QED
    BY <2>2 DEF Starts, Stops, sda, Sda
<1>2. CASE ~(scl_out = 1 /\ scl_out' = 1)
  BY <1>2 DEF Starts, Stops
<1> QED
  BY <1>1, <1>2

LEMMA StartCondition ==
  ASSUME CodecTypes, Codec, scl_out = 1, scl_out' = 1, sda_out = 1, sda_out' = 0, pulls = FALSE
  PROVE  /\ listening' = TRUE /\ ninth' = FALSE /\ pulls' = FALSE
         /\ bits' = << >> /\ burst' = << >> /\ written' = written /\ naks' = naks
<1>1. ~Rises /\ ~Falls
  BY DEF Rises, Falls
<1>2. naks' = naks /\ pulls' = FALSE
  BY <1>1 DEF Codec, Pulls
<1>3. Starts /\ ~Stops
  BY <1>2 DEF Starts, Stops, Sda, sda, Low
<1> QED
  BY <1>1, <1>2, <1>3 DEF Codec

LEMMA StopCondition ==
  ASSUME CodecTypes, Codec, scl_out = 1, scl_out' = 1, sda_out = 0, sda_out' = 1, pulls = FALSE
  PROVE  /\ listening' = FALSE /\ ninth' = ninth /\ pulls' = FALSE
         /\ bits' = bits /\ burst' = burst /\ naks' = naks
         /\ written' = IF burst # << >> THEN Append(written, burst) ELSE written
<1>1. ~Rises /\ ~Falls
  BY DEF Rises, Falls
<1>2. naks' = naks /\ pulls' = FALSE
  BY <1>1 DEF Codec, Pulls
<1>3. ~Starts /\ Stops
  BY <1>2 DEF Starts, Stops, Sda, sda, Low
<1> QED
  BY <1>1, <1>2, <1>3 DEF Codec, CodecTypes
-----------------------------------------------------------------------------
(* Types.                                                                    *)
LEMMA TableByte ==
  ASSUME NEW i \in Nat
  PROVE  TableBits(i) \in Byte
<1>1. CASE i < Len(init_regs)
  <2> DEFINE S == 0 .. 255
             b == init_regs[i + 1]
  <2>1. init_regs \in Seq(S) /\ i + 1 \in 1 .. Len(init_regs)
    BY <1>1, TableAssumption
  <2> HIDE DEF S
  <2>2. b \in S
    BY <2>1, ElementOfSeq
  <2>3. b \in Nat
    BY <2>2 DEF S
  <2>4. TableBits(i) = Bits(b)
    BY <1>1 DEF TableBits
  <2> HIDE DEF b
  <2> QED
    BY <2>3, <2>4, BitsType
<1>2. CASE ~(i < Len(init_regs))
  BY <1>2, BitsType DEF TableBits
<1> QED
  BY <1>1, <1>2

LEMMA AddressByte == AddressBits \in Byte
<1>1. 2 * device_address \in Nat
  BY AddressAssumption
<1> QED
  BY <1>1, BitsType DEF AddressBits

LEMMA LoaderKeepsTypes ==
  ASSUME Types, Loader
  PROVE  LoaderTypes'
<1> USE DEF Types, LoaderTypes
<1>1. CASE Idle
  BY <1>1 DEF Idle, counts
<1>2. CASE Start
  BY <1>2, AddressByte DEF Start, NextPhase, burst_length
<1>3. CASE Data
  <2>1. Head(shiftreg) \in {0, 1} /\ Append(Tail(shiftreg), 0) \in Byte
    BY ShiftOut DEF Byte
  <2> DEFINE first == Head(shiftreg)
             rest == Append(Tail(shiftreg), 0)
  <2>2. \/ sda_out' = first /\ shiftreg' = rest
        \/ sda_out' = sda_out /\ shiftreg' = shiftreg
    BY <1>3 DEF Data
  <2> HIDE DEF first, rest
  <2>3. sda_out' \in {0, 1} /\ shiftreg' \in Byte
    BY <2>1, <2>2 DEF first, rest
  <2>4. /\ state' \in {"Data", "Ack"} /\ phase' \in 0 .. 3 /\ nbit' \in 0 .. 7
        /\ scl_out' \in {0, 1}
        /\ nbyte' = nbyte /\ thisbyte' = thisbyte /\ retries' = retries /\ nak' = nak
    BY <1>3 DEF Data, NextPhase, LastBit
  <2> QED
    BY <2>3, <2>4
<1>4. CASE Ack
  <2>1. CASE SampleAck /\ UNCHANGED <<state, shiftreg, nbit>>
    BY <1>4, <2>1, TableAssumption
    DEF Ack, NextPhase, SampleAck, HeldAck, Skipped, sda
  <2>2. CASE NextByte /\ UNCHANGED <<bus, nak>>
    BY <1>4, <2>2, TableByte DEF Ack, NextPhase, NextByte, bus
  <2>3. CASE phase \in {0, 1}
    BY <1>4, <2>3 DEF Ack, NextPhase
  <2> QED
    BY <1>4, <2>1, <2>2, <2>3 DEF Ack
<1>5. CASE Stop
  BY <1>5 DEF Stop, NextPhase, counts
<1>6. CASE Pause
  BY <1>6 DEF Pause, NextPhase, counts
<1>7. CASE Done
  BY <1>7 DEF Done, NextPhase
<1> QED
  BY <1>1, <1>2, <1>3, <1>4, <1>5, <1>6, <1>7 DEF Loader

LEMMA CodecKeepsTypes ==
  ASSUME CodecTypes, Codec
  PROVE  CodecTypes'
<1>1. naks' \in Nat /\ pulls' \in BOOLEAN
  <2>1. /\ naks \in Nat /\ pulls \in BOOLEAN
        /\ naks' = naks \/ naks' = naks + 1
    BY DEF CodecTypes, Codec, Pulls
  <2>2. pulls' = TRUE \/ pulls' = FALSE
    BY DEF Codec, Pulls
  <2>3. naks' \in Nat
    BY <2>1
  <2>4. pulls' \in BOOLEAN
    BY <2>2, Zenon
  <2> QED
    BY <2>3, <2>4
<1>2. listening' \in BOOLEAN /\ ninth' \in BOOLEAN
  BY DEF CodecTypes, Codec
<1>3. Sda(pulls') \in {0, 1}
  BY DEF Sda
<1>4. bits' \in Serial
  BY <1>3, AppendProperties, EmptySeq DEF CodecTypes, Codec, Serial
<1>5. burst' \in Seq(Serial)
  BY AppendProperties, EmptySeq DEF CodecTypes, Codec
<1>6. written' \in Seq(Seq(Serial))
  BY AppendProperties DEF CodecTypes, Codec
<1> QED
  BY <1>1, <1>2, <1>4, <1>5, <1>6 DEF CodecTypes

LEMMA StepKeepsTypes ==
  ASSUME Types, Next
  PROVE  Types'
BY LoaderKeepsTypes, CodecKeepsTypes DEF Types, Next
-----------------------------------------------------------------------------
(* What is to be sent.                                                       *)
LEMMA PrefixLen ==
  ASSUME NEW s, NEW n \in Nat
  PROVE  Len(Prefix(s, n)) = n
<1> DEFINE S == {s[i] : i \in 1 .. n}
<1>1. \A i \in 1 .. n : s[i] \in S
  OBVIOUS
<1> HIDE DEF S
<1> QED
  BY <1>1, PrefixIsSeq

LEMMA PrefixOfByte ==
  ASSUME NEW s \in Byte
  PROVE  Prefix(s, 8) = s
<1>1. s = [i \in 1 .. 8 |-> s[i]]
  BY DEF Byte
<1> QED
  BY <1>1 DEF Prefix

LEMMA ExpectedBytes ==
  ASSUME NEW k \in Nat \ {0}, 2 * k <= Len(init_regs)
  PROVE  /\ Expected(k)[1] = AddressBits
         /\ Expected(k)[2] = TableBits(2 * (k - 1))
         /\ Expected(k)[3] = TableBits(2 * (k - 1) + 1)
         /\ \A j \in 1 .. 3 : Expected(k)[j] \in Byte
<1> DEFINE i == 2 * (k - 1)
<1>1. i \in Nat /\ i + 1 = 2 * k - 1 /\ i + 2 = 2 * k /\ i < Len(init_regs) /\ i + 1 < Len(init_regs)
  <2> DEFINE l == Len(init_regs)
  <2>1. l \in Nat /\ 2 * k <= l
    BY TableAssumption
  <2> HIDE DEF l
  <2>2. i \in Nat /\ i + 1 = 2 * k - 1 /\ i + 2 = 2 * k /\ i < l /\ i + 1 < l
    BY <2>1
  <2> QED
    BY <2>2 DEF l
<1>2. TableBits(i) = Bits(init_regs[2 * k - 1])
  BY <1>1 DEF TableBits
<1>3. TableBits(i + 1) = Bits(init_regs[i + 1 + 1])
  BY <1>1 DEF TableBits
<1>4. i + 1 + 1 = 2 * k
  BY <1>1
<1>5. TableBits(i) \in Byte /\ TableBits(i + 1) \in Byte
  BY <1>1, TableByte
<1>6. /\ Expected(k)[1] = AddressBits
      /\ Expected(k)[2] = Bits(init_regs[2 * k - 1])
      /\ Expected(k)[3] = Bits(init_regs[2 * k])
  BY DEF Expected
<1>7. /\ Expected(k)[1] = AddressBits
      /\ Expected(k)[2] = TableBits(i)
      /\ Expected(k)[3] = TableBits(i + 1)
  BY <1>2, <1>3, <1>4, <1>6
<1> HIDE DEF i
<1>8. \A j \in 1 .. 3 : Expected(k)[j] \in Byte
  <2>1. ASSUME NEW j \in 1 .. 3 PROVE j = 1 \/ j = 2 \/ j = 3
    OBVIOUS
  <2> QED
    BY <2>1, <1>5, <1>7, AddressByte
<1> QED
  BY <1>7, <1>8 DEF i

LEMMA WrittenKept ==
  ASSUME WrittenInv, written' = written, ~(state = "Done" /\ sda_out = 1)
  PROVE  WrittenInv'
<1> SUFFICES ASSUME NEW k \in 1 .. Len(written)
             PROVE  written'[k] = Prefix(Expected(k), 3)
  BY DEF WrittenInv, Whole
<1> QED
  BY DEF WrittenInv, Whole

LEMMA LoaderPlace ==
  ASSUME Types
  PROVE  K \in Nat \ {0} /\ Sent \in 0 .. 2 /\ Sent = 2 - nbyte
<1>1. Len(written) \in Nat
  BY LenProperties DEF Types, CodecTypes
<1> QED
  BY <1>1 DEF K, Sent, burst_length, Types, LoaderTypes
-----------------------------------------------------------------------------
(* The steps of the loader, one by one.                                      *)
LEMMA IdleStep ==
  ASSUME LoadInv, Idle, Codec, Types'
  PROVE  LoadInv'
<1>1. /\ state = "Idle" /\ state' = "Start" /\ phase' = 0
      /\ scl_out = 1 /\ scl_out' = 1 /\ sda_out = 1 /\ sda_out' = 1
      /\ nbyte' = nbyte /\ thisbyte' = thisbyte /\ nak' = nak
  BY DEF Idle, LoadInv, Pins, counts
<1>2. naks = 0 /\ listening = FALSE /\ ninth = FALSE /\ pulls = FALSE
  BY <1>1 DEF LoadInv, Follows, InNinth, Between, Types, CodecTypes
<1>3. CodecStays /\ pulls' = FALSE
  BY <1>1, <1>2, ClockHigh DEF LoadInv, Types
<1>4. Pins' /\ Follows'
  BY <1>1, <1>2, <1>3 DEF LoadInv, Pins, Follows, InNinth, Between, CodecStays
<1>5. Place'
  BY <1>1, <1>2, <1>3 DEF LoadInv, Place, K, CodecStays
<1>6. ByteInv' /\ BurstInv'
  BY <1>1, <1>2, <1>3 DEF ByteInv, BurstInv, Complete, CodecStays
<1>7. WrittenInv'
  BY <1>1, <1>3, WrittenKept DEF LoadInv, CodecStays
<1> QED
  BY <1>4, <1>5, <1>6, <1>7 DEF LoadInv

LEMMA StartStep ==
  ASSUME LoadInv, Start, Codec, Types'
  PROVE  LoadInv'
<1>1. /\ state = "Start" /\ phase \in 0 .. 3 /\ naks = 0
      /\ thisbyte' = thisbyte /\ nak' = nak /\ nak = 0
      /\ ninth = FALSE /\ pulls = FALSE
  BY DEF Start, LoadInv, Follows, InNinth, Types, LoaderTypes, CodecTypes
<1>2. written' = written /\ naks' = 0 /\ ninth' = FALSE /\ pulls' = FALSE
      /\ listening' = TRUE /\ bits' = << >> /\ burst' = << >>
  <2>1. CASE phase = 0
    <3>1. scl_out = 1 /\ scl_out' = 1 /\ sda_out = 1 /\ sda_out' = 0
      BY <1>1, <2>1 DEF Start, LoadInv, Pins
    <3> QED
      BY <1>1, <3>1, StartCondition DEF LoadInv, Types
  <2>2. ASSUME phase # 0
        PROVE  listening = TRUE /\ bits = << >> /\ burst = << >>
    BY <1>1, <2>2 DEF LoadInv, Follows, Between, ByteInv, BurstInv
  <2>3. CASE phase = 1
    <3>1. scl_out = 1 /\ scl_out' = 1 /\ sda_out' = sda_out
      BY <1>1, <2>3 DEF Start, LoadInv, Pins
    <3>2. CodecStays /\ pulls' = FALSE
      BY <1>1, <3>1, ClockHigh DEF LoadInv, Types
    <3>3. listening = TRUE /\ bits = << >> /\ burst = << >>
      BY <2>2, <2>3
    <3> QED
      BY <1>1, <3>2, <3>3 DEF CodecStays
  <2>4. CASE phase = 2
    <3>1. scl_out = 1 /\ scl_out' = 0
      BY <1>1, <2>4 DEF Start, LoadInv, Pins
    <3>2. Len(bits) # 8
      BY <2>2, <2>4, EmptySeq
    <3>3. CodecStays /\ pulls' = FALSE
      BY <1>1, <3>1, <3>2, ClockFalls DEF LoadInv, Types
    <3>4. listening = TRUE /\ bits = << >> /\ burst = << >>
      BY <2>2, <2>4
    <3> QED
      BY <1>1, <3>3, <3>4 DEF CodecStays
  <2>5. CASE phase = 3
    <3>1. scl_out = 0 /\ scl_out' = 0
      BY <1>1, <2>5 DEF Start, LoadInv, Pins
    <3> QED
      BY <1>1, <2>2, <2>5, <3>1, ClockLow DEF LoadInv, Types, CodecStays
  <2>6. phase = 0 \/ phase = 1 \/ phase = 2 \/ phase = 3
    BY <1>1
  <2> QED
    BY <2>1, <2>3, <2>4, <2>5, <2>6
<1>3. WrittenInv'
  BY <1>1, <1>2, WrittenKept DEF LoadInv
<1>4. CASE phase # 3
  <2>1. state' = "Start" /\ phase' \in 1 .. 3 /\ phase' = phase + 1
    BY <1>1, <1>4 DEF Start, NextPhase
  <2>2. scl_out' = (IF phase' = 3 THEN 0 ELSE 1) /\ sda_out' = 0
    BY <1>1, <1>4, <2>1 DEF LoadInv, Pins, Start
  <2>6. Pins'
    BY <2>1, <2>2 DEF Pins
  <2>3. Follows'
    BY <1>1, <1>2, <2>1 DEF Follows, InNinth, Between
  <2>4. Place'
    BY <1>1, <1>2, <2>1 DEF LoadInv, Place, K
  <2>5. ByteInv' /\ BurstInv'
    BY <1>2, <2>1 DEF ByteInv, BurstInv, Complete
  <2> QED
    BY <1>3, <2>3, <2>4, <2>5, <2>6 DEF LoadInv
<1>5. CASE phase = 3
  <2>1. /\ state' = "Data" /\ phase' = 0 /\ nbit' = 7 /\ nbyte' = 2
        /\ shiftreg' = AddressBits /\ scl_out' = 0
    BY <1>1, <1>5 DEF Start, NextPhase, burst_length, LoadInv, Pins
  <2>2. Pins'
    BY <2>1 DEF Pins
  <2>3. Follows'
    BY <1>1, <1>2, <2>1 DEF Follows, InNinth, Between
  <2>4. K \in Nat \ {0} /\ K' = K /\ Sent' = 0 /\ 2 * K <= Len(init_regs)
    BY <1>1, <1>2, <2>1, LoaderPlace DEF LoadInv, Place, K, Sent, burst_length
  <2>5. Place'
    BY <1>1, <1>2, <2>1, <2>4 DEF LoadInv, Place
  <2>6. Current' = AddressBits
    BY <2>4, ExpectedBytes DEF Current
  <2>7. ByteInv'
    <3>1. Shifted' = 0 /\ Sampled' = 0
      BY <2>1 DEF Shifted, Sampled
    <3> QED
      BY <1>2, <2>1, <2>6, <3>1, PrefixEmpty DEF ByteInv
  <2>8. BurstInv'
    <3>1. Received' = Prefix(Expected(K), Sent)'
      BY <1>2, <2>4, PrefixEmpty DEF Received
    <3> QED
      BY <1>2, <2>1, <3>1 DEF BurstInv, Complete
  <2> QED
    BY <1>3, <2>2, <2>3, <2>5, <2>7, <2>8 DEF LoadInv
<1> QED
  BY <1>4, <1>5

(* What is known throughout a byte.                                          *)
LEMMA InData ==
  ASSUME LoadInv, state = "Data"
  PROVE  /\ naks = 0 /\ nak = 0 /\ listening = TRUE
         /\ phase \in 0 .. 3 /\ nbit \in 0 .. 7 /\ nbyte \in 0 .. 2
         /\ K \in Nat \ {0} /\ Sent \in 0 .. 2 /\ Current \in Byte
         /\ 2 * K <= Len(init_regs)
<1>1. naks = 0 /\ nak = 0
  BY DEF LoadInv, Follows, Types, CodecTypes
<1>2. listening = TRUE
  BY <1>1 DEF LoadInv, Follows, Between
<1>3. 2 * K <= Len(init_regs)
  BY <1>1 DEF LoadInv, Place
<1>4. K \in Nat \ {0} /\ Sent \in 0 .. 2
  BY LoaderPlace DEF LoadInv
<1>5. Sent + 1 \in 1 .. 3
  BY <1>4
<1>6. Current \in Byte
  BY <1>3, <1>4, <1>5, ExpectedBytes DEF Current
<1>7. phase \in 0 .. 3 /\ nbit \in 0 .. 7 /\ nbyte \in 0 .. 2
  BY DEF LoadInv, Types, LoaderTypes
<1> QED
  BY <1>1, <1>2, <1>3, <1>4, <1>6, <1>7

(* SCL falls, except where it is low since the start.                        *)
LEMMA DataStep0 ==
  ASSUME LoadInv, Data, Codec, Types', phase = 0
  PROVE  LoadInv'
<1>1. /\ state = "Data" /\ state' = "Data" /\ phase' = 1 /\ scl_out' = 0
      /\ nbit' = nbit /\ nbyte' = nbyte /\ thisbyte' = thisbyte /\ nak' = nak
      /\ sda_out' = sda_out /\ shiftreg' = shiftreg
  BY DEF Data, NextPhase
<1>2. /\ naks = 0 /\ nak = 0 /\ listening = TRUE /\ nbit \in 0 .. 7 /\ nbyte \in 0 .. 2
      /\ Current \in Byte
  BY <1>1, InData
<1>3. scl_out = IF nbyte = 2 /\ nbit = 7 THEN 0 ELSE 1
  BY <1>1 DEF LoadInv, Pins
<1>4. ~InNinth => ninth = FALSE /\ pulls = FALSE /\ bits = Prefix(Current, 7 - nbit)
  BY <1>1 DEF LoadInv, Follows, ByteInv, Sampled, Types, CodecTypes
<1>5. /\ naks' = 0 /\ listening' = TRUE /\ ninth' = FALSE /\ pulls' = FALSE
      /\ bits' = Prefix(Current, 7 - nbit) /\ burst' = Received /\ written' = written
  <2>1. CASE nbit = 7 /\ nbyte = 2
    <3>1. ~InNinth
      BY <1>1, <2>1 DEF InNinth
    <3>2. CodecStays /\ pulls' = pulls
      BY <1>1, <1>3, <2>1, ClockLow DEF LoadInv, Types
    <3> QED
      BY <1>2, <1>4, <3>1, <3>2 DEF CodecStays, Received
  <2>2. CASE nbit = 7 /\ nbyte # 2
    <3>1. ninth = TRUE
      BY <1>1, <1>2, <2>2 DEF LoadInv, Follows, InNinth
    <3>2. /\ listening' = listening /\ ninth' = FALSE /\ pulls' = FALSE
          /\ bits' = << >> /\ burst' = Append(burst, bits)
          /\ written' = written /\ naks' = naks
      BY <1>1, <1>3, <2>2, <3>1, NinthEnds DEF LoadInv, Types
    <3>3. bits' = Prefix(Current, 7 - nbit)
      BY <2>2, <3>2, PrefixEmpty
    <3> QED
      BY <1>2, <3>1, <3>2, <3>3 DEF Received
  <2>3. CASE nbit # 7
    <3>1. ~InNinth
      BY <1>1, <2>3 DEF InNinth
    <3>2. Len(bits) # 8
      <4> DEFINE n == 7 - nbit
      <4>1. n \in Nat /\ n # 8
        BY <1>2
      <4>2. bits = Prefix(Current, n)
        BY <1>4, <3>1
      <4> HIDE DEF n
      <4> QED
        BY <4>1, <4>2, PrefixLen
    <3>3. CodecStays /\ pulls' = FALSE
      BY <1>1, <1>3, <1>4, <2>3, <3>1, <3>2, ClockFalls DEF LoadInv, Types
    <3> QED
      BY <1>2, <1>4, <3>1, <3>3 DEF CodecStays, Received
  <2> QED
    BY <2>1, <2>2, <2>3
<1>6. K' = K /\ Sent' = Sent /\ Current' = Current
  BY <1>1, <1>5 DEF K, Sent, Current
<1>7. Pins'
  BY <1>1 DEF Pins
<1>8. Follows'
  BY <1>1, <1>2, <1>5 DEF Follows, InNinth, Between
<1>9. Place'
  BY <1>1, <1>2, <1>5, <1>6 DEF LoadInv, Place
<1>10. ByteInv'
  <2>1. Shifted' = Shifted /\ Sampled' = 7 - nbit
    BY <1>1 DEF Shifted, Sampled
  <2>2. \A i \in 1 .. 8 - Shifted : shiftreg[i] = Current[Shifted + i]
    BY <1>1 DEF LoadInv, ByteInv
  <2> QED
    BY <1>1, <1>5, <1>6, <2>1, <2>2 DEF ByteInv
<1>11. BurstInv'
  <2>1. Received = Prefix(Expected(K), Sent)
    BY <1>1, <1>2 DEF LoadInv, BurstInv
  <2>2. Received' = Prefix(Expected(K'), Sent')
    BY <1>5, <1>6, <2>1 DEF Received
  <2> QED
    BY <1>1, <1>5, <2>2 DEF BurstInv, Complete
<1>12. WrittenInv'
  BY <1>1, <1>5, WrittenKept DEF LoadInv
<1> QED
  BY <1>7, <1>8, <1>9, <1>10, <1>11, <1>12 DEF LoadInv

(* The next bit on the line.                                                 *)
LEMMA DataStep1 ==
  ASSUME LoadInv, Data, Codec, Types', phase = 1
  PROVE  LoadInv'
<1>1. /\ state = "Data" /\ state' = "Data" /\ phase' = 2 /\ scl_out' = scl_out
      /\ nbit' = nbit /\ nbyte' = nbyte /\ thisbyte' = thisbyte /\ nak' = nak
  BY DEF Data, NextPhase
<1>2. /\ naks = 0 /\ nak = 0 /\ listening = TRUE /\ nbit \in 0 .. 7 /\ nbyte \in 0 .. 2
      /\ Current \in Byte
  BY <1>1, InData
<1>3. scl_out = 0 /\ ninth = FALSE
  BY <1>1 DEF LoadInv, Pins, Follows, InNinth, Types, CodecTypes
<1>4. CodecStays /\ pulls' = pulls
  BY <1>1, <1>3, ClockLow DEF LoadInv, Types
<1>5. K' = K /\ Sent' = Sent /\ Current' = Current
  BY <1>1, <1>4 DEF K, Sent, Current, CodecStays
<1>6. Pins'
  BY <1>1, <1>3 DEF Pins
<1>7. Follows'
  BY <1>1, <1>4 DEF LoadInv, Follows, InNinth, Between, CodecStays
<1>8. Place'
  BY <1>1, <1>2, <1>4, <1>5 DEF LoadInv, Place, CodecStays
<1>9. ByteInv'
  <2>1. Shifted = 7 - nbit /\ Shifted' = 8 - nbit /\ Sampled = 7 - nbit /\ Sampled' = 7 - nbit
    BY <1>1 DEF Shifted, Sampled
  <2>2. /\ \A i \in 1 .. 8 - Shifted : shiftreg[i] = Current[Shifted + i]
        /\ bits = Prefix(Current, 7 - nbit)
    BY <1>1, <2>1 DEF LoadInv, ByteInv, InNinth
  <2>3. /\ sda_out' = shiftreg[1]
        /\ \A i \in 1 .. 7 : shiftreg'[i] = shiftreg[i + 1]
    <3>1. shiftreg \in Byte
      BY DEF LoadInv, Types, LoaderTypes
    <3>2. /\ Head(shiftreg) = shiftreg[1]
          /\ \A i \in 1 .. 7 : Append(Tail(shiftreg), 0)[i] = shiftreg[i + 1]
      BY <3>1, ShiftOut
    <3>3. sda_out' = Head(shiftreg) /\ shiftreg' = Append(Tail(shiftreg), 0)
      BY <1>1 DEF Data
    <3> QED
      BY <3>2, <3>3
  <2>4. sda_out' = Current[8 - nbit]
    BY <1>2, <2>1, <2>2, <2>3
  <2>5. ASSUME NEW i \in 1 .. nbit
        PROVE  shiftreg'[i] = Current[8 - nbit + i]
    <3>1. i \in 1 .. 7 /\ i + 1 \in 1 .. 8 - (7 - nbit) /\ 7 - nbit + (i + 1) = 8 - nbit + i
      BY <1>2
    <3> QED
      BY <2>1, <2>2, <2>3, <3>1
  <2>6. 8 - Shifted' = nbit
    BY <1>2, <2>1
  <2> QED
    BY <1>1, <1>3, <1>4, <1>5, <2>1, <2>2, <2>4, <2>5, <2>6 DEF ByteInv, CodecStays
<1>10. BurstInv'
  <2>1. Received = Prefix(Expected(K), Sent)
    BY <1>1, <1>2 DEF LoadInv, BurstInv
  <2>2. Received' = Prefix(Expected(K'), Sent')
    BY <1>4, <1>5, <2>1 DEF Received, CodecStays
  <2> QED
    BY <1>1, <1>2, <1>4, <2>2 DEF BurstInv, Complete, CodecStays
<1>11. WrittenInv'
  BY <1>1, <1>4, WrittenKept DEF LoadInv, CodecStays
<1> QED
  BY <1>6, <1>7, <1>8, <1>9, <1>10, <1>11 DEF LoadInv

(* The codec samples the bit.                                                *)
LEMMA DataStep2 ==
  ASSUME LoadInv, Data, Codec, Types', phase = 2
  PROVE  LoadInv'
<1>1. /\ state = "Data" /\ state' = "Data" /\ phase' = 3 /\ scl_out' = 1
      /\ nbit' = nbit /\ nbyte' = nbyte /\ thisbyte' = thisbyte /\ nak' = nak
      /\ sda_out' = sda_out /\ shiftreg' = shiftreg
  BY DEF Data, NextPhase
<1>2. /\ naks = 0 /\ nak = 0 /\ listening = TRUE /\ nbit \in 0 .. 7 /\ nbyte \in 0 .. 2
      /\ Current \in Byte
  BY <1>1, InData
<1>3. scl_out = 0 /\ ninth = FALSE /\ pulls = FALSE
  BY <1>1 DEF LoadInv, Pins, Follows, InNinth, Types, CodecTypes
<1>4. /\ bits = Prefix(Current, 7 - nbit) /\ sda_out = Current[8 - nbit]
      /\ \A i \in 1 .. 8 - Shifted : shiftreg[i] = Current[Shifted + i]
  BY <1>1 DEF LoadInv, ByteInv, InNinth, Sampled
<1>5. /\ naks' = 0 /\ listening' = TRUE /\ ninth' = FALSE /\ pulls' = FALSE
      /\ burst' = burst /\ written' = written
      /\ bits' = IF Len(bits) < 8 THEN Append(bits, Sda(pulls)) ELSE bits
  BY <1>1, <1>2, <1>3, ClockRises DEF LoadInv, Types
<1>6. bits' = Prefix(Current, 8 - nbit)
  <2> DEFINE n == 7 - nbit
  <2>1. n \in Nat /\ n < 8 /\ n + 1 = 8 - nbit /\ n + 1 \in 1 .. 8
    BY <1>2
  <2>2. \A i \in 1 .. 8 : Current[i] \in {0, 1}
    BY <1>2 DEF Byte
  <2>3. Sda(pulls) = sda_out
    BY <1>1, <1>3 DEF Sda, Low, LoadInv, Types, LoaderTypes
  <2>4. bits = Prefix(Current, n) /\ sda_out = Current[n + 1]
    BY <1>4, <2>1
  <2> HIDE DEF n
  <2>5. Len(bits) = n
    BY <2>1, <2>4, PrefixLen
  <2>6. bits' = Append(Prefix(Current, n), Current[n + 1])
    BY <1>5, <2>1, <2>3, <2>4, <2>5
  <2>7. \A i \in 1 .. n + 1 : Current[i] \in {0, 1}
    BY <2>1, <2>2
  <2>8. Append(Prefix(Current, n), Current[n + 1]) = Prefix(Current, n + 1)
    BY <2>1, <2>7, PrefixAppend
  <2> QED
    BY <2>1, <2>6, <2>8
<1>7. K' = K /\ Sent' = Sent /\ Current' = Current
  BY <1>1, <1>5 DEF K, Sent, Current
<1>8. Pins'
  BY <1>1 DEF Pins
<1>9. Follows'
  BY <1>1, <1>2, <1>5 DEF Follows, InNinth, Between
<1>10. Place'
  BY <1>1, <1>2, <1>5, <1>7 DEF LoadInv, Place
<1>11. ByteInv'
  <2>1. Shifted' = Shifted /\ Sampled' = 8 - nbit
    BY <1>1 DEF Shifted, Sampled
  <2> QED
    BY <1>1, <1>4, <1>5, <1>6, <1>7, <2>1 DEF ByteInv
<1>12. BurstInv'
  <2>1. Received = Prefix(Expected(K), Sent)
    BY <1>1, <1>2 DEF LoadInv, BurstInv
  <2>2. Received' = Prefix(Expected(K'), Sent')
    BY <1>3, <1>5, <1>7, <2>1 DEF Received
  <2> QED
    BY <1>1, <1>5, <2>2 DEF BurstInv, Complete
<1>13. WrittenInv'
  BY <1>1, <1>5, WrittenKept DEF LoadInv
<1> QED
  BY <1>8, <1>9, <1>10, <1>11, <1>12, <1>13 DEF LoadInv

(* The next bit, or the acknowledgement of the byte.                         *)
LEMMA DataStep3 ==
  ASSUME LoadInv, Data, Codec, Types', phase = 3
  PROVE  LoadInv'
<1>1. /\ state = "Data" /\ phase' = 0 /\ scl_out' = scl_out
      /\ nbyte' = nbyte /\ thisbyte' = thisbyte /\ nak' = nak
      /\ sda_out' = sda_out /\ shiftreg' = shiftreg
      /\ \/ state' = "Ack" /\ nbit = 0
         \/ state' = "Data" /\ nbit # 0 /\ nbit' = nbit - 1
  BY DEF Data, NextPhase, LastBit
<1>2. /\ naks = 0 /\ nak = 0 /\ listening = TRUE /\ nbit \in 0 .. 7 /\ nbyte \in 0 .. 2
      /\ Current \in Byte
  BY <1>1, InData
<1>3. scl_out = 1 /\ ninth = FALSE /\ pulls = FALSE
  BY <1>1 DEF LoadInv, Pins, Follows, InNinth, Types, CodecTypes
<1>4. /\ bits = Prefix(Current, 8 - nbit)
      /\ \A i \in 1 .. 8 - Shifted : shiftreg[i] = Current[Shifted + i]
  BY <1>1 DEF LoadInv, ByteInv, InNinth, Sampled
<1>5. CodecStays /\ pulls' = FALSE
  BY <1>1, <1>3, ClockHigh DEF LoadInv, Types
<1>6. K' = K /\ Sent' = Sent /\ Current' = Current
  BY <1>1, <1>5 DEF K, Sent, Current, CodecStays
<1>7. Pins'
  BY <1>1, <1>2, <1>3 DEF Pins
<1>8. Follows'
  BY <1>1, <1>2, <1>3, <1>5 DEF Follows, InNinth, Between, CodecStays
<1>9. Place'
  BY <1>1, <1>2, <1>5, <1>6 DEF LoadInv, Place, CodecStays
<1>10. ByteInv'
  <2>1. CASE state' = "Ack"
    BY <1>1, <1>3, <1>4, <1>5, <1>6, <2>1 DEF ByteInv, CodecStays
  <2>2. CASE state' = "Data"
    <3>1. Shifted' = Shifted /\ Sampled' = 8 - nbit
      BY <1>1, <1>2, <2>2 DEF Shifted, Sampled
    <3> QED
      BY <1>1, <1>3, <1>4, <1>5, <1>6, <2>2, <3>1 DEF ByteInv, CodecStays
  <2> QED
    BY <1>1, <2>1, <2>2
<1>11. BurstInv'
  <2>1. Received = Prefix(Expected(K), Sent)
    BY <1>1, <1>2 DEF LoadInv, BurstInv
  <2>2. Received' = Prefix(Expected(K'), Sent')
    BY <1>3, <1>5, <1>6, <2>1 DEF Received, CodecStays
  <2> QED
    BY <1>1, <1>2, <1>5, <2>2 DEF BurstInv, Complete, CodecStays
<1>12. WrittenInv'
  BY <1>1, <1>5, WrittenKept DEF LoadInv, CodecStays
<1> QED
  BY <1>7, <1>8, <1>9, <1>10, <1>11, <1>12 DEF LoadInv

LEMMA DataStep ==
  ASSUME LoadInv, Data, Codec, Types'
  PROVE  LoadInv'
<1>1. phase = 0 \/ phase = 1 \/ phase = 2 \/ phase = 3
  BY DEF LoadInv, Types, LoaderTypes
<1> QED
  BY <1>1, DataStep0, DataStep1, DataStep2, DataStep3

(* What is known throughout an acknowledgement.                              *)
LEMMA InAck ==
  ASSUME LoadInv, state = "Ack"
  PROVE  /\ naks \in Nat /\ nbyte \in 0 .. 2
         /\ K \in Nat \ {0} /\ Sent \in 0 .. 2 /\ Sent = 2 - nbyte
         /\ naks = 0 => 2 * K <= Len(init_regs) /\ Current \in Byte
<1>1. K \in Nat \ {0} /\ Sent \in 0 .. 2 /\ Sent = 2 - nbyte
  BY LoaderPlace DEF LoadInv
<1>2. Sent + 1 \in 1 .. 3
  BY <1>1
<1>3. naks = 0 => 2 * K <= Len(init_regs)
  BY DEF LoadInv, Place
<1>4. naks = 0 => Current \in Byte
  BY <1>1, <1>2, <1>3, ExpectedBytes DEF Current
<1>5. naks \in Nat /\ nbyte \in 0 .. 2
  BY DEF LoadInv, Types, LoaderTypes, CodecTypes
<1> QED
  BY <1>1, <1>3, <1>4, <1>5

(* The byte is over: the codec acknowledges it or does not.                  *)
LEMMA AckStep0 ==
  ASSUME LoadInv, Ack, Codec, Types', phase = 0
  PROVE  LoadInv'
<1>1. /\ state = "Ack" /\ state' = "Ack" /\ phase' = 1 /\ scl_out' = 0
      /\ nbyte' = nbyte /\ thisbyte' = thisbyte /\ nak' = nak
  BY DEF Ack, NextPhase
<1>2. /\ naks = 0 /\ nak = 0 /\ scl_out = 1
      /\ ninth = FALSE /\ pulls = FALSE /\ listening = TRUE
  BY <1>1 DEF LoadInv, Pins, Follows, InNinth, Between, Types, CodecTypes
<1>3. K \in Nat \ {0} /\ Sent \in 0 .. 2 /\ 2 * K <= Len(init_regs) /\ Current \in Byte
  BY <1>1, <1>2, InAck
<1>4. bits = Current
  BY <1>1, <1>3, PrefixOfByte DEF LoadInv, ByteInv
<1>5. Len(bits) = 8
  <2> DEFINE n == 8
  <2>1. n \in Nat /\ bits = Prefix(Current, n)
    BY <1>1 DEF LoadInv, ByteInv
  <2> HIDE DEF n
  <2>2. Len(bits) = n
    BY <2>1, PrefixLen
  <2> QED
    BY <2>2 DEF n
<1>6. /\ bits' = bits /\ burst' = burst /\ written' = written
      /\ \/ /\ pulls' = TRUE /\ naks' = naks /\ listening' = TRUE /\ ninth' = TRUE
         \/ /\ pulls' = FALSE /\ naks' = naks + 1 /\ listening' = FALSE /\ ninth' = FALSE
  BY <1>1, <1>2, <1>5, ByteEnds DEF LoadInv, Types
<1>7. K' = K /\ Sent' = Sent
  BY <1>1, <1>6 DEF K, Sent
<1>8. Pins'
  BY <1>1 DEF Pins
<1>9. Follows'
  BY <1>1, <1>2, <1>6 DEF Follows, InNinth, Between
<1>10. Place'
  BY <1>1, <1>2, <1>6, <1>7 DEF LoadInv, Place
<1>11. ByteInv'
  BY <1>1, <1>5, <1>6 DEF ByteInv
<1>12. BurstInv'
  <2>1. burst = Prefix(Expected(K), Sent)
    BY <1>1, <1>2 DEF LoadInv, BurstInv, Received
  <2>2. CASE naks' = 0
    <3>1. Received' = Append(burst, bits)
      BY <1>2, <1>6, <2>2 DEF Received
    <3>2. \A i \in 1 .. Sent + 1 : Expected(K)[i] \in Byte
      BY <1>3, ExpectedBytes
    <3>3. Append(Prefix(Expected(K), Sent), Expected(K)[Sent + 1]) = Prefix(Expected(K), Sent + 1)
      <4> DEFINE e == Expected(K)
                 n == Sent
      <4>1. n \in Nat /\ \A i \in 1 .. n + 1 : e[i] \in Byte
        BY <1>3, <3>2
      <4> HIDE DEF e, n
      <4>2. Append(Prefix(e, n), e[n + 1]) = Prefix(e, n + 1)
        BY <4>1, PrefixAppend
      <4> QED
        BY <4>2 DEF e, n
    <3>4. Received' = Prefix(Expected(K'), Sent' + 1)
      BY <1>4, <1>7, <2>1, <3>1, <3>3 DEF Current
    <3> QED
      BY <1>1, <2>2, <3>4 DEF BurstInv, Complete
  <2>3. CASE naks' = 1
    <3>1. \E n \in 0 .. 2 : burst' = Prefix(Expected(K'), n)
      BY <1>3, <1>6, <1>7, <2>1
    <3> QED
      BY <1>1, <2>3, <3>1 DEF BurstInv, Complete
  <2> QED
    BY <1>2, <1>6, <2>2, <2>3
<1>13. WrittenInv'
  BY <1>1, <1>6, WrittenKept DEF LoadInv
<1> QED
  BY <1>8, <1>9, <1>10, <1>11, <1>12, <1>13 DEF LoadInv

(* SDA let go of by the loader, so that the codec alone holds it.            *)
LEMMA AckStep1 ==
  ASSUME LoadInv, Ack, Codec, Types', phase = 1
  PROVE  LoadInv'
<1>1. /\ state = "Ack" /\ state' = "Ack" /\ phase' = 2 /\ scl_out' = scl_out /\ sda_out' = 1
      /\ nbyte' = nbyte /\ thisbyte' = thisbyte /\ nak' = nak
  BY DEF Ack, NextPhase
<1>2. scl_out = 0
  BY <1>1 DEF LoadInv, Pins
<1>3. CodecStays /\ pulls' = pulls
  BY <1>1, <1>2, ClockLow DEF LoadInv, Types
<1>4. K' = K /\ Sent' = Sent /\ Received' = Received
  BY <1>1, <1>3 DEF K, Sent, Received, CodecStays
<1>5. Pins'
  BY <1>1, <1>2 DEF Pins
<1>6. Follows'
  BY <1>1, <1>3 DEF LoadInv, Follows, InNinth, Between, CodecStays
<1>7. Place'
  BY <1>1, <1>3, <1>4 DEF LoadInv, Place, CodecStays
<1>8. ByteInv'
  BY <1>1, <1>3 DEF LoadInv, ByteInv, CodecStays
<1>9. BurstInv'
  BY <1>1, <1>3, <1>4 DEF LoadInv, BurstInv, Complete, CodecStays
<1>10. WrittenInv'
  BY <1>1, <1>3, WrittenKept DEF LoadInv, CodecStays
<1> QED
  BY <1>5, <1>6, <1>7, <1>8, <1>9, <1>10 DEF LoadInv

(* The loader sees the acknowledgement, and holds the line itself until SCL  *)
(* has fallen, or gives up.                                                  *)
LEMMA AckStep2 ==
  ASSUME LoadInv, Ack, Codec, Types', phase = 2
  PROVE  LoadInv'
<1>1. /\ state = "Ack" /\ state' = "Ack" /\ phase' = 3 /\ scl_out' = 1 /\ nak' = sda
      /\ sda = 1 => nbyte' = 0 /\ thisbyte' = Len(init_regs) /\ sda_out' = sda_out
      /\ sda # 1 => nbyte' = nbyte /\ thisbyte' = thisbyte /\ sda_out' = 0
  BY DEF Ack, NextPhase, SampleAck, HeldAck, Skipped
<1>2. /\ scl_out = 0 /\ sda_out = 1 /\ naks \in Nat
      /\ naks = 0 => ninth = TRUE /\ pulls = TRUE /\ Len(bits) = 8
      /\ naks # 0 => listening = FALSE /\ ninth = FALSE /\ pulls = FALSE
  BY <1>1 DEF LoadInv, Pins, Follows, InNinth, Between, ByteInv, Types, CodecTypes
<1>3. /\ naks = 0 => sda = 0
      /\ naks # 0 => sda = 1
  BY <1>2 DEF sda, Low
<1>4. CodecStays /\ pulls' = pulls
  <2>1. /\ listening' = listening /\ ninth' = ninth /\ pulls' = pulls
        /\ burst' = burst /\ written' = written /\ naks' = naks
        /\ bits' = IF Len(bits) < 8 /\ listening THEN Append(bits, Sda(pulls)) ELSE bits
    <3>1. CodecTypes /\ scl_out = 0 /\ scl_out' = 1
      BY <1>1, <1>2 DEF LoadInv, Types
    <3> QED
      BY <3>1, ClockRises
  <2>2. ~(Len(bits) < 8 /\ listening)
    <3>1. CASE naks = 0
      <4>1. ~(Len(bits) < 8)
        BY <1>2, <3>1
      <4> QED
        BY <4>1, Zenon
    <3>2. CASE naks # 0
      <4>1. listening = FALSE
        BY <1>2, <3>2
      <4> QED
        BY <4>1
    <3> QED
      BY <3>1, <3>2
  <2>3. bits' = bits
    BY <2>1, <2>2, Zenon
  <2> QED
    BY <2>1, <2>3 DEF CodecStays
<1>5. K' = K /\ Received' = Received /\ (naks = 0 => Sent' = Sent)
  BY <1>1, <1>3, <1>4 DEF K, Sent, Received, CodecStays
<1>6. Pins'
  BY <1>1, <1>2, <1>3 DEF Pins
<1>7. Follows'
  BY <1>1, <1>2, <1>3, <1>4 DEF LoadInv, Follows, InNinth, Between, CodecStays
<1>8. Place'
  BY <1>1, <1>2, <1>3, <1>4, <1>5 DEF LoadInv, Place, CodecStays
<1>9. ByteInv'
  BY <1>1, <1>4 DEF LoadInv, ByteInv, CodecStays
<1>10. BurstInv'
  BY <1>1, <1>2, <1>4, <1>5 DEF LoadInv, BurstInv, Complete, CodecStays
<1>11. WrittenInv'
  BY <1>1, <1>4, WrittenKept DEF LoadInv, CodecStays
<1> QED
  BY <1>6, <1>7, <1>8, <1>9, <1>10, <1>11 DEF LoadInv

(* The next byte or the end of the burst.                                    *)
LEMMA AckStep3 ==
  ASSUME LoadInv, Ack, Codec, Types', phase = 3
  PROVE  LoadInv'
<1>1. /\ state = "Ack" /\ phase' = 0 /\ scl_out' = scl_out /\ sda_out' = sda_out /\ nak' = nak
      /\ \/ /\ nbyte = 0 /\ state' = "Stop"
            /\ nbyte' = nbyte /\ thisbyte' = thisbyte
         \/ /\ nbyte # 0 /\ state' = "Data" /\ nbit' = 7
            /\ shiftreg' = TableBits(thisbyte)
            /\ nbyte' = nbyte - 1 /\ thisbyte' = thisbyte + 1
  BY DEF Ack, NextPhase, NextByte, bus
<1>2. /\ scl_out = 1 /\ sda_out = nak /\ naks \in Nat /\ nbyte \in 0 .. 2
      /\ naks = 0 => nak = 0 /\ ninth = TRUE /\ listening = TRUE
      /\ naks # 0 => /\ nak = 1 /\ nbyte = 0 /\ thisbyte = Len(init_regs)
                     /\ ninth = FALSE /\ listening = FALSE /\ pulls = FALSE
  BY <1>1 DEF LoadInv, Pins, Follows, InNinth, Between, Types, CodecTypes, LoaderTypes
<1>3. CodecStays /\ (pulls' = FALSE \/ pulls' = pulls)
  BY <1>1, <1>2, ClockHigh DEF LoadInv, Types
<1>4. /\ K \in Nat \ {0} /\ Sent \in 0 .. 2 /\ Sent = 2 - nbyte
      /\ naks = 0 => 2 * K <= Len(init_regs)
  BY <1>1, InAck
<1>5. K' = K /\ Received' = Received
  BY <1>1, <1>3 DEF K, Received, CodecStays
<1>6. /\ naks = 0 => Received = Prefix(Expected(K), Sent + 1)
      /\ naks # 0 => \E n \in 0 .. 2 : burst = Prefix(Expected(K), n)
  BY <1>1, <1>2 DEF LoadInv, BurstInv
<1>7. ninth' = ninth /\ naks' = naks /\ listening' = listening /\ Len(bits') = Len(bits)
      /\ burst' = burst
  BY <1>3 DEF CodecStays
<1>8. WrittenInv'
  BY <1>1, <1>3, WrittenKept DEF LoadInv, CodecStays
<1>9. ninth = TRUE => Len(bits) = 8
  BY DEF LoadInv, ByteInv
<1>10. CASE nbyte = 0
  <2>1. /\ state' = "Stop" /\ nbyte' = 0 /\ thisbyte' = thisbyte
    BY <1>1, <1>10
  <2>2. Pins'
    BY <1>1, <1>2, <2>1 DEF Pins
  <2>3. Follows'
    BY <1>1, <1>2, <1>3, <1>7, <2>1 DEF LoadInv, Follows, InNinth, Between
  <2>4. Place'
    BY <1>1, <1>2, <1>4, <1>5, <1>7, <1>10, <2>1 DEF LoadInv, Place
  <2>5. ByteInv'
    BY <1>7, <1>9, <2>1 DEF ByteInv
  <2>6. BurstInv'
    <3>1. Sent + 1 = 3
      BY <1>4, <1>10
    <3> QED
      BY <1>2, <1>5, <1>6, <1>7, <2>1, <3>1 DEF BurstInv, Complete
  <2> QED
    BY <1>8, <2>2, <2>3, <2>4, <2>5, <2>6 DEF LoadInv
<1>11. CASE nbyte # 0
  <2>1. /\ state' = "Data" /\ nbit' = 7 /\ shiftreg' = TableBits(thisbyte)
        /\ nbyte' = nbyte - 1 /\ thisbyte' = thisbyte + 1 /\ naks = 0
        /\ nbyte' \in 0 .. 1
    BY <1>1, <1>2, <1>11
  <2>2. Sent \in 0 .. 1 /\ Sent' = Sent + 1 /\ thisbyte = 2 * (K - 1) + Sent
    BY <1>1, <1>4, <2>1 DEF LoadInv, Place, Sent, burst_length
  <2>3. Pins'
    BY <1>1, <1>2, <2>1 DEF Pins
  <2>4. Follows'
    BY <1>1, <1>2, <1>3, <1>7, <2>1 DEF Follows, InNinth, Between
  <2>5. Place'
    BY <1>1, <1>4, <1>5, <1>7, <2>1, <2>2 DEF Place
  <2>6. Current' = TableBits(thisbyte)
    <3>1. Current' = Expected(K)[Sent + 2]
      BY <1>5, <2>2 DEF Current
    <3>2. CASE Sent = 0
      BY <1>4, <2>1, <2>2, <3>1, <3>2, ExpectedBytes
    <3>3. CASE Sent = 1
      BY <1>4, <2>1, <2>2, <3>1, <3>3, ExpectedBytes
    <3> QED
      BY <2>2, <3>2, <3>3
  <2>7. ByteInv'
    <3>1. Shifted' = 0 /\ InNinth'
      BY <1>1, <2>1 DEF Shifted, InNinth
    <3> QED
      BY <1>1, <1>7, <1>9, <2>1, <2>6, <3>1 DEF ByteInv
  <2>8. BurstInv'
    <3>1. Received' = Prefix(Expected(K'), Sent')
      BY <1>5, <1>6, <2>1, <2>2
    <3> QED
      BY <1>1, <1>7, <2>1, <3>1 DEF BurstInv, Complete
  <2> QED
    BY <1>8, <2>3, <2>4, <2>5, <2>7, <2>8 DEF LoadInv
<1> QED
  BY <1>10, <1>11

LEMMA AckStep ==
  ASSUME LoadInv, Ack, Codec, Types'
  PROVE  LoadInv'
<1>1. phase = 0 \/ phase = 1 \/ phase = 2 \/ phase = 3
  BY DEF LoadInv, Types, LoaderTypes
<1> QED
  BY <1>1, AckStep0, AckStep1, AckStep2, AckStep3

(* The stop condition is prepared: the ninth clock ends, SDA goes low, and   *)
(* SCL goes high.                                                            *)
LEMMA StopStep ==
  ASSUME LoadInv, Stop, Codec, Types'
  PROVE  LoadInv'
<1>1. /\ state = "Stop" /\ phase \in 0 .. 3 /\ nbyte' = nbyte /\ thisbyte' = thisbyte /\ nak' = nak
      /\ nbyte = 0 /\ naks \in Nat
      /\ naks = 0 => nak = 0 /\ listening = TRUE
      /\ naks # 0 => /\ nak = 1 /\ thisbyte = Len(init_regs)
                     /\ listening = FALSE /\ ninth = FALSE
      /\ ninth = FALSE => pulls = FALSE
  BY DEF Stop, counts, LoadInv, Follows, InNinth, Between, Place, Types, LoaderTypes, CodecTypes
<1>2. /\ naks' = naks /\ listening' = listening /\ written' = written
      /\ burst' = Received /\ ninth' = FALSE /\ pulls' = FALSE
  <2>1. CASE phase = 0
    <3>1. scl_out = 1 /\ scl_out' = 0
      BY <1>1, <2>1 DEF Stop, LoadInv, Pins
    <3>2. CASE naks = 0
      <4>1. ninth = TRUE
        BY <1>1, <2>1, <3>2 DEF LoadInv, Follows, InNinth
      <4> QED
        BY <3>1, <4>1, NinthEnds DEF LoadInv, Types, Received
    <3>3. CASE naks # 0
      BY <1>1, <3>1, <3>3, ClockFalls DEF LoadInv, Types, CodecStays, Received
    <3> QED
      BY <3>2, <3>3
  <2>2. CASE phase # 0
    <3>1. ninth = FALSE /\ pulls = FALSE /\ Received = burst
      BY <1>1, <2>2 DEF LoadInv, Follows, InNinth, Types, CodecTypes, Received
    <3>2. CASE phase = 1
      <4>1. scl_out = 0 /\ scl_out' = 0
        BY <1>1, <3>2 DEF Stop, LoadInv, Pins
      <4> QED
        BY <3>1, <4>1, ClockLow DEF LoadInv, Types, CodecStays
    <3>3. CASE phase = 2
      <4>1. scl_out = 0 /\ scl_out' = 1
        BY <1>1, <3>3 DEF Stop, LoadInv, Pins
      <4> QED
        BY <3>1, <4>1, ClockRises DEF LoadInv, Types
    <3>4. CASE phase = 3
      <4>1. scl_out = 1 /\ scl_out' = 1 /\ sda_out' = sda_out
        BY <1>1, <3>4 DEF Stop, LoadInv, Pins
      <4> QED
        BY <3>1, <4>1, ClockHigh DEF LoadInv, Types, CodecStays
    <3>5. phase = 1 \/ phase = 2 \/ phase = 3
      BY <1>1, <2>2
    <3> QED
      BY <3>2, <3>3, <3>4, <3>5
  <2> QED
    BY <2>1, <2>2
<1>3. K \in Nat \ {0} /\ K' = K /\ Received' = Received
  BY <1>2, LoaderPlace DEF LoadInv, K, Received
<1>4. /\ naks = 0 => thisbyte = 2 * K /\ 2 * K <= Len(init_regs)
      /\ naks = 0 => Received = Prefix(Expected(K), 3)
      /\ naks # 0 => /\ Received = burst
                     /\ \E n \in 0 .. 2 : burst = Prefix(Expected(K), n)
  BY <1>1 DEF LoadInv, Place, BurstInv, Complete, Received
<1>5. WrittenInv'
  BY <1>1, <1>2, WrittenKept DEF LoadInv
<1>6. ByteInv'
  <2>1. state' \in {"Stop", "Done", "Pause"}
    BY <1>1 DEF Stop
  <2> QED
    BY <1>2, <2>1 DEF ByteInv
<1>7. CASE phase # 3
  <2>1. state' = "Stop" /\ phase' = phase + 1
    BY <1>1, <1>7 DEF Stop, NextPhase
  <2>2. scl_out' = (IF phase' \in {1, 2} THEN 0 ELSE 1) /\ (phase' \in {2, 3} => sda_out' = 0)
    BY <1>1, <1>7, <2>1 DEF Stop, LoadInv, Pins
  <2>3. Pins'
    BY <2>1, <2>2 DEF Pins
  <2>4. Follows'
    BY <1>1, <1>2, <2>1 DEF Follows, InNinth, Between
  <2>5. Place'
    BY <1>1, <1>2, <1>3, <1>4, <2>1 DEF Place
  <2>6. BurstInv'
    BY <1>1, <1>2, <1>3, <1>4, <2>1 DEF BurstInv, Complete
  <2> QED
    BY <1>5, <1>6, <2>3, <2>4, <2>5, <2>6 DEF LoadInv
<1>8. CASE phase = 3
  <2>1. /\ phase' = 0 /\ scl_out' = 1 /\ sda_out' = 0
        /\ state' = IF thisbyte = Len(init_regs) THEN "Done" ELSE "Pause"
    BY <1>1, <1>8 DEF Stop, NextPhase, LoadInv, Pins
  <2>2. Pins'
    BY <2>1 DEF Pins
  <2>3. Follows'
    BY <1>1, <1>2, <2>1 DEF Follows, InNinth, Between
  <2>4. Place'
    BY <1>1, <1>2, <1>3, <1>4, <2>1, TableAssumption DEF Place
  <2>5. BurstInv'
    BY <1>1, <1>2, <1>3, <1>4, <2>1 DEF BurstInv, Complete
  <2> QED
    BY <1>5, <1>6, <2>2, <2>3, <2>4, <2>5 DEF LoadInv
<1> QED
  BY <1>7, <1>8

(* The stop condition ends a burst.                                          *)
LEMMA WrittenGrows ==
  ASSUME Types, WrittenInv, written' = Append(written, burst),
         ~(state = "Done" /\ sda_out = 1),
         NEW n \in 0 .. 3, burst = Prefix(Expected(K), n),
         n = 3 \/ (naks' > 0 /\ state' = "Done" /\ sda_out' = 1)
  PROVE  WrittenInv' /\ Len(written') = Len(written) + 1
<1>1. /\ Len(written) \in Nat /\ Len(written') = Len(written) + 1
      /\ \A k \in 1 .. Len(written) : written'[k] = written[k]
      /\ written'[K] = burst
  BY AppendProperties, LenProperties DEF Types, CodecTypes, K
<1>2. ASSUME NEW k \in 1 .. Len(written)
      PROVE  written'[k] = Prefix(Expected(k), 3)
  BY <1>1 DEF WrittenInv, Whole
<1>3. SUFFICES ASSUME NEW k \in 1 .. Len(written')
               PROVE  \/ written'[k] = Prefix(Expected(k), 3)
                      \/ /\ naks' > 0 /\ state' = "Done" /\ sda_out' = 1 /\ k = Len(written')
                         /\ \E m \in 0 .. 2 : written'[k] = Prefix(Expected(k), m)
  BY <1>1 DEF WrittenInv, Whole, Cut
<1>4. CASE k \in 1 .. Len(written)
  BY <1>2, <1>4
<1>5. CASE k = K
  <2>1. written'[k] = Prefix(Expected(k), n) /\ k = Len(written')
    BY <1>1, <1>5 DEF K
  <2>2. CASE n = 3
    BY <2>1, <2>2
  <2>3. CASE n # 3
    <3>1. n \in 0 .. 2 /\ naks' > 0 /\ state' = "Done" /\ sda_out' = 1
      BY <2>3
    <3> QED
      BY <2>1, <3>1
  <2> QED
    BY <2>2, <2>3
<1> QED
  BY <1>1, <1>4, <1>5 DEF K

LEMMA PauseStep ==
  ASSUME LoadInv, Pause, Codec, Types'
  PROVE  LoadInv'
<1>1. /\ state = "Pause" /\ phase \in 0 .. 3 /\ scl_out' = 1 /\ sda_out' = 1 /\ scl_out = 1
      /\ sda_out = (IF phase = 0 THEN 0 ELSE 1)
      /\ nbyte' = nbyte /\ thisbyte' = thisbyte /\ nak' = nak
      /\ naks = 0 /\ nak = 0 /\ ninth = FALSE /\ pulls = FALSE
      /\ phase' = (phase + 1) % 4
      /\ state' = IF phase = 3 THEN "Start" ELSE "Pause"
  BY DEF Pause, NextPhase, counts, LoadInv, Pins, Follows, InNinth, Types, LoaderTypes, CodecTypes
<1>2. K \in Nat \ {0}
  BY LoaderPlace DEF LoadInv
<1>3. CASE phase = 0
  <2>1. /\ listening' = FALSE /\ ninth' = FALSE /\ pulls' = FALSE /\ naks' = 0
        /\ written' = IF burst # << >> THEN Append(written, burst) ELSE written
    BY <1>1, <1>3, StopCondition DEF LoadInv, Types
  <2>2. /\ state' = "Pause" /\ phase' = 1
        /\ thisbyte = 2 * K /\ 2 * K < Len(init_regs)
    BY <1>1, <1>3 DEF LoadInv, Place
  <2>3. burst = Prefix(Expected(K), 3)
    BY <1>1, <1>3 DEF LoadInv, BurstInv, Complete, Received
  <2>4. written' = Append(written, burst)
    <3> DEFINE n == 3
    <3>1. n \in Nat /\ n # 0 /\ burst = Prefix(Expected(K), n)
      BY <2>3
    <3> HIDE DEF n
    <3>2. burst # << >>
      BY <3>1, PrefixLen, EmptySeq
    <3> QED
      BY <2>1, <3>2
  <2>5. WrittenInv' /\ K' = K + 1
    <3> DEFINE n == 3
    <3>1. n \in 0 .. 3 /\ n = 3 /\ burst = Prefix(Expected(K), n)
      BY <2>3
    <3> HIDE DEF n
    <3>2. WrittenInv' /\ Len(written') = Len(written) + 1
      BY <1>1, <2>4, <3>1, WrittenGrows DEF LoadInv
    <3> QED
      BY <1>2, <3>2 DEF K
  <2>6. Pins'
    BY <1>1, <2>2 DEF Pins
  <2>7. Follows'
    BY <1>1, <2>1, <2>2 DEF Follows, InNinth, Between
  <2>8. Place'
    <3>1. 2 * (K + 1) <= Len(init_regs) /\ 2 * (K' - 1) = 2 * K
      <4> DEFINE k == K
                 l == Len(init_regs)
      <4>1. l \in Nat /\ l % 2 = 0
        BY TableAssumption
      <4>2. k \in Nat /\ 2 * k < l
        BY <1>2, <2>2
      <4> HIDE DEF k, l
      <4>3. 2 * k + 1 # l
        BY <4>1, <4>2
      <4>4. 2 * (k + 1) <= l
        BY <4>1, <4>2, <4>3
      <4>5. 2 * ((k + 1) - 1) = 2 * k
        BY <4>2
      <4> QED
        BY <2>5, <4>4, <4>5 DEF k, l
    <3> QED
      BY <1>1, <2>1, <2>2, <2>5, <3>1 DEF Place
  <2>9. ByteInv' /\ BurstInv'
    BY <2>1, <2>2 DEF ByteInv, BurstInv, Complete
  <2> QED
    BY <2>5, <2>6, <2>7, <2>8, <2>9 DEF LoadInv
<1>4. CASE phase # 0
  <2>1. CodecStays /\ pulls' = FALSE
    BY <1>1, <1>4, ClockHigh DEF LoadInv, Types
  <2>2. \/ state' = "Pause" /\ phase' \in 1 .. 3
        \/ state' = "Start" /\ phase' = 0
    BY <1>1, <1>4
  <2>3. listening = FALSE
    BY <1>1, <1>4 DEF LoadInv, Follows, Between, Types, CodecTypes
  <2>4. K' = K /\ thisbyte = 2 * (K - 1) /\ 2 * K <= Len(init_regs)
    BY <1>1, <1>4, <2>1 DEF K, LoadInv, Place, CodecStays
  <2>5. Pins'
    BY <1>1, <2>2 DEF Pins
  <2>6. Follows'
    BY <1>1, <2>1, <2>2, <2>3 DEF Follows, InNinth, Between, CodecStays
  <2>7. Place'
    BY <1>1, <2>1, <2>2, <2>4 DEF Place, CodecStays
  <2>8. ByteInv' /\ BurstInv'
    BY <1>1, <2>1, <2>2 DEF ByteInv, BurstInv, Complete, CodecStays
  <2>9. WrittenInv'
    BY <1>1, <2>1, WrittenKept DEF LoadInv, CodecStays
  <2> QED
    BY <2>5, <2>6, <2>7, <2>8, <2>9 DEF LoadInv
<1> QED
  BY <1>3, <1>4

LEMMA DoneStep ==
  ASSUME LoadInv, Done, Codec, Types'
  PROVE  LoadInv'
<1>1. /\ state = "Done" /\ state' = "Done" /\ scl_out = 1 /\ scl_out' = 1 /\ sda_out' = 1
      /\ sda_out \in {0, 1} /\ naks \in Nat
      /\ nbyte' = nbyte /\ thisbyte' = thisbyte /\ nak' = nak
      /\ naks = 0 => nak = 0
      /\ naks # 0 => nak = 1 /\ nbyte = 0 /\ thisbyte = Len(init_regs)
      /\ ninth = FALSE /\ pulls = FALSE
  BY DEF Done, LoadInv, Pins, Follows, InNinth, Types, LoaderTypes, CodecTypes
<1>2. K \in Nat \ {0}
  BY LoaderPlace DEF LoadInv
<1>3. Pins'
  BY <1>1 DEF Pins
<1>4. CASE sda_out = 0
  <2>1. /\ listening' = FALSE /\ ninth' = FALSE /\ pulls' = FALSE /\ naks' = naks
        /\ written' = IF burst # << >> THEN Append(written, burst) ELSE written
    BY <1>1, <1>4, StopCondition DEF LoadInv, Types
  <2>2. /\ naks = 0 => Len(init_regs) = 2 * K /\ burst = Prefix(Expected(K), 3)
        /\ naks # 0 => \E n \in 0 .. 2 : burst = Prefix(Expected(K), n)
    BY <1>1, <1>4 DEF LoadInv, Place, BurstInv, Complete, Received
  <2>3. PICK n \in 0 .. 3 : /\ burst = Prefix(Expected(K), n)
                           /\ IF naks = 0 THEN n = 3 ELSE n # 3
    BY <1>1, <2>2
  <2>4. /\ WrittenInv'
        /\ naks = 0 => K' = K + 1
    <3>1. CASE burst # << >>
      <4>1. written' = Append(written, burst) /\ (n = 3 \/ (naks' > 0 /\ state' = "Done" /\ sda_out' = 1))
        BY <1>1, <2>1, <2>3, <3>1
      <4>2. WrittenInv' /\ Len(written') = Len(written) + 1
        BY <1>1, <1>4, <2>3, <4>1, WrittenGrows DEF LoadInv
      <4> QED
        BY <1>2, <4>2 DEF K
    <3>2. CASE burst = << >>
      <4>1. Len(burst) = n
        BY <2>3, PrefixLen
      <4>2. n = 0 /\ naks # 0
        BY <2>3, <3>2, <4>1, EmptySeq
      <4> QED
        BY <1>1, <1>4, <2>1, <3>2, <4>2, WrittenKept DEF LoadInv
    <3> QED
      BY <3>1, <3>2
  <2>5. Follows'
    BY <1>1, <2>1 DEF Follows, InNinth, Between
  <2>6. Place'
    BY <1>1, <1>2, <2>1, <2>2, <2>4 DEF Place
  <2>7. ByteInv' /\ BurstInv'
    BY <1>1, <2>1 DEF ByteInv, BurstInv, Complete
  <2> QED
    BY <1>3, <2>4, <2>5, <2>6, <2>7 DEF LoadInv
<1>5. CASE sda_out = 1
  <2>1. CodecStays /\ pulls' = FALSE
    BY <1>1, <1>5, ClockHigh DEF LoadInv, Types
  <2>2. listening = FALSE
    BY <1>1, <1>5 DEF LoadInv, Follows, Between, Types, CodecTypes
  <2>3. K' = K
    BY <2>1 DEF K, CodecStays
  <2>4. Follows'
    BY <1>1, <2>1, <2>2 DEF Follows, InNinth, Between, CodecStays
  <2>5. Place'
    BY <1>1, <1>5, <2>1, <2>3 DEF LoadInv, Place, CodecStays
  <2>6. ByteInv' /\ BurstInv'
    BY <1>1, <2>1 DEF ByteInv, BurstInv, Complete, CodecStays
  <2>7. WrittenInv'
    BY <1>1, <1>5, <2>1 DEF LoadInv, WrittenInv, Whole, Cut, CodecStays
  <2> QED
    BY <1>3, <2>4, <2>5, <2>6, <2>7 DEF LoadInv
<1> QED
  BY <1>1, <1>4, <1>5

-----------------------------------------------------------------------------
LEMMA InvariantStarts ==
  ASSUME Init, num_retries = 0
  PROVE  LoadInv
<1> USE DEF Init
<1>1. Bits(0) \in Byte
  BY BitsType
<1>2. Types
  <2>1. LoaderTypes
    BY <1>1 DEF LoaderTypes
  <2>2. << >> \in Serial /\ << >> \in Seq(Serial) /\ << >> \in Seq(Seq(Serial))
    BY EmptySeq DEF Serial
  <2>3. CodecTypes
    BY <2>2 DEF CodecTypes
  <2> QED
    BY <2>1, <2>3 DEF Types
<1>3. Pins /\ Follows
  BY DEF Pins, Follows, InNinth, Between
<1>4. Place
  <2>1. Len(written) = 0
    BY EmptySeq
  <2> QED
    BY <2>1, TableAssumption DEF Place, K
<1>5. ByteInv /\ BurstInv
  BY DEF ByteInv, BurstInv, Complete
<1>6. WrittenInv
  <2>1. Len(written) = 0
    BY EmptySeq
  <2> QED
    BY <2>1 DEF WrittenInv
<1> QED
  BY <1>2, <1>3, <1>4, <1>5, <1>6 DEF LoadInv

LEMMA InvariantHolds ==
  ASSUME LoadInv, [Next]_vars
  PROVE  LoadInv'
<1>1. CASE Next
  <2>1. Types'
    BY <1>1, StepKeepsTypes DEF LoadInv
  <2> QED
    BY <1>1, <2>1, IdleStep, StartStep, DataStep, AckStep, StopStep, PauseStep, DoneStep
    DEF Next, Loader
<1>2. CASE UNCHANGED vars
  BY <1>2 DEF vars, counts, bus, codec, LoadInv, Types, LoaderTypes, CodecTypes, Pins, Follows,
     InNinth, Between, Place, K, Sent, Current, ByteInv, Shifted, Sampled, BurstInv, Received,
     Complete, WrittenInv, Whole, Cut
<1> QED
  BY <1>1, <1>2

(* The invariant means what is claimed of the bursts and of the status.      *)
LEMMA PrefixIsSubSeq ==
  ASSUME NEW s, NEW n \in Nat
  PROVE  SubSeq(s, 1, n) = Prefix(s, n)
<1> DEFINE S == {s[i] : i \in 1 .. n}
           t == SubSeq(s, 1, n)
<1>1. \A i \in 1 .. n : s[i] \in S
  OBVIOUS
<1> HIDE DEF S
<1>2. /\ t \in Seq(S) /\ Len(t) = (IF 1 <= n THEN n - 1 + 1 ELSE 0)
      /\ \A i \in 1 .. n - 1 + 1 : t[i] = s[1 + i - 1]
  BY <1>1, SubSeqProperties
<1> HIDE DEF t
<1>3. Len(t) = n /\ \A i \in 1 .. n : t[i] = s[i]
  BY <1>2
<1>4. t = [i \in 1 .. n |-> t[i]]
  BY <1>2, <1>3, LenProperties
<1>5. t = Prefix(s, n)
  BY <1>3, <1>4 DEF Prefix
<1> QED
  BY <1>5 DEF t

LEMMA BurstsInOrder ==
  ASSUME LoadInv
  PROVE  TableInOrder
<1> SUFFICES ASSUME NEW k \in 1 .. Len(written)
             PROVE  /\ written[k] = SubSeq(Expected(k), 1, Len(written[k]))
                    /\ Len(written[k]) < 3 => k = Len(written) /\ naks > 0
  BY DEF TableInOrder
<1> DEFINE w == written[k]
           e == Expected(k)
           cut == k = Len(written) /\ naks > 0
<1>1. w = Prefix(e, 3) \/ (cut /\ \E n \in 0 .. 2 : w = Prefix(e, n))
  BY DEF LoadInv, WrittenInv, Whole, Cut
<1> HIDE DEF w, e, cut
<1>2. \E n \in Nat : w = Prefix(e, n) /\ (n < 3 => cut)
  <2>1. CASE w = Prefix(e, 3)
    BY <2>1
  <2>2. CASE cut /\ \E n \in 0 .. 2 : w = Prefix(e, n)
    <3>1. PICK n \in 0 .. 2 : w = Prefix(e, n)
      BY <2>2
    <3>2. n \in Nat
      OBVIOUS
    <3> QED
      BY <2>2, <3>1, <3>2
  <2> QED
    BY <1>1, <2>1, <2>2
<1>3. PICK n \in Nat : w = Prefix(e, n) /\ (n < 3 => cut)
  BY <1>2
<1>4. Len(w) = n
  BY <1>3, PrefixLen
<1>5. w = SubSeq(e, 1, n)
  BY <1>3, PrefixIsSubSeq
<1>6. w = SubSeq(e, 1, Len(w)) /\ (Len(w) < 3 => cut)
  BY <1>3, <1>4, <1>5
<1> QED
  BY <1>6 DEF w, e, cut

LEMMA StatusIsTrue ==
  ASSUME LoadInv
  PROVE  DoneMeansLoaded
<1> SUFFICES ASSUME state = "Done", sda_out = 1
             PROVE  IF nak = 0 THEN written = [k \in 1 .. Len(init_regs) \div 2 |-> Expected(k)]
                    ELSE naks > 0
  BY DEF DoneMeansLoaded
<1>1. naks \in Nat /\ (naks > 0 => nak = 1) /\ (naks = 0 => nak = 0)
  BY DEF LoadInv, Follows, Types, CodecTypes
<1>2. CASE naks = 0
  <2>1. \A k \in 1 .. Len(written) : written[k] = Prefix(Expected(k), 3)
    BY <1>2 DEF LoadInv, WrittenInv, Whole
  <2>2. ASSUME NEW k
        PROVE  Prefix(Expected(k), 3) = Expected(k)
    BY DEF Prefix, Expected
  <2>3. Len(init_regs) \div 2 = Len(written)
    <3> DEFINE n == Len(written)
    <3>1. n \in Nat
      BY LenProperties DEF LoadInv, Types, CodecTypes
    <3>2. Len(init_regs) = 2 * n
      BY <1>2, <3>1 DEF LoadInv, Place, K
    <3> HIDE DEF n
    <3>3. (2 * n) \div 2 = n
      BY <3>1
    <3> QED
      BY <3>2, <3>3 DEF n
  <2>4. written = [k \in 1 .. Len(written) |-> written[k]]
    BY LenProperties DEF LoadInv, Types, CodecTypes
  <2>5. written = [k \in 1 .. Len(written) |-> Expected(k)]
    BY <2>1, <2>2, <2>4
  <2> QED
    BY <1>1, <1>2, <2>3, <2>5
<1>3. CASE naks # 0
  BY <1>1, <1>3
<1> QED
  BY <1>2, <1>3

(* Without retries the codec receives the table burst by burst from its      *)
(* beginning, whatever the table, and only a byte it refused cuts off a      *)
(* burst, the last.                                                          *)
THEOREM TableIsSentInOrder ==
  ASSUME num_retries = 0
  PROVE  Spec => []TableInOrder
<1>1. Init => LoadInv
  BY InvariantStarts
<1>2. LoadInv /\ [Next]_vars => LoadInv'
  BY InvariantHolds
<1>3. LoadInv => TableInOrder
  BY BurstsInOrder
<1> QED
  BY <1>1, <1>2, <1>3, PTL DEF Spec

(* Without retries the status outputs are true: done without an error means  *)
(* that the whole table is in the codec, done with one that it refused a     *)
(* byte.                                                                     *)
THEOREM StatusOutputsHold ==
  ASSUME num_retries = 0
  PROVE  Spec => []DoneMeansLoaded
<1>1. Init => LoadInv
  BY InvariantStarts
<1>2. LoadInv /\ [Next]_vars => LoadInv'
  BY InvariantHolds
<1>3. LoadInv => DoneMeansLoaded
  BY StatusIsTrue
<1> QED
  BY <1>1, <1>2, <1>3, PTL DEF Spec

(* A start or a stop only where the loader means one: everywhere else either *)
(* the clock moves or is low, or SDA is not touched and nobody lets go of it.*)
LEMMA ConditionsMeant ==
  ASSUME LoadInv, Next, Starts \/ Stops
  PROVE  state \in {"Start", "Pause", "Done"}
<1>1. Loader /\ Codec /\ CodecTypes
  BY DEF Next, LoadInv, Types
<1>2. scl_out = 1 /\ scl_out' = 1
  BY DEF Starts, Stops
<1>3. ASSUME sda_out' = sda_out, sda_out = 0 \/ pulls = FALSE
      PROVE  FALSE
  BY <1>1, <1>3, NoCondition
<1>4. CASE Idle
  <2>1. sda_out' = sda_out /\ pulls = FALSE
    BY <1>1, <1>4 DEF Idle, LoadInv, Pins, Follows, InNinth, CodecTypes
  <2> QED
    BY <1>3, <2>1
<1>5. CASE Data
  <2>1. phase = 3
    BY <1>2, <1>5 DEF Data, LoadInv, Pins, Types, LoaderTypes
  <2>2. sda_out' = sda_out /\ pulls = FALSE
    BY <1>1, <1>5, <2>1 DEF Data, LoadInv, Follows, InNinth, CodecTypes
  <2> QED
    BY <1>3, <2>2
<1>6. CASE Ack
  <2>1. state = "Ack" /\ phase = 3 /\ sda_out' = sda_out
    BY <1>2, <1>6 DEF Ack, SampleAck, LoadInv, Pins, bus
  <2>2. sda_out = nak /\ nak \in {0, 1}
    BY <2>1 DEF LoadInv, Pins, Types, LoaderTypes
  <2>3. nak = 1 => naks # 0
    BY DEF LoadInv, Follows
  <2>4. naks # 0 => pulls = FALSE
    BY <1>1 DEF LoadInv, Follows, CodecTypes
  <2> QED
    BY <1>3, <2>1, <2>2, <2>3, <2>4
<1>7. CASE Stop
  <2>1. phase = 3
    BY <1>2, <1>7 DEF Stop, LoadInv, Pins, Types, LoaderTypes
  <2>2. sda_out' = sda_out /\ sda_out = 0
    BY <1>7, <2>1 DEF Stop, LoadInv, Pins
  <2> QED
    BY <1>3, <2>2
<1>8. CASE Start \/ Pause \/ Done
  BY <1>8 DEF Start, Pause, Done
<1> QED
  BY <1>1, <1>4, <1>5, <1>6, <1>7, <1>8 DEF Loader

(* Without retries SDA moves under a high clock only where the loader means  *)
(* a start or a stop or the bus is idle, however early the codec lets go of  *)
(* its acknowledgement ("avoid spurious stops", lines 241-246).              *)
THEOREM NoStrayConditions ==
  ASSUME num_retries = 0
  PROVE  Spec => NoSpuriousConditions
<1>1. Init => LoadInv
  BY InvariantStarts
<1>2. LoadInv /\ [Next]_vars => LoadInv'
  BY InvariantHolds
<1>3. LoadInv /\ [Next]_vars => [Starts \/ Stops => state \in {"Start", "Pause", "Done"}]_vars
  BY ConditionsMeant
<1> QED
  BY <1>1, <1>2, <1>3, PTL DEF Spec, NoSpuriousConditions
=============================================================================
