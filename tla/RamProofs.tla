----------------------------- MODULE RamProofs ------------------------------
(***************************************************************************)
(* Proofs about the controllers of src/ram that are a memory to their      *)
(* users: Fifo, for every depth and every set of words, and DpSram.        *)
(***************************************************************************)
EXTENDS Fifo, DpSram, SequenceTheorems, TLAPS

-----------------------------------------------------------------------------
(* Fifo.  TypeOK alone is not inductive: that size_v stays in 0 .. Depth   *)
(* follows only when the guards, which look at the pointers and at         *)
(* looped_v, say the same as the counter.  SizeIsDistance is that link.    *)

IInv == TypeOK /\ SizeIsDistance

(* The values the read branch leaves behind for the write branch of the    *)
(* same edge.                                                              *)
Reads(rd)      == rd /\ CanRead(head_v, tail_v, looped_v)
TailR(rd)      == IF Reads(rd) THEN NextSlot(tail_v) ELSE tail_v
LoopR(rd)      == looped_v /\ ~(Reads(rd) /\ tail_v = Depth - 1)
SizeR(rd)      == IF Reads(rd) THEN size_v - 1 ELSE size_v
Writes(rd, wr) == wr /\ CanWrite(head_v, TailR(rd), LoopR(rd))

-----------------------------------------------------------------------------
(* The guards agree with the word counter.                                 *)

LEMMA CanReadIffWords ==
  ASSUME IInv
  PROVE  CanRead(head_v, tail_v, looped_v) <=> size_v > 0
  BY DepthAssumption DEF IInv, TypeOK, SizeIsDistance, CanRead, Slots

LEMMA NextSlotInSlots ==
  ASSUME NEW p \in Slots
  PROVE  /\ NextSlot(p) \in Slots
         /\ p = Depth - 1 => NextSlot(p) = 0
         /\ p # Depth - 1 => NextSlot(p) = p + 1
  BY DepthAssumption DEF Slots, NextSlot

LEMMA ZeroInRange == 0 \in Slots /\ 0 \in 0 .. Depth
  BY DepthAssumption DEF Slots

LEMMA HalfFlagType == ASSUME NEW n PROVE HalfFlag(n) \in BOOLEAN
  BY DEF HalfFlag

LEMMA IdleType == Idle \in PortValues
  BY ZeroAssumption DEF Idle, PortValues

(* IInv as plain arithmetic.                                               *)
LEMMA Arithmetic ==
  ASSUME IInv
  PROVE  /\ size_v \in 0 .. Depth
         /\ head_v \in 0 .. Depth - 1
         /\ tail_v \in 0 .. Depth - 1
         /\ looped_v => size_v + tail_v = head_v + Depth
         /\ ~looped_v => size_v + tail_v = head_v
  BY DEF IInv, TypeOK, SizeIsDistance, Slots

-----------------------------------------------------------------------------
(* After the read branch the counter is still the distance, and the write  *)
(* branch is entered exactly when there is room.                           *)
LEMMA AfterRead ==
  ASSUME IInv, NEW rd \in BOOLEAN
  PROVE  /\ SizeR(rd) \in 0 .. Depth
         /\ TailR(rd) \in 0 .. Depth - 1
         /\ LoopR(rd) => SizeR(rd) + TailR(rd) = head_v + Depth
         /\ ~LoopR(rd) => SizeR(rd) + TailR(rd) = head_v
         /\ Reads(rd) <=> rd /\ size_v > 0
  <1>1. Reads(rd) <=> rd /\ size_v > 0
    BY CanReadIffWords DEF Reads
  <1>2. CASE Reads(rd) /\ tail_v = Depth - 1
    <2>1. TailR(rd) = 0 /\ ~LoopR(rd) /\ SizeR(rd) = size_v - 1
      BY <1>2, NextSlotInSlots DEF IInv, TypeOK, TailR, LoopR, SizeR
    <2>2. looped_v
      BY <1>1, <1>2, Arithmetic, DepthAssumption
    <2>3. size_v + 0 = head_v + 1 /\ size_v > 0 /\ size_v \in 0 .. Depth
      BY <1>1, <1>2, <2>2, Arithmetic, DepthAssumption
    <2>4. size_v - 1 \in 0 .. Depth /\ 0 \in 0 .. Depth - 1
      BY <2>3, DepthAssumption
    <2>5. size_v - 1 + 0 = head_v
      BY <2>3, Arithmetic
    <2> QED BY <1>1, <2>1, <2>4, <2>5
  <1>3. CASE Reads(rd) /\ tail_v # Depth - 1
    <2>1. TailR(rd) = tail_v + 1 /\ (LoopR(rd) <=> looped_v) /\ SizeR(rd) = size_v - 1
      BY <1>3, NextSlotInSlots DEF IInv, TypeOK, TailR, LoopR, SizeR
    <2>2. size_v - 1 \in 0 .. Depth /\ tail_v + 1 \in 0 .. Depth - 1
      BY <1>1, <1>3, Arithmetic, DepthAssumption
    <2>3. size_v - 1 + (tail_v + 1) = size_v + tail_v
      BY Arithmetic, DepthAssumption
    <2>4. /\ LoopR(rd) => size_v + tail_v = head_v + Depth
          /\ ~LoopR(rd) => size_v + tail_v = head_v
      BY <2>1, Arithmetic
    <2> QED BY <1>1, <2>1, <2>2, <2>3, <2>4
  <1>4. CASE ~Reads(rd)
    <2>1. TailR(rd) = tail_v /\ (LoopR(rd) <=> looped_v) /\ SizeR(rd) = size_v
      BY <1>4 DEF TailR, LoopR, SizeR
    <2> QED BY <1>1, <2>1, Arithmetic
  <1> QED BY <1>2, <1>3, <1>4

LEMMA WritesIffRoom ==
  ASSUME IInv, NEW rd \in BOOLEAN, NEW wr \in BOOLEAN
  PROVE  Writes(rd, wr) <=> wr /\ SizeR(rd) < Depth
  BY AfterRead, Arithmetic, DepthAssumption DEF Writes, CanWrite

(* The next values of a clock edge in terms of the read branch's.          *)
LEMMA ClockValues ==
  ASSUME IInv, NEW rd \in BOOLEAN, NEW wr \in BOOLEAN, NEW d \in FifoData,
         FifoClock(rd, wr, d)
  PROVE  /\ head_v' = IF Writes(rd, wr) THEN NextSlot(head_v) ELSE head_v
         /\ tail_v' = TailR(rd)
         /\ size_v' = IF Writes(rd, wr) THEN SizeR(rd) + 1 ELSE SizeR(rd)
         /\ looped_v' \in BOOLEAN
         /\ looped_v' <=> LoopR(rd) \/ (Writes(rd, wr) /\ head_v = Depth - 1)
         /\ data_o' = IF Reads(rd) THEN memory_v[tail_v] ELSE data_o
         /\ memory_v' = IF Writes(rd, wr) THEN [memory_v EXCEPT ![head_v] = d]
                                          ELSE memory_v
         /\ empty_o' = EmptyFlag(head_v', tail_v', looped_v')
         /\ full_o' = FullFlag(head_v', tail_v', looped_v')
         /\ half_o' = HalfFlag(size_v')
         /\ port' = [rd |-> rd, wr |-> wr, d |-> d]
  <1>1. looped_v' = (LoopR(rd) \/ (Writes(rd, wr) /\ head_v = Depth - 1))
    BY Zenon DEF FifoClock, Reads, TailR, LoopR, Writes
  <1> QED BY <1>1, Zenon DEF FifoClock, Reads, TailR, LoopR, SizeR, Writes

-----------------------------------------------------------------------------
(* IInv is an inductive invariant.                                         *)

LEMMA InitIInv == FifoInit => IInv
  <1> SUFFICES ASSUME FifoInit PROVE IInv
    OBVIOUS
  <1>1. TypeOK
    BY ZeroInRange, IdleType, ZeroAssumption, Zenon DEF FifoInit, TypeOK
  <1>2. ~looped_v
    BY Zenon DEF FifoInit
  <1>3. SizeIsDistance
    BY <1>2 DEF FifoInit, SizeIsDistance
  <1> QED BY <1>1, <1>3 DEF IInv

LEMMA ResetIInv == IInv /\ Reset => IInv'
  <1> SUFFICES ASSUME IInv, Reset PROVE IInv'
    OBVIOUS
  <1>1. TypeOK'
    BY ZeroInRange, IdleType, ZeroAssumption, Zenon DEF Reset, IInv, TypeOK
  <1>2. ~looped_v'
    BY Zenon DEF Reset
  <1>3. SizeIsDistance'
    BY <1>2 DEF Reset, SizeIsDistance
  <1> QED BY <1>1, <1>3 DEF IInv

LEMMA ClockIInv ==
  ASSUME IInv, NEW rd \in BOOLEAN, NEW wr \in BOOLEAN, NEW d \in FifoData,
         FifoClock(rd, wr, d)
  PROVE  IInv'
  <1>1. size_v' \in 0 .. Depth /\ head_v' \in Slots /\ SizeIsDistance'
    <2>1. CASE Writes(rd, wr) /\ head_v = Depth - 1
      <3>1. SizeR(rd) < Depth
        BY <2>1, WritesIffRoom
      <3>2. ~LoopR(rd)
        BY <2>1, <3>1, AfterRead, DepthAssumption
      <3>3. looped_v' /\ head_v' = 0 /\ size_v' = SizeR(rd) + 1 /\ tail_v' = TailR(rd)
        BY <2>1, ClockValues, NextSlotInSlots DEF IInv, TypeOK
      <3> QED
        BY <2>1, <3>1, <3>2, <3>3, AfterRead, ZeroInRange, DepthAssumption
           DEF SizeIsDistance
    <2>2. CASE Writes(rd, wr) /\ head_v # Depth - 1
      <3>1. SizeR(rd) < Depth
        BY <2>2, WritesIffRoom
      <3>2. /\ (looped_v' <=> LoopR(rd)) /\ head_v' = head_v + 1
            /\ size_v' = SizeR(rd) + 1 /\ tail_v' = TailR(rd)
        BY <2>2, ClockValues, NextSlotInSlots DEF IInv, TypeOK
      <3>3. size_v' \in 0 .. Depth /\ head_v' \in Slots
        BY <2>2, <3>1, <3>2, AfterRead, Arithmetic, DepthAssumption DEF Slots
      <3>4. size_v' + tail_v' = SizeR(rd) + TailR(rd) + 1 /\ head_v' + Depth = head_v + Depth + 1
        BY <3>2, AfterRead, Arithmetic, DepthAssumption
      <3>5. /\ LoopR(rd) => size_v' + tail_v' = head_v' + Depth
            /\ ~LoopR(rd) => size_v' + tail_v' = head_v'
        BY <3>2, <3>4, AfterRead, Arithmetic, DepthAssumption
      <3>6. SizeIsDistance'
        BY <3>2, <3>3, <3>5, Arithmetic, DepthAssumption DEF SizeIsDistance, Slots
      <3> QED BY <3>3, <3>6
    <2>3. CASE ~Writes(rd, wr)
      <3>1. /\ (looped_v' <=> LoopR(rd)) /\ head_v' = head_v
            /\ size_v' = SizeR(rd) /\ tail_v' = TailR(rd)
        BY <2>3, ClockValues
      <3> QED BY <3>1, AfterRead, Arithmetic DEF SizeIsDistance, Slots
    <2> QED BY <2>1, <2>2, <2>3
  <1>2. tail_v' \in Slots
    BY ClockValues, AfterRead DEF Slots
  <1>3. memory_v' \in [Slots -> FifoData] /\ data_o' \in FifoData
    BY ClockValues DEF IInv, TypeOK
  <1>4. empty_o' \in BOOLEAN /\ full_o' \in BOOLEAN
    BY ClockValues, Zenon DEF EmptyFlag, FullFlag, IInv, TypeOK
  <1>5. half_o' \in BOOLEAN
    BY ClockValues, HalfFlagType, Zenon
  <1>6. port' \in PortValues
    BY ClockValues DEF PortValues
  <1>7. looped_v' \in BOOLEAN
    BY ClockValues, Zenon
  <1> QED BY <1>1, <1>2, <1>3, <1>4, <1>5, <1>6, <1>7, Zenon DEF IInv, TypeOK

LEMMA StutterIInv == IInv /\ UNCHANGED fifo_vars => IInv'
  BY DEF fifo_vars, pointers, flags, IInv, TypeOK, SizeIsDistance

LEMMA NextIInv == IInv /\ [FifoNext]_fifo_vars => IInv'
  <1> SUFFICES ASSUME IInv, [FifoNext]_fifo_vars PROVE IInv'
    OBVIOUS
  <1>1. CASE Reset
    BY <1>1, ResetIInv
  <1>2. CASE \E rd, wr \in BOOLEAN, d \in FifoData : FifoClock(rd, wr, d)
    BY <1>2, ClockIInv
  <1>3. CASE UNCHANGED fifo_vars
    BY <1>3, StutterIInv
  <1> QED BY <1>1, <1>2, <1>3 DEF FifoNext

LEMMA SpecIInv == FifoSpec => []IInv
  BY InitIInv, NextIInv, PTL DEF FifoSpec

(* Type correctness: in particular the pointers never leave the memory and *)
(* the word counter never leaves its declared range 0 to fifo_depth_g      *)
(* (fifo.vhd:71-73), at whose violation a VHDL simulator would stop.       *)
THEOREM TypeCorrect == FifoSpec => []TypeOK
  <1>1. IInv => TypeOK BY DEF IInv
  <1> QED BY <1>1, SpecIInv, PTL

(* The word counter equals the distance between the pointers, for every    *)
(* depth.                                                                  *)
THEOREM SizeCorrect == FifoSpec => []SizeIsDistance
  <1>1. IInv => SizeIsDistance BY DEF IInv
  <1> QED BY <1>1, SpecIInv, PTL

-----------------------------------------------------------------------------
(* The flags.  A depth of one is excluded: there the pointers are always   *)
(* equal, the else branch that lowers the flags never runs, and empty_o    *)
(* stays up beside a stored word.                                          *)

LEMMA MeetingPointers ==
  ASSUME NEW s \in 0 .. Depth, NEW h \in 0 .. Depth - 1,
         NEW t \in 0 .. Depth - 1, NEW l \in BOOLEAN,
         s + t = h + (IF l THEN Depth ELSE 0)
  PROVE  /\ h = t /\ l => s = Depth
         /\ h = t /\ ~l => s = 0
         /\ h # t => s # 0 /\ s # Depth
  BY DepthAssumption

LEMMA ClockFlags ==
  ASSUME Depth >= 2, IInv, FlagsTellTruth,
         NEW rd \in BOOLEAN, NEW wr \in BOOLEAN, NEW d \in FifoData,
         FifoClock(rd, wr, d)
  PROVE  FlagsTellTruth'
  <1>1. IInv'
    BY ClockIInv
  <1>2. /\ head_v' = tail_v' /\ looped_v' => size_v' = Depth
        /\ head_v' = tail_v' /\ ~looped_v' => size_v' = 0
        /\ head_v' # tail_v' => size_v' # 0 /\ size_v' # Depth
    <2>1. /\ size_v' \in 0 .. Depth /\ head_v' \in 0 .. Depth - 1
          /\ tail_v' \in 0 .. Depth - 1 /\ looped_v' \in BOOLEAN
          /\ size_v' + tail_v' = head_v' + (IF looped_v' THEN Depth ELSE 0)
      BY <1>1, Zenon DEF IInv, TypeOK, Slots, SizeIsDistance
    <2> QED BY <2>1, MeetingPointers, ZenonT(60)
  <1>3. (size_v' = 0 => size_v # Depth) /\ (size_v' = Depth => size_v # 0)
    BY ClockValues, Arithmetic DEF SizeR
  <1>4. empty_o' <=> size_v' = 0
    <2>1. CASE head_v' = tail_v' /\ looped_v'
      <3>1. empty_o' = empty_o
        BY <2>1, ClockValues, Zenon DEF EmptyFlag
      <3>2. size_v' # 0 /\ size_v # 0
        BY <1>2, <1>3, <2>1, DepthAssumption
      <3> QED BY <3>1, <3>2, Zenon DEF FlagsTellTruth
    <2>2. CASE head_v' = tail_v' /\ ~looped_v'
      BY <1>2, <2>2, ClockValues, Zenon DEF EmptyFlag
    <2>3. CASE head_v' # tail_v'
      BY <1>2, <2>3, ClockValues, Zenon DEF EmptyFlag
    <2> QED BY <2>1, <2>2, <2>3
  <1>5. full_o' <=> size_v' = Depth
    <2>1. CASE head_v' = tail_v' /\ looped_v'
      BY <1>2, <2>1, ClockValues, Zenon DEF FullFlag
    <2>2. CASE head_v' = tail_v' /\ ~looped_v'
      <3>1. full_o' = full_o
        BY <2>2, ClockValues, Zenon DEF FullFlag
      <3>2. size_v' # Depth /\ size_v # Depth
        BY <1>2, <1>3, <2>2, DepthAssumption
      <3> QED BY <3>1, <3>2, Zenon DEF FlagsTellTruth
    <2>3. CASE head_v' # tail_v'
      BY <1>2, <2>3, ClockValues, Zenon DEF FullFlag
    <2> QED BY <2>1, <2>2, <2>3
  <1>6. half_o' <=> size_v' > Depth \div 2
    BY ClockValues DEF HalfFlag
  <1> QED BY <1>4, <1>5, <1>6 DEF FlagsTellTruth

LEMMA StillFlags ==
  ASSUME Depth >= 2, FlagsTellTruth, Reset \/ UNCHANGED fifo_vars
  PROVE  FlagsTellTruth'
  <1>1. CASE UNCHANGED fifo_vars
    BY <1>1 DEF fifo_vars, pointers, flags, FlagsTellTruth
  <1>2. CASE Reset
    <2>1. empty_o' /\ ~half_o' /\ ~full_o' /\ size_v' = 0
      BY <1>2, Zenon DEF Reset
    <2> QED BY <2>1, DepthAssumption DEF FlagsTellTruth
  <1> QED BY <1>1, <1>2

(* At every clock edge the registered flags of a FIFO of at least two      *)
(* words say what the word counter says, whatever reads, writes and resets *)
(* came before, although the code assigns each flag in one branch only.    *)
THEOREM FlagsCorrect ==
  ASSUME Depth >= 2
  PROVE  FifoSpec => []FlagsTellTruth
  <1>1. FifoInit => FlagsTellTruth
    <2> SUFFICES ASSUME FifoInit PROVE FlagsTellTruth
      OBVIOUS
    <2>1. empty_o /\ ~half_o /\ ~full_o /\ size_v = 0
      BY Zenon DEF FifoInit
    <2> QED BY <2>1, DepthAssumption DEF FlagsTellTruth
  <1>2. IInv /\ FlagsTellTruth /\ [FifoNext]_fifo_vars => FlagsTellTruth'
    <2> SUFFICES ASSUME IInv, FlagsTellTruth, [FifoNext]_fifo_vars
                 PROVE  FlagsTellTruth'
      OBVIOUS
    <2>1. CASE Reset \/ UNCHANGED fifo_vars
      BY <2>1, StillFlags
    <2>2. CASE \E rd, wr \in BOOLEAN, d \in FifoData : FifoClock(rd, wr, d)
      BY <2>2, ClockFlags
    <2> QED BY <2>1, <2>2 DEF FifoNext
  <1> QED BY <1>1, <1>2, SpecIInv, PTL DEF FifoSpec

-----------------------------------------------------------------------------
(* The circular memory implements the bounded queue.                       *)

LEMMA SlotAtNext ==
  ASSUME NEW t \in Slots, NEW i \in 1 .. Depth
  PROVE  SlotAt(NextSlot(t), i) = SlotAt(t, i + 1)
  BY DepthAssumption DEF Slots, NextSlot, SlotAt

(* The slot after the last word is the head, and no earlier word is there. *)
LEMMA SlotAtHead ==
  ASSUME NEW s \in 0 .. Depth - 1, NEW t \in 0 .. Depth - 1,
         NEW h \in 0 .. Depth - 1, s + t = h \/ s + t = h + Depth
  PROVE  /\ SlotAt(t, s + 1) = h
         /\ \A i \in 1 .. s : SlotAt(t, i) # h
  BY DepthAssumption DEF SlotAt

LEMMA SlotAtInSlots ==
  ASSUME NEW t \in 0 .. Depth - 1, NEW i \in 1 .. Depth
  PROVE  SlotAt(t, i) \in Slots
  BY DepthAssumption DEF SlotAt, Slots

(* The words from slot t on, n of them.                                    *)
Words(t, n) == [i \in 1 .. n |-> memory_v[SlotAt(t, i)]]

LEMMA WordsSeq ==
  ASSUME IInv, NEW t \in 0 .. Depth - 1, NEW n \in 0 .. Depth
  PROVE  /\ Words(t, n) \in Seq(FifoData)
         /\ Len(Words(t, n)) = n
         /\ Words(t, n) = <<>> <=> n = 0
  <1>1. \A i \in 1 .. n : memory_v[SlotAt(t, i)] \in FifoData
    BY SlotAtInSlots, DepthAssumption DEF IInv, TypeOK
  <1>2. Words(t, n) \in Seq(FifoData) /\ Len(Words(t, n)) = n
    BY <1>1, DepthAssumption DEF Words
  <1> QED BY <1>2

LEMMA ReadRefines ==
  ASSUME IInv, NEW rd \in BOOLEAN
  PROVE  /\ Reads(rd) <=> rd /\ Contents # <<>>
         /\ Reads(rd) => Head(Contents) = memory_v[tail_v]
         /\ Words(TailR(rd), SizeR(rd)) = IF Reads(rd) THEN Tail(Contents)
                                                       ELSE Contents
  <1>1. Contents = Words(tail_v, size_v)
    BY DEF Contents, Words
  <1>2. /\ Contents \in Seq(FifoData) /\ Len(Contents) = size_v
        /\ Contents = <<>> <=> size_v = 0
    BY <1>1, Arithmetic, WordsSeq
  <1>3. Reads(rd) <=> rd /\ size_v > 0
    BY AfterRead
  <1>4. Reads(rd) <=> rd /\ Contents # <<>>
    BY <1>2, <1>3, Arithmetic
  <1>5. CASE Reads(rd)
    <2>1. size_v \in 1 .. Depth
      BY <1>3, <1>5, Arithmetic
    <2>2. Head(Contents) = Contents[1]
      BY <1>2, <2>1
    <2>3. Contents[1] = memory_v[SlotAt(tail_v, 1)]
      BY <2>1 DEF Contents
    <2>4. SlotAt(tail_v, 1) = tail_v
      BY Arithmetic, DepthAssumption DEF SlotAt
    <2>5. /\ Tail(Contents) \in Seq(FifoData)
          /\ Len(Tail(Contents)) = size_v - 1
          /\ \A i \in 1 .. size_v - 1 : Tail(Contents)[i] = Contents[i + 1]
      BY <1>2, <2>1, HeadTailProperties
    <2>6. \A i \in 1 .. size_v - 1 :
            Contents[i + 1] = memory_v[SlotAt(NextSlot(tail_v), i)]
      <3> SUFFICES ASSUME NEW i \in 1 .. size_v - 1
                   PROVE  Contents[i + 1] = memory_v[SlotAt(NextSlot(tail_v), i)]
        OBVIOUS
      <3>1. i \in 1 .. Depth /\ i + 1 \in 1 .. size_v
        BY <2>1, DepthAssumption
      <3>2. SlotAt(NextSlot(tail_v), i) = SlotAt(tail_v, i + 1)
        BY <3>1, SlotAtNext DEF IInv, TypeOK
      <3> QED BY <3>1, <3>2 DEF Contents
    <2>7. Tail(Contents) = Words(NextSlot(tail_v), size_v - 1)
      <3>1. NextSlot(tail_v) \in 0 .. Depth - 1 /\ size_v - 1 \in 0 .. Depth
        BY <2>1, NextSlotInSlots, DepthAssumption DEF IInv, TypeOK, Slots
      <3>2. /\ Words(NextSlot(tail_v), size_v - 1) \in Seq(FifoData)
            /\ Len(Words(NextSlot(tail_v), size_v - 1)) = size_v - 1
        BY <3>1, WordsSeq
      <3>3. \A i \in 1 .. size_v - 1 :
              Tail(Contents)[i] = Words(NextSlot(tail_v), size_v - 1)[i]
        BY <2>5, <2>6 DEF Words
      <3> QED BY <2>5, <3>2, <3>3, SeqEqual
    <2> QED BY <1>4, <1>5, <2>2, <2>3, <2>4, <2>7 DEF TailR, SizeR
  <1>6. CASE ~Reads(rd)
    BY <1>1, <1>4, <1>6 DEF TailR, SizeR
  <1> QED BY <1>5, <1>6

LEMMA WriteRefines ==
  ASSUME IInv, NEW rd \in BOOLEAN, NEW wr \in BOOLEAN, NEW d \in FifoData,
         FifoClock(rd, wr, d)
  PROVE  Contents' = IF wr /\ Len(Words(TailR(rd), SizeR(rd))) < Depth
                     THEN Append(Words(TailR(rd), SizeR(rd)), d)
                     ELSE Words(TailR(rd), SizeR(rd))
  <1> DEFINE t == TailR(rd)
             n == SizeR(rd)
  <1>1. t \in 0 .. Depth - 1 /\ n \in 0 .. Depth
    BY AfterRead
  <1>2. Words(t, n) \in Seq(FifoData) /\ Len(Words(t, n)) = n
    BY <1>1, WordsSeq
  <1>3. Contents' = [i \in 1 .. size_v' |-> memory_v'[SlotAt(t, i)]]
    BY ClockValues DEF Contents, SlotAt
  <1>4. CASE Writes(rd, wr)
    <2>1. wr /\ n < Depth
      BY <1>4, WritesIffRoom
    <2>2. size_v' = n + 1 /\ memory_v' = [memory_v EXCEPT ![head_v] = d]
      BY <1>4, ClockValues
    <2> HIDE DEF t, n
    <2>3. n \in 0 .. Depth - 1 /\ head_v \in 0 .. Depth - 1
      BY <1>1, <2>1, Arithmetic, DepthAssumption
    <2>4. n + t = head_v \/ n + t = head_v + Depth
      BY AfterRead DEF n, t
    <2>5. SlotAt(t, n + 1) = head_v /\ \A i \in 1 .. n : SlotAt(t, i) # head_v
      BY <1>1, <2>3, <2>4, SlotAtHead
    <2>6. \A i \in 1 .. n : memory_v'[SlotAt(t, i)] = memory_v[SlotAt(t, i)]
      BY <1>1, <2>2, <2>5, SlotAtInSlots, DepthAssumption DEF IInv, TypeOK
    <2>7. memory_v'[SlotAt(t, n + 1)] = d
      BY <2>2, <2>3, <2>5 DEF IInv, TypeOK, Slots
    <2>8. /\ Append(Words(t, n), d) \in Seq(FifoData)
          /\ Len(Append(Words(t, n), d)) = n + 1
          /\ \A i \in 1 .. n : Append(Words(t, n), d)[i] = Words(t, n)[i]
          /\ Append(Words(t, n), d)[n + 1] = d
      BY <1>2, AppendProperties
    <2>9. \A i \in 1 .. n + 1 :
            memory_v'[SlotAt(t, i)] = Append(Words(t, n), d)[i]
      BY <2>3, <2>6, <2>7, <2>8 DEF Words
    <2>10. Contents' = Append(Words(t, n), d)
      <3>1. Contents' = [i \in 1 .. n + 1 |-> memory_v'[SlotAt(t, i)]]
        BY <1>3, <2>2
      <3>2. \A i \in 1 .. n + 1 : memory_v'[SlotAt(t, i)] \in FifoData
        BY <2>8, <2>9, ElementOfSeq
      <3>3. Contents' \in Seq(FifoData) /\ Len(Contents') = n + 1
        BY <2>3, <3>1, <3>2
      <3>4. \A i \in 1 .. n + 1 : Contents'[i] = Append(Words(t, n), d)[i]
        BY <2>9, <3>1
      <3> QED BY <2>8, <3>3, <3>4, SeqEqual
    <2> QED BY <1>2, <2>1, <2>10 DEF n, t
  <1>5. CASE ~Writes(rd, wr)
    <2>1. ~(wr /\ n < Depth)
      BY <1>5, WritesIffRoom
    <2>2. size_v' = n /\ memory_v' = memory_v
      BY <1>5, ClockValues
    <2>3. Contents' = Words(t, n)
      BY <1>3, <2>2 DEF Words
    <2> QED BY <1>2, <2>1, <2>3
  <1> QED BY <1>4, <1>5

LEMMA StepRefines == IInv /\ [FifoNext]_fifo_vars => [Queue!Next]_Queue!vars
  <1> SUFFICES ASSUME IInv, [FifoNext]_fifo_vars PROVE [Queue!Next]_Queue!vars
    OBVIOUS
  <1>1. CASE Reset
    <2>1. size_v' = 0 /\ data_o' = Zero /\ port' = Idle
      BY <1>1, Zenon DEF Reset
    <2>2. Contents' = <<>>
      BY <2>1 DEF Contents
    <2> QED BY <2>1, <2>2 DEF Queue!Next, Queue!Reset, Queue!Idle, Idle
  <1>2. ASSUME NEW rd \in BOOLEAN, NEW wr \in BOOLEAN, NEW d \in FifoData,
               FifoClock(rd, wr, d)
        PROVE  Queue!Next
    <2>1. port' = [rd |-> rd, wr |-> wr, d |-> d]
      BY <1>2, ClockValues
    <2>2. data_o' = IF rd /\ Contents # <<>> THEN Head(Contents) ELSE data_o
      BY <1>2, ClockValues, ReadRefines, Zenon
    <2>3. Words(TailR(rd), SizeR(rd)) =
            IF rd /\ Contents # <<>> THEN Tail(Contents) ELSE Contents
      BY ReadRefines, Zenon
    <2>4. Contents' = IF wr /\ Len(Words(TailR(rd), SizeR(rd))) < Depth
                      THEN Append(Words(TailR(rd), SizeR(rd)), d)
                      ELSE Words(TailR(rd), SizeR(rd))
      BY <1>2, WriteRefines, Zenon
    <2>5. Queue!Cycle(rd, wr, d)
      BY <2>1, <2>2, <2>3, <2>4, Zenon DEF Queue!Cycle
    <2> QED BY <2>5 DEF Queue!Next
  <1>3. CASE UNCHANGED fifo_vars
    BY <1>3 DEF fifo_vars, pointers, flags, Queue!vars, Contents
  <1> QED BY <1>1, <1>2, <1>3 DEF FifoNext

(* The FIFO implements a bounded queue for every depth, a depth of one     *)
(* included: words come out in the order they went in, none is lost or     *)
(* doubled, and an edge that reads and writes does both.                   *)
THEOREM QueueRefinement == FifoSpec => ImplementsQueue
  <1>1. FifoInit => Queue!Init
    BY DEF FifoInit, Queue!Init, Contents, Idle, Queue!Idle
  <1> QED BY <1>1, StepRefines, SpecIInv, PTL DEF FifoSpec, ImplementsQueue, Queue!Spec

-----------------------------------------------------------------------------
(* DpSram: the pins for any masters, and, for masters that hold a cycle for *)
(* at least four edges, that every cycle is served in time and that both   *)
(* ports together are one atomic memory, but for the accesses of port 0    *)
(* that overtake one of port 1.                                            *)

-----------------------------------------------------------------------------
(* Once an edge is known to be one, its parts are all that is needed.      *)
LEMMA EdgeParts ==
  ASSUME NEW access, NEW in, Clock(access, in)
  PROVE  /\ Masters(access)
         /\ Latch(access, in)
         /\ \/ Rest(access)
            \/ \E p \in Chosen(Req(access)) : Begin(p, access, in)
            \/ \E p \in Chosen(Req(access)) : Complete(p, access, in)
  BY DEF Clock

-----------------------------------------------------------------------------
(* Every variable keeps its type: no assumption on the masters is needed.  *)
Types ==
  /\ state_v \in {0, 1}
  /\ ce_v \in [Ports -> BOOLEAN] /\ req_v \in [Ports -> BOOLEAN]
  /\ we_v \in [Ports -> BOOLEAN]
  /\ addr_v \in [Ports -> Addr] /\ data_v \in [Ports -> Data]
  /\ sram_addr_o \in Addr /\ sram_data_io \in Data \cup {NoData}
  /\ sram_we_n_s \in BOOLEAN /\ sram_oe_n_s \in BOOLEAN
  /\ port_data_o \in [Ports -> Data]
  /\ sram \in [Addr -> Data]
  /\ held \in [Ports -> 0..MinHold]

LEMMA LatchTypes ==
  ASSUME Types, NEW access \in [Ports -> BOOLEAN], NEW in \in [Ports -> Access]
  PROVE  /\ Req(access) \in [Ports -> BOOLEAN]
         /\ We(access, in) \in [Ports -> BOOLEAN]
         /\ AddrOf(access, in) \in [Ports -> Addr]
         /\ DataOf(access, in) \in [Ports -> Data]
         /\ Bus \in Data
<1>1. \A p \in Ports : in[p].we \in BOOLEAN /\ in[p].a \in Addr /\ in[p].d \in Data
  BY DEF Access
<1>2. Req(access) \in [Ports -> BOOLEAN]
  BY DEF Types, Req
<1>3. We(access, in) \in [Ports -> BOOLEAN]
  BY <1>1 DEF Types, We
<1>4. AddrOf(access, in) \in [Ports -> Addr]
  BY <1>1 DEF Types, AddrOf
<1>5. DataOf(access, in) \in [Ports -> Data]
  BY <1>1 DEF Types, DataOf
<1>6. Bus \in Data
  BY DEF Types, Bus
<1> QED
  BY <1>2, <1>3, <1>4, <1>5, <1>6

LEMMA TypesInit == Init => Types
  BY HoldAssumption DEF Init, Types

LEMMA TypesEdge ==
  ASSUME Types, NEW access \in [Ports -> BOOLEAN], NEW in \in [Ports -> Access],
         Clock(access, in)
  PROVE  Types'
<1> USE LatchTypes
<1>1. Masters(access) /\ Latch(access, in)
  BY EdgeParts
<1>2. ce_v' \in [Ports -> BOOLEAN] /\ held' \in [Ports -> 0..MinHold]
  BY <1>1, HoldAssumption DEF Masters, Types
<1>3. /\ we_v' \in [Ports -> BOOLEAN]
      /\ addr_v' \in [Ports -> Addr] /\ data_v' \in [Ports -> Data]
      /\ sram' \in [Addr -> Data]
  BY <1>1 DEF Latch, Chip, Types
<1> DEFINE Driven ==
      /\ state_v' \in {0, 1} /\ req_v' \in [Ports -> BOOLEAN]
      /\ sram_addr_o' \in Addr /\ sram_data_io' \in Data \cup {NoData}
      /\ sram_we_n_s' \in BOOLEAN /\ sram_oe_n_s' \in BOOLEAN
      /\ port_data_o' \in [Ports -> Data]
<1>4. Driven
  <2>1. CASE Rest(access)
    BY <2>1 DEF Rest, Types
  <2>2. ASSUME NEW p \in Chosen(Req(access)), Begin(p, access, in) PROVE Driven
    <3>1. p \in Ports
      BY DEF Chosen
    <3> QED
      BY <2>2, <3>1 DEF Begin, Types
  <2>3. ASSUME NEW p \in Chosen(Req(access)), Complete(p, access, in) PROVE Driven
    <3>1. p \in Ports /\ Cleared(Req(access)) \in [Ports -> BOOLEAN]
      BY DEF Chosen, Cleared
    <3> QED
      BY <2>3, <3>1 DEF Complete, WeAfter, Types
  <2> QED
    BY <2>1, <2>2, <2>3, EdgeParts
<1> QED
  BY <1>2, <1>3, <1>4 DEF Types

-----------------------------------------------------------------------------
(* NoContention, for any masters.  Quiet is what makes it inductive: an    *)
(* edge without a request leaves three of the pins as they are.            *)
Quiet == state_v = 0 => sram_we_n_s /\ sram_oe_n_s /\ sram_data_io = NoData
Wanted == state_v = 1 => \E p \in Ports : req_v[p]

PinsInv == Types /\ Quiet /\ Wanted /\ NoContention

LEMMA ChosenExists ==
  ASSUME NEW req, \E p \in Ports : req[p]
  PROVE  Chosen(req) # {}
  BY DEF Chosen, Ports

LEMMA PinsEdge ==
  ASSUME PinsInv, NEW access \in [Ports -> BOOLEAN], NEW in \in [Ports -> Access],
         Clock(access, in)
  PROVE  PinsInv'
<1>1. Types /\ Types'
  BY TypesEdge DEF PinsInv
<1>2. Quiet' /\ Wanted' /\ NoContention'
  <2>1. CASE Rest(access)
    <3>1. \A p \in Ports : ~Req(access)[p]
      BY <2>1, ChosenExists DEF Rest
    <3>2. state_v = 0
      BY <3>1, <1>1 DEF PinsInv, Wanted, Req, Types
    <3> QED
      BY <3>2, <2>1 DEF Rest, PinsInv, Quiet, Wanted, NoContention
  <2>2. ASSUME NEW p \in Chosen(Req(access)), Begin(p, access, in)
        PROVE  Quiet' /\ Wanted' /\ NoContention'
    <3>1. /\ p \in Ports /\ Req(access)[p]
          /\ We(access, in)[p] \in BOOLEAN /\ DataOf(access, in)[p] \in Data
      BY <1>1, LatchTypes DEF Chosen
    <3>2. state_v' = 1 /\ \E q \in Ports : req_v'[q]
      BY <2>2, <3>1 DEF Begin
    <3>3. CASE We(access, in)[p] = TRUE
      <4>1. sram_oe_n_s' = TRUE /\ sram_data_io' # NoData
        BY <2>2, <3>1, <3>3, NoDataAssumption DEF Begin
      <4> QED
        BY <3>2, <4>1 DEF Quiet, Wanted, NoContention
    <3>4. CASE We(access, in)[p] = FALSE
      <4>1. sram_we_n_s' = TRUE /\ sram_data_io' = NoData
        BY <2>2, <3>1, <3>4 DEF Begin
      <4> QED
        BY <3>2, <4>1 DEF Quiet, Wanted, NoContention
    <3> QED
      BY <3>1, <3>3, <3>4
  <2>3. ASSUME NEW p \in Chosen(Req(access)), Complete(p, access, in)
        PROVE  Quiet' /\ Wanted' /\ NoContention'
    BY <2>3 DEF Complete, WeAfter, Quiet, Wanted, NoContention
  <2> QED
    BY <2>1, <2>2, <2>3, EdgeParts
<1> QED
  BY <1>1, <1>2 DEF PinsInv

LEMMA PinsStep == PinsInv /\ [Next]_vars => PinsInv'
<1> SUFFICES ASSUME PinsInv, [Next]_vars PROVE PinsInv'
  OBVIOUS
<1>1. CASE Next
  BY <1>1, PinsEdge DEF Next
<1>2. CASE UNCHANGED vars
  BY <1>2 DEF vars, latches, pins, PinsInv, Types, Quiet, Wanted, NoContention
<1> QED
  BY <1>1, <1>2

(* The controller and the chip never drive the data pins together, for     *)
(* every set of addresses and data and whatever the masters do.            *)
THEOREM ContentionFree == Spec => []NoContention
<1>1. Init => PinsInv
  BY TypesInit DEF Init, PinsInv, Quiet, Wanted, NoContention
<1>2. PinsInv => NoContention
  BY DEF PinsInv
<1> QED
  BY <1>1, <1>2, PinsStep, PTL DEF Spec

-----------------------------------------------------------------------------
(* Which access the pins carry in state 1, and how long the master of a     *)
(* latched request has held its cycle.  A request of port 0 is served at    *)
(* once.  One of port 1 waits behind it (Behind) or for its turn (Turn), in *)
(* which port 0 cannot begin again: it has just begun.                      *)
OnPins(p) ==
  /\ sram_addr_o = addr_v[p]
  /\ sram_we_n_s = ~we_v[p]
  /\ sram_data_io = IF we_v[p] THEN data_v[p] ELSE NoData

Serving == state_v = 1 => \A p \in Chosen(req_v) : OnPins(p)

Behind == state_v = 1 /\ req_v[0] /\ held[1] = 1
Turn   == /\ state_v = 0
          /\ \/ held[0] = 1 /\ held[1] = 2
             \/ held[0] = 2 /\ held[1] \in {1, 2}
Served == /\ state_v = 1 /\ ~req_v[0]
          /\ held[1] = 1 \/ (held[0] \in {2, 3} /\ held[1] \in {2, 3})

Waiting ==
  /\ \A p \in Ports : ce_v[p] <=> held[p] = 0
  /\ req_v[0] => state_v = 1 /\ held[0] = 1
  /\ req_v[1] => Behind \/ Turn \/ Served

TimeInv == PinsInv /\ Serving /\ Waiting

(* What the masters' discipline says of one edge.                          *)
LEMMA MastersEdge ==
  ASSUME TimeInv, MinHold >= 4, NEW access \in [Ports -> BOOLEAN], Masters(access)
  PROVE  /\ \A p \in New(access) : held[p] = 0 /\ held'[p] = 1
         /\ \A p \in Ports : held[p] \in 1..3 => held'[p] = held[p] + 1
         /\ \A p \in Ports : ce_v'[p] <=> held'[p] = 0
<1>1. /\ MinHold \in Nat /\ held \in [Ports -> 0..MinHold]
      /\ ce_v \in [Ports -> BOOLEAN]
  BY HoldAssumption DEF TimeInv, PinsInv, Types
<1>2. \A p \in Ports : held'[p] = IF access[p] THEN 0
                                  ELSE IF held[p] < MinHold THEN held[p] + 1 ELSE MinHold
  BY DEF Masters
<1>3. ASSUME NEW p \in New(access) PROVE held[p] = 0 /\ held'[p] = 1
  <2>1. p \in Ports /\ ce_v[p] /\ ~access[p]
    BY DEF New
  <2>2. held[p] = 0
    BY <2>1 DEF TimeInv, Waiting
  <2> QED
    BY <1>1, <1>2, <2>1, <2>2
<1>4. ASSUME NEW p \in Ports, held[p] \in 1..3 PROVE held'[p] = held[p] + 1
  <2>1. ~ce_v[p]
    BY <1>4 DEF TimeInv, Waiting
  <2>2. ~access[p]
    BY <1>1, <1>4, <2>1 DEF Masters, MasterMay
  <2> QED
    BY <1>1, <1>2, <1>4, <2>2
<1>5. ASSUME NEW p \in Ports PROVE ce_v'[p] <=> held'[p] = 0
  <2>1. ce_v'[p] = access[p]
    BY DEF Masters
  <2>2. CASE access[p]
    BY <1>2, <2>1, <2>2
  <2>3. CASE ~access[p]
    BY <1>1, <1>2, <2>1, <2>3
  <2> QED
    BY <2>2, <2>3
<1> QED
  BY <1>3, <1>4, <1>5

LEMMA ServingEdge ==
  ASSUME TimeInv, NEW access \in [Ports -> BOOLEAN],
         NEW in \in [Ports -> Access], Clock(access, in)
  PROVE  Serving'
<1> DEFINE req == Req(access)
<1>1. Types /\ Latch(access, in)
  BY EdgeParts DEF TimeInv, PinsInv
<1>2. CASE Rest(access)
  <2>1. \A p \in Ports : ~req[p]
    BY <1>2, ChosenExists DEF Rest
  <2>2. state_v = 0
    BY <1>1, <2>1 DEF TimeInv, PinsInv, Wanted, Req, Types
  <2> QED
    BY <1>2, <2>2 DEF Rest, Serving
<1>3. ASSUME NEW p \in Chosen(req), Begin(p, access, in) PROVE Serving'
  <2>1. p \in Ports /\ req[p] /\ \A q \in Chosen(req) : q = p
    BY DEF Chosen, Ports
  <2>2. OnPins(p)'
    BY <1>1, <1>3, <2>1 DEF OnPins, Begin, Latch
  <2>3. Chosen(req_v)' = Chosen(req)
    BY <1>3 DEF Begin, Chosen
  <2> QED
    BY <2>1, <2>2, <2>3 DEF Serving
<1>4. ASSUME NEW p \in Chosen(req), Complete(p, access, in) PROVE Serving'
  BY <1>4 DEF Serving, Complete
<1> QED
  BY <1>2, <1>3, <1>4, EdgeParts

LEMMA WaitingEdge ==
  ASSUME TimeInv, MinHold >= 4, NEW access \in [Ports -> BOOLEAN],
         NEW in \in [Ports -> Access], Clock(access, in)
  PROVE  Waiting'
<1> DEFINE req == Req(access)
<1>1. Types /\ Waiting /\ Wanted /\ Masters(access)
  BY EdgeParts DEF TimeInv, PinsInv
<1>2. /\ \A p \in New(access) : held[p] = 0 /\ held'[p] = 1
      /\ \A p \in Ports : held[p] \in 1..3 => held'[p] = held[p] + 1
      /\ \A p \in Ports : ce_v'[p] <=> held'[p] = 0
  BY <1>1, MastersEdge
<1>3. \A p \in Ports : req[p] <=> req_v[p] \/ p \in New(access)
  BY <1>1 DEF Req, Types
<1>4. /\ \A p \in Ports : p = 0 \/ p = 1
      /\ 0 \in Ports /\ 1 \in Ports /\ held[0] \in Nat /\ held[1] \in Nat
  BY <1>1, HoldAssumption DEF Ports, Types
<1>5. (req_v'[0] => state_v' = 1 /\ held'[0] = 1) /\ (req_v'[1] => (Behind \/ Turn \/ Served)')
  <2>1. CASE Rest(access)
    <3>1. \A p \in Ports : ~req[p]
      BY <2>1, ChosenExists DEF Rest
    <3> QED
      BY <1>4, <2>1, <3>1 DEF Rest
  <2>2. ASSUME NEW p \in Chosen(req), Begin(p, access, in)
        PROVE  (req_v'[0] => state_v' = 1 /\ held'[0] = 1)
                 /\ (req_v'[1] => (Behind \/ Turn \/ Served)')
    <3>1. state_v = 0 /\ state_v' = 1 /\ req_v' = req
      BY <2>2 DEF Begin
    <3>2. ~req_v[0]
      BY <1>1, <3>1 DEF Waiting
    <3>3. req_v'[0] => held'[0] = 1
      BY <1>2, <1>3, <1>4, <3>1, <3>2
    <3>4. ASSUME 1 \in New(access) PROVE held'[1] = 1
      BY <1>2, <3>4
    <3>5. ASSUME req_v[1] PROVE 0 \notin New(access) /\ held'[0] \in {2, 3} /\ held'[1] \in {2, 3}
      <4>1. Turn
        BY <1>1, <3>1, <3>5 DEF Waiting, Behind, Served
      <4> QED
        BY <1>2, <1>4, <4>1 DEF Turn
    <3> QED
      BY <1>3, <1>4, <3>1, <3>2, <3>3, <3>4, <3>5 DEF Behind, Served
  <2>3. ASSUME NEW p \in Chosen(req), Complete(p, access, in)
        PROVE  (req_v'[0] => state_v' = 1 /\ held'[0] = 1)
                 /\ (req_v'[1] => (Behind \/ Turn \/ Served)')
    <3>1. state_v = 1 /\ state_v' = 0
      BY <2>3 DEF Complete
    <3>2. \A q \in Ports : req_v'[q] <=> req[q] /\ q \notin Chosen(req)
      BY <2>3 DEF Complete, Cleared
    <3>3. ~req_v'[0]
      BY <1>4, <3>2 DEF Chosen
    <3>4. ASSUME req_v'[1] PROVE Turn'
      <4>1. req[1] /\ req[0]
        BY <1>4, <3>2, <3>4 DEF Chosen
      <4>2. CASE req_v[0]
        <5>1. held[0] = 1 /\ held'[0] = 2
          BY <1>1, <1>2, <1>4, <4>2 DEF Waiting
        <5>2. CASE req_v[1]
          BY <1>1, <1>2, <1>4, <3>1, <4>2, <5>1, <5>2 DEF Waiting, Behind, Turn, Served
        <5>3. CASE 1 \in New(access)
          BY <1>2, <3>1, <5>1, <5>3 DEF Turn
        <5> QED
          BY <1>3, <1>4, <4>1, <5>2, <5>3
      <4>3. CASE ~req_v[0]
        <5>1. held[0] = 0 /\ held'[0] = 1 /\ req_v[1]
          BY <1>1, <1>2, <1>3, <1>4, <3>1, <4>1, <4>3 DEF Wanted
        <5>2. held[1] = 1
          BY <1>1, <3>1, <4>3, <5>1 DEF Waiting, Behind, Turn, Served
        <5> QED
          BY <1>2, <1>4, <3>1, <5>1, <5>2 DEF Turn
      <4> QED
        BY <4>2, <4>3
    <3> QED
      BY <3>3, <3>4
  <2> QED
    BY <2>1, <2>2, <2>3, EdgeParts
<1> QED
  BY <1>2, <1>5 DEF Waiting

LEMMA TimeInit == Init => TimeInv
<1> SUFFICES ASSUME Init PROVE TimeInv
  OBVIOUS
<1>1. PinsInv
  BY TypesInit DEF Init, PinsInv, Quiet, Wanted, NoContention
<1>2. Serving /\ Waiting
  BY DEF Init, Serving, Waiting, Ports
<1> QED
  BY <1>1, <1>2 DEF TimeInv

LEMMA TimeStep == MinHold >= 4 /\ TimeInv /\ [Next]_vars => TimeInv'
<1> SUFFICES ASSUME MinHold >= 4, TimeInv, [Next]_vars PROVE TimeInv'
  OBVIOUS
<1>1. PinsInv'
  BY PinsStep DEF TimeInv
<1>2. CASE Next
  BY <1>1, <1>2, ServingEdge, WaitingEdge DEF Next, TimeInv
<1>3. CASE UNCHANGED vars
  BY <1>1, <1>3
  DEF vars, latches, pins, TimeInv, Serving, Waiting, Behind, Turn, Served, OnPins, Chosen
<1> QED
  BY <1>2, <1>3

(* Without a wait line every access is done when its master has held it for *)
(* MinHold edges, for every MinHold of at least four and masters that begin *)
(* their cycles at any edge, also when port 1 is overtaken.                 *)
THEOREM ServedInTime ==
  ASSUME MinHold >= 4
  PROVE  Spec => []DoneWhenReleased
<1>1. TimeInv => DoneWhenReleased
  BY HoldAssumption DEF TimeInv, Waiting, Behind, Turn, Served, DoneWhenReleased, Ports
<1>2. (Init => TimeInv) /\ (TimeInv /\ [Next]_vars => TimeInv')
  BY TimeInit, TimeStep
<1> QED
  BY <1>1, <1>2, PTL DEF Spec

-----------------------------------------------------------------------------
(* A port that begins an access has none latched: its master has held the   *)
(* last one for long enough.                                               *)
LEMMA NewEdge ==
  ASSUME TimeInv, MinHold >= 4, NEW access \in [Ports -> BOOLEAN],
         NEW in \in [Ports -> Access], Clock(access, in)
  PROVE  /\ New(access) \subseteq Ports
         /\ \A p \in New(access) : ~req_v[p] /\ ce_v[p] /\ ~ce_v'[p]
         /\ \A p \in Ports : ce_v[p] /\ ~ce_v'[p] => p \in New(access)
         /\ \A p \in Ports : Req(access)[p] <=> req_v[p] \/ p \in New(access)
         /\ \A p \in Ports \ New(access) :
              we_v'[p] = we_v[p] /\ addr_v'[p] = addr_v[p] /\ data_v'[p] = data_v[p]
<1>1. Types /\ Masters(access) /\ Latch(access, in)
  BY EdgeParts DEF TimeInv, PinsInv
<1>2. New(access) \subseteq Ports
  BY DEF New
<1>3. ASSUME NEW p \in New(access) PROVE ~req_v[p]
  <2>1. p \in Ports /\ held[p] = 0
    BY <1>1, <1>2, MastersEdge
  <2> QED
    BY <2>1 DEF TimeInv, Waiting, Behind, Turn, Served, Ports
<1>4. /\ \A p \in New(access) : ce_v[p] /\ ~ce_v'[p]
      /\ \A p \in Ports : ce_v[p] /\ ~ce_v'[p] => p \in New(access)
  BY <1>1 DEF Masters, New
<1>5. \A p \in Ports \ New(access) :
        we_v'[p] = we_v[p] /\ addr_v'[p] = addr_v[p] /\ data_v'[p] = data_v[p]
  BY <1>1 DEF Latch, We, AddrOf, DataOf
<1>6. \A p \in Ports : Req(access)[p] <=> req_v[p] \/ p \in New(access)
  BY <1>1 DEF Req, Types
<1> QED
  BY <1>2, <1>3, <1>4, <1>5, <1>6

(* A request that is taken down is the one on the pins, unless its port     *)
(* overtakes.                                                              *)
LEMMA CompleteEdge ==
  ASSUME TimeInv, MinHold >= 4, NEW access \in [Ports -> BOOLEAN],
         NEW in \in [Ports -> Access], Clock(access, in),
         NEW q \in Chosen(Req(access)), Complete(q, access, in),
         q \notin New(access)
  PROVE  /\ q \in Ports /\ req_v[q] /\ ~req_v'[q] /\ OnPins(q) /\ ~Overtakes
         /\ \A p \in Ports \ {q} : req_v'[p] <=> req_v[p] \/ p \in New(access)
<1>1. q \in Ports /\ Req(access)[q] /\ state_v = 1
  BY DEF Chosen, Complete
<1>2. req_v[q]
  BY <1>1, NewEdge
<1>3. ASSUME q = 1 PROVE ~req_v[0] /\ 0 \notin New(access)
  BY <1>3, NewEdge DEF Chosen, Ports
<1>4. Chosen(req_v) = {q}
  BY <1>1, <1>2, <1>3 DEF Chosen, Ports
<1>5. OnPins(q)
  BY <1>1, <1>4 DEF TimeInv, Serving
<1>6. \A p \in Ports : req_v'[p] <=> Req(access)[p] /\ p \notin Chosen(Req(access))
  BY DEF Complete, Cleared
<1>7. Chosen(Req(access)) = {q}
  BY DEF Chosen, Ports
<1>8. ~Overtakes
  BY <1>1, <1>2, <1>3, NewEdge DEF Overtakes, Ports
<1> QED
  BY <1>1, <1>2, <1>5, <1>6, <1>7, <1>8, NewEdge

(* An overtaking: port 0's access is taken down in the edge in which it     *)
(* begins, and that of port 1, which is on the pins, stays.                *)
LEMMA OvertakingEdge ==
  ASSUME TimeInv, MinHold >= 4, NEW access \in [Ports -> BOOLEAN],
         NEW in \in [Ports -> Access], Clock(access, in),
         NEW q \in Chosen(Req(access)), Complete(q, access, in),
         q \in New(access)
  PROVE  /\ q = 0 /\ Overtakes
         /\ ~req_v[0] /\ ~req_v'[0] /\ req_v[1] /\ req_v'[1] /\ OnPins(1)
         /\ 1 \notin New(access)
<1>1. q \in Ports /\ state_v = 1 /\ ~req_v[q] /\ Req(access)[q]
  BY NewEdge DEF Chosen, Complete
<1>2. \E p \in Ports : req_v[p]
  BY <1>1 DEF TimeInv, PinsInv, Wanted
<1>3. q = 0
  <2>1. CASE q = 1
    BY <1>1, <1>2, <2>1, NewEdge DEF Chosen, Ports
  <2> QED
    BY <1>1, <2>1 DEF Ports
<1>4. req_v[1] /\ ~req_v[0] /\ 1 \notin New(access)
  BY <1>1, <1>2, <1>3, NewEdge DEF Ports
<1>5. OnPins(1)
  <2>1. 1 \in Chosen(req_v)
    BY <1>4 DEF Chosen, Ports
  <2> QED
    BY <1>1, <2>1 DEF TimeInv, Serving
<1>6. Overtakes
  BY <1>1, <1>3, <1>4, NewEdge DEF Overtakes
<1>7. \A p \in Ports : req_v'[p] <=> Req(access)[p] /\ p \notin Chosen(Req(access))
  BY DEF Complete, Cleared
<1>8. Chosen(Req(access)) = {0}
  BY <1>1, <1>3 DEF Chosen, Ports
<1> QED
  BY <1>3, <1>4, <1>5, <1>6, <1>7, <1>8, NewEdge DEF Ports

(* The other edges only take requests.                                     *)
LEMMA OtherEdge ==
  ASSUME TimeInv, NEW access \in [Ports -> BOOLEAN],
         NEW in \in [Ports -> Access], Clock(access, in),
         \A p \in Chosen(Req(access)) : ~Complete(p, access, in)
  PROVE  /\ \A p \in Ports : req_v'[p] <=> req_v[p] \/ p \in New(access)
         /\ sram' = sram /\ port_data_o' = port_data_o
         /\ state_v = 0
<1>1. Types /\ Latch(access, in)
  BY EdgeParts DEF TimeInv, PinsInv
<1>2. req_v' = Req(access) /\ port_data_o' = port_data_o
  BY EdgeParts DEF Rest, Begin
<1>3. state_v = 0
  <2>1. CASE Rest(access)
    <3>1. \A p \in Ports : ~Req(access)[p]
      BY <2>1, ChosenExists DEF Rest
    <3> QED
      BY <3>1, <1>1 DEF TimeInv, PinsInv, Wanted, Req, Types
  <2> QED
    BY <2>1, EdgeParts DEF Begin
<1>4. sram' = sram
  BY <1>1, <1>3 DEF TimeInv, PinsInv, Quiet, Latch, Chip
<1> QED
  BY <1>1, <1>2, <1>3, <1>4 DEF Req, Types

(* The data a port reads are those of its own address and a write reaches   *)
(* its own address, although state 1 chooses the port a second time, but in *)
(* the one case of an overtaking; for any sets of addresses and data and    *)
(* masters that begin at any edge.                                         *)
THEOREM OwnRequestServed ==
  ASSUME MinHold >= 4
  PROVE  Spec => ServesOwnRequest
<1> DEFINE Own(p) == /\ sram_addr_o = addr_v'[p]
                     /\ sram_we_n_s = ~we_v'[p]
                     /\ we_v'[p] => sram_data_io = data_v'[p]
           ServesOwn == /\ \A p \in Ports : Finishes(p) /\ ~(p = 0 /\ Overtakes) => Own(p)
                        /\ Overtakes => Finishes(0) /\ ~Finishes(1)
<1>1. TimeInv /\ [Next]_vars => [ServesOwn]_vars
  <2> SUFFICES ASSUME TimeInv,
                      NEW access \in [Ports -> BOOLEAN], NEW in \in [Ports -> Access],
                      Clock(access, in)
               PROVE  ServesOwn
    BY DEF Next
  <2>1. CASE \A q \in Chosen(Req(access)) : ~Complete(q, access, in)
    <3>1. \A p \in Ports : ~Finishes(p)
      BY <2>1, OtherEdge, NewEdge DEF Finishes
    <3>2. ~Overtakes
      BY <2>1, OtherEdge DEF Overtakes
    <3> QED
      BY <3>1, <3>2
  <2>2. ASSUME NEW q \in Chosen(Req(access)), Complete(q, access, in), q \notin New(access)
        PROVE  ServesOwn
    <3>1. /\ q \in Ports /\ OnPins(q) /\ ~Overtakes
          /\ \A p \in Ports : Finishes(p) => p = q
      BY <2>2, CompleteEdge, NewEdge DEF Finishes
    <3>2. Own(q)
      BY <2>2, <3>1, NewEdge DEF OnPins
    <3> QED
      BY <3>1, <3>2
  <2>3. ASSUME NEW q \in Chosen(Req(access)), Complete(q, access, in), q \in New(access)
        PROVE  ServesOwn
    <3>1. Overtakes /\ ~Finishes(1)
      BY <2>3, OvertakingEdge DEF Finishes
    <3>2. Finishes(0)
      BY <2>3, OvertakingEdge, NewEdge DEF Finishes
    <3> QED
      BY <3>1, <3>2 DEF Ports
  <2> QED
    BY <2>1, <2>2, <2>3
<1>2. (Init => TimeInv) /\ (TimeInv /\ [Next]_vars => TimeInv')
  BY TimeInit, TimeStep
<1> QED
  BY <1>1, <1>2, PTL DEF Spec, ServesOwnRequest

-----------------------------------------------------------------------------
(* The refinement of PortMemory: a port's request is pending from the edge  *)
(* that latches it to the edge that leaves state 1, which is also the edge *)
(* at which the chip is written or its data are taken.                     *)
LEMMA OnlyMember == ASSUME NEW x PROVE (CHOOSE r \in {x} : TRUE) = x
  OBVIOUS

LEMMA PendingIsRequest ==
  ASSUME Types, NEW p \in Ports
  PROVE  /\ req_v[p] => /\ Pending[p] = [we |-> we_v[p], a |-> addr_v[p], d |-> data_v[p]]
                        /\ Pending[p] \in Access /\ Pending[p] # NoRequest
         /\ ~req_v[p] => Pending[p] = NoRequest
  BY NoRequestAssumption DEF Types, Pending, Access

(* A port that takes a request and keeps it, and one that does neither.    *)
LEMMA TakesEdge ==
  ASSUME TimeInv, MinHold >= 4, NEW access \in [Ports -> BOOLEAN],
         NEW in \in [Ports -> Access], Clock(access, in), NEW p \in Ports,
         req_v'[p] <=> req_v[p] \/ p \in New(access)
  PROVE  IF p \in New(access)
         THEN Pending[p] = NoRequest /\ Pending'[p] \in Access
         ELSE Pending'[p] = Pending[p]
<1>1. Types /\ Types'
  BY TypesEdge DEF TimeInv, PinsInv
<1>2. CASE p \in New(access)
  <2>1. ~req_v[p] /\ req_v'[p]
    BY <1>2, NewEdge
  <2>2. Pending'[p] \in Access
    BY <1>1, <2>1 DEF Types, Pending, Access
  <2> QED
    BY <1>1, <1>2, <2>1, <2>2, PendingIsRequest
<1>3. CASE p \notin New(access)
  BY <1>1, <1>3, NewEdge DEF Types, Pending
<1> QED
  BY <1>2, <1>3

LEMMA TakesOnly ==
  ASSUME TimeInv, MinHold >= 4, NEW access \in [Ports -> BOOLEAN],
         NEW in \in [Ports -> Access], Clock(access, in),
         \A p \in Chosen(Req(access)) : ~Complete(p, access, in)
  PROVE  Memory!Step(New(access), {})
<1>1. Types
  BY DEF TimeInv, PinsInv
<1>2. /\ \A p \in Ports : req_v'[p] <=> req_v[p] \/ p \in New(access)
      /\ sram' = sram /\ port_data_o' = port_data_o
  BY OtherEdge
<1>3. New(access) \subseteq Ports /\ DOMAIN Pending' = Ports
  BY DEF New, Pending
<1>4. /\ \A p \in New(access) : Pending[p] = NoRequest /\ Pending'[p] \in Access
      /\ \A p \in Ports \ New(access) : Pending'[p] = Pending[p]
  BY <1>2, <1>3, TakesEdge
<1>5. sram \in [Addr -> Data] /\ port_data_o \in [Ports -> Data]
  BY <1>1 DEF Types
<1> QED
  BY <1>2, <1>3, <1>4, <1>5 DEF Memory!Step, Memory!Request, Access

(* What the chip and the data of port r are after state 1 for the access of *)
(* port q on the pins.                                                     *)
LEMMA PinsServe ==
  ASSUME TimeInv, NEW access \in [Ports -> BOOLEAN],
         NEW in \in [Ports -> Access], Clock(access, in),
         NEW q \in Ports, req_v[q], OnPins(q)
  PROVE  /\ sram' = [a \in Addr |-> IF we_v[q] /\ addr_v[q] = a
                                    THEN data_v[q] ELSE sram[a]]
         /\ ~we_v[q] => Bus = sram[addr_v[q]]
         /\ Bus = sram'[addr_v[q]]
<1>1. Types /\ Latch(access, in)
  BY EdgeParts DEF TimeInv, PinsInv
<1>2. CASE we_v[q] = TRUE
  <2>1. /\ sram_we_n_s = FALSE /\ sram_addr_o = addr_v[q] /\ sram_data_io = data_v[q]
        /\ data_v[q] # NoData /\ addr_v[q] \in Addr
    BY <1>1, <1>2, NoDataAssumption DEF OnPins, Types
  <2>2. sram' = [sram EXCEPT ![addr_v[q]] = data_v[q]] /\ Bus = data_v[q]
    BY <1>1, <2>1 DEF Latch, Chip, Bus
  <2> QED
    BY <1>1, <1>2, <2>1, <2>2 DEF Types
<1>3. CASE we_v[q] = FALSE
  <2>1. sram' = sram /\ Bus = sram[addr_v[q]]
    BY <1>1, <1>3 DEF OnPins, Latch, Chip, Bus
  <2> QED
    BY <1>1, <1>3, <2>1 DEF Types
<1> QED
  BY <1>1, <1>2, <1>3 DEF Types

LEMMA ServesOne ==
  ASSUME TimeInv, MinHold >= 4, NEW access \in [Ports -> BOOLEAN],
         NEW in \in [Ports -> Access], Clock(access, in),
         NEW q \in Chosen(Req(access)), Complete(q, access, in),
         q \notin New(access)
  PROVE  Memory!Step(New(access), {q})
<1>1. Types /\ Types'
  BY TypesEdge DEF TimeInv, PinsInv
<1>2. /\ q \in Ports /\ req_v[q] /\ ~req_v'[q] /\ OnPins(q)
      /\ \A p \in Ports \ {q} : req_v'[p] <=> req_v[p] \/ p \in New(access)
  BY CompleteEdge
<1>3. /\ Pending[q] # NoRequest /\ Pending'[q] = NoRequest
      /\ Pending[q].we = we_v[q] /\ Pending[q].a = addr_v[q] /\ Pending[q].d = data_v[q]
  <2>1. Pending[q] = [we |-> we_v[q], a |-> addr_v[q], d |-> data_v[q]]
    BY <1>1, <1>2, PendingIsRequest
  <2>2. Pending[q] # NoRequest /\ Pending'[q] = NoRequest
    BY <1>1, <1>2, PendingIsRequest DEF Pending
  <2> QED
    BY <2>1, <2>2
<1>4. New(access) \subseteq Ports /\ DOMAIN Pending' = Ports
  BY DEF New, Pending
<1>5. /\ \A p \in New(access) : Pending[p] = NoRequest /\ Pending'[p] \in Access
      /\ \A p \in Ports \ (New(access) \cup {q}) : Pending'[p] = Pending[p]
  BY <1>2, <1>4, TakesEdge
<1>6. /\ sram' = [a \in Addr |-> IF we_v[q] /\ addr_v[q] = a THEN data_v[q] ELSE sram[a]]
      /\ ~we_v[q] => Bus = sram[addr_v[q]]
  BY <1>2, PinsServe
<1>7. We(access, in)[q] = we_v[q]
  BY <1>2 DEF We
<1>8. port_data_o' = [p \in Ports |-> IF p = q /\ ~we_v[q] THEN sram[addr_v[q]]
                                      ELSE port_data_o[p]]
  <2>1. CASE we_v[q] = TRUE
    BY <1>1, <1>7, <2>1 DEF Complete, Types
  <2>2. CASE we_v[q] = FALSE
    <3>1. port_data_o' = [port_data_o EXCEPT ![q] = Bus]
      BY <1>7, <2>2 DEF Complete
    <3>2. port_data_o' = [p \in Ports |-> IF p = q THEN Bus ELSE port_data_o[p]]
      BY <1>1, <1>2, <3>1 DEF Types
    <3> QED
      BY <1>6, <2>2, <3>2, Zenon
  <2> QED
    BY <1>1, <1>2, <2>1, <2>2 DEF Types
<1>9. (CHOOSE r \in {Pending[p] : p \in {q}} : TRUE).d = data_v[q]
  <2>1. {Pending[p] : p \in {q}} = {Pending[q]}
    OBVIOUS
  <2> QED
    BY <1>3, <2>1, OnlyMember
<1>10. /\ \A a \in Addr : (\E p \in {q} : Pending[p].we /\ Pending[p].a = a)
                            <=> we_v[q] /\ addr_v[q] = a
       /\ \A p \in Ports : p \in {q} /\ ~Pending[p].we <=> p = q /\ ~we_v[q]
       /\ \A p \in {q} : Pending[p].a = addr_v[q]
  BY <1>3
<1>11. Memory!Step(New(access), {q})!7
  BY <1>6, <1>9, <1>10, Zenon
<1>12. Memory!Step(New(access), {q})!8
  BY <1>8, <1>10, Zenon
<1> QED
  BY <1>3, <1>4, <1>5, <1>11, <1>12 DEF Memory!Step, Memory!Request, Access

LEMMA OvertakenStep ==
  ASSUME TimeInv, MinHold >= 4, NEW access \in [Ports -> BOOLEAN],
         NEW in \in [Ports -> Access], Clock(access, in),
         NEW q \in Chosen(Req(access)), Complete(q, access, in),
         q \in New(access)
  PROVE  Overtaken
<1>1. Types
  BY DEF TimeInv, PinsInv
<1>2. /\ q = 0 /\ Overtakes
      /\ ~req_v[0] /\ ~req_v'[0] /\ req_v[1] /\ req_v'[1] /\ OnPins(1)
      /\ 1 \notin New(access) /\ 1 \in Ports /\ 0 \in Ports
  BY OvertakingEdge DEF Ports
<1>3. Pending' = Pending
  <2>1. we_v'[1] = we_v[1] /\ addr_v'[1] = addr_v[1] /\ data_v'[1] = data_v[1]
    BY <1>2, NewEdge
  <2> QED
    BY <1>2, <2>1 DEF Pending, Ports
<1>4. /\ Pending[1].we = we_v[1] /\ Pending[1].a = addr_v[1] /\ Pending[1].d = data_v[1]
  <2>1. Pending[1] = [we |-> we_v[1], a |-> addr_v[1], d |-> data_v[1]]
    BY <1>1, <1>2, PendingIsRequest
  <2> QED
    BY <2>1
<1>5. /\ sram' = [a \in Addr |-> IF we_v[1] /\ addr_v[1] = a THEN data_v[1] ELSE sram[a]]
      /\ Bus = sram'[addr_v[1]]
  BY <1>2, PinsServe
<1>6. sram' = IF we_v[1] THEN [sram EXCEPT ![addr_v[1]] = data_v[1]] ELSE sram
  BY <1>1, <1>2, <1>5 DEF Types
<1>7. port_data_o' \in {port_data_o, [port_data_o EXCEPT ![0] = Bus]}
  BY <1>2 DEF Complete
<1>8. port_data_o' \in {port_data_o, [port_data_o EXCEPT ![0] = sram'[Pending[1].a]]}
  BY <1>4, <1>5, <1>7
<1>9. sram' = IF Pending[1].we THEN [sram EXCEPT ![Pending[1].a] = Pending[1].d] ELSE sram
  BY <1>4, <1>6
<1> QED
  BY <1>2, <1>3, <1>8, <1>9 DEF Overtaken

(* Two ports in front of one chip act as atomic accesses to one memory, for *)
(* any sets of addresses and data and masters that begin at any edge, in    *)
(* every step that is not an overtaking: the safety part of                *)
(* ImplementsMemory.                                                       *)
THEOREM MemoryRefinement ==
  ASSUME MinHold >= 4
  PROVE  Spec => Memory!Init /\ [][Memory!Next \/ Overtaken]_Memory!vars
<1>1. Init => Memory!Init
  BY DEF Init, Memory!Init, Pending
<1>2. TimeInv /\ [Next]_vars => [Memory!Next \/ Overtaken]_Memory!vars
  <2> SUFFICES ASSUME TimeInv, [Next]_vars
               PROVE  [Memory!Next \/ Overtaken]_Memory!vars
    OBVIOUS
  <2>1. ASSUME NEW access \in [Ports -> BOOLEAN], NEW in \in [Ports -> Access],
               Clock(access, in)
        PROVE  Memory!Next \/ Overtaken
    <3>1. CASE \A p \in Chosen(Req(access)) : ~Complete(p, access, in)
      <4>1. Memory!Step(New(access), {})
        BY <2>1, <3>1, TakesOnly
      <4> QED
        BY <4>1 DEF Memory!Next, New
    <3>2. ASSUME NEW q \in Chosen(Req(access)), Complete(q, access, in), q \notin New(access)
          PROVE  Memory!Next
      <4>1. Memory!Step(New(access), {q})
        BY <2>1, <3>2, ServesOne
      <4>2. New(access) \in SUBSET Ports /\ {q} \in SUBSET Ports
        BY DEF New, Chosen
      <4> QED
        BY <4>1, <4>2 DEF Memory!Next
    <3>3. ASSUME NEW q \in Chosen(Req(access)), Complete(q, access, in), q \in New(access)
          PROVE  Overtaken
      BY <2>1, <3>3, OvertakenStep
    <3> QED
      BY <3>1, <3>2, <3>3
  <2>2. CASE UNCHANGED vars
    BY <2>2 DEF vars, latches, pins, Pending, Memory!vars
  <2> QED
    BY <2>1, <2>2 DEF Next
<1>3. (Init => TimeInv) /\ (TimeInv /\ [Next]_vars => TimeInv')
  BY TimeInit, TimeStep
<1> QED
  BY <1>1, <1>2, <1>3, PTL DEF Spec
=============================================================================
