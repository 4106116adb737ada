-------------------------------- MODULE Fifo --------------------------------
(***************************************************************************)
(* The synchronous FIFO of src/ram/fifo.vhd: a circular memory with a head *)
(* and a tail pointer, a flag looped_v that tells a full memory from an    *)
(* empty one when the pointers meet, a word counter size_v, and the        *)
(* registered flags empty_o, half_o and full_o.                            *)
(*                                                                         *)
(* One step is one rising edge of clock_i with clock_en_i = '1'.  VHDL     *)
(* variables change inside the edge, so the write part of the process sees *)
(* the pointers the read part has just moved; signals (the outputs) change *)
(* at its end.                                                             *)
(***************************************************************************)
EXTENDS Naturals, Sequences

CONSTANTS FifoData,   \* the values of a word (data_width_g bits)
          Zero,       \* the all-zero word
          Depth       \* fifo_depth_g

ASSUME DepthAssumption == Depth \in Nat \ {0}
ASSUME ZeroAssumption == Zero \in FifoData

VARIABLES memory_v, head_v, tail_v, size_v, looped_v,
          data_o, empty_o, half_o, full_o,
          port   \* what read_en_i, write_en_i and data_i were at the last edge

pointers  == <<head_v, tail_v, size_v, looped_v>>
flags     == <<empty_o, half_o, full_o>>
fifo_vars == <<memory_v, pointers, data_o, flags, port>>

PortValues == [rd : BOOLEAN, wr : BOOLEAN, d : FifoData]
Idle  == [rd |-> FALSE, wr |-> FALSE, d |-> Zero]

Slots == 0 .. Depth - 1

-----------------------------------------------------------------------------
(* Tests and pointer arithmetic of the process.                            *)

\* The read guard without the looped_v alternative: a full memory, whose
\* pointers are equal, can no longer be read.
CanReadUnlooped(h, t, l) == h # t

CanRead(h, t, l) == l \/ h # t

\* The write guard that looks at the pointers only.
CanWriteAlways(h, t, l) == TRUE

CanWrite(h, t, l) == ~l \/ h # t

\* A pointer that wraps one slot early.
NextSlotShort(p) == IF p + 2 >= Depth THEN 0 ELSE p + 1

NextSlot(p) == IF p = Depth - 1 THEN 0 ELSE p + 1

\* The full flag never lowered again: the else branch assigns empty_o only.
FullFlagSticky(h, t, l) == IF h = t /\ l THEN TRUE ELSE full_o

EmptyFlag(h, t, l) == IF h = t THEN (IF l THEN empty_o ELSE TRUE) ELSE FALSE

FullFlag(h, t, l) == IF h = t THEN (IF l THEN TRUE ELSE full_o) ELSE FALSE

HalfFlag(n) == n > Depth \div 2

-----------------------------------------------------------------------------
(* The two branches of the clocked process.                                *)

\* Power-up is taken as the state the first reset leaves; the memory holds
\* whatever the device powered up with.
FifoInit ==
  /\ memory_v \in [Slots -> FifoData]
  /\ head_v = 0 /\ tail_v = 0 /\ size_v = 0 /\ looped_v = FALSE
  /\ data_o = Zero
  /\ empty_o = TRUE /\ half_o = FALSE /\ full_o = FALSE
  /\ port = Idle

Reset ==
  /\ head_v' = 0 /\ tail_v' = 0 /\ size_v' = 0 /\ looped_v' = FALSE
  /\ data_o' = Zero
  /\ empty_o' = TRUE /\ half_o' = FALSE /\ full_o' = FALSE
  /\ port' = Idle
  /\ UNCHANGED memory_v

FifoClock(read_en_i, write_en_i, data_i) ==
  LET rd    == read_en_i /\ CanRead(head_v, tail_v, looped_v)
      tail  == IF rd THEN NextSlot(tail_v) ELSE tail_v
      loopR == looped_v /\ ~(rd /\ tail_v = Depth - 1)
      wr    == write_en_i /\ CanWrite(head_v, tail, loopR)
      head  == IF wr THEN NextSlot(head_v) ELSE head_v
      loopW == loopR \/ (wr /\ head_v = Depth - 1)
      sizeR == IF rd THEN size_v - 1 ELSE size_v
      size  == IF wr THEN sizeR + 1 ELSE sizeR
  IN  /\ data_o' = IF rd THEN memory_v[tail_v] ELSE data_o
      /\ memory_v' = IF wr THEN [memory_v EXCEPT ![head_v] = data_i] ELSE memory_v
      /\ head_v' = head
      /\ tail_v' = tail
      /\ size_v' = size
      /\ looped_v' = loopW
      /\ empty_o' = EmptyFlag(head, tail, loopW)
      /\ full_o' = FullFlag(head, tail, loopW)
      /\ half_o' = HalfFlag(size)
      /\ port' = [rd |-> read_en_i, wr |-> write_en_i, d |-> data_i]

FifoNext == Reset \/ \E rd, wr \in BOOLEAN, d \in FifoData : FifoClock(rd, wr, d)

FifoSpec == FifoInit /\ [][FifoNext]_fifo_vars

-----------------------------------------------------------------------------
(* Properties.                                                             *)

TypeOK ==
  /\ memory_v \in [Slots -> FifoData]
  /\ head_v \in Slots /\ tail_v \in Slots
  /\ size_v \in 0 .. Depth
  /\ looped_v \in BOOLEAN
  /\ data_o \in FifoData /\ port \in PortValues
  /\ empty_o \in BOOLEAN /\ half_o \in BOOLEAN /\ full_o \in BOOLEAN

(* The word counter, kept beside the pointers by separate assignments of   *)
(* the read and of the write branch, always equals the distance from tail  *)
(* to head, with looped_v standing for one whole turn.                     *)
SizeIsDistance == size_v + tail_v = head_v + (IF looped_v THEN Depth ELSE 0)

(* The registered flags tell the truth about the words in the memory at    *)
(* every clock edge, although the code updates empty_o and full_o only in  *)
(* one branch when the pointers are equal.                                 *)
FlagsTellTruth ==
  /\ empty_o <=> size_v = 0
  /\ full_o <=> size_v = Depth
  /\ half_o <=> size_v > Depth \div 2

(* The words between the tail and the head, oldest first.                  *)
SlotAt(t, i) == IF t + i <= Depth THEN t + i - 1 ELSE t + i - 1 - Depth
Contents == [i \in 1 .. size_v |-> memory_v[SlotAt(tail_v, i)]]

Queue == INSTANCE BoundedQueue WITH Data <- FifoData, queue <- Contents, out <- data_o

(* The circular memory behaves as a queue of Depth words: nothing is lost, *)
(* duplicated or reordered across wraps of either pointer and simultaneous *)
(* reads and writes.                                                       *)
ImplementsQueue == Queue!Spec
=============================================================================
