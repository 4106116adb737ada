----------------------------- MODULE UartProofs ------------------------------
(***************************************************************************)
(* Proofs about Uart: what the overrun flag tells, that the bytes go out   *)
(* once and in order, and that what is read is what was received, for      *)
(* every bit clock, set of bytes and number of bytes.                      *)
(***************************************************************************)
EXTENDS Uart, SequenceTheorems, TLAPS

-----------------------------------------------------------------------------
(* The errors.  A request for a reset lasts until the first edge that is    *)
(* not under a read strobe; until the one after it, when another request   *)
(* would be lost, there is no error to be reset; and under a read strobe   *)
(* no byte is unread.                                                      *)
FlagTypes ==
  /\ rx_ready_s \in BOOLEAN /\ overrun_err_s \in BOOLEAN /\ frame_err_s \in BOOLEAN
  /\ reseterr_a \in BOOLEAN /\ clr_reserr_s \in BOOLEAN /\ asked \in BOOLEAN
  /\ lost \in Nat /\ told \in Nat /\ missed \in Nat

ErrorsInv ==
  /\ FlagTypes
  /\ reseterr_a = asked
  /\ clr_reserr_s => ~overrun_err_s /\ ~frame_err_s
  /\ told + missed <= lost
  /\ OverrunReported

LEMMA ErrorsEdge ==
  ASSUME ErrorsInv, Edge
  PROVE  ErrorsInv'
<1> DEFINE oe == set_oe_s(rx_ready_s)
           loss == IF set_ready_s /\ (rx_ready_s \/ dataread_s) THEN 1 ELSE 0
<1>1. /\ rx_ready_s' = (~dataread_s /\ (set_ready_s \/ rx_ready_s))
      /\ lost' = lost + loss /\ loss \in {0, 1}
  BY DEF Edge, Tally
<1>2. CASE dataread_s
  <2>1. /\ UNCHANGED errors
        /\ missed' = missed + loss /\ told' = told /\ asked' = asked
    BY <1>2 DEF Edge, Errors, Tally
  <2> HIDE DEF loss
  <2>2. FlagTypes'
    BY <1>1, <2>1 DEF ErrorsInv, FlagTypes, errors
  <2>3. OverrunReported' /\ told' + missed' <= lost'
    BY <1>1, <2>1 DEF ErrorsInv, FlagTypes, OverrunReported, errors
  <2> QED
    BY <2>1, <2>2, <2>3 DEF ErrorsInv, errors
<1>3. CASE ~dataread_s
  <2>1. /\ clr_reserr_s' = reseterr_a /\ reseterr_a' = FALSE /\ asked' = FALSE
        /\ overrun_err_s' = (~reseterr_a /\ (overrun_err_s \/ oe))
        /\ frame_err_s' = (~reseterr_a /\ (frame_err_s \/ set_fe_s(txd_s, rx_ready_s)))
    BY <1>3 DEF Edge, Errors, ResetBit, Tally, ErrorsInv, FlagTypes
  <2>2. /\ asked => told' = lost /\ missed' = loss
        /\ ~asked => told' = told /\ missed' = missed
    BY <1>3 DEF Edge, Tally
  <2>3. loss = IF oe THEN 1 ELSE 0
    BY <1>3 DEF set_oe_s
  <2> HIDE DEF loss, oe
  <2>4. FlagTypes'
    <3>1. lost' \in Nat /\ told' \in Nat /\ missed' \in Nat
      BY <1>1, <2>2 DEF ErrorsInv, FlagTypes
    <3> QED
      BY <1>1, <2>1, <3>1 DEF ErrorsInv, FlagTypes
  <2>5. clr_reserr_s' => ~overrun_err_s' /\ ~frame_err_s'
    BY <2>1
  <2>6. told' + missed' <= lost' /\ OverrunReported'
    <3>1. CASE asked
      <4>1. overrun_err_s' = FALSE /\ told' + missed' = lost' /\ lost' \in Nat
        BY <1>1, <2>1, <2>2, <3>1 DEF ErrorsInv, FlagTypes
      <4> QED
        BY <4>1 DEF OverrunReported
    <3>2. CASE ~asked /\ oe
      <4>1. overrun_err_s' = TRUE
        BY <2>1, <3>2 DEF ErrorsInv, FlagTypes
      <4>2. lost' = lost + 1 /\ told' = told /\ missed' = missed
        BY <1>1, <2>2, <2>3, <3>2
      <4> QED
        BY <4>1, <4>2 DEF ErrorsInv, FlagTypes, OverrunReported
    <3>3. CASE ~asked /\ ~oe
      <4>1. overrun_err_s' = overrun_err_s
        BY <2>1, <3>3 DEF ErrorsInv, FlagTypes
      <4>2. lost' = lost /\ told' = told /\ missed' = missed
        BY <1>1, <2>2, <2>3, <3>3 DEF ErrorsInv, FlagTypes
      <4> QED
        BY <4>1, <4>2 DEF ErrorsInv, OverrunReported
    <3> QED
      BY <3>1, <3>2, <3>3
  <2> QED
    BY <2>1, <2>4, <2>5, <2>6 DEF ErrorsInv
<1> QED
  BY <1>2, <1>3

LEMMA ErrorsStep == ErrorsInv /\ [Next]_vars => ErrorsInv'
<1> SUFFICES ASSUME ErrorsInv, [Next]_vars PROVE ErrorsInv'
  OBVIOUS
<1>1. CASE Edge
  BY <1>1, ErrorsEdge
<1>2. CASE ResetErrors
  BY <1>2 DEF ResetErrors, ErrorsInv, FlagTypes, OverrunReported
<1>3. CASE \/ \E flag \in Flags : Poll(flag)
           \/ \E d \in Bytes : WriteBegins(d)
           \/ WriteEnds \/ ReadBegins \/ ReadEnds
           \/ UNCHANGED vars
  <2>1. /\ overrun_err_s' = overrun_err_s /\ frame_err_s' = frame_err_s
        /\ reseterr_a' = reseterr_a /\ clr_reserr_s' = clr_reserr_s
        /\ asked' = asked /\ lost' = lost /\ told' = told /\ missed' = missed
        /\ rx_ready_s' \in BOOLEAN
    BY <1>3 DEF Poll, WriteBegins, WriteEnds, ReadBegins, ReadEnds, vars, errors,
                history, ErrorsInv, FlagTypes
  <2> QED
    BY <2>1 DEF ErrorsInv, FlagTypes, OverrunReported
<1> QED
  BY <1>1, <1>2, <1>3 DEF Next

(* A byte lost since the last reset of the errors shows in the overrun flag *)
(* and nothing else does, but for those lost at the edge of the reset or   *)
(* under a read strobe, whenever the strobes begin and end: no reset is    *)
(* ever lost or needed twice.                                              *)
THEOREM OverrunTold == Spec => []OverrunReported
<1>1. Init => ErrorsInv
  <2> SUFFICES ASSUME Init PROVE ErrorsInv
    OBVIOUS
  <2>1. /\ rx_ready_s = FALSE /\ overrun_err_s = FALSE /\ frame_err_s = FALSE
        /\ reseterr_a = FALSE /\ clr_reserr_s = FALSE /\ asked = FALSE
        /\ lost = 0 /\ told = 0 /\ missed = 0
    BY DEF Init
  <2>2. FlagTypes
    BY <2>1 DEF FlagTypes
  <2>3. OverrunReported /\ told + missed <= lost
    BY <2>1 DEF OverrunReported
  <2>4. reseterr_a = asked
    BY <2>1
  <2> QED
    BY <2>1, <2>2, <2>3, <2>4 DEF ErrorsInv
<1>2. ErrorsInv => OverrunReported
  BY DEF ErrorsInv
<1> QED
  BY <1>1, <1>2, ErrorsStep, PTL DEF Spec

-----------------------------------------------------------------------------
(* The transmitter, with frames of ten bits.                                *)
FullFrames == CharLen + StopBits = 4

Shifter == [1 .. 9 -> {0, 1}]

(* The byte in the transmitter is the next that has not been on the line,   *)
(* and its frame begins with a 0.                                          *)
Bit(i) == IF i = 1 THEN 0 ELSE written[Len(sent) + 1][i - 1]

TxTypes ==
  /\ tx_state \in {"IDLE", "SYNCH", "TDATA"}
  /\ tsr_q \in Shifter /\ bitcount_q \in 0 .. 9
  /\ written \in Seq(Bytes) /\ sent \in Seq(Bytes) /\ frame \in Seq({0, 1})
  /\ tx_data_s \in Bytes /\ tx_empty_s \in BOOLEAN
  /\ permit \in {"none", "ready", "empty"}

(* The bytes due are those sent, the one in the shift register, and the     *)
(* one in the data register.                                               *)
Shifting == IF tx_state = "IDLE" THEN 0 ELSE 1
Behind == IF tx_empty_s THEN 0 ELSE 1

Account ==
  /\ Len(written) = Len(sent) + Shifting + Behind
  /\ \A i \in 1 .. Len(sent) : sent[i] = written[i]
  /\ Behind = 1 => written[Len(written)] = tx_data_s

(* A processor that has seen "empty" finds the data register empty; a       *)
(* strobe leaves it full.                                                  *)
MayWrite ==
  /\ permit = "empty" => tx_empty_s = TRUE
  /\ datawrite_s => tx_empty_s = FALSE

(* The bits of the frame that are on the line, and those still to come.     *)
OnLine ==
  /\ tx_state # "TDATA" => frame = <<>> /\ tsr_q[1] = 1 /\ bitcount_q = 0
  /\ tx_state = "SYNCH" => \A i \in 2 .. 9 : tsr_q[i] = Bit(i)
  /\ tx_state = "TDATA" =>
       /\ Len(frame) = bitcount_q
       /\ \A i \in 1 .. bitcount_q : frame[i] = Bit(i)
       /\ \A i \in 1 .. 9 :
            tsr_q[i] = IF bitcount_q + i <= 9 THEN Bit(bitcount_q + i) ELSE 1

TxInv == TxTypes /\ Account /\ MayWrite /\ OnLine

(* A function on 1 .. n and a sequence of length n are one thing.           *)
LEMMA FixedLength ==
  ASSUME NEW n \in Nat, NEW S, NEW f \in [1 .. n -> S]
  PROVE  f \in Seq(S) /\ Len(f) = n
  BY SMT

LEMMA OfLength ==
  ASSUME NEW S, NEW s \in Seq(S)
  PROVE  s \in [1 .. Len(s) -> S]
  BY LenProperties, Zenon

(* The bits of a frame between its start and its stop bit.                  *)
LEMMA FrameByte ==
  ASSUME NEW S, NEW s \in Seq(S), Len(s) = 9
  PROVE  /\ SubSeq(s, 2, 9) \in Seq(S) /\ Len(SubSeq(s, 2, 9)) = 8
         /\ \A i \in 1 .. 8 : SubSeq(s, 2, 9)[i] = s[i + 1]
<1>1. \A i \in 2 .. 9 : s[i] \in S
  <2>1. \A i \in 2 .. 9 : i \in 1 .. Len(s)
    OBVIOUS
  <2> QED
    BY <2>1, ElementOfSeq, Zenon
<1>2. SubSeq(s, 2, 9) \in Seq(S)
  BY <1>1, SubSeqProperties
<1>3. Len(SubSeq(s, 2, 9)) = 8
  BY <1>1, SubSeqProperties
<1>4. \A i \in 1 .. 8 : SubSeq(s, 2, 9)[i] = s[i + 1]
  BY <1>1, SubSeqProperties
<1> QED
  BY <1>2, <1>3, <1>4

(* The register after one shift: every place holds what was behind it.      *)
LEMMA ShiftedRegister ==
  ASSUME NEW n \in Nat, n > 0, NEW S, NEW f \in [1 .. n -> S], NEW e \in S
  PROVE  /\ Append(Tail(f), e) \in [1 .. n -> S]
         /\ \A i \in 1 .. n - 1 : Append(Tail(f), e)[i] = f[i + 1]
         /\ Append(Tail(f), e)[n] = e
<1>1. f \in Seq(S) /\ Len(f) = n
  BY FixedLength
<1>2. /\ Tail(f) \in Seq(S) /\ Len(Tail(f)) = n - 1
      /\ \A i \in 1 .. n - 1 : Tail(f)[i] = f[i + 1]
  BY <1>1
<1>3. /\ Append(Tail(f), e) \in Seq(S) /\ Len(Append(Tail(f), e)) = n
      /\ \A i \in 1 .. n - 1 : Append(Tail(f), e)[i] = Tail(f)[i]
      /\ Append(Tail(f), e)[n] = e
  BY <1>2
<1>4. Append(Tail(f), e) \in [1 .. n -> S]
  BY <1>3, OfLength, Zenon
<1> QED
  BY <1>2, <1>3, <1>4

(* The transmitter's register after a shift.                                 *)
LEMMA ShiftedShifter ==
  ASSUME NEW f \in Shifter
  PROVE  /\ Append(Tail(f), 1) \in Shifter
         /\ \A i \in 1 .. 8 : Append(Tail(f), 1)[i] = f[i + 1]
         /\ Append(Tail(f), 1)[9] = 1
<1> DEFINE n == 9
           e == 1
           S == {0, 1}
<1>1. n \in Nat /\ n > 0 /\ n - 1 = 8 /\ e \in S /\ f \in [1 .. n -> S]
  BY DEF Shifter
<1> HIDE DEF n, e, S
<1>2. /\ Append(Tail(f), e) \in [1 .. n -> S]
      /\ \A i \in 1 .. n - 1 : Append(Tail(f), e)[i] = f[i + 1]
      /\ Append(Tail(f), e)[n] = e
  <2>1. n \in Nat /\ n > 0
    BY <1>1
  <2>2. \A B : \A h \in [1 .. n -> B] : \A x \in B :
           /\ Append(Tail(h), x) \in [1 .. n -> B]
           /\ \A i \in 1 .. n - 1 : Append(Tail(h), x)[i] = h[i + 1]
           /\ Append(Tail(h), x)[n] = x
    BY <2>1, ShiftedRegister, Zenon
  <2>3. f \in [1 .. n -> S] /\ e \in S
    BY <1>1
  <2>4. \A h \in [1 .. n -> S] : \A x \in S :
           /\ Append(Tail(h), x) \in [1 .. n -> S]
           /\ \A i \in 1 .. n - 1 : Append(Tail(h), x)[i] = h[i + 1]
           /\ Append(Tail(h), x)[n] = x
    BY <2>2, Zenon
  <2> QED
    BY <2>3, <2>4
<1> DEFINE g == Append(Tail(f), e)
<1> HIDE DEF g
<1>3. g \in [1 .. n -> S] /\ (\A i \in 1 .. n - 1 : g[i] = f[i + 1]) /\ g[n] = e
  BY <1>2 DEF g
<1>4. g \in Shifter /\ (\A i \in 1 .. 8 : g[i] = f[i + 1]) /\ g[9] = 1
  BY <1>3 DEF n, e, S, Shifter
<1> QED
  BY <1>4 DEF g, e

(* The register after a load.                                               *)
LEMMA LoadedRegister ==
  ASSUME NEW d \in Bytes
  PROVE  /\ << 1 >> \o d \in Shifter
         /\ (<< 1 >> \o d)[1] = 1
         /\ \A i \in 2 .. 9 : (<< 1 >> \o d)[i] = d[i - 1]
<1> DEFINE one == << 1 >>
<1>1. d \in Seq({0, 1}) /\ Len(d) = 8
  BY BytesAssumption, FixedLength
<1>2. one \in Seq({0, 1}) /\ Len(one) = 1 /\ one[1] = 1
  OBVIOUS
<1> HIDE DEF one
<1>3. /\ one \o d \in Seq({0, 1}) /\ Len(one \o d) = Len(one) + Len(d)
      /\ \A i \in 1 .. Len(one) + Len(d) :
           (one \o d)[i] = IF i <= Len(one) THEN one[i] ELSE d[i - Len(one)]
  BY <1>1, <1>2, ConcatProperties, Zenon
<1>4. Len(one) + Len(d) = 9 /\ Len(one \o d) = 9
  BY <1>1, <1>2, <1>3
<1>5. one \o d \in Shifter
  BY <1>3, <1>4, OfLength, Zenon DEF Shifter
<1> DEFINE r == one \o d
<1>6. \A i \in 1 .. Len(one) + Len(d) :
        r[i] = IF i <= Len(one) THEN one[i] ELSE d[i - Len(one)]
  BY <1>3, Zenon
<1> HIDE DEF r
<1>7. \A i \in 1 .. 9 : r[i] = IF i <= 1 THEN one[i] ELSE d[i - 1]
  BY <1>1, <1>2, <1>6
<1>8. r[1] = 1 /\ \A i \in 2 .. 9 : r[i] = d[i - 1]
  BY <1>2, <1>7
<1> QED
  BY <1>5, <1>8, Zenon DEF one, r

-----------------------------------------------------------------------------
(* What an edge does to the transmitter, one lemma per branch of its        *)
(* process.                                                                 *)
LEMMA EdgeCommon ==
  ASSUME TxInv, FullFrames, Edge
  PROVE  /\ tx_data_s' = tx_data_s /\ permit' = permit
         /\ tx_empty_s' \in BOOLEAN /\ MayWrite'
         /\ ~load_tsr_s(tx_empty_s) => written' = written /\ tx_empty_s' = tx_empty_s
<1>1. tx_data_s' = tx_data_s /\ permit' = permit /\ access' = access
  BY DEF Edge
<1>2. tx_empty_s' = (~datawrite_s /\ (load_tsr_s(tx_empty_s) \/ tx_empty_s))
  BY DEF Edge, ClrTxEmpty
<1>3. datawrite_s' = datawrite_s
  BY <1>1 DEF datawrite_s
<1>4. MayWrite'
  <2>1. permit = "empty" => tx_empty_s' = TRUE
    BY <1>2 DEF TxInv, MayWrite
  <2>2. datawrite_s => tx_empty_s' = FALSE
    BY <1>2
  <2> QED
    BY <1>1, <1>3, <2>1, <2>2 DEF MayWrite
<1>5. ASSUME ~load_tsr_s(tx_empty_s)
      PROVE  written' = written /\ tx_empty_s' = tx_empty_s
  <2>1. written' = written
    BY <1>5 DEF Edge, Due
  <2>2. tx_empty_s \in BOOLEAN /\ (datawrite_s => tx_empty_s = FALSE)
    BY DEF TxInv, TxTypes, MayWrite
  <2> QED
    BY <1>2, <1>5, <2>1, <2>2
<1> QED
  BY <1>1, <1>2, <1>4, <1>5

(* Nothing moves when the transmitter waits: its line is high then, or the  *)
(* bit is not over.                                                         *)
LEMMA TxWaiting ==
  ASSUME TxInv, FullFrames, Edge, TxWaits(tx_empty_s), UNCHANGED transmitter
  PROVE  TxInv'
<1>1. /\ tx_state' = tx_state /\ tsr_q' = tsr_q /\ bitcount_q' = bitcount_q
  BY DEF transmitter
<1>2. tx_empty_s' = tx_empty_s /\ written' = written
  BY EdgeCommon DEF TxWaits, load_tsr_s
<1>3. sent' = sent /\ frame' = frame
  <2>1. CASE ~bclk_rising_s
    BY <2>1 DEF Edge, Line, Observe
  <2>2. CASE bclk_rising_s
    <3>1. tx_state = "IDLE"
      BY <2>2 DEF TxWaits
    <3>2. frame = <<>> /\ txd_s = 1
      BY <3>1 DEF TxInv, OnLine, txd_s
    <3> QED
      BY <3>2 DEF Edge, Line, Observe
  <2> QED
    BY <2>1, <2>2
<1>4. TxTypes'
  BY <1>1, <1>2, <1>3, EdgeCommon DEF TxInv, TxTypes
<1>5. Account'
  <2>1. Behind' = Behind /\ Shifting' = Shifting
    BY <1>1, <1>2 DEF Behind, Shifting
  <2> QED
    BY <1>2, <1>3, <2>1, EdgeCommon DEF TxInv, Account
<1>6. OnLine'
  BY <1>1, <1>2, <1>3, EdgeCommon DEF TxInv, OnLine, Bit
<1> QED
  BY <1>4, <1>5, <1>6, EdgeCommon DEF TxInv

(* A byte goes from the data register to the shift register, behind a 1.    *)
LEMMA TxLoads ==
  ASSUME TxInv, FullFrames, Edge,
         load_tsr_s(tx_empty_s), tsr_q' = << 1 >> \o tx_data_s,
         tx_state' = "SYNCH", bitcount_q' = bitcount_q
  PROVE  TxInv'
<1>1. tx_state = "IDLE" /\ tx_empty_s = FALSE
  BY DEF load_tsr_s, TxInv, TxTypes
<1>2. frame = <<>> /\ tsr_q[1] = 1 /\ bitcount_q = 0
  BY <1>1 DEF TxInv, OnLine
<1>3. sent' = sent /\ frame' = <<>>
  BY <1>2 DEF Edge, Line, Observe, txd_s
<1>4. /\ Len(written) = Len(sent) + 1 /\ Len(sent) \in Nat
      /\ written[Len(sent) + 1] = tx_data_s
      /\ \A i \in 1 .. Len(sent) : sent[i] = written[i]
  <2>1. Shifting = 0 /\ Behind = 1
    BY <1>1 DEF Shifting, Behind
  <2> QED
    BY <2>1 DEF TxInv, TxTypes, Account
<1>5. /\ tsr_q' \in Shifter /\ tsr_q'[1] = 1
      /\ \A i \in 2 .. 9 : tsr_q'[i] = tx_data_s[i - 1]
  BY LoadedRegister DEF TxInv, TxTypes
<1>6. /\ written' \in Seq(Bytes)
      /\ Len(written') = Len(sent) + 1 + Behind'
      /\ \A i \in 1 .. Len(sent) + 1 : written'[i] = written[i]
      /\ Behind' = 1 => written'[Len(written')] = tx_data_s
  <2>1. written \in Seq(Bytes) /\ tx_data_s \in Bytes
    BY DEF TxInv, TxTypes
  <2>2. CASE datawrite_s
    <3>1. written' = Append(written, tx_data_s) /\ Behind' = 1
      BY <2>2 DEF Edge, Due, Behind
    <3> QED
      BY <1>4, <2>1, <3>1
  <2>3. CASE ~datawrite_s
    <3>1. written' = written /\ tx_empty_s' = TRUE
      BY <2>3 DEF Edge, Due, ClrTxEmpty
    <3>2. Behind' = 0
      BY <3>1 DEF Behind
    <3> QED
      BY <1>4, <2>1, <3>1, <3>2
  <2> QED
    BY <2>2, <2>3
<1>7. TxTypes'
  BY <1>2, <1>3, <1>5, <1>6, EdgeCommon DEF TxInv, TxTypes
<1>8. Account'
  <2>1. Shifting' = 1
    BY DEF Shifting
  <2>2. \A i \in 1 .. Len(sent) : sent[i] = written'[i]
    BY <1>4, <1>6
  <2> QED
    BY <1>3, <1>4, <1>6, <2>1, <2>2, EdgeCommon DEF Account
<1>9. OnLine'
  <2>1. written'[Len(sent) + 1] = tx_data_s
    BY <1>4, <1>6
  <2>2. \A i \in 2 .. 9 : Bit(i)' = tx_data_s[i - 1]
    BY <1>3, <2>1 DEF Bit
  <2>3. bitcount_q' = 0
    BY <1>2
  <2> QED
    BY <1>3, <1>5, <2>2, <2>3 DEF OnLine
<1> QED
  BY <1>7, <1>8, <1>9, EdgeCommon DEF TxInv

(* The start bit goes on the line.                                          *)
LEMMA TxStarts ==
  ASSUME TxInv, FullFrames, Edge,
         start_s, tsr_q' = [tsr_q EXCEPT ![1] = 0],
         tx_state' = "TDATA", bitcount_q' = bitcount_q
  PROVE  TxInv'
<1>1. tx_state = "SYNCH" /\ tx_empty_s' = tx_empty_s /\ written' = written
  BY EdgeCommon DEF start_s, load_tsr_s
<1>2. /\ frame = <<>> /\ tsr_q[1] = 1 /\ bitcount_q = 0
      /\ \A i \in 2 .. 9 : tsr_q[i] = Bit(i)
  BY <1>1 DEF TxInv, OnLine
<1>3. sent' = sent /\ frame' = <<>>
  BY <1>2 DEF Edge, Line, Observe, txd_s
<1>4. /\ tsr_q' \in Shifter /\ tsr_q'[1] = 0
      /\ \A i \in 2 .. 9 : tsr_q'[i] = tsr_q[i]
  BY DEF TxInv, TxTypes, Shifter
<1>5. TxTypes'
  BY <1>1, <1>2, <1>3, <1>4, EdgeCommon DEF TxInv, TxTypes
<1>6. Account'
  <2>1. Behind' = Behind /\ Shifting' = Shifting
    BY <1>1 DEF Behind, Shifting
  <2> QED
    BY <1>1, <1>3, <2>1, EdgeCommon DEF TxInv, Account
<1>7. OnLine'
  BY <1>1, <1>2, <1>3, <1>4 DEF OnLine, Bit
<1> QED
  BY <1>5, <1>6, <1>7, EdgeCommon DEF TxInv

(* A bit is over: the next one goes on the line.                            *)
LEMMA TxShifts ==
  ASSUME TxInv, FullFrames, Edge,
         tx_state = "TDATA", bclk_rising_s, bitcount_q # BitMax,
         tsr_q' = Append(Tail(tsr_q), 1),
         bitcount_q' = bitcount_q + 1, tx_state' = tx_state
  PROVE  TxInv'
<1>1. tx_empty_s' = tx_empty_s /\ written' = written
  BY EdgeCommon DEF load_tsr_s
<1>2. BitMax = 9
  BY ModeAssumption DEF BitMax, FullFrames
<1>3. bitcount_q \in 0 .. 8
  BY <1>2 DEF TxInv, TxTypes
<1>4. /\ Len(frame) = bitcount_q /\ frame \in Seq({0, 1})
      /\ \A i \in 1 .. bitcount_q : frame[i] = Bit(i)
      /\ \A i \in 1 .. 9 :
           tsr_q[i] = IF bitcount_q + i <= 9 THEN Bit(bitcount_q + i) ELSE 1
  BY DEF TxInv, TxTypes, OnLine
<1>5. tsr_q[1] = Bit(bitcount_q + 1) /\ tsr_q[1] \in {0, 1}
  BY <1>3, <1>4 DEF TxInv, TxTypes, Shifter
<1>6. sent' = sent /\ frame' = Append(frame, tsr_q[1])
  <2>1. bitcount_q = 0 => tsr_q[1] = 0
    BY <1>5 DEF Bit
  <2>2. frame = <<>> => bitcount_q = 0
    BY <1>4
  <2>3. ~(~bclk_rising_s \/ (frame = <<>> /\ txd_s = 1)) /\ Len(frame) < 9
    BY <1>3, <1>4, <2>1, <2>2 DEF txd_s
  <2> QED
    BY <2>3 DEF Edge, Line, Observe, txd_s
<1>7. /\ frame' \in Seq({0, 1}) /\ Len(frame') = bitcount_q + 1
      /\ \A i \in 1 .. bitcount_q : frame'[i] = frame[i]
      /\ frame'[bitcount_q + 1] = tsr_q[1]
  <2> DEFINE f == Append(frame, tsr_q[1])
  <2>3. frame \in Seq({0, 1}) /\ tsr_q[1] \in {0, 1}
    BY <1>4, <1>5, Zenon
  <2>4. /\ f \in Seq({0, 1}) /\ Len(f) = Len(frame) + 1
        /\ \A i \in 1 .. Len(frame) : f[i] = frame[i]
        /\ f[Len(frame) + 1] = tsr_q[1]
    BY <2>3, AppendProperties
  <2>5. frame' = f
    BY <1>6, Zenon
  <2> HIDE DEF f
  <2>1. /\ frame' \in Seq({0, 1}) /\ Len(frame') = Len(frame) + 1
        /\ \A i \in 1 .. Len(frame) : frame'[i] = frame[i]
        /\ frame'[Len(frame) + 1] = tsr_q[1]
    BY <2>4, <2>5, Zenon
  <2>2. Len(frame) = bitcount_q
    BY <1>4
  <2> QED
    BY <2>1, <2>2, Zenon
<1>8. /\ tsr_q' \in Shifter
      /\ \A i \in 1 .. 8 : tsr_q'[i] = tsr_q[i + 1]
      /\ tsr_q'[9] = 1
  <2> DEFINE r == tsr_q
  <2>1. r \in Shifter
    BY DEF TxInv, TxTypes
  <2> HIDE DEF r
  <2>2. /\ Append(Tail(r), 1) \in Shifter
        /\ \A i \in 1 .. 8 : Append(Tail(r), 1)[i] = r[i + 1]
        /\ Append(Tail(r), 1)[9] = 1
    BY <2>1, ShiftedShifter
  <2>3. tsr_q' = Append(Tail(r), 1)
    BY DEF r
  <2>4. /\ tsr_q' \in Shifter
        /\ \A i \in 1 .. 8 : tsr_q'[i] = r[i + 1]
        /\ tsr_q'[9] = 1
    BY <2>2, <2>3, Zenon
  <2> QED
    BY <2>4 DEF r
<1>9. TxTypes'
  <2>1. /\ tx_data_s' = tx_data_s /\ permit' = permit
        /\ written' = written /\ tx_empty_s' = tx_empty_s
    BY <1>1, EdgeCommon
  <2>2. sent' \in Seq(Bytes) /\ frame' \in Seq({0, 1}) /\ bitcount_q' \in 0 .. 9
    BY <1>3, <1>6, <1>7 DEF TxInv, TxTypes
  <2> QED
    BY <1>8, <2>1, <2>2 DEF TxInv, TxTypes
<1>10. Account'
  <2>1. Behind' = Behind /\ Shifting' = Shifting
    BY <1>1 DEF Behind, Shifting
  <2> QED
    BY <1>1, <1>6, <2>1, EdgeCommon DEF TxInv, Account
<1>11. OnLine'
  <2>1. \A i \in Int : Bit(i)' = Bit(i)
    BY <1>1, <1>6 DEF Bit
  <2>2. tx_state' = "TDATA" /\ Len(frame') = bitcount_q'
    BY <1>7
  <2>3. \A i \in 1 .. bitcount_q' : frame'[i] = Bit(i)
    BY <1>3, <1>4, <1>5, <1>7
  <2>4. \A i \in 1 .. 9 :
          tsr_q'[i] = IF bitcount_q + 1 + i <= 9 THEN Bit(bitcount_q + 1 + i) ELSE 1
    <3> DEFINE k == bitcount_q
               r == tsr_q
               s == tsr_q'
    <3>1. /\ k \in 0 .. 8
          /\ \A i \in 1 .. 9 : r[i] = IF k + i <= 9 THEN Bit(k + i) ELSE 1
      BY <1>3, <1>4, Zenon
    <3>2. (\A i \in 1 .. 8 : s[i] = r[i + 1]) /\ s[9] = 1
      BY <1>8, Zenon
    <3> HIDE DEF k, r, s
    <3>4. ASSUME NEW i \in 1 .. 9
          PROVE  s[i] = IF k + 1 + i <= 9 THEN Bit(k + 1 + i) ELSE 1
      <4>1. CASE i = 9
        BY <3>1, <3>2, <4>1
      <4>2. CASE i \in 1 .. 8
        <5>1. i + 1 \in 1 .. 9 /\ s[i] = r[i + 1] /\ k + (i + 1) = k + 1 + i
          BY <3>1, <3>2, <4>2
        <5> QED
          BY <3>1, <5>1
      <4> QED
        BY <4>1, <4>2
    <3> QED
      BY <3>4 DEF k, r, s
  <2>5. written' = written /\ sent' = sent /\ bitcount_q' = bitcount_q + 1
    BY <1>1, <1>6
  <2>6. \A i \in 1 .. 9 :
          tsr_q'[i] = IF bitcount_q' + i <= 9 THEN Bit(bitcount_q + i)' ELSE 1
    BY <2>4, <2>5 DEF Bit
  <2>7. \A i \in 1 .. bitcount_q' : frame'[i] = Bit(i)'
    BY <1>3, <2>1, <2>3
  <2> QED
    BY <2>2, <2>6, <2>7, Zenon DEF OnLine
<1> QED
  BY <1>9, <1>10, <1>11, EdgeCommon DEF TxInv

(* The stop bit is over: the frame that was on the line is the byte.        *)
LEMMA TxEnds ==
  ASSUME TxInv, FullFrames, Edge,
         tx_state = "TDATA", bclk_rising_s, bitcount_q = BitMax,
         bitcount_q' = CountAfter, tx_state' = "IDLE", tsr_q' = tsr_q
  PROVE  TxInv'
<1>1. tx_empty_s' = tx_empty_s /\ written' = written
  BY EdgeCommon DEF load_tsr_s
<1>2. bitcount_q = 9
  BY ModeAssumption DEF BitMax, FullFrames
<1>13. Len(frame) = 9
  BY <1>2 DEF TxInv, OnLine
<1>3. /\ Len(frame) = 9 /\ frame \in Seq({0, 1})
      /\ \A i \in 1 .. 9 : frame[i] = Bit(i)
      /\ tsr_q[1] = 1
  BY <1>2 DEF TxInv, TxTypes, OnLine
<1> DEFINE b == written[Len(sent) + 1]
<1>4. Len(written) = Len(sent) + 1 + Behind /\ Len(sent) \in Nat /\ Behind \in {0, 1}
  BY DEF TxInv, TxTypes, Account, Shifting, Behind
<1>5. b \in Bytes /\ b \in [1 .. 8 -> {0, 1}]
  BY <1>4, BytesAssumption DEF TxInv, TxTypes
<1>6. \A i \in 2 .. 9 : frame[i] = b[i - 1]
  BY <1>3 DEF Bit
<1> HIDE DEF b
<1>7. SubSeq(frame, 2, 9) = b
  <2>1. b \in Seq({0, 1}) /\ Len(b) = 8
    BY <1>5, FixedLength
  <2>2. /\ SubSeq(frame, 2, 9) \in Seq({0, 1}) /\ Len(SubSeq(frame, 2, 9)) = 8
        /\ \A i \in 1 .. 8 : SubSeq(frame, 2, 9)[i] = frame[i + 1]
    BY <1>3, FrameByte
  <2>3. \A i \in 1 .. 8 : frame[i + 1] = b[i]
    BY <1>6
  <2>4. \A i \in 1 .. 8 : SubSeq(frame, 2, 9)[i] = b[i]
    BY <2>2, <2>3
  <2> QED
    BY <2>1, <2>2, <2>4, SeqEqual
<1>8. sent' = Append(sent, b) /\ frame' = <<>>
  <2>1. frame # <<>>
    <3>1. Len(frame) # 0
      BY <1>13
    <3> QED
      BY <1>3, <3>1, EmptySeq, Zenon
  <2>2. ~(~bclk_rising_s \/ (frame = <<>> /\ txd_s = 1)) /\ ~(Len(frame) < 9)
    BY <1>13, <2>1
  <2>3. txd_s = 1
    BY <1>3 DEF txd_s
  <2>4. Observe
    BY DEF Edge, Line
  <2>5. frame' = <<>> /\ sent' = Append(sent, SubSeq(frame, 2, 9))
    BY <2>2, <2>3, <2>4 DEF Observe
  <2> QED
    BY <1>7, <2>5, Zenon
<1>9. /\ sent' \in Seq(Bytes) /\ Len(sent') = Len(sent) + 1
      /\ \A i \in 1 .. Len(sent) : sent'[i] = sent[i]
      /\ sent'[Len(sent) + 1] = b
  BY <1>5, <1>8 DEF TxInv, TxTypes
<1>10. TxTypes'
  BY <1>1, <1>8, <1>9, EdgeCommon DEF TxInv, TxTypes, CountAfter
<1>11. Account'
  <2>1. Behind' = Behind /\ Shifting' = 0
    BY <1>1 DEF Behind, Shifting
  <2>2. \A i \in 1 .. Len(sent') : sent'[i] = written[i]
    <3>1. ASSUME NEW i \in 1 .. Len(sent') PROVE i \in 1 .. Len(sent) \/ i = Len(sent) + 1
      BY <1>4, <1>9
    <3>2. \A i \in 1 .. Len(sent) : sent[i] = written[i]
      BY DEF TxInv, Account
    <3> QED
      BY <1>9, <3>1, <3>2 DEF b
  <2>3. Len(written) = Len(sent) + 1 + Behind
    BY <1>1 DEF TxInv, Account, Shifting
  <2>4. Len(written') = Len(sent') + Shifting' + Behind'
    BY <1>1, <1>9, <2>1, <2>3 DEF TxInv, TxTypes, Behind
  <2>5. Behind' = 1 => written'[Len(written')] = tx_data_s'
    BY <1>1, <2>1, EdgeCommon DEF TxInv, Account
  <2> QED
    BY <1>1, <2>2, <2>4, <2>5 DEF Account
<1>12. OnLine'
  BY <1>3, <1>8 DEF OnLine, CountAfter
<1> QED
  BY <1>10, <1>11, <1>12, EdgeCommon DEF TxInv

LEMMA TxEdge ==
  ASSUME TxInv, FullFrames, Edge
  PROVE  TxInv'
<1>1. CASE TxWaits(tx_empty_s) /\ UNCHANGED transmitter
  BY <1>1, TxWaiting
<1>2. CASE LoadAndShift(tx_empty_s, tx_data_s)
  BY <1>2, TxLoads, TxStarts, TxShifts, TxEnds DEF LoadAndShift
<1> QED
  BY <1>1, <1>2 DEF Edge, Line, Transmit

(* The bytes due with the last one replaced.                                *)
LEMMA ReplacedLast ==
  ASSUME NEW S, NEW s \in Seq(S), Len(s) > 0, NEW d \in S
  PROVE  /\ Replaced(s, d) \in Seq(S) /\ Len(Replaced(s, d)) = Len(s)
         /\ \A i \in 1 .. Len(s) - 1 : Replaced(s, d)[i] = s[i]
         /\ Replaced(s, d)[Len(s)] = d
<1>1. Len(s) \in Nat /\ s \in [1 .. Len(s) -> S] /\ Len(s) \in 1 .. Len(s)
  BY LenProperties, OfLength
<1> DEFINE n == Len(s)
           r == Replaced(s, d)
<1>2. n \in Nat /\ s \in [1 .. n -> S] /\ n \in 1 .. n /\ r = [s EXCEPT ![n] = d]
  BY <1>1 DEF Replaced
<1> HIDE DEF n, r
<1>3. r \in [1 .. n -> S] /\ (\A i \in 1 .. n - 1 : r[i] = s[i]) /\ r[n] = d
  BY <1>2
<1>4. r \in Seq(S) /\ Len(r) = n
  BY <1>2, <1>3, FixedLength
<1> QED
  BY <1>3, <1>4 DEF n, r

(* A strobe puts a byte into the data register, behind those that are due,  *)
(* or in the place of the one that was there.                              *)
LEMMA TxWrite ==
  ASSUME TxInv, FullFrames, NEW d \in Bytes, WriteBegins(d)
  PROVE  TxInv'
<1>1. /\ tx_state' = tx_state /\ tsr_q' = tsr_q /\ bitcount_q' = bitcount_q
      /\ sent' = sent /\ frame' = frame
      /\ tx_empty_s' = FALSE /\ tx_data_s' = d /\ permit' = "none"
  BY DEF WriteBegins, line, transmitter
<1>2. /\ Len(written) = Len(sent) + Shifting + Behind /\ Shifting \in {0, 1}
      /\ \A i \in 1 .. Len(sent) : sent[i] = written[i]
      /\ written \in Seq(Bytes) /\ Len(sent) \in Nat
  BY DEF TxInv, TxTypes, Account, Shifting
<1>3. /\ written' \in Seq(Bytes) /\ Len(written') = Len(sent) + Shifting + 1
      /\ \A i \in 1 .. Len(sent) + Shifting : written'[i] = written[i]
      /\ written'[Len(written')] = d
  <2>1. CASE tx_empty_s = TRUE
    <3>1. written' = Append(written, d) /\ Behind = 0
      BY <2>1 DEF WriteBegins, Behind
    <3> QED
      BY <1>2, <3>1
  <2>2. CASE tx_empty_s = FALSE
    <3>1. permit = "ready"
      BY <2>2 DEF WriteBegins, TxInv, TxTypes, MayWrite
    <3>2. written' = Replaced(written, d) /\ Behind = 1
      BY <2>2, <3>1 DEF WriteBegins, Behind
    <3>3. Len(written) > 0
      BY <1>2, <3>2
    <3>4. /\ Replaced(written, d) \in Seq(Bytes)
          /\ Len(Replaced(written, d)) = Len(written)
          /\ \A i \in 1 .. Len(written) - 1 : Replaced(written, d)[i] = written[i]
          /\ Replaced(written, d)[Len(written)] = d
      <4>1. written \in Seq(Bytes) /\ d \in Bytes
        BY <1>2
      <4> QED
        BY <4>1, <3>3, ReplacedLast, ZenonT(40)
    <3> QED
      BY <1>2, <3>2, <3>4
  <2> QED
    BY <2>1, <2>2 DEF TxInv, TxTypes
<1>4. TxTypes'
  BY <1>1, <1>3 DEF TxInv, TxTypes
<1>5. Account'
  <2>1. Shifting' = Shifting /\ Behind' = 1
    BY <1>1 DEF Shifting, Behind
  <2>2. \A i \in 1 .. Len(sent) : sent[i] = written'[i]
    BY <1>2, <1>3
  <2> QED
    BY <1>1, <1>3, <2>1, <2>2 DEF Account
<1>6. MayWrite'
  BY <1>1 DEF MayWrite
<1>7. OnLine'
  <2>1. CASE tx_state = "IDLE"
    BY <1>1, <2>1 DEF TxInv, OnLine
  <2>2. CASE tx_state # "IDLE"
    <3>1. written'[Len(sent') + 1] = written[Len(sent) + 1]
      BY <1>1, <1>2, <1>3, <2>2 DEF Shifting
    <3> QED
      BY <1>1, <3>1 DEF TxInv, OnLine, Bit
  <2> QED
    BY <2>1, <2>2
<1> QED
  BY <1>4, <1>5, <1>6, <1>7 DEF TxInv

LEMMA TxStep == TxInv /\ FullFrames /\ [Next]_vars => TxInv'
<1> SUFFICES ASSUME TxInv, FullFrames, [Next]_vars PROVE TxInv'
  OBVIOUS
<1>1. CASE Edge
  BY <1>1, TxEdge
<1>2. CASE \E d \in Bytes : WriteBegins(d)
  BY <1>2, TxWrite
<1>3. CASE \/ \E flag \in Flags : Poll(flag)
           \/ WriteEnds \/ ReadBegins \/ ReadEnds \/ ResetErrors \/ UNCHANGED vars
  <2>1. /\ tx_state' = tx_state /\ tsr_q' = tsr_q /\ bitcount_q' = bitcount_q
        /\ sent' = sent /\ frame' = frame /\ written' = written
        /\ tx_empty_s' = tx_empty_s /\ tx_data_s' = tx_data_s
    BY <1>3 DEF Poll, WriteEnds, ReadBegins, ReadEnds, ResetErrors, vars, line,
                transmitter, txside
  <2>2. /\ permit' \in {"none", "ready", "empty"}
        /\ permit' = "empty" => tx_empty_s = TRUE
    <3>1. CASE \E flag \in Flags : Poll(flag)
      BY <3>1, FlagsAssumption DEF Poll, Seen, TxInv, TxTypes
    <3>2. CASE \/ WriteEnds \/ ReadBegins \/ ReadEnds \/ ResetErrors \/ UNCHANGED vars
      <4>1. permit' = permit
        BY <3>2 DEF WriteEnds, ReadBegins, ReadEnds, ResetErrors, bus, vars
      <4> QED
        BY <4>1 DEF TxInv, TxTypes, MayWrite
    <3> QED
      BY <1>3, <3>1, <3>2
  <2>3. access' = "write" => access = "write"
    BY <1>3 DEF Poll, WriteEnds, ReadBegins, ReadEnds, ResetErrors, bus, vars
  <2>4. MayWrite'
    BY <2>1, <2>2, <2>3 DEF TxInv, MayWrite, datawrite_s
  <2>5. TxTypes'
    BY <2>1, <2>2 DEF TxInv, TxTypes
  <2>6. Account'
    <3>1. Shifting' = Shifting /\ Behind' = Behind
      BY <2>1 DEF Shifting, Behind
    <3> QED
      BY <2>1, <3>1 DEF TxInv, Account
  <2>7. OnLine'
    BY <2>1 DEF TxInv, OnLine, Bit
  <2> QED
    BY <2>4, <2>5, <2>6, <2>7 DEF TxInv
<1> QED
  BY <1>1, <1>2, <1>3 DEF Next

LEMMA TxInit == Init => TxInv
<1> SUFFICES ASSUME Init PROVE TxInv
  OBVIOUS
<1>1. /\ tx_state = "IDLE" /\ tsr_q = [i \in 1 .. 9 |-> 1] /\ bitcount_q = 0
      /\ written = <<>> /\ sent = <<>> /\ frame = <<>>
      /\ tx_data_s \in Bytes /\ tx_empty_s = TRUE
      /\ permit = "none" /\ access = "none"
  BY DEF Init, ResetLine
<1>2. TxTypes
  <2>1. tsr_q \in Shifter
    BY <1>1 DEF Shifter
  <2>2. /\ written \in Seq(Bytes) /\ sent \in Seq(Bytes) /\ frame \in Seq({0, 1})
    BY <1>1
  <2>3. permit \in {"none", "ready", "empty"} /\ tx_empty_s \in BOOLEAN
    BY <1>1
  <2> QED
    BY <1>1, <2>1, <2>2, <2>3 DEF TxTypes
<1>3. Account
  <2>1. Shifting = 0 /\ Behind = 0
    BY <1>1 DEF Shifting, Behind
  <2> QED
    BY <1>1, <2>1 DEF Account
<1>4. MayWrite /\ OnLine
  BY <1>1 DEF MayWrite, OnLine, datawrite_s
<1> QED
  BY <1>2, <1>3, <1>4 DEF TxInv

LEMMA TxInvariant ==
  ASSUME FullFrames
  PROVE  Spec => []TxInv
<1>1. TxInv /\ [Next]_vars => TxInv'
  BY TxStep
<1> QED
  BY <1>1, TxInit, PTL DEF Spec

(* The bytes written after a flag was polled go out in order, and once but *)
(* for those taken under their own strobe or written over after "ready",   *)
(* and none is left over when the transmitter is idle: whatever the bit    *)
(* clock, the number of bytes and the length of the strobes, with frames   *)
(* of ten bits.                                                            *)
THEOREM SentOnceInOrder ==
  ASSUME FullFrames
  PROVE  Spec => []BytesOnceInOrder
<1>1. TxInv => BytesOnceInOrder
  <2> SUFFICES ASSUME TxInv PROVE BytesOnceInOrder
    OBVIOUS
  <2>1. /\ written \in Seq(Bytes) /\ sent \in Seq(Bytes)
        /\ Len(written) = Len(sent) + Shifting + Behind
        /\ Shifting \in {0, 1} /\ Behind \in {0, 1}
        /\ \A i \in 1 .. Len(sent) : sent[i] = written[i]
    BY DEF TxInv, TxTypes, Account, Shifting, Behind
  <2>2. SentInOrder
    <3>1. Len(written) - Len(sent) \in 0 .. 2
      BY <2>1
    <3>2. sent = SubSeq(written, 1, Len(sent))
      <4>1. \A i \in 1 .. Len(sent) : written[i] \in Bytes
        BY <2>1
      <4>2. /\ SubSeq(written, 1, Len(sent)) \in Seq(Bytes)
            /\ Len(SubSeq(written, 1, Len(sent))) = Len(sent)
            /\ \A i \in 1 .. Len(sent) : SubSeq(written, 1, Len(sent))[i] = written[i]
        BY <2>1, <4>1, SubSeqProperties
      <4> QED
        BY <2>1, <4>2, SeqEqual
    <3> QED
      BY <3>1, <3>2 DEF SentInOrder
  <2>3. IdleMeansSent(tx_empty_s)
    <3> SUFFICES ASSUME tx_state = "IDLE", tx_empty_s PROVE sent = written
      BY DEF IdleMeansSent
    <3>1. Shifting = 0 /\ Behind = 0
      BY DEF Shifting, Behind
    <3> QED
      BY <2>1, <3>1, SeqEqual
  <2> QED
    BY <2>2, <2>3 DEF BytesOnceInOrder
<1> QED
  BY <1>1, TxInvariant, PTL

-----------------------------------------------------------------------------
(* The receiver, on the line of its own transmitter, is in step with it: in *)
(* the edge after the start bit went out it has seen it, and from then on   *)
(* it has the bits of the frame but its start and the one on the line.      *)
Word == [1 .. 8 -> {0, 1}]

RxTypes ==
  /\ rsr_r \in Word /\ rdr_o \in Word
  /\ rx_ready_s \in BOOLEAN
  /\ got \in Seq(Word) /\ kept \in Seq(Word)

InStep ==
  /\ tx_state # "TDATA" => rx_state = "IDLE"
  /\ tx_state = "TDATA" /\ bitcount_q = 0 =>
       rx_state = "START_DETECTED" \/ (rx_state = "IDLE" /\ bclk_dlayed_s = TRUE)
  /\ tx_state = "TDATA" /\ bitcount_q > 0 =>
       /\ rx_state = "RECV_DATA" /\ ct1_q = bitcount_q - 1
       /\ \A j \in 1 .. ct1_q : rsr_r[8 - ct1_q + j] = frame[j + 1]

(* No byte is unread while one is being read.                               *)
BeingRead == dataread_s => rx_ready_s = FALSE

RxInv == RxTypes /\ InStep /\ BeingRead /\ ReceivedIntact

LEMMA ShiftedWord ==
  ASSUME NEW r \in Word, NEW e \in {0, 1}
  PROVE  /\ Append(Tail(r), e) \in Word
         /\ \A i \in 1 .. 7 : Append(Tail(r), e)[i] = r[i + 1]
         /\ Append(Tail(r), e)[8] = e
<1> DEFINE f == Append(Tail(r), e)
           n == 8
           bits == {0, 1}
<1>1. n \in Nat /\ n > 0 /\ r \in [1 .. n -> bits] /\ e \in bits /\ n - 1 = 7
  BY DEF Word
<1> HIDE DEF n, bits
<1>2. /\ f \in [1 .. n -> bits]
      /\ \A i \in 1 .. n - 1 : f[i] = r[i + 1]
      /\ f[n] = e
  <2>1. n \in Nat /\ n > 0
    BY <1>1
  <2>2. \A S : \A g \in [1 .. n -> S] : \A x \in S :
           /\ Append(Tail(g), x) \in [1 .. n -> S]
           /\ \A i \in 1 .. n - 1 : Append(Tail(g), x)[i] = g[i + 1]
           /\ Append(Tail(g), x)[n] = x
    BY <2>1, ShiftedRegister, Zenon
  <2>3. r \in [1 .. n -> bits] /\ e \in bits
    BY <1>1
  <2>4. \A g \in [1 .. n -> bits] : \A x \in bits :
           /\ Append(Tail(g), x) \in [1 .. n -> bits]
           /\ \A i \in 1 .. n - 1 : Append(Tail(g), x)[i] = g[i + 1]
           /\ Append(Tail(g), x)[n] = x
    BY <2>2, Zenon
  <2> QED
    BY <2>3, <2>4
<1>3. \A i \in 1 .. 7 : f[i] = r[i + 1]
  BY <1>1, <1>2, Zenon
<1> QED
  BY <1>2, <1>3, Zenon DEF Word, n, bits

(* What the receiver sees on the line.                                      *)
LEMMA OnTheLine ==
  ASSUME TxInv
  PROVE  /\ txd_s \in {0, 1}
         /\ tx_state # "TDATA" => txd_s = 1
         /\ tx_state = "TDATA" => /\ bitcount_q \in 0 .. 9
                                  /\ Len(frame) = bitcount_q /\ frame \in Seq({0, 1})
         /\ tx_state = "TDATA" /\ bitcount_q = 0 => txd_s = 0
         /\ tx_state = "TDATA" /\ bitcount_q = 9 => txd_s = 1
<1>1. txd_s \in {0, 1}
  BY DEF TxInv, TxTypes, Shifter, txd_s
<1>2. tx_state # "TDATA" => txd_s = 1
  BY DEF TxInv, OnLine, txd_s
<1>3. tx_state = "TDATA" => /\ bitcount_q \in 0 .. 9
                            /\ Len(frame) = bitcount_q /\ frame \in Seq({0, 1})
  BY DEF TxInv, TxTypes, OnLine
<1>4. tx_state = "TDATA" /\ bitcount_q = 0 => txd_s = 0
  BY DEF TxInv, OnLine, Bit, txd_s
<1>5. tx_state = "TDATA" /\ bitcount_q = 9 => txd_s = 1
  BY DEF TxInv, OnLine, txd_s
<1> QED
  BY <1>1, <1>2, <1>3, <1>4, <1>5

(* The transmitter's part of an edge.                                       *)
LEMMA TxMoves ==
  ASSUME TxInv, FullFrames, Edge
  PROVE  /\ tx_state = "TDATA" /\ ~bclk_rising_s =>
              tx_state' = "TDATA" /\ bitcount_q' = bitcount_q /\ frame' = frame
         /\ tx_state = "TDATA" /\ bclk_rising_s /\ bitcount_q < 9 =>
              /\ tx_state' = "TDATA" /\ bitcount_q' = bitcount_q + 1
              /\ frame' = Append(frame, txd_s)
         /\ tx_state = "TDATA" /\ bclk_rising_s /\ bitcount_q = 9 => tx_state' = "IDLE"
         /\ tx_state # "TDATA" /\ tx_state' = "TDATA" =>
              bclk_rising_s /\ bitcount_q' = 0
<1>1. BitMax = 9
  BY ModeAssumption DEF BitMax, FullFrames
<1>2. Transmit(tx_empty_s, tx_data_s) /\ Observe
  BY DEF Edge, Line
<1>3. ASSUME tx_state = "TDATA", ~bclk_rising_s
      PROVE  tx_state' = "TDATA" /\ bitcount_q' = bitcount_q /\ frame' = frame
  <2>1. UNCHANGED transmitter
    BY <1>2, <1>3 DEF Transmit, LoadAndShift, load_tsr_s, start_s
  <2> QED
    BY <1>2, <1>3, <2>1 DEF transmitter, Observe
<1>4. ASSUME tx_state = "TDATA", bclk_rising_s, bitcount_q < 9
      PROVE  /\ tx_state' = "TDATA" /\ bitcount_q' = bitcount_q + 1
             /\ frame' = Append(frame, txd_s)
  <2>1. tx_state' = "TDATA" /\ bitcount_q' = bitcount_q + 1
    BY <1>1, <1>2, <1>4 DEF Transmit, LoadAndShift, load_tsr_s, start_s, TxWaits
  <2>2. frame = <<>> => bitcount_q = 0
    BY <1>4, OnTheLine
  <2>3. ~(~bclk_rising_s \/ (frame = <<>> /\ txd_s = 1)) /\ Len(frame) < 9
    BY <1>4, <2>2, OnTheLine
  <2> QED
    BY <1>2, <2>1, <2>3 DEF Observe
<1>5. ASSUME tx_state = "TDATA", bclk_rising_s, bitcount_q = 9
      PROVE  tx_state' = "IDLE"
  BY <1>1, <1>2, <1>5 DEF Transmit, LoadAndShift, load_tsr_s, start_s, TxWaits
<1>6. ASSUME tx_state # "TDATA", tx_state' = "TDATA"
      PROVE  bclk_rising_s /\ bitcount_q' = 0
  <2>1. bitcount_q = 0
    BY <1>6 DEF TxInv, OnLine
  <2> QED
    BY <1>2, <1>6, <2>1 DEF Transmit, LoadAndShift, load_tsr_s, start_s, TxWaits, transmitter
<1> QED
  BY <1>3, <1>4, <1>5, <1>6

(* The receiver's part: in step with the transmitter before the edge, and   *)
(* after it.                                                                *)
LEMMA InStepEdge ==
  ASSUME TxInv, FullFrames, RxInv, Edge
  PROVE  InStep' /\ rsr_r' \in Word
<1>1. Receive(TRUE, txd_s, rx_ready_s) /\ bclk_dlayed_s' = baudclk_s
  BY DEF Edge, Line
<1>2. rsr_r \in Word
  BY DEF RxInv, RxTypes
<1>3. CASE tx_state # "TDATA"
  <2>1. rx_state = "IDLE" /\ txd_s = 1
    BY <1>3, OnTheLine DEF RxInv, InStep
  <2>2. rx_state' = "IDLE" /\ rsr_r' = rsr_r
    BY <1>1, <2>1 DEF Receive, Shift, set_ready_s, receiver
  <2>3. tx_state' = "TDATA" => bitcount_q' = 0 /\ bclk_dlayed_s' = TRUE
    BY <1>1, <1>3, TxMoves DEF bclk_rising_s, baudclk_s
  <2> QED
    BY <1>2, <2>2, <2>3 DEF InStep
<1>4. CASE tx_state = "TDATA" /\ bitcount_q = 0
  <2>1. txd_s = 0
    BY <1>4, OnTheLine
  <2>2. CASE bclk_rising_s
    <3>1. rx_state = "START_DETECTED"
      BY <1>4, <2>2 DEF RxInv, InStep, bclk_rising_s
    <3>2. rx_state' = "RECV_DATA" /\ ct1_q' = 0 /\ rsr_r' = rsr_r
      BY <1>1, <2>1, <2>2, <3>1 DEF Receive, Shift, set_ready_s, receiver
    <3>3. tx_state' = "TDATA" /\ bitcount_q' = 1
      BY <1>4, <2>2, TxMoves
    <3> QED
      BY <1>2, <3>2, <3>3 DEF InStep
  <2>3. CASE ~bclk_rising_s
    <3>1. tx_state' = "TDATA" /\ bitcount_q' = 0
      BY <1>4, <2>3, TxMoves
    <3>2. rx_state' = "START_DETECTED" /\ rsr_r' = rsr_r
      <4>1. rx_state \in {"IDLE", "START_DETECTED"}
        BY <1>4 DEF RxInv, InStep
      <4> QED
        BY <1>1, <2>1, <2>3, <4>1 DEF Receive, Shift, set_ready_s, receiver
    <3> QED
      BY <1>2, <3>1, <3>2 DEF InStep
  <2> QED
    BY <2>2, <2>3
<1>5. CASE tx_state = "TDATA" /\ bitcount_q > 0
  <2>1. /\ rx_state = "RECV_DATA" /\ ct1_q = bitcount_q - 1
        /\ \A j \in 1 .. ct1_q : rsr_r[8 - ct1_q + j] = frame[j + 1]
    BY <1>5 DEF RxInv, InStep
  <2>2. /\ bitcount_q \in 1 .. 9 /\ Len(frame) = bitcount_q
        /\ frame \in Seq({0, 1}) /\ txd_s \in {0, 1}
    BY <1>5, OnTheLine
  <2>3. CASE ~bclk_rising_s
    <3>1. rx_state' = rx_state /\ ct1_q' = ct1_q /\ rsr_r' = rsr_r
      BY <1>1, <2>1, <2>3 DEF Receive, Shift, set_ready_s, receiver
    <3>2. tx_state' = "TDATA" /\ bitcount_q' = bitcount_q /\ frame' = frame
      BY <1>5, <2>3, TxMoves
    <3> QED
      BY <1>2, <2>1, <2>2, <3>1, <3>2 DEF InStep
  <2>4. CASE bclk_rising_s /\ bitcount_q = 9
    <3>1. rx_state' = "IDLE" /\ rsr_r' = rsr_r
      BY <1>1, <2>1, <2>4 DEF Receive, Shift, set_ready_s, receiver
    <3>2. tx_state' = "IDLE"
      BY <1>5, <2>4, TxMoves
    <3> QED
      BY <1>2, <3>1, <3>2 DEF InStep
  <2>5. CASE bclk_rising_s /\ bitcount_q < 9
    <3>1. /\ rx_state' = rx_state /\ ct1_q' = ct1_q + 1
          /\ rsr_r' = Append(Tail(rsr_r), txd_s)
      BY <1>1, <2>1, <2>2, <2>5 DEF Receive, Shift, set_ready_s, receiver
    <3>2. /\ tx_state' = "TDATA" /\ bitcount_q' = bitcount_q + 1
          /\ frame' = Append(frame, txd_s)
      BY <1>5, <2>5, TxMoves
    <3>3. /\ rsr_r' \in Word
          /\ \A i \in 1 .. 7 : rsr_r'[i] = rsr_r[i + 1]
          /\ rsr_r'[8] = txd_s
      BY <1>2, <2>2, <3>1, ShiftedWord, Zenon
    <3>4. /\ \A i \in 1 .. bitcount_q : frame'[i] = frame[i]
          /\ frame'[bitcount_q + 1] = txd_s
      BY <2>2, <3>2, AppendProperties
    <3>5. \A j \in 1 .. bitcount_q : rsr_r'[8 - bitcount_q + j] = frame'[j + 1]
      <4> SUFFICES ASSUME NEW j \in 1 .. bitcount_q
                   PROVE  rsr_r'[8 - bitcount_q + j] = frame'[j + 1]
        OBVIOUS
      <4>1. CASE j = bitcount_q
        BY <2>2, <3>3, <3>4, <4>1
      <4>2. CASE j \in 1 .. bitcount_q - 1
        <5>1. /\ 8 - bitcount_q + j \in 1 .. 7 /\ j + 1 \in 1 .. bitcount_q
              /\ (8 - bitcount_q + j) + 1 = 8 - ct1_q + j /\ j \in 1 .. ct1_q
          BY <2>1, <2>2, <2>5, <4>2
        <5>2. rsr_r'[8 - bitcount_q + j] = rsr_r[8 - ct1_q + j]
          BY <3>3, <5>1, Zenon
        <5>3. frame'[j + 1] = frame[j + 1]
          BY <3>4, <5>1, Zenon
        <5> QED
          BY <2>1, <5>1, <5>2, <5>3, Zenon
      <4> QED
        BY <2>2, <4>1, <4>2
    <3>6. /\ ct1_q' = bitcount_q' - 1 /\ ct1_q' = bitcount_q
          /\ rx_state' = "RECV_DATA" /\ bitcount_q' # 0
      BY <2>1, <2>2, <3>1, <3>2
    <3>7. \A j \in 1 .. ct1_q' : rsr_r'[8 - ct1_q' + j] = frame'[j + 1]
      BY <3>5, <3>6, Zenon
    <3> QED
      BY <3>2, <3>3, <3>6, <3>7, Zenon DEF InStep
  <2> QED
    BY <2>2, <2>3, <2>4, <2>5
<1> QED
  BY <1>3, <1>4, <1>5, OnTheLine

(* At the end of a frame the receiver's register holds its bits.            *)
LEMMA FrameReceived ==
  ASSUME TxInv, RxInv, set_ready_s
  PROVE  rsr_r = SubSeq(frame, 2, 9) /\ txd_s = 1
<1>1. tx_state = "TDATA" /\ bitcount_q = 9 /\ ct1_q = 8
  <2>1. rx_state = "RECV_DATA" /\ ct1_q = 8
    BY DEF set_ready_s
  <2>2. tx_state = "TDATA" /\ bitcount_q # 0
    BY <2>1 DEF RxInv, InStep
  <2>3. bitcount_q \in 1 .. 9
    BY <2>2, OnTheLine
  <2> QED
    BY <2>1, <2>2, <2>3 DEF RxInv, InStep
<1>2. Len(frame) = 9 /\ frame \in Seq({0, 1})
  BY <1>1, OnTheLine
<1>3. \A j \in 1 .. 8 : rsr_r[j] = frame[j + 1]
  <2>1. \A j \in 1 .. 8 : rsr_r[8 - 8 + j] = frame[j + 1]
    BY <1>1 DEF RxInv, InStep
  <2> QED
    BY <2>1
<1>4. rsr_r \in Seq({0, 1}) /\ Len(rsr_r) = 8
  BY FixedLength DEF RxInv, RxTypes, Word
<1>5. /\ SubSeq(frame, 2, 9) \in Seq({0, 1}) /\ Len(SubSeq(frame, 2, 9)) = 8
      /\ \A j \in 1 .. 8 : SubSeq(frame, 2, 9)[j] = frame[j + 1]
  BY <1>2, FrameByte
<1>6. \A j \in 1 .. 8 : rsr_r[j] = SubSeq(frame, 2, 9)[j]
  BY <1>3, <1>5
<1> QED
  BY <1>1, <1>4, <1>5, <1>6, SeqEqual, OnTheLine

(* The byte that waits for the processor, and the bytes with one more.      *)
LEMMA Unread ==
  ASSUME NEW g \in Seq(Word), NEW d \in Word
  PROVE  Append(g, d) = g \o <<d>> /\ Append(g, d) \in Seq(Word) /\ g \o <<>> = g
  BY AppendIsConcat, AppendProperties, ConcatEmptySeq

LEMMA RxEdge ==
  ASSUME TxInv, FullFrames, RxInv, Edge
  PROVE  RxInv'
<1>1. InStep' /\ rsr_r' \in Word
  BY InStepEdge
<1>2. /\ rdr_o \in Word /\ rx_ready_s \in BOOLEAN /\ got \in Seq(Word)
      /\ kept \in Seq(Word) /\ rsr_r \in Word
      /\ kept = got \o (IF rx_ready_s \/ dataread_s THEN <<rdr_o>> ELSE <<>>)
      /\ dataread_s => rx_ready_s = FALSE
  BY DEF RxInv, RxTypes, ReceivedIntact, BeingRead
<1>3. /\ got' = got /\ access' = access
      /\ rx_ready_s' = (~dataread_s /\ (set_ready_s \/ rx_ready_s))
      /\ kept' = IF set_ready_s THEN Keep(SubSeq(frame, 2, 9)) ELSE kept
      /\ Receive(TRUE, txd_s, rx_ready_s)
  BY DEF Edge, Line, Tally
<1>4. (dataread_s' <=> dataread_s) /\ BeingRead'
  BY <1>3 DEF dataread_s, BeingRead
<1>5. CASE set_ready_s /\ rx_ready_s = FALSE
  <2>1. rdr_o' = rsr_r
    BY <1>3, <1>5, FrameReceived DEF Receive, Shift, set_ready_s, Loaded
  <2>2. kept' = got \o <<rsr_r>>
    <3>1. CASE dataread_s
      <4>1. kept = Append(got, rdr_o) /\ kept' = Replaced(kept, rsr_r)
        BY <1>2, <1>3, <1>5, <3>1, Unread, FrameReceived DEF Keep
      <4>2. Len(kept) = Len(got) + 1 /\ Len(kept) > 0
            /\ \A i \in 1 .. Len(got) : kept[i] = got[i]
        BY <1>2, <4>1
      <4>3. /\ kept' \in Seq(Word) /\ Len(kept') = Len(got) + 1
            /\ \A i \in 1 .. Len(got) : kept'[i] = got[i]
            /\ kept'[Len(got) + 1] = rsr_r
        <5>1. /\ Replaced(kept, rsr_r) \in Seq(Word)
              /\ Len(Replaced(kept, rsr_r)) = Len(kept)
              /\ \A i \in 1 .. Len(kept) - 1 : Replaced(kept, rsr_r)[i] = kept[i]
              /\ Replaced(kept, rsr_r)[Len(kept)] = rsr_r
          <6>1. kept \in Seq(Word) /\ rsr_r \in Word /\ Len(kept) > 0
            BY <1>2, <4>2
          <6> QED
            BY <6>1, ReplacedLast, ZenonT(40)
        <5>2. Len(got) \in Nat /\ Len(kept) - 1 = Len(got)
          BY <1>2, <4>2
        <5> QED
          BY <4>1, <4>2, <5>1, <5>2
      <4>4. kept' = Append(got, rsr_r)
        <5>1. /\ Append(got, rsr_r) \in Seq(Word)
              /\ Len(Append(got, rsr_r)) = Len(got) + 1
              /\ \A i \in 1 .. Len(got) : Append(got, rsr_r)[i] = got[i]
              /\ Append(got, rsr_r)[Len(got) + 1] = rsr_r
          BY <1>2, AppendProperties
        <5>2. \A i \in 1 .. Len(got) + 1 : kept'[i] = Append(got, rsr_r)[i]
          BY <1>2, <4>3, <5>1
        <5> QED
          BY <4>3, <5>1, <5>2, SeqEqual
      <4> QED
        BY <1>2, <4>4, Unread
    <3>2. CASE ~dataread_s
      <4>1. kept = got
        BY <1>2, <1>5, <3>2, Unread
      <4>2. kept' = Append(got, rsr_r)
        BY <1>3, <1>5, <3>2, <4>1, FrameReceived DEF Keep
      <4> QED
        BY <1>2, <4>2, Unread
    <3> QED
      BY <3>1, <3>2
  <2>3. rx_ready_s' \/ dataread_s'
    BY <1>3, <1>4, <1>5
  <2>4. kept' \in Seq(Word)
    BY <1>2, <2>2, Unread, Zenon
  <2>5. ReceivedIntact'
    BY <1>3, <2>1, <2>2, <2>3 DEF ReceivedIntact
  <2> QED
    BY <1>1, <1>2, <1>3, <1>4, <2>1, <2>4, <2>5 DEF RxInv, RxTypes
<1>6. CASE ~(set_ready_s /\ rx_ready_s = FALSE)
  <2>1. rx_ready_s' = rx_ready_s /\ kept' = kept
    BY <1>2, <1>3, <1>6 DEF Keep
  <2>2. rdr_o' = rdr_o
    BY <1>2, <1>3, <1>6 DEF Receive, Shift, set_ready_s, Loaded, receiver
  <2> QED
    <3>1. RxTypes'
      BY <1>1, <1>2, <1>3, <2>1, <2>2 DEF RxTypes
    <3>2. ReceivedIntact'
      <4>1. rx_ready_s' = rx_ready_s /\ kept' = kept /\ got' = got /\ rdr_o' = rdr_o
        BY <1>3, <2>1, <2>2
      <4>2. kept = got \o (IF rx_ready_s \/ dataread_s THEN <<rdr_o>> ELSE <<>>)
        BY <1>2
      <4>3. kept' = got' \o (IF rx_ready_s' \/ dataread_s THEN <<rdr_o'>> ELSE <<>>)
        BY <4>1, <4>2, Zenon
      <4> QED
        BY <1>4, <4>3 DEF ReceivedIntact
    <3> QED
      BY <1>1, <1>4, <3>1, <3>2 DEF RxInv
<1> QED
  BY <1>2, <1>5, <1>6

LEMMA RxStep == TxInv /\ FullFrames /\ RxInv /\ [Next]_vars => RxInv'
<1> SUFFICES ASSUME TxInv, FullFrames, RxInv, [Next]_vars PROVE RxInv'
  OBVIOUS
<1>1. CASE Edge
  BY <1>1, RxEdge
<1>2. CASE ReadBegins
  <2>1. /\ access' = "read" /\ rx_ready_s = TRUE /\ rx_ready_s' = FALSE
        /\ UNCHANGED <<line, got, kept>>
    BY <1>2 DEF ReadBegins, RxInv, RxTypes, history
  <2>2. RxTypes' /\ ReceivedIntact' /\ BeingRead'
    BY <2>1 DEF RxInv, RxTypes, ReceivedIntact, BeingRead, dataread_s, line, receiver
  <2>3. InStep'
    BY <2>1 DEF RxInv, InStep, line, transmitter, receiver
  <2> QED
    BY <2>2, <2>3 DEF RxInv
<1>3. CASE ReadEnds
  <2>1. /\ dataread_s /\ access' = "none" /\ got' = Append(got, rdr_o)
        /\ UNCHANGED <<line, kept, rx_ready_s>>
    BY <1>3 DEF ReadEnds, history
  <2>2. got \in Seq(Word) /\ rdr_o \in Word /\ kept = got \o <<rdr_o>>
    BY <2>1 DEF RxInv, RxTypes, ReceivedIntact
  <2>3. got' = kept /\ got' \in Seq(Word) /\ got' \o <<>> = got'
    BY <2>1, <2>2, Unread, ConcatEmptySeq
  <2>4. rx_ready_s' = FALSE
    BY <2>1 DEF RxInv, BeingRead
  <2>5. RxTypes' /\ ReceivedIntact' /\ BeingRead'
    BY <2>1, <2>3, <2>4 DEF RxInv, RxTypes, ReceivedIntact, BeingRead, dataread_s,
                            line, receiver
  <2>6. InStep'
    BY <2>1 DEF RxInv, InStep, line, transmitter, receiver
  <2> QED
    BY <2>5, <2>6 DEF RxInv
<1>4. CASE \/ \E flag \in Flags : Poll(flag)
           \/ \E d \in Bytes : WriteBegins(d)
           \/ WriteEnds \/ ResetErrors \/ UNCHANGED vars
  <2>1. /\ UNCHANGED <<line, rx_ready_s, got, kept>>
        /\ access' = "read" <=> access = "read"
    BY <1>4 DEF Poll, WriteBegins, WriteEnds, ResetErrors, vars, bus, history,
                datawrite_s
  <2>2. RxTypes' /\ ReceivedIntact' /\ BeingRead'
    BY <2>1 DEF RxInv, RxTypes, ReceivedIntact, BeingRead, dataread_s, line, receiver
  <2>3. InStep'
    BY <2>1 DEF RxInv, InStep, line, transmitter, receiver
  <2> QED
    BY <2>2, <2>3 DEF RxInv
<1> QED
  BY <1>1, <1>2, <1>3, <1>4 DEF Next

(* What the processor reads is what was received, no byte twice, changed or *)
(* out of order, whenever its strobes begin and end and however many bytes *)
(* it leaves unread; a byte being read when the next one ends is lost to   *)
(* it: for every bit clock and every set of bytes, with frames of ten bits. *)
THEOREM ReceivedAsKept ==
  ASSUME FullFrames
  PROVE  Spec => []ReceivedIntact
<1>1. Init => RxInv
  <2> SUFFICES ASSUME Init PROVE RxInv
    OBVIOUS
  <2>1. /\ tx_state = "IDLE" /\ rx_state = "IDLE"
        /\ rdr_o = [i \in 1 .. 8 |-> 1]
        /\ rsr_r \in {[i \in 1 .. 8 |-> b] : b \in {0, 1}}
        /\ got = <<>> /\ kept = <<>> /\ rx_ready_s = FALSE /\ access = "none"
    BY DEF Init, ResetLine
  <2>2. rsr_r \in Word /\ rdr_o \in Word
    BY <2>1 DEF Word
  <2>3. RxTypes
    <3>1. <<>> \in Seq(Word)
      BY EmptySeq
    <3> QED
      BY <2>1, <2>2, <3>1 DEF RxTypes
  <2>6. InStep
    BY <2>1 DEF InStep
  <2>4. got \in Seq(Word) /\ got \o <<>> = got
    BY <2>1, ConcatEmptySeq
  <2>5. ReceivedIntact /\ BeingRead
    BY <2>1, <2>4 DEF ReceivedIntact, BeingRead, dataread_s
  <2> QED
    BY <2>3, <2>5, <2>6 DEF RxInv
<1>2. RxInv => ReceivedIntact
  BY DEF RxInv
<1>3. TxInv /\ RxInv /\ [Next]_vars => RxInv'
  BY RxStep
<1> QED
  BY <1>1, <1>2, <1>3, TxInvariant, PTL DEF Spec
=============================================================================
