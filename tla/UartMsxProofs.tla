---------------------------- MODULE UartMsxProofs ----------------------------
(***************************************************************************)
(* Proofs about UartMsx: the bytes go out once and in order although the   *)
(* flag that says so is set on one clock for the other, for every bit      *)
(* clock, every ratio of the clocks, set of bytes and number of bytes.     *)
(***************************************************************************)
EXTENDS UartMsx, SequenceTheorems, TLAPS

-----------------------------------------------------------------------------
(* Frames of ten bits.                                                     *)
FullFrames == CharLen + StopBits = 4

Shifter == [1 .. 9 -> {0, 1}]

(* The byte in the transmitter is the next that has not been on the line,  *)
(* and its frame begins with a 0.                                          *)
Bit(i) == IF i = 1 THEN 0 ELSE written[Len(sent) + 1][i - 1]

TxTypes ==
  /\ tx_state \in {"IDLE", "SYNCH", "TDATA"}
  /\ tsr_q \in Shifter /\ bitcount_q \in 0 .. 9
  /\ written \in Seq(Bytes) /\ sent \in Seq(Bytes) /\ frame \in Seq({0, 1})
  /\ tx_data_s \in Bytes /\ tx_empty_s \in BOOLEAN /\ last_cs2_s \in BOOLEAN
  /\ permit \in BOOLEAN /\ edges \in Nat

(* The bytes due are those sent, the one in the shift register, and the    *)
(* one in the data register, which is there from the beginning of the      *)
(* strobe, before the flag falls, until the shift register takes it,       *)
(* before the flag rises: until a bus edge has seen start_s the flag is    *)
(* still down for the byte in the shift register.                          *)
Settling == tx_state = "SYNCH" /\ (bclk_rising_s => edges = 0)
Shifting == IF tx_state = "IDLE" THEN 0 ELSE 1
Behind == IF last_cs2_s \/ (~tx_empty_s /\ ~Settling) THEN 1 ELSE 0

Account ==
  /\ Len(written) = Len(sent) + Shifting + Behind
  /\ \A i \in 1 .. Len(sent) : sent[i] = written[i]
  /\ Behind = 1 => written[Len(written)] = tx_data_s

(* Nothing is handed over while the flag is down.                          *)
Handshake ==
  /\ tx_empty_s = FALSE => last_cs2_s = FALSE /\ permit = FALSE
  /\ last_cs2_s = TRUE => permit = FALSE
  /\ Settling => tx_empty_s = FALSE

(* The bits of the frame that are on the line, and those still to come.    *)
OnLine ==
  /\ tx_state # "TDATA" => frame = <<>> /\ tsr_q[1] = 1 /\ bitcount_q = 0
  /\ tx_state = "SYNCH" => \A i \in 2 .. 9 : tsr_q[i] = Bit(i)
  /\ tx_state = "TDATA" =>
       /\ Len(frame) = bitcount_q
       /\ \A i \in 1 .. bitcount_q : frame[i] = Bit(i)
       /\ \A i \in 1 .. 9 :
            tsr_q[i] = IF bitcount_q + i <= 9 THEN Bit(bitcount_q + i) ELSE 1

TxInv == TxTypes /\ Account /\ Handshake /\ OnLine

(* A function on 1 .. n and a sequence of length n are one thing.           *)
LEMMA FixedLength ==
  ASSUME NEW n \in Nat, NEW S, NEW f \in [1 .. n -> S]
  PROVE  f \in Seq(S) /\ Len(f) = n
  BY SMT

LEMMA OfLength ==
  ASSUME NEW S, NEW s \in Seq(S)
  PROVE  s \in [1 .. Len(s) -> S]
  BY LenProperties, Zenon

(* The bits of a frame between its start and its stop bit.                  *)
LEMMA FrameByte ==
  ASSUME NEW S, NEW s \in Seq(S), Len(s) = 9
  PROVE  /\ SubSeq(s, 2, 9) \in Seq(S) /\ Len(SubSeq(s, 2, 9)) = 8
         /\ \A i \in 1 .. 8 : SubSeq(s, 2, 9)[i] = s[i + 1]
<1>1. \A i \in 2 .. 9 : s[i] \in S
  <2>1. \A i \in 2 .. 9 : i \in 1 .. Len(s)
    OBVIOUS
  <2> QED
    BY <2>1, ElementOfSeq, Zenon
<1>2. SubSeq(s, 2, 9) \in Seq(S)
  BY <1>1, SubSeqProperties
<1>3. Len(SubSeq(s, 2, 9)) = 8
  BY <1>1, SubSeqProperties
<1>4. \A i \in 1 .. 8 : SubSeq(s, 2, 9)[i] = s[i + 1]
  BY <1>1, SubSeqProperties
<1> QED
  BY <1>2, <1>3, <1>4

(* The register after one shift: every place holds what was behind it.      *)
LEMMA ShiftedRegister ==
  ASSUME NEW n \in Nat, n > 0, NEW S, NEW f \in [1 .. n -> S], NEW e \in S
  PROVE  /\ Append(Tail(f), e) \in [1 .. n -> S]
         /\ \A i \in 1 .. n - 1 : Append(Tail(f), e)[i] = f[i + 1]
         /\ Append(Tail(f), e)[n] = e
<1>1. f \in Seq(S) /\ Len(f) = n
  BY FixedLength
<1>2. /\ Tail(f) \in Seq(S) /\ Len(Tail(f)) = n - 1
      /\ \A i \in 1 .. n - 1 : Tail(f)[i] = f[i + 1]
  BY <1>1
<1>3. /\ Append(Tail(f), e) \in Seq(S) /\ Len(Append(Tail(f), e)) = n
      /\ \A i \in 1 .. n - 1 : Append(Tail(f), e)[i] = Tail(f)[i]
      /\ Append(Tail(f), e)[n] = e
  BY <1>2
<1>4. Append(Tail(f), e) \in [1 .. n -> S]
  BY <1>3, OfLength, Zenon
<1> QED
  BY <1>2, <1>3, <1>4

(* The transmitter's register after a shift.                                 *)
LEMMA ShiftedShifter ==
  ASSUME NEW f \in Shifter
  PROVE  /\ Append(Tail(f), 1) \in Shifter
         /\ \A i \in 1 .. 8 : Append(Tail(f), 1)[i] = f[i + 1]
         /\ Append(Tail(f), 1)[9] = 1
<1> DEFINE n == 9
           e == 1
           S == {0, 1}
<1>1. n \in Nat /\ n > 0 /\ n - 1 = 8 /\ e \in S /\ f \in [1 .. n -> S]
  BY DEF Shifter
<1> HIDE DEF n, e, S
<1>2. /\ Append(Tail(f), e) \in [1 .. n -> S]
      /\ \A i \in 1 .. n - 1 : Append(Tail(f), e)[i] = f[i + 1]
      /\ Append(Tail(f), e)[n] = e
  <2>1. n \in Nat /\ n > 0
    BY <1>1
  <2>2. \A B : \A h \in [1 .. n -> B] : \A x \in B :
           /\ Append(Tail(h), x) \in [1 .. n -> B]
           /\ \A i \in 1 .. n - 1 : Append(Tail(h), x)[i] = h[i + 1]
           /\ Append(Tail(h), x)[n] = x
    BY <2>1, ShiftedRegister, Zenon
  <2>3. f \in [1 .. n -> S] /\ e \in S
    BY <1>1
  <2>4. \A h \in [1 .. n -> S] : \A x \in S :
           /\ Append(Tail(h), x) \in [1 .. n -> S]
           /\ \A i \in 1 .. n - 1 : Append(Tail(h), x)[i] = h[i + 1]
           /\ Append(Tail(h), x)[n] = x
    BY <2>2, Zenon
  <2> QED
    BY <2>3, <2>4
<1> DEFINE g == Append(Tail(f), e)
<1> HIDE DEF g
<1>3. g \in [1 .. n -> S] /\ (\A i \in 1 .. n - 1 : g[i] = f[i + 1]) /\ g[n] = e
  BY <1>2 DEF g
<1>4. g \in Shifter /\ (\A i \in 1 .. 8 : g[i] = f[i + 1]) /\ g[9] = 1
  BY <1>3 DEF n, e, S, Shifter
<1> QED
  BY <1>4 DEF g, e

(* The register after a load.                                               *)
LEMMA LoadedRegister ==
  ASSUME NEW d \in Bytes
  PROVE  /\ << 1 >> \o d \in Shifter
         /\ (<< 1 >> \o d)[1] = 1
         /\ \A i \in 2 .. 9 : (<< 1 >> \o d)[i] = d[i - 1]
<1> DEFINE one == << 1 >>
<1>1. d \in Seq({0, 1}) /\ Len(d) = 8
  BY BytesAssumption, FixedLength
<1>2. one \in Seq({0, 1}) /\ Len(one) = 1 /\ one[1] = 1
  OBVIOUS
<1> HIDE DEF one
<1>3. /\ one \o d \in Seq({0, 1}) /\ Len(one \o d) = Len(one) + Len(d)
      /\ \A i \in 1 .. Len(one) + Len(d) :
           (one \o d)[i] = IF i <= Len(one) THEN one[i] ELSE d[i - Len(one)]
  BY <1>1, <1>2, ConcatProperties, Zenon
<1>4. Len(one) + Len(d) = 9 /\ Len(one \o d) = 9
  BY <1>1, <1>2, <1>3
<1>5. one \o d \in Shifter
  BY <1>3, <1>4, OfLength, Zenon DEF Shifter
<1> DEFINE r == one \o d
<1>6. \A i \in 1 .. Len(one) + Len(d) :
        r[i] = IF i <= Len(one) THEN one[i] ELSE d[i - Len(one)]
  BY <1>3, Zenon
<1> HIDE DEF r
<1>7. \A i \in 1 .. 9 : r[i] = IF i <= 1 THEN one[i] ELSE d[i - 1]
  BY <1>1, <1>2, <1>6
<1>8. r[1] = 1 /\ \A i \in 2 .. 9 : r[i] = d[i - 1]
  BY <1>2, <1>7
<1> QED
  BY <1>5, <1>8, Zenon DEF one, r

-----------------------------------------------------------------------------
(* What a serial edge does to the transmitter, one lemma per branch of its  *)
(* process; the bus side does not move.                                     *)
LEMMA EdgeCommon ==
  ASSUME TxInv, SerialEdge
  PROVE  /\ written' = written /\ tx_data_s' = tx_data_s
         /\ tx_empty_s' = tx_empty_s /\ last_cs2_s' = last_cs2_s
         /\ edges' = 0 /\ edges > 0 /\ permit' = permit
         /\ Settling => tx_state = "SYNCH" /\ ~bclk_rising_s
         /\ tx_state = "SYNCH" /\ ~bclk_rising_s => Settling
         /\ Settling' <=> tx_state' = "SYNCH"
<1>1. edges' = 0 /\ edges > 0 /\ UNCHANGED <<written, txside, permit>>
  BY DEF SerialEdge
<1> QED
  BY <1>1 DEF txside, Settling

(* The handshake does not depend on how the transmitter moves, as long as   *)
(* it goes to SYNCH for a byte in the data register.                        *)
LEMMA EdgeHandshake ==
  ASSUME TxInv, SerialEdge,
         tx_state' = "SYNCH" => tx_empty_s = FALSE
  PROVE  Handshake'
<1>1. /\ tx_empty_s' = tx_empty_s /\ last_cs2_s' = last_cs2_s /\ permit' = permit
      /\ Settling' => tx_state' = "SYNCH"
  BY EdgeCommon
<1> QED
  BY <1>1 DEF TxInv, Handshake

(* Nothing moves when the transmitter waits: its line is high then, or the  *)
(* bit is not over.                                                         *)
LEMMA TxWaiting ==
  ASSUME TxInv, FullFrames, SerialEdge, TxWaits(tx_empty_s), UNCHANGED transmitter
  PROVE  TxInv'
<1>1. /\ tx_state' = tx_state /\ tsr_q' = tsr_q /\ bitcount_q' = bitcount_q
  BY DEF transmitter
<1>2. tx_empty_s' = tx_empty_s /\ last_cs2_s' = last_cs2_s
  BY EdgeCommon
<1>3. sent' = sent /\ frame' = frame
  <2>1. CASE ~bclk_rising_s
    BY <2>1 DEF SerialEdge, Line, Observe
  <2>2. CASE bclk_rising_s
    <3>1. tx_state = "IDLE"
      BY <2>2 DEF TxWaits
    <3>2. frame = <<>> /\ txd_s = 1
      BY <3>1 DEF TxInv, OnLine, txd_s
    <3> QED
      BY <3>2 DEF SerialEdge, Line, Observe
  <2> QED
    BY <2>1, <2>2
<1>4. TxTypes'
  BY <1>1, <1>2, <1>3, EdgeCommon DEF TxInv, TxTypes
<1>5. Account'
  <2>1. Behind' = Behind /\ Shifting' = Shifting
    <3>1. Settling' <=> Settling
      BY <1>1, EdgeCommon DEF TxWaits
    <3> QED
      BY <1>1, <1>2, <3>1 DEF Behind, Shifting
  <2> QED
    BY <1>3, <2>1, EdgeCommon DEF TxInv, Account
<1>6. OnLine'
  BY <1>1, <1>2, <1>3, EdgeCommon DEF TxInv, OnLine, Bit
<1>20. Handshake'
  <2>1. tx_state' = "SYNCH" => tx_empty_s = FALSE
    BY <1>1, EdgeCommon DEF TxWaits, TxInv, Handshake
  <2> QED
    BY <2>1, EdgeHandshake
<1> QED
  BY <1>4, <1>5, <1>6, <1>20 DEF TxInv

(* A byte goes from the data register to the shift register, behind a 1.    *)
LEMMA TxLoads ==
  ASSUME TxInv, FullFrames, SerialEdge,
         load_tsr_s(tx_empty_s), tsr_q' = << 1 >> \o tx_data_s,
         tx_state' = "SYNCH", bitcount_q' = bitcount_q
  PROVE  TxInv'
<1>1. /\ tx_state = "IDLE" /\ tx_empty_s = FALSE /\ tx_empty_s' = FALSE
      /\ last_cs2_s = FALSE /\ last_cs2_s' = FALSE
  BY EdgeCommon DEF load_tsr_s, TxInv, TxTypes, Handshake
<1>2. frame = <<>> /\ tsr_q[1] = 1 /\ bitcount_q = 0
  BY <1>1 DEF TxInv, OnLine
<1>3. sent' = sent /\ frame' = <<>>
  BY <1>2 DEF SerialEdge, Line, Observe, txd_s
<1>4. /\ Len(written) = Len(sent) + 1
      /\ written[Len(sent) + 1] = tx_data_s
  <2>1. Shifting = 0 /\ Behind = 1
    BY <1>1 DEF Shifting, Behind, Settling
  <2> QED
    BY <2>1 DEF TxInv, TxTypes, Account
<1>5. /\ tsr_q' \in Shifter /\ tsr_q'[1] = 1
      /\ \A i \in 2 .. 9 : tsr_q'[i] = tx_data_s[i - 1]
  BY LoadedRegister DEF TxInv, TxTypes
<1>6. TxTypes'
  BY <1>1, <1>2, <1>3, <1>5, EdgeCommon DEF TxInv, TxTypes
<1>7. Account'
  <2>1. Shifting' = 1 /\ Behind' = 0
    BY <1>1, EdgeCommon DEF Shifting, Behind
  <2> QED
    BY <1>3, <1>4, <2>1, EdgeCommon DEF TxInv, TxTypes, Account
<1>8. OnLine'
  <2>1. \A i \in 2 .. 9 : Bit(i)' = tx_data_s[i - 1]
    BY <1>3, <1>4, EdgeCommon DEF Bit
  <2>2. bitcount_q' = 0
    BY <1>2
  <2> QED
    BY <1>3, <1>5, <2>1, <2>2 DEF OnLine
<1>20. Handshake'
  BY <1>1, EdgeHandshake
<1> QED
  BY <1>6, <1>7, <1>8, <1>20 DEF TxInv

(* The start bit goes on the line.                                          *)
LEMMA TxStarts ==
  ASSUME TxInv, FullFrames, SerialEdge,
         start_s, tsr_q' = [tsr_q EXCEPT ![1] = 0],
         tx_state' = "TDATA", bitcount_q' = bitcount_q
  PROVE  TxInv'
<1>1. /\ tx_state = "SYNCH" /\ tx_empty_s' = tx_empty_s
      /\ last_cs2_s' = last_cs2_s /\ ~Settling /\ ~Settling'
  BY EdgeCommon DEF start_s
<1>2. /\ frame = <<>> /\ tsr_q[1] = 1 /\ bitcount_q = 0
      /\ \A i \in 2 .. 9 : tsr_q[i] = Bit(i)
  BY <1>1 DEF TxInv, OnLine
<1>3. sent' = sent /\ frame' = <<>>
  BY <1>2 DEF SerialEdge, Line, Observe, txd_s
<1>4. /\ tsr_q' \in Shifter /\ tsr_q'[1] = 0
      /\ \A i \in 2 .. 9 : tsr_q'[i] = tsr_q[i]
  BY DEF TxInv, TxTypes, Shifter
<1>5. TxTypes'
  BY <1>1, <1>2, <1>3, <1>4, EdgeCommon DEF TxInv, TxTypes
<1>6. Account'
  <2>1. Behind' = Behind /\ Shifting' = Shifting
    BY <1>1 DEF Behind, Shifting
  <2> QED
    BY <1>3, <2>1, EdgeCommon DEF TxInv, Account
<1>7. OnLine'
  BY <1>2, <1>3, <1>4, EdgeCommon DEF OnLine, Bit
<1>20. Handshake'
  BY EdgeHandshake
<1> QED
  BY <1>5, <1>6, <1>7, <1>20 DEF TxInv

(* A bit is over: the next one goes on the line.                            *)
LEMMA TxShifts ==
  ASSUME TxInv, FullFrames, SerialEdge,
         tx_state = "TDATA", bclk_rising_s, bitcount_q # BitMax,
         tsr_q' = Append(Tail(tsr_q), 1),
         bitcount_q' = bitcount_q + 1, tx_state' = tx_state
  PROVE  TxInv'
<1>1. tx_empty_s' = tx_empty_s /\ last_cs2_s' = last_cs2_s
  BY EdgeCommon
<1>2. BitMax = 9
  BY ModeAssumption DEF BitMax, FullFrames
<1>3. bitcount_q \in 0 .. 8
  BY <1>2 DEF TxInv, TxTypes
<1>4. /\ Len(frame) = bitcount_q /\ frame \in Seq({0, 1})
      /\ \A i \in 1 .. bitcount_q : frame[i] = Bit(i)
      /\ \A i \in 1 .. 9 :
           tsr_q[i] = IF bitcount_q + i <= 9 THEN Bit(bitcount_q + i) ELSE 1
  BY DEF TxInv, TxTypes, OnLine
<1>5. tsr_q[1] = Bit(bitcount_q + 1) /\ tsr_q[1] \in {0, 1}
  BY <1>3, <1>4 DEF TxInv, TxTypes, Shifter
<1>6. sent' = sent /\ frame' = Append(frame, tsr_q[1])
  <2>1. bitcount_q = 0 => tsr_q[1] = 0
    BY <1>5 DEF Bit
  <2>2. frame = <<>> => bitcount_q = 0
    BY <1>4
  <2>3. ~(~bclk_rising_s \/ (frame = <<>> /\ txd_s = 1)) /\ Len(frame) < 9
    BY <1>3, <1>4, <2>1, <2>2 DEF txd_s
  <2> QED
    BY <2>3 DEF SerialEdge, Line, Observe, txd_s
<1>7. /\ frame' \in Seq({0, 1}) /\ Len(frame') = bitcount_q + 1
      /\ \A i \in 1 .. bitcount_q : frame'[i] = frame[i]
      /\ frame'[bitcount_q + 1] = tsr_q[1]
  <2> DEFINE f == Append(frame, tsr_q[1])
  <2>3. frame \in Seq({0, 1}) /\ tsr_q[1] \in {0, 1}
    BY <1>4, <1>5, Zenon
  <2>4. /\ f \in Seq({0, 1}) /\ Len(f) = Len(frame) + 1
        /\ \A i \in 1 .. Len(frame) : f[i] = frame[i]
        /\ f[Len(frame) + 1] = tsr_q[1]
    BY <2>3, AppendProperties
  <2>5. frame' = f
    BY <1>6, Zenon
  <2> HIDE DEF f
  <2>1. /\ frame' \in Seq({0, 1}) /\ Len(frame') = Len(frame) + 1
        /\ \A i \in 1 .. Len(frame) : frame'[i] = frame[i]
        /\ frame'[Len(frame) + 1] = tsr_q[1]
    BY <2>4, <2>5, Zenon
  <2>2. Len(frame) = bitcount_q
    BY <1>4
  <2> QED
    BY <2>1, <2>2, Zenon
<1>8. /\ tsr_q' \in Shifter
      /\ \A i \in 1 .. 8 : tsr_q'[i] = tsr_q[i + 1]
      /\ tsr_q'[9] = 1
  <2> DEFINE r == tsr_q
  <2>1. r \in Shifter
    BY DEF TxInv, TxTypes
  <2> HIDE DEF r
  <2>2. /\ Append(Tail(r), 1) \in Shifter
        /\ \A i \in 1 .. 8 : Append(Tail(r), 1)[i] = r[i + 1]
        /\ Append(Tail(r), 1)[9] = 1
    BY <2>1, ShiftedShifter
  <2>3. tsr_q' = Append(Tail(r), 1)
    BY DEF r
  <2>4. /\ tsr_q' \in Shifter
        /\ \A i \in 1 .. 8 : tsr_q'[i] = r[i + 1]
        /\ tsr_q'[9] = 1
    BY <2>2, <2>3, Zenon
  <2> QED
    BY <2>4 DEF r
<1>9. TxTypes'
  <2>1. bitcount_q' \in 0 .. 9 /\ tx_state' \in {"IDLE", "SYNCH", "TDATA"}
    BY <1>3
  <2> QED
    <3>1. /\ written' = written /\ tx_data_s' = tx_data_s /\ permit' = permit
          /\ edges' \in Nat
      BY EdgeCommon
    <3>2. sent' = sent /\ frame' \in Seq({0, 1}) /\ tsr_q' \in Shifter
      BY <1>6, <1>7, <1>8
    <3> QED
      BY <1>1, <2>1, <3>1, <3>2 DEF TxInv, TxTypes
<1>10. Account'
  <2>1. Behind' = Behind /\ Shifting' = Shifting
    BY <1>1, EdgeCommon DEF Behind, Shifting
  <2> QED
    BY <1>6, <2>1, EdgeCommon DEF TxInv, Account
<1>11. OnLine'
  <2>1. \A i \in Int : Bit(i)' = Bit(i)
    BY <1>6, EdgeCommon DEF Bit
  <2>2. tx_state' = "TDATA" /\ Len(frame') = bitcount_q'
    BY <1>7
  <2>3. \A i \in 1 .. bitcount_q' : frame'[i] = Bit(i)
    BY <1>3, <1>4, <1>5, <1>7
  <2>4. \A i \in 1 .. 9 :
          tsr_q'[i] = IF bitcount_q + 1 + i <= 9 THEN Bit(bitcount_q + 1 + i) ELSE 1
    <3> DEFINE k == bitcount_q
               r == tsr_q
               s == tsr_q'
    <3>1. /\ k \in 0 .. 8
          /\ \A i \in 1 .. 9 : r[i] = IF k + i <= 9 THEN Bit(k + i) ELSE 1
      BY <1>3, <1>4, Zenon
    <3>2. (\A i \in 1 .. 8 : s[i] = r[i + 1]) /\ s[9] = 1
      BY <1>8, Zenon
    <3> HIDE DEF k, r, s
    <3>4. ASSUME NEW i \in 1 .. 9
          PROVE  s[i] = IF k + 1 + i <= 9 THEN Bit(k + 1 + i) ELSE 1
      <4>1. CASE i = 9
        BY <3>1, <3>2, <4>1
      <4>2. CASE i \in 1 .. 8
        <5>1. i + 1 \in 1 .. 9 /\ s[i] = r[i + 1] /\ k + (i + 1) = k + 1 + i
          BY <3>1, <3>2, <4>2
        <5> QED
          BY <3>1, <5>1
      <4> QED
        BY <4>1, <4>2
    <3> QED
      BY <3>4 DEF k, r, s
  <2>5. written' = written /\ sent' = sent /\ bitcount_q' = bitcount_q + 1
    BY <1>6, EdgeCommon
  <2>6. \A i \in 1 .. 9 :
          tsr_q'[i] = IF bitcount_q' + i <= 9 THEN Bit(bitcount_q + i)' ELSE 1
    BY <2>4, <2>5 DEF Bit
  <2>7. \A i \in 1 .. bitcount_q' : frame'[i] = Bit(i)'
    BY <1>3, <2>1, <2>3
  <2> QED
    BY <2>2, <2>6, <2>7, Zenon DEF OnLine
<1>20. Handshake'
  BY EdgeHandshake
<1> QED
  BY <1>9, <1>10, <1>11, <1>20 DEF TxInv

(* The stop bit is over: the frame that was on the line is the byte.        *)
LEMMA TxEnds ==
  ASSUME TxInv, FullFrames, SerialEdge,
         tx_state = "TDATA", bclk_rising_s, bitcount_q = BitMax,
         bitcount_q' = CountAfter, tx_state' = "IDLE", tsr_q' = tsr_q
  PROVE  TxInv'
<1>1. tx_empty_s' = tx_empty_s /\ last_cs2_s' = last_cs2_s
  BY EdgeCommon
<1>2. bitcount_q = 9
  BY ModeAssumption DEF BitMax, FullFrames
<1>13. Len(frame) = 9
  BY <1>2 DEF TxInv, OnLine
<1>3. /\ Len(frame) = 9 /\ frame \in Seq({0, 1})
      /\ \A i \in 1 .. 9 : frame[i] = Bit(i)
      /\ tsr_q[1] = 1
  BY <1>2 DEF TxInv, TxTypes, OnLine
<1> DEFINE b == written[Len(sent) + 1]
<1>4. Len(written) = Len(sent) + 1 + Behind /\ Len(sent) \in Nat /\ Behind \in {0, 1}
  BY DEF TxInv, TxTypes, Account, Shifting, Behind
<1>5. b \in Bytes /\ b \in [1 .. 8 -> {0, 1}]
  BY <1>4, BytesAssumption DEF TxInv, TxTypes
<1>6. \A i \in 2 .. 9 : frame[i] = b[i - 1]
  BY <1>3 DEF Bit
<1> HIDE DEF b
<1>7. SubSeq(frame, 2, 9) = b
  <2>1. b \in Seq({0, 1}) /\ Len(b) = 8
    BY <1>5, FixedLength
  <2>2. /\ SubSeq(frame, 2, 9) \in Seq({0, 1}) /\ Len(SubSeq(frame, 2, 9)) = 8
        /\ \A i \in 1 .. 8 : SubSeq(frame, 2, 9)[i] = frame[i + 1]
    BY <1>3, FrameByte
  <2>3. \A i \in 1 .. 8 : frame[i + 1] = b[i]
    BY <1>6
  <2>4. \A i \in 1 .. 8 : SubSeq(frame, 2, 9)[i] = b[i]
    BY <2>2, <2>3
  <2> QED
    BY <2>1, <2>2, <2>4, SeqEqual
<1>8. sent' = Append(sent, b) /\ frame' = <<>>
  <2>1. frame # <<>>
    <3>1. Len(frame) # 0
      BY <1>13
    <3> QED
      BY <1>3, <3>1, EmptySeq, Zenon
  <2>2. ~(~bclk_rising_s \/ (frame = <<>> /\ txd_s = 1)) /\ ~(Len(frame) < 9)
    BY <1>13, <2>1
  <2>3. txd_s = 1
    BY <1>3 DEF txd_s
  <2>4. Observe
    BY DEF SerialEdge, Line
  <2>5. frame' = <<>> /\ sent' = Append(sent, SubSeq(frame, 2, 9))
    BY <2>2, <2>3, <2>4 DEF Observe
  <2> QED
    BY <1>7, <2>5, Zenon
<1>9. /\ sent' \in Seq(Bytes) /\ Len(sent') = Len(sent) + 1
      /\ \A i \in 1 .. Len(sent) : sent'[i] = sent[i]
      /\ sent'[Len(sent) + 1] = b
  BY <1>5, <1>8 DEF TxInv, TxTypes
<1>10. TxTypes'
  BY <1>1, <1>8, <1>9, EdgeCommon DEF TxInv, TxTypes, CountAfter
<1>11. Account'
  <2>1. Behind' = Behind /\ Shifting' = 0
    BY <1>1, EdgeCommon DEF Behind, Shifting
  <2>2. \A i \in 1 .. Len(sent') : sent'[i] = written[i]
    <3>1. ASSUME NEW i \in 1 .. Len(sent') PROVE i \in 1 .. Len(sent) \/ i = Len(sent) + 1
      BY <1>4, <1>9
    <3>2. \A i \in 1 .. Len(sent) : sent[i] = written[i]
      BY DEF TxInv, Account
    <3> QED
      BY <1>9, <3>1, <3>2 DEF b
  <2>3. Len(written) = Len(sent) + 1 + Behind
    BY <1>1 DEF TxInv, Account, Shifting
  <2>4. Len(written') = Len(sent') + Shifting' + Behind'
    BY <1>9, <2>1, <2>3, EdgeCommon DEF TxInv, TxTypes, Behind
  <2>5. Behind' = 1 => written'[Len(written')] = tx_data_s'
    BY <2>1, EdgeCommon DEF TxInv, Account
  <2> QED
    BY <2>2, <2>4, <2>5, EdgeCommon DEF Account
<1>12. OnLine'
  BY <1>3, <1>8 DEF OnLine, CountAfter
<1>20. Handshake'
  BY EdgeHandshake
<1> QED
  BY <1>10, <1>11, <1>12, <1>20 DEF TxInv

LEMMA TxEdge ==
  ASSUME TxInv, FullFrames, SerialEdge
  PROVE  TxInv'
<1>1. CASE TxWaits(tx_empty_s) /\ UNCHANGED transmitter
  BY <1>1, TxWaiting
<1>2. CASE LoadAndShift(tx_empty_s, tx_data_s)
  BY <1>2, TxLoads, TxStarts, TxShifts, TxEnds DEF LoadAndShift
<1> QED
  BY <1>1, <1>2 DEF SerialEdge, Line, Transmit

-----------------------------------------------------------------------------
(* The bus side.  A strobe begins: the byte is in the data register, whose  *)
(* flag is still up.                                                       *)
LEMMA StrobeBegins ==
  ASSUME TxInv, NEW d \in Bytes, UNCHANGED line, edges' = edges + 1,
         TxControl(TRUE, d), last_cs2_s = FALSE, permit = TRUE
  PROVE  TxInv'
<1>1. tx_empty_s = TRUE
  BY DEF TxInv, TxTypes, Handshake
<1>2. /\ last_cs2_s' = TRUE /\ tx_data_s' = d /\ tx_empty_s' = TRUE
      /\ written' = Append(written, d) /\ permit' = FALSE
  BY <1>1 DEF TxControl, Due
<1>3. /\ tx_state' = tx_state /\ tsr_q' = tsr_q /\ bitcount_q' = bitcount_q
      /\ sent' = sent /\ frame' = frame /\ bclk_rising_s' = bclk_rising_s
  BY DEF line, transmitter, bclk_rising_s, baudclk_s
<1>4. /\ Len(written) = Len(sent) + Shifting /\ Shifting \in {0, 1}
      /\ \A i \in 1 .. Len(sent) : sent[i] = written[i]
      /\ written \in Seq(Bytes) /\ Len(sent) \in Nat
  <2>1. Behind = 0
    BY <1>1 DEF Behind
  <2> QED
    BY <2>1 DEF TxInv, TxTypes, Account, Shifting
<1>5. /\ written' \in Seq(Bytes) /\ Len(written') = Len(written) + 1
      /\ \A i \in 1 .. Len(written) : written'[i] = written[i]
      /\ written'[Len(written) + 1] = d
  BY <1>2, <1>4
<1>6. edges \in Nat /\ edges' \in Nat /\ edges' # 0
  BY DEF TxInv, TxTypes
<1>7. TxTypes'
  BY <1>2, <1>3, <1>5, <1>6 DEF TxInv, TxTypes
<1>8. Account'
  <2>1. Shifting' = Shifting /\ Behind' = 1
    BY <1>2, <1>3 DEF Shifting, Behind
  <2>2. /\ Len(written') = Len(sent') + Shifting' + Behind'
        /\ written'[Len(written')] = tx_data_s'
    BY <1>2, <1>3, <1>4, <1>5, <2>1
  <2>3. \A i \in 1 .. Len(sent') : sent'[i] = written'[i]
    BY <1>3, <1>4, <1>5
  <2> QED
    BY <2>2, <2>3 DEF Account
<1>9. Handshake'
  <2>1. ~Settling
    BY <1>1 DEF TxInv, Handshake
  <2>2. ~Settling'
    BY <1>3, <1>6, <2>1 DEF Settling
  <2> QED
    BY <1>2, <2>2 DEF Handshake
<1>10. OnLine'
  <2>1. CASE tx_state = "IDLE"
    BY <1>3, <2>1 DEF TxInv, OnLine
  <2>2. CASE tx_state # "IDLE"
    <3>1. written'[Len(sent') + 1] = written[Len(sent) + 1]
      BY <1>3, <1>4, <1>5, <2>2 DEF Shifting
    <3> QED
      BY <1>3, <3>1 DEF TxInv, OnLine, Bit
  <2> QED
    BY <2>1, <2>2
<1> QED
  BY <1>7, <1>8, <1>9, <1>10 DEF TxInv

(* No strobe begins.  The flag falls when one ends, and rises under start_s *)
(* for the byte in the shift register, and for one that is in the data     *)
(* register by then: that one is taken back, and what is left is due.      *)
LEMMA FlagMoves ==
  ASSUME TxInv, NEW d \in Bytes, NEW datawrite \in BOOLEAN, UNCHANGED line,
         edges' = edges + 1, TxControl(datawrite, d), ~(datawrite /\ ~last_cs2_s)
  PROVE  TxInv'
<1>1. /\ last_cs2_s' = datawrite /\ tx_data_s' = tx_data_s
      /\ written' = IF TakenBack THEN SubSeq(written, 1, Len(sent) + 1) ELSE written
      /\ permit' = permit
      /\ tx_empty_s' = (~(~datawrite /\ last_cs2_s) /\ (start_s \/ tx_empty_s))
  BY DEF TxControl, ClrTxEmpty, Due, TxInv, TxTypes
<1>2. /\ tx_state' = tx_state /\ tsr_q' = tsr_q /\ bitcount_q' = bitcount_q
      /\ sent' = sent /\ frame' = frame /\ bclk_rising_s' = bclk_rising_s
  BY DEF line, transmitter, bclk_rising_s, baudclk_s
<1>3. /\ last_cs2_s \in BOOLEAN /\ tx_empty_s \in BOOLEAN /\ permit \in BOOLEAN
      /\ last_cs2_s = TRUE => tx_empty_s = TRUE /\ permit = FALSE
      /\ tx_empty_s = FALSE => permit = FALSE
      /\ Settling => tx_empty_s = FALSE
  BY DEF TxInv, TxTypes, Handshake
<1>4. /\ Len(written) = Len(sent) + Shifting + Behind
      /\ Shifting \in {0, 1} /\ Behind \in {0, 1}
      /\ \A i \in 1 .. Len(sent) : sent[i] = written[i]
      /\ Behind = 1 => written[Len(written)] = tx_data_s
      /\ written \in Seq(Bytes) /\ Len(sent) \in Nat
  <2>1. Shifting \in {0, 1} /\ Behind \in {0, 1}
    BY DEF Shifting, Behind
  <2>2. written \in Seq(Bytes) /\ Len(sent) \in Nat
    BY DEF TxInv, TxTypes
  <2> QED
    BY <2>1, <2>2 DEF TxInv, Account
<1>5. edges \in Nat /\ edges' \in Nat /\ edges' # 0
  BY DEF TxInv, TxTypes
<1>6. Settling' <=> (tx_state = "SYNCH" /\ ~bclk_rising_s)
  BY <1>2, <1>5 DEF Settling
<1>7. start_s <=> (tx_state = "SYNCH" /\ bclk_rising_s)
  BY DEF start_s
<1>8. tx_state = "SYNCH" /\ ~bclk_rising_s => Settling
  BY DEF Settling
<1>9. Behind' = IF TakenBack THEN 0 ELSE Behind
  <2>1. CASE TakenBack
    <3>1. tx_empty_s = FALSE /\ last_cs2_s = FALSE /\ ~datawrite /\ tx_empty_s' = TRUE
      BY <1>1, <1>3, <2>1 DEF TakenBack
    <3> QED
      BY <1>1, <2>1, <3>1 DEF Behind
  <2>2. CASE ~TakenBack /\ start_s /\ ~tx_empty_s
    <3>1. Shifting = 1 /\ Len(written) # Len(sent) + 2
      BY <1>7, <2>2 DEF TakenBack, Shifting
    <3>2. Behind = 0
      BY <1>4, <3>1
    <3>3. last_cs2_s = FALSE /\ ~datawrite /\ tx_empty_s' = TRUE
      BY <1>1, <1>3, <2>2
    <3> QED
      BY <1>1, <2>2, <3>2, <3>3 DEF Behind
  <2>3. CASE ~TakenBack /\ ~(start_s /\ ~tx_empty_s)
    <3>1. CASE last_cs2_s = TRUE /\ ~datawrite
      <4>1. tx_empty_s' = FALSE /\ ~Settling'
        BY <1>1, <1>3, <1>6, <1>8, <3>1
      <4> QED
        BY <1>1, <2>3, <3>1, <4>1 DEF Behind
    <3>2. CASE last_cs2_s = TRUE /\ datawrite
      BY <1>1, <2>3, <3>2 DEF Behind
    <3>3. CASE last_cs2_s = FALSE
      <4>1. ~datawrite /\ tx_empty_s' = tx_empty_s
        BY <1>1, <1>3, <2>3, <3>3
      <4>2. tx_empty_s = FALSE => (Settling' <=> Settling)
        BY <1>6, <1>7, <1>8, <2>3 DEF Settling
      <4> QED
        BY <1>1, <1>3, <2>3, <3>3, <4>1, <4>2 DEF Behind
    <3> QED
      BY <1>3, <3>1, <3>2, <3>3
  <2> QED
    BY <2>1, <2>2, <2>3
<1>10. /\ written' \in Seq(Bytes) /\ Len(written') = Len(sent) + Shifting + Behind'
       /\ \A i \in 1 .. Len(sent) + Shifting : written'[i] = written[i]
       /\ Behind' = 1 => written'[Len(written')] = tx_data_s
  <2>1. CASE TakenBack
    <3>1. /\ Len(written) = Len(sent) + 2 /\ Shifting = 1
          /\ written' = SubSeq(written, 1, Len(sent) + 1) /\ Behind' = 0
      BY <1>1, <1>7, <1>9, <2>1 DEF TakenBack, Shifting
    <3>2. \A i \in 1 .. Len(sent) + 1 : written[i] \in Bytes
      BY <1>4, <3>1
    <3>3. /\ SubSeq(written, 1, Len(sent) + 1) \in Seq(Bytes)
          /\ Len(SubSeq(written, 1, Len(sent) + 1)) = Len(sent) + 1
          /\ \A i \in 1 .. Len(sent) + 1 :
               SubSeq(written, 1, Len(sent) + 1)[i] = written[i]
      BY <1>4, <3>2, SubSeqProperties
    <3> QED
      BY <1>4, <3>1, <3>3
  <2>2. CASE ~TakenBack
    BY <1>1, <1>4, <1>9, <2>2
  <2> QED
    BY <2>1, <2>2
<1>11. TxTypes'
  BY <1>1, <1>2, <1>3, <1>5, <1>10 DEF TxInv, TxTypes
<1>12. Account'
  <2>1. Shifting' = Shifting
    BY <1>2 DEF Shifting
  <2>2. \A i \in 1 .. Len(sent) : sent[i] = written'[i]
    BY <1>4, <1>10
  <2> QED
    BY <1>1, <1>2, <1>10, <2>1, <2>2 DEF Account
<1>13. Handshake'
  <2>1. tx_empty_s' = FALSE => last_cs2_s' = FALSE /\ permit' = FALSE
    BY <1>1, <1>3
  <2>2. last_cs2_s' = TRUE => permit' = FALSE
    BY <1>1, <1>3
  <2>3. Settling' => tx_empty_s' = FALSE
    BY <1>1, <1>3, <1>6, <1>7, <1>8
  <2> QED
    BY <2>1, <2>2, <2>3 DEF Handshake
<1>14. OnLine'
  <2>1. CASE tx_state = "IDLE"
    BY <1>2, <2>1 DEF TxInv, OnLine
  <2>2. CASE tx_state # "IDLE"
    <3>1. written'[Len(sent') + 1] = written[Len(sent) + 1]
      BY <1>2, <1>4, <1>10, <2>2 DEF Shifting
    <3> QED
      BY <1>2, <3>1 DEF TxInv, OnLine, Bit
  <2> QED
    BY <2>1, <2>2
<1> QED
  BY <1>11, <1>12, <1>13, <1>14 DEF TxInv

LEMMA TxBusEdge ==
  ASSUME TxInv, AnyBusEdge
  PROVE  TxInv'
<1>1. PICK access \in {"none", "write", "read", "control"}, d \in Bytes : BusEdge(access, d)
  BY DEF AnyBusEdge
<1> DEFINE datawrite == access = "write"
<1>2. /\ TxControl(datawrite, d) /\ UNCHANGED line /\ edges' = edges + 1
      /\ datawrite /\ ~last_cs2_s => permit
      /\ datawrite \in BOOLEAN /\ last_cs2_s \in BOOLEAN /\ permit \in BOOLEAN
  BY <1>1 DEF BusEdge, TxInv, TxTypes
<1> HIDE DEF datawrite
<1>3. CASE datawrite = TRUE /\ last_cs2_s = FALSE
  <2>1. TxControl(TRUE, d) /\ permit = TRUE
    BY <1>2, <1>3
  <2> QED
    BY <1>2, <1>3, <2>1, StrobeBegins
<1>4. CASE ~(datawrite /\ ~last_cs2_s)
  BY <1>2, <1>4, FlagMoves
<1> QED
  BY <1>2, <1>3, <1>4

(* The flag is up when the processor sees it.                               *)
LEMMA TxPoll ==
  ASSUME TxInv, NEW flag \in Flags, Poll(flag)
  PROVE  TxInv'
<1>1. /\ UNCHANGED <<line, written, txside, edges>> /\ Seen(flag)
      /\ last_cs2_s = FALSE /\ permit' = TRUE
  BY DEF Poll, TxInv, TxTypes
<1>2. /\ tx_state' = tx_state /\ tsr_q' = tsr_q /\ bitcount_q' = bitcount_q
      /\ sent' = sent /\ frame' = frame /\ written' = written /\ edges' = edges
      /\ last_cs2_s' = last_cs2_s /\ tx_data_s' = tx_data_s /\ tx_empty_s' = tx_empty_s
      /\ bclk_rising_s' = bclk_rising_s
  BY <1>1 DEF line, transmitter, txside, bclk_rising_s, baudclk_s
<1>3. Settling' = Settling /\ Shifting' = Shifting /\ Behind' = Behind
  BY <1>2 DEF Settling, Shifting, Behind
<1>4. TxTypes'
  BY <1>1, <1>2 DEF TxInv, TxTypes
<1>5. Account'
  BY <1>2, <1>3 DEF TxInv, Account
<1>6. OnLine'
  BY <1>2 DEF TxInv, OnLine, Bit
<1>7. Handshake'
  <2>1. tx_empty_s = TRUE
    BY <1>1, FlagsAssumption DEF Seen, tx_ready_s, load_tsr_s, TxInv, TxTypes
  <2> QED
    BY <1>1, <1>2, <1>3, <2>1 DEF TxInv, Handshake
<1> QED
  BY <1>4, <1>5, <1>6, <1>7 DEF TxInv

LEMMA TxStep == TxInv /\ FullFrames /\ [Next]_vars => TxInv'
<1> SUFFICES ASSUME TxInv, FullFrames, [Next]_vars PROVE TxInv'
  OBVIOUS
<1>1. CASE UNCHANGED vars
  <2>1. /\ UNCHANGED <<line, written, txside>> /\ permit' = permit /\ edges' = edges
    BY <1>1 DEF vars, history
  <2>2. /\ tx_state' = tx_state /\ tsr_q' = tsr_q /\ bitcount_q' = bitcount_q
        /\ sent' = sent /\ frame' = frame /\ written' = written
        /\ bclk_rising_s' = bclk_rising_s
        /\ last_cs2_s' = last_cs2_s /\ tx_data_s' = tx_data_s /\ tx_empty_s' = tx_empty_s
    BY <2>1 DEF line, transmitter, txside, bclk_rising_s, baudclk_s
  <2>3. Settling' = Settling /\ Shifting' = Shifting /\ Behind' = Behind
    BY <2>1, <2>2 DEF Settling, Shifting, Behind
  <2>4. TxTypes' /\ Handshake'
    BY <2>1, <2>2, <2>3 DEF TxInv, TxTypes, Handshake
  <2>5. Account' /\ OnLine'
    BY <2>2, <2>3 DEF TxInv, Account, OnLine, Bit
  <2> QED
    BY <2>4, <2>5 DEF TxInv
<1> QED
  BY <1>1, TxEdge, TxBusEdge, TxPoll DEF Next

LEMMA TxInit == Init => TxInv
<1> SUFFICES ASSUME Init PROVE TxInv
  OBVIOUS
<1>1. /\ tx_state = "IDLE" /\ tsr_q = [i \in 1 .. 9 |-> 1] /\ bitcount_q = 0
      /\ written = <<>> /\ sent = <<>> /\ frame = <<>>
      /\ tx_data_s \in Bytes /\ tx_empty_s = TRUE /\ last_cs2_s = FALSE
      /\ permit = FALSE /\ edges = 0
  BY DEF Init, ResetLine
<1>2. TxTypes
  <2>1. tsr_q \in Shifter
    BY <1>1 DEF Shifter
  <2>2. written \in Seq(Bytes) /\ sent \in Seq(Bytes) /\ frame \in Seq({0, 1})
    BY <1>1
  <2>3. permit \in BOOLEAN
    BY <1>1
  <2>4. tx_empty_s \in BOOLEAN /\ last_cs2_s \in BOOLEAN
    BY <1>1
  <2>5. tx_state \in {"IDLE", "SYNCH", "TDATA"} /\ bitcount_q \in 0 .. 9 /\ edges \in Nat
    BY <1>1
  <2> QED
    BY <1>1, <2>1, <2>2, <2>3, <2>4, <2>5 DEF TxTypes
<1>3. Account
  <2>1. Shifting = 0 /\ Behind = 0
    BY <1>1 DEF Shifting, Behind
  <2> QED
    BY <1>1, <2>1 DEF Account
<1>4. Handshake /\ OnLine
  BY <1>1 DEF Handshake, OnLine, Settling
<1> QED
  BY <1>2, <1>3, <1>4 DEF TxInv

(* Every byte handed over after a poll goes out once, in order and well     *)
(* framed, and none is left when the flags say so, although tx_empty_s is   *)
(* set on one clock for the other (lines 189-203), but for a byte whose     *)
(* flag start_s takes back: for every bit clock, every ratio of the two     *)
(* clocks, whenever the processor writes, set and number of bytes, with     *)
(* frames of ten bits.                                                     *)
THEOREM SentOnceInOrder ==
  ASSUME FullFrames
  PROVE  Spec => []BytesOnceInOrder
<1>1. TxInv /\ [Next]_vars => TxInv'
  BY TxStep
<1>2. TxInv => BytesOnceInOrder
  <2> SUFFICES ASSUME TxInv PROVE BytesOnceInOrder
    OBVIOUS
  <2>1. /\ written \in Seq(Bytes) /\ sent \in Seq(Bytes)
        /\ Len(written) = Len(sent) + Shifting + Behind
        /\ Shifting \in {0, 1} /\ Behind \in {0, 1}
        /\ \A i \in 1 .. Len(sent) : sent[i] = written[i]
    BY DEF TxInv, TxTypes, Account, Shifting, Behind
  <2>2. SentInOrder
    <3>1. Len(written) - Len(sent) \in 0 .. 2
      BY <2>1
    <3>2. sent = SubSeq(written, 1, Len(sent))
      <4>1. \A i \in 1 .. Len(sent) : written[i] \in Bytes
        BY <2>1
      <4>2. /\ SubSeq(written, 1, Len(sent)) \in Seq(Bytes)
            /\ Len(SubSeq(written, 1, Len(sent))) = Len(sent)
            /\ \A i \in 1 .. Len(sent) : SubSeq(written, 1, Len(sent))[i] = written[i]
        BY <2>1, <4>1, SubSeqProperties
      <4> QED
        BY <2>1, <4>2, SeqEqual
    <3> QED
      BY <3>1, <3>2 DEF SentInOrder
  <2>3. ~last_cs2_s => IdleMeansSent(tx_empty_s)
    <3> SUFFICES ASSUME ~last_cs2_s, tx_state = "IDLE", tx_empty_s PROVE sent = written
      BY DEF IdleMeansSent
    <3>1. Shifting = 0 /\ Behind = 0
      BY DEF Shifting, Behind
    <3> QED
      BY <2>1, <3>1, SeqEqual
  <2> QED
    BY <2>2, <2>3 DEF BytesOnceInOrder
<1> QED
  BY <1>1, <1>2, TxInit, PTL DEF Spec
=============================================================================
