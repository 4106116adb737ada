---------------------------- MODULE CounterProofs ----------------------------
(***************************************************************************)
(* Proofs about Counter, for bytes of any even number of values, and any   *)
(* formats, modes and counts the bus writes: which of the bytes written a  *)
(* count is put together from, that the output of every mode is exact edge *)
(* by edge, and that no request for a load is lost between the clocks.     *)
(***************************************************************************)
EXTENDS Counter, SequenceTheorems, TLAPS

Word == 0 .. Modulus - 1

-----------------------------------------------------------------------------
(* Arithmetic of the 16 bits, with Modulus opaque.                         *)
LEMMA SquareFacts ==
  ASSUME NEW h \in Nat, NEW b, b = 2 * h, b >= 2
  PROVE  /\ b * b \in Nat /\ b * b >= 4
         /\ b * b = 2 * (h * b)
<1>1. b \in Nat /\ h >= 1
  OBVIOUS
<1>2. b * b = 2 * (h * b) /\ h * b \in Nat
  BY <1>1
<1>3. h * b = h * (2 * h) /\ h * h \in Nat
  BY <1>1
<1>4. h * h >= 1
  BY <1>1
<1>5. h * (2 * h) = 2 * (h * h)
  BY <1>1
<1> QED
  BY <1>1, <1>2, <1>3, <1>4, <1>5

LEMMA ModulusEven ==
  /\ Modulus \in Nat /\ Modulus >= 4
  /\ \E half \in Nat : Modulus = 2 * half
<1>1. Base \in Nat /\ Base >= 2 /\ Base % 2 = 0
  BY BaseAssumption
<1> DEFINE h == Base \div 2
<1>2. h \in Nat /\ Base = 2 * h
  BY <1>1
<1> HIDE DEF h
<1>3. /\ Base * Base \in Nat /\ Base * Base >= 4
      /\ Base * Base = 2 * (h * Base) /\ h * Base \in Nat
  BY <1>1, <1>2, SquareFacts
<1> QED
  BY <1>3 DEF Modulus

LEMMA DownValue ==
  ASSUME NEW v \in Word, NEW k \in {1, 2}
  PROVE  Down(v, k) = IF v >= k THEN v - k ELSE v - k + Modulus
<1>1. Modulus \in Nat /\ Modulus >= 4 /\ v \in Nat /\ v < Modulus
  BY ModulusEven DEF Word
<1>2. CASE v >= k
  <2>1. v - k \in 0 .. Modulus - 1
    BY <1>1, <1>2
  <2> QED
    BY <1>1, <1>2, <2>1 DEF Down
<1>3. CASE v < k
  <2>1. v - k + Modulus \in 0 .. Modulus - 1 /\ v - k = -1 * Modulus + (v - k + Modulus)
    BY <1>1, <1>3
  <2> QED
    BY <1>1, <1>3, <2>1 DEF Down
<1> QED
  BY <1>1, <1>2, <1>3

(* A byte put into either half of a word gives a word.                      *)
LEMMA HighByte ==
  ASSUME NEW b \in Nat, b >= 2, NEW d \in 0 .. b - 1, NEW r \in 0 .. b - 1
  PROVE  d * b + r \in 0 .. b * b - 1
<1>1. d * b \in Nat /\ b * b \in Nat /\ (b - 1) * b = b * b - b
  OBVIOUS
<1>2. d * b <= (b - 1) * b
  OBVIOUS
<1> QED
  BY <1>1, <1>2

LEMMA PutByteType ==
  ASSUME NEW count \in Word, NEW s, NEW d \in Byte
  PROVE  PutByte(count, s, d) \in Word
<1>1. Base \in Nat /\ Base >= 2 /\ d \in 0 .. Base - 1 /\ count \in 0 .. Base * Base - 1
  BY BaseAssumption DEF Byte, Word, Modulus
<1>2. count % Base \in 0 .. Base - 1
  BY <1>1
<1>3. count \div Base \in 0 .. Base - 1
  <2> DEFINE q == count \div Base
             r == count % Base
  <2>1. count = Base * q + r /\ q \in Nat /\ r \in Nat
    BY <1>1
  <2>2. Base * Base \in Nat
    BY <1>1
  <2> HIDE DEF q, r
  <2>3. ASSUME q >= Base PROVE FALSE
    <3>1. Base * q >= Base * Base
      BY <1>1, <2>1, <2>3
    <3> QED
      BY <1>1, <2>1, <2>2, <3>1
  <2>4. q \in 0 .. Base - 1
    BY <1>1, <2>1, <2>3
  <2> QED
    BY <2>4 DEF q
<1>4. d * Base + (count % Base) \in 0 .. Base * Base - 1
  BY <1>1, <1>2, HighByte
<1>5. (count \div Base) * Base + d \in 0 .. Base * Base - 1
  BY <1>1, <1>3, HighByte
<1> QED
  BY <1>4, <1>5 DEF PutByte, Word, Modulus

-----------------------------------------------------------------------------
(* What the registers hold.                                                *)
States == {<<0, 0>>, <<0, 1>>, <<1, 0>>, <<1, 1>>}

Types ==
  /\ state_q \in States /\ mode_q \in [rw : 0 .. 3, m : 0 .. 7]
  /\ initial_q \in Word /\ value_q \in Word /\ n \in Word
  /\ ce_q \in BOOLEAN /\ newcmd_q \in BOOLEAN /\ latched_q \in BOOLEAN
  /\ out_q \in BOOLEAN /\ strobe_q \in BOOLEAN
  /\ clr_ncmd_s \in BOOLEAN /\ clr_ce_s \in BOOLEAN
  /\ loaded \in BOOLEAN /\ busy \in BOOLEAN /\ rd_q \in BOOLEAN
  /\ t \in Nat /\ bytes \in Seq(Byte) /\ gap \in 0 .. MinGap

LEMMA NextStateValue ==
  ASSUME NEW s \in States, NEW rw \in 0 .. 3
  PROVE  NextState(s, rw) =
           IF rw \in {1, 2} THEN IF s[2] = 0 THEN <<1, 0>> ELSE <<0, 0>>
           ELSE IF s[2] = 0 THEN <<0, 1>> ELSE <<1, 1>>
<1>1. s[2] \in {0, 1}
  BY DEF States
<1>2. CASE rw \in {1, 2}
  <2>1. CASE s[2] = 0
    BY <1>2, <2>1 DEF NextState, Bit
  <2>2. CASE s[2] = 1
    BY <1>2, <2>2 DEF NextState, Bit
  <2> QED
    BY <1>1, <1>2, <2>1, <2>2
<1>3. CASE rw \notin {1, 2}
  <2>1. CASE s[2] = 0
    BY <1>3, <2>1 DEF NextState, Bit
  <2>2. CASE s[2] = 1
    BY <1>3, <2>2 DEF NextState, Bit
  <2> QED
    BY <1>1, <1>3, <2>1, <2>2
<1> QED
  BY <1>2, <1>3

(* The three kinds of access, and an edge without one.                      *)
LEMMA BusCases ==
  ASSUME BusEdge
  PROVE  /\ out_q' = out_q /\ value_q' = value_q /\ strobe_q' = strobe_q
         /\ clr_ncmd_s' = clr_ncmd_s /\ clr_ce_s' = clr_ce_s
         /\ n' = n /\ t' = t /\ busy' = FALSE
         /\ \/ gap >= MinGap /\ gap' = 0 /\ \E d \in Written : WriteData(d)
            \/ gap >= MinGap /\ gap' = 0 /\ \E rw \in Formats, m \in Modes : WriteCommand(rw, m)
            \/ gap >= MinGap /\ gap' = 0 /\ Read
            \/ NoAccess
         /\ newcmd_q' \in BOOLEAN
<1>1. /\ UNCHANGED counting /\ n' = n /\ t' = t /\ busy' = FALSE
      /\ Access \/ NoAccess
  BY DEF BusEdge
<1>2. newcmd_q' \in BOOLEAN
  BY <1>1 DEF Access, NoAccess
<1>3. \/ gap >= MinGap /\ gap' = 0 /\ \E d \in Written : WriteData(d)
      \/ gap >= MinGap /\ gap' = 0 /\ \E rw \in Formats, m \in Modes : WriteCommand(rw, m)
      \/ gap >= MinGap /\ gap' = 0 /\ Read
      \/ NoAccess
  BY <1>1 DEF Access
<1> QED
  BY <1>1, <1>2, <1>3 DEF counting

LEMMA BusTypes ==
  ASSUME Types, BusEdge
  PROVE  Types'
<1>1. /\ out_q' \in BOOLEAN /\ strobe_q' \in BOOLEAN /\ value_q' \in Word /\ n' \in Word
      /\ clr_ncmd_s' \in BOOLEAN /\ clr_ce_s' \in BOOLEAN /\ t' \in Nat
      /\ busy' \in BOOLEAN /\ newcmd_q' \in BOOLEAN
  BY BusCases DEF Types, Word
<1>2. 0 \in 0 .. MinGap
  BY GapAssumption
<1>3. CASE gap' = 0 /\ \E d \in Written : WriteData(d)
  <2>1. PICK d \in Written : WriteData(d)
    BY <1>3
  <2>2. d \in Byte
    BY WrittenAssumption DEF Byte
  <2>3. initial_q' \in Word
    <3>1. PutByte(initial_q, state_q, d) \in Word
      BY <2>2, PutByteType DEF Types
    <3> QED
      BY <2>1, <3>1 DEF WriteData, Word
  <2>4. state_q' \in States
    BY <2>1, NextStateValue DEF WriteData, Types, States
  <2>5. bytes' \in Seq(Byte)
    BY <2>1, <2>2 DEF WriteData, Types, Byte
  <2>6. /\ mode_q' = mode_q /\ latched_q' = latched_q /\ loaded' = loaded
        /\ ce_q' = TRUE /\ rd_q' = FALSE
    BY <2>1 DEF WriteData
  <2> QED
    BY <1>1, <1>2, <1>3, <2>3, <2>4, <2>5, <2>6 DEF Types
<1>4. CASE gap' = 0 /\ \E rw \in Formats, m \in Modes : WriteCommand(rw, m)
  <2>1. PICK rw \in Formats, m \in Modes : WriteCommand(rw, m)
    BY <1>4
  <2>2. rw \in 0 .. 3 /\ m \in 0 .. 7
    BY FormatsAssumption
  <2>3. state_q' \in States /\ mode_q' \in [rw : 0 .. 3, m : 0 .. 7]
    BY <2>1, <2>2 DEF WriteCommand, CommandState, Bit, Types, States
  <2>4. latched_q' \in BOOLEAN /\ loaded' \in BOOLEAN /\ bytes' \in Seq(Byte)
    <3>1. CASE rw # 0
      <4>1. latched_q' = latched_q /\ loaded' = FALSE /\ bytes' = << >>
        BY <2>1, <3>1 DEF WriteCommand
      <4>2. << >> \in Seq(Byte)
        OBVIOUS
      <4>3. latched_q' \in BOOLEAN /\ loaded' \in BOOLEAN
        BY <4>1 DEF Types
      <4>4. bytes' \in Seq(Byte)
        BY <4>1, <4>2, Zenon
      <4> QED
        BY <4>3, <4>4
    <3>2. CASE rw = 0
      <4>1. latched_q' = (mode_q.rw = 3) /\ loaded' = loaded /\ bytes' = bytes
        BY <2>1, <3>2 DEF WriteCommand
      <4>2. latched_q' \in BOOLEAN
        BY <4>1, Zenon
      <4> QED
        BY <4>1, <4>2 DEF Types, Byte
    <3> QED
      BY <3>1, <3>2
  <2>5. ce_q' = TRUE /\ rd_q' = FALSE /\ initial_q' = initial_q
    BY <2>1 DEF WriteCommand
  <2>6. initial_q' \in Word
    BY <2>5 DEF Types, Word
  <2> QED
    BY <1>1, <1>2, <1>4, <2>3, <2>4, <2>5, <2>6 DEF Types
<1>5. CASE (gap' = 0 /\ Read) \/ NoAccess
  <2>1. /\ state_q' = state_q /\ mode_q' = mode_q /\ initial_q' = initial_q
        /\ bytes' = bytes /\ loaded' = loaded
        /\ ce_q' \in BOOLEAN /\ latched_q' \in BOOLEAN /\ rd_q' \in BOOLEAN
        /\ gap' = 0 \/ gap' = gap
    BY <1>5 DEF Read, NoAccess, CeKept, Types
  <2>2. initial_q' \in Word /\ bytes' \in Seq(Byte) /\ gap' \in 0 .. MinGap
    BY <1>2, <2>1 DEF Types, Word, Byte
  <2> QED
    BY <1>1, <2>1, <2>2 DEF Types
<1> QED
  BY <1>3, <1>4, <1>5, BusCases

(* A counting edge loads the count register, counts down, or waits.         *)
LEMMA CountCases ==
  ASSUME Types, CountEdge
  PROVE  /\ UNCHANGED <<registers, bytes, owed>> /\ ~busy /\ busy' = TRUE
         /\ gap' = IF gap < MinGap THEN gap + 1 ELSE gap
         /\ \/ Enabled /\ mode_q.m \in {0, 1} /\ OneShot
            \/ Enabled /\ mode_q.m \in {2, 6} /\ Rate
            \/ Enabled /\ mode_q.m \in {3, 7} /\ Square
            \/ Enabled /\ mode_q.m \in {4, 5} /\ Strobe
            \/ /\ ~Enabled /\ clr_ce_s' = FALSE
               /\ Tick /\ UNCHANGED <<out_q, value_q, strobe_q, n, loaded>>
         /\ clr_ncmd_s' \in BOOLEAN
<1>1. clr_ncmd_s' \in BOOLEAN
  BY DEF CountEdge, Types
<1> QED
  BY <1>1 DEF CountEdge

LEMMA HalfType ==
  ASSUME NEW v \in Word, NEW high \in BOOLEAN
  PROVE  Half(v, high) \in Word
<1>1. v \in Nat /\ Modulus \in Nat /\ v < Modulus
  BY ModulusEven DEF Word
<1>2. v % 2 # 0 => v >= 1
  BY <1>1
<1> QED
  BY <1>1, <1>2 DEF Half, Word

LEMMA LoadTypes ==
  ASSUME Types, NEW v \in Word, Load(v)
  PROVE  value_q' \in Word /\ n' \in Word /\ t' \in Nat /\ loaded' \in BOOLEAN
<1>1. value_q' = v /\ n' = initial_q /\ t' = 0 /\ loaded' = TRUE
  BY DEF Load
<1> QED
  BY <1>1 DEF Types, Word

LEMMA DownTypes ==
  ASSUME Types, NEW k \in {1, 2}, CountDown(k)
  PROVE  /\ value_q' = IF value_q >= k THEN value_q - k ELSE value_q - k + Modulus
         /\ value_q' \in Word /\ n' = n /\ loaded' = loaded
         /\ t' = IF owed = 0 /\ t <= Modulus THEN t + 1 ELSE t
         /\ n' \in Word /\ t' \in Nat /\ loaded' \in BOOLEAN
<1>1. Modulus \in Nat /\ Modulus >= 4
  BY ModulusEven
<1>2. value_q' = IF value_q >= k THEN value_q - k ELSE value_q - k + Modulus
  BY DownValue DEF CountDown, Types
<1>3. value_q' \in Word
  BY <1>1, <1>2 DEF Types, Word
<1>4. t' = IF owed = 0 /\ t <= Modulus THEN t + 1 ELSE t
  BY DEF CountDown, Tick
<1>5. t' \in Nat
  BY <1>1, <1>4 DEF Types
<1>6. n' = n /\ loaded' = loaded
  BY DEF CountDown
<1>7. n' \in Word /\ loaded' \in BOOLEAN
  BY <1>6 DEF Types, Word
<1> QED
  BY <1>2, <1>3, <1>4, <1>5, <1>6, <1>7

LEMMA CountTypes ==
  ASSUME Types, CountEdge
  PROVE  Types'
<1>1. /\ state_q' = state_q /\ mode_q' = mode_q /\ initial_q' = initial_q
      /\ rd_q' = rd_q /\ latched_q' = latched_q /\ ce_q' = ce_q /\ newcmd_q' = newcmd_q
      /\ bytes' = bytes /\ busy' = TRUE /\ clr_ncmd_s' \in BOOLEAN
  BY CountCases DEF registers
<1>2. initial_q' \in Word /\ bytes' \in Seq(Byte)
  BY <1>1 DEF Types, Word, Byte
<1>3. gap' \in 0 .. MinGap
  <2>1. gap \in 0 .. MinGap /\ gap' = IF gap < MinGap THEN gap + 1 ELSE gap
    BY CountCases DEF Types
  <2> QED
    BY <2>1, GapAssumption
<1>4. ASSUME \/ \E v \in Word : Load(v)
             \/ \E k \in {1, 2} : CountDown(k)
             \/ Tick /\ UNCHANGED <<value_q, n, loaded>>
      PROVE  value_q' \in Word /\ n' \in Word /\ t' \in Nat /\ loaded' \in BOOLEAN
  <2>1. CASE Tick /\ UNCHANGED <<value_q, n, loaded>>
    BY <2>1 DEF Types, Word, Tick
  <2> QED
    BY <1>4, <2>1, LoadTypes, DownTypes
<1>5. initial_q \in Word
  BY DEF Types
<1>6. /\ \/ \E v \in Word : Load(v)
         \/ \E k \in {1, 2} : CountDown(k)
         \/ Tick /\ UNCHANGED <<value_q, n, loaded>>
      /\ out_q' \in BOOLEAN /\ strobe_q' \in BOOLEAN /\ clr_ce_s' \in BOOLEAN
  <2>1. CASE OneShot
    BY <1>5, <2>1 DEF OneShot, Types
  <2>2. CASE Rate
    BY <1>5, <2>2 DEF Rate, Types
  <2>3. CASE Square
    <3>1. Half(initial_q, ~out_q \/ newcmd_q) \in Word
      BY <1>5, HalfType
    <3> QED
      BY <2>3, <3>1 DEF Square, Types
  <2>4. CASE Strobe
    BY <1>5, <2>4 DEF Strobe, Types
  <2>5. CASE clr_ce_s' = FALSE /\ Tick /\ UNCHANGED <<out_q, value_q, strobe_q, n, loaded>>
    BY <2>5 DEF Types
  <2> QED
    BY <2>1, <2>2, <2>3, <2>4, <2>5, CountCases
<1> QED
  BY <1>1, <1>2, <1>3, <1>4, <1>6 DEF Types

LEMMA TypesStep == Types /\ [Next]_vars => Types'
<1> SUFFICES ASSUME Types, [Next]_vars PROVE Types'
  OBVIOUS
<1>1. CASE UNCHANGED vars
  BY <1>1 DEF vars, registers, counting, history, Types, Word
<1> QED
  BY <1>1, BusTypes, CountTypes DEF Next

LEMMA TypesInit == Init => Types
<1> SUFFICES ASSUME Init PROVE Types
  OBVIOUS
<1>1. 0 \in Word /\ MinGap \in 0 .. MinGap
  BY ModulusEven, GapAssumption DEF Word
<1>2. /\ state_q \in States /\ mode_q \in [rw : 0 .. 3, m : 0 .. 7] /\ bytes \in Seq(Byte)
      /\ t \in Nat /\ initial_q \in Word /\ value_q \in Word /\ n \in Word
      /\ gap \in 0 .. MinGap
  BY <1>1 DEF Init, States
<1>3. /\ ce_q \in BOOLEAN /\ newcmd_q \in BOOLEAN /\ latched_q \in BOOLEAN
      /\ out_q \in BOOLEAN /\ strobe_q \in BOOLEAN
      /\ clr_ncmd_s \in BOOLEAN /\ clr_ce_s \in BOOLEAN
      /\ loaded \in BOOLEAN /\ busy \in BOOLEAN /\ rd_q \in BOOLEAN
  BY DEF Init
<1> QED
  BY <1>2, <1>3 DEF Types

-----------------------------------------------------------------------------
(* Quotient and remainder of a word put together from two halves.           *)
LEMMA Halves ==
  ASSUME NEW b \in Nat, b >= 2, NEW q \in 0 .. b - 1, NEW d \in 0 .. b - 1
  PROVE  (q * b + d) % b = d /\ (q * b + d) \div b = q
<1> DEFINE a == q * b + d
           x == a \div b
           y == a % b
<1>1. q * b \in Nat /\ a \in Nat
  OBVIOUS
<1>2. a = b * x + y /\ x \in Nat /\ y \in 0 .. b - 1
  BY <1>1
<1>3. q * b = b * q
  OBVIOUS
<1>4. b * q + d = b * x + y
  BY <1>2, <1>3
<1> HIDE DEF a, x, y
<1>5. ASSUME x > q PROVE FALSE
  <2>1. b * x >= b * (q + 1)
    BY <1>2, <1>5
  <2>2. b * (q + 1) = b * q + b /\ b * q \in Nat /\ b * x \in Nat
    BY <1>2
  <2> QED
    BY <1>2, <1>4, <2>1, <2>2
<1>6. ASSUME x < q PROVE FALSE
  <2>1. b * q >= b * (x + 1)
    BY <1>2, <1>6
  <2>2. b * (x + 1) = b * x + b /\ b * q \in Nat /\ b * x \in Nat
    BY <1>2
  <2> QED
    BY <1>2, <1>4, <2>1, <2>2
<1>7. x = q
  BY <1>2, <1>5, <1>6
<1>8. y = d
  <2>1. b * q \in Nat
    OBVIOUS
  <2> QED
    BY <1>2, <1>4, <1>7, <2>1
<1> QED
  BY <1>7, <1>8 DEF a, x, y

LEMMA PutByteHalves ==
  ASSUME NEW count \in Word, NEW s, NEW d \in Byte
  PROVE  /\ count % Base \in Byte /\ count \div Base \in Byte
         /\ s[2] = 1 => /\ PutByte(count, s, d) = d * Base + (count % Base)
                        /\ PutByte(count, s, d) \div Base = d
         /\ s[2] = 0 => /\ PutByte(count, s, d) = (count \div Base) * Base + d
                        /\ PutByte(count, s, d) % Base = d
<1>1. Base \in Nat /\ Base >= 2 /\ d \in 0 .. Base - 1 /\ count \in 0 .. Base * Base - 1
  BY BaseAssumption DEF Byte, Word, Modulus
<1> DEFINE q == count \div Base
           r == count % Base
<1>2. count = Base * q + r /\ q \in Nat /\ r \in 0 .. Base - 1
  BY <1>1
<1>3. q \in 0 .. Base - 1
  <2>1. Base * Base \in Nat
    BY <1>1
  <2> HIDE DEF q, r
  <2>2. ASSUME q >= Base PROVE FALSE
    <3>1. Base * q >= Base * Base
      BY <1>1, <1>2, <2>2
    <3> QED
      BY <1>1, <1>2, <2>1, <3>1
  <2> QED
    BY <1>1, <1>2, <2>2
<1> HIDE DEF q, r
<1>4. (d * Base + r) \div Base = d /\ (q * Base + d) % Base = d
  BY <1>1, <1>2, <1>3, Halves
<1>5. s[2] = 1 => PutByte(count, s, d) = d * Base + r
  BY DEF PutByte, r
<1>6. s[2] = 0 => PutByte(count, s, d) = q * Base + d
  BY DEF PutByte, q
<1>7. count % Base \in Byte /\ count \div Base \in Byte
  BY <1>2, <1>3 DEF Byte, q, r
<1> QED
  BY <1>4, <1>5, <1>6, <1>7 DEF q, r

(* How far the count has been written, and what it is so far, shows in      *)
(* state_q: with the word format the half comes first that leads to         *)
(* counting by way of the other, with one byte alone counting starts with a *)
(* byte.  A counter that has taken a count goes on counting.                *)
LastByte == bytes[Len(bytes)]

WordInv ==
  \/ state_q = <<0, 0>> /\ Len(bytes) = 0
  \/ state_q = <<0, 1>> /\ Len(bytes) = 1 /\ initial_q % Base = bytes[1]
  \/ state_q = <<1, 1>> /\ Len(bytes) >= 2 /\ initial_q = bytes[1] + Base * LastByte

LowInv ==
  \/ state_q = <<0, 0>>
  \/ state_q = <<1, 0>> /\ Len(bytes) >= 1 /\ initial_q % Base = LastByte

HighInv ==
  \/ state_q = <<0, 1>> /\ Len(bytes) = 0
  \/ state_q = <<0, 0>> /\ Len(bytes) = 1 /\ initial_q \div Base = bytes[1]
  \/ state_q = <<1, 0>> /\ Len(bytes) >= 2 /\ initial_q = LastByte + Base * bytes[1]

StateInv ==
  /\ mode_q.rw \in {0, 3} => WordInv
  /\ mode_q.rw = 1 => LowInv
  /\ mode_q.rw = 2 => HighInv
  /\ loaded = TRUE => state_q[1] = 1

LEMMA BytesAppend ==
  ASSUME Types, NEW d \in Byte, bytes' = Append(bytes, d)
  PROVE  /\ Len(bytes) \in Nat /\ Len(bytes') = Len(bytes) + 1
         /\ LastByte' = d
         /\ Len(bytes) = 0 => bytes'[1] = d
         /\ Len(bytes) >= 1 => bytes'[1] = bytes[1] /\ bytes[1] \in Byte
         /\ Len(bytes) >= 1 => LastByte \in Byte
<1>1. bytes \in Seq(Byte)
  BY DEF Types
<1> HIDE DEF Byte
<1>2. Len(bytes) \in Nat /\ Len(bytes') = Len(bytes) + 1 /\ bytes'[Len(bytes) + 1] = d
  BY <1>1
<1>3. LastByte' = d
  BY <1>2 DEF LastByte
<1>4. Len(bytes) >= 1 => bytes'[1] = bytes[1] /\ bytes[1] \in Byte /\ bytes[Len(bytes)] \in Byte
  BY <1>1
<1> QED
  BY <1>2, <1>3, <1>4 DEF LastByte

LEMMA StateWrite ==
  ASSUME Types, StateInv, NEW d \in Written, WriteData(d)
  PROVE  StateInv'
<1>1. /\ mode_q' = mode_q /\ mode_q.rw \in 0 .. 3 /\ state_q \in States
      /\ initial_q \in Word /\ d \in Byte /\ loaded' = loaded
      /\ initial_q' = PutByte(initial_q, state_q, d)
      /\ state_q' = IF mode_q.rw \in {1, 2} THEN IF state_q[2] = 0 THEN <<1, 0>> ELSE <<0, 0>>
                    ELSE IF state_q[2] = 0 THEN <<0, 1>> ELSE <<1, 1>>
  BY NextStateValue, WrittenAssumption DEF WriteData, Types, Byte
<1>2. /\ Len(bytes) \in Nat /\ Len(bytes') = Len(bytes) + 1 /\ LastByte' = d
      /\ Len(bytes) = 0 => bytes'[1] = d
      /\ Len(bytes) >= 1 => bytes'[1] = bytes[1] /\ bytes[1] \in Byte /\ LastByte \in Byte
  BY <1>1, BytesAppend DEF WriteData
<1>3. /\ initial_q % Base \in Byte /\ initial_q \div Base \in Byte
      /\ state_q[2] = 1 => /\ initial_q' = d * Base + (initial_q % Base)
                           /\ initial_q' \div Base = d
      /\ state_q[2] = 0 => /\ initial_q' = (initial_q \div Base) * Base + d
                           /\ initial_q' % Base = d
  BY <1>1, PutByteHalves
<1>4. ASSUME NEW x \in Byte, NEW y \in Byte, initial_q = x + Base * y
      PROVE  initial_q % Base = x /\ initial_q \div Base = y
  <2>1. Base \in Nat /\ Base >= 2 /\ x \in 0 .. Base - 1 /\ y \in 0 .. Base - 1
    BY BaseAssumption DEF Byte
  <2>2. initial_q = y * Base + x
    BY <1>4, <2>1
  <2> QED
    BY <2>1, <2>2, Halves
<1>5. \A x, y \in Byte : x * Base + y = y + Base * x
  BY BaseAssumption DEF Byte
<1>6. Base' = Base
  OBVIOUS
<1> HIDE DEF Byte, LastByte
<1>7. CASE mode_q.rw \in {0, 3}
  <2>1. CASE state_q = <<0, 0>> /\ Len(bytes) = 0
    BY <1>1, <1>2, <1>3, <1>7, <2>1 DEF StateInv, WordInv
  <2>2. CASE state_q = <<0, 1>> /\ Len(bytes) = 1 /\ initial_q % Base = bytes[1]
    <3>1. initial_q' = d * Base + bytes[1]
      BY <1>3, <2>2
    <3>2. initial_q' = bytes[1] + Base * d
      BY <1>1, <1>2, <1>5, <2>2, <3>1
    <3>3. state_q' = <<1, 1>> /\ Len(bytes') >= 2 /\ bytes'[1] = bytes[1] /\ LastByte' = d
      BY <1>1, <1>2, <1>7, <2>2
    <3> QED
      BY <1>1, <1>7, <3>2, <3>3 DEF StateInv, WordInv
  <2>3. CASE /\ state_q = <<1, 1>> /\ Len(bytes) >= 2
             /\ initial_q = bytes[1] + Base * LastByte
    <3>1. initial_q % Base = bytes[1]
      BY <1>2, <1>4, <2>3
    <3>2. initial_q' = bytes[1] + Base * d
      BY <1>1, <1>2, <1>3, <1>5, <2>3, <3>1
    <3>3. state_q' = <<1, 1>> /\ Len(bytes') >= 2 /\ bytes'[1] = bytes[1] /\ LastByte' = d
      BY <1>1, <1>2, <1>7, <2>3
    <3> QED
      BY <1>1, <1>7, <3>2, <3>3 DEF StateInv, WordInv
  <2> QED
    BY <1>7, <2>1, <2>2, <2>3 DEF StateInv, WordInv
<1>8. CASE mode_q.rw = 1
  <2>1. state_q' = <<1, 0>> /\ state_q[2] = 0
    BY <1>1, <1>8 DEF StateInv, LowInv
  <2> QED
    BY <1>1, <1>2, <1>3, <1>8, <2>1 DEF StateInv, LowInv
<1>9. CASE mode_q.rw = 2
  <2>1. CASE state_q = <<0, 1>> /\ Len(bytes) = 0
    BY <1>1, <1>2, <1>3, <1>9, <2>1 DEF StateInv, HighInv
  <2>2. CASE \/ state_q = <<0, 0>> /\ Len(bytes) = 1 /\ initial_q \div Base = bytes[1]
             \/ /\ state_q = <<1, 0>> /\ Len(bytes) >= 2
                /\ initial_q = LastByte + Base * bytes[1]
    <3>1. initial_q \div Base = bytes[1] /\ bytes[1] \in Byte
      BY <1>2, <1>4, <2>2
    <3>2. initial_q' = d + Base * bytes[1]
      BY <1>1, <1>3, <1>5, <2>2, <3>1
    <3>3. state_q' = <<1, 0>> /\ Len(bytes') >= 2 /\ bytes'[1] = bytes[1] /\ LastByte' = d
      BY <1>1, <1>2, <1>9, <2>2
    <3> QED
      BY <1>1, <1>9, <3>2, <3>3 DEF StateInv, HighInv
  <2> QED
    BY <1>9, <2>1, <2>2 DEF StateInv, HighInv
<1> QED
  BY <1>1, <1>7, <1>8, <1>9

LEMMA StateCommand ==
  ASSUME Types, StateInv, NEW rw \in Formats, NEW m \in Modes, WriteCommand(rw, m)
  PROVE  StateInv'
<1>1. rw \in 0 .. 3 /\ initial_q' = initial_q
  BY FormatsAssumption DEF WriteCommand
<1>2. CASE rw = 0
  BY <1>1, <1>2 DEF WriteCommand, StateInv, WordInv, LowInv, HighInv, LastByte
<1>3. CASE rw # 0
  <2>1. /\ mode_q'.rw = rw /\ state_q' = <<0, Bit(rw = 2)>>
        /\ bytes' = <<>> /\ loaded' = FALSE
    BY <1>3 DEF WriteCommand, CommandState
  <2>2. Len(bytes') = 0
    BY <2>1
  <2>3. CASE rw = 2
    <3>1. state_q' = <<0, 1>> /\ mode_q'.rw = 2
      BY <2>1, <2>3 DEF Bit
    <3> QED
      BY <2>1, <2>2, <3>1 DEF StateInv, HighInv
  <2>4. CASE rw # 2
    <3>1. state_q' = <<0, 0>> /\ mode_q'.rw # 2
      BY <2>1, <2>4 DEF Bit
    <3> QED
      BY <2>1, <2>2, <3>1 DEF StateInv, WordInv, LowInv
  <2> QED
    BY <2>3, <2>4
<1> QED
  BY <1>2, <1>3

LEMMA StateStep == Types /\ StateInv /\ [Next]_vars => StateInv'
<1> SUFFICES ASSUME Types, StateInv, [Next]_vars PROVE StateInv'
  OBVIOUS
<1>1. CASE BusEdge
  <2>1. CASE Read \/ NoAccess
    BY <2>1 DEF Read, NoAccess, StateInv, WordInv, LowInv, HighInv, LastByte
  <2> QED
    BY <1>1, <2>1, BusCases, StateWrite, StateCommand
<1>2. CASE CountEdge
  <2>1. UNCHANGED <<state_q, mode_q, initial_q, bytes>>
    BY <1>2, CountCases DEF registers
  <2>2. loaded' = TRUE => state_q[1] = 1
    BY <1>2 DEF CountEdge, Enabled, StateInv
  <2> QED
    BY <2>1, <2>2 DEF StateInv, WordInv, LowInv, HighInv, LastByte
<1>3. CASE UNCHANGED vars
  BY <1>3 DEF vars, registers, history, StateInv, WordInv, LowInv, HighInv, LastByte
<1> QED
  BY <1>1, <1>2, <1>3 DEF Next

LEMMA StateInit == Init => StateInv
<1> SUFFICES ASSUME Init PROVE StateInv
  OBVIOUS
<1>1. state_q = <<0, 0>> /\ mode_q.rw = 0 /\ loaded = FALSE /\ Len(bytes) = 0
  BY DEF Init
<1> QED
  BY <1>1 DEF StateInv, WordInv

(* The counter stands still exactly while reads are owed to a latch.        *)
LatchInv ==
  /\ owed \in 0 .. 2
  /\ owed > 0 <=> latched_q = TRUE
  /\ owed = 1 <=> latched_q = TRUE /\ rd_q = TRUE

LEMMA LatchStep == Types /\ LatchInv /\ [Next]_vars => LatchInv'
<1> SUFFICES ASSUME Types, LatchInv, [Next]_vars PROVE LatchInv'
  OBVIOUS
<1>1. latched_q \in BOOLEAN /\ rd_q \in BOOLEAN /\ owed \in 0 .. 2
  BY DEF Types, LatchInv
<1>2. CASE \E d \in Written : WriteData(d)
  <2>1. latched_q' = latched_q /\ rd_q' = FALSE /\ owed' = IF owed > 0 THEN 2 ELSE 0
    BY <1>2 DEF WriteData, OwedAfterWrite
  <2> QED
    BY <1>1, <2>1 DEF LatchInv
<1>3. CASE \E rw \in Formats, m \in Modes : WriteCommand(rw, m)
  <2>1. /\ rd_q' = FALSE
        /\ \/ latched_q' = latched_q /\ owed' = IF owed > 0 THEN 2 ELSE 0
           \/ latched_q' = (mode_q.rw = 3) /\ owed' = IF mode_q.rw = 3 THEN 2 ELSE 0
    BY <1>3 DEF WriteCommand, OwedAfterWrite
  <2>2. CASE latched_q' = latched_q /\ owed' = IF owed > 0 THEN 2 ELSE 0
    BY <1>1, <2>1, <2>2 DEF LatchInv
  <2>3. CASE latched_q' = (mode_q.rw = 3) /\ owed' = IF mode_q.rw = 3 THEN 2 ELSE 0
    <3>1. CASE mode_q.rw = 3
      <4>1. latched_q' = TRUE /\ owed' = 2
        BY <2>3, <3>1, Zenon
      <4> QED
        BY <2>1, <4>1 DEF LatchInv
    <3>2. CASE mode_q.rw # 3
      <4>1. latched_q' = FALSE /\ owed' = 0
        BY <2>3, <3>2, Zenon
      <4> QED
        BY <2>1, <4>1 DEF LatchInv
    <3> QED
      BY <3>1, <3>2
  <2> QED
    BY <2>1, <2>2, <2>3
<1>4. CASE Read
  <2>1. /\ rd_q' = ~rd_q /\ latched_q' = (latched_q /\ ~rd_q)
        /\ owed' = IF owed > 0 THEN owed - 1 ELSE 0
    BY <1>4 DEF Read
  <2>2. CASE latched_q = TRUE
    <3>1. CASE rd_q = TRUE
      <4>1. latched_q' = FALSE /\ rd_q' = FALSE
        BY <2>1, <3>1, Zenon
      <4> QED
        BY <1>1, <2>1, <2>2, <3>1, <4>1 DEF LatchInv
    <3>2. CASE rd_q = FALSE
      <4>1. latched_q' = TRUE /\ rd_q' = TRUE
        BY <2>1, <2>2, <3>2, Zenon
      <4> QED
        BY <1>1, <2>1, <2>2, <3>2, <4>1 DEF LatchInv
    <3> QED
      BY <1>1, <3>1, <3>2
  <2>3. CASE latched_q = FALSE
    <3>1. latched_q' = FALSE /\ owed = 0
      BY <1>1, <2>1, <2>3 DEF LatchInv
    <3> QED
      BY <2>1, <3>1 DEF LatchInv
  <2> QED
    BY <1>1, <2>2, <2>3
<1>5. CASE UNCHANGED <<latched_q, rd_q, owed>>
  BY <1>5 DEF LatchInv
<1>6. CASE BusEdge
  BY <1>2, <1>3, <1>4, <1>5, <1>6, BusCases DEF NoAccess
<1>7. CASE CountEdge
  BY <1>5, <1>7, CountCases DEF registers
<1>8. CASE UNCHANGED vars
  BY <1>5, <1>8 DEF vars, registers, history
<1> QED
  BY <1>6, <1>7, <1>8 DEF Next

LEMMA LatchInit == Init => LatchInv
  BY DEF Init, LatchInv

(* No load takes a count of which a byte is missing, and every count taken  *)
(* is put together from the first byte after the command and the last one,  *)
(* whatever the bus writes in whatever order on the other clock.            *)
THEOREM TakesComposed == Spec => CountTaken
<1>1. Types /\ StateInv /\ LatchInv /\ [Next]_vars =>
        [CountEdge /\ Enabled /\ t' = 0 => Composed(n')]_vars
  <2> SUFFICES ASSUME Types, StateInv, LatchInv, CountEdge, Enabled, t' = 0
               PROVE  Composed(n')
    OBVIOUS
  <2>1. owed = 0
    BY DEF LatchInv, Enabled, Types
  <2>2. ASSUME NEW k \in {1, 2}, CountDown(k) PROVE FALSE
    <3>1. t' = IF t <= Modulus THEN t + 1 ELSE t
      BY <2>1, <2>2 DEF CountDown, Tick
    <3>2. t \in Nat /\ Modulus \in Nat
      BY ModulusEven DEF Types
    <3> QED
      BY <3>1, <3>2
  <2>3. n' = initial_q
    <3>1. OneShot \/ Rate \/ Square \/ Strobe
      BY CountCases
    <3> QED
      BY <2>2, <3>1 DEF OneShot, Rate, Square, Strobe, Load
  <2>4. Composed(initial_q)
    <3>1. mode_q.rw \in 0 .. 3 /\ state_q[1] = 1
      BY DEF Types, Enabled
    <3>2. CASE mode_q.rw \in {0, 3}
      <4>1. Len(bytes) >= 2 /\ initial_q = bytes[1] + Base * LastByte
        BY <3>1, <3>2 DEF StateInv, WordInv
      <4> QED
        BY <3>2, <4>1 DEF Composed, LastByte
    <3>3. CASE mode_q.rw = 1
      <4>1. Len(bytes) >= 1 /\ initial_q % Base = LastByte
        BY <3>1, <3>3 DEF StateInv, LowInv
      <4> QED
        BY <3>3, <4>1 DEF Composed, LastByte
    <3>4. CASE mode_q.rw = 2
      <4>1. Len(bytes) >= 2 /\ initial_q = LastByte + Base * bytes[1]
        BY <3>1, <3>4 DEF StateInv, HighInv
      <4> QED
        BY <3>4, <4>1 DEF Composed, LastByte
    <3> QED
      BY <3>1, <3>2, <3>3, <3>4
  <2> QED
    BY <2>3, <2>4
<1> QED
  BY <1>1, TypesInit, TypesStep, StateInit, StateStep, LatchInit, LatchStep, PTL
  DEF Spec, CountTaken

-----------------------------------------------------------------------------
(* The wave.  While the counter works on a count, its value is what is left *)
(* of it after t edges; it goes round once more at most before the modes    *)
(* that do not reload have nothing left to do.                             *)
Counts == t <= Modulus => value_q = IF t <= n THEN n - t ELSE n - t + Modulus

OneShotInv ==
  Counts /\ ((out_q = TRUE) <=> t >= Turns(n))

(* The modes that reload never finish a count.                              *)
RateInv ==
  Counts /\ t < Turns(n) /\ (t > 0 => ((out_q = FALSE) <=> value_q = 1))

StrobeInv ==
  /\ Counts
  /\ (strobe_q = TRUE) <=> t < Turns(n)
  /\ (out_q = FALSE) <=> t = Turns(n)

(* Counting by two: the half of the wave that is high takes an odd count    *)
(* and one, the other half takes it less one.                              *)
Span == IF out_q = TRUE THEN Turns(n) ELSE Turns(n) - (n % 2)

SquareInv ==
  n # 1 => /\ 2 * t < Span
           /\ value_q = IF t = 0 /\ n = 0 THEN 0 ELSE Span - 2 * t

WaveInv ==
  loaded = TRUE => /\ mode_q.m \in {0, 1} => OneShotInv
                   /\ mode_q.m \in {2, 6} => RateInv
                   /\ mode_q.m \in {3, 7} => SquareInv
                   /\ mode_q.m \in {4, 5} => StrobeInv

LEMMA TurnsFacts ==
  ASSUME NEW v \in Word
  PROVE  /\ Turns(v) \in 1 .. Modulus /\ v \in Nat /\ v < Modulus
         /\ v = 0 => Turns(v) = Modulus
         /\ v # 0 => Turns(v) = v
  BY ModulusEven DEF Word, Turns

(* One count less, and whether it was the last.                             *)
LEMMA CountsDown ==
  ASSUME Types, Counts, owed = 0, CountDown(1)
  PROVE  /\ Counts' /\ Turns(n)' = Turns(n) /\ Turns(n) \in 1 .. Modulus
         /\ t \in Nat /\ t' = IF t <= Modulus THEN t + 1 ELSE t
         /\ t + 1 = Turns(n) => value_q = 1
         /\ value_q = 1 => t + 1 = Turns(n) \/ t >= Modulus
         /\ t = Turns(n) => value_q # 1
<1> DEFINE M == Modulus
           v == value_q
           c == n
           T == Turns(n)
<1>1. /\ M \in Nat /\ M >= 4 /\ v \in Nat /\ c \in Nat /\ c < M /\ t \in Nat
      /\ T = IF c = 0 THEN M ELSE c
      /\ t <= M => v = IF t <= c THEN c - t ELSE c - t + M
  BY ModulusEven DEF Types, Word, Turns, Counts
<1>2. /\ value_q' = IF v >= 1 THEN v - 1 ELSE v - 1 + M
      /\ n' = n /\ t' = IF t <= M THEN t + 1 ELSE t
  BY DownTypes
<1>3. M' = M /\ Turns(n)' = Turns(n)
  BY <1>2 DEF Turns, Modulus
<1> HIDE DEF M, v, c, T
<1>4. t + 1 <= M => value_q' = IF t + 1 <= c THEN c - (t + 1) ELSE c - (t + 1) + M
  BY <1>1, <1>2
<1>5. t + 1 = T => v = 1
  BY <1>1
<1>6. v = 1 => t + 1 = T \/ t >= M
  BY <1>1
<1>7. T \in 1 .. M
  BY <1>1
<1>9. t = T => v # 1
  BY <1>1
<1>8. Counts'
  <2>1. t' <= M => t' = t + 1
    BY <1>1, <1>2
  <2>2. t' <= M => value_q' = IF t' <= c THEN c - t' ELSE c - t' + M
    BY <1>4, <2>1
  <2> QED
    BY <1>2, <1>3, <2>2 DEF Counts, M, c
<1> QED
  BY <1>1, <1>2, <1>3, <1>5, <1>6, <1>7, <1>8, <1>9 DEF M, v, T

(* The edge at which the count register is taken.                           *)
LEMMA CountsLoaded ==
  ASSUME Types, Load(initial_q)
  PROVE  /\ Counts' /\ t' = 0 /\ Turns(n)' \in 1 .. Modulus
<1>1. value_q' = initial_q /\ n' = initial_q /\ t' = 0
  BY DEF Load
<1>2. Turns(initial_q) \in 1 .. Modulus /\ initial_q \in Nat
  BY TurnsFacts DEF Types
<1>3. Turns(n)' = Turns(initial_q)
  BY <1>1 DEF Turns, Modulus
<1>4. Counts'
  BY <1>1, <1>2 DEF Counts
<1> QED
  BY <1>1, <1>2, <1>3, <1>4

LEMMA OneShotStep ==
  ASSUME Types, owed = 0, OneShot, loaded' = TRUE, loaded = TRUE => OneShotInv
  PROVE  OneShotInv'
<1>1. CASE ce_q
  <2>1. Load(initial_q) /\ out_q' = FALSE
    BY <1>1 DEF OneShot
  <2>2. Counts' /\ t' = 0 /\ Turns(n)' \in 1 .. Modulus
    BY <2>1, CountsLoaded
  <2>3. ~(t' >= Turns(n)')
    BY <2>2, ModulusEven
  <2> QED
    BY <2>1, <2>2, <2>3 DEF OneShotInv
<1>2. CASE ~ce_q
  <2>1. CountDown(1) /\ out_q' = (out_q \/ value_q = 1) /\ out_q \in BOOLEAN
    BY <1>2 DEF OneShot, Terminal, Types
  <2>2. Counts /\ ((out_q = TRUE) <=> t >= Turns(n))
    BY <2>1 DEF CountDown, OneShotInv
  <2>3. /\ Counts' /\ Turns(n)' = Turns(n) /\ Turns(n) \in 1 .. Modulus
        /\ t \in Nat /\ t' = IF t <= Modulus THEN t + 1 ELSE t
        /\ t + 1 = Turns(n) => value_q = 1
        /\ value_q = 1 => t + 1 = Turns(n) \/ t >= Modulus
    BY <2>1, <2>2, CountsDown
  <2>4. t' >= Turns(n) <=> t >= Turns(n) \/ value_q = 1
    BY <2>3, ModulusEven
  <2>5. (out_q' = TRUE) <=> (out_q = TRUE \/ value_q = 1)
    BY <2>1, Zenon
  <2> QED
    BY <2>2, <2>3, <2>4, <2>5 DEF OneShotInv
<1> QED
  BY <1>1, <1>2

LEMMA StrobeStep ==
  ASSUME Types, owed = 0, Strobe, loaded' = TRUE, loaded = TRUE => StrobeInv
  PROVE  StrobeInv'
<1>1. CASE ce_q
  <2>1. Load(initial_q) /\ out_q' = TRUE /\ strobe_q' = TRUE
    BY <1>1 DEF Strobe
  <2>2. Counts' /\ t' = 0 /\ Turns(n)' \in 1 .. Modulus
    BY <2>1, CountsLoaded
  <2>3. t' < Turns(n)' /\ t' # Turns(n)'
    BY <2>2, ModulusEven
  <2> QED
    BY <2>1, <2>2, <2>3 DEF StrobeInv
<1>2. CASE ~ce_q
  <2>1. /\ CountDown(1)
        /\ out_q' = IF value_q = 1 THEN out_q /\ ~strobe_q ELSE TRUE
        /\ strobe_q' = (strobe_q /\ ~(value_q = 1))
        /\ out_q \in BOOLEAN /\ strobe_q \in BOOLEAN
    BY <1>2 DEF Strobe, Terminal, StrobeOver, Types
  <2>2. /\ Counts
        /\ (strobe_q = TRUE) <=> t < Turns(n)
        /\ (out_q = FALSE) <=> t = Turns(n)
    BY <2>1 DEF CountDown, StrobeInv
  <2>3. /\ Counts' /\ Turns(n)' = Turns(n) /\ Turns(n) \in 1 .. Modulus
        /\ t \in Nat /\ t' = IF t <= Modulus THEN t + 1 ELSE t
        /\ t + 1 = Turns(n) => value_q = 1
        /\ value_q = 1 => t + 1 = Turns(n) \/ t >= Modulus
    BY <2>1, <2>2, CountsDown
  <2>4. t' < Turns(n) <=> t < Turns(n) /\ value_q # 1
    BY <2>3, ModulusEven
  <2>5. t' = Turns(n) <=> value_q = 1 /\ t < Turns(n)
    BY <2>3, ModulusEven
  <2>6. (strobe_q' = TRUE) <=> (strobe_q = TRUE /\ value_q # 1)
    BY <2>1, Zenon
  <2>7. (out_q' = FALSE) <=> (value_q = 1 /\ (out_q = FALSE \/ strobe_q = TRUE))
    BY <2>1, Zenon
  <2>8. value_q = 1 => t # Turns(n)
    BY <2>1, <2>2, CountsDown
  <2> QED
    BY <2>2, <2>3, <2>4, <2>5, <2>6, <2>7, <2>8 DEF StrobeInv
<1> QED
  BY <1>1, <1>2

LEMMA RateStep ==
  ASSUME Types, owed = 0, Rate, loaded' = TRUE, loaded = TRUE => RateInv
  PROVE  RateInv'
<1>1. CASE value_q = 1 \/ newcmd_q
  <2>1. Load(initial_q)
    BY <1>1 DEF Rate
  <2>2. Counts' /\ t' = 0 /\ Turns(n)' \in 1 .. Modulus
    BY <2>1, CountsLoaded
  <2>3. t' < Turns(n)' /\ ~(t' > 0)
    BY <2>2, ModulusEven
  <2> QED
    BY <2>2, <2>3 DEF RateInv
<1>2. CASE value_q # 1 /\ ~newcmd_q
  <2>1. CountDown(1) /\ out_q' = ~(value_q = 2)
    BY <1>2 DEF Rate, PulseAt
  <2>2. Counts /\ t < Turns(n)
    BY <2>1 DEF CountDown, RateInv
  <2>3. /\ Counts' /\ Turns(n)' = Turns(n) /\ Turns(n) \in 1 .. Modulus
        /\ t \in Nat /\ t' = IF t <= Modulus THEN t + 1 ELSE t
        /\ t + 1 = Turns(n) => value_q = 1
    BY <2>1, <2>2, CountsDown
  <2>4. t' < Turns(n)
    BY <1>2, <2>2, <2>3, ModulusEven
  <2>5. value_q' = 1 <=> value_q = 2
    <3>1. value_q' = IF value_q >= 1 THEN value_q - 1 ELSE value_q - 1 + Modulus
      BY <2>1, DownTypes
    <3>2. value_q \in Nat
      BY TurnsFacts DEF Types
    <3> QED
      BY <3>1, <3>2, ModulusEven
  <2>6. (out_q' = FALSE) <=> value_q = 2
    BY <2>1, Zenon
  <2> QED
    BY <2>3, <2>4, <2>5, <2>6 DEF RateInv
<1> QED
  BY <1>1, <1>2 DEF Types

(* Counting by two, for any place in a half of the wave.                    *)
LEMMA SquareCount ==
  ASSUME Types, n # 1, SquareInv
  PROVE  /\ t \in Nat /\ Span \in 1 .. Modulus /\ value_q \in Nat
         /\ 2 * t < Span
         /\ value_q = IF t = 0 /\ n = 0 THEN 0 ELSE Span - 2 * t
         /\ t = 0 /\ n = 0 => Span = Modulus
<1>1. /\ Modulus \in Nat /\ Modulus >= 4 /\ n \in Nat /\ n < Modulus
      /\ Turns(n) = IF n = 0 THEN Modulus ELSE n
  BY ModulusEven, TurnsFacts DEF Types
<1>2. n % 2 \in {0, 1} /\ (n = 0 => n % 2 = 0)
  BY <1>1
<1>3. Span \in 1 .. Modulus /\ (n = 0 => Span = Modulus)
  <2>1. CASE out_q = TRUE
    BY <1>1, <2>1 DEF Span
  <2>2. CASE out_q # TRUE
    BY <1>1, <1>2, <2>2 DEF Span
  <2> QED
    BY <2>1, <2>2
<1> QED
  BY <1>3, TurnsFacts DEF Types, SquareInv

LEMMA SquareStep ==
  ASSUME Types, owed = 0, Square, loaded' = TRUE, loaded = TRUE => SquareInv
  PROVE  SquareInv'
<1>1. CASE value_q \in {1, 2} \/ newcmd_q
  <2> DEFINE high == ~out_q \/ newcmd_q
             c == initial_q
  <2>1. /\ out_q' = high /\ high \in BOOLEAN
        /\ value_q' = Half(c, high) /\ n' = c /\ t' = 0
    BY <1>1 DEF Square, Load, Types
  <2>2. /\ c \in Nat /\ c < Modulus /\ Modulus \in Nat /\ Modulus >= 4
        /\ Turns(c) = IF c = 0 THEN Modulus ELSE c
    BY ModulusEven, TurnsFacts DEF Types
  <2> HIDE DEF high, c
  <2>3. Span' = IF high = TRUE THEN Turns(c) ELSE Turns(c) - (c % 2)
    BY <2>1 DEF Span, Turns, Modulus
  <2>4. c % 2 \in {0, 1} /\ (c = 0 => c % 2 = 0)
    BY <2>2
  <2>5. value_q' = IF high = TRUE \/ c % 2 = 0 THEN c ELSE c - 1
    BY <2>1 DEF Half
  <2>6. ASSUME c # 1
        PROVE  0 < Span' /\ value_q' = IF c = 0 THEN 0 ELSE Span'
    <3>1. CASE high = TRUE
      BY <2>2, <2>3, <2>5, <3>1
    <3>2. CASE high # TRUE
      BY <2>2, <2>3, <2>4, <2>5, <2>6, <3>2
    <3> QED
      BY <3>1, <3>2
  <2>7. Span' \in Int
    <3>1. CASE high = TRUE
      BY <2>2, <2>3, <3>1
    <3>2. CASE high # TRUE
      BY <2>2, <2>3, <2>4, <3>2
    <3> QED
      BY <3>1, <3>2
  <2> QED
    BY <2>1, <2>6, <2>7 DEF SquareInv
<1>2. CASE value_q \notin {1, 2} /\ ~newcmd_q
  <2>1. CountDown(2) /\ out_q' = out_q
    BY <1>2 DEF Square
  <2>2. /\ value_q' = IF value_q >= 2 THEN value_q - 2 ELSE value_q - 2 + Modulus
        /\ n' = n /\ t' = IF t <= Modulus THEN t + 1 ELSE t
    BY <2>1, DownTypes
  <2>3. SquareInv
    BY <2>1 DEF CountDown
  <2>4. ASSUME n # 1
        PROVE  /\ 2 * t' < Span /\ t' # 0
               /\ value_q' = Span - 2 * t'
    <3> DEFINE S == Span
               M == Modulus
               v == value_q
    <3>1. /\ t \in Nat /\ S \in 1 .. M /\ v \in Nat /\ 2 * t < S
          /\ v = IF t = 0 /\ n = 0 THEN 0 ELSE S - 2 * t
          /\ t = 0 /\ n = 0 => S = M
          /\ M \in Nat /\ M >= 4 /\ v # 1 /\ v # 2
      BY <1>2, <2>3, <2>4, SquareCount, ModulusEven
    <3>2. /\ value_q' = IF v >= 2 THEN v - 2 ELSE v - 2 + M
          /\ t' = IF t <= M THEN t + 1 ELSE t
      BY <2>2
    <3> HIDE DEF S, M, v
    <3>3. t' = t + 1
      BY <3>1, <3>2
    <3>4. CASE t = 0 /\ n = 0
      BY <3>1, <3>2, <3>3, <3>4 DEF S
    <3>5. CASE ~(t = 0 /\ n = 0)
      BY <3>1, <3>2, <3>3, <3>5 DEF S
    <3> QED
      BY <3>4, <3>5
  <2>5. Span' = Span
    BY <2>1, <2>2 DEF Span, Turns, Modulus
  <2> QED
    BY <2>2, <2>4, <2>5 DEF SquareInv
<1> QED
  BY <1>1, <1>2 DEF Types

LEMMA WaveStep == Types /\ StateInv /\ LatchInv /\ WaveInv /\ [Next]_vars => WaveInv'
<1> SUFFICES ASSUME Types, StateInv, LatchInv, WaveInv, [Next]_vars PROVE WaveInv'
  OBVIOUS
<1>1. ASSUME /\ out_q' = out_q /\ value_q' = value_q /\ strobe_q' = strobe_q
             /\ n' = n
             /\ (t' = t /\ loaded' = loaded /\ mode_q' = mode_q) \/ loaded' = FALSE
      PROVE  WaveInv'
  BY <1>1 DEF WaveInv, OneShotInv, RateInv, SquareInv, StrobeInv, Counts, Turns, Span, Modulus
<1>2. CASE BusEdge
  <2>1. (loaded' = loaded /\ mode_q' = mode_q) \/ loaded' = FALSE
    BY <1>2, BusCases DEF WriteData, WriteCommand, Read, NoAccess
  <2> QED
    BY <1>1, <1>2, <2>1, BusCases
<1>3. CASE CountEdge
  <2>1. mode_q' = mode_q /\ loaded' \in BOOLEAN /\ mode_q.m \in 0 .. 7
    BY <1>3, CountCases, CountTypes DEF registers, Types
  <2>2. CASE ~Enabled /\ Tick /\ UNCHANGED <<out_q, value_q, strobe_q, n, loaded>>
    <3>1. CASE loaded = TRUE
      <4>1. latched_q = TRUE
        BY <2>2, <3>1 DEF StateInv, Enabled, Types
      <4>2. owed # 0
        BY <4>1 DEF LatchInv
      <4> QED
        BY <1>1, <2>1, <2>2, <4>2 DEF Tick
    <3>2. CASE loaded = FALSE
      BY <1>1, <2>1, <2>2, <3>2
    <3> QED
      BY <3>1, <3>2 DEF Types
  <2>7. owed = 0 \/ ~Enabled
    BY DEF LatchInv, Enabled, Types
  <2>3. CASE owed = 0 /\ mode_q.m \in {0, 1} /\ OneShot
    <3>1. loaded = TRUE => OneShotInv
      BY <2>3 DEF WaveInv
    <3>2. loaded' = TRUE => OneShotInv'
      BY <2>3, <3>1, OneShotStep
    <3>3. mode_q'.m \in {0, 1}
      BY <2>1, <2>3
    <3> QED
      BY <3>2, <3>3 DEF WaveInv
  <2>4. CASE owed = 0 /\ mode_q.m \in {2, 6} /\ Rate
    <3>1. loaded = TRUE => RateInv
      BY <2>4 DEF WaveInv
    <3>2. loaded' = TRUE => RateInv'
      BY <2>4, <3>1, RateStep
    <3>3. mode_q'.m \in {2, 6}
      BY <2>1, <2>4
    <3> QED
      BY <3>2, <3>3 DEF WaveInv
  <2>5. CASE owed = 0 /\ mode_q.m \in {3, 7} /\ Square
    <3>1. loaded = TRUE => SquareInv
      BY <2>5 DEF WaveInv
    <3>2. loaded' = TRUE => SquareInv'
      BY <2>5, <3>1, SquareStep
    <3>3. mode_q'.m \in {3, 7}
      BY <2>1, <2>5
    <3> QED
      BY <3>2, <3>3 DEF WaveInv
  <2>6. CASE owed = 0 /\ mode_q.m \in {4, 5} /\ Strobe
    <3>1. loaded = TRUE => StrobeInv
      BY <2>6 DEF WaveInv
    <3>2. loaded' = TRUE => StrobeInv'
      BY <2>6, <3>1, StrobeStep
    <3>3. mode_q'.m \in {4, 5}
      BY <2>1, <2>6
    <3> QED
      BY <3>2, <3>3 DEF WaveInv
  <2> QED
    BY <1>3, <2>2, <2>3, <2>4, <2>5, <2>6, <2>7, CountCases
<1>4. CASE UNCHANGED vars
  BY <1>1, <1>4 DEF vars, registers, counting, history
<1> QED
  BY <1>2, <1>3, <1>4 DEF Next

(* The output of the modes that are not square waves is exact, edge by      *)
(* edge, for every count and whatever is commanded, written or read         *)
(* meanwhile on the other clock; the edges it stands still are those from a *)
(* latch command to the second read of the latched count.                  *)
THEOREM OutputExact == Spec => []OutputTiming
<1>1. Init => WaveInv
  BY DEF Init, WaveInv
<1>2. Types /\ WaveInv => OutputTiming
  <2> SUFFICES ASSUME Types, WaveInv PROVE OutputTiming
    OBVIOUS
  <2>1. OneShotTiming
    BY DEF Types, WaveInv, OneShotInv, OneShotTiming
  <2>2. StrobeTiming
    BY DEF Types, WaveInv, StrobeInv, StrobeTiming
  <2>3. RateTiming
    <3> SUFFICES ASSUME loaded, mode_q.m \in {2, 6}, t > 0, Turns(n) > 1
                 PROVE  ~out_q <=> t = Turns(n) - 1
      BY DEF RateTiming
    <3>1. RateInv
      BY DEF Types, WaveInv
    <3>2. (out_q = FALSE) <=> value_q = 1
      BY <3>1 DEF RateInv
    <3>3. value_q = 1 <=> t = Turns(n) - 1
      <4>1. /\ t < Turns(n) /\ t \in Nat /\ n \in Nat /\ n < Modulus /\ Modulus \in Nat
            /\ Turns(n) = IF n = 0 THEN Modulus ELSE n
            /\ t <= Modulus => value_q = IF t <= n THEN n - t ELSE n - t + Modulus
        BY <3>1, TurnsFacts, ModulusEven DEF Types, RateInv, Counts
      <4> QED
        BY <4>1
    <3> QED
      BY <3>2, <3>3 DEF Types
  <2> QED
    BY <2>1, <2>2, <2>3 DEF OutputTiming
<1> QED
  BY <1>1, <1>2, TypesInit, TypesStep, StateInit, StateStep, LatchInit, LatchStep, WaveStep, PTL
  DEF Spec

(* A high or low half ends after exactly its share of the count.            *)
LEMMA SquareExact ==
  ASSUME Types, WaveInv, owed = 0, CountEdge, loaded, Enabled, mode_q.m \in {3, 7}, Turns(n) > 1,
         ~newcmd_q, t' = 0
  PROVE  t + 1 = IF out_q THEN (Turns(n) + 1) \div 2 ELSE Turns(n) \div 2
<1>1. Square
  BY DEF CountEdge
<1>2. n # 1 /\ SquareInv
  BY DEF Turns, Types, WaveInv
<1> DEFINE S == Span
           M == Modulus
           T == Turns(n)
           v == value_q
<1>3. /\ t \in Nat /\ S \in 1 .. M /\ v \in Nat /\ 2 * t < S
      /\ v = IF t = 0 /\ n = 0 THEN 0 ELSE S - 2 * t
      /\ M \in Nat /\ n \in Nat
      /\ T = IF n = 0 THEN M ELSE n
  BY <1>2, SquareCount, TurnsFacts, ModulusEven DEF Types
<1>4. v \in {1, 2}
  <2>1. CASE CountDown(2)
    <3>1. t' = IF t <= M THEN t + 1 ELSE t
      BY <2>1, DownTypes
    <3> HIDE DEF M
    <3> QED
      BY <1>3, <3>1
  <2> QED
    BY <1>1, <2>1 DEF Square
<1>5. S = IF out_q = TRUE THEN T ELSE T - (n % 2)
  BY DEF Span
<1> HIDE DEF S, M, T, v
<1>6. S - 2 * t \in {1, 2}
  BY <1>3, <1>4
<1>7. CASE out_q = TRUE
  <2>1. T = 2 * t + 1 \/ T = 2 * t + 2
    BY <1>3, <1>5, <1>6, <1>7
  <2>2. (T + 1) \div 2 = t + 1
    BY <1>3, <2>1
  <2> QED
    BY <1>7, <2>2 DEF T
<1>8. CASE out_q = FALSE
  <2>1. \E h \in Nat : M = 2 * h
    BY ModulusEven DEF M
  <2>2. CASE n = 0
    <3>1. S = M /\ T = M
      BY <1>3, <1>5, <1>8, <2>2
    <3>2. M = 2 * t + 2
      BY <1>3, <1>6, <2>1, <3>1
    <3>3. T \div 2 = t + 1
      BY <1>3, <3>1, <3>2
    <3> QED
      BY <1>8, <3>3 DEF T
  <2>3. CASE n # 0
    <3>1. T = n /\ S = n - (n % 2)
      BY <1>3, <1>5, <1>8, <2>3
    <3>2. n \div 2 = t + 1
      BY <1>3, <1>6, <3>1
    <3> QED
      BY <1>8, <3>1, <3>2 DEF T
  <2> QED
    BY <2>2, <2>3
<1> QED
  BY <1>7, <1>8 DEF Types

(* The square wave is high for half of every count, rounded up, and low for *)
(* the rest, so that an odd count gives its exact period.                  *)
THEOREM SquareWaveExact == Spec => SquareTiming
<1>1. Init => WaveInv
  BY DEF Init, WaveInv
<1>2. Types /\ LatchInv /\ WaveInv /\ [Next]_vars =>
        [CountEdge /\ loaded /\ Enabled /\ mode_q.m \in {3, 7} /\ Turns(n) > 1
           /\ ~newcmd_q /\ t' = 0
           => t + 1 = IF out_q THEN (Turns(n) + 1) \div 2 ELSE Turns(n) \div 2]_vars
  <2>1. Types /\ LatchInv /\ Enabled => owed = 0
    BY DEF LatchInv, Enabled, Types
  <2> QED
    BY <2>1, SquareExact
<1> QED
  BY <1>1, <1>2, TypesInit, TypesStep, StateInit, StateStep, LatchInit, LatchStep, WaveStep, PTL
  DEF Spec, SquareTiming

-----------------------------------------------------------------------------
(* The handshake between the clocks.  In the modes that load at once the    *)
(* answer is up for one counting clock after the load, and down before the  *)
(* next access could raise another request.                                *)
AtOnce == mode_q.m \in {0, 1, 4, 5}

Current == loaded = TRUE /\ n = initial_q

HandshakeInv ==
  /\ state_q[1] = 1 /\ AtOnce /\ ce_q = FALSE => Current
  /\ clr_ce_s = TRUE =>
       \/ state_q[1] = 1 /\ ~AtOnce
       \/ state_q[1] # 1 /\ gap = 0
       \/ AtOnce /\ gap = 1 /\ Current
  /\ Enabled /\ AtOnce /\ ce_q = TRUE /\ gap >= 1 =>
       gap = 1 /\ busy = TRUE /\ clr_ce_s = TRUE

LEMMA HandshakeAccess ==
  ASSUME Types, HandshakeInv, MinGap >= 2, BusEdge, gap >= MinGap, gap' = 0,
         \/ \E d \in Written : WriteData(d)
         \/ \E rw \in Formats, m \in Modes : WriteCommand(rw, m)
         \/ Read
  PROVE  HandshakeInv'
<1>1. /\ gap \in Nat /\ gap >= 2 /\ clr_ce_s' = clr_ce_s /\ n' = n
  BY BusCases, GapAssumption DEF Types
<1>2. clr_ce_s = TRUE => state_q[1] = 1 /\ ~AtOnce
  BY <1>1 DEF HandshakeInv
<1>3. CASE \E d \in Written : WriteData(d)
  <2>1. ce_q' = TRUE /\ mode_q' = mode_q
    BY <1>3 DEF WriteData
  <2> QED
    BY <1>1, <1>2, <2>1 DEF HandshakeInv, AtOnce
<1>4. CASE \E rw \in Formats, m \in Modes : WriteCommand(rw, m)
  <2>1. /\ ce_q' = TRUE
        /\ (mode_q' = mode_q /\ state_q' = state_q) \/ state_q'[1] = 0
    BY <1>4 DEF WriteCommand, CommandState
  <2> QED
    BY <1>1, <1>2, <2>1 DEF HandshakeInv, AtOnce
<1>5. CASE Read
  <2>1. /\ mode_q' = mode_q /\ state_q' = state_q /\ initial_q' = initial_q
        /\ loaded' = loaded /\ ce_q' = (ce_q /\ ~clr_ce_s)
    BY <1>5 DEF Read, CeKept
  <2>2. ce_q' = FALSE => ce_q = FALSE \/ clr_ce_s = TRUE
    BY <2>1 DEF Types
  <2> QED
    BY <1>1, <1>2, <2>1, <2>2 DEF HandshakeInv, AtOnce, Current
<1> QED
  BY <1>3, <1>4, <1>5

LEMMA HandshakeQuiet ==
  ASSUME Types, HandshakeInv, BusEdge, NoAccess
  PROVE  HandshakeInv'
<1>1. /\ mode_q' = mode_q /\ state_q' = state_q /\ initial_q' = initial_q
      /\ loaded' = loaded /\ latched_q' = latched_q /\ gap' = gap
      /\ clr_ce_s' = clr_ce_s /\ n' = n
      /\ ce_q' = (ce_q /\ ~clr_ce_s)
  BY BusCases DEF NoAccess, CeKept
<1>2. /\ ce_q' = FALSE => ce_q = FALSE \/ clr_ce_s = TRUE
      /\ ce_q' = TRUE => ce_q = TRUE /\ clr_ce_s = FALSE
  BY <1>1 DEF Types
<1>3. Enabled' <=> Enabled
  BY <1>1 DEF Enabled
<1>4. AtOnce' <=> AtOnce
  BY <1>1 DEF AtOnce
<1>5. Current' <=> Current
  BY <1>1 DEF Current
<1>6. state_q[1] = 1 /\ AtOnce /\ ce_q' = FALSE => Current
  BY <1>2 DEF HandshakeInv
<1>7. Enabled /\ AtOnce /\ ce_q' = TRUE => ~(gap >= 1)
  BY <1>2 DEF HandshakeInv
<1> QED
  BY <1>1, <1>3, <1>4, <1>5, <1>6, <1>7 DEF HandshakeInv

LEMMA HandshakeCount ==
  ASSUME Types, HandshakeInv, MinGap >= 2, CountEdge
  PROVE  HandshakeInv'
<1>1. /\ mode_q' = mode_q /\ state_q' = state_q /\ initial_q' = initial_q
      /\ latched_q' = latched_q /\ ce_q' = ce_q
      /\ busy = FALSE /\ busy' = TRUE
      /\ gap' = IF gap < MinGap THEN gap + 1 ELSE gap
      /\ gap \in Nat /\ ce_q \in BOOLEAN /\ MinGap \in Nat
  <2>1. /\ UNCHANGED registers /\ ~busy /\ busy' = TRUE
        /\ gap' = IF gap < MinGap THEN gap + 1 ELSE gap
    BY CountCases
  <2>2. busy = FALSE /\ ce_q \in BOOLEAN
    BY <2>1 DEF Types
  <2>3. gap \in Nat /\ MinGap \in Nat
    BY GapAssumption DEF Types
  <2> QED
    BY <2>1, <2>2, <2>3 DEF registers
<1>2. Enabled' <=> Enabled
  BY <1>1 DEF Enabled
<1>3. AtOnce' <=> AtOnce
  BY <1>1 DEF AtOnce
<1>4. Enabled => state_q[1] = 1
  BY DEF Enabled
<1>5. CASE ~Enabled
  <2>1. clr_ce_s' = FALSE /\ n' = n /\ loaded' = loaded
    BY <1>5, CountCases
  <2> QED
    BY <1>1, <1>2, <1>3, <1>5, <2>1 DEF HandshakeInv, Current
<1>6. CASE Enabled /\ ~AtOnce
  BY <1>1, <1>2, <1>3, <1>4, <1>6 DEF HandshakeInv
<1>7. CASE Enabled /\ AtOnce
  <2>1. OneShot \/ Strobe
    BY <1>7, CountCases DEF AtOnce
  <2>2. CASE ce_q = TRUE
    <3>1. clr_ce_s' = TRUE /\ n' = initial_q /\ loaded' = TRUE
      BY <2>1, <2>2 DEF OneShot, Strobe, Load
    <3>2. gap' = 1
      <4>1. ~(gap >= 1)
        BY <1>1, <1>7, <2>2 DEF HandshakeInv
      <4> QED
        BY <1>1, <4>1
    <3> QED
      BY <1>1, <1>2, <1>3, <1>7, <3>1, <3>2 DEF HandshakeInv, Current
  <2>3. CASE ce_q = FALSE
    <3>1. clr_ce_s' = FALSE /\ n' = n /\ loaded' = loaded
      BY <2>1, <2>3 DEF OneShot, Strobe, CountDown
    <3> QED
      BY <1>1, <1>2, <1>3, <1>7, <2>3, <3>1 DEF HandshakeInv, Current
  <2> QED
    BY <1>1, <2>2, <2>3
<1> QED
  BY <1>5, <1>6, <1>7

(* No request for a load is lost or left over between the clocks: at the    *)
(* next access the counter has taken the count as it stands, or it is       *)
(* stopped; for counting clocks that tick twice at least between accesses.  *)
THEOREM LoadsTaken ==
  ASSUME MinGap >= 2
  PROVE  Spec => []LoadTaken
<1>1. Init => HandshakeInv
  <2> SUFFICES ASSUME Init PROVE HandshakeInv
    OBVIOUS
  <2>1. /\ state_q = <<0, 0>> /\ clr_ce_s = FALSE
    BY DEF Init
  <2> QED
    BY <2>1 DEF HandshakeInv, Enabled
<1>2. Types /\ HandshakeInv /\ [Next]_vars => HandshakeInv'
  <2> SUFFICES ASSUME Types, HandshakeInv, [Next]_vars PROVE HandshakeInv'
    OBVIOUS
  <2>1. CASE BusEdge
    BY <2>1, BusCases, HandshakeAccess, HandshakeQuiet
  <2>2. CASE UNCHANGED vars
    BY <2>2 DEF vars, registers, counting, history, HandshakeInv, AtOnce, Current, Enabled
  <2> QED
    BY <2>1, <2>2, HandshakeCount DEF Next
<1>3. Types /\ HandshakeInv => LoadTaken
  BY GapAssumption DEF Types, HandshakeInv, LoadTaken, AtOnce, Current, Enabled
<1> QED
  BY <1>1, <1>2, <1>3, TypesInit, TypesStep, PTL DEF Spec
=============================================================================
