----------------------------- MODULE ZasmProofs ------------------------------
(***************************************************************************)
(* What is proved about the assembler (Zasm), for every set of sources and *)
(* for any evaluation of expressions that answers with numbers, says the   *)
(* same when asked again, and leaves the global labels alone (Given).      *)
(*                                                                         *)
(* First the words, by their fields: the processor does what a statement   *)
(* says exactly if its word keeps the operand (Decoded), and a word is     *)
(* listed as what is executed, but for some (ListedWord).  Then what the   *)
(* assembler makes of a statement (Assembled).  Last the file: an          *)
(* inductive invariant says that it holds the words of its lines, one      *)
(* behind the other, or a reserved place for a line that waits (ZasmInv),  *)
(* and the properties follow.                                              *)
(***************************************************************************)
EXTENDS Zasm, SequenceTheorems, FiniteSetTheorems, WellFoundedInduction, TLAPS

(* A word by its fields.                                                   *)
Word(a, op, c, s, b, r) == 2^27 * a + 2^22 * op + 2^19 * c + 2^18 * s + 2^14 * b + r
Fits(a, op, c, s, b, r) ==
  /\ a \in 0..15 /\ op \in 0..31 /\ c \in 0..7 /\ s \in 0..1 /\ b \in 0..15
  /\ r \in Nat /\ r < 2^14

LEMMA Divide13 == ASSUME NEW x, NEW q \in Int, NEW r \in Nat, r < 2^13, x = 2^13 * q + r
                  PROVE x \div 2^13 = q /\ x % 2^13 = r
  BY SMT
LEMMA Divide14 == ASSUME NEW x, NEW q \in Int, NEW r \in Nat, r < 2^14, x = 2^14 * q + r
                  PROVE x \div 2^14 = q /\ x % 2^14 = r
  BY SMT
LEMMA Divide16 == ASSUME NEW x, NEW q \in Int, NEW r \in Nat, r < 2^16, x = 2^16 * q + r
                  PROVE x \div 2^16 = q /\ x % 2^16 = r
  BY SMT
LEMMA Divide18 == ASSUME NEW x, NEW q \in Int, NEW r \in Nat, r < 2^18, x = 2^18 * q + r
                  PROVE x \div 2^18 = q /\ x % 2^18 = r
  BY SMT
LEMMA Divide19 == ASSUME NEW x, NEW q \in Int, NEW r \in Nat, r < 2^19, x = 2^19 * q + r
                  PROVE x \div 2^19 = q /\ x % 2^19 = r
  BY SMT
LEMMA Divide22 == ASSUME NEW x, NEW q \in Int, NEW r \in Nat, r < 2^22, x = 2^22 * q + r
                  PROVE x \div 2^22 = q /\ x % 2^22 = r
  BY SMT
LEMMA Divide27 == ASSUME NEW x, NEW q \in Int, NEW r \in Nat, r < 2^27, x = 2^27 * q + r
                  PROVE x \div 2^27 = q /\ x % 2^27 = r
  BY SMT

LEMMA FieldsOf ==
  ASSUME NEW a, NEW op, NEW c, NEW s, NEW b, NEW r, Fits(a, op, c, s, b, r), NEW w,
         w = Word(a, op, c, s, b, r)
  PROVE  /\ w \in Nat
         /\ A(w) = a /\ Op(w) = op /\ Cond(w) = c /\ Bit18(w) = s /\ B(w) = b
         /\ Bits(w, 18, 4) = 2 * c + s
         /\ Low(w, 14) = r /\ Low(w, 18) = 2^14 * b + r /\ Low(w, 19) = 2^18 * s + 2^14 * b + r
         /\ Low(w, 22) = 2^19 * c + 2^18 * s + 2^14 * b + r
  <1> USE DEF Fits
  <1>1. w \div 2^27 = a /\ w % 2^27 = 2^22 * op + 2^19 * c + 2^18 * s + 2^14 * b + r
    <2> DEFINE high == a
               low == 2^22 * op + 2^19 * c + 2^18 * s + 2^14 * b + r
    <2>1. w = 2^27 * high + low /\ low \in Nat /\ low < 2^27 /\ high \in Int  BY SMT DEF Word
    <2> HIDE DEF high, low
    <2>2. w \div 2^27 = high /\ w % 2^27 = low  BY <2>1, Divide27, SMT
    <2> QED BY <2>2 DEF high, low
  <1>2. w \div 2^22 = 32 * a + op /\ w % 2^22 = 2^19 * c + 2^18 * s + 2^14 * b + r
    <2> DEFINE high == 32 * a + op
               low == 2^19 * c + 2^18 * s + 2^14 * b + r
    <2>1. w = 2^22 * high + low /\ low \in Nat /\ low < 2^22 /\ high \in Int  BY SMT DEF Word
    <2> HIDE DEF high, low
    <2>2. w \div 2^22 = high /\ w % 2^22 = low  BY <2>1, Divide22, SMT
    <2> QED BY <2>2 DEF high, low
  <1>3. w \div 2^19 = 256 * a + 8 * op + c /\ w % 2^19 = 2^18 * s + 2^14 * b + r
    <2> DEFINE high == 256 * a + 8 * op + c
               low == 2^18 * s + 2^14 * b + r
    <2>1. w = 2^19 * high + low /\ low \in Nat /\ low < 2^19 /\ high \in Int  BY SMT DEF Word
    <2> HIDE DEF high, low
    <2>2. w \div 2^19 = high /\ w % 2^19 = low  BY <2>1, Divide19, SMT
    <2> QED BY <2>2 DEF high, low
  <1>4. w \div 2^18 = 512 * a + 16 * op + 2 * c + s /\ w % 2^18 = 2^14 * b + r
    <2> DEFINE high == 512 * a + 16 * op + 2 * c + s
               low == 2^14 * b + r
    <2>1. w = 2^18 * high + low /\ low \in Nat /\ low < 2^18 /\ high \in Int  BY SMT DEF Word
    <2> HIDE DEF high, low
    <2>2. w \div 2^18 = high /\ w % 2^18 = low  BY <2>1, Divide18, SMT
    <2> QED BY <2>2 DEF high, low
  <1>5. w \div 2^14 = 8192 * a + 256 * op + 32 * c + 16 * s + b /\ w % 2^14 = r
    <2> DEFINE high == 8192 * a + 256 * op + 32 * c + 16 * s + b
               low == r
    <2>1. w = 2^14 * high + low /\ low \in Nat /\ low < 2^14 /\ high \in Int  BY SMT DEF Word
    <2> HIDE DEF high, low
    <2>2. w \div 2^14 = high /\ w % 2^14 = low  BY <2>1, Divide14, SMT
    <2> QED BY <2>2 DEF high, low
  <1>6. w \in Nat  BY SMT DEF Word
  <1>7. A(w) = a  BY <1>1, SMT DEF A, Bits
  <1>8. Op(w) = op  BY <1>2, SMT DEF Op, Bits
  <1>9. Cond(w) = c  BY <1>3, SMT DEF Cond, Bits
  <1>10. Bit18(w) = s /\ Bits(w, 18, 4) = 2 * c + s  BY <1>4, SMT DEF Bit18, Bits
  <1>11. B(w) = b  BY <1>5, SMT DEF B, Bits
  <1> QED BY <1>2, <1>3, <1>4, <1>5, <1>6, <1>7, <1>8, <1>9, <1>10, <1>11 DEF Low

-----------------------------------------------------------------------------
(* Numbers in two's complement: what n bits keep of a number.              *)

LEMMA Signed13 ==
  ASSUME NEW w \in Int
  PROVE  /\ SBits(w, 13) \in Int /\ -(2^12) <= SBits(w, 13) /\ SBits(w, 13) < 2^12
         /\ SBits(w, 13) % 2^13 = w % 2^13
         /\ \A v \in Int : -(2^12) <= v /\ v < 2^12 /\ w % 2^13 = v % 2^13 => SBits(w, 13) = v
  <1> DEFINE u == w % 2^13
  <1>1. u \in Nat /\ u < 2^13  BY SMT
  <1>2. SBits(w, 13) = IF u < 2^12 THEN u ELSE u - 2^13  BY SMT DEF SBits
  <1>3. \A v \in Int : -(2^12) <= v /\ v < 2^12 => v % 2^13 = IF v >= 0 THEN v ELSE v + 2^13
    <2> SUFFICES ASSUME NEW v \in Int, -(2^12) <= v, v < 2^12
                 PROVE  v % 2^13 = IF v >= 0 THEN v ELSE v + 2^13
      OBVIOUS
    <2>1. CASE v >= 0  BY <2>1, SMT
    <2>2. CASE v < 0
      <3>1. v = 2^13 * (-1) + (v + 2^13) /\ v + 2^13 \in Nat /\ v + 2^13 < 2^13  BY <2>2, SMT
      <3> QED BY <2>2, <3>1, SMT
    <2> QED BY <2>1, <2>2
  <1> HIDE DEF u
  <1> QED BY <1>1, <1>2, <1>3, SMT DEF u

LEMMA Signed14 ==
  ASSUME NEW w \in Int
  PROVE  /\ SBits(w, 14) \in Int /\ -(2^13) <= SBits(w, 14) /\ SBits(w, 14) < 2^13
         /\ SBits(w, 14) % 2^14 = w % 2^14
         /\ \A v \in Int : -(2^13) <= v /\ v < 2^13 /\ w % 2^14 = v % 2^14 => SBits(w, 14) = v
  <1> DEFINE u == w % 2^14
  <1>1. u \in Nat /\ u < 2^14  BY SMT
  <1>2. SBits(w, 14) = IF u < 2^13 THEN u ELSE u - 2^14  BY SMT DEF SBits
  <1>3. \A v \in Int : -(2^13) <= v /\ v < 2^13 => v % 2^14 = IF v >= 0 THEN v ELSE v + 2^14
    <2> SUFFICES ASSUME NEW v \in Int, -(2^13) <= v, v < 2^13
                 PROVE  v % 2^14 = IF v >= 0 THEN v ELSE v + 2^14
      OBVIOUS
    <2>1. CASE v >= 0  BY <2>1, SMT
    <2>2. CASE v < 0
      <3>1. v = 2^14 * (-1) + (v + 2^14) /\ v + 2^14 \in Nat /\ v + 2^14 < 2^14  BY <2>2, SMT
      <3> QED BY <2>2, <3>1, SMT
    <2> QED BY <2>1, <2>2
  <1> HIDE DEF u
  <1> QED BY <1>1, <1>2, <1>3, SMT DEF u

LEMMA Signed18 ==
  ASSUME NEW w \in Int
  PROVE  /\ SBits(w, 18) \in Int /\ -(2^17) <= SBits(w, 18) /\ SBits(w, 18) < 2^17
         /\ SBits(w, 18) % 2^18 = w % 2^18
         /\ \A v \in Int : -(2^17) <= v /\ v < 2^17 /\ w % 2^18 = v % 2^18 => SBits(w, 18) = v
  <1> DEFINE u == w % 2^18
  <1>1. u \in Nat /\ u < 2^18  BY SMT
  <1>2. SBits(w, 18) = IF u < 2^17 THEN u ELSE u - 2^18  BY SMT DEF SBits
  <1>3. \A v \in Int : -(2^17) <= v /\ v < 2^17 => v % 2^18 = IF v >= 0 THEN v ELSE v + 2^18
    <2> SUFFICES ASSUME NEW v \in Int, -(2^17) <= v, v < 2^17
                 PROVE  v % 2^18 = IF v >= 0 THEN v ELSE v + 2^18
      OBVIOUS
    <2>1. CASE v >= 0  BY <2>1, SMT
    <2>2. CASE v < 0
      <3>1. v = 2^18 * (-1) + (v + 2^18) /\ v + 2^18 \in Nat /\ v + 2^18 < 2^18  BY <2>2, SMT
      <3> QED BY <2>2, <3>1, SMT
    <2> QED BY <2>1, <2>2
  <1> HIDE DEF u
  <1> QED BY <1>1, <1>2, <1>3, SMT DEF u

LEMMA Signed23 ==
  ASSUME NEW w \in Int
  PROVE  /\ SBits(w, 23) \in Int /\ -(2^22) <= SBits(w, 23) /\ SBits(w, 23) < 2^22
         /\ SBits(w, 23) % 2^23 = w % 2^23
         /\ \A v \in Int : -(2^22) <= v /\ v < 2^22 /\ w % 2^23 = v % 2^23 => SBits(w, 23) = v
  <1> DEFINE u == w % 2^23
  <1>1. u \in Nat /\ u < 2^23  BY SMT
  <1>2. SBits(w, 23) = IF u < 2^22 THEN u ELSE u - 2^23  BY SMT DEF SBits
  <1>3. \A v \in Int : -(2^22) <= v /\ v < 2^22 => v % 2^23 = IF v >= 0 THEN v ELSE v + 2^23
    <2> SUFFICES ASSUME NEW v \in Int, -(2^22) <= v, v < 2^22
                 PROVE  v % 2^23 = IF v >= 0 THEN v ELSE v + 2^23
      OBVIOUS
    <2>1. CASE v >= 0  BY <2>1, SMT
    <2>2. CASE v < 0
      <3>1. v = 2^23 * (-1) + (v + 2^23) /\ v + 2^23 \in Nat /\ v + 2^23 < 2^23  BY <2>2, SMT
      <3> QED BY <2>2, <3>1, SMT
    <2> QED BY <2>1, <2>2
  <1> HIDE DEF u
  <1> QED BY <1>1, <1>2, <1>3, SMT DEF u

(* Cutting twice is cutting to the shorter length.                         *)
LEMMA CutTwice ==
  ASSUME NEW v \in Int
  PROVE  /\ (v % 2^18) % 2^18 = v % 2^18 /\ (v % 2^18) % 2^14 = v % 2^14
         /\ (v % 2^23) % 2^23 = v % 2^23 /\ (v % 2^23) % 2^22 = v % 2^22
         /\ (v % 2^14) % 2^13 = v % 2^13 /\ (v % 2^14) % 2^12 = v % 2^12
  BY SMT

-----------------------------------------------------------------------------
(* The fields of the words ZPARSER builds.                                 *)
LEMMA Cut4 ==
  ASSUME NEW a \in 0..NoReg
  PROVE  /\ Low(a, 4) \in 0..15 /\ Bits(a, 4, 1) \in 0..1
         /\ a \in 0..15 => Low(a, 4) = a /\ Bits(a, 4, 1) = 0
         /\ a # NoReg => Low(a, 4) + 16 * Bits(a, 4, 1) = a
  BY SMT DEF Low, Bits, NoReg

LEMMA ImmediateWord ==
  ASSUME NEW op, NEW c, NEW imm, NEW a, NEW w,
         op \in 0..31, c \in 0..7, imm \in Int, a \in 0..NoReg, w = IMMOP(op, c, imm, a)
  PROVE  /\ w \in Nat /\ A(w) = Low(a, 4) /\ Op(w) = op /\ Cond(w) = c /\ Bit18(w) = 0
         /\ Low(w, 18) = Low(imm, 18) /\ Low(w, 19) = Low(imm, 18)
         /\ Low(w, 22) = 2^19 * c + Low(imm, 18) /\ Bits(w, 18, 4) = 2 * c
         /\ B(w) = Low(imm, 18) \div 2^14 /\ Low(w, 14) = Low(imm, 14)
         /\ Fits(Low(a, 4), op, c, 0, B(w), Low(w, 14))
         /\ w = Word(Low(a, 4), op, c, 0, B(w), Low(w, 14))
  <1> DEFINE i == Low(imm, 18)
             b == i \div 2^14
             r == i % 2^14
  <1>1. i \in Nat /\ i < 2^18 /\ i % 2^14 = Low(imm, 14)  BY CutTwice, SMT DEF Low
  <1> HIDE DEF i
  <1>2. b \in 0..15 /\ r \in Nat /\ r < 2^14 /\ i = 2^14 * b + r  BY <1>1, SMT
  <1> HIDE DEF b, r
  <1>3. Fits(Low(a, 4), op, c, 0, b, r)  BY <1>2, Cut4, SMT DEF Fits
  <1>4. w = Word(Low(a, 4), op, c, 0, b, r)
    BY <1>1, <1>2, Cut4, SMT DEF i, IMMOP, Word
  <1>5. r = Low(imm, 14)  BY <1>1 DEF r
  <1> QED BY <1>2, <1>3, <1>4, <1>5, FieldsOf, SMT DEF i, b

LEMMA OffsetWord ==
  ASSUME NEW op, NEW c, NEW imm, NEW b, NEW a, NEW w,
         op \in 0..31, c \in 0..7, imm \in Int, b \in 0..NoReg, a \in 0..NoReg,
         w = DBLREGOP(op, c, imm, b, a)
  PROVE  /\ w \in Nat /\ A(w) = Low(a, 4) /\ Op(w) = op /\ Cond(w) = c /\ Bit18(w) = 1
         /\ B(w) = Low(b, 4) /\ Low(w, 14) = Low(imm, 14)
         /\ Low(w, 19) = 2^18 + 2^14 * Low(b, 4) + Low(imm, 14)
         /\ Bits(w, 18, 4) = 2 * c + 1
         /\ Fits(Low(a, 4), op, c, 1, Low(b, 4), Low(imm, 14))
         /\ w = Word(Low(a, 4), op, c, 1, Low(b, 4), Low(imm, 14))
  <1> DEFINE r == Low(imm, 14)
  <1>1. r \in Nat /\ r < 2^14  BY SMT DEF Low
  <1> HIDE DEF r
  <1>2. Fits(Low(a, 4), op, c, 1, Low(b, 4), r)  BY <1>1, Cut4, SMT DEF Fits
  <1>3. w = Word(Low(a, 4), op, c, 1, Low(b, 4), r)
    BY <1>1, Cut4, SMT DEF r, DBLREGOP, Word
  <1> QED BY <1>2, <1>3, FieldsOf, Cut4, SMT DEF r

LEMMA TopOf14 ==
  ASSUME NEW w \in Nat
  PROVE  (w % 2^14) \div 2^13 = (w \div 2^13) % 2 /\ (w % 2^14) % 2^13 = w % 2^13
  <1> DEFINE q == w \div 2^13
             t == w % 2^13
             u == q \div 2
             v == q % 2
             y == 2^13 * v + t
  <1>1. w = 2^13 * q + t /\ q \in Nat /\ t \in Nat /\ t < 2^13  BY SMT
  <1> HIDE DEF q, t
  <1>2. q = 2 * u + v /\ u \in Nat /\ v \in 0..1  BY <1>1, SMT
  <1> HIDE DEF u, v
  <1>3. y \in Nat /\ y < 2^14 /\ w = 2^14 * u + y  BY <1>1, <1>2, SMT
  <1>4. y \div 2^13 = v /\ y % 2^13 = t
    <2>1. y = 2^13 * v + t  OBVIOUS
    <2> HIDE DEF y
    <2> QED BY <1>1, <1>2, <2>1, Divide13, SMT
  <1> HIDE DEF y
  <1>5. w % 2^14 = y  BY <1>2, <1>3, Divide14, SMT
  <1> QED BY <1>4, <1>5 DEF q, t, v

LEMMA Split22 ==
  ASSUME NEW l \in Nat, l < 2^22
  PROVE  \E c \in 0..7, s \in 0..1, b \in 0..15, r \in Nat :
           r < 2^14 /\ l = 2^19 * c + 2^18 * s + 2^14 * b + r
  <1> DEFINE c == l \div 2^19
             x == l % 2^19
             s == x \div 2^18
             y == x % 2^18
             b == y \div 2^14
             r == y % 2^14
  <1>1. c \in 0..7 /\ x \in Nat /\ x < 2^19 /\ l = 2^19 * c + x  BY SMT
  <1> HIDE DEF c, x
  <1>2. s \in 0..1 /\ y \in Nat /\ y < 2^18 /\ x = 2^18 * s + y  BY <1>1, SMT
  <1> HIDE DEF s, y
  <1>3. b \in 0..15 /\ r \in Nat /\ r < 2^14 /\ y = 2^14 * b + r  BY <1>2, SMT
  <1> HIDE DEF b, r
  <1>4. l = 2^19 * c + 2^18 * s + 2^14 * b + r  BY <1>1, <1>2, <1>3, SMT
  <1> QED BY <1>1, <1>2, <1>3, <1>4

LEMMA MoveWord ==
  ASSUME NEW c, NEW imm, NEW b, NEW a, NEW w,
         c \in 0..7, imm \in Int, b \in 0..NoReg, a \in 0..NoReg, w = op_mov(c, imm, b, a)
  PROVE  /\ w \in Nat /\ A(w) = Low(a, 4) /\ Op(w) = ZIPO.MOV /\ Cond(w) = c
         /\ Bit18(w) = Bits(a, 4, 1) /\ B(w) = Low(b, 4) /\ Bit13(w) = Bits(b, 4, 1)
         /\ Low(w, 13) = Low(imm, 13) /\ Low(w, 14) = 2^13 * Bits(b, 4, 1) + Low(imm, 13)
         /\ Low(w, 18) = 2^14 * Low(b, 4) + 2^13 * Bits(b, 4, 1) + Low(imm, 13)
         /\ Low(w, 19) = 2^18 * Bits(a, 4, 1) + Low(w, 18)
         /\ Fits(Low(a, 4), ZIPO.MOV, c, Bits(a, 4, 1), Low(b, 4), Low(w, 14))
         /\ w = Word(Low(a, 4), ZIPO.MOV, c, Bits(a, 4, 1), Low(b, 4), Low(w, 14))
  <1> DEFINE i == Low(imm, 13)
             r == 2^13 * Bits(b, 4, 1) + i
  <1>1. i \in Nat /\ i < 2^13  BY SMT DEF Low
  <1>2. r \in Nat /\ r < 2^14  BY <1>1, Cut4, SMT
  <1>3. r \div 2^13 = Bits(b, 4, 1) /\ r % 2^13 = i
    <2> DEFINE high == Bits(b, 4, 1)
    <2>1. high \in Int /\ r = 2^13 * high + i  BY Cut4, SMT
    <2> HIDE DEF high, i, r
    <2>2. r \div 2^13 = high /\ r % 2^13 = i  BY <1>1, <2>1, SMT
    <2> QED BY <2>2 DEF high
  <1>4. w = Word(Low(a, 4), ZIPO.MOV, c, Bits(a, 4, 1), Low(b, 4), r)
    BY <1>1, Cut4, SMTT(30) DEF op_mov, Word, ZIPO
  <1> HIDE DEF i, r
  <1>5. Fits(Low(a, 4), ZIPO.MOV, c, Bits(a, 4, 1), Low(b, 4), r)
    BY <1>2, Cut4, SMT DEF Fits, ZIPO
  <1>6. /\ w \in Nat /\ A(w) = Low(a, 4) /\ Op(w) = ZIPO.MOV /\ Cond(w) = c
        /\ Bit18(w) = Bits(a, 4, 1) /\ B(w) = Low(b, 4) /\ Low(w, 14) = r
        /\ Low(w, 18) = 2^14 * Low(b, 4) + r
        /\ Low(w, 19) = 2^18 * Bits(a, 4, 1) + 2^14 * Low(b, 4) + r
    BY <1>4, <1>5, FieldsOf
  <1>7. Bit13(w) = r \div 2^13 /\ Low(w, 13) = r % 2^13
    <2>1. w % 2^14 = r  BY <1>6 DEF Low
    <2>2. (w % 2^14) \div 2^13 = (w \div 2^13) % 2 /\ (w % 2^14) % 2^13 = w % 2^13
      BY <1>6, TopOf14
    <2> QED BY <2>1, <2>2, SMT DEF Bit13, Bits, Low
  <1>8. /\ Low(w, 18) = 2^14 * Low(b, 4) + 2^13 * Bits(b, 4, 1) + i
        /\ Low(w, 19) = 2^18 * Bits(a, 4, 1) + Low(w, 18)
    BY <1>1, <1>6, Cut4, SMT DEF r
  <1>9. /\ Low(w, 13) = Low(imm, 13) /\ Bit13(w) = Bits(b, 4, 1)
        /\ Low(w, 14) = 2^13 * Bits(b, 4, 1) + Low(imm, 13)
    BY <1>3, <1>6, <1>7 DEF i, r
  <1> QED BY <1>4, <1>5, <1>6, <1>8, <1>9 DEF i

LEMMA LoadWord ==
  ASSUME NEW imm \in Int, NEW a \in 0..NoReg, NEW w, w = op_ldi(imm, a)
  PROVE  /\ w \in Nat /\ A(w) = Low(a, 4)
         /\ Op(w) = 22 + (Low(imm, 23) \div 2^22) /\ Op(w) \in {22, 23}
         /\ Low(w, 23) = Low(imm, 23) /\ Low(w, 22) = Low(imm, 22)
         /\ \E op, c, s, b, r : /\ op \in {22, 23} /\ Fits(Low(a, 4), op, c, s, b, r)
                                /\ w = Word(Low(a, 4), op, c, s, b, r)
  <1> DEFINE i == Low(imm, 23)
             h == i \div 2^22
             l == i % 2^22
  <1>1. i \in Nat /\ i < 2^23 /\ l = Low(imm, 22)  BY CutTwice, SMT DEF Low
  <1>2. h \in 0..1 /\ l \in Nat /\ l < 2^22 /\ i = 2^22 * h + l
    <2>1. h \in Nat /\ l \in Nat /\ l < 2^22 /\ i = 2^22 * h + l
      <3> HIDE DEF i
      <3> QED BY <1>1, SMT
    <2> HIDE DEF i, h, l
    <2> QED BY <1>1, <2>1, SMT
  <1>3. w = 2^27 * Low(a, 4) + 2^22 * 22 + i  BY DEF op_ldi, ZIPO
  <1> HIDE DEF i, h, l
  <1>4. PICK c \in 0..7, s \in 0..1, b \in 0..15, r \in Nat :
          r < 2^14 /\ l = 2^19 * c + 2^18 * s + 2^14 * b + r
    BY <1>2, Split22
  <1>5. w = Word(Low(a, 4), 22 + h, c, s, b, r)  BY <1>2, <1>3, <1>4, Cut4, SMT DEF Word
  <1>6. Fits(Low(a, 4), 22 + h, c, s, b, r)  BY <1>2, <1>4, Cut4, SMT DEF Fits
  <1>7. w \in Nat /\ A(w) = Low(a, 4) /\ Op(w) = 22 + h /\ Low(w, 22) = l
    BY <1>4, <1>5, <1>6, FieldsOf, SMT
  <1>8. Low(w, 23) = i
    <2> DEFINE q == 16 * Low(a, 4) + 11
    <2>1. w = 2^23 * q + i /\ q \in Int  BY <1>1, <1>3, Cut4, SMT
    <2> HIDE DEF q
    <2> QED BY <1>1, <2>1, SMT DEF Low
  <1>9. /\ A(w) = Low(a, 4) /\ Op(w) = 22 + (Low(imm, 23) \div 2^22) /\ Op(w) \in {22, 23}
        /\ Low(w, 23) = Low(imm, 23) /\ Low(w, 22) = Low(imm, 22)
    BY <1>1, <1>2, <1>7, <1>8, SMT DEF i, h
  <1>10. 22 + h \in {22, 23}  BY <1>2, SMT
  <1> QED BY <1>5, <1>6, <1>7, <1>9, <1>10

-----------------------------------------------------------------------------
(* What the processor makes of them.                                       *)
LEMMA SameBits ==
  ASSUME NEW w \in Int, NEW v \in Int
  PROVE  /\ Low(w, 13) = Low(v, 13) => SBits(w, 13) = SBits(v, 13)
         /\ Low(w, 14) = Low(v, 14) => SBits(w, 14) = SBits(v, 14)
         /\ Low(w, 18) = Low(v, 18) => SBits(w, 18) = SBits(v, 18)
         /\ Low(w, 23) = Low(v, 23) => SBits(w, 23) = SBits(v, 23)
  BY DEF SBits, Low

LEMMA ImmediateExecuted ==
  ASSUME NEW op, NEW c, NEW imm, NEW a, NEW w,
         op \in (0..21) \ {15}, c \in 0..7, imm \in Int, a \in 0..NoReg,
         w = IMMOP(op, c, imm, a)
  PROVE  Executed(w) = Operation(OpName[op + 1], c, SBits(imm, 18), NoReg, Low(a, 4))
  <1>1. op \in 0..31 /\ op \notin {15, 22, 23}  BY SMT
  <1>2. /\ w \in Nat /\ A(w) = Low(a, 4) /\ Op(w) = op /\ Cond(w) = c /\ Bit18(w) = 0
        /\ Low(w, 18) = Low(imm, 18)
    BY <1>1, ImmediateWord
  <1>3. ~w_ldi(w) /\ ~w_mov(w) /\ ~w_rB(w)  BY <1>1, <1>2, SMT DEF w_ldi, w_mov, w_rB
  <1>4. w_I(w) = SBits(imm, 18)  BY <1>2, <1>3, SameBits DEF w_I
  <1>5. w_dcdR(w) = Low(a, 4)  BY <1>2, <1>3, Cut4, SMT DEF w_dcdR
  <1>6. w_dcdB(w) = NoReg /\ w_cond(w) = c  BY <1>2, <1>3 DEF w_dcdB, w_cond
  <1> QED BY <1>2, <1>4, <1>5, <1>6 DEF Executed, Operation

LEMMA OffsetExecuted ==
  ASSUME NEW op, NEW c, NEW imm, NEW b, NEW a, NEW w,
         op \in (0..21) \ {15}, c \in 0..7, imm \in Int, b \in 0..NoReg, a \in 0..NoReg,
         w = DBLREGOP(op, c, imm, b, a)
  PROVE  Executed(w) = Operation(OpName[op + 1], c, SBits(imm, 14), Low(b, 4), Low(a, 4))
  <1>1. op \in 0..31 /\ op \notin {15, 22, 23}  BY SMT
  <1>2. /\ w \in Nat /\ A(w) = Low(a, 4) /\ Op(w) = op /\ Cond(w) = c /\ Bit18(w) = 1
        /\ B(w) = Low(b, 4) /\ Low(w, 14) = Low(imm, 14)
    BY <1>1, OffsetWord
  <1>3. ~w_ldi(w) /\ ~w_mov(w) /\ w_rB(w)  BY <1>1, <1>2, SMT DEF w_ldi, w_mov, w_rB
  <1>4. w_I(w) = SBits(imm, 14)  BY <1>2, <1>3, SameBits DEF w_I
  <1>5. Low(a, 4) \in Int /\ Low(b, 4) \in Int  BY Cut4, SMT
  <1>6. w_dcdR(w) = Low(a, 4)  BY <1>2, <1>3, <1>5, SMT DEF w_dcdR
  <1>7. w_dcdB(w) = Low(b, 4)  BY <1>2, <1>3, <1>5, SMT DEF w_dcdB
  <1>8. w_cond(w) = c  BY <1>2, <1>3 DEF w_cond
  <1> QED BY <1>2, <1>4, <1>6, <1>7, <1>8 DEF Executed, Operation

LEMMA MoveExecuted ==
  ASSUME NEW c, NEW imm, NEW b, NEW a, NEW w,
         c \in 0..7, imm \in Int, b \in 0..31, a \in 0..31, w = op_mov(c, imm, b, a)
  PROVE  Executed(w) = Operation("MOV", c, SBits(imm, 13), b, a)
  <1>1. a \in 0..NoReg /\ b \in 0..NoReg /\ a # NoReg /\ b # NoReg  BY SMT DEF NoReg
  <1>2. /\ w \in Nat /\ A(w) = Low(a, 4) /\ Op(w) = 15 /\ Cond(w) = c
        /\ Bit18(w) = Bits(a, 4, 1) /\ B(w) = Low(b, 4) /\ Bit13(w) = Bits(b, 4, 1)
        /\ Low(w, 13) = Low(imm, 13)
    BY <1>1, MoveWord DEF ZIPO
  <1>3. ~w_ldi(w) /\ w_mov(w) /\ w_rB(w)  BY <1>2, SMT DEF w_ldi, w_mov, w_rB
  <1>4. w_I(w) = SBits(imm, 13)  BY <1>2, <1>3, SameBits DEF w_I
  <1>5. Low(a, 4) + 16 * Bits(a, 4, 1) = a /\ Low(b, 4) + 16 * Bits(b, 4, 1) = b
    BY <1>1, Cut4
  <1>6. w_dcdR(w) = a  BY <1>2, <1>3, <1>5, SMT DEF w_dcdR
  <1>7. w_dcdB(w) = b  BY <1>2, <1>3, <1>5, SMT DEF w_dcdB
  <1>8. w_cond(w) = c  BY <1>2, <1>3 DEF w_cond
  <1> QED BY <1>2, <1>4, <1>6, <1>7, <1>8 DEF Executed, Operation, OpName

LEMMA LoadExecuted ==
  ASSUME NEW imm \in Int, NEW a \in 0..NoReg, NEW w, w = op_ldi(imm, a)
  PROVE  Executed(w) = Operation("LDI", ALWAYS, SBits(imm, 23), NoReg, Low(a, 4))
  <1>1. w \in Nat /\ A(w) = Low(a, 4) /\ Op(w) \in {22, 23} /\ Low(w, 23) = Low(imm, 23)
    BY LoadWord
  <1>2. w_ldi(w) /\ ~w_mov(w) /\ ~w_rB(w)  BY <1>1, SMT DEF w_ldi, w_mov, w_rB
  <1>3. w_I(w) = SBits(imm, 23)  BY <1>1, <1>2, SameBits DEF w_I
  <1>4. w_dcdR(w) = Low(a, 4)  BY <1>1, <1>2, Cut4, SMT DEF w_dcdR
  <1>5. w_dcdB(w) = NoReg /\ w_cond(w) = ALWAYS  BY <1>1, <1>2 DEF w_dcdB, w_cond
  <1>6. OpName[Op(w) + 1] = "LDI"  BY <1>1 DEF OpName
  <1> QED BY <1>3, <1>4, <1>5, <1>6 DEF Executed, Operation

PlainOps == DualOps \cup {"ROL", "LOD", "STO", "LDILO", "MPYU", "MPYS"}

LEMMA PlainNames ==
  ASSUME NEW name \in PlainOps
  PROVE  ZIPO[name] \in (0..21) \ {15} /\ OpName[ZIPO[name] + 1] = name
  BY SMT DEF PlainOps, DualOps, ZIPO, OpName

(* An operand in reach of its field.                                       *)
Within13(i) == i \in Int /\ -(2^12) <= i /\ i < 2^12
Within14(i) == i \in Int /\ -(2^13) <= i /\ i < 2^13
Within18(i) == i \in Int /\ -(2^17) <= i /\ i < 2^17
Within23(i) == i \in Int /\ -(2^22) <= i /\ i < 2^22
InField(imm, b) == IF b = NoReg THEN Within18(imm) ELSE Within14(imm)

LEMMA Cut16 ==
  ASSUME NEW i \in Int
  PROVE  /\ Low(i, 16) \in HalfWords /\ (Low(i, 16) = i <=> i \in HalfWords)
         /\ i \in HalfWords => Within18(i) /\ Within23(i)
  <1>1. i % 2^16 \in HalfWords  BY SMT DEF HalfWords
  <1>2. ASSUME i \in HalfWords PROVE i % 2^16 = i
    <2>1. i \in Nat /\ i < 2^16  BY <1>2, SMT DEF HalfWords
    <2>2. i = 2^16 * 0 + i /\ 0 \in Int  BY <2>1, SMT
    <2> QED BY <2>1, <2>2, Divide16
  <1>3. ASSUME i \in HalfWords PROVE Within18(i) /\ Within23(i)
    <2>1. i \in Nat /\ i < 2^16  BY <1>3, SMT DEF HalfWords
    <2>2. Within18(i)  BY <2>1, SMT DEF Within18
    <2>3. Within23(i)  BY <2>1, SMT DEF Within23
    <2> QED BY <2>2, <2>3
  <1> QED BY <1>1, <1>2, <1>3 DEF Low

(* A number is what its lowest bits say exactly if it is in reach of them. *)
LEMMA SignedAs ==
  ASSUME NEW i \in Int
  PROVE  /\ SBits(i, 13) \in Int /\ (SBits(i, 13) = i <=> Within13(i))
         /\ SBits(i, 14) \in Int /\ (SBits(i, 14) = i <=> Within14(i))
         /\ SBits(i, 18) \in Int /\ (SBits(i, 18) = i <=> Within18(i))
         /\ SBits(i, 23) \in Int /\ (SBits(i, 23) = i <=> Within23(i))
  <1>1. SBits(i, 13) \in Int /\ (SBits(i, 13) = i <=> Within13(i))  BY Signed13 DEF Within13
  <1>2. SBits(i, 14) \in Int /\ (SBits(i, 14) = i <=> Within14(i))  BY Signed14 DEF Within14
  <1>3. SBits(i, 18) \in Int /\ (SBits(i, 18) = i <=> Within18(i))  BY Signed18 DEF Within18
  <1>4. SBits(i, 23) \in Int /\ (SBits(i, 23) = i <=> Within23(i))  BY Signed23 DEF Within23
  <1> QED BY <1>1, <1>2, <1>3, <1>4

(* What is left of an operand in the field of its form.                    *)
Left(imm, b) == IF b = NoReg THEN SBits(imm, 18) ELSE SBits(imm, 14)

LEMMA LeftIs ==
  ASSUME NEW imm \in Int, NEW b
  PROVE  Left(imm, b) = imm <=> InField(imm, b)
  BY SignedAs DEF Left, InField

LEMMA DualExecuted ==
  ASSUME NEW name, NEW c, NEW imm, NEW b, NEW a, NEW w,
         name \in PlainOps, c \in 0..7, imm \in Int, b \in (0..15) \cup {NoReg}, a \in 0..15,
         w = op_dual(name, c, imm, b, a)
  PROVE  Executed(w) = Operation(name, c, Left(imm, b), b, a)
  <1> DEFINE op == ZIPO[name]
  <1>1. op \in (0..21) \ {15} /\ OpName[op + 1] = name  BY PlainNames
  <1>2. a \in 0..NoReg /\ b \in 0..NoReg  BY SMT DEF NoReg
  <1>3. Low(a, 4) = a  BY <1>2, Cut4
  <1> HIDE DEF op
  <1>4. CASE b = NoReg
    <2>1. w = IMMOP(op, c, imm, a)  BY <1>4 DEF op_dual, op
    <2>2. Executed(w) = Operation(OpName[op + 1], c, SBits(imm, 18), NoReg, Low(a, 4))
      BY <1>1, <1>2, <2>1, ImmediateExecuted
    <2> QED BY <1>1, <1>3, <1>4, <2>2 DEF Left
  <1>5. CASE b # NoReg
    <2>1. w = DBLREGOP(op, c, imm, b, a)  BY <1>5 DEF op_dual, op
    <2>2. Executed(w) = Operation(OpName[op + 1], c, SBits(imm, 14), Low(b, 4), Low(a, 4))
      BY <1>1, <1>2, <2>1, OffsetExecuted
    <2>3. Low(b, 4) = b  BY <1>2, <1>5, Cut4
    <2> QED BY <1>1, <1>3, <1>5, <2>2, <2>3 DEF Left
  <1> QED BY <1>4, <1>5

-----------------------------------------------------------------------------
(* The switch over the opcodes, one case at a time.                        *)
Branches == {"BRA", "BLT", "BZ", "BNZ", "BGT", "BGE", "BRC", "BRV"}

LEMMA SwitchIs ==
  ASSUME NEW t, NEW v, NEW pc
  PROVE  /\ t.op \in DualOps => Switch(t, v, pc) = DualLine(t, Immediate(t, v, pc))
         /\ t.op \in DOMAIN BranchCond => Switch(t, v, pc) = BranchLine(t, Offset(v, pc))
         /\ t.op = "MOV" => Switch(t, v, pc) = MovLine(t, Immediate(t, v, pc))
         /\ t.op \in {"LDIHI", "LDILO"} => Switch(t, v, pc) = HalfLine(t, Immediate(t, v, pc))
         /\ t.op \in MulOps => Switch(t, v, pc) = MulLine(t, Immediate(t, v, pc))
         /\ t.op = "ROL" => Switch(t, v, pc) = RolLine(t, Immediate(t, v, pc))
         /\ t.op \in {"LOD", "STO"} => Switch(t, v, pc) = MemLine(t, Immediate(t, v, pc))
         /\ t.op = "LDI" => Switch(t, v, pc) = LdiLine(t, Immediate(t, v, pc))
         /\ t.op = "CLRF" => Switch(t, v, pc) = One(op_clrf(t.cond, t.opb), TRUE)
         /\ t.op = "NOT" => Switch(t, v, pc) = One(op_not(t.cond, t.opb), TRUE)
         /\ t.op = "NEG" => Switch(t, v, pc) = NegLine(t)
         /\ t.op = "JMP" => Switch(t, v, pc) = JmpLine(t, Immediate(t, v, pc))
         /\ t.op = "CLR" => Switch(t, v, pc) = ClrLine(t)
         /\ t.op = "TRAP" => Switch(t, v, pc) = TrapLine(t, Immediate(t, v, pc))
         /\ t.op = "RETN" => Switch(t, v, pc) = One(op_dual("LOD", t.cond, -1, SP, PC), TRUE)
         /\ t.op \in BareOps => Switch(t, v, pc) = One(BareWord(t), TRUE)
         /\ t.op \notin DualOps \cup DOMAIN BranchCond \cup MulOps \cup BareOps
              \cup {"MOV", "LDIHI", "LDILO", "ROL", "LOD", "STO", "LDI", "CLRF", "NOT", "NEG",
                    "JMP", "CLR", "TRAP", "RETN"}
              => Switch(t, v, pc) = One(op_noop, FALSE)
  <1>0. DOMAIN BranchCond = Branches  BY DEF BranchCond, Branches
  <1> DEFINE Named == {"MOV", "LDIHI", "LDILO", "ROL", "LOD", "STO", "LDI", "CLRF", "NOT", "NEG",
                       "JMP", "CLR", "TRAP", "RETN"}
  <1>1. t.op \in DualOps =>
          t.op \notin Branches /\ t.op \notin MulOps /\ t.op \notin BareOps /\ t.op \notin Named
    BY SMT DEF Branches, DualOps, MulOps, BareOps
  <1>2. t.op \in Branches =>
          t.op \notin DualOps /\ t.op \notin MulOps /\ t.op \notin BareOps /\ t.op \notin Named
    BY SMT DEF Branches, DualOps, MulOps, BareOps
  <1>3. t.op \in MulOps =>
          t.op \notin DualOps /\ t.op \notin Branches /\ t.op \notin BareOps /\ t.op \notin Named
    BY SMT DEF Branches, DualOps, MulOps, BareOps
  <1>4. t.op \in BareOps =>
          t.op \notin DualOps /\ t.op \notin Branches /\ t.op \notin MulOps /\ t.op \notin Named
    BY SMT DEF Branches, DualOps, MulOps, BareOps
  <1>5. t.op \in Named =>
          t.op \notin DualOps /\ t.op \notin Branches /\ t.op \notin MulOps /\ t.op \notin BareOps
    BY SMT DEF Branches, DualOps, MulOps, BareOps
  <1> USE DEF Switch
  <1>6. t.op \in DualOps => Switch(t, v, pc) = DualLine(t, Immediate(t, v, pc))
    BY <1>0, <1>1
  <1>7. t.op \in Branches => Switch(t, v, pc) = BranchLine(t, Offset(v, pc))
    BY <1>0, <1>2
  <1>8. t.op = "MOV" => Switch(t, v, pc) = MovLine(t, Immediate(t, v, pc))
    BY <1>0, <1>5
  <1>9. t.op \in {"LDIHI", "LDILO"} => Switch(t, v, pc) = HalfLine(t, Immediate(t, v, pc))
    BY <1>0, <1>5
  <1>10. t.op = "ROL" => Switch(t, v, pc) = RolLine(t, Immediate(t, v, pc))
    BY <1>0, <1>5
  <1>11. t.op \in {"LOD", "STO"} => Switch(t, v, pc) = MemLine(t, Immediate(t, v, pc))
    BY <1>0, <1>5
  <1>12. t.op = "LDI" => Switch(t, v, pc) = LdiLine(t, Immediate(t, v, pc))
    BY <1>0, <1>5
  <1>13. t.op = "CLRF" => Switch(t, v, pc) = One(op_clrf(t.cond, t.opb), TRUE)
    BY <1>0, <1>5
  <1>14. t.op = "NOT" => Switch(t, v, pc) = One(op_not(t.cond, t.opb), TRUE)
    BY <1>0, <1>5
  <1>15. t.op = "NEG" => Switch(t, v, pc) = NegLine(t)
    BY <1>0, <1>5
  <1>16. t.op = "JMP" => Switch(t, v, pc) = JmpLine(t, Immediate(t, v, pc))
    BY <1>0, <1>5
  <1>17. t.op = "CLR" => Switch(t, v, pc) = ClrLine(t)
    BY <1>0, <1>5
  <1>18. t.op = "TRAP" => Switch(t, v, pc) = TrapLine(t, Immediate(t, v, pc))
    BY <1>0, <1>5
  <1>19. t.op = "RETN" => Switch(t, v, pc) = One(op_dual("LOD", t.cond, -1, SP, PC), TRUE)
    BY <1>0, <1>5
  <1>20. t.op \in MulOps => Switch(t, v, pc) = MulLine(t, Immediate(t, v, pc))
    BY <1>0, <1>3
  <1>21. t.op \in BareOps => Switch(t, v, pc) = One(BareWord(t), TRUE)
    BY <1>0, <1>4
  <1>22. t.op \notin DualOps \cup Branches \cup MulOps \cup BareOps \cup Named
          => Switch(t, v, pc) = One(op_noop, FALSE)
    BY <1>0
  <1> HIDE DEF Switch
  <1> QED BY <1>0, <1>6, <1>7, <1>8, <1>9, <1>10, <1>11, <1>12, <1>13, <1>14,
            <1>15, <1>16, <1>17, <1>18, <1>19, <1>20, <1>21, <1>22

LEMMA AssembleIs ==
  ASSUME NEW t, NEW v, NEW pc, NEW ws, NEW ok, Switch(t, v, pc) = [ws |-> ws, ok |-> ok]
  PROVE  Assemble(t, v, pc).ws = ws /\ (Assemble(t, v, pc).ok <=> ok /\ UserRegsOk(t))
  <1> DEFINE both == ok /\ UserRegsOk(t)
  <1>1. Assemble(t, v, pc) = [[ws |-> ws, ok |-> ok] EXCEPT !.ok = both]  BY DEF Assemble
  <1> HIDE DEF both
  <1>2. Assemble(t, v, pc).ws = ws /\ Assemble(t, v, pc).ok = both  BY <1>1
  <1> QED BY <1>2 DEF both

LEMMA AssembleOne ==
  ASSUME NEW t, NEW v, NEW pc, NEW w, NEW ok, Switch(t, v, pc) = One(w, ok)
  PROVE  /\ Assemble(t, v, pc).ws = << w >>
         /\ Assemble(t, v, pc).ok <=> ok /\ UserRegsOk(t)
  BY AssembleIs DEF One

-----------------------------------------------------------------------------
(* What the processor is to do, one case at a time, and the reach of its   *)
(* immediate.                                                              *)
SingleOps == PlainOps \cup {"MOV", "LDI"}

LEMMA IntendedIs ==
  ASSUME NEW t, NEW v \in Int, NEW pc \in Nat
  PROVE  /\ Immediate(t, v, pc) \in Int /\ Offset(v, pc) \in Int
         /\ t.op \in Branches =>
              Intended(t, v, pc) = Operation("ADD", BranchCond[t.op], Offset(v, pc), NoReg, PC)
         /\ t.op = "JMP" /\ t.opb = NoReg =>
              Intended(t, v, pc) = Operation("LDI", ALWAYS, v, NoReg, PC)
         /\ t.op = "JMP" /\ t.opb # NoReg =>
              Intended(t, v, pc) = Operation("MOV", t.cond, Immediate(t, v, pc), t.opb, PC)
         /\ t.op = "TRAP" /\ t.opb # NoReg =>
              Intended(t, v, pc) = Operation("MOV", t.cond, Immediate(t, v, pc), t.opb, CC)
         /\ t.op = "TRAP" /\ t.opb = NoReg =>
              Intended(t, v, pc)
                = Operation(IF t.cond = ALWAYS THEN "LDI" ELSE "LDILO", t.cond, v, NoReg, CC)
         /\ t.op = "RETN" => Intended(t, v, pc) = Operation("LOD", t.cond, -1, SP, PC)
         /\ t.op = "NOT" => Intended(t, v, pc) = Operation("XOR", t.cond, -1, NoReg, t.opb)
         /\ t.op = "CLRF" => Intended(t, v, pc) = Operation("XOR", t.cond, 0, t.opb, t.opb)
         /\ t.op \in SingleOps =>
              Intended(t, v, pc) = Operation(t.op, t.cond, Immediate(t, v, pc), t.opb, t.opa)
         /\ t.opb = NoReg => Immediate(t, v, pc) = v
  <1> USE DEF Branches
  <1> DEFINE imm == Immediate(t, v, pc)
  <1>0. DOMAIN BranchCond = Branches  BY DEF BranchCond
  <1>1. /\ Offset(v, pc) = v - (pc + 1)
        /\ imm = IF t.opb = PC THEN v - (pc + 1) ELSE v
        /\ imm \in Int /\ Offset(v, pc) \in Int
    BY SMT DEF Immediate, Offset
  <1>2. t.opb = NoReg => imm = v  BY <1>1, SMT DEF PC, NoReg
  <1> USE DEF Intended, Operation
  <1>3. t.op \in Branches =>
          Intended(t, v, pc) = Operation("ADD", BranchCond[t.op], Offset(v, pc), NoReg, PC)
    BY <1>0, <1>1
  <1>4. /\ t.op = "JMP" /\ t.opb = NoReg =>
             Intended(t, v, pc) = Operation("LDI", ALWAYS, v, NoReg, PC)
        /\ t.op = "JMP" /\ t.opb # NoReg =>
             Intended(t, v, pc) = Operation("MOV", t.cond, imm, t.opb, PC)
    BY <1>0, <1>1
  <1>5. /\ t.op = "TRAP" /\ t.opb # NoReg =>
             Intended(t, v, pc) = Operation("MOV", t.cond, imm, t.opb, CC)
        /\ t.op = "TRAP" /\ t.opb = NoReg =>
             Intended(t, v, pc)
               = Operation(IF t.cond = ALWAYS THEN "LDI" ELSE "LDILO", t.cond, v, NoReg, CC)
    BY <1>0, <1>1
  <1>6. /\ t.op = "RETN" => Intended(t, v, pc) = Operation("LOD", t.cond, -1, SP, PC)
        /\ t.op = "NOT" => Intended(t, v, pc) = Operation("XOR", t.cond, -1, NoReg, t.opb)
        /\ t.op = "CLRF" => Intended(t, v, pc) = Operation("XOR", t.cond, 0, t.opb, t.opb)
    BY <1>0
  <1>7. t.op \in SingleOps => Intended(t, v, pc) = Operation(t.op, t.cond, imm, t.opb, t.opa)
    BY <1>0, <1>1 DEF SingleOps, PlainOps, DualOps
  <1> HIDE DEF Intended, Operation, Branches
  <1> QED BY <1>1, <1>2, <1>3, <1>4, <1>5, <1>6, <1>7

(* The bits a statement has for its immediate, and what it is to keep.     *)
LEMMA WidthIs ==
  ASSUME NEW t
  PROVE  /\ t.op \in PlainOps => Width(t) = IF t.opb = NoReg THEN 18 ELSE 14
         /\ t.op \in Branches => Width(t) = 18
         /\ t.op = "LDI" \/ (t.op \in {"JMP", "TRAP"} /\ t.opb = NoReg) => Width(t) = 23
         /\ t.op = "MOV" \/ (t.op \in {"JMP", "TRAP"} /\ t.opb # NoReg) => Width(t) = 13
         /\ t.op \in {"NOT", "CLRF"} /\ t.opb # NoReg => Width(t) = 14
         /\ t.op = "RETN" => Width(t) = IF t.opb = NoReg THEN 18 ELSE 14
  <1> USE DEF Branches
  <1>0. DOMAIN BranchCond = Branches  BY DEF BranchCond
  <1>1. t.op \in PlainOps => Width(t) = IF t.opb = NoReg THEN 18 ELSE 14
    BY <1>0 DEF Width, PlainOps, DualOps
  <1>2. t.op \in Branches => Width(t) = 18  BY <1>0 DEF Width
  <1>3. t.op = "LDI" \/ (t.op \in {"JMP", "TRAP"} /\ t.opb = NoReg) => Width(t) = 23
    BY <1>0 DEF Width
  <1>4. t.op = "MOV" \/ (t.op \in {"JMP", "TRAP"} /\ t.opb # NoReg) => Width(t) = 13
    BY <1>0 DEF Width
  <1>5. t.op \in {"NOT", "CLRF"} /\ t.opb # NoReg => Width(t) = 14  BY <1>0 DEF Width
  <1>6. t.op = "RETN" => Width(t) = IF t.opb = NoReg THEN 18 ELSE 14  BY <1>0 DEF Width
  <1> HIDE DEF Branches
  <1> QED BY <1>1, <1>2, <1>3, <1>4, <1>5, <1>6

LEMMA KeptIs ==
  ASSUME NEW t, NEW imm \in Int
  PROVE  LET cut == t.op \in {"MPYU", "MPYS"} /\ t.opb = NoReg => imm \in HalfWords
         IN  /\ Width(t) = 13 => (Kept(t, imm) <=> Within13(imm) /\ cut)
             /\ Width(t) = 14 => (Kept(t, imm) <=> Within14(imm) /\ cut)
             /\ Width(t) = 18 => (Kept(t, imm) <=> Within18(imm) /\ cut)
             /\ Width(t) = 23 => (Kept(t, imm) <=> Within23(imm) /\ cut)
  <1> DEFINE cut == t.op \in {"MPYU", "MPYS"} /\ t.opb = NoReg => imm \in HalfWords
  <1>1. Kept(t, imm) <=> imm \in -(2^(Width(t) - 1)) .. 2^(Width(t) - 1) - 1 /\ cut
    BY DEF Kept
  <1> HIDE DEF cut
  <1>2. ASSUME Width(t) = 13 PROVE Kept(t, imm) <=> Within13(imm) /\ cut
    <2>1. imm \in -(2^(Width(t) - 1)) .. 2^(Width(t) - 1) - 1 <=> Within13(imm)
      BY <1>2, SMT DEF Within13
    <2> QED BY <1>1, <2>1
  <1>3. ASSUME Width(t) = 14 PROVE Kept(t, imm) <=> Within14(imm) /\ cut
    <2>1. imm \in -(2^(Width(t) - 1)) .. 2^(Width(t) - 1) - 1 <=> Within14(imm)
      BY <1>3, SMT DEF Within14
    <2> QED BY <1>1, <2>1
  <1>4. ASSUME Width(t) = 18 PROVE Kept(t, imm) <=> Within18(imm) /\ cut
    <2>1. imm \in -(2^(Width(t) - 1)) .. 2^(Width(t) - 1) - 1 <=> Within18(imm)
      BY <1>4, SMT DEF Within18
    <2> QED BY <1>1, <2>1
  <1>5. ASSUME Width(t) = 23 PROVE Kept(t, imm) <=> Within23(imm) /\ cut
    <2>1. imm \in -(2^(Width(t) - 1)) .. 2^(Width(t) - 1) - 1 <=> Within23(imm)
      BY <1>5, SMT DEF Within23
    <2> QED BY <1>1, <2>1
  <1> QED BY <1>2, <1>3, <1>4, <1>5 DEF cut

(* What the checks let pass: a number in reach, or one of the negatives    *)
(* that are not.                                                           *)
LEMMA FitsIn ==
  ASSUME NEW i \in Int
  PROVE  /\ Within13(i) => fitsin(i, 13)
         /\ fitsin(i, 13) => Within13(i) \/ i \in -(2^13) .. -1
         /\ fitsin(i, 14) => Within14(i) \/ i \in -(2^14) .. -1
         /\ fitsin(i, 18) => Within18(i) \/ i \in -(2^18) .. -1
         /\ fitsin(i, 18) => i \in -(2^18) .. 2^17 - 1
         /\ fitsin(i, 23) => Within23(i) \/ i \in -(2^23) .. -1
         /\ i \in Nat => (fitsin(i, 23) <=> i < 2^22)
  <1>1. Within13(i) => fitsin(i, 13)  BY SMT DEF Within13, fitsin
  <1>2. fitsin(i, 13) => Within13(i) \/ i \in -(2^13) .. -1  BY SMT DEF Within13, fitsin
  <1>3. fitsin(i, 14) => Within14(i) \/ i \in -(2^14) .. -1  BY SMT DEF Within14, fitsin
  <1>4. fitsin(i, 18) => Within18(i) \/ i \in -(2^18) .. -1  BY SMT DEF Within18, fitsin
  <1>5. fitsin(i, 18) => i \in -(2^18) .. 2^17 - 1  BY SMT DEF fitsin
  <1>6. fitsin(i, 23) => Within23(i) \/ i \in -(2^23) .. -1  BY SMT DEF Within23, fitsin
  <1>7. i \in Nat => (fitsin(i, 23) <=> i < 2^22)  BY SMT DEF fitsin
  <1> QED BY <1>1, <1>2, <1>3, <1>4, <1>5, <1>6, <1>7

LEMMA UnguardedIs ==
  ASSUME NEW t, NEW imm
  PROVE  /\ Width(t) = 13 /\ imm \in -(2^13) .. -1 => Unguarded(t, imm)
         /\ Width(t) = 14 /\ imm \in -(2^14) .. -1 => Unguarded(t, imm)
         /\ Width(t) = 18 /\ imm \in -(2^18) .. -1 => Unguarded(t, imm)
         /\ Width(t) = 23 /\ imm \in -(2^23) .. -1 => Unguarded(t, imm)
         /\ t.op \in {"LOD", "STO", "ROL", "MPYU", "MPYS"} => Unguarded(t, imm)
         /\ t.op = "TRAP" /\ t.opb = NoReg => Unguarded(t, imm)
         /\ t.op = "JMP" /\ t.opb = NoReg /\ Low(imm, 23) < 2^22 => Unguarded(t, imm)
         /\ t.op = "JMP" /\ t.opb # NoReg /\ imm \in -(2^18) .. 2^17 - 1 => Unguarded(t, imm)
  BY DEF Unguarded

-----------------------------------------------------------------------------
(* A statement that is one operation of the processor, assembled without   *)
(* an error to one word, and what the word does: just what the statement   *)
(* says, if it keeps the operand.                                          *)
Whole(t, v, pc) ==
  /\ Statement(t) /\ v \in Int /\ pc \in Nat /\ Direct(t)
  /\ Assemble(t, v, pc).ok /\ Len(Assemble(t, v, pc).ws) = 1
Obeyed(t, v, pc) ==
  LET does == Intended(t, v, pc)
  IN  /\ Executed(Assemble(t, v, pc).ws[1]) = does <=> Kept(t, does.imm)
      /\ Kept(t, does.imm) \/ Unguarded(t, does.imm)

LEMMA WholeIs ==
  ASSUME NEW t, NEW v, NEW pc, Whole(t, v, pc)
  PROVE  Statement(t) /\ v \in Int /\ pc \in Nat
  BY DEF Whole

LEMMA ObeyedIf ==
  ASSUME NEW t, NEW v, NEW pc, NEW w, NEW name, NEW c, NEW imm, NEW left, NEW b, NEW a,
         Assemble(t, v, pc).ws = << w >>,
         Intended(t, v, pc) = Operation(name, c, imm, b, a),
         Executed(w) = Operation(name, c, left, b, a),
         left = imm <=> Kept(t, imm), Kept(t, imm) \/ Unguarded(t, imm)
  PROVE  Obeyed(t, v, pc)
  <1>1. Operation(name, c, imm, b, a).imm = imm /\ Operation(name, c, left, b, a).imm = left
    BY DEF Operation
  <1>2. Operation(name, c, left, b, a) = Operation(name, c, imm, b, a) <=> left = imm  BY <1>1
  <1>3. Assemble(t, v, pc).ws[1] = w  OBVIOUS
  <1> QED BY <1>1, <1>2, <1>3 DEF Obeyed

LEMMA OwnRegisters ==
  ASSUME NEW t, Statement(t), UserRegsOk(t), t.op # "MOV"
  PROVE  t.opa \in (0..15) \cup {NoReg} /\ t.opb \in (0..15) \cup {NoReg}
  BY SMT DEF Statement, UserRegsOk, NoReg, PC

(* What is left of the operand of a plain operation is the operand.        *)
LEMMA LeftKept ==
  ASSUME NEW t, NEW imm \in Int, t.op \in PlainOps, t.op \notin {"MPYU", "MPYS"} \/ t.opb # NoReg
  PROVE  /\ Left(imm, t.opb) = imm <=> Kept(t, imm)
         /\ fitsin(imm, IF t.opb = NoReg THEN 18 ELSE 14) => Kept(t, imm) \/ Unguarded(t, imm)
  <1>1. t.opb = NoReg => Width(t) = 18  BY WidthIs
  <1>2. t.opb # NoReg => Width(t) = 14  BY WidthIs
  <1>3. Kept(t, imm) <=> InField(imm, t.opb)  BY <1>1, <1>2, KeptIs DEF InField
  <1>4. CASE t.opb = NoReg  BY <1>1, <1>3, <1>4, LeftIs, FitsIn, UnguardedIs DEF InField
  <1>5. CASE t.opb # NoReg  BY <1>2, <1>3, <1>5, LeftIs, FitsIn, UnguardedIs DEF InField
  <1> QED BY <1>4, <1>5

LEMMA ObeyedDual ==
  ASSUME NEW t, NEW v, NEW pc, Whole(t, v, pc), t.op \in DualOps \cup {"ROL", "LOD", "STO"}
  PROVE  Obeyed(t, v, pc)
  <1> DEFINE imm == Immediate(t, v, pc)
             w == op_dual(t.op, t.cond, imm, t.opb, t.opa)
             fits == fitsin(imm, IF t.opb = NoReg THEN 18 ELSE 14)
  <1>1. PICK ok : Switch(t, v, pc) = One(w, ok) /\ (t.op \in DualOps /\ ok => fits)
    <2>1. t.op \in DualOps => Switch(t, v, pc) = DualLine(t, imm)  BY SwitchIs
    <2>2. t.op = "ROL" => Switch(t, v, pc) = RolLine(t, imm)  BY SwitchIs
    <2>3. t.op \in {"LOD", "STO"} => Switch(t, v, pc) = MemLine(t, imm)  BY SwitchIs
    <2>4. t.op \in DualOps => Switch(t, v, pc) = One(w, t.opa # NoReg /\ fits)
      BY <2>1 DEF DualLine
    <2>5. t.op = "ROL" => \E ok : Switch(t, v, pc) = One(w, ok)  BY <2>2 DEF RolLine
    <2>6. t.op \in {"LOD", "STO"} => \E ok : Switch(t, v, pc) = One(w, ok)  BY <2>3 DEF MemLine
    <2>7. t.op \in {"ROL", "LOD", "STO"} => t.op \notin DualOps  BY DEF DualOps
    <2> QED BY <2>4, <2>5, <2>6, <2>7
  <1> HIDE DEF imm, w, fits
  <1>2. Assemble(t, v, pc).ws = << w >> /\ UserRegsOk(t) /\ ok  BY <1>1, AssembleOne DEF Whole
  <1>3. /\ t.op \in PlainOps /\ t.op \in SingleOps /\ t.op # "MOV" /\ t.op \notin {"MPYU", "MPYS"}
        /\ t.op \in DualOps \/ t.op \in {"LOD", "STO", "ROL", "MPYU", "MPYS"}
    BY SMT DEF PlainOps, SingleOps, DualOps
  <1>4. Intended(t, v, pc) = Operation(t.op, t.cond, imm, t.opb, t.opa) /\ imm \in Int
    BY <1>3, IntendedIs, WholeIs DEF imm
  <1>5. t.opa # NoReg /\ t.cond \in 0..7  BY SMT DEF Whole, Statement
  <1>6. t.opa \in 0..15 /\ t.opb \in (0..15) \cup {NoReg}
    BY <1>2, <1>3, <1>5, OwnRegisters DEF Whole
  <1>7. Executed(w) = Operation(t.op, t.cond, Left(imm, t.opb), t.opb, t.opa)
    BY <1>3, <1>4, <1>5, <1>6, DualExecuted DEF w
  <1>8. Left(imm, t.opb) = imm <=> Kept(t, imm)  BY <1>3, <1>4, LeftKept
  <1>9. Kept(t, imm) \/ Unguarded(t, imm)
    BY <1>1, <1>2, <1>3, <1>4, LeftKept, UnguardedIs DEF fits
  <1> QED BY <1>2, <1>4, <1>7, <1>8, <1>9, ObeyedIf

LEMMA ObeyedBranch ==
  ASSUME NEW t, NEW v, NEW pc, Whole(t, v, pc), t.op \in Branches
  PROVE  /\ Obeyed(t, v, pc)
         /\ t.op = "BRA" /\ Kept(t, Intended(t, v, pc).imm) =>
              zop_early_branch(pc, Assemble(t, v, pc).ws[1]) = v
  <1> DEFINE offset == Offset(v, pc)
             c == BranchCond[t.op]
             w == op_dual("ADD", c, offset, NoReg, PC)
  <1>1. Switch(t, v, pc) = One(w, fitsin(offset, 18))
    <2>1. t.op \in DOMAIN BranchCond  BY DEF BranchCond, Branches
    <2> QED BY <2>1, SwitchIs DEF BranchLine, op_branch
  <1>2. c \in 0..7 /\ (t.op = "BRA" => c = 0)  BY SMT DEF Branches, BranchCond
  <1> HIDE DEF offset, w, c
  <1>3. Assemble(t, v, pc).ws = << w >> /\ fitsin(offset, 18)  BY <1>1, AssembleOne DEF Whole
  <1>4. Intended(t, v, pc) = Operation("ADD", c, offset, NoReg, PC) /\ offset \in Int
    BY IntendedIs, WholeIs DEF offset, c
  <1>5. Executed(w) = Operation("ADD", c, Left(offset, NoReg), NoReg, PC)
    <2>1. "ADD" \in PlainOps /\ PC \in 0..15  BY SMT DEF PlainOps, DualOps, PC
    <2> QED BY <1>2, <1>4, <2>1, DualExecuted DEF w
  <1>6. /\ Left(offset, NoReg) = offset <=> Kept(t, offset)
        /\ Kept(t, offset) <=> Within18(offset)
        /\ Kept(t, offset) \/ Unguarded(t, offset)
    <2>1. Width(t) = 18  BY WidthIs
    <2>2. t.op \notin {"MPYU", "MPYS"}  BY DEF Branches
    <2>3. Kept(t, offset) <=> Within18(offset)  BY <1>4, <2>1, <2>2, KeptIs
    <2>4. Left(offset, NoReg) = offset <=> Within18(offset)  BY <1>4, LeftIs DEF InField
    <2> QED BY <1>3, <1>4, <2>1, <2>3, <2>4, FitsIn, UnguardedIs
  <1>7. t.op = "BRA" /\ Kept(t, Intended(t, v, pc).imm) => zop_early_branch(pc, w) = v
    <2> SUFFICES ASSUME t.op = "BRA", Kept(t, Intended(t, v, pc).imm)
                 PROVE  zop_early_branch(pc, w) = v
      OBVIOUS
    <2>0. Within18(offset)  BY <1>4, <1>6 DEF Operation
    <2>1. w = IMMOP(2, 0, offset, PC)  BY <1>2 DEF w, op_dual, ZIPO
    <2>2. PC \in 0..NoReg /\ Low(PC, 4) = PC  BY SMT DEF PC, NoReg, Low
    <2>3. /\ w \in Nat /\ A(w) = PC /\ Op(w) = 2 /\ Bits(w, 18, 4) = 0
          /\ Low(w, 18) = Low(offset, 18)
      <3>1. 2 \in 0..31 /\ 0 \in 0..7 /\ 2 * 0 = 0  BY SMT
      <3> QED BY <1>4, <2>1, <2>2, <3>1, ImmediateWord
    <2>4. SBits(w, 18) = offset
      <3>1. SBits(w, 18) = SBits(offset, 18)  BY <1>4, <2>3, SameBits
      <3> QED BY <1>4, <2>0, <3>1, SignedAs
    <2>5. zop_early_branch(pc, w) = pc + 1 + offset
      BY <2>3, <2>4, SMT DEF zop_early_branch, ZIPO
    <2> QED BY <2>5, SMT DEF offset, Offset, Whole
  <1>8. Obeyed(t, v, pc)  BY <1>3, <1>4, <1>5, <1>6, ObeyedIf
  <1> QED BY <1>3, <1>7, <1>8

LEMMA ObeyedMove ==
  ASSUME NEW t, NEW v, NEW pc, Whole(t, v, pc), t.op = "MOV"
  PROVE  Obeyed(t, v, pc)
  <1> DEFINE imm == Immediate(t, v, pc)
             w == op_mov(t.cond, imm, t.opb, t.opa)
             ok == t.opa # NoReg /\ t.opb # NoReg /\ fitsin(imm, 13)
  <1>1. Switch(t, v, pc) = One(w, ok)  BY SwitchIs DEF MovLine
  <1>2. Assemble(t, v, pc).ws = << w >> /\ ok  BY <1>1, AssembleOne DEF Whole
  <1> HIDE DEF imm
  <1>3. t.opa \in 0..31 /\ t.opb \in 0..31 /\ t.cond \in 0..7
    BY <1>2, SMT DEF Whole, Statement, NoReg
  <1> HIDE DEF w
  <1>4. Intended(t, v, pc) = Operation("MOV", t.cond, imm, t.opb, t.opa) /\ imm \in Int
    <2>1. t.op \in SingleOps  BY DEF SingleOps
    <2> QED BY <2>1, IntendedIs, WholeIs DEF imm
  <1>5. Executed(w) = Operation("MOV", t.cond, SBits(imm, 13), t.opb, t.opa)
    BY <1>3, <1>4, MoveExecuted DEF w
  <1>6. Width(t) = 13  BY WidthIs
  <1>7. Kept(t, imm) <=> Within13(imm)  BY <1>4, <1>6, KeptIs
  <1>8. SBits(imm, 13) = imm <=> Kept(t, imm)  BY <1>4, <1>7, SignedAs
  <1>9. Kept(t, imm) \/ Unguarded(t, imm)  BY <1>2, <1>4, <1>6, <1>7, FitsIn, UnguardedIs
  <1> QED BY <1>2, <1>4, <1>5, <1>8, <1>9, ObeyedIf

LEMMA ObeyedHalf ==
  ASSUME NEW t, NEW v, NEW pc, Whole(t, v, pc), t.op = "LDILO"
  PROVE  Obeyed(t, v, pc)
  <1> DEFINE imm == Immediate(t, v, pc)
             w == op_ldilo(t.cond, imm, t.opa)
             ok == imm \in HalfWords /\ t.opb = NoReg /\ t.opa # NoReg
  <1>1. Switch(t, v, pc) = One(w, ok)
    <2>1. Switch(t, v, pc) = HalfLine(t, imm)  BY SwitchIs
    <2> QED BY <2>1 DEF HalfLine
  <1>2. Assemble(t, v, pc).ws = << w >> /\ ok /\ UserRegsOk(t)
    BY <1>1, AssembleOne DEF Whole
  <1> HIDE DEF imm
  <1>3. /\ Intended(t, v, pc) = Operation("LDILO", t.cond, imm, t.opb, t.opa) /\ imm \in Int
    <2>1. t.op \in SingleOps  BY DEF SingleOps, PlainOps
    <2> QED BY <2>1, IntendedIs, WholeIs DEF imm
  <1>4. w = op_dual("LDILO", t.cond, imm, t.opb, t.opa)
    <2>1. Low(imm, 16) = imm  BY <1>2, <1>3, Cut16
    <2> QED BY <1>2, <2>1 DEF op_ldilo, op_dual
  <1> HIDE DEF w
  <1>5. t.opa \in 0..15 /\ t.opb \in (0..15) \cup {NoReg}
    BY <1>2, OwnRegisters DEF Whole
  <1>6. "LDILO" \in PlainOps /\ t.cond \in 0..7  BY DEF PlainOps, Whole, Statement
  <1>7. Executed(w) = Operation("LDILO", t.cond, Left(imm, t.opb), t.opb, t.opa)
    BY <1>3, <1>4, <1>5, <1>6, DualExecuted
  <1>8. Left(imm, t.opb) = imm <=> Kept(t, imm)  BY <1>3, <1>6, LeftKept
  <1>9. Kept(t, imm)
    <2>1. Left(imm, t.opb) = imm  BY <1>2, <1>3, Cut16, LeftIs DEF InField
    <2> QED BY <1>8, <2>1
  <1> QED BY <1>2, <1>3, <1>7, <1>8, <1>9, ObeyedIf

LEMMA ObeyedMultiply ==
  ASSUME NEW t, NEW v, NEW pc, Whole(t, v, pc), t.op \in {"MPYU", "MPYS"}
  PROVE  Obeyed(t, v, pc)
  <1> DEFINE imm == Immediate(t, v, pc)
             cut == IF t.opb = NoReg THEN Low(imm, 16) ELSE imm
             w == op_mul(t.op, t.cond, imm, t.opb, t.opa)
  <1>1. Switch(t, v, pc) = MulLine(t, imm)  BY SwitchIs DEF MulOps
  <1>2. Switch(t, v, pc) = One(w, TRUE)
    <2>1. Switch(t, v, pc) = One(NoWord, FALSE) \/ Switch(t, v, pc) = One(w, TRUE)
      BY <1>1 DEF MulLine
    <2>2. Switch(t, v, pc) # One(NoWord, FALSE)  BY AssembleOne DEF Whole
    <2> QED BY <2>1, <2>2
  <1>3. w = op_dual(t.op, t.cond, cut, t.opb, t.opa)  BY DEF op_mul
  <1> HIDE DEF imm, w
  <1>4. Assemble(t, v, pc).ws = << w >> /\ UserRegsOk(t)  BY <1>2, AssembleOne DEF Whole
  <1>5. t.op \in PlainOps /\ t.op \in SingleOps /\ t.op # "MOV"
    BY SMT DEF PlainOps, SingleOps, DualOps
  <1>6. Intended(t, v, pc) = Operation(t.op, t.cond, imm, t.opb, t.opa) /\ imm \in Int
    BY <1>5, IntendedIs, WholeIs DEF imm
  <1>7. t.opa # NoReg /\ t.cond \in 0..7  BY SMT DEF Whole, Statement, MulOps
  <1>8. t.opa \in 0..15 /\ t.opb \in (0..15) \cup {NoReg}
    BY <1>4, <1>5, <1>7, OwnRegisters DEF Whole
  <1>9. cut \in Int
    <2>1. Low(imm, 16) \in Int  BY <1>6, SMT DEF Low
    <2> QED BY <1>6, <2>1
  <1>10. Left(cut, t.opb) = imm <=> Kept(t, imm)
    <2>1. CASE t.opb = NoReg
      <3>1. Width(t) = 18  BY <1>5, <2>1, WidthIs
      <3>2. cut = Low(imm, 16)  BY <2>1
      <3> HIDE DEF cut
      <3>3. cut \in HalfWords /\ (cut = imm <=> imm \in HalfWords)  BY <1>6, <3>2, Cut16
      <3>4. Left(cut, t.opb) = cut  BY <1>9, <2>1, <3>3, Cut16, LeftIs DEF InField
      <3>5. Kept(t, imm) <=> imm \in HalfWords
        BY <1>6, <2>1, <3>1, KeptIs, Cut16
      <3> QED BY <3>3, <3>4, <3>5
    <2>2. CASE t.opb # NoReg  BY <1>5, <1>6, <2>2, LeftKept
    <2> QED BY <2>1, <2>2
  <1>11. Unguarded(t, imm)  BY UnguardedIs
  <1> HIDE DEF cut
  <1>12. Executed(w) = Operation(t.op, t.cond, Left(cut, t.opb), t.opb, t.opa)
    BY <1>3, <1>5, <1>7, <1>8, <1>9, DualExecuted
  <1> QED BY <1>4, <1>6, <1>10, <1>11, <1>12, ObeyedIf

LEMMA ObeyedLoad ==
  ASSUME NEW t, NEW v, NEW pc, Whole(t, v, pc), t.op = "LDI"
  PROVE  Obeyed(t, v, pc)
  <1> DEFINE imm == Immediate(t, v, pc)
             w == op_ldi(imm, t.opa)
             pair == [ws |-> <<op_ldihi(t.cond, Bits(imm, 16, 16), t.opa),
                               op_ldilo(t.cond, Low(imm, 16), t.opa)>>,
                      ok |-> t.opa # PC]
  <1>1. Switch(t, v, pc) = IF fitsin(imm, 23) /\ t.cond = ALWAYS THEN One(w, TRUE) ELSE pair
    BY SwitchIs DEF LdiLine
  <1>2. Switch(t, v, pc) = One(w, TRUE) /\ t.cond = ALWAYS /\ fitsin(imm, 23)
    <2> SUFFICES ASSUME Switch(t, v, pc) = pair PROVE FALSE
      BY <1>1
    <2>1. Len(Assemble(t, v, pc).ws) = 2  BY AssembleIs
    <2> QED BY <2>1 DEF Whole
  <1> HIDE DEF imm, w
  <1>3. Assemble(t, v, pc).ws = << w >> /\ UserRegsOk(t)  BY <1>2, AssembleOne DEF Whole
  <1>4. t.op \in SingleOps /\ t.op \in WithoutB /\ t.op # "MOV"  BY DEF SingleOps, WithoutB
  <1>5. Intended(t, v, pc) = Operation("LDI", t.cond, imm, t.opb, t.opa) /\ imm \in Int
    BY <1>4, IntendedIs, WholeIs DEF imm
  <1>6. t.opb = NoReg /\ t.opa # NoReg  BY <1>4 DEF Whole, Statement
  <1>7. t.opa \in 0..15 /\ t.opa \in 0..NoReg
    BY <1>3, <1>4, <1>6, OwnRegisters DEF Whole, Statement
  <1>8. Executed(w) = Operation("LDI", ALWAYS, SBits(imm, 23), NoReg, Low(t.opa, 4))
    BY <1>5, <1>7, LoadExecuted DEF w
  <1>9. Low(t.opa, 4) = t.opa  BY <1>7, Cut4
  <1>10. Width(t) = 23  BY WidthIs
  <1>11. Kept(t, imm) <=> Within23(imm)  BY <1>5, <1>10, KeptIs
  <1>12. SBits(imm, 23) = imm <=> Kept(t, imm)  BY <1>5, <1>11, SignedAs
  <1>13. Kept(t, imm) \/ Unguarded(t, imm)  BY <1>2, <1>5, <1>10, <1>11, FitsIn, UnguardedIs
  <1> QED BY <1>2, <1>3, <1>5, <1>6, <1>8, <1>9, <1>12, <1>13, ObeyedIf

(* A move to the program counter or the flags, as JMP and TRAP make it.    *)
LEMMA ObeyedMoveTo ==
  ASSUME NEW t, NEW v, NEW pc, NEW a, Whole(t, v, pc), a \in 0..15,
         Switch(t, v, pc) = One(op_mov(t.cond, Immediate(t, v, pc), t.opb, a), TRUE),
         t.op \in {"JMP", "TRAP"}, t.opb # NoReg, fitsin(Immediate(t, v, pc), 13),
         Intended(t, v, pc) = Operation("MOV", t.cond, Immediate(t, v, pc), t.opb, a)
  PROVE  Obeyed(t, v, pc)
  <1> DEFINE imm == Immediate(t, v, pc)
             w == op_mov(t.cond, imm, t.opb, a)
  <1>1. Assemble(t, v, pc).ws = << w >> /\ UserRegsOk(t)  BY AssembleOne DEF Whole
  <1>2. imm \in Int  BY IntendedIs, WholeIs
  <1> HIDE DEF imm, w
  <1>3. t.opb \in 0..15  BY <1>1, OwnRegisters DEF Whole
  <1>4. t.opb \in 0..31 /\ a \in 0..31 /\ t.cond \in 0..7
    BY <1>3, SMT DEF Whole, Statement
  <1>5. Executed(w) = Operation("MOV", t.cond, SBits(imm, 13), t.opb, a)
    BY <1>2, <1>4, MoveExecuted DEF w
  <1>6. Width(t) = 13  BY WidthIs
  <1>7. Kept(t, imm) <=> Within13(imm)  BY <1>2, <1>6, KeptIs
  <1>8. SBits(imm, 13) = imm <=> Kept(t, imm)  BY <1>2, <1>7, SignedAs
  <1>9. Kept(t, imm) \/ Unguarded(t, imm)
    BY <1>2, <1>6, <1>7, FitsIn, UnguardedIs DEF imm
  <1>10. Intended(t, v, pc) = Operation("MOV", t.cond, imm, t.opb, a)  BY DEF imm
  <1> QED BY <1>1, <1>5, <1>8, <1>9, <1>10, ObeyedIf

(* A load of an immediate to the program counter or the flags.             *)
LEMMA ObeyedLoadTo ==
  ASSUME NEW t, NEW v, NEW pc, NEW i, NEW a, Whole(t, v, pc), NEW ok, i \in Int, a \in 0..15,
         Switch(t, v, pc) = One(op_ldi(i, a), ok), Low(i, 23) = Low(v, 23),
         t.op \in {"JMP", "TRAP"}, t.opb = NoReg, Unguarded(t, v),
         Intended(t, v, pc) = Operation("LDI", ALWAYS, v, NoReg, a)
  PROVE  Obeyed(t, v, pc)
  <1>1. Assemble(t, v, pc).ws = << op_ldi(i, a) >>  BY AssembleOne
  <1>2. a \in 0..NoReg /\ Low(a, 4) = a
    <2>1. a \in 0..NoReg  BY SMT DEF NoReg
    <2> QED BY <2>1, Cut4
  <1>3. v \in Int  BY WholeIs
  <1>4. Executed(op_ldi(i, a)) = Operation("LDI", ALWAYS, SBits(v, 23), NoReg, a)
    <2>1. SBits(i, 23) = SBits(v, 23)  BY <1>3, SameBits
    <2> QED BY <1>2, <2>1, LoadExecuted
  <1>5. Width(t) = 23  BY WidthIs
  <1>6. Kept(t, v) <=> Within23(v)  BY <1>3, <1>5, KeptIs
  <1>7. SBits(v, 23) = v <=> Kept(t, v)  BY <1>3, <1>6, SignedAs
  <1> QED BY <1>1, <1>4, <1>7, ObeyedIf

(* A jump by more than a move can hold becomes an addition.                *)
LEMMA ObeyedFarJump ==
  ASSUME NEW t, NEW v, NEW pc, Whole(t, v, pc), t.op = "JMP", t.opb # NoReg,
         ~fitsin(Immediate(t, v, pc), 13), fitsin(Immediate(t, v, pc), 18),
         Switch(t, v, pc) = One(op_dual("ADD", t.cond, Immediate(t, v, pc), t.opb, PC), TRUE),
         Intended(t, v, pc) = Operation("MOV", t.cond, Immediate(t, v, pc), t.opb, PC)
  PROVE  Obeyed(t, v, pc)
  <1> DEFINE imm == Immediate(t, v, pc)
             w == op_dual("ADD", t.cond, imm, t.opb, PC)
  <1>1. Assemble(t, v, pc).ws = << w >> /\ UserRegsOk(t)  BY AssembleOne DEF Whole
  <1>2. imm \in Int  BY IntendedIs, WholeIs
  <1>3. ~fitsin(imm, 13) /\ fitsin(imm, 18)  OBVIOUS
  <1>4. Intended(t, v, pc) = Operation("MOV", t.cond, imm, t.opb, PC)  OBVIOUS
  <1> HIDE DEF imm, w
  <1>5. t.opb \in (0..15) \cup {NoReg} /\ PC \in 0..15 /\ t.cond \in 0..7 /\ "ADD" \in PlainOps
    <2>1. PC \in 0..15 /\ "ADD" \in PlainOps  BY SMT DEF PC, PlainOps, DualOps
    <2> QED BY <1>1, <2>1, OwnRegisters DEF Whole, Statement
  <1>6. Executed(w) = Operation("ADD", t.cond, Left(imm, t.opb), t.opb, PC)
    BY <1>2, <1>5, DualExecuted DEF w
  <1>7. ~Kept(t, imm)
    <2>1. Width(t) = 13  BY WidthIs
    <2> QED BY <1>2, <1>3, <2>1, KeptIs, FitsIn
  <1>8. Unguarded(t, imm)  BY <1>2, <1>3, FitsIn, UnguardedIs
  <1>9. Executed(w) # Intended(t, v, pc)
    <2>1. Executed(w).name = "ADD" /\ Intended(t, v, pc).name = "MOV"  BY <1>4, <1>6 DEF Operation
    <2> QED BY <2>1
  <1>10. Intended(t, v, pc).imm = imm  BY <1>4 DEF Operation
  <1> QED BY <1>1, <1>7, <1>8, <1>9, <1>10 DEF Obeyed

LEMMA ObeyedJump ==
  ASSUME NEW t, NEW v, NEW pc, Whole(t, v, pc), t.op = "JMP"
  PROVE  Obeyed(t, v, pc)
  <1> DEFINE imm == Immediate(t, v, pc)
             cut == Low(v, 23)
  <1>1. Switch(t, v, pc) = JmpLine(t, imm)  BY SwitchIs
  <1>2. PC \in 0..15  BY SMT DEF PC
  <1>3. CASE t.opb = NoReg
    <2>1. Intended(t, v, pc) = Operation("LDI", ALWAYS, v, NoReg, PC) /\ imm = v
      BY <1>3, IntendedIs, WholeIs
    <2>2. cut \in Nat /\ Low(cut, 23) = Low(v, 23)
      BY WholeIs, CutTwice, SMT DEF Low
    <2>3. Switch(t, v, pc) = One(op_ldi(cut, PC), t.cond = ALWAYS /\ fitsin(cut, 23))
      BY <1>1, <1>3, <2>1 DEF JmpLine
    <2>4. Low(v, 23) < 2^22
      <3>1. fitsin(cut, 23)  BY <2>3, AssembleOne DEF Whole
      <3>2. cut = Low(v, 23)  OBVIOUS
      <3> HIDE DEF cut
      <3>3. cut \in Int  BY <2>2, SMT
      <3> QED BY <2>2, <3>1, <3>2, <3>3, FitsIn
    <2>5. Unguarded(t, v)  BY <1>3, <2>4, UnguardedIs
    <2> HIDE DEF cut, imm
    <2>6. cut \in Int  BY <2>2, SMT
    <2> QED BY <1>2, <1>3, <2>1, <2>2, <2>3, <2>5, <2>6, ObeyedLoadTo
  <1>4. CASE t.opb # NoReg
    <2>1. Intended(t, v, pc) = Operation("MOV", t.cond, imm, t.opb, PC)
      BY <1>4, IntendedIs, WholeIs
    <2>2. CASE fitsin(imm, 13)
      <3>1. Switch(t, v, pc) = One(op_mov(t.cond, imm, t.opb, PC), TRUE)
        BY <1>1, <1>4, <2>2 DEF JmpLine
      <3> QED BY <1>2, <1>4, <2>1, <2>2, <3>1, ObeyedMoveTo
    <2>3. CASE ~fitsin(imm, 13)
      <3>1. fitsin(imm, 18)
        <4> SUFFICES ASSUME ~fitsin(imm, 18) PROVE FALSE
          OBVIOUS
        <4>1. Switch(t, v, pc) = One(NoWord, FALSE)  BY <1>1, <1>4, <2>3 DEF JmpLine
        <4> QED BY <4>1, AssembleOne DEF Whole
      <3>2. Switch(t, v, pc) = One(op_dual("ADD", t.cond, imm, t.opb, PC), TRUE)
        BY <1>1, <1>4, <2>3, <3>1 DEF JmpLine
      <3> QED BY <1>4, <2>1, <2>3, <3>1, <3>2, ObeyedFarJump
    <2> QED BY <2>2, <2>3
  <1> QED BY <1>3, <1>4

LEMMA ObeyedTrap ==
  ASSUME NEW t, NEW v, NEW pc, Whole(t, v, pc), t.op = "TRAP"
  PROVE  Obeyed(t, v, pc)
  <1> DEFINE imm == Immediate(t, v, pc)
             zero == op_ldilo(t.cond, 0, CC)
  <1>1. Switch(t, v, pc) = TrapLine(t, imm)  BY SwitchIs
  <1>2. CC \in 0..15 /\ v \in Int  BY WholeIs, SMT DEF CC
  <1>3. CASE t.opb = NoReg
    <2>1. /\ Intended(t, v, pc)
               = Operation(IF t.cond = ALWAYS THEN "LDI" ELSE "LDILO", t.cond, v, NoReg, CC)
          /\ imm = v
      BY <1>3, IntendedIs, WholeIs
    <2>2. Unguarded(t, v)  BY <1>3, UnguardedIs
    <2>3. CASE t.cond = ALWAYS
      <3>1. Switch(t, v, pc) = One(op_ldi(v, CC), TRUE)
        BY <1>1, <1>3, <2>1, <2>3 DEF TrapLine
      <3>2. Intended(t, v, pc) = Operation("LDI", ALWAYS, v, NoReg, CC)  BY <2>1, <2>3
      <3> QED BY <1>2, <1>3, <2>2, <3>1, <3>2, ObeyedLoadTo
    <2>4. CASE t.cond # ALWAYS
      <3> DEFINE w == op_ldilo(t.cond, v, CC)
      <3>1. v \in HalfWords /\ Switch(t, v, pc) = One(w, TRUE)
        <4>1. \/ v \in HalfWords /\ Switch(t, v, pc) = One(w, TRUE)
              \/ Switch(t, v, pc) = One(zero, FALSE)
          BY <1>1, <1>3, <2>1, <2>4 DEF TrapLine
        <4>2. Switch(t, v, pc) # One(zero, FALSE)  BY AssembleOne DEF Whole
        <4> QED BY <4>1, <4>2
      <3>2. w = op_dual("LDILO", t.cond, v, NoReg, CC)
        <4>1. Low(v, 16) = v  BY <1>2, <3>1, Cut16
        <4> QED BY <4>1 DEF op_ldilo, op_dual
      <3> HIDE DEF w
      <3>3. Assemble(t, v, pc).ws = << w >>  BY <3>1, AssembleOne
      <3>4. "LDILO" \in PlainOps /\ t.cond \in 0..7  BY DEF PlainOps, Whole, Statement
      <3>5. NoReg \in (0..15) \cup {NoReg}  OBVIOUS
      <3>6. Executed(w) = Operation("LDILO", t.cond, Left(v, NoReg), NoReg, CC)
        BY <1>2, <3>2, <3>4, <3>5, DualExecuted
      <3>7. Left(v, NoReg) = v  BY <1>2, <3>1, Cut16, LeftIs DEF InField
      <3>8. Kept(t, v)
        <4>1. Width(t) = 23  BY <1>3, WidthIs
        <4> QED BY <1>2, <3>1, <4>1, Cut16, KeptIs
      <3> QED BY <2>1, <2>4, <3>3, <3>6, <3>7, <3>8, ObeyedIf
    <2> QED BY <2>3, <2>4
  <1>4. CASE t.opb # NoReg
    <2>1. Intended(t, v, pc) = Operation("MOV", t.cond, imm, t.opb, CC)
      BY <1>4, IntendedIs, WholeIs
    <2>2. fitsin(imm, 13)
      <3> SUFFICES ASSUME ~fitsin(imm, 13) PROVE FALSE
        OBVIOUS
      <3>1. \E w : Switch(t, v, pc) = One(w, FALSE)
        BY <1>1, <1>4 DEF TrapLine
      <3> QED BY <3>1, AssembleOne DEF Whole
    <2>3. Switch(t, v, pc) = One(op_mov(t.cond, imm, t.opb, CC), TRUE)
      BY <1>1, <1>4, <2>2 DEF TrapLine
    <2> QED BY <1>2, <1>4, <2>1, <2>2, <2>3, ObeyedMoveTo
  <1> QED BY <1>3, <1>4

LEMMA ObeyedFixed ==
  ASSUME NEW t, NEW v, NEW pc, Whole(t, v, pc), t.op \in {"RETN", "NOT", "CLRF"}
  PROVE  Obeyed(t, v, pc)
  <1> DEFINE name == IF t.op = "RETN" THEN "LOD" ELSE "XOR"
             imm == IF t.op = "CLRF" THEN 0 ELSE -1
             b == IF t.op = "RETN" THEN SP ELSE IF t.op = "NOT" THEN NoReg ELSE t.opb
             a == IF t.op = "RETN" THEN PC ELSE t.opb
             w == op_dual(name, t.cond, imm, b, a)
  <1>1. t.op # "RETN" => t.opb # NoReg  BY DEF Whole, Direct
  <1>2. Switch(t, v, pc) = One(w, TRUE)
    <2>1. t.op = "RETN" => Switch(t, v, pc) = One(w, TRUE)  BY SwitchIs
    <2>2. t.op = "NOT" => Switch(t, v, pc) = One(w, TRUE)
      BY SwitchIs DEF op_not, op_dual, ZIPO
    <2>3. t.op = "CLRF" => Switch(t, v, pc) = One(w, TRUE)
      BY <1>1, SwitchIs DEF op_clrf, op_dual, ZIPO
    <2> QED BY <2>1, <2>2, <2>3
  <1>3. Intended(t, v, pc) = Operation(name, t.cond, imm, b, a)
    <2>1. t.op = "RETN" => Intended(t, v, pc) = Operation(name, t.cond, imm, b, a)
      BY IntendedIs, WholeIs
    <2>2. t.op = "NOT" => Intended(t, v, pc) = Operation(name, t.cond, imm, b, a)
      BY IntendedIs, WholeIs
    <2>3. t.op = "CLRF" => Intended(t, v, pc) = Operation(name, t.cond, imm, b, a)
      BY IntendedIs, WholeIs
    <2> QED BY <2>1, <2>2, <2>3
  <1>4. name \in PlainOps  BY DEF PlainOps, DualOps
  <1>5. imm \in Int /\ Within18(imm) /\ Within14(imm)
    <2>1. imm \in {0, -1}  OBVIOUS
    <2> HIDE DEF imm
    <2>2. Within18(imm)  BY <2>1, SMT DEF Within18
    <2>3. Within14(imm)  BY <2>1, SMT DEF Within14
    <2> QED BY <2>2, <2>3 DEF Within18
  <1>6. a \in 0..15 /\ b \in (0..15) \cup {NoReg}
    <2>1. Assemble(t, v, pc).ws = << w >> /\ UserRegsOk(t)  BY <1>2, AssembleOne DEF Whole
    <2>2. t.opb \in (0..15) \cup {NoReg}  BY <2>1, OwnRegisters DEF Whole
    <2>3. SP \in 0..15 /\ PC \in 0..15  BY SMT DEF SP, PC
    <2> QED BY <1>1, <2>2, <2>3
  <1> HIDE DEF name, imm, b, a
  <1>7. t.cond \in 0..7  BY DEF Whole, Statement
  <1>8. Executed(w) = Operation(name, t.cond, Left(imm, b), b, a)
    BY <1>4, <1>5, <1>6, <1>7, DualExecuted
  <1>9. Left(imm, b) = imm  BY <1>5, LeftIs DEF InField
  <1>10. Kept(t, imm)
    <2>1. Width(t) = 14 \/ Width(t) = 18  BY <1>1, WidthIs
    <2> QED BY <1>5, <2>1, KeptIs
  <1>11. Assemble(t, v, pc).ws = << w >>  BY <1>2, AssembleOne
  <1> QED BY <1>3, <1>8, <1>9, <1>10, <1>11, ObeyedIf

(* The processor does what such a statement says exactly if the word keeps *)
(* the operand, and then an unconditional branch goes to the address; an   *)
(* operand that is lost is one that nothing looks at (asmdata.cpp:216).    *)
THEOREM Decoded ==
  ASSUME NEW t, NEW v, NEW pc, Whole(t, v, pc)
  PROVE  /\ Obeyed(t, v, pc)
         /\ t.op = "BRA" /\ Kept(t, Intended(t, v, pc).imm) =>
              zop_early_branch(pc, Assemble(t, v, pc).ws[1]) = v
  <1>1. DOMAIN BranchCond = Branches  BY DEF BranchCond, Branches
  <1>2. t.op \in (DualOps \cup {"ROL", "LOD", "STO"}) \cup Branches \cup {"MPYU", "MPYS"}
             \cup {"MOV", "LDI", "LDILO", "JMP", "TRAP"} \cup {"RETN", "NOT", "CLRF"}
    BY <1>1 DEF Whole, Direct
  <1>3. "BRA" \in Branches  BY DEF Branches
  <1>4. Obeyed(t, v, pc)
    BY <1>2, ObeyedDual, ObeyedBranch, ObeyedMultiply, ObeyedMove, ObeyedLoad, ObeyedHalf,
       ObeyedJump, ObeyedTrap, ObeyedFixed
  <1> QED BY <1>3, <1>4, ObeyedBranch

-----------------------------------------------------------------------------
(* The words the disassembler is given, by their fields, and what the      *)
(* processor does for them.                                                *)
Fields(w, a, op, c, s, b, r) == Fits(a, op, c, s, b, r) /\ w = Word(a, op, c, s, b, r)

LEMMA FieldsExecuted ==
  ASSUME NEW w, NEW a, NEW op, NEW c, NEW s, NEW b, NEW r, Fields(w, a, op, c, s, b, r)
  PROVE  /\ op \notin {15, 22, 23} /\ s = 0 =>
              Executed(w) = Operation(OpName[op + 1], c, SBits(w, 18), NoReg, a)
         /\ op \notin {15, 22, 23} /\ s = 1 =>
              Executed(w) = Operation(OpName[op + 1], c, SBits(w, 14), b, a)
         /\ op = 15 =>
              Executed(w) = Operation("MOV", c, SBits(w, 13), b + 16 * Bit13(w), a + 16 * s)
         /\ op \in {22, 23} => Executed(w) = Operation("LDI", ALWAYS, SBits(w, 23), NoReg, a)
         /\ s = 0 \/ s = 1
  <1>1. /\ A(w) = a /\ Op(w) = op /\ Cond(w) = c /\ Bit18(w) = s /\ B(w) = b
        /\ a \in 0..15 /\ op \in 0..31 /\ b \in 0..15 /\ s \in 0..1
    BY FieldsOf DEF Fields, Fits
  <1>2. w_ldi(w) <=> op \in {22, 23}  BY <1>1 DEF w_ldi
  <1>3. w_mov(w) <=> op = 15  BY <1>1 DEF w_mov
  <1>4. a + 0 = a /\ b + 0 = b  BY <1>1, SMT
  <1>5. s = 0 \/ s = 1  BY <1>1, SMT
  <1>6. 0 # 1 /\ 15 \notin {22, 23}  BY SMT
  <1>7. ASSUME op \notin {15, 22, 23}
        PROVE  /\ w_dcdR(w) = a /\ w_cond(w) = c
               /\ s = 0 => w_dcdB(w) = NoReg /\ w_I(w) = SBits(w, 18)
               /\ s = 1 => w_dcdB(w) = b /\ w_I(w) = SBits(w, 14)
    <2>1. ~w_ldi(w) /\ ~w_mov(w) /\ (w_rB(w) <=> s = 1)  BY <1>1, <1>2, <1>3, <1>7 DEF w_rB
    <2>2. w_dcdR(w) = a /\ w_cond(w) = c  BY <1>1, <1>4, <2>1 DEF w_dcdR, w_cond
    <2>3. s = 0 => w_dcdB(w) = NoReg /\ w_I(w) = SBits(w, 18)
      BY <1>1, <1>6, <2>1 DEF w_dcdB, w_I
    <2>4. s = 1 => w_dcdB(w) = b /\ w_I(w) = SBits(w, 14)
      BY <1>1, <1>4, <1>6, <2>1 DEF w_dcdB, w_I
    <2> QED BY <2>2, <2>3, <2>4
  <1>8. ASSUME op = 15
        PROVE  /\ w_dcdR(w) = a + 16 * s /\ w_cond(w) = c
               /\ w_dcdB(w) = b + 16 * Bit13(w) /\ w_I(w) = SBits(w, 13)
               /\ OpName[op + 1] = "MOV"
    <2>1. ~w_ldi(w) /\ w_mov(w) /\ w_rB(w)  BY <1>2, <1>3, <1>6, <1>8 DEF w_rB
    <2>2. OpName[15 + 1] = "MOV"  BY SMT DEF OpName
    <2> QED BY <1>1, <1>8, <2>1, <2>2 DEF w_dcdR, w_cond, w_dcdB, w_I
  <1>9. ASSUME op \in {22, 23}
        PROVE  /\ w_dcdR(w) = a /\ w_cond(w) = ALWAYS
               /\ w_dcdB(w) = NoReg /\ w_I(w) = SBits(w, 23) /\ OpName[op + 1] = "LDI"
    <2>1. w_ldi(w) /\ ~w_mov(w) /\ ~w_rB(w)  BY <1>2, <1>3, <1>6, <1>9 DEF w_rB
    <2>2. OpName[22 + 1] = "LDI" /\ OpName[23 + 1] = "LDI"  BY SMT DEF OpName
    <2> QED BY <1>1, <1>4, <1>9, <2>1, <2>2 DEF w_dcdR, w_cond, w_dcdB, w_I
  <1>10. Executed(w) = Operation(OpName[op + 1], w_cond(w), w_I(w), w_dcdB(w), w_dcdR(w))
    BY <1>1 DEF Executed, Operation
  <1> QED BY <1>5, <1>7, <1>8, <1>9, <1>10

-----------------------------------------------------------------------------
(* The rows of the disassembler.                                           *)
LEMMA Rows ==
  ASSUME NEW w
  PROVE  DOMAIN SpecialRows(w) = 1..12
  BY DEF SpecialRows

LEMMA FirstRow ==
  ASSUME NEW w, NEW k \in 1..12, SpecialRows(w)[k].hit,
         \A j \in 1..12 : SpecialRows(w)[j].hit => k <= j
  PROVE  zipi_to_string(w) = SpecialRows(w)[k].row
  <1> DEFINE hits == {i \in DOMAIN SpecialRows(w) : SpecialRows(w)[i].hit}
             first == CHOOSE i \in hits : \A j \in hits : i <= j
  <1>1. hits \subseteq 1..12 /\ k \in hits /\ \A j \in hits : k <= j  BY Rows
  <1>2. zipi_to_string(w) = IF hits = {} THEN GeneralRow(w) ELSE SpecialRows(w)[first].row
    BY DEF zipi_to_string
  <1> HIDE DEF hits
  <1>3. first \in hits /\ \A j \in hits : first <= j  BY <1>1
  <1> HIDE DEF first
  <1>4. first = k  BY <1>1, <1>3, SMT
  <1> QED BY <1>1, <1>2, <1>4

LEMMA NoRow ==
  ASSUME NEW w, \A j \in 1..12 : ~SpecialRows(w)[j].hit
  PROVE  zipi_to_string(w) = GeneralRow(w)
  BY Rows DEF zipi_to_string

(* The rows, one at a time; the bits of a move of -1+PC, and of -1.        *)
BusyBits == 253951
NotBits == 262143

LEMMA RowsAre ==
  ASSUME NEW w
  PROVE  /\ SpecialRows(w)[1].row = Shown("BUSY", Cond(w), 0, NoReg, NoReg)
         /\ SpecialRows(w)[2].row = Shown(BranchName[Cond(w) + 1], ALWAYS, SBits(w, 18), NoReg, NoReg)
         /\ SpecialRows(w)[3].row = Shown("CLRF", Cond(w), 0, NoReg, A(w))
         /\ SpecialRows(w)[4].row = Shown("CLR", ALWAYS, 0, NoReg, A(w))
         /\ SpecialRows(w)[5].row = Shown("HALT", Cond(w), 0, NoReg, NoReg)
         /\ SpecialRows(w)[6].row = Shown("WAIT", Cond(w), 0, NoReg, NoReg)
         /\ SpecialRows(w)[7].row = Shown("RTU", Cond(w), 0, NoReg, NoReg)
         /\ SpecialRows(w)[8].row = Shown("JMP", Cond(w), SBits(w, 13), B(w), NoReg)
         /\ SpecialRows(w)[9].row = Shown("JMP", ALWAYS, SBits(w, 23), NoReg, PC)
         /\ SpecialRows(w)[10].row = Shown("LJMP", ALWAYS, 0, NoReg, NoReg)
         /\ SpecialRows(w)[11].row = Shown("LJMP", Cond(w), 0, NoReg, NoReg)
         /\ SpecialRows(w)[12].row = Shown("NOT", Cond(w), 0, NoReg, A(w))
  BY SMT DEF SpecialRows

(* The operations with a row of their own, and the words that have it.     *)
LEMMA RowsHit ==
  ASSUME NEW w, NEW a, NEW op, NEW c, NEW s, NEW b, NEW r, Fields(w, a, op, c, s, b, r)
  PROVE  /\ SpecialRows(w)[1].hit <=> op = 15 /\ a = PC /\ Low(w, 19) = BusyBits
         /\ SpecialRows(w)[2].hit <=> op = 2 /\ a = PC /\ s = 0
         /\ SpecialRows(w)[3].hit <=> op = 4 /\ s = 1 /\ a = b /\ Low(w, 12) = 0
         /\ SpecialRows(w)[4].hit <=> op = 22 /\ Low(w, 22) = 0
         /\ SpecialRows(w)[5].hit <=> op = 3 /\ a = CC /\ Low(w, 19) = 16
         /\ SpecialRows(w)[6].hit <=> op = 3 /\ a = CC /\ Low(w, 19) = 48
         /\ SpecialRows(w)[7].hit <=> op = 3 /\ a = CC /\ Low(w, 19) = 32
         /\ SpecialRows(w)[8].hit <=> op = 15 /\ a = PC /\ s = 0
         /\ SpecialRows(w)[9].hit <=> op \in {22, 23} /\ a = PC
         /\ SpecialRows(w)[10].hit <=> w = op_ljmp
         /\ SpecialRows(w)[11].hit <=> w - 2^19 * c = op_ljmp + 1
         /\ SpecialRows(w)[12].hit <=> op = 4 /\ Low(w, 19) = NotBits
         /\ w = op_ljmp \/ w - 2^19 * c = op_ljmp + 1 => op = 18
  <1>0. /\ ZIPO.MOV = 15 /\ ZIPO.ADD = 2 /\ ZIPO.XOR = 4 /\ ZIPO.OR = 3 /\ ZIPO.LDI = 22
        /\ ZIPO.LDI + 1 = 23
    BY SMT DEF ZIPO
  <1>1. A(w) = a /\ Op(w) = op /\ Cond(w) = c /\ Bit18(w) = s /\ B(w) = b
    BY FieldsOf DEF Fields
  <1>2. w = op_ljmp \/ w - 2^19 * c = op_ljmp + 1 => op = 18
    <2>1. SUFFICES ASSUME NEW d \in 0..1, w - 2^19 * (d * c) = op_ljmp + d
                   PROVE  op = 18
      <3>1. 0 \in 0..1 /\ 1 \in 0..1 /\ c \in 0..7  BY SMT DEF Fields, Fits
      <3>2. w \in Nat  BY FieldsOf DEF Fields
      <3>3. w = op_ljmp => w - 2^19 * (0 * c) = op_ljmp + 0  BY <3>1, <3>2, SMT DEF op_ljmp
      <3>4. w - 2^19 * c = op_ljmp + 1 => w - 2^19 * (1 * c) = op_ljmp + 1
        BY <3>1, <3>2, SMT DEF op_ljmp
      <3> QED BY <2>1, <3>1, <3>3, <3>4
    <2>2. a \in 0..15 /\ op \in 0..31 /\ c \in 0..7 /\ s \in 0..1 /\ b \in 0..15
          /\ r \in Nat /\ r < 2^14
      BY DEF Fields, Fits
    <2>3. w = Word(a, op, c, s, b, r)  BY DEF Fields
    <2>4. CASE d = 0
      <3>1. w = Word(15, 18, 0, 1, 15, 0)
        <4>1. w = op_ljmp
          <5>1. w \in Nat  BY FieldsOf DEF Fields
          <5> QED BY <2>1, <2>2, <2>4, <5>1, SMT DEF op_ljmp
        <4> QED BY <4>1, SMT DEF op_ljmp, Word
      <3>2. Fits(15, 18, 0, 1, 15, 0)  BY SMT DEF Fits
      <3> QED BY <1>1, <3>1, <3>2, FieldsOf
    <2>5. CASE d = 1
      <3>1. w = Word(15, 18, c, 1, 15, 1)
        <4>1. w = op_ljmp + 1 + 2^19 * c
          <5>1. w \in Nat  BY FieldsOf DEF Fields
          <5> QED BY <2>1, <2>2, <2>5, <5>1, SMT DEF op_ljmp
        <4> QED BY <2>2, <4>1, SMT DEF op_ljmp, Word
      <3>2. Fits(15, 18, c, 1, 15, 1)  BY <2>2, SMT DEF Fits
      <3> QED BY <1>1, <3>1, <3>2, FieldsOf
    <2> QED BY <2>4, <2>5, SMT
  <1>3. SpecialRows(w)[1].hit <=> op = 15 /\ a = PC /\ Low(w, 19) = BusyBits
    <2>1. SpecialRows(w)[1].hit = (A(w) = PC /\ Op(w) = ZIPO.MOV /\ Low(w, 19) = BusyBits)
      BY SMT DEF SpecialRows, BusyBits
    <2> QED BY <2>1, <1>0, <1>1, Zenon
  <1>4. SpecialRows(w)[2].hit <=> op = 2 /\ a = PC /\ s = 0
    <2>1. SpecialRows(w)[2].hit = (A(w) = PC /\ Op(w) = ZIPO.ADD /\ Bit18(w) = 0)
      BY SMT DEF SpecialRows
    <2> QED BY <2>1, <1>0, <1>1, Zenon
  <1>5. SpecialRows(w)[3].hit <=> op = 4 /\ s = 1 /\ a = b /\ Low(w, 12) = 0
    <2>1. SpecialRows(w)[3].hit = (Op(w) = ZIPO.XOR /\ Bit18(w) = 1 /\ A(w) = B(w) /\ Low(w, 12) = 0)
      BY SMT DEF SpecialRows
    <2> QED BY <2>1, <1>0, <1>1, Zenon
  <1>6. SpecialRows(w)[4].hit <=> op = 22 /\ Low(w, 22) = 0
    <2>1. SpecialRows(w)[4].hit = (Op(w) = ZIPO.LDI /\ Low(w, 22) = 0)
      BY SMT DEF SpecialRows
    <2> QED BY <2>1, <1>0, <1>1, Zenon
  <1>7. SpecialRows(w)[5].hit <=> op = 3 /\ a = CC /\ Low(w, 19) = 16
    <2>1. SpecialRows(w)[5].hit = (A(w) = CC /\ Op(w) = ZIPO.OR /\ Low(w, 19) = 16)
      BY SMT DEF SpecialRows
    <2> QED BY <2>1, <1>0, <1>1, Zenon
  <1>8. SpecialRows(w)[6].hit <=> op = 3 /\ a = CC /\ Low(w, 19) = 48
    <2>1. SpecialRows(w)[6].hit = (A(w) = CC /\ Op(w) = ZIPO.OR /\ Low(w, 19) = 48)
      BY SMT DEF SpecialRows
    <2> QED BY <2>1, <1>0, <1>1, Zenon
  <1>9. SpecialRows(w)[7].hit <=> op = 3 /\ a = CC /\ Low(w, 19) = 32
    <2>1. SpecialRows(w)[7].hit = (A(w) = CC /\ Op(w) = ZIPO.OR /\ Low(w, 19) = 32)
      BY SMT DEF SpecialRows
    <2> QED BY <2>1, <1>0, <1>1, Zenon
  <1>10. SpecialRows(w)[8].hit <=> op = 15 /\ a = PC /\ s = 0
    <2>1. SpecialRows(w)[8].hit = (A(w) = PC /\ Op(w) = ZIPO.MOV /\ Bit18(w) = 0)
      BY SMT DEF SpecialRows
    <2> QED BY <2>1, <1>0, <1>1, Zenon
  <1>11. SpecialRows(w)[9].hit <=> op \in {22, 23} /\ a = PC
    <2>1. SpecialRows(w)[9].hit = (A(w) = PC /\ Op(w) \in {ZIPO.LDI, ZIPO.LDI + 1})
      BY SMT DEF SpecialRows
    <2> QED BY <2>1, <1>0, <1>1, Zenon
  <1>12. SpecialRows(w)[10].hit <=> w = op_ljmp
    <2>1. SpecialRows(w)[10].hit = (w = op_ljmp)
      BY SMT DEF SpecialRows
    <2> QED BY <2>1, <1>0, <1>1, Zenon
  <1>13. SpecialRows(w)[11].hit <=> w - 2^19 * c = op_ljmp + 1
    <2>1. SpecialRows(w)[11].hit = (w - 2^19 * Cond(w) = op_ljmp + 1)
      BY SMT DEF SpecialRows
    <2> QED BY <2>1, <1>0, <1>1, Zenon
  <1>14. SpecialRows(w)[12].hit <=> op = 4 /\ Low(w, 19) = NotBits
    <2>1. SpecialRows(w)[12].hit = (Op(w) = ZIPO.XOR /\ Low(w, 19) = NotBits)
      BY SMT DEF SpecialRows, NotBits
    <2> QED BY <2>1, <1>0, <1>1, Zenon
  <1> QED BY <1>2, <1>3, <1>4, <1>5, <1>6, <1>7, <1>8, <1>9, <1>10, <1>11, <1>12, <1>13, <1>14

(* The words that are shown wrongly, by their fields; the bits of an       *)
(* offset that the row of CLRF leaves out.                                 *)
ClrfBits == {4096, 8192, 12288}

LEMMA MisshownIs ==
  ASSUME NEW w, NEW a, NEW op, NEW c, NEW s, NEW b, NEW r, Fields(w, a, op, c, s, b, r)
  PROVE  /\ Low(w, 12) = 0 <=> r = 0 \/ r \in ClrfBits
         /\ 0 \notin ClrfBits
         /\ Misshown(w) <=>
              \/ a = PC /\ op = 2 /\ s = 0 /\ c \in {GT, GE}
              \/ op = 4 /\ s = 1 /\ a = b /\ r \in ClrfBits
              \/ a = PC /\ op = 15 /\ s = 0 /\ Bit13(w) = 1
              \/ w - 2^19 * c = op_ljmp + 1
  <1>1. A(w) = a /\ Op(w) = op /\ Cond(w) = c /\ Bit18(w) = s /\ B(w) = b /\ Low(w, 14) = r
        /\ w \in Nat
    BY FieldsOf DEF Fields
  <1>2. Bits(w, 0, 14) = r
    <2>1. 2^0 = 1 /\ w \div 1 = w  BY <1>1, SMT
    <2> QED BY <1>1, <2>1 DEF Bits, Low
  <1>3. r \in Nat /\ r < 2^14  BY DEF Fields, Fits
  <1>4. Low(w, 12) = r % 2^12  BY <1>1, CutTwice DEF Low
  <1>5. r % 2^12 = 0 <=> r = 0 \/ r \in ClrfBits  BY <1>3, SMT DEF ClrfBits
  <1>6. 0 \notin ClrfBits  BY SMT DEF ClrfBits
  <1>7. ZIPO.MOV = 15 /\ ZIPO.ADD = 2 /\ ZIPO.XOR = 4  BY SMT DEF ZIPO
  <1>8. Misshown(w) <=>
          \/ A(w) = PC /\ Op(w) = ZIPO.ADD /\ Bit18(w) = 0 /\ Cond(w) \in {GT, GE}
          \/ Op(w) = ZIPO.XOR /\ Bit18(w) = 1 /\ A(w) = B(w) /\ Bits(w, 0, 14) \in ClrfBits
          \/ A(w) = PC /\ Op(w) = ZIPO.MOV /\ Bit18(w) = 0 /\ Bit13(w) = 1
          \/ w - 2^19 * Cond(w) = op_ljmp + 1
    BY DEF Misshown, ClrfBits
  <1> HIDE DEF ClrfBits
  <1> QED BY <1>1, <1>2, <1>4, <1>5, <1>6, <1>7, <1>8, Zenon

(* What the rows say: those with a name of their own, and the rest.        *)
RowNames == {"BRA", "BLT", "BRZ", "BNZ", "BGT", "BGE", "BRC", "BRV"}
OwnNames == RowNames \cup {"BUSY", "CLRF", "NOT", "CLR", "HALT", "RTU", "WAIT", "JMP", "LJMP",
                           "NOOP", "LOCK", "BRK"}

LEMMA SaysOf ==
  ASSUME NEW c, NEW imm, NEW rb, NEW ra
  PROVE  /\ Says(Shown("BUSY", c, imm, rb, ra))
              = {Operation("ADD", c, -1, NoReg, PC), Operation("MOV", c, -1, PC, PC)}
         /\ Says(Shown("CLRF", c, imm, rb, ra)) = {Operation("XOR", c, 0, ra, ra)}
         /\ Says(Shown("NOT", c, imm, rb, ra)) = {Operation("XOR", c, -1, NoReg, ra)}
         /\ Says(Shown("CLR", c, imm, rb, ra)) = {Operation("LDI", c, 0, NoReg, ra)}
         /\ Says(Shown("HALT", c, imm, rb, ra)) = {Operation("OR", c, 16, NoReg, CC)}
         /\ Says(Shown("RTU", c, imm, rb, ra)) = {Operation("OR", c, 32, NoReg, CC)}
         /\ Says(Shown("WAIT", c, imm, rb, ra)) = {Operation("OR", c, 48, NoReg, CC)}
         /\ rb = NoReg => Says(Shown("JMP", c, imm, rb, ra)) = {Operation("LDI", c, imm, NoReg, PC)}
         /\ rb # NoReg => Says(Shown("JMP", c, imm, rb, ra)) = {Operation("MOV", c, imm, rb, PC)}
         /\ Says(Shown("LJMP", c, imm, rb, ra)) = {Operation("LOD", c, 0, PC, PC)}
         /\ Operation("NOOP", c, 0, NoReg, CC) \in Says(Shown("NOOP", c, imm, rb, ra))
         /\ Operation("LOCK", c, 0, NoReg, CC) \in Says(Shown("LOCK", c, imm, rb, ra))
         /\ Operation("BREAK", c, imm, NoReg, CC) \in Says(Shown("BRK", c, imm, rb, ra))
  <1>1. DOMAIN RowCond = RowNames  BY DEF RowCond, RowNames
  <1> USE DEF Says, Shown, Operation, RowNames
  <1>2. /\ Says(Shown("BUSY", c, imm, rb, ra))
              = {Operation("ADD", c, -1, NoReg, PC), Operation("MOV", c, -1, PC, PC)}
        /\ Says(Shown("CLRF", c, imm, rb, ra)) = {Operation("XOR", c, 0, ra, ra)}
    BY <1>1
  <1>3. /\ Says(Shown("NOT", c, imm, rb, ra)) = {Operation("XOR", c, -1, NoReg, ra)}
        /\ Says(Shown("CLR", c, imm, rb, ra)) = {Operation("LDI", c, 0, NoReg, ra)}
    BY <1>1
  <1>4. /\ Says(Shown("HALT", c, imm, rb, ra)) = {Operation("OR", c, 16, NoReg, CC)}
        /\ Says(Shown("RTU", c, imm, rb, ra)) = {Operation("OR", c, 32, NoReg, CC)}
    BY <1>1
  <1>5. Says(Shown("WAIT", c, imm, rb, ra)) = {Operation("OR", c, 48, NoReg, CC)}
    BY <1>1
  <1>6. /\ rb = NoReg => Says(Shown("JMP", c, imm, rb, ra)) = {Operation("LDI", c, imm, NoReg, PC)}
        /\ rb # NoReg => Says(Shown("JMP", c, imm, rb, ra)) = {Operation("MOV", c, imm, rb, PC)}
    BY <1>1
  <1>7. Says(Shown("LJMP", c, imm, rb, ra)) = {Operation("LOD", c, 0, PC, PC)}
    BY <1>1
  <1>8. Operation("NOOP", c, 0, NoReg, CC) \in Says(Shown("NOOP", c, imm, rb, ra))
    <2>1. Says(Shown("NOOP", c, imm, rb, ra)) = {Operation("NOOP", c, 0, NoReg, x) : x \in {CC, PC}}
      BY <1>1
    <2> QED BY <2>1
  <1>9. Operation("LOCK", c, 0, NoReg, CC) \in Says(Shown("LOCK", c, imm, rb, ra))
    <2>1. Says(Shown("LOCK", c, imm, rb, ra)) = {Operation("LOCK", c, 0, NoReg, x) : x \in {CC, PC}}
      BY <1>1
    <2> QED BY <2>1
  <1>10. Operation("BREAK", c, imm, NoReg, CC) \in Says(Shown("BRK", c, imm, rb, ra))
    <2>1. Says(Shown("BRK", c, imm, rb, ra)) = {Operation("BREAK", c, imm, NoReg, x) : x \in {CC, PC}}
      BY <1>1
    <2> QED BY <2>1
  <1> HIDE DEF Says, Shown, Operation, RowNames
  <1> QED BY <1>2, <1>3, <1>4, <1>5, <1>6, <1>7, <1>8, <1>9, <1>10

LEMMA SaysRest ==
  ASSUME NEW name, NEW c, NEW imm, NEW rb, NEW ra
  PROVE  /\ name \in RowNames => Says(Shown(name, c, imm, rb, ra))
                                   = {Operation("ADD", RowCond[name], imm, NoReg, PC)}
         /\ name \notin OwnNames => Says(Shown(name, c, imm, rb, ra))
                                      = {Operation(name, c, imm, rb, ra)}
  <1>1. DOMAIN RowCond = RowNames  BY DEF RowCond, RowNames
  <1>2. Shown(name, c, imm, rb, ra).name = name /\ Shown(name, c, imm, rb, ra).imm = imm
        /\ Shown(name, c, imm, rb, ra) = Operation(name, c, imm, rb, ra)
    BY DEF Shown, Operation
  <1>3. name \in RowNames => Says(Shown(name, c, imm, rb, ra))
                               = {Operation("ADD", RowCond[name], imm, NoReg, PC)}
    <2> DEFINE row == Shown(name, c, imm, rb, ra)
    <2> SUFFICES ASSUME name \in RowNames
                 PROVE  Says(row) = {Operation("ADD", RowCond[row.name], row.imm, NoReg, PC)}
      BY <1>2
    <2>1. row.name \in RowNames  BY <1>2
    <2> HIDE DEF row
    <2> QED BY <1>1, <2>1 DEF Says, RowNames
  <1>4. name \notin OwnNames => Says(Shown(name, c, imm, rb, ra)) = {Operation(name, c, imm, rb, ra)}
    BY <1>1, <1>2 DEF Says, OwnNames
  <1> QED BY <1>3, <1>4

(* The words the assembler makes are those of the opcodes below the        *)
(* floating-point ones, besides the three of a form of their own.          *)
Made(w, a, op, c, s, b, r) == Fields(w, a, op, c, s, b, r) /\ op \in 0..23

(* A word is shown as what is executed, or is one of those that are not.   *)
Listed(w) == Executed(w) \in Says(zipi_to_string(w)) <=> ~Misshown(w)

LEMMA GeneralNames ==
  ASSUME NEW op \in (0..21) \ {15}
  PROVE  GeneralName[op + 1] = OpName[op + 1] /\ OpName[op + 1] \notin OwnNames
  BY SMT DEF GeneralName, OpName, OwnNames, RowNames

LEMMA ShownGeneral ==
  ASSUME NEW w, NEW a, NEW op, NEW c, NEW s, NEW b, NEW r, Fields(w, a, op, c, s, b, r),
         op \in (0..21) \ {15}, \A j \in 1..12 : ~SpecialRows(w)[j].hit
  PROVE  Executed(w) \in Says(zipi_to_string(w))
  <1> DEFINE name == OpName[op + 1]
  <1>1. A(w) = a /\ Op(w) = op /\ Cond(w) = c /\ Bit18(w) = s /\ B(w) = b
    BY FieldsOf DEF Fields
  <1>2. GeneralName[op + 1] = name /\ name \notin OwnNames  BY GeneralNames
  <1>3. op \notin {15, 22, 23} /\ ~(op >= 24)  BY SMT
  <1>4. zipi_to_string(w) = RegOrImm(w, name)
    <2>1. ZIPO.MOV = 15 /\ ZIPO.LDI = 22 /\ ZIPO.LDI + 1 = 23  BY SMT DEF ZIPO
    <2>2. zipi_to_string(w) = GeneralRow(w)  BY NoRow
    <2> HIDE DEF name
    <2> QED BY <1>1, <1>2, <1>3, <2>1, <2>2 DEF GeneralRow
  <1> HIDE DEF name
  <1>5. CASE s = 0
    <2>1. zipi_to_string(w) = Shown(name, c, SBits(w, 18), NoReg, a)
      BY <1>1, <1>4, <1>5 DEF RegOrImm
    <2>2. Executed(w) = Operation(name, c, SBits(w, 18), NoReg, a)
      BY <1>3, <1>5, FieldsExecuted DEF name
    <2> QED BY <1>2, <2>1, <2>2, SaysRest
  <1>6. CASE s = 1
    <2>1. zipi_to_string(w) = Shown(name, c, SBits(w, 14), b, a)
      <3>1. s # 0  BY <1>6, SMT
      <3> QED BY <1>1, <1>4, <3>1 DEF RegOrImm
    <2>2. Executed(w) = Operation(name, c, SBits(w, 14), b, a)
      BY <1>3, <1>6, FieldsExecuted DEF name
    <2> QED BY <1>2, <2>1, <2>2, SaysRest
  <1> QED BY <1>5, <1>6, FieldsExecuted

LEMMA SmallImmediate ==
  ASSUME NEW w, NEW a, NEW op, NEW c, NEW s, NEW b, NEW r, Fields(w, a, op, c, s, b, r),
         NEW k \in Nat, k < 2^18, Low(w, 19) = k
  PROVE  /\ s = 0 /\ Low(w, 18) = k
         /\ SBits(w, 18) = IF k < 2^17 THEN k ELSE k - 2^18
  <1>1. Low(w, 19) = 2^18 * s + 2^14 * b + r /\ Low(w, 18) = 2^14 * b + r
    BY FieldsOf DEF Fields
  <1>2. s \in 0..1 /\ b \in 0..15 /\ r \in Nat /\ r < 2^14  BY DEF Fields, Fits
  <1>3. s = 0  BY <1>1, <1>2, SMT
  <1>4. Low(w, 18) = k  BY <1>1, <1>2, <1>3, SMT
  <1>5. w % 2^18 = k  BY <1>4 DEF Low
  <1>6. SBits(w, 18) = IF k < 2^17 THEN k ELSE k - 2^18  BY <1>5, SMT DEF SBits
  <1> QED BY <1>3, <1>4, <1>6

(* An operation without a row of its own.                                  *)
LEMMA ListedRest ==
  ASSUME NEW w, NEW a, NEW op, NEW c, NEW s, NEW b, NEW r, Fields(w, a, op, c, s, b, r),
         op \in (0..21) \ {2, 3, 4, 15, 18}
  PROVE  Listed(w)
  <1>1. op \notin {2, 3, 4, 15, 18, 22, 23} /\ op \in (0..21) \ {15}  BY SMT
  <1>2. \A j \in 1..12 : ~SpecialRows(w)[j].hit  BY <1>1, RowsHit
  <1>3. ~Misshown(w)  BY <1>1, MisshownIs, RowsHit
  <1> QED BY <1>1, <1>2, <1>3, ShownGeneral DEF Listed

LEMMA ListedAdd ==
  ASSUME NEW w, NEW a, NEW op, NEW c, NEW s, NEW b, NEW r, Fields(w, a, op, c, s, b, r), op = 2
  PROVE  Listed(w)
  <1>1. Cond(w) = c /\ c \in 0..7  BY FieldsOf DEF Fields, Fits
  <1>2. op \notin {3, 4, 15, 18, 22, 23} /\ op \in (0..21) \ {15}  BY SMT
  <1>3. CASE a = PC /\ s = 0
    <2> DEFINE name == BranchName[c + 1]
    <2>1. \A j \in 1..12 : SpecialRows(w)[j].hit <=> j = 2  BY <1>2, <1>3, RowsHit
    <2>2. zipi_to_string(w) = SpecialRows(w)[2].row
      <3>1. 2 \in 1..12 /\ 2 <= 2  BY SMT
      <3> QED BY <2>1, <3>1, FirstRow
    <2>3. zipi_to_string(w) = Shown(name, ALWAYS, SBits(w, 18), NoReg, NoReg)
      BY <1>1, <2>2, RowsAre
    <2>4. name \in RowNames /\ (RowCond[name] = c <=> c \notin {GT, GE})
      <3>1. name = CASE c = 0 -> "BRA" [] c = 1 -> "BLT" [] c = 2 -> "BRZ" [] c = 3 -> "BNZ"
                     [] c = 4 -> "BGE" [] c = 5 -> "BGT" [] c = 6 -> "BRC" [] c = 7 -> "BRV"
        BY <1>1, SMT DEF BranchName
      <3> HIDE DEF name
      <3> QED BY <1>1, <3>1, SMT DEF RowNames, RowCond, GT, GE
    <2> HIDE DEF name
    <2>5. Says(zipi_to_string(w)) = {Operation("ADD", RowCond[name], SBits(w, 18), NoReg, PC)}
      BY <2>3, <2>4, SaysRest
    <2>6. Executed(w) = Operation("ADD", c, SBits(w, 18), NoReg, PC)
      <3>1. OpName[2 + 1] = "ADD"  BY SMT DEF OpName
      <3> QED BY <1>2, <1>3, <3>1, FieldsExecuted
    <2>7. Executed(w) \in Says(zipi_to_string(w)) <=> RowCond[name] = c
      BY <2>5, <2>6 DEF Operation
    <2>8. Misshown(w) <=> c \in {GT, GE}  BY <1>2, <1>3, MisshownIs, RowsHit
    <2> QED BY <2>4, <2>7, <2>8 DEF Listed
  <1>4. CASE ~(a = PC /\ s = 0)
    <2>1. \A j \in 1..12 : ~SpecialRows(w)[j].hit  BY <1>2, <1>4, RowsHit
    <2>2. ~Misshown(w)  BY <1>2, <1>4, MisshownIs, RowsHit
    <2> QED BY <1>2, <2>1, <2>2, ShownGeneral DEF Listed
  <1> QED BY <1>3, <1>4

LEMMA ListedOr ==
  ASSUME NEW w, NEW a, NEW op, NEW c, NEW s, NEW b, NEW r, Fields(w, a, op, c, s, b, r), op = 3
  PROVE  Listed(w)
  <1>1. Cond(w) = c  BY FieldsOf DEF Fields
  <1>2. op \notin {2, 4, 15, 18, 22, 23} /\ op \in (0..21) \ {15}  BY SMT
  <1>3. \A k \in {16, 32, 48} :
          a = CC /\ Low(w, 19) = k => Executed(w) = Operation("OR", c, k, NoReg, CC)
    <2> SUFFICES ASSUME NEW k \in {16, 32, 48}, a = CC, Low(w, 19) = k
                 PROVE  Executed(w) = Operation("OR", c, k, NoReg, CC)
      OBVIOUS
    <2>1. s = 0 /\ SBits(w, 18) = k  BY SmallImmediate, SMT
    <2>2. OpName[3 + 1] = "OR"  BY SMT DEF OpName
    <2> QED BY <1>2, <2>1, <2>2, FieldsExecuted
  <1>4. 16 # 32 /\ 16 # 48 /\ 32 # 48  BY SMT
  <1>5. ~Misshown(w)  BY <1>2, MisshownIs, RowsHit
  <1>6. CASE a = CC /\ Low(w, 19) = 16
    <2>1. \A j \in 1..12 : SpecialRows(w)[j].hit <=> j = 5  BY <1>2, <1>4, <1>6, RowsHit
    <2>2. zipi_to_string(w) = SpecialRows(w)[5].row
      <3>1. 5 \in 1..12 /\ 5 <= 5  BY SMT
      <3> QED BY <2>1, <3>1, FirstRow
    <2>3. Says(zipi_to_string(w)) = {Operation("OR", c, 16, NoReg, CC)}
      BY <1>1, <2>2, RowsAre, SaysOf
    <2> QED BY <1>3, <1>5, <1>6, <2>3 DEF Listed
  <1>7. CASE a = CC /\ Low(w, 19) = 32
    <2>1. \A j \in 1..12 : SpecialRows(w)[j].hit <=> j = 7  BY <1>2, <1>4, <1>7, RowsHit
    <2>2. zipi_to_string(w) = SpecialRows(w)[7].row
      <3>1. 7 \in 1..12 /\ 7 <= 7  BY SMT
      <3> QED BY <2>1, <3>1, FirstRow
    <2>3. Says(zipi_to_string(w)) = {Operation("OR", c, 32, NoReg, CC)}
      BY <1>1, <2>2, RowsAre, SaysOf
    <2> QED BY <1>3, <1>5, <1>7, <2>3 DEF Listed
  <1>8. CASE a = CC /\ Low(w, 19) = 48
    <2>1. \A j \in 1..12 : SpecialRows(w)[j].hit <=> j = 6  BY <1>2, <1>4, <1>8, RowsHit
    <2>2. zipi_to_string(w) = SpecialRows(w)[6].row
      <3>1. 6 \in 1..12 /\ 6 <= 6  BY SMT
      <3> QED BY <2>1, <3>1, FirstRow
    <2>3. Says(zipi_to_string(w)) = {Operation("OR", c, 48, NoReg, CC)}
      BY <1>1, <2>2, RowsAre, SaysOf
    <2> QED BY <1>3, <1>5, <1>8, <2>3 DEF Listed
  <1>9. CASE ~(a = CC /\ Low(w, 19) \in {16, 32, 48})
    <2>1. \A j \in 1..12 : ~SpecialRows(w)[j].hit  BY <1>2, <1>9, RowsHit
    <2> QED BY <1>2, <1>5, <2>1, ShownGeneral DEF Listed
  <1> QED BY <1>6, <1>7, <1>8, <1>9

LEMMA ListedXor ==
  ASSUME NEW w, NEW a, NEW op, NEW c, NEW s, NEW b, NEW r, Fields(w, a, op, c, s, b, r), op = 4
  PROVE  Listed(w)
  <1>1. /\ Cond(w) = c /\ A(w) = a /\ w \in Nat /\ Low(w, 14) = r /\ r \in Nat /\ r < 2^14
    BY FieldsOf DEF Fields, Fits
  <1>2. op \notin {2, 3, 15, 18, 22, 23} /\ op \in (0..21) \ {15} /\ OpName[op + 1] = "XOR"
    BY SMT DEF OpName
  <1>3. Low(w, 19) = NotBits => s = 0 /\ SBits(w, 18) = -1
    <2> SUFFICES ASSUME Low(w, 19) = NotBits PROVE s = 0 /\ SBits(w, 18) = -1
      OBVIOUS
    <2>1. NotBits \in Nat /\ NotBits < 2^18 /\ NotBits - 2^18 = -1 /\ ~(NotBits < 2^17)
      BY SMT DEF NotBits
    <2> QED BY <2>1, SmallImmediate
  <1>4. Misshown(w) <=> s = 1 /\ a = b /\ r \in ClrfBits  BY <1>2, MisshownIs, RowsHit
  <1>5. 0 # 1  BY SMT
  <1>6. CASE s = 1 /\ a = b /\ Low(w, 12) = 0
    <2>1. \A j \in 1..12 : SpecialRows(w)[j].hit <=> j = 3
      BY <1>2, <1>3, <1>5, <1>6, RowsHit
    <2>2. zipi_to_string(w) = SpecialRows(w)[3].row
      <3>1. 3 \in 1..12 /\ 3 <= 3  BY SMT
      <3> QED BY <2>1, <3>1, FirstRow
    <2>3. Says(zipi_to_string(w)) = {Operation("XOR", c, 0, a, a)}
      BY <1>1, <2>2, RowsAre, SaysOf
    <2>4. Executed(w) = Operation("XOR", c, SBits(w, 14), a, a)
      BY <1>2, <1>6, FieldsExecuted
    <2>5. SBits(w, 14) = 0 <=> r = 0
      <3>1. w % 2^14 = r  BY <1>1 DEF Low
      <3> QED BY <1>1, <3>1, SMT DEF SBits
    <2>6. r = 0 <=> r \notin ClrfBits  BY <1>6, MisshownIs
    <2>7. Executed(w) \in Says(zipi_to_string(w)) <=> SBits(w, 14) = 0
      BY <2>3, <2>4 DEF Operation
    <2> QED BY <1>4, <1>6, <2>5, <2>6, <2>7 DEF Listed
  <1>7. CASE Low(w, 19) = NotBits
    <2>1. \A j \in 1..12 : SpecialRows(w)[j].hit <=> j = 12
      BY <1>2, <1>3, <1>5, <1>7, RowsHit
    <2>2. zipi_to_string(w) = SpecialRows(w)[12].row
      <3>1. 12 \in 1..12 /\ 12 <= 12  BY SMT
      <3> QED BY <2>1, <3>1, FirstRow
    <2>3. Says(zipi_to_string(w)) = {Operation("XOR", c, -1, NoReg, a)}
      BY <1>1, <2>2, RowsAre, SaysOf
    <2>4. Executed(w) = Operation("XOR", c, -1, NoReg, a)
      BY <1>2, <1>3, <1>7, FieldsExecuted
    <2> QED BY <1>3, <1>4, <1>5, <1>7, <2>3, <2>4 DEF Listed
  <1>8. CASE ~(s = 1 /\ a = b /\ Low(w, 12) = 0) /\ Low(w, 19) # NotBits
    <2>1. \A j \in 1..12 : ~SpecialRows(w)[j].hit  BY <1>2, <1>8, RowsHit
    <2>2. ~Misshown(w)  BY <1>4, <1>8, MisshownIs
    <2> QED BY <1>2, <2>1, <2>2, ShownGeneral DEF Listed
  <1> QED BY <1>6, <1>7, <1>8

LEMMA ListedMov ==
  ASSUME NEW w, NEW a, NEW op, NEW c, NEW s, NEW b, NEW r, Fields(w, a, op, c, s, b, r), op = 15
  PROVE  Listed(w)
  <1>1. /\ w \in Nat /\ A(w) = a /\ Op(w) = 15 /\ Cond(w) = c /\ Bit18(w) = s /\ B(w) = b
        /\ Low(w, 14) = r /\ Low(w, 19) = 2^18 * s + 2^14 * b + r
        /\ a \in 0..15 /\ b \in 0..15 /\ s \in 0..1 /\ r \in Nat /\ r < 2^14
    BY FieldsOf DEF Fields, Fits
  <1>2. op \notin {2, 3, 4, 18, 22, 23}  BY SMT
  <1>3. Bit13(w) = r \div 2^13 /\ Low(w, 13) = r % 2^13 /\ Bit13(w) \in 0..1
    <2>1. Bit13(w) = r \div 2^13 /\ Low(w, 13) = r % 2^13
      BY <1>1, TopOf14, SMT DEF Low, Bit13, Bits
    <2> QED BY <1>1, <2>1, SMT
  <1>4. Executed(w) = Operation("MOV", c, SBits(w, 13), b + 16 * Bit13(w), a + 16 * s)
    BY FieldsExecuted
  <1>5. Misshown(w) <=> a = PC /\ s = 0 /\ Bit13(w) = 1  BY <1>2, MisshownIs, RowsHit
  <1>6. Low(w, 19) = BusyBits => s = 0 /\ b = PC /\ r = 8191
    BY <1>1, SMT DEF BusyBits, PC
  <1>7. CASE a = PC /\ Low(w, 19) = BusyBits
    <2>1. SpecialRows(w)[1].hit /\ \A j \in 1..12 : SpecialRows(w)[j].hit => 1 <= j
      <3>1. \A j \in 1..12 : 1 <= j  BY SMT
      <3> QED BY <1>7, <3>1, RowsHit
    <2>2. zipi_to_string(w) = SpecialRows(w)[1].row
      <3>1. 1 \in 1..12  BY SMT
      <3> QED BY <2>1, <3>1, FirstRow
    <2>3. Operation("MOV", c, -1, PC, PC) \in Says(zipi_to_string(w))
      BY <1>1, <2>2, RowsAre, SaysOf
    <2>4. Bit13(w) = 0 /\ Low(w, 13) = 8191  BY <1>3, <1>6, <1>7, SMT
    <2>5. SBits(w, 13) = -1
      <3>1. w % 2^13 = 8191  BY <2>4 DEF Low
      <3> QED BY <3>1, SMT DEF SBits
    <2>6. b + 16 * Bit13(w) = PC /\ a + 16 * s = PC  BY <1>6, <1>7, <2>4, SMT DEF PC
    <2>7. ~Misshown(w)
      <3>1. 0 # 1  BY SMT
      <3> QED BY <1>5, <2>4, <3>1
    <2> QED BY <1>4, <2>3, <2>5, <2>6, <2>7 DEF Listed
  <1>8. CASE a = PC /\ s = 0 /\ Low(w, 19) # BusyBits
    <2>1. \A j \in 1..12 : SpecialRows(w)[j].hit <=> j = 8  BY <1>2, <1>8, RowsHit
    <2>2. zipi_to_string(w) = SpecialRows(w)[8].row
      <3>1. 8 \in 1..12 /\ 8 <= 8  BY SMT
      <3> QED BY <2>1, <3>1, FirstRow
    <2>3. b # NoReg  BY <1>1, SMT DEF NoReg
    <2>4. Says(zipi_to_string(w)) = {Operation("MOV", c, SBits(w, 13), b, PC)}
      BY <1>1, <2>2, <2>3, RowsAre, SaysOf
    <2>5. a + 16 * s = PC /\ (b + 16 * Bit13(w) = b <=> Bit13(w) # 1)
      BY <1>1, <1>3, <1>8, SMT DEF PC
    <2>6. Executed(w) \in Says(zipi_to_string(w)) <=> b + 16 * Bit13(w) = b
      BY <1>4, <2>4, <2>5 DEF Operation
    <2> QED BY <1>5, <1>8, <2>5, <2>6 DEF Listed
  <1>9. CASE ~(a = PC /\ s = 0)
    <2>1. \A j \in 1..12 : ~SpecialRows(w)[j].hit  BY <1>2, <1>6, <1>9, RowsHit
    <2>2. zipi_to_string(w) = Shown("MOV", c, SBits(w, 13), b + 16 * Bit13(w), a + 16 * s)
      <3>1. zipi_to_string(w) = GeneralRow(w)  BY <2>1, NoRow
      <3>2. ZIPO.MOV = 15 /\ Op(w) \notin {ZIPO.LDI, ZIPO.LDI + 1} /\ ~(Op(w) >= 24)
        BY <1>1, SMT DEF ZIPO
      <3> QED BY <1>1, <3>1, <3>2 DEF GeneralRow
    <2>3. "MOV" \notin OwnNames  BY DEF OwnNames, RowNames
    <2>4. Executed(w) \in Says(zipi_to_string(w))  BY <1>4, <2>2, <2>3, SaysRest
    <2> QED BY <1>5, <1>9, <2>4 DEF Listed
  <1> QED BY <1>7, <1>8, <1>9

LEMMA ListedLod ==
  ASSUME NEW w, NEW a, NEW op, NEW c, NEW s, NEW b, NEW r, Fields(w, a, op, c, s, b, r), op = 18
  PROVE  Listed(w)
  <1>1. w \in Nat /\ Cond(w) = c /\ c \in 0..7  BY FieldsOf DEF Fields, Fits
  <1>2. op \notin {2, 3, 4, 15, 22, 23} /\ op \in (0..21) \ {15}  BY SMT
  <1>3. ~(w = op_ljmp /\ w - 2^19 * c = op_ljmp + 1)  BY <1>1, SMT DEF op_ljmp
  <1>4. Misshown(w) <=> w - 2^19 * c = op_ljmp + 1  BY <1>2, MisshownIs
  <1>5. OpName[18 + 1] = "LOD" /\ 18 \notin {15, 22, 23} /\ 1 \in 0..1 /\ 15 \in 0..15
    BY SMT DEF OpName
  <1>6. \A d \in 0..1, k \in 0..7 :
          LET u == Word(15, 18, k, 1, 15, d)
          IN  /\ Fields(u, 15, 18, k, 1, 15, d) /\ Cond(u) = k
              /\ Executed(u) = Operation("LOD", k, d, PC, PC)
    <2> SUFFICES ASSUME NEW d \in 0..1, NEW k \in 0..7, NEW u, u = Word(15, 18, k, 1, 15, d)
                 PROVE  /\ Fields(u, 15, 18, k, 1, 15, d) /\ Cond(u) = k
                        /\ Executed(u) = Operation("LOD", k, d, PC, PC)
      OBVIOUS
    <2>1. Fields(u, 15, 18, k, 1, 15, d)
      <3>1. Fits(15, 18, k, 1, 15, d)  BY SMT DEF Fits
      <3> QED BY <3>1 DEF Fields
    <2>2. Executed(u) = Operation("LOD", k, SBits(u, 14), 15, 15)
      BY <1>5, <2>1, FieldsExecuted
    <2>3. SBits(u, 14) = d
      <3>1. Low(u, 14) = d  BY <2>1, FieldsOf DEF Fields
      <3>2. u % 2^14 = d  BY <3>1 DEF Low
      <3> QED BY <3>2, SMT DEF SBits
    <2>4. Cond(u) = k  BY <2>1, FieldsOf DEF Fields
    <2> QED BY <2>1, <2>2, <2>3, <2>4 DEF PC
  <1>7. CASE w = op_ljmp
    <2>1. \A j \in 1..12 : SpecialRows(w)[j].hit <=> j = 10  BY <1>2, <1>3, <1>7, RowsHit
    <2>2. zipi_to_string(w) = SpecialRows(w)[10].row
      <3>1. 10 \in 1..12 /\ 10 <= 10  BY SMT
      <3> QED BY <2>1, <3>1, FirstRow
    <2>3. Says(zipi_to_string(w)) = {Operation("LOD", ALWAYS, 0, PC, PC)}
      BY <2>2, RowsAre, SaysOf
    <2>4. w = Word(15, 18, 0, 1, 15, 0)  BY <1>7, SMT DEF op_ljmp, Word
    <2>5. Executed(w) = Operation("LOD", 0, 0, PC, PC)
      <3>1. 0 \in 0..1 /\ 0 \in 0..7  BY SMT
      <3> QED BY <1>6, <2>4, <3>1
    <2> QED BY <1>3, <1>4, <1>7, <2>3, <2>5 DEF Listed, ALWAYS
  <1>8. CASE w - 2^19 * c = op_ljmp + 1
    <2>1. \A j \in 1..12 : SpecialRows(w)[j].hit <=> j = 11  BY <1>2, <1>3, <1>8, RowsHit
    <2>2. zipi_to_string(w) = SpecialRows(w)[11].row
      <3>1. 11 \in 1..12 /\ 11 <= 11  BY SMT
      <3> QED BY <2>1, <3>1, FirstRow
    <2>3. Says(zipi_to_string(w)) = {Operation("LOD", c, 0, PC, PC)}
      BY <1>1, <2>2, RowsAre, SaysOf
    <2>4. w = Word(15, 18, c, 1, 15, 1)  BY <1>1, <1>8, SMT DEF op_ljmp, Word
    <2>5. Executed(w) = Operation("LOD", c, 1, PC, PC)  BY <1>1, <1>5, <1>6, <2>4
    <2>6. Executed(w) # Operation("LOD", c, 0, PC, PC)
      <3>1. 0 # 1  BY SMT
      <3> QED BY <2>5, <3>1 DEF Operation
    <2> QED BY <1>4, <1>8, <2>3, <2>6 DEF Listed
  <1>9. CASE w # op_ljmp /\ ~(w - 2^19 * c = op_ljmp + 1)
    <2>1. \A j \in 1..12 : ~SpecialRows(w)[j].hit  BY <1>2, <1>9, RowsHit
    <2> QED BY <1>2, <1>4, <1>9, <2>1, ShownGeneral DEF Listed
  <1> QED BY <1>7, <1>8, <1>9

LEMMA ListedLdi ==
  ASSUME NEW w, NEW a, NEW op, NEW c, NEW s, NEW b, NEW r, Fields(w, a, op, c, s, b, r),
         op \in {22, 23}
  PROVE  Listed(w)
  <1>1. /\ w \in Nat /\ A(w) = a /\ Op(w) = op /\ a \in 0..15
        /\ Low(w, 22) = 2^19 * c + 2^18 * s + 2^14 * b + r
    BY FieldsOf DEF Fields, Fits
  <1>2. op \notin {2, 3, 4, 15, 18}  BY SMT
  <1>3. ~Misshown(w)  BY <1>2, MisshownIs, RowsHit
  <1>4. Executed(w) = Operation("LDI", ALWAYS, SBits(w, 23), NoReg, a)  BY FieldsExecuted
  <1>5. CASE op = 22 /\ Low(w, 22) = 0
    <2>1. SpecialRows(w)[4].hit /\ \A j \in 1..12 : SpecialRows(w)[j].hit => j \in {4, 9}
      BY <1>2, <1>5, RowsHit
    <2>2. zipi_to_string(w) = SpecialRows(w)[4].row
      <3>1. 4 \in 1..12 /\ 4 <= 4 /\ 4 <= 9  BY SMT
      <3> QED BY <2>1, <3>1, FirstRow
    <2>3. Says(zipi_to_string(w)) = {Operation("LDI", ALWAYS, 0, NoReg, a)}
      BY <1>1, <2>2, RowsAre, SaysOf
    <2>4. SBits(w, 23) = 0
      <3>1. w = 2^27 * a + 2^22 * 22  BY <1>1, <1>5, SMT DEF Fields, Fits, Word
      <3> DEFINE q == 16 * a + 11
      <3>2. w = 2^23 * q + 0 /\ q \in Int  BY <1>1, <3>1, SMT
      <3> HIDE DEF q
      <3>3. w % 2^23 = 0  BY <3>2, SMT
      <3> QED BY <3>3, SMT DEF SBits
    <2> QED BY <1>3, <1>4, <2>3, <2>4 DEF Listed
  <1>6. CASE ~(op = 22 /\ Low(w, 22) = 0) /\ a = PC
    <2>1. \A j \in 1..12 : SpecialRows(w)[j].hit <=> j = 9  BY <1>2, <1>6, RowsHit
    <2>2. zipi_to_string(w) = SpecialRows(w)[9].row
      <3>1. 9 \in 1..12 /\ 9 <= 9  BY SMT
      <3> QED BY <2>1, <3>1, FirstRow
    <2>3. Says(zipi_to_string(w)) = {Operation("LDI", ALWAYS, SBits(w, 23), NoReg, PC)}
      BY <2>2, RowsAre, SaysOf
    <2> QED BY <1>3, <1>4, <1>6, <2>3 DEF Listed
  <1>7. CASE ~(op = 22 /\ Low(w, 22) = 0) /\ a # PC
    <2>1. \A j \in 1..12 : ~SpecialRows(w)[j].hit  BY <1>2, <1>7, RowsHit
    <2>2. zipi_to_string(w) = Shown("LDI", ALWAYS, SBits(w, 23), NoReg, a)
      <3>1. zipi_to_string(w) = GeneralRow(w)  BY <2>1, NoRow
      <3>2. Op(w) # ZIPO.MOV /\ Op(w) \in {ZIPO.LDI, ZIPO.LDI + 1} /\ ~(Op(w) >= 24)
        BY <1>1, SMT DEF ZIPO
      <3> QED BY <1>1, <3>1, <3>2 DEF GeneralRow
    <2>3. "LDI" \notin OwnNames  BY DEF OwnNames, RowNames
    <2> QED BY <1>3, <1>4, <2>2, <2>3, SaysRest DEF Listed
  <1> QED BY <1>5, <1>6, <1>7

(* The three words of a form of their own.                                 *)
FixedWords == {op_noop, op_break, op_lock}
FixedOp(w) == IF w = op_noop THEN 24 ELSE IF w = op_break THEN 25 ELSE 26

LEMMA FixedWord ==
  ASSUME NEW w \in FixedWords
  PROVE  Fields(w, 14, FixedOp(w), 0, 0, 0, 0)
  <1>1. /\ op_noop = Word(14, 24, 0, 0, 0, 0) /\ op_break = Word(14, 25, 0, 0, 0, 0)
        /\ op_lock = Word(14, 26, 0, 0, 0, 0)
    BY SMT DEF op_noop, op_break, op_lock, Word
  <1>2. Fits(14, 24, 0, 0, 0, 0) /\ Fits(14, 25, 0, 0, 0, 0) /\ Fits(14, 26, 0, 0, 0, 0)
    BY SMT DEF Fits
  <1>3. op_noop # op_break /\ op_noop # op_lock /\ op_break # op_lock
    BY SMT DEF op_noop, op_break, op_lock
  <1> QED BY <1>1, <1>2, <1>3 DEF FixedWords, FixedOp, Fields

LEMMA ListedFixed ==
  ASSUME NEW w \in FixedWords
  PROVE  Listed(w)
  <1> DEFINE op == FixedOp(w)
  <1>1. Fields(w, 14, op, 0, 0, 0, 0)  BY FixedWord
  <1>2. op \in {24, 25, 26} /\ op \notin {2, 3, 4, 15, 18, 22, 23}
    <2>1. op \in {24, 25, 26}  BY DEF FixedOp
    <2> HIDE DEF op
    <2> QED BY <2>1, SMT
  <1> HIDE DEF op
  <1>3. ~Misshown(w)  BY <1>1, <1>2, MisshownIs, RowsHit
  <1>4. \A j \in 1..12 : ~SpecialRows(w)[j].hit  BY <1>1, <1>2, RowsHit
  <1>5. zipi_to_string(w) = GeneralRow(w)  BY <1>4, NoRow
  <1>6. /\ w \in Nat /\ A(w) = 14 /\ Op(w) = op /\ Bit18(w) = 0 /\ Low(w, 18) = 0
        /\ Low(w, 22) = 0 /\ Bits(w, 18, 4) = 0
    <2>1. /\ w \in Nat /\ A(w) = 14 /\ Op(w) = op /\ Bit18(w) = 0
          /\ Low(w, 18) = 2^14 * 0 + 0 /\ Bits(w, 18, 4) = 2 * 0 + 0
          /\ Low(w, 22) = 2^19 * 0 + 2^18 * 0 + 2^14 * 0 + 0
      BY <1>1, FieldsOf DEF Fields
    <2> QED BY <2>1, SMT
  <1>7. GeneralRow(w) = FloatRow(w)
    <2>1. Op(w) # ZIPO.MOV /\ Op(w) \notin {ZIPO.LDI, ZIPO.LDI + 1} /\ Op(w) >= 24
      BY <1>2, <1>6, SMT DEF ZIPO
    <2> QED BY <2>1 DEF GeneralRow
  <1>8. FloatRow(w) = CarveOut(w)
    <2>1. Op(w) # 28 /\ Op(w) # 29 /\ Bit18(w) # 1 /\ A(w) \in {CC, PC}
      BY <1>2, <1>6, SMT DEF CC, PC
    <2> QED BY <2>1 DEF FloatRow
  <1>9. SBits(w, 18) = 0
    <2>1. w % 2^18 = 0  BY <1>6 DEF Low
    <2> QED BY <2>1, SMT DEF SBits
  <1>10. /\ op = 24 => CarveOut(w) = Shown("NOOP", ALWAYS, 0, NoReg, NoReg)
         /\ op = 25 => CarveOut(w) = Shown("BRK", ALWAYS, 0, NoReg, NoReg)
         /\ op = 26 => CarveOut(w) = Shown("LOCK", ALWAYS, 0, NoReg, NoReg)
    <2>1. 24 # 25 /\ 24 # 26 /\ 25 # 26  BY SMT
    <2> QED BY <1>6, <1>9, <2>1 DEF CarveOut
  <1>11. Executed(w) = Operation(OpName[op + 1], ALWAYS, 0, NoReg, CC)
    <2>1. op \notin {15, 22, 23} /\ 0 = 0  BY <1>2
    <2>2. Executed(w) = Operation(OpName[op + 1], 0, SBits(w, 18), NoReg, 14)
      BY <1>1, <2>1, FieldsExecuted
    <2> QED BY <1>9, <2>2 DEF ALWAYS, CC
  <1>12. OpName[24 + 1] = "NOOP" /\ OpName[25 + 1] = "BREAK" /\ OpName[26 + 1] = "LOCK"
    BY SMT DEF OpName
  <1>13. Executed(w) \in Says(zipi_to_string(w))
    <2>1. zipi_to_string(w) = CarveOut(w)  BY <1>5, <1>7, <1>8
    <2>2. op = 24 => Executed(w) \in Says(zipi_to_string(w))  BY <1>10, <1>11, <1>12, <2>1, SaysOf
    <2>3. op = 25 => Executed(w) \in Says(zipi_to_string(w))  BY <1>10, <1>11, <1>12, <2>1, SaysOf
    <2>4. op = 26 => Executed(w) \in Says(zipi_to_string(w))  BY <1>10, <1>11, <1>12, <2>1, SaysOf
    <2> QED BY <1>2, <2>2, <2>3, <2>4
  <1> QED BY <1>3, <1>13 DEF Listed

(* The words the assembler produces.                                       *)
Produced(w) == (\E a, op, c, s, b, r : Made(w, a, op, c, s, b, r)) \/ w \in FixedWords

LEMMA ListedMade ==
  ASSUME NEW w, NEW a, NEW op, NEW c, NEW s, NEW b, NEW r, Made(w, a, op, c, s, b, r)
  PROVE  Listed(w)
  <1>1. op \in 0..23 /\ Fields(w, a, op, c, s, b, r)  BY DEF Made
  <1>2. \/ op = 2 \/ op = 3 \/ op = 4 \/ op = 15 \/ op = 18 \/ op \in {22, 23}
        \/ op \in (0..21) \ {2, 3, 4, 15, 18}
    BY <1>1, SMT
  <1> QED BY <1>1, <1>2, ListedAdd, ListedOr, ListedXor, ListedMov, ListedLod, ListedLdi,
             ListedRest

(* The row of a word that the assembler produces says the operation the    *)
(* processor executes, unless it is one of those that are shown wrongly,   *)
(* and of none of these it does (zopcodes.cpp:524).                        *)
THEOREM ListedWord ==
  ASSUME NEW w, Produced(w)
  PROVE  Executed(w) \in Says(zipi_to_string(w)) <=> ~Misshown(w)
  BY ListedMade, ListedFixed DEF Produced, Listed

-----------------------------------------------------------------------------
(* The reversal of the bits of a number is a number: the recursion has a   *)
(* solution as far as any n, and the function is one.                      *)
LEMMA SetInduction ==
  ASSUME NEW S, 0 \in S, \A n \in Nat : n \in S => n + 1 \in S
  PROVE  Nat \subseteq S
  <1> DEFINE Missing == {n \in Nat : n \notin S}
  <1> SUFFICES ASSUME Missing # {} PROVE FALSE
    OBVIOUS
  <1>1. PICK m \in Missing : \A n \in Missing : ~(<<n, m>> \in OpToRel(<, Nat))
    BY NatLessThanWellFounded, WFMin
  <1>2. m # 0  OBVIOUS
  <1>3. m - 1 \in Nat /\ m - 1 < m /\ m = (m - 1) + 1  BY <1>2, SMT
  <1>4. m - 1 \notin Missing  BY <1>1, <1>3 DEF OpToRel
  <1> QED BY <1>3, <1>4

(* A function defined from the value before, as far as any m.              *)
Builds(r, V, a, m, G) ==
  r \in [0..m -> V] /\ r = [i \in 0..m |-> IF i = 0 THEN a ELSE G[<<i, r[i-1]>>]]

LEMMA Primitive ==
  ASSUME NEW V, NEW a, NEW m, NEW G, a \in V, m \in Nat, G \in [(1..m) \X V -> V]
  PROVE  \E r : Builds(r, V, a, m, G)
  <1> DEFINE Reached == {n \in Nat : n <= m => \E r \in [0..n -> V] :
                           /\ r[0] = a
                           /\ \A i \in 1..n : r[i] = G[<<i, r[i-1]>>]}
  <1>1. 0 \in Reached
    <2> DEFINE r == [i \in 0..0 |-> a]
    <2>1. r \in [0..0 -> V] /\ r[0] = a /\ \A i \in 1..0 : r[i] = G[<<i, r[i-1]>>]  BY SMT
    <2> QED BY <2>1
  <1>2. ASSUME NEW n \in Nat, n \in Reached
        PROVE  n + 1 \in Reached
    <2> SUFFICES ASSUME n + 1 <= m PROVE n + 1 \in Reached
      OBVIOUS
    <2>0. n <= m /\ n + 1 \in 1..m  BY SMT
    <2>1. PICK q \in [0..n -> V] : q[0] = a /\ \A i \in 1..n : q[i] = G[<<i, q[i-1]>>]
      BY <1>2, <2>0
    <2> DEFINE r == [i \in 0..n+1 |-> IF i = n + 1 THEN G[<<n + 1, q[n]>>] ELSE q[i]]
    <2>2. n \in 0..n /\ q[n] \in V /\ <<n + 1, q[n]>> \in (1..m) \X V  BY <2>0, SMT
    <2>3. G[<<n + 1, q[n]>>] \in V  BY <2>2
    <2>4. \A i \in 0..n+1 : i # n + 1 => i \in 0..n  BY SMT
    <2>5. r \in [0..n+1 -> V]  BY <2>3, <2>4
    <2>6. \A i \in 0..n : r[i] = q[i]  BY SMT
    <2>7. r[0] = a  BY <2>1, <2>6, SMT
    <2>8. r[n + 1] = G[<<n + 1, q[n]>>]  BY SMT
    <2>9. ASSUME NEW i \in 1..n+1 PROVE r[i] = G[<<i, r[i-1]>>]
      <3>1. i - 1 \in 0..n  BY SMT
      <3>2. CASE i = n + 1
        <4>1. i - 1 = n  BY <3>2, SMT
        <4> QED BY <2>6, <2>8, <3>1, <3>2, <4>1
      <3>3. CASE i # n + 1
        <4>1. i \in 1..n /\ i \in 0..n  BY <3>3, SMT
        <4> QED BY <2>1, <2>6, <3>1, <4>1
      <3> QED BY <3>2, <3>3
    <2> HIDE DEF r
    <2> QED BY <2>5, <2>7, <2>9
  <1>3. m \in Reached
    <2> HIDE DEF Reached
    <2> QED BY <1>1, <1>2, SetInduction
  <1>4. PICK r \in [0..m -> V] : r[0] = a /\ \A i \in 1..m : r[i] = G[<<i, r[i-1]>>]
    <2>1. m <= m  BY SMT
    <2> QED BY <1>3, <2>1
  <1> DEFINE f == [i \in 0..m |-> IF i = 0 THEN a ELSE G[<<i, r[i-1]>>]]
  <1>5. \A i \in 0..m : r[i] = f[i]
    <2>1. \A i \in 0..m : i = 0 \/ i \in 1..m  BY SMT
    <2> QED BY <1>4, <2>1
  <1>6. r = f  BY <1>5
  <1> QED BY <1>6 DEF Builds

LEMMA BrevLowIs ==
  ASSUME NEW v \in Int
  PROVE  BrevLow(v) \in Int
  <1> DEFINE G == [p \in (1..16) \X Int |-> 2 * p[2] + BitOf(v, 15 + p[1])]
  <1>1. \A k \in 16..31 : BitOf(v, k) \in Int
    <2> SUFFICES ASSUME NEW k \in 16..31 PROVE BitOf(v, k) \in Int
      OBVIOUS
    <2>1. CASE k = 31  BY <2>1 DEF BitOf
    <2>2. CASE k # 31
      <3>1. k \in {16, 17, 18, 19, 20, 21, 22, 23, 24, 25, 26, 27, 28, 29, 30}  BY <2>2, SMT
      <3>2. /\ Bits(v, 16, 1) \in Int /\ Bits(v, 17, 1) \in Int /\ Bits(v, 18, 1) \in Int
            /\ Bits(v, 19, 1) \in Int /\ Bits(v, 20, 1) \in Int /\ Bits(v, 21, 1) \in Int
            /\ Bits(v, 22, 1) \in Int /\ Bits(v, 23, 1) \in Int /\ Bits(v, 24, 1) \in Int
            /\ Bits(v, 25, 1) \in Int /\ Bits(v, 26, 1) \in Int /\ Bits(v, 27, 1) \in Int
            /\ Bits(v, 28, 1) \in Int /\ Bits(v, 29, 1) \in Int /\ Bits(v, 30, 1) \in Int
        BY SMT DEF Bits
      <3>3. Bits(v, k, 1) \in Int  BY <3>1, <3>2
      <3> QED BY <2>2, <3>3 DEF BitOf
    <2> QED BY <2>1, <2>2
  <1>2. G \in [(1..16) \X Int -> Int]
    <2> SUFFICES ASSUME NEW p \in (1..16) \X Int PROVE 2 * p[2] + BitOf(v, 15 + p[1]) \in Int
      OBVIOUS
    <2>1. p[2] \in Int /\ 15 + p[1] \in 16..31  BY SMT
    <2>2. BitOf(v, 15 + p[1]) \in Int  BY <1>1, <2>1
    <2> QED BY <2>1, <2>2, SMT
  <1>3. PICK q : /\ q \in [0..16 -> Int]
                 /\ q = [i \in 0..16 |-> IF i = 0 THEN 0 ELSE G[<<i, q[i-1]>>]]
    <2> HIDE DEF G
    <2>1. 0 \in Int /\ 16 \in Nat  BY SMT
    <2>2. \E q : Builds(q, Int, 0, 16, G)  BY <1>2, <2>1, Primitive
    <2> QED BY <2>2 DEF Builds
  <1> DEFINE Halve(g) == [i \in 0..16 |-> IF i = 0 THEN 0 ELSE 2 * g[i-1] + BitOf(v, 15 + i)]
             r == CHOOSE g : g = Halve(g)
  <1>4. q = Halve(q)
    <2>1. \A i \in 0..16 : i # 0 => G[<<i, q[i-1]>>] = 2 * q[i-1] + BitOf(v, 15 + i)
      <3> SUFFICES ASSUME NEW i \in 0..16, i # 0
                   PROVE  G[<<i, q[i-1]>>] = 2 * q[i-1] + BitOf(v, 15 + i)
        OBVIOUS
      <3>1. i \in 1..16 /\ i - 1 \in 0..16  BY SMT
      <3>2. <<i, q[i-1]>> \in (1..16) \X Int  BY <1>3, <3>1
      <3> QED BY <3>2
    <2> HIDE DEF G
    <2> QED BY <1>3, <2>1
  <1>5. r = Halve(r)
    <2> HIDE DEF Halve
    <2> QED BY <1>4
  <1>6. \A i \in 0..16 : r[i] = IF i = 0 THEN 0 ELSE 2 * r[i-1] + BitOf(v, 15 + i)
    <2> HIDE DEF r
    <2> QED BY <1>5
  <1>7. BrevLow(v) = r[16]  BY DEF BrevLow
  <1> DEFINE Good == {n \in Nat : n <= 16 => r[n] \in Int}
  <1>8. Nat \subseteq Good
    <2> HIDE DEF r
    <2>1. 0 \in Good
      <3>1. 0 \in 0..16  BY SMT
      <3> QED BY <1>6, <3>1
    <2>2. ASSUME NEW n \in Nat, n \in Good PROVE n + 1 \in Good
      <3> SUFFICES ASSUME n + 1 <= 16 PROVE r[n + 1] \in Int
        OBVIOUS
      <3>1. n <= 16 /\ n + 1 \in 0..16 /\ n + 1 # 0 /\ (n + 1) - 1 = n  BY SMT
      <3>2. r[n] \in Int  BY <2>2, <3>1
      <3>3. 15 + (n + 1) \in 16..31  BY <3>1, SMT
      <3>4. r[n + 1] = 2 * r[n] + BitOf(v, 15 + (n + 1))  BY <1>6, <3>1
      <3>5. BitOf(v, 15 + (n + 1)) \in Int  BY <1>1, <3>3
      <3> QED BY <3>2, <3>4, <3>5, SMT
    <2> HIDE DEF Good
    <2> QED BY <2>1, <2>2, SetInduction
  <1> HIDE DEF r
  <1>9. 16 \in Good /\ 16 <= 16  BY <1>8, SMT
  <1> QED BY <1>7, <1>9

-----------------------------------------------------------------------------
(* What the assembler makes of a statement are such words.                 *)
LEMMA MadeImmediate ==
  ASSUME NEW op, NEW c, NEW imm, NEW a,
         op \in 0..23, c \in 0..7, imm \in Int, a \in 0..NoReg
  PROVE  IMMOP(op, c, imm, a) \in Int /\ Produced(IMMOP(op, c, imm, a))
  <1> DEFINE w == IMMOP(op, c, imm, a)
  <1>1. op \in 0..31  BY SMT
  <1>2. /\ w \in Nat /\ Fits(Low(a, 4), op, c, 0, B(w), Low(w, 14))
        /\ w = Word(Low(a, 4), op, c, 0, B(w), Low(w, 14))
    BY <1>1, ImmediateWord
  <1> HIDE DEF w
  <1>3. Made(w, Low(a, 4), op, c, 0, B(w), Low(w, 14))  BY <1>2 DEF Made, Fields
  <1> QED BY <1>2, <1>3 DEF Produced, w

LEMMA MadeOffset ==
  ASSUME NEW op, NEW c, NEW imm, NEW b, NEW a, op \in 0..23, c \in 0..7,
         imm \in Int, b \in 0..NoReg, a \in 0..NoReg
  PROVE  DBLREGOP(op, c, imm, b, a) \in Int /\ Produced(DBLREGOP(op, c, imm, b, a))
  <1> DEFINE w == DBLREGOP(op, c, imm, b, a)
  <1>1. op \in 0..31  BY SMT
  <1>2. /\ w \in Nat /\ Fits(Low(a, 4), op, c, 1, Low(b, 4), Low(imm, 14))
        /\ w = Word(Low(a, 4), op, c, 1, Low(b, 4), Low(imm, 14))
    BY <1>1, OffsetWord
  <1> HIDE DEF w
  <1>3. Made(w, Low(a, 4), op, c, 1, Low(b, 4), Low(imm, 14))  BY <1>2 DEF Made, Fields
  <1> QED BY <1>2, <1>3 DEF Produced, w

FreeOps == DualOps \cup {"ROL", "LOD", "STO", "LDILO"} \cup MulOps

LEMMA MadeDual ==
  ASSUME NEW name, NEW c, NEW imm, NEW b, NEW a, name \in FreeOps, c \in 0..7,
         imm \in Int, b \in 0..NoReg, a \in 0..NoReg
  PROVE  op_dual(name, c, imm, b, a) \in Int /\ Produced(op_dual(name, c, imm, b, a))
  <1>1. ZIPO[name] \in 0..23  BY SMT DEF FreeOps, DualOps, MulOps, ZIPO
  <1> DEFINE op == ZIPO[name]
  <1>2. op \in 0..23  BY <1>1
  <1>3. op_dual(name, c, imm, b, a) = IF b = NoReg THEN IMMOP(op, c, imm, a)
                                                  ELSE DBLREGOP(op, c, imm, b, a)
    BY DEF op_dual
  <1> HIDE DEF op
  <1> QED BY <1>2, <1>3, MadeImmediate, MadeOffset

LEMMA MadeMove ==
  ASSUME NEW c, NEW imm, NEW b, NEW a,
         c \in 0..7, imm \in Int, b \in 0..NoReg, a \in 0..NoReg
  PROVE  op_mov(c, imm, b, a) \in Int /\ Produced(op_mov(c, imm, b, a))
  <1> DEFINE w == op_mov(c, imm, b, a)
  <1>1. /\ w \in Nat /\ Fits(Low(a, 4), 15, c, Bits(a, 4, 1), Low(b, 4), Low(w, 14))
        /\ w = Word(Low(a, 4), 15, c, Bits(a, 4, 1), Low(b, 4), Low(w, 14))
    <2>1. ZIPO.MOV = 15  BY DEF ZIPO
    <2> QED BY <2>1, MoveWord
  <1> HIDE DEF w
  <1>2. 15 \in 0..23  BY SMT
  <1>3. Made(w, Low(a, 4), 15, c, Bits(a, 4, 1), Low(b, 4), Low(w, 14))
    BY <1>1, <1>2 DEF Made, Fields
  <1> QED BY <1>1, <1>3 DEF Produced, w

LEMMA MadeLoad ==
  ASSUME NEW imm, NEW a, imm \in Int, a \in 0..NoReg
  PROVE  op_ldi(imm, a) \in Int /\ Produced(op_ldi(imm, a))
  <1> DEFINE w == op_ldi(imm, a)
  <1>1. w \in Nat /\ \E op, c, s, b, r : /\ op \in {22, 23} /\ Fits(Low(a, 4), op, c, s, b, r)
                                         /\ w = Word(Low(a, 4), op, c, s, b, r)
    BY LoadWord
  <1> HIDE DEF w
  <1>2. PICK op, c, s, b, r : /\ op \in {22, 23} /\ Fits(Low(a, 4), op, c, s, b, r)
                              /\ w = Word(Low(a, 4), op, c, s, b, r)
    BY <1>1
  <1>3. op \in 0..23  BY <1>2, SMT
  <1>4. Made(w, Low(a, 4), op, c, s, b, r)  BY <1>2, <1>3 DEF Made, Fields
  <1> QED BY <1>1, <1>4 DEF Produced, w

LEMMA MadeHalf ==
  ASSUME NEW c, NEW imm, NEW a, c \in 0..7, imm \in Int, a \in 0..NoReg
  PROVE  /\ op_ldilo(c, imm, a) \in Int /\ Produced(op_ldilo(c, imm, a))
         /\ op_ldihi(c, imm, a) \in Int /\ Produced(op_ldihi(c, imm, a))
  <1>1. op_ldilo(c, imm, a) = IMMOP(9, c, Low(imm, 16), a)  BY DEF op_ldilo, ZIPO
  <1>2. op_ldihi(c, imm, a) = IMMOP(12, c, BrevLow(imm), a)  BY DEF op_ldihi, ZIPO
  <1>3. Low(imm, 16) \in Int  BY SMT DEF Low
  <1>4. BrevLow(imm) \in Int  BY BrevLowIs
  <1>5. 9 \in 0..23 /\ 12 \in 0..23  BY SMT
  <1> QED BY <1>1, <1>2, <1>3, <1>4, <1>5, MadeImmediate

LEMMA MadeMultiply ==
  ASSUME NEW name, NEW c, NEW imm, NEW b, NEW a, name \in MulOps, c \in 0..7, imm \in Int,
         b \in 0..NoReg, a \in 0..NoReg
  PROVE  op_mul(name, c, imm, b, a) \in Int /\ Produced(op_mul(name, c, imm, b, a))
  <1> DEFINE i == IF b = NoReg /\ name # "MPY" THEN Low(imm, 16) ELSE imm
  <1>1. i \in Int
    <2>1. Low(imm, 16) \in Int  BY SMT DEF Low
    <2> QED BY <2>1
  <1>2. op_mul(name, c, imm, b, a) = op_dual(name, c, i, b, a)  BY DEF op_mul
  <1>3. name \in FreeOps  BY DEF FreeOps
  <1> HIDE DEF i
  <1> QED BY <1>1, <1>2, <1>3, MadeDual

LEMMA MadeFixed ==
  /\ op_noop \in Int /\ Produced(op_noop) /\ op_break \in Int /\ Produced(op_break)
  /\ op_lock \in Int /\ Produced(op_lock) /\ op_ljmp \in Int /\ Produced(op_ljmp)
  <1>1. op_noop \in Int /\ op_break \in Int /\ op_lock \in Int /\ op_ljmp \in Int
    BY SMT DEF op_noop, op_break, op_lock, op_ljmp
  <1>2. op_ljmp = Word(15, 18, 0, 1, 15, 0)  BY SMT DEF op_ljmp, Word
  <1>3. Fits(15, 18, 0, 1, 15, 0) /\ 18 \in 0..23
    BY SMT DEF Fits
  <1>4. Made(op_ljmp, 15, 18, 0, 1, 15, 0)  BY <1>2, <1>3 DEF Made, Fields
  <1> QED BY <1>1, <1>4 DEF Produced, FixedWords

(* What holds of the line of a statement that is one word.                 *)
Single(t, v, pc) ==
  \E w \in Int : /\ Assemble(t, v, pc).ws = << w >>
                 /\ Assemble(t, v, pc).ok => Produced(w)

LEMMA SingleIs ==
  ASSUME NEW t, NEW v, NEW pc, NEW w \in Int, NEW ok, Switch(t, v, pc) = One(w, ok),
         ok /\ UserRegsOk(t) => Produced(w)
  PROVE  Single(t, v, pc)
  BY AssembleOne DEF Single

Legal(t, v, pc) == Statement(t) /\ v \in Int /\ pc \in Nat

LEMMA Operands ==
  ASSUME NEW t, NEW v, NEW pc, Legal(t, v, pc)
  PROVE  /\ t.cond \in 0..7 /\ t.opa \in 0..NoReg /\ t.opb \in 0..NoReg /\ v \in Int
         /\ Immediate(t, v, pc) \in Int /\ Offset(v, pc) \in Int
         /\ PC \in 0..NoReg /\ CC \in 0..NoReg /\ SP \in 0..NoReg /\ NoReg \in 0..NoReg
         /\ ALWAYS \in 0..7 /\ 0 \in Int /\ 1 \in Int /\ -1 \in Int /\ 16 \in Int /\ 32 \in Int
  <1>1. /\ PC \in 0..NoReg /\ CC \in 0..NoReg /\ SP \in 0..NoReg /\ NoReg \in 0..NoReg
        /\ ALWAYS \in 0..7 /\ 0 \in Int /\ 1 \in Int /\ -1 \in Int /\ 16 \in Int /\ 32 \in Int
    BY SMT DEF PC, CC, SP, NoReg, ALWAYS
  <1> QED BY <1>1, IntendedIs DEF Legal, Statement

LEMMA SingleDual ==
  ASSUME NEW t, NEW v, NEW pc, Legal(t, v, pc), t.op \in DualOps \cup {"ROL", "LOD", "STO"}
  PROVE  Single(t, v, pc)
  <1> DEFINE imm == Immediate(t, v, pc)
             w == op_dual(t.op, t.cond, imm, t.opb, t.opa)
  <1>1. PICK ok : Switch(t, v, pc) = One(w, ok)
    <2>1. t.op \in DualOps => Switch(t, v, pc) = DualLine(t, imm)  BY SwitchIs
    <2>2. t.op = "ROL" => Switch(t, v, pc) = RolLine(t, imm)  BY SwitchIs
    <2>3. t.op \in {"LOD", "STO"} => Switch(t, v, pc) = MemLine(t, imm)  BY SwitchIs
    <2>4. t.op \in DualOps => \E ok : Switch(t, v, pc) = One(w, ok)  BY <2>1 DEF DualLine
    <2>5. t.op = "ROL" => \E ok : Switch(t, v, pc) = One(w, ok)  BY <2>2 DEF RolLine
    <2>6. t.op \in {"LOD", "STO"} => \E ok : Switch(t, v, pc) = One(w, ok)  BY <2>3 DEF MemLine
    <2> QED BY <2>4, <2>5, <2>6
  <1> HIDE DEF imm
  <1>2. t.op \in FreeOps  BY DEF FreeOps
  <1>3. w \in Int /\ Produced(w)  BY <1>2, Operands, MadeDual DEF imm
  <1> HIDE DEF w
  <1> QED BY <1>1, <1>3, SingleIs

LEMMA SingleBranch ==
  ASSUME NEW t, NEW v, NEW pc, Legal(t, v, pc), t.op \in DOMAIN BranchCond
  PROVE  Single(t, v, pc)
  <1> DEFINE offset == Offset(v, pc)
             w == op_dual("ADD", BranchCond[t.op], offset, NoReg, PC)
  <1>1. Switch(t, v, pc) = One(w, fitsin(offset, 18))
    BY SwitchIs DEF BranchLine, op_branch
  <1>2. BranchCond[t.op] \in 0..7  BY SMT DEF BranchCond
  <1>3. "ADD" \in FreeOps  BY DEF FreeOps, DualOps
  <1>4. w \in Int /\ Produced(w)
    <2>1. offset \in Int  BY Operands
    <2> HIDE DEF offset
    <2> QED BY <1>2, <1>3, <2>1, Operands, MadeDual
  <1> HIDE DEF w
  <1> QED BY <1>1, <1>4, SingleIs

LEMMA SingleMove ==
  ASSUME NEW t, NEW v, NEW pc, Legal(t, v, pc), t.op = "MOV"
  PROVE  Single(t, v, pc)
  <1> DEFINE imm == Immediate(t, v, pc)
             w == op_mov(t.cond, imm, t.opb, t.opa)
  <1>1. Switch(t, v, pc) = MovLine(t, imm)  BY SwitchIs
  <1>2. PICK ok : Switch(t, v, pc) = One(w, ok)  BY <1>1 DEF MovLine
  <1> HIDE DEF imm
  <1>3. w \in Int /\ Produced(w)  BY Operands, MadeMove DEF imm
  <1> HIDE DEF w
  <1> QED BY <1>2, <1>3, SingleIs

LEMMA SingleHalf ==
  ASSUME NEW t, NEW v, NEW pc, Legal(t, v, pc), t.op \in {"LDIHI", "LDILO"}
  PROVE  Single(t, v, pc)
  <1> DEFINE imm == Immediate(t, v, pc)
             w == IF t.op = "LDIHI" THEN op_ldihi(t.cond, imm, t.opa)
                  ELSE op_ldilo(t.cond, imm, t.opa)
  <1>1. Switch(t, v, pc) = HalfLine(t, imm)  BY SwitchIs
  <1>2. PICK ok : Switch(t, v, pc) = One(w, ok)  BY <1>1 DEF HalfLine
  <1> HIDE DEF imm
  <1>3. w \in Int /\ Produced(w)  BY Operands, MadeHalf DEF imm
  <1> HIDE DEF w
  <1> QED BY <1>2, <1>3, SingleIs

LEMMA SingleMultiply ==
  ASSUME NEW t, NEW v, NEW pc, Legal(t, v, pc), t.op \in MulOps
  PROVE  Single(t, v, pc)
  <1> DEFINE imm == Immediate(t, v, pc)
             w == op_mul(t.op, t.cond, imm, t.opb, t.opa)
  <1>1. Switch(t, v, pc) = MulLine(t, imm)  BY SwitchIs
  <1>2. CASE {t.opa, t.opb} \cap {PC, CC} # {}
    <2>1. Switch(t, v, pc) = One(NoWord, FALSE)  BY <1>1, <1>2 DEF MulLine
    <2>2. NoWord \in Int  BY SMT DEF NoWord
    <2> QED BY <2>1, <2>2, SingleIs
  <1>3. CASE {t.opa, t.opb} \cap {PC, CC} = {}
    <2>1. Switch(t, v, pc) = One(w, TRUE)  BY <1>1, <1>3 DEF MulLine
    <2> HIDE DEF imm
    <2>2. t.opa # NoReg /\ t.op # "MOV"  BY SMT DEF Legal, Statement, MulOps
    <2>3. UserRegsOk(t) => t.opa \in 0..15 /\ t.opb \in (0..15) \cup {NoReg}
      BY <2>2, OwnRegisters DEF Legal
    <2>4. w \in Int /\ (UserRegsOk(t) => Produced(w))
      BY <1>3, <2>3, Operands, MadeMultiply DEF imm
    <2> HIDE DEF w
    <2> QED BY <2>1, <2>4, SingleIs
  <1> QED BY <1>2, <1>3

LEMMA SingleJump ==
  ASSUME NEW t, NEW v, NEW pc, Legal(t, v, pc), t.op = "JMP"
  PROVE  Single(t, v, pc)
  <1> DEFINE imm == Immediate(t, v, pc)
  <1>1. Switch(t, v, pc) = JmpLine(t, imm)  BY SwitchIs
  <1>2. imm \in Int  BY Operands
  <1> HIDE DEF imm
  <1>3. CASE t.opb = NoReg
    <2> DEFINE cut == Low(imm, 23)
    <2>1. PICK ok : Switch(t, v, pc) = One(op_ldi(cut, PC), ok)
      BY <1>1, <1>3 DEF JmpLine
    <2>2. cut \in Int  BY <1>2, SMT DEF Low
    <2> HIDE DEF cut
    <2>3. op_ldi(cut, PC) \in Int /\ Produced(op_ldi(cut, PC))  BY <2>2, Operands, MadeLoad
    <2> QED BY <2>1, <2>3, SingleIs
  <1>4. CASE t.opb # NoReg /\ fitsin(imm, 13)
    <2>1. Switch(t, v, pc) = One(op_mov(t.cond, imm, t.opb, PC), TRUE)
      BY <1>1, <1>4 DEF JmpLine
    <2>2. op_mov(t.cond, imm, t.opb, PC) \in Int /\ Produced(op_mov(t.cond, imm, t.opb, PC))
      BY <1>2, Operands, MadeMove
    <2> QED BY <2>1, <2>2, SingleIs
  <1>5. CASE t.opb # NoReg /\ ~fitsin(imm, 13) /\ fitsin(imm, 18)
    <2> DEFINE w == op_dual("ADD", t.cond, imm, t.opb, PC)
    <2>1. Switch(t, v, pc) = One(w, TRUE)  BY <1>1, <1>5 DEF JmpLine
    <2>2. "ADD" \in FreeOps  BY DEF FreeOps, DualOps
    <2>3. w \in Int /\ Produced(w)  BY <1>2, <2>2, Operands, MadeDual
    <2> HIDE DEF w
    <2> QED BY <2>1, <2>3, SingleIs
  <1>6. CASE t.opb # NoReg /\ ~fitsin(imm, 13) /\ ~fitsin(imm, 18)
    <2>1. Switch(t, v, pc) = One(NoWord, FALSE)  BY <1>1, <1>6 DEF JmpLine
    <2>2. NoWord \in Int  BY SMT DEF NoWord
    <2> QED BY <2>1, <2>2, SingleIs
  <1> QED BY <1>3, <1>4, <1>5, <1>6

LEMMA SingleTrap ==
  ASSUME NEW t, NEW v, NEW pc, Legal(t, v, pc), t.op = "TRAP"
  PROVE  Single(t, v, pc)
  <1> DEFINE imm == Immediate(t, v, pc)
  <1>1. Switch(t, v, pc) = TrapLine(t, imm)  BY SwitchIs
  <1>2. imm \in Int  BY Operands
  <1> HIDE DEF imm
  <1>3. \E w, ok : /\ Switch(t, v, pc) = One(w, ok)
                   /\ \/ w \in {op_ldi(imm, CC), op_ldi(0, CC)}
                      \/ w = op_mov(t.cond, imm, t.opb, CC)
                      \/ w \in {op_ldilo(t.cond, imm, CC), op_ldilo(t.cond, 0, CC)}
    <2>1. CASE t.opb = NoReg /\ t.cond = ALWAYS
      <3>1. Switch(t, v, pc) = One(op_ldi(imm, CC), TRUE)  BY <1>1, <2>1 DEF TrapLine
      <3> QED BY <3>1
    <2>2. CASE t.opb = NoReg /\ t.cond # ALWAYS /\ imm \in HalfWords /\ Bits(imm, 5, 1) = 0
      <3>1. Switch(t, v, pc) = One(op_ldilo(t.cond, imm, CC), TRUE)  BY <1>1, <2>2 DEF TrapLine
      <3> QED BY <3>1
    <2>3. CASE t.opb # NoReg /\ fitsin(imm, 13)
      <3>1. Switch(t, v, pc) = One(op_mov(t.cond, imm, t.opb, CC), TRUE)
        BY <1>1, <2>3 DEF TrapLine
      <3> QED BY <3>1
    <2>4. CASE /\ ~(t.opb = NoReg /\ t.cond = ALWAYS)
               /\ ~(t.opb = NoReg /\ t.cond # ALWAYS /\ imm \in HalfWords /\ Bits(imm, 5, 1) = 0)
               /\ ~(t.opb # NoReg /\ fitsin(imm, 13))
      <3>1. Switch(t, v, pc)
              = One(IF t.cond = ALWAYS THEN op_ldi(0, CC) ELSE op_ldilo(t.cond, 0, CC), FALSE)
        BY <1>1, <2>4 DEF TrapLine
      <3> QED BY <3>1
    <2> QED BY <2>1, <2>2, <2>3, <2>4
  <1>4. PICK w, ok : /\ Switch(t, v, pc) = One(w, ok)
                     /\ \/ w \in {op_ldi(imm, CC), op_ldi(0, CC)}
                        \/ w = op_mov(t.cond, imm, t.opb, CC)
                        \/ w \in {op_ldilo(t.cond, imm, CC), op_ldilo(t.cond, 0, CC)}
    BY <1>3
  <1>5. w \in Int /\ Produced(w)
    BY <1>2, <1>4, Operands, MadeLoad, MadeMove, MadeHalf
  <1> QED BY <1>4, <1>5, SingleIs

LEMMA SingleBare ==
  ASSUME NEW t, NEW v, NEW pc, Legal(t, v, pc), t.op \in BareOps
  PROVE  Single(t, v, pc)
  <1>1. Switch(t, v, pc) = One(BareWord(t), TRUE)  BY SwitchIs
  <1>2. \/ t.op \in {"HALT", "RTU", "BUSY"}
        \/ t.op \in {"NOOP", "BREAK", "LOCK", "LJMP"}
    BY DEF BareOps
  <1>3. CASE t.op \in {"HALT", "RTU", "BUSY"}
    <2>1. \/ BareWord(t) = op_dual("OR", t.cond, 16, NoReg, CC)
          \/ BareWord(t) = op_dual("OR", t.cond, 32, NoReg, CC)
          \/ BareWord(t) = op_dual("ADD", t.cond, -1, NoReg, PC)
      BY <1>3 DEF BareWord, op_halt, op_rtu, op_busy
    <2>2. "OR" \in FreeOps /\ "ADD" \in FreeOps  BY DEF FreeOps, DualOps
    <2>3. BareWord(t) \in Int /\ Produced(BareWord(t))  BY <2>1, <2>2, Operands, MadeDual
    <2> QED BY <1>1, <2>3, SingleIs
  <1>4. CASE t.op \in {"NOOP", "BREAK", "LOCK", "LJMP"}
    <2>1. BareWord(t) \in {op_noop, op_break, op_lock, op_ljmp}  BY <1>4 DEF BareWord
    <2>2. BareWord(t) \in Int /\ Produced(BareWord(t))  BY <2>1, MadeFixed
    <2> QED BY <1>1, <2>2, SingleIs
  <1> QED BY <1>2, <1>3, <1>4

LEMMA SingleRest ==
  ASSUME NEW t, NEW v, NEW pc, Legal(t, v, pc),
         t.op \notin DualOps \cup DOMAIN BranchCond \cup MulOps \cup BareOps
           \cup {"MOV", "LDIHI", "LDILO", "ROL", "LOD", "STO", "LDI", "NEG", "JMP", "TRAP"}
  PROVE  Single(t, v, pc)
  <1>1. CASE t.op = "CLRF"
    <2>1. Switch(t, v, pc) = One(DBLREGOP(4, t.cond, 0, t.opb, t.opb), TRUE)
      BY <1>1, SwitchIs DEF op_clrf, ZIPO
    <2>2. 4 \in (0..23) \ {9, 10, 11}  BY SMT
    <2>3. /\ DBLREGOP(4, t.cond, 0, t.opb, t.opb) \in Int
          /\ Produced(DBLREGOP(4, t.cond, 0, t.opb, t.opb))
      BY <2>2, Operands, MadeOffset
    <2> QED BY <2>1, <2>3, SingleIs
  <1>2. CASE t.op = "NOT"
    <2>1. Switch(t, v, pc) = One(IMMOP(4, t.cond, -1, t.opb), TRUE)
      BY <1>2, SwitchIs DEF op_not, ZIPO
    <2>2. 4 \in (0..23) \ {9, 10, 11}  BY SMT
    <2>3. IMMOP(4, t.cond, -1, t.opb) \in Int /\ Produced(IMMOP(4, t.cond, -1, t.opb))
      BY <2>2, Operands, MadeImmediate
    <2> QED BY <2>1, <2>3, SingleIs
  <1>3. CASE t.op = "CLR"
    <2>1. Switch(t, v, pc) = ClrLine(t)  BY <1>3, SwitchIs
    <2>2. \/ Switch(t, v, pc) = One(op_ldi(0, t.opb), TRUE)
          \/ Switch(t, v, pc) = One(DBLREGOP(4, t.cond, 0, t.opb, t.opb), TRUE)
      BY <2>1 DEF ClrLine, op_clrf, ZIPO
    <2>3. 4 \in (0..23) \ {9, 10, 11}  BY SMT
    <2>4. /\ DBLREGOP(4, t.cond, 0, t.opb, t.opb) \in Int
          /\ Produced(DBLREGOP(4, t.cond, 0, t.opb, t.opb))
      BY <2>3, Operands, MadeOffset
    <2>5. op_ldi(0, t.opb) \in Int /\ Produced(op_ldi(0, t.opb))  BY Operands, MadeLoad
    <2> QED BY <2>2, <2>4, <2>5, SingleIs
  <1>4. CASE t.op = "RETN"
    <2>1. Switch(t, v, pc) = One(op_dual("LOD", t.cond, -1, SP, PC), TRUE)  BY <1>4, SwitchIs
    <2>2. "LOD" \in FreeOps  BY DEF FreeOps
    <2>3. /\ op_dual("LOD", t.cond, -1, SP, PC) \in Int
          /\ Produced(op_dual("LOD", t.cond, -1, SP, PC))
      BY <2>2, Operands, MadeDual
    <2> QED BY <2>1, <2>3, SingleIs
  <1>5. CASE t.op \notin {"CLRF", "NOT", "CLR", "RETN"}
    <2>1. Switch(t, v, pc) = One(op_noop, FALSE)  BY <1>5, SwitchIs
    <2> QED BY <2>1, MadeFixed, SingleIs
  <1> QED BY <1>1, <1>2, <1>3, <1>4, <1>5

(* The two statements that may be a pair of words; the address of neither  *)
(* matters.                                                                *)
LEMMA LoadLine ==
  ASSUME NEW t, NEW v, NEW pc, Legal(t, v, pc), t.op = "LDI"
  PROVE  /\ Switch(t, v, pc) = LdiLine(t, v)
         /\ fitsin(v, 23) /\ t.cond = ALWAYS => Single(t, v, pc)
         /\ ~(fitsin(v, 23) /\ t.cond = ALWAYS) =>
              \E w1 \in Int, w2 \in Int : /\ Assemble(t, v, pc).ws = << w1, w2 >>
                                          /\ Produced(w1) /\ Produced(w2)
  <1>1. t.opb = NoReg  BY DEF Legal, Statement, WithoutB
  <1>2. Immediate(t, v, pc) = v
    <2>1. PC # NoReg  BY SMT DEF PC, NoReg
    <2> QED BY <1>1, <2>1 DEF Immediate
  <1>3. Switch(t, v, pc) = LdiLine(t, v)  BY <1>2, SwitchIs
  <1>4. ASSUME fitsin(v, 23), t.cond = ALWAYS PROVE Single(t, v, pc)
    <2>1. Switch(t, v, pc) = One(op_ldi(v, t.opa), TRUE)  BY <1>3, <1>4 DEF LdiLine
    <2>2. op_ldi(v, t.opa) \in Int /\ Produced(op_ldi(v, t.opa))  BY Operands, MadeLoad
    <2> QED BY <2>1, <2>2, SingleIs
  <1>5. ASSUME ~(fitsin(v, 23) /\ t.cond = ALWAYS)
        PROVE  \E w1 \in Int, w2 \in Int : /\ Assemble(t, v, pc).ws = << w1, w2 >>
                                           /\ Produced(w1) /\ Produced(w2)
    <2> DEFINE high == Bits(v, 16, 16)
               low == Low(v, 16)
               w1 == op_ldihi(t.cond, high, t.opa)
               w2 == op_ldilo(t.cond, low, t.opa)
               ok == t.opa # PC
    <2>1. Switch(t, v, pc) = [ws |-> << w1, w2 >>, ok |-> ok]  BY <1>3, <1>5 DEF LdiLine
    <2>2. high \in Int /\ low \in Int  BY SMT DEF Bits, Low, Legal
    <2> HIDE DEF high, low
    <2>3. w1 \in Int /\ Produced(w1) /\ w2 \in Int /\ Produced(w2)
      BY <2>2, Operands, MadeHalf
    <2> HIDE DEF w1, w2, ok
    <2>4. Assemble(t, v, pc).ws = << w1, w2 >>  BY <2>1, AssembleIs
    <2> QED BY <2>3, <2>4
  <1> QED BY <1>3, <1>4, <1>5

LEMMA NegateLine ==
  ASSUME NEW t, NEW v, NEW pc, Legal(t, v, pc), t.op = "NEG"
  PROVE  /\ Switch(t, v, pc) = NegLine(t)
         /\ \E w1 \in Int, w2 \in Int : /\ Assemble(t, v, pc).ws = << w1, w2 >>
                                        /\ Produced(w1) /\ Produced(w2)
  <1>1. Switch(t, v, pc) = NegLine(t)  BY SwitchIs
  <1>2. 4 \in (0..23) \ {9, 10, 11} /\ "ADD" \in FreeOps
    <2>1. 4 \in (0..23) \ {9, 10, 11}  BY SMT
    <2> QED BY <2>1 DEF FreeOps, DualOps
  <1>3. \A c \in 0..7 : op_not(c, t.opb) \in Int /\ Produced(op_not(c, t.opb))
    BY <1>2, Operands, MadeImmediate DEF op_not, ZIPO
  <1>4. Always("ADD", 1, NoReg, t.opb) \in Int /\ Produced(Always("ADD", 1, NoReg, t.opb))
    BY <1>2, Operands, MadeDual DEF Always
  <1>5. op_mov(t.cond, -1, t.opb, t.opb) \in Int /\ Produced(op_mov(t.cond, -1, t.opb, t.opb))
    BY Operands, MadeMove
  <1>6. \E w1 \in Int, w2 \in Int : /\ NegLine(t) = [ws |-> << w1, w2 >>, ok |-> TRUE]
                                    /\ Produced(w1) /\ Produced(w2)
    BY <1>3, <1>4, <1>5, Operands DEF NegLine
  <1> QED BY <1>1, <1>6, AssembleIs

(* What the assembler makes of a statement.                                *)
LEMMA Assembled ==
  ASSUME NEW t, NEW v, NEW pc, Legal(t, v, pc)
  PROVE  /\ Assemble(t, v, pc).ws \in Seq(Int) /\ Len(Assemble(t, v, pc).ws) \in {1, 2}
         /\ t.op \notin {"LDI", "NEG"} => Len(Assemble(t, v, pc).ws) = 1
         /\ t.op = "LDI" =>
              Len(Assemble(t, v, pc).ws) = IF fitsin(v, 23) /\ t.cond = ALWAYS THEN 1 ELSE 2
         /\ Assemble(t, v, pc).ok =>
              \A i \in 1..Len(Assemble(t, v, pc).ws) : Produced(Assemble(t, v, pc).ws[i])
         /\ t.op \in {"LDI", "NEG"} =>
              \A q \in Nat : Assemble(t, v, q).ws = Assemble(t, v, pc).ws
  <1> DEFINE ws == Assemble(t, v, pc).ws
  <1>1. ASSUME Single(t, v, pc)
        PROVE  /\ ws \in Seq(Int) /\ Len(ws) = 1
               /\ Assemble(t, v, pc).ok => \A i \in 1..Len(ws) : Produced(ws[i])
    <2>1. PICK w \in Int : ws = << w >> /\ (Assemble(t, v, pc).ok => Produced(w))
      BY <1>1 DEF Single
    <2> HIDE DEF ws
    <2>2. ws \in Seq(Int) /\ Len(ws) = 1 /\ \A i \in 1..Len(ws) : ws[i] = w  BY <2>1, SMT
    <2> QED BY <2>1, <2>2
  <1>2. ASSUME \E w1 \in Int, w2 \in Int : ws = << w1, w2 >> /\ Produced(w1) /\ Produced(w2)
        PROVE  ws \in Seq(Int) /\ Len(ws) = 2 /\ \A i \in 1..Len(ws) : Produced(ws[i])
    <2>1. PICK w1 \in Int, w2 \in Int : ws = << w1, w2 >> /\ Produced(w1) /\ Produced(w2)
      BY <1>2
    <2> HIDE DEF ws
    <2>2. /\ ws \in Seq(Int) /\ Len(ws) = 2
          /\ \A i \in 1..Len(ws) : ws[i] = w1 \/ ws[i] = w2
      BY <2>1, SMT
    <2> QED BY <2>1, <2>2
  <1>3. t.op \notin {"LDI", "NEG"} => Single(t, v, pc)
    <2> SUFFICES ASSUME t.op \notin {"LDI", "NEG"} PROVE Single(t, v, pc)
      OBVIOUS
    <2>1. \/ t.op \in DualOps \cup {"ROL", "LOD", "STO"}
          \/ t.op \in DOMAIN BranchCond
          \/ t.op = "MOV" \/ t.op \in {"LDIHI", "LDILO"} \/ t.op \in MulOps
          \/ t.op = "JMP" \/ t.op = "TRAP" \/ t.op \in BareOps
          \/ t.op \notin DualOps \cup DOMAIN BranchCond \cup MulOps \cup BareOps
               \cup {"MOV", "LDIHI", "LDILO", "ROL", "LOD", "STO", "LDI", "NEG", "JMP", "TRAP"}
      OBVIOUS
    <2> QED BY <2>1, SingleDual, SingleBranch, SingleMove, SingleHalf, SingleMultiply,
               SingleJump, SingleTrap, SingleBare, SingleRest
  <1>4. \A q \in Nat : Legal(t, v, q)  BY DEF Legal
  <1> HIDE DEF ws
  <1>5. CASE t.op \notin {"LDI", "NEG"}
    <2>1. Single(t, v, pc) /\ t.op # "LDI"  BY <1>3, <1>5
    <2> QED BY <1>1, <1>5, <2>1 DEF ws
  <1>6. CASE t.op = "LDI"
    <2>1. \A q \in Nat : Assemble(t, v, q).ws = ws
      <3>1. Switch(t, v, pc) = LdiLine(t, v)  BY <1>6, LoadLine
      <3>2. \A q \in Nat : Switch(t, v, q) = LdiLine(t, v)  BY <1>4, <1>6, LoadLine
      <3> QED BY <3>1, <3>2 DEF Assemble, ws
    <2>2. CASE fitsin(v, 23) /\ t.cond = ALWAYS
      <3>1. Single(t, v, pc)  BY <1>6, <2>2, LoadLine
      <3> QED BY <1>1, <1>6, <2>1, <2>2, <3>1 DEF ws
    <2>3. CASE ~(fitsin(v, 23) /\ t.cond = ALWAYS)
      <3>1. \E w1 \in Int, w2 \in Int : ws = << w1, w2 >> /\ Produced(w1) /\ Produced(w2)
        BY <1>6, <2>3, LoadLine DEF ws
      <3> QED BY <1>2, <1>6, <2>1, <2>3, <3>1 DEF ws
    <2> QED BY <2>2, <2>3
  <1>7. CASE t.op = "NEG"
    <2>1. \A q \in Nat : Assemble(t, v, q).ws = ws
      <3>1. Switch(t, v, pc) = NegLine(t)  BY <1>7, NegateLine
      <3>2. \A q \in Nat : Switch(t, v, q) = NegLine(t)  BY <1>4, <1>7, NegateLine
      <3> QED BY <3>1, <3>2 DEF Assemble, ws
    <2>2. \E w1 \in Int, w2 \in Int : ws = << w1, w2 >> /\ Produced(w1) /\ Produced(w2)
      BY <1>7, NegateLine DEF ws
    <2>3. t.op # "LDI"  BY <1>7
    <2> QED BY <1>2, <1>7, <2>1, <2>2, <2>3 DEF ws
  <1> QED BY <1>5, <1>6, <1>7

-----------------------------------------------------------------------------
(* The words of a line: those of its statement, and a NOOP in a place that *)
(* was reserved and is not needed.                                         *)
WordAt(t, v, pc, i) ==
  LET ws == Assemble(t, v, pc).ws IN IF i <= Len(ws) THEN ws[i] ELSE DEFAULT_LINE

(* A line of the file: one that waits for its value, and one that has it.  *)
Awaited(p, t, o) ==
  /\ p.value = {} /\ p.n = (IF t.op = "LDI" THEN 2 ELSE 1)
  /\ \A i \in 1..p.n : o[p.addr + i] = DEFAULT_LINE
Resolved(p, t, o) ==
  \E v \in Int : /\ p.value = {v}
                 /\ \A i \in 1..p.n : o[p.addr + i] = WordAt(t, v, p.addr, i)
                 /\ t.op = "LDI" /\ p.n = 1 => fitsin(v, 23) /\ t.cond = ALWAYS
HeldIn(p, t, o) == Awaited(p, t, o) \/ Resolved(p, t, o)

LEMMA HeldAgrees ==
  ASSUME NEW p, NEW t, NEW o, NEW q, HeldIn(p, t, o),
         \A i \in 1..p.n : q[p.addr + i] = o[p.addr + i]
  PROVE  HeldIn(p, t, q)
  BY DEF HeldIn, Awaited, Resolved

LEMMA TWordsTyped ==
  ASSUME NEW n \in {1, 2}, NEW t, NEW r, NEW pc, Statement(t), r.v \in Int, pc \in Nat
  PROVE  TWords(n, t, r, pc) \in Seq(Int) /\ Len(TWords(n, t, r, pc)) = n
  <1> DEFINE made(i) == Assemble(t, r.v, pc + i - 1).ws
             ws == TWords(n, t, r, pc)
  <1>1. ASSUME NEW i \in 1..n PROVE ws[i] \in Int
    <2>1. pc + i - 1 \in Nat  BY SMT
    <2>2. made(i) \in Seq(Int)
      <3>1. Legal(t, r.v, pc + i - 1)  BY <2>1 DEF Legal
      <3> QED BY <3>1, Assembled
    <2>3. ws[i] = IF r.is /\ i <= Len(made(i)) THEN made(i)[i] ELSE DEFAULT_LINE
      BY DEF TWords
    <2>4. DEFAULT_LINE \in Int  BY MadeFixed DEF DEFAULT_LINE
    <2> HIDE DEF made, ws
    <2>5. i \in Nat /\ 1 <= i  BY SMT
    <2>6. i <= Len(made(i)) => made(i)[i] \in Int  BY <2>2, <2>5, SMT
    <2> QED BY <2>3, <2>4, <2>6
  <1>2. ws = [i \in 1..n |-> ws[i]]  BY DEF TWords
  <1> HIDE DEF ws
  <1> QED BY <1>1, <1>2, SMT DEF ws

LEMMA TWordsAre ==
  ASSUME NEW t, NEW r, NEW pc, Statement(t), r.v \in Int, r.is \in BOOLEAN, pc \in Nat
  PROVE  /\ TWords(nlines(t, r), t, r, pc) \in Seq(Int)
         /\ Len(TWords(nlines(t, r), t, r, pc)) = nlines(t, r)
         /\ nlines(t, r) \in 1 .. (IF t.op = "LDI" THEN 2 ELSE 1)
         /\ ~r.is => /\ nlines(t, r) = (IF t.op = "LDI" THEN 2 ELSE 1)
                     /\ \A i \in 1..nlines(t, r) : TWords(nlines(t, r), t, r, pc)[i] = DEFAULT_LINE
         /\ r.is => /\ \A i \in 1..nlines(t, r) :
                         TWords(nlines(t, r), t, r, pc)[i] = WordAt(t, r.v, pc, i)
                    /\ \A i \in 1 .. (IF t.op = "LDI" THEN 2 ELSE 1) :
                         i > nlines(t, r) => WordAt(t, r.v, pc, i) = DEFAULT_LINE
                    /\ t.op = "LDI" /\ nlines(t, r) = 1 => fitsin(r.v, 23) /\ t.cond = ALWAYS
  <1> DEFINE n == nlines(t, r)
             most == IF t.op = "LDI" THEN 2 ELSE 1
             made(i) == Assemble(t, r.v, pc + i - 1).ws
             ws == TWords(nlines(t, r), t, r, pc)
  <1>1. n \in 1..most /\ (~r.is => n = most)  BY SMT DEF nlines
  <1>2. r.is /\ t.op = "LDI" => n = IF fitsin(r.v, 23) /\ t.cond = ALWAYS THEN 1 ELSE 2
    BY DEF nlines
  <1>3. \A i \in 1..2 : Legal(t, r.v, pc + i - 1) /\ Legal(t, r.v, pc)  BY SMT DEF Legal
  <1>4. \A i \in 1..n : made(i) = Assemble(t, r.v, pc).ws
    <2> SUFFICES ASSUME NEW i \in 1..n PROVE made(i) = Assemble(t, r.v, pc).ws
      OBVIOUS
    <2>1. CASE i = 1
      <3>1. pc + i - 1 = pc  BY <2>1, SMT
      <3> QED BY <3>1
    <2>2. CASE i # 1
      <3>1. t.op = "LDI" /\ pc + i - 1 \in Nat /\ 1 \in 1..2
        <4> HIDE DEF n
        <4> QED BY <1>1, <2>2, SMT
      <3> QED BY <1>3, <3>1, Assembled
    <2> QED BY <2>1, <2>2
  <1>5. \A i \in 1..n : ws[i] = IF r.is THEN WordAt(t, r.v, pc, i) ELSE DEFAULT_LINE
    <2> SUFFICES ASSUME NEW i \in 1..n
                 PROVE  ws[i] = IF r.is THEN WordAt(t, r.v, pc, i) ELSE DEFAULT_LINE
      OBVIOUS
    <2>1. ws[i] = IF r.is /\ i <= Len(made(i)) THEN made(i)[i] ELSE DEFAULT_LINE
      BY DEF TWords
    <2> HIDE DEF made, ws, n
    <2> QED BY <1>4, <2>1 DEF WordAt
  <1>6. \A i \in 1..2 : WordAt(t, r.v, pc, i) \in Int
    <2> SUFFICES ASSUME NEW i \in 1..2 PROVE WordAt(t, r.v, pc, i) \in Int
      OBVIOUS
    <2>1. DEFAULT_LINE \in Int  BY MadeFixed DEF DEFAULT_LINE
    <2>2. Assemble(t, r.v, pc).ws \in Seq(Int)  BY <1>3, Assembled
    <2>3. i <= Len(Assemble(t, r.v, pc).ws) => Assemble(t, r.v, pc).ws[i] \in Int  BY <2>2, SMT
    <2> QED BY <2>1, <2>3 DEF WordAt
  <1>7. ws \in Seq(Int) /\ Len(ws) = n
    <2>1. ws = [i \in 1..n |-> ws[i]]  BY DEF TWords
    <2>2. n \in Nat /\ \A i \in 1..n : i \in 1..2
      <3> HIDE DEF n
      <3> QED BY <1>1, SMT
    <2>3. DEFAULT_LINE \in Int  BY MadeFixed DEF DEFAULT_LINE
    <2> HIDE DEF ws, n
    <2>4. \A i \in 1..n : ws[i] \in Int  BY <1>5, <1>6, <2>2, <2>3
    <2> QED BY <2>1, <2>2, <2>4, SMT
  <1>8. ASSUME r.is, NEW i \in 1..most, i > n PROVE WordAt(t, r.v, pc, i) = DEFAULT_LINE
    <2>1. t.op = "LDI" /\ n = 1 /\ i = 2
      <3> HIDE DEF n
      <3> QED BY <1>1, <1>8, SMT
    <2>2. Len(Assemble(t, r.v, pc).ws) = 1
      <3>1. fitsin(r.v, 23) /\ t.cond = ALWAYS
        <4>1. 1 # 2  BY SMT
        <4> HIDE DEF n
        <4> QED BY <1>2, <1>8, <2>1, <4>1
      <3>2. 1 \in 1..2  BY SMT
      <3> QED BY <1>3, <2>1, <3>1, <3>2, Assembled
    <2>3. ~(i <= 1)  BY <2>1, SMT
    <2> QED BY <2>2, <2>3 DEF WordAt
  <1>9. ASSUME r.is, t.op = "LDI", n = 1 PROVE fitsin(r.v, 23) /\ t.cond = ALWAYS
    <2>1. 1 # 2  BY SMT
    <2> HIDE DEF n
    <2> QED BY <1>2, <1>9, <2>1
  <1> HIDE DEF n, ws
  <1>10. /\ ws \in Seq(Int) /\ Len(ws) = n /\ n \in 1..most
         /\ ~r.is => n = most /\ \A i \in 1..n : ws[i] = DEFAULT_LINE
         /\ r.is => /\ \A i \in 1..n : ws[i] = WordAt(t, r.v, pc, i)
                    /\ \A i \in 1..most : i > n => WordAt(t, r.v, pc, i) = DEFAULT_LINE
                    /\ t.op = "LDI" /\ n = 1 => fitsin(r.v, 23) /\ t.cond = ALWAYS
    BY <1>1, <1>5, <1>7, <1>8, <1>9
  <1> QED BY <1>10 DEF n, ws

(* Sequences, whatever their elements.                                     *)
IsSeq(s) == \E S : s \in Seq(S)

LEMMA Appended ==
  ASSUME NEW s, NEW x, IsSeq(s)
  PROVE  /\ IsSeq(Append(s, x)) /\ Len(s) \in Nat /\ DOMAIN s = 1..Len(s)
         /\ Len(Append(s, x)) = Len(s) + 1 /\ DOMAIN Append(s, x) = 1 .. Len(s) + 1
         /\ \A i \in 1..Len(s) : Append(s, x)[i] = s[i]
         /\ Append(s, x)[Len(s) + 1] = x
  <1>1. PICK S : s \in Seq(S)  BY DEF IsSeq
  <1> DEFINE T == S \cup {x}
  <1>2. S \subseteq T /\ x \in T  OBVIOUS
  <1> HIDE DEF T
  <1>3. s \in Seq(T)
    <2>1. s = [i \in 1..Len(s) |-> s[i]] /\ Len(s) \in Nat /\ \A i \in 1..Len(s) : s[i] \in S
      BY <1>1, SMT
    <2> QED BY <1>2, <2>1, SMT
  <1>4. Append(s, x) \in Seq(T)  BY <1>2, <1>3, SMT
  <1>5. /\ Len(s) \in Nat /\ DOMAIN s = 1..Len(s)
        /\ Len(Append(s, x)) = Len(s) + 1 /\ DOMAIN Append(s, x) = 1 .. Len(s) + 1
        /\ \A i \in 1..Len(s) : Append(s, x)[i] = s[i]
        /\ Append(s, x)[Len(s) + 1] = x
    BY <1>2, <1>3, SMT
  <1> QED BY <1>4, <1>5 DEF IsSeq

LEMMA Joined ==
  ASSUME NEW S, NEW s \in Seq(S), NEW r \in Seq(S)
  PROVE  /\ s \o r \in Seq(S) /\ Len(s \o r) = Len(s) + Len(r) /\ DOMAIN s = 1..Len(s)
         /\ Len(s) \in Nat /\ Len(r) \in Nat
         /\ \A i \in 1..Len(s) : (s \o r)[i] = s[i]
         /\ \A i \in 1..Len(r) : (s \o r)[Len(s) + i] = r[i]
  BY SMT

LEMMA Overwritten ==
  ASSUME NEW o, NEW ws, NEW pc, o \in Seq(Int), ws \in Seq(Int), pc \in Nat
  PROVE  /\ Overwrite(o, ws, pc) \in Seq(Int) /\ Len(Overwrite(o, ws, pc)) = Len(o)
         /\ \A i \in 1..Len(o) : Overwrite(o, ws, pc)[i] =
              IF i - pc \in 1..Len(ws) THEN ws[i - pc] ELSE o[i]
  <1>1. DOMAIN o = 1..Len(o) /\ DOMAIN ws = 1..Len(ws) /\ Len(o) \in Nat  BY SMT
  <1> DEFINE q == [i \in 1..Len(o) |-> IF i - pc \in 1..Len(ws) THEN ws[i - pc] ELSE o[i]]
  <1>2. Overwrite(o, ws, pc) = q  BY <1>1 DEF Overwrite
  <1>3. \A i \in 1..Len(o) : q[i] \in Int
    <2>1. \A i \in 1..Len(o) : o[i] \in Int  BY SMT
    <2>2. \A i \in 1..Len(ws) : ws[i] \in Int  BY SMT
    <2> QED BY <2>1, <2>2
  <1>4. q \in Seq(Int) /\ Len(q) = Len(o)
    <2>1. q = [i \in 1..Len(o) |-> q[i]]  OBVIOUS
    <2> HIDE DEF q
    <2> QED BY <1>1, <1>3, <2>1, SMT
  <1> QED BY <1>2, <1>4

-----------------------------------------------------------------------------
(* What is assumed of the evaluation, and where the expressions are from:  *)
(* a line fills its address in, a tree has a number as its value or is not *)
(* known yet, and asking leaves the global labels, which are numbers,      *)
(* alone.  A recursion without end is not forgotten; and unless there is   *)
(* one, asking again gives the same answer.                                *)
Numbers == {Number(v) : v \in Int}
Tables(Names, Trees) ==
  [file : Seq([name : Names, val : Trees]), glob : Seq([name : Names, val : Numbers]),
   deep : BOOLEAN]

Evaluation(Names, Exprs, Trees) ==
  /\ Numbers \subseteq Trees
  /\ \A e \in Exprs, pc \in Nat : AtLine(e, pc) \in Trees
  /\ \A e \in Trees, c \in Tables(Names, Trees) :
       /\ Evaluate(e, c) \in [c : Tables(Names, Trees), is : BOOLEAN, v : Int]
       /\ Evaluate(e, c).c.glob = c.glob
       /\ c.deep => Evaluate(e, c).c.deep
       /\ LET again == Evaluate(e, Evaluate(e, c).c)
          IN  ~again.c.deep => again.is = Evaluate(e, c).is /\ again.v = Evaluate(e, c).v

LineWithin(line, Names, Exprs) ==
  /\ line.lab \in Names \cup {NoLabel}
  /\ line.body.k = "op" => line.body.e \in Exprs
  /\ line.body.k = "equ" => line.body.id \in Names /\ line.body.e \in Exprs
  /\ line.body.k = "word" => line.body.es \in Seq(Exprs)
  /\ line.body.k = "fill" => line.body.n \in Exprs /\ line.body.e \in Exprs

SourcesWithin(Names, Exprs) ==
  \A s \in Sources : \A f \in DOMAIN s : \A l \in DOMAIN s[f] : LineWithin(s[f][l], Names, Exprs)

(* An answer of the evaluation                                             *)
Answer(r, c, Names, Trees) ==
  /\ r.c \in Tables(Names, Trees) /\ r.c.glob = c.glob /\ r.is \in BOOLEAN /\ r.v \in Int

LEMMA Answers ==
  ASSUME NEW Names, NEW Exprs, NEW Trees, Evaluation(Names, Exprs, Trees),
         NEW e \in Trees, NEW c \in Tables(Names, Trees)
  PROVE  /\ Answer(Evaluate(e, c), c, Names, Trees)
         /\ c.deep => Evaluate(e, c).c.deep
  <1>1. /\ Evaluate(e, c) \in [c : Tables(Names, Trees), is : BOOLEAN, v : Int]
        /\ Evaluate(e, c).c.glob = c.glob
        /\ c.deep => Evaluate(e, c).c.deep
    BY DEF Evaluation
  <1> QED BY <1>1 DEF Answer

(* The same tree asked for again                                           *)
SameAnswer(r, q) == r.is = q.is /\ r.v = q.v

LEMMA AnsweredAgain ==
  ASSUME NEW Names, NEW Exprs, NEW Trees, Evaluation(Names, Exprs, Trees),
         NEW e \in Trees, NEW c \in Tables(Names, Trees), NEW r, NEW again,
         r = Evaluate(e, c), again = Evaluate(e, r.c), ~again.c.deep
  PROVE  SameAnswer(again, r)
  <1>1. LET q == Evaluate(e, Evaluate(e, c).c)
        IN  ~q.c.deep => q.is = Evaluate(e, c).is /\ q.v = Evaluate(e, c).v
    BY DEF Evaluation
  <1> QED BY <1>1 DEF SameAnswer

LEMMA SameLength ==
  ASSUME NEW t, NEW r, NEW q, SameAnswer(r, q)
  PROVE  nlines(t, r) = nlines(t, q)
  BY DEF SameAnswer, nlines

ListRead(obj, c, Names, Trees) ==
  \E ws \in Seq(Int), d \in Tables(Names, Trees) : obj = Done(ws, {}, d) /\ d.glob = c.glob

LEMMA WordLineIs ==
  ASSUME NEW Names, NEW Exprs, NEW Trees, Evaluation(Names, Exprs, Trees),
         NEW es, NEW pc, NEW c, es \in Seq(Exprs), pc \in Nat, c \in Tables(Names, Trees)
  PROVE  ListRead(WordLine(es, pc, c), c, Names, Trees)
  <1> DEFINE V == {r \in [c : Tables(Names, Trees), is : BOOLEAN, v : Int] : r.c.glob = c.glob}
             m == Len(es)
             a == [c |-> c, is |-> TRUE, v |-> 0]
             G == [p \in (1..m) \X V |-> Evaluate(AtLine(es[p[1]], pc), p[2].c)]
  <1>1. m \in Nat /\ \A i \in 1..m : es[i] \in Exprs  BY SMT
  <1>2. \A i \in 1..m, r \in V : Evaluate(AtLine(es[i], pc), r.c) \in V
    <2> SUFFICES ASSUME NEW i \in 1..m, NEW r \in V PROVE Evaluate(AtLine(es[i], pc), r.c) \in V
      OBVIOUS
    <2>1. es[i] \in Exprs  BY <1>1
    <2>2. AtLine(es[i], pc) \in Trees  BY <2>1 DEF Evaluation
    <2>3. r.c \in Tables(Names, Trees) /\ r.c.glob = c.glob  OBVIOUS
    <2>4. /\ Evaluate(AtLine(es[i], pc), r.c) \in [c : Tables(Names, Trees), is : BOOLEAN, v : Int]
          /\ Evaluate(AtLine(es[i], pc), r.c).c.glob = c.glob
      BY <2>2, <2>3 DEF Evaluation
    <2> QED BY <2>4
  <1>3. a \in V  BY SMT
  <1> HIDE DEF V, a, m
  <1>4. G \in [(1..m) \X V -> V]
    <2> SUFFICES ASSUME NEW p \in (1..m) \X V PROVE Evaluate(AtLine(es[p[1]], pc), p[2].c) \in V
      OBVIOUS
    <2>1. p[1] \in 1..m /\ p[2] \in V  OBVIOUS
    <2> QED BY <1>2, <2>1
  <1>5. PICK q : q \in [0..m -> V] /\ q = [i \in 0..m |-> IF i = 0 THEN a ELSE G[<<i, q[i-1]>>]]
    <2> HIDE DEF G
    <2>1. \E q : Builds(q, V, a, m, G)  BY <1>1, <1>3, <1>4, Primitive
    <2> QED BY <2>1 DEF Builds
  <1> DEFINE Step(g) == [n \in 0..m |-> IF n = 0 THEN a ELSE Evaluate(AtLine(es[n], pc), g[n-1].c)]
             read == CHOOSE g : g = Step(g)
  <1>6. q = Step(q)
    <2>1. \A n \in 0..m : n # 0 => G[<<n, q[n-1]>>] = Evaluate(AtLine(es[n], pc), q[n-1].c)
      <3> SUFFICES ASSUME NEW n \in 0..m, n # 0
                   PROVE  G[<<n, q[n-1]>>] = Evaluate(AtLine(es[n], pc), q[n-1].c)
        OBVIOUS
      <3>1. n \in 1..m /\ n - 1 \in 0..m  BY <1>1, SMT
      <3>2. <<n, q[n-1]>> \in (1..m) \X V  BY <1>5, <3>1
      <3> QED BY <3>2
    <2> HIDE DEF G
    <2> QED BY <1>5, <2>1
  <1>7. read = Step(read)
    <2> HIDE DEF Step
    <2> QED BY <1>6
  <1>8. \A n \in 0..m : read[n] = IF n = 0 THEN a ELSE Evaluate(AtLine(es[n], pc), read[n-1].c)
    <2> HIDE DEF read
    <2> QED BY <1>7
  <1> DEFINE kept == Cardinality({n \in 1..m : \A i \in n..m : read[i].is})
             void == IF 0 < kept /\ kept < m THEN <<DEFAULT_LINE>> ELSE <<>>
             ws == void \o [i \in 1..kept |-> read[m - kept + i].v]
  <1>9. WordLine(es, pc, c) = Done(ws, {}, read[m].c)  BY DEF WordLine, m, a
  <1> HIDE DEF read
  <1>10. \A n \in 0..m : read[n] \in V
    <2> DEFINE Good == {n \in Nat : n <= m => read[n] \in V}
    <2>1. 0 \in Good
      <3>1. 0 \in 0..m  BY <1>1, SMT
      <3> QED BY <1>3, <1>8, <3>1
    <2>2. ASSUME NEW n \in Nat, n \in Good PROVE n + 1 \in Good
      <3> SUFFICES ASSUME n + 1 <= m PROVE read[n + 1] \in V
        OBVIOUS
      <3>1. n <= m /\ n + 1 \in 0..m /\ n + 1 \in 1..m /\ n + 1 # 0 /\ (n + 1) - 1 = n
        BY <1>1, SMT
      <3>2. read[n] \in V  BY <2>2, <3>1
      <3>3. read[n + 1] = Evaluate(AtLine(es[n + 1], pc), read[n].c)  BY <1>8, <3>1
      <3> QED BY <1>2, <3>1, <3>2, <3>3
    <2> HIDE DEF Good
    <2>3. Nat \subseteq Good  BY <2>1, <2>2, SetInduction
    <2>4. \A n \in 0..m : n \in Nat /\ n <= m  BY <1>1, SMT
    <2> QED BY <2>3, <2>4 DEF Good
  <1>11. kept \in 0..m
    <2> DEFINE K == {n \in 1..m : \A i \in n..m : read[i].is}
    <2>1. K \subseteq 1..m  OBVIOUS
    <2> HIDE DEF K
    <2>2. IsFiniteSet(1..m) /\ Cardinality(1..m) = m
      <3>1. 1 \in Int /\ m \in Int  BY <1>1, SMT
      <3>2. Cardinality(1..m) = IF 1 > m THEN 0 ELSE m - 1 + 1  BY <3>1, FS_Interval
      <3> QED BY <1>1, <3>1, <3>2, FS_Interval, SMT
    <2>3. IsFiniteSet(K) /\ Cardinality(K) <= Cardinality(1..m)  BY <2>1, <2>2, FS_Subset
    <2>4. Cardinality(K) \in Nat  BY <2>3, FS_CardinalityType
    <2>5. Cardinality(K) \in 0..m  BY <1>1, <2>2, <2>3, <2>4, SMT
    <2> QED BY <2>5 DEF K
  <1> HIDE DEF kept
  <1>12. ws \in Seq(Int)
    <2>1. DEFAULT_LINE \in Int  BY MadeFixed DEF DEFAULT_LINE
    <2>2. void \in Seq(Int)
      <3>1. <<DEFAULT_LINE>> \in Seq(Int) /\ << >> \in Seq(Int)  BY <2>1, SMT
      <3> QED BY <3>1
    <2> DEFINE tail == [i \in 1..kept |-> read[m - kept + i].v]
    <2>3. \A i \in 1..kept : tail[i] \in Int
      <3> SUFFICES ASSUME NEW i \in 1..kept PROVE read[m - kept + i].v \in Int
        OBVIOUS
      <3>1. m - kept + i \in 0..m  BY <1>1, <1>11, SMT
      <3>2. read[m - kept + i] \in V  BY <1>10, <3>1
      <3> QED BY <3>2 DEF V
    <2>4. tail \in Seq(Int)
      <3>1. tail = [i \in 1..kept |-> tail[i]]  OBVIOUS
      <3>2. kept \in Nat  BY <1>1, <1>11, SMT
      <3> HIDE DEF tail
      <3> QED BY <2>3, <3>1, <3>2, SMT
    <2> HIDE DEF void, tail
    <2>5. void \o tail \in Seq(Int)  BY <2>2, <2>4, Joined
    <2> QED BY <2>5 DEF tail
  <1>13. read[m].c \in Tables(Names, Trees) /\ read[m].c.glob = c.glob
    <2>1. m \in 0..m  BY <1>1, SMT
    <2>2. read[m] \in V  BY <1>10, <2>1
    <2> QED BY <2>2 DEF V
  <1> HIDE DEF ws
  <1> QED BY <1>9, <1>12, <1>13 DEF ListRead

-----------------------------------------------------------------------------
(* The inductive invariant.                                                *)
Given(Names, Exprs, Trees) == Evaluation(Names, Exprs, Trees) /\ SourcesWithin(Names, Exprs)

LineEntry == [f : Nat, l : Nat, addr : Nat, n : Nat, value : SUBSET Int]

TypeOK(Names, Trees) ==
  /\ src \in Sources /\ at \in Nat \X Nat /\ at[1] \in DOMAIN src /\ at[2] # 0
  /\ ctx \in Tables(Names, Trees)
  /\ out \in Seq(Int) /\ placed \in Seq(LineEntry) /\ IsSeq(m_tbl) /\ reduced \in Nat

(* The counters are the length of the file; that of the parser, as long as *)
(* the evaluation comes to an end.                                         *)
Counters == m_pc = Len(out) /\ (phase # "overflow" => global_parser_pc = Len(out))

(* The lines lie in the file one behind the other, each at its own place   *)
(* of the source, which the parser has passed.                             *)
Place(p) == <<p.f, p.l>>
Passed(p) == p.f < at[1] \/ (p.f = at[1] /\ p.l < at[2])
Layout ==
  /\ \A k \in 1..Len(placed) : /\ Place(placed[k]) \in Places /\ Passed(placed[k])
                               /\ placed[k].addr + placed[k].n <= Len(out)
  /\ \A j \in 1..Len(placed), k \in 1..Len(placed) :
       j < k => /\ placed[j].addr + placed[j].n <= placed[k].addr
                /\ Place(placed[j]) # Place(placed[k])

(* Every instruction is in the file, or a reserved place is.               *)
Text(p) == At(Place(p)).body
Held ==
  phase # "overflow" =>
    \A k \in 1..Len(placed) :
      Text(placed[k]).k = "op" => HeldIn(placed[k], Text(placed[k]).t, out)

(* A saved line is that of its place; one that has not been looked at again *)
(* still waits; and no line is saved twice.                                *)
SavedFor(s, p) ==
  /\ Text(p).k = "op" /\ s.t = Text(p).t /\ s.m_pc = p.addr
SavedLines(Trees) ==
  /\ \A m \in 1..Len(m_tbl) : /\ m_tbl[m].line \in 1..Len(placed) /\ m_tbl[m].e \in Trees
                              /\ SavedFor(m_tbl[m], placed[m_tbl[m].line])
                              /\ m > reduced => placed[m_tbl[m].line].value = {}
  /\ \A m \in 1..Len(m_tbl), q \in 1..Len(m_tbl) : m < q => m_tbl[m].line < m_tbl[q].line

(* A global label is that of a line, with its address.                     *)
Globals ==
  \A i \in 1..Len(ctx.glob) :
    \E k \in 1..Len(placed) : /\ At(Place(placed[k])).lab = ctx.glob[i].name
                              /\ ctx.glob[i].val = Number(placed[k].addr)

ZasmInv(Names, Trees) ==
  TypeOK(Names, Trees) /\ Counters /\ Layout /\ Held /\ SavedLines(Trees) /\ Globals

LEMMA SourceLines ==
  ASSUME NEW s \in Sources
  PROVE  /\ Len(s) \in Nat \ {0} /\ DOMAIN s = 1..Len(s)
         /\ \A f \in 1..Len(s) : /\ Len(s[f]) \in Nat /\ DOMAIN s[f] = 1..Len(s[f])
                                 /\ \A l \in 1..Len(s[f]) :
                                      s[f][l].body.k = "op" => Statement(s[f][l].body.t)
  BY SourcesAssumption

LEMMA InitInv ==
  ASSUME NEW Names, NEW Trees, Init
  PROVE  ZasmInv(Names, Trees)
  <1> USE DEF Init
  <1>1. TypeOK(Names, Trees)
    <2>1. at \in Nat \X Nat /\ at[1] = 1 /\ at[2] = 1 /\ 1 # 0  BY SMT
    <2>2. 1 \in DOMAIN src
      <3>1. Len(src) \in Nat \ {0} /\ DOMAIN src = 1..Len(src)  BY SourceLines
      <3> QED BY <3>1, SMT
    <2>3. ctx \in Tables(Names, Trees)  BY SMT DEF Tables
    <2>4. out \in Seq(Int) /\ placed \in Seq(LineEntry) /\ m_tbl \in Seq({}) /\ reduced \in Nat
      BY SMT
    <2> QED BY <2>1, <2>2, <2>3, <2>4 DEF TypeOK, IsSeq
  <1>2. Len(placed) = 0 /\ Len(m_tbl) = 0 /\ Len(ctx.glob) = 0 /\ Len(out) = 0  BY SMT
  <1>3. 1..0 = {}  BY SMT
  <1>4. Counters  BY <1>2 DEF Counters
  <1> QED BY <1>1, <1>2, <1>3, <1>4 DEF ZasmInv, Layout, Held, SavedLines, Globals

LEMMA CounterHere ==
  ASSUME NEW Names, NEW Trees, TypeOK(Names, Trees), Counters, NEW kind, Here(kind)
  PROVE  m_pc \in Nat /\ global_parser_pc = m_pc /\ phase = "parse"
  <1>1. phase = "parse" /\ phase # "overflow"  BY DEF Here
  <1>2. Len(out) \in Nat
    <2>1. out \in Seq(Int)  BY DEF TypeOK
    <2> QED BY <2>1, SMT
  <1> QED BY <1>1, <1>2 DEF Counters

(* A line that the parser reads                                            *)
LEMMA LineHere ==
  ASSUME NEW Names, NEW Exprs, NEW Trees, Given(Names, Exprs, Trees), TypeOK(Names, Trees),
         NEW kind, Here(kind)
  PROVE  /\ LineWithin(Line, Names, Exprs) /\ Line.body.k = kind
         /\ kind = "op" => Statement(Line.body.t)
         /\ at = <<at[1], at[2]>> /\ at \in Places /\ Line = At(at)
  <1>1. /\ src \in Sources /\ at \in Nat \X Nat /\ at[1] \in DOMAIN src /\ at[2] # 0
        /\ at[2] <= Len(src[at[1]]) /\ Line.body.k = kind
    BY DEF TypeOK, Here
  <1>2. DOMAIN src = 1..Len(src) /\ at[1] \in 1..Len(src)  BY <1>1, SourceLines
  <1>3. Len(src[at[1]]) \in Nat /\ DOMAIN src[at[1]] = 1..Len(src[at[1]])
    BY <1>1, <1>2, SourceLines
  <1>4. at[2] \in 1..Len(src[at[1]])
    <2>1. at[2] \in Nat  BY <1>1
    <2> QED BY <1>1, <1>3, <2>1, SMT
  <1>5. at = <<at[1], at[2]>>  BY <1>1
  <1>6. at \in Places  BY <1>1, <1>3, <1>4, <1>5 DEF Places
  <1>7. LineWithin(Line, Names, Exprs)
    BY <1>1, <1>3, <1>4 DEF Given, SourcesWithin, Line
  <1>8. kind = "op" => Statement(Line.body.t)
    BY <1>1, <1>2, <1>4, SourceLines DEF Line
  <1> QED BY <1>1, <1>5, <1>6, <1>7, <1>8 DEF Line, At

(* What an object handed to the file is: a line with its words, or an      *)
(* instruction that waits for its value.                                   *)
Object(obj, Names, Trees) ==
  /\ obj.c \in Tables(Names, Trees) /\ obj.c.glob = ctx.glob /\ obj.known \in BOOLEAN
  /\ obj.known => /\ obj.ws \in Seq(Int) /\ obj.value \in SUBSET Int
                  /\ Line.body.k = "op" =>
                       \E v \in Int : /\ obj.value = {v}
                                      /\ obj.ws = Assemble(Line.body.t, v, m_pc).ws
  /\ ~obj.known => Line.body.k = "op" /\ obj.t = Line.body.t /\ obj.e \in Trees

LEMMA DoneObject ==
  ASSUME NEW Names, NEW Trees, NEW ws \in Seq(Int), NEW d \in Tables(Names, Trees),
         d.glob = ctx.glob, Line.body.k # "op"
  PROVE  Object(Done(ws, {}, d), Names, Trees)
  <1>1. /\ Done(ws, {}, d).c = d /\ Done(ws, {}, d).known = TRUE /\ Done(ws, {}, d).ws = ws
        /\ Done(ws, {}, d).value = {}
    BY DEF Done
  <1> QED BY <1>1 DEF Object

LEMMA OpObject ==
  ASSUME NEW Names, NEW Exprs, NEW Trees, Given(Names, Exprs, Trees), TypeOK(Names, Trees),
         Counters, Here("op")
  PROVE  Object(OpLine(Line.body, global_parser_pc, m_pc, ctx), Names, Trees)
  <1> DEFINE e == AtLine(Line.body.e, global_parser_pc)
             r == Evaluate(e, ctx)
             t == Line.body.t
             obj == OpLine(Line.body, global_parser_pc, m_pc, ctx)
  <1>1. /\ LineWithin(Line, Names, Exprs) /\ Line.body.k = "op" /\ Statement(t)
    BY LineHere
  <1>2. m_pc \in Nat /\ global_parser_pc \in Nat  BY CounterHere
  <1>3. e \in Trees
    <2>1. Line.body.e \in Exprs  BY <1>1 DEF LineWithin
    <2> QED BY <1>2, <2>1 DEF Given, Evaluation
  <1>4. Answer(r, ctx, Names, Trees)
    <2>1. ctx \in Tables(Names, Trees)  BY DEF TypeOK
    <2> HIDE DEF e
    <2> QED BY <1>3, <2>1, Answers DEF Given
  <1>5. obj = IF r.is THEN Done(Assemble(t, r.v, m_pc).ws, {r.v}, r.c)
              ELSE [known |-> FALSE, t |-> t, e |-> e, c |-> r.c]
    BY DEF OpLine
  <1> HIDE DEF e, r, t, obj
  <1>6. r.c \in Tables(Names, Trees) /\ r.c.glob = ctx.glob /\ r.is \in BOOLEAN /\ r.v \in Int
    BY <1>4 DEF Answer
  <1>7. CASE r.is
    <2>1. /\ obj.c = r.c /\ obj.known = TRUE /\ obj.ws = Assemble(t, r.v, m_pc).ws
          /\ obj.value = {r.v}
      BY <1>5, <1>7 DEF Done
    <2>2. Assemble(t, r.v, m_pc).ws \in Seq(Int)
      <3>1. Legal(t, r.v, m_pc)  BY <1>1, <1>2, <1>6 DEF Legal
      <3> QED BY <3>1, Assembled
    <2>3. obj.known \in BOOLEAN /\ obj.known /\ obj.value \in SUBSET Int  BY <1>6, <2>1
    <2>4. \E v \in Int : obj.value = {v} /\ obj.ws = Assemble(Line.body.t, v, m_pc).ws
      BY <1>6, <2>1 DEF t
    <2>5. obj.c \in Tables(Names, Trees) /\ obj.c.glob = ctx.glob /\ obj.ws \in Seq(Int)
      BY <1>6, <2>1, <2>2
    <2>6. Object(obj, Names, Trees)  BY <2>3, <2>4, <2>5 DEF Object
    <2> QED BY <2>6 DEF obj
  <1>8. CASE ~r.is
    <2>1. obj.c = r.c /\ obj.known = FALSE /\ obj.t = t /\ obj.e = e  BY <1>5, <1>8
    <2>2. obj.known \in BOOLEAN /\ ~obj.known  BY <2>1
    <2>3. obj.t = Line.body.t  BY <2>1 DEF t
    <2>4. obj.c \in Tables(Names, Trees) /\ obj.c.glob = ctx.glob /\ obj.e \in Trees
      BY <1>3, <1>6, <2>1
    <2>5. Object(obj, Names, Trees)  BY <1>1, <2>2, <2>3, <2>4 DEF Object
    <2> QED BY <2>5 DEF obj
  <1> QED BY <1>7, <1>8 DEF obj

LEMMA DataObject ==
  ASSUME NEW Names, NEW Exprs, NEW Trees, Given(Names, Exprs, Trees), TypeOK(Names, Trees),
         Counters
  PROVE  /\ Here("word") => Object(WordLine(Line.body.es, global_parser_pc, ctx), Names, Trees)
         /\ Here("fill") => Object(FillLine(Line.body, global_parser_pc, ctx), Names, Trees)
  <1>1. ctx \in Tables(Names, Trees)  BY DEF TypeOK
  <1>0. ASSUME NEW kind, Here(kind) PROVE global_parser_pc \in Nat  BY <1>0, CounterHere
  <1>2. ASSUME Here("word") PROVE Object(WordLine(Line.body.es, global_parser_pc, ctx), Names, Trees)
    <2>0. global_parser_pc \in Nat  BY <1>0, <1>2
    <2>1. LineWithin(Line, Names, Exprs) /\ Line.body.k = "word"  BY <1>2, LineHere
    <2>2. Line.body.es \in Seq(Exprs)  BY <2>1 DEF LineWithin
    <2>3. PICK ws \in Seq(Int), d \in Tables(Names, Trees) :
            WordLine(Line.body.es, global_parser_pc, ctx) = Done(ws, {}, d) /\ d.glob = ctx.glob
      <3>1. Evaluation(Names, Exprs, Trees)  BY DEF Given
      <3>2. ListRead(WordLine(Line.body.es, global_parser_pc, ctx), ctx, Names, Trees)
        BY <1>1, <2>0, <2>2, <3>1, WordLineIs
      <3> QED BY <3>2 DEF ListRead
    <2>4. Line.body.k # "op"  BY <2>1
    <2> QED BY <2>3, <2>4, DoneObject
  <1>3. ASSUME Here("fill") PROVE Object(FillLine(Line.body, global_parser_pc, ctx), Names, Trees)
    <2> DEFINE n == Evaluate(AtLine(Line.body.n, global_parser_pc), ctx)
               r == Evaluate(AtLine(Line.body.e, global_parser_pc), n.c)
               words == [i \in 1..n.v |-> r.v]
    <2>0. global_parser_pc \in Nat  BY <1>0, <1>3
    <2>1. LineWithin(Line, Names, Exprs) /\ Line.body.k = "fill"  BY <1>3, LineHere
    <2>2. AtLine(Line.body.n, global_parser_pc) \in Trees /\ AtLine(Line.body.e, global_parser_pc) \in Trees
      <3>1. Line.body.n \in Exprs /\ Line.body.e \in Exprs  BY <2>1 DEF LineWithin
      <3> QED BY <2>0, <3>1 DEF Given, Evaluation
    <2>3. n.c \in Tables(Names, Trees) /\ n.c.glob = ctx.glob /\ n.v \in Int
      <3>1. Answer(n, ctx, Names, Trees)  BY <1>1, <2>2, Answers DEF Given
      <3> QED BY <3>1 DEF Answer
    <2>4. FillLine(Line.body, global_parser_pc, ctx)
            = IF n.is /\ r.is THEN Done(words, {}, r.c) ELSE Done(<<>>, {}, r.c)
      BY DEF FillLine
    <2> HIDE DEF n
    <2>5. r.c \in Tables(Names, Trees) /\ r.c.glob = ctx.glob /\ r.v \in Int
      <3>1. Answer(r, n.c, Names, Trees)  BY <2>2, <2>3, Answers DEF Given
      <3> QED BY <2>3, <3>1 DEF Answer
    <2> HIDE DEF r
    <2>6. words \in Seq(Int)
      <3> DEFINE m == IF n.v > 0 THEN n.v ELSE 0
      <3>1. m \in Nat /\ 1..n.v = 1..m  BY <2>3, SMT
      <3> HIDE DEF m
      <3>2. words = [i \in 1..m |-> r.v]  BY <3>1
      <3> HIDE DEF words
      <3> QED BY <2>5, <3>1, <3>2, SMT
    <2>7. << >> \in Seq(Int) /\ Line.body.k # "op"
      <3>1. << >> \in Seq(Int)  BY SMT
      <3> QED BY <2>1, <3>1
    <2> HIDE DEF words
    <2>8. Object(Done(words, {}, r.c), Names, Trees)  BY <2>5, <2>6, <2>7, DoneObject
    <2>9. Object(Done(<<>>, {}, r.c), Names, Trees)  BY <2>5, <2>7, DoneObject
    <2> QED BY <2>4, <2>8, <2>9
  <1> QED BY <1>2, <1>3

(* The label before a line                                                 *)
Prepended(g, tab, x) ==
  /\ Len(g) = Len(tab) + 1 /\ Len(tab) \in Nat /\ g[1] = x
  /\ \A i \in 1 .. Len(tab) + 1 : i # 1 => i - 1 \in 1..Len(tab) /\ g[i] = tab[i - 1]

LEMMA Defined ==
  ASSUME NEW Names, NEW V, NEW tab, NEW key, NEW val,
         tab \in Seq([name : Names, val : V]), key \in Names, val \in V
  PROVE  /\ define(tab, key, val) \in Seq([name : Names, val : V])
         /\ Prepended(define(tab, key, val), tab, [name |-> key, val |-> val])
  <1> DEFINE E == [name : Names, val : V]
             x == [name |-> key, val |-> val]
  <1>1. x \in E /\ tab \in Seq(E)  OBVIOUS
  <1>2. define(tab, key, val) = << x >> \o tab  BY DEF define
  <1> HIDE DEF E, x
  <1>3. << x >> \in Seq(E) /\ Len(<< x >>) = 1 /\ << x >>[1] = x  BY <1>1, SMT
  <1>4. /\ << x >> \o tab \in Seq(E) /\ Len(<< x >> \o tab) = 1 + Len(tab) /\ Len(tab) \in Nat
        /\ (<< x >> \o tab)[1] = x
        /\ \A i \in 1..Len(tab) : (<< x >> \o tab)[1 + i] = tab[i]
    <2>1. 1 \in 1..1  BY SMT
    <2> QED BY <1>1, <1>3, <2>1, Joined
  <1>5. ASSUME NEW i \in 1 .. Len(tab) + 1, i # 1
        PROVE  i - 1 \in 1..Len(tab) /\ (<< x >> \o tab)[i] = tab[i - 1]
    <2>1. i - 1 \in 1..Len(tab) /\ 1 + (i - 1) = i  BY <1>4, <1>5, SMT
    <2> QED BY <1>4, <2>1
  <1>6. Len(<< x >> \o tab) = Len(tab) + 1  BY <1>4, SMT
  <1>7. Prepended(<< x >> \o tab, tab, x)  BY <1>4, <1>5, <1>6 DEF Prepended
  <1> QED BY <1>2, <1>4, <1>7 DEF E, x

Marked(c, d, Names, Trees) ==
  /\ c \in Tables(Names, Trees)
  /\ \/ c.glob = d.glob
     \/ Line.lab \in Names /\ c.glob = define(d.glob, Line.lab, Number(global_parser_pc))

LEMMA LabelledIs ==
  ASSUME NEW Names, NEW Trees, NEW c, c \in Tables(Names, Trees), Numbers \subseteq Trees,
         Line.lab \in Names \cup {NoLabel}, global_parser_pc \in Int
  PROVE  Marked(Labelled(Line.lab, c), c, Names, Trees)
  <1> DEFINE num == Number(global_parser_pc)
             mine == define(c.file, Line.lab, num)
             ours == define(c.glob, Line.lab, num)
  <1>1. num \in Numbers /\ num \in Trees  BY DEF Numbers
  <1>2. /\ c.file \in Seq([name : Names, val : Trees]) /\ c.glob \in Seq([name : Names, val : Numbers])
        /\ c.deep \in BOOLEAN /\ c = [file |-> c.file, glob |-> c.glob, deep |-> c.deep]
    BY DEF Tables
  <1>3. CASE Line.lab = NoLabel
    <2>1. Labelled(Line.lab, c) = c  BY <1>3, NoLabelAssumption DEF Labelled
    <2> QED BY <2>1 DEF Marked
  <1>4. CASE Line.lab # NoLabel /\ Line.lab \in LocalNames
    <2>1. Labelled(Line.lab, c) = [c EXCEPT !.file = mine]  BY <1>4 DEF Labelled
    <2>2. mine \in Seq([name : Names, val : Trees])  BY <1>1, <1>2, <1>4, Defined
    <2> HIDE DEF mine
    <2>3. [c EXCEPT !.file = mine] = [file |-> mine, glob |-> c.glob, deep |-> c.deep]
      BY <1>2
    <2>4. /\ [c EXCEPT !.file = mine] \in Tables(Names, Trees)
          /\ [c EXCEPT !.file = mine].glob = c.glob
      BY <1>2, <2>2, <2>3 DEF Tables
    <2> QED BY <2>1, <2>4 DEF Marked
  <1>5. CASE Line.lab # NoLabel /\ Line.lab \notin LocalNames
    <2>1. Labelled(Line.lab, c) = [c EXCEPT !.glob = ours]  BY <1>5 DEF Labelled
    <2>2. ours \in Seq([name : Names, val : Numbers])  BY <1>1, <1>2, <1>5, Defined
    <2>3. Line.lab \in Names /\ ours = define(c.glob, Line.lab, Number(global_parser_pc))
      BY <1>5
    <2> HIDE DEF ours
    <2>4. [c EXCEPT !.glob = ours] = [file |-> c.file, glob |-> ours, deep |-> c.deep]
      BY <1>2
    <2>5. /\ [c EXCEPT !.glob = ours] \in Tables(Names, Trees)
          /\ [c EXCEPT !.glob = ours].glob = ours
      BY <1>2, <2>2, <2>4 DEF Tables
    <2> QED BY <2>1, <2>3, <2>5 DEF Marked
  <1> QED BY <1>3, <1>4, <1>5

(* The words of a line that is added, as the file has them                 *)
MadeFor(p, t, ws) ==
  \/ \E v \in Int : p.value = {v} /\ ws = Assemble(t, v, p.addr).ws
  \/ \E r : /\ r.v \in Int /\ r.is \in BOOLEAN /\ ws = TWords(nlines(t, r), t, r, p.addr)
            /\ p.value = IF r.is THEN {r.v} ELSE {}

LEMMA HeldAdded ==
  ASSUME NEW p, NEW t, NEW o, NEW ws, Statement(t), p.addr \in Nat, p.n = Len(ws),
         \A i \in 1..Len(ws) : o[p.addr + i] = ws[i], MadeFor(p, t, ws)
  PROVE  HeldIn(p, t, o)
  <1>1. CASE \E v \in Int : p.value = {v} /\ ws = Assemble(t, v, p.addr).ws
    <2>1. PICK v \in Int : p.value = {v} /\ ws = Assemble(t, v, p.addr).ws  BY <1>1
    <2>2. Legal(t, v, p.addr)  BY <2>1 DEF Legal
    <2>3. \A i \in 1..p.n : o[p.addr + i] = WordAt(t, v, p.addr, i)
      <3> SUFFICES ASSUME NEW i \in 1..p.n PROVE o[p.addr + i] = WordAt(t, v, p.addr, i)
        OBVIOUS
      <3>1. Len(ws) \in Nat  BY <2>1, <2>2, Assembled, SMT
      <3>2. i <= Len(ws) /\ i \in 1..Len(ws)  BY <3>1, SMT
      <3> QED BY <2>1, <3>2 DEF WordAt
    <2>4. t.op = "LDI" /\ p.n = 1 => fitsin(v, 23) /\ t.cond = ALWAYS
      <3>1. t.op = "LDI" => p.n = IF fitsin(v, 23) /\ t.cond = ALWAYS THEN 1 ELSE 2
        BY <2>1, <2>2, Assembled
      <3>2. 1 # 2  BY SMT
      <3> QED BY <3>1, <3>2
    <2> QED BY <2>1, <2>3, <2>4 DEF HeldIn, Resolved
  <1>2. CASE \E r : /\ r.v \in Int /\ r.is \in BOOLEAN /\ ws = TWords(nlines(t, r), t, r, p.addr)
                    /\ p.value = IF r.is THEN {r.v} ELSE {}
    <2>1. PICK r : /\ r.v \in Int /\ r.is \in BOOLEAN /\ ws = TWords(nlines(t, r), t, r, p.addr)
                   /\ p.value = IF r.is THEN {r.v} ELSE {}
      BY <1>2
    <2>2. /\ p.n = nlines(t, r)
          /\ ~r.is => /\ nlines(t, r) = (IF t.op = "LDI" THEN 2 ELSE 1)
                      /\ \A i \in 1..nlines(t, r) : TWords(nlines(t, r), t, r, p.addr)[i] = DEFAULT_LINE
          /\ r.is => /\ \A i \in 1..nlines(t, r) :
                          TWords(nlines(t, r), t, r, p.addr)[i] = WordAt(t, r.v, p.addr, i)
                     /\ t.op = "LDI" /\ nlines(t, r) = 1 => fitsin(r.v, 23) /\ t.cond = ALWAYS
      BY <2>1, TWordsAre
    <2>3. CASE r.is
      <3>1. \A i \in 1..p.n : o[p.addr + i] = WordAt(t, r.v, p.addr, i)  BY <2>1, <2>2, <2>3
      <3> QED BY <2>1, <2>2, <2>3, <3>1 DEF HeldIn, Resolved
    <2>4. CASE ~r.is
      <3>1. \A i \in 1..p.n : o[p.addr + i] = DEFAULT_LINE  BY <2>1, <2>2, <2>4
      <3> QED BY <2>1, <2>2, <2>4, <3>1 DEF HeldIn, Awaited
    <2> QED BY <2>3, <2>4
  <1> QED BY <1>1, <1>2 DEF MadeFor

(* What adding a line does to the state                                    *)
NewLine(n, value) == [f |-> at[1], l |-> at[2], addr |-> m_pc, n |-> n, value |-> value]

Grown(ws, value, Names, Trees) ==
  /\ phase = "parse" /\ ws \in Seq(Int) /\ value \in SUBSET Int
  /\ out' = out \o ws /\ m_pc' = m_pc + Len(ws)
  /\ phase' # "overflow" => global_parser_pc' = global_parser_pc + Len(ws)
  /\ placed' = Append(placed, NewLine(Len(ws), value))
  /\ at' = <<at[1], at[2] + 1>> /\ src' = src /\ reduced' = reduced
  /\ Marked(ctx', ctx, Names, Trees)
  /\ phase' # "overflow" /\ Line.body.k = "op" =>
       MadeFor(NewLine(Len(ws), value), Line.body.t, ws)
  /\ \/ m_tbl' = m_tbl
     \/ \E s : /\ m_tbl' = Append(m_tbl, s) /\ s.line = Len(placed) + 1 /\ s.e \in Trees
               /\ Line.body.k = "op" /\ s.t = Line.body.t /\ s.m_pc = m_pc /\ value = {}

(* A line that waits for its value, asked for its length, for its words,   *)
(* and for its length once more: unless a recursion has no end, with the   *)
(* same answer.                                                            *)
Asked(obj, c, Names, Trees, first, r, again, left) ==
  /\ first.c.glob = c.glob /\ first.n \in {1, 2} /\ again.n \in {1, 2}
  /\ Answer(r, first.c, Names, Trees)
  /\ left \in Tables(Names, Trees) /\ left.glob = c.glob
  /\ ~left.deep => first.n = nlines(obj.t, r) /\ again.n = first.n

LEMMA AskedIs ==
  ASSUME NEW Names, NEW Exprs, NEW Trees, Evaluation(Names, Exprs, Trees),
         NEW obj, NEW c, ~obj.known, obj.e \in Trees, c \in Tables(Names, Trees),
         NEW first, NEW r, NEW again, NEW left,
         first = Counted(obj, c), r = Evaluate(obj.e, first.c),
         again = CountedAgain(obj, r.c), left = Evaluate(obj.e, again.c).c
  PROVE  Asked(obj, c, Names, Trees, first, r, again, left)
  <1>1. CASE obj.t.op = "LDI"
    <2> DEFINE q == Evaluate(obj.e, c)
               s == Evaluate(obj.e, r.c)
    <2>1. first.n = nlines(obj.t, q) /\ first.c = q.c  BY <1>1 DEF Counted
    <2>2. again.n = nlines(obj.t, s) /\ again.c = s.c  BY <1>1 DEF CountedAgain, Counted
    <2>3. Answer(q, c, Names, Trees)  BY Answers
    <2> HIDE DEF q
    <2>4. q.c \in Tables(Names, Trees) /\ q.c.glob = c.glob  BY <2>3 DEF Answer
    <2>5. r = Evaluate(obj.e, q.c)  BY <2>1
    <2>6. Answer(r, q.c, Names, Trees)  BY <2>4, <2>5, Answers
    <2>7. r.c \in Tables(Names, Trees) /\ r.c.glob = c.glob  BY <2>4, <2>6 DEF Answer
    <2>8. Answer(s, r.c, Names, Trees) /\ (r.c.deep => s.c.deep)  BY <2>7, Answers
    <2>9. s.c \in Tables(Names, Trees) /\ s.c.glob = c.glob  BY <2>7, <2>8 DEF Answer
    <2>10. /\ Answer(Evaluate(obj.e, s.c), s.c, Names, Trees)
           /\ s.c.deep => Evaluate(obj.e, s.c).c.deep
      BY <2>9, Answers
    <2>11. ASSUME ~left.deep
           PROVE  nlines(obj.t, q) = nlines(obj.t, r) /\ nlines(obj.t, s) = nlines(obj.t, r)
      <3>1. ~s.c.deep /\ ~r.c.deep  BY <2>2, <2>8, <2>10, <2>11
      <3>2. SameAnswer(s, r)  BY <2>4, <2>5, <3>1, AnsweredAgain
      <3>3. SameAnswer(r, q)  BY <2>5, <3>1, AnsweredAgain DEF q
      <3> QED BY <3>2, <3>3, SameLength
    <2> HIDE DEF s
    <2>12. nlines(obj.t, q) \in {1, 2} /\ nlines(obj.t, s) \in {1, 2}  BY DEF nlines
    <2>13. left \in Tables(Names, Trees) /\ left.glob = c.glob
      BY <2>2, <2>9, <2>10 DEF Answer
    <2> QED BY <2>1, <2>2, <2>4, <2>6, <2>11, <2>12, <2>13 DEF Asked
  <1>2. CASE obj.t.op # "LDI"
    <2>1. first.n = 1 /\ first.c = c /\ again.n = 1 /\ again.c = r.c
      BY <1>2 DEF CountedAgain, Counted
    <2>2. Answer(r, c, Names, Trees)  BY <2>1, Answers
    <2>3. r.c \in Tables(Names, Trees) /\ r.c.glob = c.glob  BY <2>2 DEF Answer
    <2>4. Answer(Evaluate(obj.e, r.c), r.c, Names, Trees)  BY <2>3, Answers
    <2>5. left \in Tables(Names, Trees) /\ left.glob = c.glob
      BY <2>1, <2>3, <2>4 DEF Answer
    <2>6. nlines(obj.t, r) = 1  BY <1>2 DEF nlines
    <2> QED BY <2>1, <2>2, <2>5, <2>6 DEF Asked
  <1> QED BY <1>1, <1>2

LEMMA Added ==
  ASSUME NEW Names, NEW Exprs, NEW Trees, Given(Names, Exprs, Trees), TypeOK(Names, Trees),
         Counters, NEW kind, Here(kind), NEW obj, Object(obj, Names, Trees), Add(obj)
  PROVE  \E ws, value : Grown(ws, value, Names, Trees)
  <1> DEFINE c == Labelled(Line.lab, obj.c)
             first == Counted(obj, c)
             r == IF obj.known THEN [c |-> first.c, is |-> TRUE, v |-> 0]
                  ELSE Evaluate(obj.e, first.c)
             again == CountedAgain(obj, r.c)
             left == IF obj.known THEN again.c ELSE Evaluate(obj.e, again.c).c
             ws == IF obj.known THEN obj.ws ELSE TWords(first.n, obj.t, r, m_pc)
             value == IF obj.known THEN obj.value ELSE IF r.is THEN {r.v} ELSE {}
             saved == [m_pc |-> m_pc, t |-> obj.t, e |-> obj.e, line |-> Len(placed) + 1]
  <1>1. /\ out' = out \o ws
        /\ m_tbl' = (IF r.is THEN m_tbl ELSE Append(m_tbl, saved))
        /\ m_pc' = m_pc + first.n
        /\ global_parser_pc' = global_parser_pc + again.n
        /\ placed' = Append(placed, NewLine(first.n, value))
        /\ at' = <<at[1], at[2] + 1>>
        /\ ctx' = left /\ phase' = (IF left.deep THEN "overflow" ELSE phase)
        /\ src' = src /\ reduced' = reduced
    BY DEF Add, Settle, NewLine
  <1>2. /\ LineWithin(Line, Names, Exprs) /\ Line.body.k = kind
        /\ kind = "op" => Statement(Line.body.t)
    BY LineHere
  <1>3. m_pc \in Nat /\ global_parser_pc = m_pc /\ global_parser_pc \in Int /\ phase = "parse"
    <2>1. m_pc \in Nat /\ global_parser_pc = m_pc /\ phase = "parse"  BY CounterHere
    <2> QED BY <2>1, SMT
  <1>4. /\ obj.c \in Tables(Names, Trees) /\ obj.c.glob = ctx.glob /\ obj.known \in BOOLEAN
    BY DEF Object
  <1>5. Marked(c, obj.c, Names, Trees)
    <2>1. Line.lab \in Names \cup {NoLabel}  BY <1>2 DEF LineWithin
    <2>2. Numbers \subseteq Trees  BY DEF Given, Evaluation
    <2> QED BY <1>3, <1>4, <2>1, <2>2, LabelledIs
  <1> HIDE DEF c
  <1>6. c \in Tables(Names, Trees)  BY <1>5 DEF Marked
  <1>7. ASSUME ~obj.known PROVE Asked(obj, c, Names, Trees, first, r, again, left)
    <2>1. obj.e \in Trees  BY <1>7 DEF Object
    <2>2. r = Evaluate(obj.e, first.c) /\ left = Evaluate(obj.e, again.c).c  BY <1>7
    <2> HIDE DEF first, r, again, left
    <2> QED BY <1>6, <1>7, <2>1, <2>2, AskedIs DEF Given, first, again
  <1>8. ASSUME obj.known
        PROVE  /\ first.n = Len(obj.ws) /\ again.n = Len(obj.ws) /\ left = c /\ r.is = TRUE
    BY <1>8 DEF Counted, CountedAgain
  <1>9. Marked(left, ctx, Names, Trees)
    <2>1. left \in Tables(Names, Trees) /\ left.glob = c.glob
      BY <1>6, <1>7, <1>8 DEF Asked
    <2> HIDE DEF left
    <2> QED BY <1>4, <1>5, <2>1 DEF Marked
  <1> HIDE DEF first, r, again, left
  <1>10. ASSUME obj.known
         PROVE  /\ ws \in Seq(Int) /\ value \in SUBSET Int /\ Len(ws) = first.n
                /\ again.n = first.n
                /\ Line.body.k = "op" => MadeFor(NewLine(Len(ws), value), Line.body.t, ws)
    <2>1. ws = obj.ws /\ value = obj.value  BY <1>10
    <2>2. /\ ws \in Seq(Int) /\ value \in SUBSET Int
          /\ Line.body.k = "op" => \E v \in Int : /\ value = {v}
                                                  /\ ws = Assemble(Line.body.t, v, m_pc).ws
      BY <1>10, <2>1 DEF Object
    <2>3. Len(ws) = first.n /\ again.n = first.n  BY <1>8, <1>10, <2>1
    <2> HIDE DEF ws, value
    <2>4. NewLine(Len(ws), value).value = value /\ NewLine(Len(ws), value).addr = m_pc
      BY DEF NewLine
    <2> QED BY <2>2, <2>3, <2>4 DEF MadeFor
  <1>11. ASSUME ~obj.known
         PROVE  /\ ws \in Seq(Int) /\ value \in SUBSET Int /\ Len(ws) = first.n
                /\ Line.body.k = "op"
                /\ ~left.deep => /\ again.n = first.n
                                 /\ MadeFor(NewLine(Len(ws), value), Line.body.t, ws)
                /\ ~r.is => value = {}
    <2>1. Line.body.k = "op" /\ obj.t = Line.body.t  BY <1>11 DEF Object
    <2>2. /\ r.v \in Int /\ r.is \in BOOLEAN /\ first.n \in {1, 2}
          /\ ~left.deep => first.n = nlines(obj.t, r) /\ again.n = first.n
      BY <1>7, <1>11 DEF Answer, Asked
    <2>3. ws = TWords(first.n, Line.body.t, r, m_pc) /\ value = IF r.is THEN {r.v} ELSE {}
      BY <1>11, <2>1
    <2> HIDE DEF ws, value
    <2>4. ws \in Seq(Int) /\ Len(ws) = first.n
      <3>1. Statement(Line.body.t)  BY <1>2, <2>1
      <3>2. TWords(first.n, Line.body.t, r, m_pc) \in Seq(Int)
            /\ Len(TWords(first.n, Line.body.t, r, m_pc)) = first.n
        BY <1>3, <2>2, <3>1, TWordsTyped
      <3> QED BY <2>3, <3>2
    <2>5. NewLine(Len(ws), value).value = value /\ NewLine(Len(ws), value).addr = m_pc
      BY DEF NewLine
    <2>6. ASSUME ~left.deep PROVE MadeFor(NewLine(Len(ws), value), Line.body.t, ws)
      <3>1. ws = TWords(nlines(Line.body.t, r), Line.body.t, r, m_pc)
        BY <2>1, <2>2, <2>3, <2>6
      <3> QED BY <2>2, <2>3, <2>5, <3>1 DEF MadeFor
    <2> QED BY <2>1, <2>2, <2>3, <2>4, <2>6
  <1>12. \/ m_tbl' = m_tbl
         \/ /\ m_tbl' = Append(m_tbl, saved) /\ Line.body.k = "op" /\ obj.t = Line.body.t
            /\ obj.e \in Trees /\ value = {}
    <2>1. CASE obj.known  BY <1>1, <1>8, <2>1
    <2>2. CASE ~obj.known /\ r.is  BY <1>1, <2>2
    <2>3. CASE ~obj.known /\ ~r.is  BY <1>1, <1>11, <2>3 DEF Object
    <2> QED BY <2>1, <2>2, <2>3
  <1> HIDE DEF ws, value
  <1>13. \/ m_tbl' = m_tbl
         \/ \E s : /\ m_tbl' = Append(m_tbl, s) /\ s.line = Len(placed) + 1 /\ s.e \in Trees
                   /\ Line.body.k = "op" /\ s.t = Line.body.t /\ s.m_pc = m_pc /\ value = {}
    <2>1. saved.line = Len(placed) + 1 /\ saved.e = obj.e /\ saved.t = obj.t /\ saved.m_pc = m_pc
      OBVIOUS
    <2> HIDE DEF saved
    <2> QED BY <1>12, <2>1
  <1>14. ws \in Seq(Int) /\ value \in SUBSET Int /\ first.n = Len(ws)
    BY <1>10, <1>11
  <1>15. ASSUME phase' # "overflow"
         PROVE  /\ global_parser_pc' = global_parser_pc + Len(ws)
                /\ Line.body.k = "op" => MadeFor(NewLine(Len(ws), value), Line.body.t, ws)
    <2>1. ~left.deep  BY <1>1, <1>15
    <2>2. again.n = Len(ws)  BY <1>10, <1>11, <1>14, <2>1
    <2> QED BY <1>1, <1>10, <1>11, <2>1, <2>2
  <1>16. Marked(ctx', ctx, Names, Trees)
    <2>1. ctx' = left  BY <1>1
    <2> QED BY <1>9, <2>1
  <1>17. Grown(ws, value, Names, Trees)
    BY <1>1, <1>3, <1>13, <1>14, <1>15, <1>16 DEF Grown
  <1> QED BY <1>17

LEMMA LineTyped ==
  ASSUME NEW Names, NEW Trees, TypeOK(Names, Trees), NEW k \in 1..Len(placed)
  PROVE  /\ placed[k] \in LineEntry /\ placed[k].f \in Nat /\ placed[k].l \in Nat
         /\ placed[k].addr \in Nat /\ placed[k].n \in Nat /\ placed[k].value \in SUBSET Int
  <1>1. placed[k] \in LineEntry
    <2>1. placed \in Seq(LineEntry)  BY DEF TypeOK
    <2> QED BY <2>1, SMT
  <1> QED BY <1>1 DEF LineEntry

(* What it does to the sequences                                           *)
LEMMA GrownSequences ==
  ASSUME NEW Names, NEW Exprs, NEW Trees, Given(Names, Exprs, Trees), TypeOK(Names, Trees),
         Counters, NEW kind, Here(kind), NEW ws, NEW value, Grown(ws, value, Names, Trees)
  PROVE  /\ Len(out) \in Nat /\ Len(ws) \in Nat /\ Len(placed) \in Nat
         /\ out' \in Seq(Int) /\ Len(out') = Len(out) + Len(ws)
         /\ \A i \in 1..Len(out) : out'[i] = out[i]
         /\ \A i \in 1..Len(ws) : out'[Len(out) + i] = ws[i]
         /\ placed' \in Seq(LineEntry) /\ Len(placed') = Len(placed) + 1
         /\ \A k \in 1..Len(placed) : placed'[k] = placed[k]
         /\ placed'[Len(placed) + 1] = NewLine(Len(ws), value)
  <1>1. ws \in Seq(Int) /\ value \in SUBSET Int /\ out' = out \o ws
        /\ placed' = Append(placed, NewLine(Len(ws), value))
    BY DEF Grown
  <1>2. out \in Seq(Int) /\ placed \in Seq(LineEntry) /\ at \in Nat \X Nat  BY DEF TypeOK
  <1>3. Len(out) \in Nat /\ Len(ws) \in Nat /\ m_pc \in Nat /\ Len(placed) \in Nat
    BY <1>1, <1>2, SMT DEF Counters
  <1>4. NewLine(Len(ws), value) \in LineEntry
    BY <1>1, <1>2, <1>3 DEF NewLine, LineEntry
  <1>5. /\ out' \in Seq(Int) /\ Len(out') = Len(out) + Len(ws)
        /\ \A i \in 1..Len(out) : out'[i] = out[i]
        /\ \A i \in 1..Len(ws) : out'[Len(out) + i] = ws[i]
    BY <1>1, <1>2, Joined
  <1>6. /\ placed' \in Seq(LineEntry) /\ Len(placed') = Len(placed) + 1
        /\ \A k \in 1..Len(placed) : placed'[k] = placed[k]
        /\ placed'[Len(placed) + 1] = NewLine(Len(ws), value)
    <2> DEFINE x == NewLine(Len(ws), value)
    <2>1. x \in LineEntry /\ placed' = Append(placed, x)  BY <1>1, <1>4
    <2> HIDE DEF x
    <2>2. /\ placed' \in Seq(LineEntry) /\ Len(placed') = Len(placed) + 1
          /\ \A k \in 1..Len(placed) : placed'[k] = placed[k]
          /\ placed'[Len(placed) + 1] = x
      BY <1>2, <2>1, SMT
    <2> QED BY <2>2 DEF x
  <1> QED BY <1>3, <1>5, <1>6

LEMMA GrownType ==
  ASSUME NEW Names, NEW Exprs, NEW Trees, Given(Names, Exprs, Trees), TypeOK(Names, Trees),
         Counters, NEW kind, Here(kind), NEW ws, NEW value, Grown(ws, value, Names, Trees)
  PROVE  TypeOK(Names, Trees)' /\ Counters'
  <1>1. /\ at' = <<at[1], at[2] + 1>> /\ src' = src /\ reduced' = reduced
        /\ ctx' \in Tables(Names, Trees)
        /\ m_pc' = m_pc + Len(ws)
        /\ phase' # "overflow" => global_parser_pc' = global_parser_pc + Len(ws)
        /\ m_tbl' = m_tbl \/ \E s : m_tbl' = Append(m_tbl, s)
    BY DEF Grown, Marked
  <1>2. /\ src \in Sources /\ at \in Nat \X Nat /\ at[1] \in DOMAIN src /\ IsSeq(m_tbl)
        /\ reduced \in Nat
    BY DEF TypeOK
  <1>3. at' \in Nat \X Nat /\ at'[1] = at[1] /\ at'[2] # 0
    <2>1. at[1] \in Nat /\ at[2] \in Nat  BY <1>2
    <2>2. at[2] + 1 \in Nat /\ at[2] + 1 # 0  BY <2>1, SMT
    <2> QED BY <1>1, <2>1, <2>2
  <1>4. IsSeq(m_tbl')
    <2>1. ASSUME NEW s PROVE IsSeq(Append(m_tbl, s))  BY <1>2, Appended
    <2> QED BY <1>1, <1>2, <2>1
  <1>5. TypeOK(Names, Trees)'
    BY <1>1, <1>2, <1>3, <1>4, GrownSequences DEF TypeOK, IsSeq
  <1>6. Counters'
    <2>1. Len(out') = Len(out) + Len(ws)  BY GrownSequences
    <2>2. global_parser_pc = m_pc  BY CounterHere
    <2> QED BY <1>1, <2>1, <2>2 DEF Counters
  <1> QED BY <1>5, <1>6

LEMMA GrownLayout ==
  ASSUME NEW Names, NEW Exprs, NEW Trees, Given(Names, Exprs, Trees), TypeOK(Names, Trees),
         Counters, NEW kind, Here(kind), NEW ws, NEW value, Grown(ws, value, Names, Trees),
         Layout
  PROVE  Layout'
  <1> DEFINE x == NewLine(Len(ws), value)
             n == Len(placed)
  <1>1. /\ Len(out) \in Nat /\ Len(ws) \in Nat /\ n \in Nat
        /\ Len(out') = Len(out) + Len(ws) /\ Len(placed') = n + 1
        /\ \A k \in 1..n : placed'[k] = placed[k]
        /\ placed'[n + 1] = x
    BY GrownSequences
  <1>2. at' = <<at[1], at[2] + 1>> /\ src' = src /\ m_pc = Len(out)  BY DEF Grown, Counters
  <1>3. at[1] \in Nat /\ at[2] \in Nat  BY DEF TypeOK
  <1>4. at = <<at[1], at[2]>> /\ at \in Places  BY LineHere
  <1>5. Places' = Places  BY <1>2 DEF Places
  <1>6. x.f = at[1] /\ x.l = at[2] /\ x.addr = Len(out) /\ x.n = Len(ws)  BY <1>2 DEF NewLine
  <1> HIDE DEF x
  <1>7. \A k \in 1..n : /\ Place(placed[k]) \in Places /\ Passed(placed[k])
                        /\ placed[k].addr + placed[k].n <= Len(out)
    BY DEF Layout
  <1>8. \A k \in 1..n : /\ placed[k].f \in Nat /\ placed[k].l \in Nat
                        /\ placed[k].addr \in Nat /\ placed[k].n \in Nat
    BY LineTyped
  <1> DEFINE ok(p) == /\ Place(p) \in Places
                      /\ p.f < at'[1] \/ (p.f = at'[1] /\ p.l < at'[2])
                      /\ p.addr + p.n <= Len(out')
  <1>9. \A k \in 1..n : ok(placed[k])
    <2> SUFFICES ASSUME NEW k \in 1..n PROVE ok(placed[k])
      OBVIOUS
    <2>1. placed[k].f < at[1] \/ (placed[k].f = at[1] /\ placed[k].l < at[2])
      BY <1>7 DEF Passed
    <2>2. placed[k].f < at'[1] \/ (placed[k].f = at'[1] /\ placed[k].l < at'[2])
      BY <1>2, <1>3, <1>8, <2>1, SMT
    <2>3. placed[k].addr + placed[k].n <= Len(out')  BY <1>1, <1>7, <1>8, SMT
    <2> QED BY <1>7, <2>2, <2>3
  <1>10. ok(x)
    <2>1. Place(x) = at  BY <1>4, <1>6 DEF Place
    <2>2. x.f = at'[1] /\ x.l < at'[2] /\ x.addr + x.n <= Len(out')
      BY <1>1, <1>2, <1>3, <1>6, SMT
    <2> QED BY <1>4, <2>1, <2>2
  <1>11. ASSUME NEW k \in 1 .. n + 1
         PROVE  k \in 1..n \/ k = n + 1
    BY <1>1, SMT
  <1>12. \A k \in 1 .. n + 1 : ok(placed'[k])
    <2> HIDE DEF ok, n
    <2> QED BY <1>1, <1>9, <1>10, <1>11
  <1>13. ASSUME NEW j \in 1 .. n + 1, NEW k \in 1 .. n + 1, j < k
         PROVE  /\ placed'[j].addr + placed'[j].n <= placed'[k].addr
                /\ Place(placed'[j]) # Place(placed'[k])
    <2>1. j \in 1..n /\ placed'[j] = placed[j]  BY <1>1, <1>13, SMT
    <2>2. CASE k \in 1..n
      <3>1. placed'[k] = placed[k]  BY <1>1, <2>2
      <3> QED BY <1>13, <2>1, <2>2, <3>1 DEF Layout
    <2>3. CASE k = n + 1
      <3>1. placed'[k] = x  BY <1>1, <2>3
      <3>2. placed[j].addr + placed[j].n <= x.addr  BY <1>6, <1>7, <2>1
      <3>3. Place(placed[j]) # Place(x)
        <4>1. placed[j].f # at[1] \/ placed[j].l # at[2]
          <5>1. placed[j].f < at[1] \/ (placed[j].f = at[1] /\ placed[j].l < at[2])
            BY <1>7, <2>1 DEF Passed
          <5>2. placed[j].f \in Nat /\ placed[j].l \in Nat  BY <1>8, <2>1
          <5> QED BY <1>3, <5>1, <5>2, SMT
        <4> QED BY <1>6, <4>1 DEF Place
      <3> QED BY <2>1, <3>1, <3>2, <3>3
    <2> QED BY <1>11, <2>2, <2>3
  <1>14. \A k \in 1 .. n + 1 :
           /\ Place(placed'[k]) \in Places
           /\ placed'[k].f < at'[1] \/ (placed'[k].f = at'[1] /\ placed'[k].l < at'[2])
           /\ placed'[k].addr + placed'[k].n <= Len(out')
    BY <1>12
  <1> HIDE DEF n, ok
  <1> QED BY <1>1, <1>5, <1>13, <1>14 DEF Layout, Passed, Place

LEMMA GrownHeld ==
  ASSUME NEW Names, NEW Exprs, NEW Trees, Given(Names, Exprs, Trees), TypeOK(Names, Trees),
         Counters, NEW kind, Here(kind), NEW ws, NEW value, Grown(ws, value, Names, Trees),
         Layout, Held
  PROVE  Held'
  <1> SUFFICES ASSUME phase' # "overflow" PROVE Held'
    BY DEF Held
  <1> DEFINE x == NewLine(Len(ws), value)
             n == Len(placed)
  <1>0. phase # "overflow"  BY DEF Here
  <1>1. /\ Len(out) \in Nat /\ Len(ws) \in Nat /\ n \in Nat
        /\ Len(out') = Len(out) + Len(ws) /\ Len(placed') = n + 1
        /\ \A i \in 1..Len(out) : out'[i] = out[i]
        /\ \A i \in 1..Len(ws) : out'[Len(out) + i] = ws[i]
        /\ \A k \in 1..n : placed'[k] = placed[k]
        /\ placed'[n + 1] = x
    BY GrownSequences
  <1>2. src' = src /\ m_pc = Len(out)  BY DEF Grown, Counters
  <1>3. at = <<at[1], at[2]>> /\ Line = At(at) /\ (Line.body.k = "op" => Statement(Line.body.t))
    BY LineHere
  <1>4. /\ x.addr = m_pc /\ x.n = Len(ws) /\ Place(x) = at
    BY <1>3 DEF NewLine, Place
  <1>5. Line.body.k = "op" => MadeFor(x, Line.body.t, ws)  BY DEF Grown
  <1> HIDE DEF x
  <1>6. ASSUME NEW k \in 1..n, Text(placed[k]).k = "op"
        PROVE  HeldIn(placed[k], Text(placed[k]).t, out')
    <2>1. HeldIn(placed[k], Text(placed[k]).t, out)  BY <1>0, <1>6 DEF Held
    <2>2. placed[k].addr + placed[k].n <= Len(out)  BY DEF Layout
    <2>3. placed[k].addr \in Nat /\ placed[k].n \in Nat  BY LineTyped
    <2>4. \A i \in 1..placed[k].n : out'[placed[k].addr + i] = out[placed[k].addr + i]
      <3> SUFFICES ASSUME NEW i \in 1..placed[k].n
                   PROVE  out'[placed[k].addr + i] = out[placed[k].addr + i]
        OBVIOUS
      <3>1. placed[k].addr + i \in 1..Len(out)  BY <1>1, <2>2, <2>3, SMT
      <3> QED BY <1>1, <3>1
    <2> QED BY <2>1, <2>4, HeldAgrees
  <1>7. ASSUME Text(x).k = "op" PROVE HeldIn(x, Text(x).t, out')
    <2>1. Text(x) = Line.body  BY <1>3, <1>4 DEF Text
    <2>2. Statement(Line.body.t) /\ MadeFor(x, Line.body.t, ws)  BY <1>3, <1>5, <1>7, <2>1
    <2>3. x.addr \in Nat /\ x.n = Len(ws) /\ \A i \in 1..Len(ws) : out'[x.addr + i] = ws[i]
      BY <1>1, <1>2, <1>4
    <2>4. HeldIn(x, Line.body.t, out')  BY <2>2, <2>3, HeldAdded
    <2> QED BY <2>1, <2>4
  <1>8. ASSUME NEW k \in 1 .. n + 1, Text(placed'[k]).k = "op"
        PROVE  HeldIn(placed'[k], Text(placed'[k]).t, out')
    <2>1. CASE k \in 1..n  BY <1>1, <1>6, <1>8, <2>1
    <2>2. CASE k = n + 1  BY <1>1, <1>7, <1>8, <2>2
    <2>3. k \in 1..n \/ k = n + 1  BY <1>1, SMT
    <2> QED BY <2>1, <2>2, <2>3
  <1> HIDE DEF n
  <1>9. \A k \in 1..Len(placed') : Text(placed'[k]).k = "op" =>
          HeldIn(placed'[k], Text(placed'[k]).t, out')
    BY <1>1, <1>8, Zenon
  <1> QED BY <1>2, <1>9 DEF Held, Text, At, Place

LEMMA GrownSaved ==
  ASSUME NEW Names, NEW Exprs, NEW Trees, Given(Names, Exprs, Trees), TypeOK(Names, Trees),
         Counters, NEW kind, Here(kind), NEW ws, NEW value, Grown(ws, value, Names, Trees),
         SavedLines(Trees)
  PROVE  SavedLines(Trees)'
  <1> DEFINE x == NewLine(Len(ws), value)
             n == Len(placed)
             saved(m, s, p) == /\ s.e \in Trees /\ SavedFor(s, p)
                               /\ m > reduced => p.value = {}
  <1>1. /\ n \in Nat /\ Len(placed') = n + 1
        /\ \A k \in 1..n : placed'[k] = placed[k]
        /\ placed'[n + 1] = x
    BY GrownSequences
  <1>2. src' = src /\ reduced' = reduced  BY DEF Grown
  <1>3. at = <<at[1], at[2]>> /\ Line = At(at)  BY LineHere
  <1>4. x.addr = m_pc /\ x.value = value /\ Place(x) = at  BY <1>3 DEF NewLine, Place
  <1>5. IsSeq(m_tbl)  BY DEF TypeOK
  <1>6. /\ \A m \in 1..Len(m_tbl) : /\ m_tbl[m].line \in 1..n
                                    /\ saved(m, m_tbl[m], placed[m_tbl[m].line])
        /\ \A m \in 1..Len(m_tbl), q \in 1..Len(m_tbl) : m < q => m_tbl[m].line < m_tbl[q].line
    BY DEF SavedLines
  <1>7. Text(x) = Line.body  BY <1>3, <1>4 DEF Text
  <1> HIDE DEF x, n
  <1>8. /\ \A m \in 1..Len(m_tbl') : /\ m_tbl'[m].line \in 1 .. n + 1
                                     /\ saved(m, m_tbl'[m], placed'[m_tbl'[m].line])
        /\ \A m \in 1..Len(m_tbl'), q \in 1..Len(m_tbl') :
             m < q => m_tbl'[m].line < m_tbl'[q].line
    <2>1. \A k \in 1..n : k \in 1 .. n + 1 /\ k < n + 1 /\ placed'[k] = placed[k]
      BY <1>1, SMT
    <2>2. CASE m_tbl' = m_tbl
      <3> HIDE DEF saved
      <3> QED BY <1>6, <2>1, <2>2
    <2>3. CASE \E s : /\ m_tbl' = Append(m_tbl, s) /\ s.line = n + 1 /\ s.e \in Trees
                      /\ Line.body.k = "op" /\ s.t = Line.body.t /\ s.m_pc = m_pc /\ value = {}
      <3>1. PICK s : /\ m_tbl' = Append(m_tbl, s) /\ s.line = n + 1 /\ s.e \in Trees
                     /\ Line.body.k = "op" /\ s.t = Line.body.t /\ s.m_pc = m_pc /\ value = {}
        BY <2>3
      <3>2. /\ Len(m_tbl) \in Nat /\ Len(m_tbl') = Len(m_tbl) + 1
            /\ \A i \in 1..Len(m_tbl) : m_tbl'[i] = m_tbl[i]
            /\ m_tbl'[Len(m_tbl) + 1] = s
        BY <1>5, <3>1, Appended
      <3>3. SavedFor(s, x) /\ x.value = {}  BY <1>4, <1>7, <3>1 DEF SavedFor
      <3>4. \A m \in 1..Len(m_tbl') : m \in 1..Len(m_tbl) \/ m = Len(m_tbl) + 1
        BY <3>2, SMT
      <3>5. n + 1 \in 1 .. n + 1  BY <1>1, SMT
      <3>6. ASSUME NEW m \in 1..Len(m_tbl')
            PROVE  /\ m_tbl'[m].line \in 1 .. n + 1
                   /\ saved(m, m_tbl'[m], placed'[m_tbl'[m].line])
        <4>1. CASE m \in 1..Len(m_tbl)
          <5>1. m_tbl'[m] = m_tbl[m] /\ m_tbl[m].line \in 1..n  BY <1>6, <3>2, <4>1
          <5>2. placed'[m_tbl[m].line] = placed[m_tbl[m].line]  BY <2>1, <5>1
          <5> HIDE DEF saved
          <5> QED BY <1>6, <2>1, <4>1, <5>1, <5>2
        <4>2. CASE m = Len(m_tbl) + 1
          <5>1. m_tbl'[m] = s /\ placed'[s.line] = x  BY <1>1, <3>1, <3>2, <4>2
          <5> QED BY <3>1, <3>3, <3>5, <5>1
        <4> QED BY <3>4, <4>1, <4>2
      <3>7. ASSUME NEW m \in 1..Len(m_tbl'), NEW q \in 1..Len(m_tbl'), m < q
            PROVE  m_tbl'[m].line < m_tbl'[q].line
        <4>1. m \in 1..Len(m_tbl)  BY <3>2, <3>7, SMT
        <4>2. CASE q \in 1..Len(m_tbl)  BY <1>6, <3>2, <3>7, <4>1, <4>2
        <4>3. CASE q = Len(m_tbl) + 1
          <5>1. m_tbl'[q].line = n + 1  BY <3>1, <3>2, <4>3
          <5>2. m_tbl'[m].line \in 1..n  BY <1>6, <3>2, <4>1
          <5> QED BY <2>1, <5>1, <5>2
        <4> QED BY <3>4, <4>2, <4>3
      <3> QED BY <3>6, <3>7
    <2> QED BY <2>2, <2>3 DEF Grown, n
  <1> QED BY <1>1, <1>2, <1>8 DEF SavedLines, SavedFor, Text, At, Place

LEMMA GrownGlobals ==
  ASSUME NEW Names, NEW Exprs, NEW Trees, Given(Names, Exprs, Trees), TypeOK(Names, Trees),
         Counters, NEW kind, Here(kind), NEW ws, NEW value, Grown(ws, value, Names, Trees),
         Globals
  PROVE  Globals'
  <1> DEFINE x == NewLine(Len(ws), value)
             n == Len(placed)
             of(entry, p) == At(Place(p)).lab = entry.name /\ entry.val = Number(p.addr)
  <1>1. /\ n \in Nat /\ Len(placed') = n + 1
        /\ \A k \in 1..n : placed'[k] = placed[k]
        /\ placed'[n + 1] = x
    BY GrownSequences
  <1>2. src' = src /\ Marked(ctx', ctx, Names, Trees)  BY DEF Grown
  <1>3. at = <<at[1], at[2]>> /\ Line = At(at)  BY LineHere
  <1>4. x.addr = global_parser_pc /\ Place(x) = at  BY <1>3, CounterHere DEF NewLine, Place
  <1> HIDE DEF x
  <1>5. \A i \in 1..Len(ctx.glob) : \E k \in 1..n : of(ctx.glob[i], placed[k])
    BY DEF Globals
  <1>6. \A entry : (\E k \in 1..n : of(entry, placed[k])) =>
                     \E k \in 1 .. n + 1 : of(entry, placed'[k])
    <2>1. \A k \in 1..n : k \in 1 .. n + 1 /\ placed'[k] = placed[k]  BY <1>1, SMT
    <2> QED BY <2>1
  <1>7. \A i \in 1..Len(ctx'.glob) : \E k \in 1 .. n + 1 : of(ctx'.glob[i], placed'[k])
    <2>1. CASE ctx'.glob = ctx.glob
      <3> HIDE DEF of, n
      <3> QED BY <1>5, <1>6, <2>1
    <2>2. CASE /\ Line.lab \in Names
               /\ ctx'.glob = define(ctx.glob, Line.lab, Number(global_parser_pc))
      <3> DEFINE num == Number(global_parser_pc)
      <3>1. ctx.glob \in Seq([name : Names, val : Numbers]) /\ num \in Numbers
        <4>1. global_parser_pc \in Nat  BY CounterHere
        <4>2. global_parser_pc \in Int  BY <4>1, SMT
        <4> QED BY <4>2 DEF TypeOK, Tables, Numbers
      <3>2. Line.lab \in Names /\ ctx'.glob = define(ctx.glob, Line.lab, num)  BY <2>2
      <3> HIDE DEF num
      <3>3. /\ Len(ctx'.glob) = Len(ctx.glob) + 1
            /\ ctx'.glob[1] = [name |-> Line.lab, val |-> num]
            /\ \A i \in 1 .. Len(ctx.glob) + 1 : i # 1 =>
                 i - 1 \in 1..Len(ctx.glob) /\ ctx'.glob[i] = ctx.glob[i - 1]
        <4>1. Prepended(define(ctx.glob, Line.lab, num), ctx.glob,
                        [name |-> Line.lab, val |-> num])
          BY <3>1, <3>2, Defined
        <4> QED BY <3>2, <4>1 DEF Prepended
      <3>4. of(ctx'.glob[1], x)
        <4>1. ctx'.glob[1].name = Line.lab /\ ctx'.glob[1].val = num  BY <3>3
        <4> QED BY <1>3, <1>4, <4>1 DEF num
      <3>5. n + 1 \in 1 .. n + 1  BY <1>1, SMT
      <3> HIDE DEF of, n
      <3> QED BY <1>1, <1>5, <1>6, <3>3, <3>4, <3>5, ZenonT(40)
    <2> QED BY <1>2, <2>1, <2>2 DEF Marked
  <1> HIDE DEF n
  <1> QED BY <1>1, <1>2, <1>7 DEF Globals, At, Place

LEMMA GrownInv ==
  ASSUME NEW Names, NEW Exprs, NEW Trees, Given(Names, Exprs, Trees), ZasmInv(Names, Trees),
         NEW kind, Here(kind), NEW obj, Object(obj, Names, Trees), Add(obj)
  PROVE  ZasmInv(Names, Trees)'
  <1>1. TypeOK(Names, Trees) /\ Counters /\ Layout /\ Held /\ SavedLines(Trees) /\ Globals
    BY DEF ZasmInv
  <1>2. PICK ws, value : Grown(ws, value, Names, Trees)  BY <1>1, Added
  <1>3. TypeOK(Names, Trees)' /\ Counters'  BY <1>1, <1>2, GrownType
  <1>4. Layout'  BY <1>1, <1>2, GrownLayout
  <1>5. Held'  BY <1>1, <1>2, GrownHeld
  <1>6. SavedLines(Trees)'  BY <1>1, <1>2, GrownSaved
  <1>7. Globals'  BY <1>1, <1>2, GrownGlobals
  <1> QED BY <1>3, <1>4, <1>5, <1>6, <1>7 DEF ZasmInv

-----------------------------------------------------------------------------
(* A saved line looked at again                                            *)
Revised(r, k, Names, Trees) ==
  /\ phase = "reduce" /\ reduced + 1 \in 1..Len(m_tbl) /\ k = m_tbl[reduced + 1].line
  /\ k \in 1..Len(placed) /\ Text(placed[k]).k = "op" /\ Statement(Text(placed[k]).t)
  /\ Awaited(placed[k], Text(placed[k]).t, out) /\ m_tbl[reduced + 1].m_pc = placed[k].addr
  /\ r.v \in Int /\ r.is \in BOOLEAN
  /\ r.c \in Tables(Names, Trees) /\ ctx' = r.c /\ r.c.glob = ctx.glob
  /\ out' = (IF r.is THEN Overwrite(out, TWords(nlines(Text(placed[k]).t, r), Text(placed[k]).t, r,
                                           placed[k].addr), placed[k].addr)
             ELSE out)
  /\ placed' = IF r.is THEN [placed EXCEPT ![k].value = {r.v}] ELSE placed
  /\ reduced' = reduced + 1 /\ src' = src /\ at' = at /\ m_tbl' = m_tbl
  /\ global_parser_pc' = global_parser_pc /\ m_pc' = m_pc

LEMMA StatementAt ==
  ASSUME src \in Sources, NEW d \in Places, At(d).body.k = "op"
  PROVE  Statement(At(d).body.t)
  <1>1. DOMAIN src = 1..Len(src)  BY SourceLines
  <1>2. PICK f \in 1..Len(src) : d \in {<<f, l>> : l \in DOMAIN src[f]}  BY <1>1 DEF Places
  <1>3. PICK l \in DOMAIN src[f] : d = <<f, l>>  BY <1>2
  <1>4. l \in 1..Len(src[f])  BY <1>2, <1>3, SourceLines
  <1>5. At(d) = src[f][l]  BY <1>3 DEF At
  <1> QED BY <1>2, <1>4, <1>5, SourceLines

LEMMA ReduceIs ==
  ASSUME NEW Names, NEW Exprs, NEW Trees, Given(Names, Exprs, Trees), ZasmInv(Names, Trees),
         Reduce
  PROVE  \E r, k : Revised(r, k, Names, Trees)
  <1> DEFINE s == m_tbl[reduced + 1]
             r == Evaluate(s.e, ctx)
             k == s.line
             t == Text(placed[k]).t
  <1>1. TypeOK(Names, Trees) /\ Layout /\ Held /\ SavedLines(Trees)  BY DEF ZasmInv
  <1>2. reduced + 1 \in 1..Len(m_tbl) /\ reduced + 1 > reduced
    <2>1. reduced \in Nat /\ IsSeq(m_tbl)  BY <1>1 DEF TypeOK
    <2>2. Len(m_tbl) \in Nat  BY <2>1, Appended
    <2>3. reduced < Len(m_tbl)  BY DEF Reduce
    <2> QED BY <2>1, <2>2, <2>3, SMT
  <1>3. /\ k \in 1..Len(placed) /\ s.e \in Trees /\ Text(placed[k]).k = "op" /\ s.t = t
        /\ s.m_pc = placed[k].addr /\ placed[k].value = {}
    BY <1>1, <1>2 DEF SavedLines, SavedFor
  <1>4. Answer(r, ctx, Names, Trees)
    <2>1. ctx \in Tables(Names, Trees)  BY <1>1 DEF TypeOK
    <2> QED BY <1>3, <2>1, Answers DEF Given
  <1>5. Statement(t)
    <2>1. src \in Sources /\ Place(placed[k]) \in Places  BY <1>1, <1>3 DEF TypeOK, Layout
    <2> QED BY <1>3, <2>1, StatementAt DEF Text
  <1>6. Awaited(placed[k], t, out)
    <2>1. HeldIn(placed[k], t, out)
      <3>1. phase # "overflow"  BY DEF Reduce
      <3> QED BY <1>1, <1>3, <3>1 DEF Held
    <2>2. ~Resolved(placed[k], t, out)  BY <1>3 DEF Resolved
    <2> QED BY <2>1, <2>2 DEF HeldIn
  <1>7. /\ out' = (IF r.is THEN Overwrite(out, TWords(nlines(s.t, r), s.t, r, s.m_pc), s.m_pc)
                 ELSE out)
        /\ placed' = (IF r.is THEN [placed EXCEPT ![k].value = {r.v}] ELSE placed)
        /\ ctx' = r.c /\ phase = "reduce"
        /\ reduced' = reduced + 1 /\ src' = src /\ at' = at /\ m_tbl' = m_tbl
        /\ global_parser_pc' = global_parser_pc /\ m_pc' = m_pc
    BY DEF Reduce, Settle
  <1>8. out' = IF r.is THEN Overwrite(out, TWords(nlines(t, r), t, r, placed[k].addr),
                                      placed[k].addr)
               ELSE out
    BY <1>3, <1>7
  <1> HIDE DEF r
  <1>9. /\ r.v \in Int /\ r.is \in BOOLEAN
        /\ r.c \in Tables(Names, Trees) /\ ctx' = r.c /\ r.c.glob = ctx.glob
    BY <1>4, <1>7 DEF Answer
  <1>10. Revised(r, k, Names, Trees)
    BY <1>2, <1>3, <1>5, <1>6, <1>7, <1>8, <1>9 DEF Revised
  <1> QED BY <1>10

(* What it does to the sequences: only NOOPs in the line's place change.   *)
LEMMA RevisedSequences ==
  ASSUME NEW Names, NEW Trees, TypeOK(Names, Trees), NEW r, NEW k,
         Revised(r, k, Names, Trees)
  PROVE  /\ out' \in Seq(Int) /\ Len(out') = Len(out) /\ Len(out) \in Nat
         /\ \A i \in 1..Len(out) :
              out'[i] # out[i] => /\ i - placed[k].addr \in 1..placed[k].n
                                  /\ out[i] = DEFAULT_LINE
         /\ placed' \in Seq(LineEntry) /\ Len(placed') = Len(placed) /\ Len(placed) \in Nat
         /\ \A j \in 1..Len(placed) : /\ placed'[j].f = placed[j].f
                                      /\ placed'[j].l = placed[j].l
                                      /\ placed'[j].addr = placed[j].addr
                                      /\ placed'[j].n = placed[j].n
                                      /\ j # k => placed'[j] = placed[j]
  <1> DEFINE p == placed[k]
             t == Text(p).t
             ws == TWords(nlines(t, r), t, r, p.addr)
  <1>1. out \in Seq(Int) /\ placed \in Seq(LineEntry) /\ k \in 1..Len(placed)
    BY DEF TypeOK, Revised
  <1>2. p \in LineEntry /\ p.addr \in Nat /\ p.n \in Nat  BY <1>1, LineTyped
  <1>3. Len(out) \in Nat /\ Len(placed) \in Nat  BY <1>1, SMT
  <1>4. /\ Statement(t) /\ r.v \in Int /\ r.is \in BOOLEAN /\ p.n = (IF t.op = "LDI" THEN 2 ELSE 1)
        /\ \A i \in 1..p.n : out[p.addr + i] = DEFAULT_LINE
    BY DEF Revised, Awaited
  <1>5. ws \in Seq(Int) /\ Len(ws) = nlines(t, r) /\ nlines(t, r) \in 1..p.n
    <2> HIDE DEF p, t
    <2>1. ws \in Seq(Int) /\ Len(ws) = nlines(t, r)  BY <1>2, <1>4, TWordsAre
    <2>2. nlines(t, r) \in 1 .. (IF t.op = "LDI" THEN 2 ELSE 1)  BY <1>2, <1>4, TWordsAre
    <2> HIDE DEF ws
    <2> QED BY <1>4, <2>1, <2>2
  <1>6. /\ out' = (IF r.is THEN Overwrite(out, ws, p.addr) ELSE out)
        /\ placed' = (IF r.is THEN [placed EXCEPT ![k].value = {r.v}] ELSE placed)
    BY DEF Revised
  <1> HIDE DEF ws, t
  <1>7. /\ out' \in Seq(Int) /\ Len(out') = Len(out)
        /\ \A i \in 1..Len(out) : out'[i] # out[i] => i - p.addr \in 1..Len(ws)
    <2>1. CASE r.is
      <3> HIDE DEF p
      <3> DEFINE a == p.addr
      <3>1. out' = Overwrite(out, ws, a) /\ ws \in Seq(Int) /\ a \in Nat
        BY <1>2, <1>5, <1>6, <2>1
      <3> HIDE DEF a
      <3>2. /\ Overwrite(out, ws, a) \in Seq(Int) /\ Len(Overwrite(out, ws, a)) = Len(out)
            /\ \A i \in 1..Len(out) : Overwrite(out, ws, a)[i] =
                 IF i - a \in 1..Len(ws) THEN ws[i - a] ELSE out[i]
        BY <1>1, <3>1, Overwritten
      <3> QED BY <3>1, <3>2 DEF a
    <2>2. CASE ~r.is  BY <1>1, <1>6, <2>2
    <2> QED BY <2>1, <2>2
  <1>8. ASSUME NEW i \in 1..Len(out), out'[i] # out[i]
        PROVE  i - p.addr \in 1..p.n /\ out[i] = DEFAULT_LINE
    <2>1. i - p.addr \in 1..Len(ws)  BY <1>7, <1>8
    <2> HIDE DEF p
    <2>2. i - p.addr \in 1..p.n /\ p.addr + (i - p.addr) = i  BY <1>2, <1>3, <1>5, <2>1, SMT
    <2> QED BY <1>4, <2>2
  <1>9. placed' \in Seq(LineEntry) /\ Len(placed') = Len(placed)
        /\ \A j \in 1..Len(placed) : placed'[j] = IF j = k /\ r.is
                                                  THEN [placed[j] EXCEPT !.value = {r.v}]
                                                  ELSE placed[j]
    <2> DEFINE x == [p EXCEPT !.value = {r.v}]
    <2>1. x \in LineEntry  BY <1>2, <1>4 DEF LineEntry
    <2>2. CASE r.is
      <3>1. placed' = [placed EXCEPT ![k] = x]  BY <1>6, <2>2
      <3>2. \A j \in 1..Len(placed) : placed'[j] = IF j = k THEN x ELSE placed[j]
        BY <1>1, <3>1, SMT
      <3> HIDE DEF x, p
      <3>3. placed' \in Seq(LineEntry) /\ Len(placed') = Len(placed)
        BY <1>1, <2>1, <3>1, SMT
      <3> QED BY <2>2, <3>2, <3>3 DEF x, p
    <2>3. CASE ~r.is  BY <1>1, <1>6, <2>3
    <2> QED BY <1>4, <2>2, <2>3
  <1>10. ASSUME NEW j \in 1..Len(placed)
         PROVE  /\ placed'[j].f = placed[j].f /\ placed'[j].l = placed[j].l
                /\ placed'[j].addr = placed[j].addr /\ placed'[j].n = placed[j].n
                /\ j # k => placed'[j] = placed[j]
    <2>1. placed[j] \in LineEntry  BY LineTyped
    <2> QED BY <1>9, <2>1 DEF LineEntry
  <1> QED BY <1>3, <1>7, <1>8, <1>9, <1>10

LEMMA Apart ==
  ASSUME NEW a, NEW n, NEW b, NEW l, NEW len, NEW i, NEW m,
         a \in Nat, n \in Nat, b \in Nat, l \in Nat, len \in Nat,
         b + l <= len, b + l <= a \/ a + n <= b, i \in 1..l, m = b + i
  PROVE  m \in 1..len /\ ~(m - a \in 1..n)
  <1>1. i \in Int /\ 1 <= i /\ i <= l  BY SMT
  <1>2. CASE b + l <= a  BY <1>1, <1>2, SMTT(30)
  <1>3. CASE a + n <= b  BY <1>1, <1>3, SMTT(30)
  <1> QED BY <1>2, <1>3

LEMMA RevisedHeld ==
  ASSUME NEW Names, NEW Trees, TypeOK(Names, Trees), NEW r, NEW k,
         Revised(r, k, Names, Trees), Layout, Held
  PROVE  Held'
  <1> DEFINE p == placed[k]
             t == Text(p).t
             ws == TWords(nlines(t, r), t, r, p.addr)
  <1>1. /\ Len(out) \in Nat /\ Len(placed') = Len(placed)
        /\ \A i \in 1..Len(out) : out'[i] # out[i] => i - p.addr \in 1..p.n
        /\ \A j \in 1..Len(placed) : /\ placed'[j].f = placed[j].f
                                     /\ placed'[j].l = placed[j].l
                                     /\ placed'[j].addr = placed[j].addr
                                     /\ placed'[j].n = placed[j].n
                                     /\ j # k => placed'[j] = placed[j]
    BY RevisedSequences
  <1>2. /\ k \in 1..Len(placed) /\ Statement(t) /\ Awaited(p, t, out) /\ src' = src
        /\ r.v \in Int /\ r.is \in BOOLEAN
        /\ out' = (IF r.is THEN Overwrite(out, ws, p.addr) ELSE out)
        /\ placed' = (IF r.is THEN [placed EXCEPT ![k].value = {r.v}] ELSE placed)
    BY DEF Revised
  <1>3. \A j \in 1..Len(placed) : placed[j].addr \in Nat /\ placed[j].n \in Nat
    BY LineTyped
  <1>4. Len(placed) \in Nat /\ out \in Seq(Int)
    <2>1. placed \in Seq(LineEntry) /\ out \in Seq(Int)  BY DEF TypeOK
    <2> QED BY <2>1, SMT
  <1>5. ASSUME NEW j \in 1..Len(placed), j # k, Text(placed[j]).k = "op"
        PROVE  HeldIn(placed'[j], Text(placed[j]).t, out')
    <2> DEFINE q == placed[j]
    <2>1. HeldIn(q, Text(q).t, out) /\ placed'[j] = q
      <3>1. phase # "overflow"  BY DEF Revised
      <3> QED BY <1>1, <1>5, <3>1 DEF Held
    <2>2. /\ q.addr \in Nat /\ q.n \in Nat /\ p.addr \in Nat /\ p.n \in Nat
          /\ q.addr + q.n <= Len(out)
          /\ q.addr + q.n <= p.addr \/ p.addr + p.n <= q.addr
      <3>1. j < k \/ k < j  BY <1>2, <1>4, <1>5, SMT
      <3> QED BY <1>2, <1>3, <1>5, <3>1 DEF Layout
    <2> HIDE DEF p, q
    <2>3. \A i \in 1..q.n : out'[q.addr + i] = out[q.addr + i]
      <3> SUFFICES ASSUME NEW i \in 1..q.n PROVE out'[q.addr + i] = out[q.addr + i]
        OBVIOUS
      <3>1. PICK m : m = q.addr + i  OBVIOUS
      <3>2. m \in 1..Len(out) /\ ~(m - p.addr \in 1..p.n)
        <4> DEFINE a == p.addr
                   b == q.addr
                   n == p.n
                   l == q.n
                   len == Len(out)
        <4>1. /\ a \in Nat /\ n \in Nat /\ b \in Nat /\ l \in Nat /\ len \in Nat
              /\ b + l <= len /\ (b + l <= a \/ a + n <= b)
              /\ i \in 1..l /\ m = b + i
          BY <1>1, <2>2, <3>1
        <4> HIDE DEF a, b, n, l, len
        <4>2. m \in 1..len /\ ~(m - a \in 1..n)  BY <4>1, Apart
        <4> QED BY <4>2 DEF a, n, len
      <3>3. out'[m] = out[m]  BY <1>1, <3>2
      <3> QED BY <3>1, <3>3
    <2>4. HeldIn(q, Text(q).t, out')  BY <2>1, <2>3, HeldAgrees
    <2> QED BY <2>1, <2>4 DEF q
  <1>6. HeldIn(placed'[k], t, out')
    <2>1. CASE ~r.is
      <3>1. out' = out /\ placed' = placed  BY <1>2, <2>1
      <3> QED BY <1>2, <3>1 DEF HeldIn
    <2>2. CASE r.is
      <3> DEFINE n == nlines(t, r)
      <3>1. p.addr \in Nat /\ p.n \in Nat /\ p.addr + p.n <= Len(out)
        BY <1>2, <1>3 DEF Layout
      <3>2. /\ p.n = (IF t.op = "LDI" THEN 2 ELSE 1)
            /\ \A i \in 1..p.n : out[p.addr + i] = DEFAULT_LINE
        BY <1>2 DEF Awaited
      <3>3. placed'[k].value = {r.v} /\ placed'[k].addr = p.addr /\ placed'[k].n = p.n
        <4>1. placed'[k] = [placed[k] EXCEPT !.value = {r.v}]
          <5> DEFINE x == [placed[k] EXCEPT !.value = {r.v}]
          <5>1. placed \in Seq(LineEntry) /\ placed' = [placed EXCEPT ![k] = x]
            BY <1>2, <2>2 DEF TypeOK
          <5> HIDE DEF x
          <5>2. placed'[k] = x  BY <1>2, <5>1, SMT
          <5> QED BY <5>2 DEF x
        <4>2. placed[k] \in LineEntry  BY <1>2, LineTyped
        <4> QED BY <4>1, <4>2 DEF LineEntry
      <3> HIDE DEF p, t
      <3>4. ws \in Seq(Int) /\ Len(ws) = n  BY <1>2, <3>1, TWordsAre
      <3>5. n \in 1..p.n  BY <1>2, <3>1, <3>2, TWordsAre
      <3>6. /\ \A i \in 1..n : ws[i] = WordAt(t, r.v, p.addr, i)
            /\ \A i \in 1..p.n : i > n => WordAt(t, r.v, p.addr, i) = DEFAULT_LINE
        BY <1>2, <2>2, <3>1, <3>2, TWordsAre
      <3> HIDE DEF n, ws
      <3>7. \A i \in 1..Len(out) : out'[i] = IF i - p.addr \in 1..Len(ws) THEN ws[i - p.addr]
                                             ELSE out[i]
        <4>1. out' = Overwrite(out, ws, p.addr)  BY <1>2, <2>2
        <4> QED BY <1>4, <3>1, <3>4, <4>1, Overwritten, SMTT(30)
      <3>8. \A i \in 1..p.n : out'[p.addr + i] = WordAt(t, r.v, p.addr, i)
        <4> SUFFICES ASSUME NEW i \in 1..p.n
                     PROVE  out'[p.addr + i] = WordAt(t, r.v, p.addr, i)
          OBVIOUS
        <4> DEFINE m == p.addr + i
        <4>1. m \in 1..Len(out) /\ m - p.addr = i  BY <1>1, <3>1, SMT
        <4> HIDE DEF m
        <4>2. CASE i \in 1..n
          <5>1. out'[m] = ws[i]  BY <3>4, <3>7, <4>1, <4>2
          <5> QED BY <3>6, <4>2, <5>1 DEF m
        <4>3. CASE ~(i \in 1..n)
          <5>1. i > n  BY <3>1, <3>5, <4>3, SMT
          <5>2. out'[m] = out[m]  BY <3>4, <3>7, <4>1, <4>3
          <5> QED BY <3>2, <3>6, <5>1, <5>2 DEF m
        <4> QED BY <4>2, <4>3
      <3>9. t.op = "LDI" => p.n # 1
        <4>1. 1 # 2  BY SMT
        <4> QED BY <3>2, <4>1
      <3>10. Resolved(placed'[k], t, out')  BY <1>2, <3>3, <3>8, <3>9 DEF Resolved
      <3> QED BY <3>10 DEF HeldIn
    <2> QED BY <1>2, <2>1, <2>2
  <1>7. \A j \in 1..Len(placed') :
          Text(placed[j]).k = "op" => HeldIn(placed'[j], Text(placed[j]).t, out')
    <2> HIDE DEF p
    <2> QED BY <1>1, <1>5, <1>6 DEF p
  <1>8. \A j \in 1..Len(placed') : Text(placed'[j]) = Text(placed[j])
    BY <1>1 DEF Text, Place
  <1>9. \A j \in 1..Len(placed') :
          Text(placed'[j]).k = "op" => HeldIn(placed'[j], Text(placed'[j]).t, out')
    BY <1>7, <1>8
  <1> QED BY <1>2, <1>9 DEF Held, Text, At, Place

LEMMA RevisedInv ==
  ASSUME NEW Names, NEW Trees, ZasmInv(Names, Trees), NEW r, NEW k,
         Revised(r, k, Names, Trees)
  PROVE  ZasmInv(Names, Trees)'
  <1>1. TypeOK(Names, Trees) /\ Counters /\ Layout /\ Held /\ SavedLines(Trees) /\ Globals
    BY DEF ZasmInv
  <1>2. /\ out' \in Seq(Int) /\ Len(out') = Len(out)
        /\ placed' \in Seq(LineEntry) /\ Len(placed') = Len(placed)
        /\ \A j \in 1..Len(placed) : /\ placed'[j].f = placed[j].f
                                     /\ placed'[j].l = placed[j].l
                                     /\ placed'[j].addr = placed[j].addr
                                     /\ placed'[j].n = placed[j].n
                                     /\ j # k => placed'[j] = placed[j]
    BY <1>1, RevisedSequences
  <1>3. /\ src' = src /\ at' = at /\ m_tbl' = m_tbl /\ reduced' = reduced + 1
        /\ global_parser_pc' = global_parser_pc /\ m_pc' = m_pc
        /\ ctx' \in Tables(Names, Trees) /\ ctx'.glob = ctx.glob
        /\ reduced + 1 \in 1..Len(m_tbl) /\ k = m_tbl[reduced + 1].line
    BY DEF Revised
  <1>4. reduced \in Nat /\ reduced' \in Nat
    <2>1. reduced \in Nat  BY <1>1 DEF TypeOK
    <2> QED BY <1>3, <2>1, SMT
  <1>5. TypeOK(Names, Trees)'  BY <1>1, <1>2, <1>3, <1>4 DEF TypeOK
  <1>6. Counters'
    <2>1. phase # "overflow"  BY DEF Revised
    <2> QED BY <1>1, <1>2, <1>3, <2>1 DEF Counters
  <1>7. \A j \in 1..Len(placed) : Place(placed'[j]) = Place(placed[j])  BY <1>2 DEF Place
  <1>8. Layout'
    <2>1. \A j \in 1..Len(placed') :
            /\ Place(placed'[j]) \in Places
            /\ placed'[j].f < at[1] \/ (placed'[j].f = at[1] /\ placed'[j].l < at[2])
            /\ placed'[j].addr + placed'[j].n <= Len(out')
      BY <1>1, <1>2, <1>7 DEF Layout, Passed
    <2>2. \A i \in 1..Len(placed'), j \in 1..Len(placed') :
            i < j => /\ placed'[i].addr + placed'[i].n <= placed'[j].addr
                     /\ Place(placed'[i]) # Place(placed'[j])
      BY <1>1, <1>2, <1>7 DEF Layout
    <2> QED BY <1>3, <2>1, <2>2 DEF Layout, Passed, Place, Places
  <1>9. Held'  BY <1>1, RevisedHeld, ZenonT(40)
  <1>10. SavedLines(Trees)'
    <2>1. \A m \in 1..Len(m_tbl) : /\ m_tbl[m].line \in 1..Len(placed) /\ m_tbl[m].e \in Trees
                                   /\ SavedFor(m_tbl[m], placed[m_tbl[m].line])
                                   /\ m > reduced => placed[m_tbl[m].line].value = {}
      BY <1>1 DEF SavedLines
    <2>2. \A m \in 1..Len(m_tbl), q \in 1..Len(m_tbl) :
            m < q => m_tbl[m].line < m_tbl[q].line
      BY <1>1 DEF SavedLines
    <2>3. ASSUME NEW m \in 1..Len(m_tbl)
          PROVE  SavedFor(m_tbl[m], placed'[m_tbl[m].line])
      BY <1>2, <1>7, <2>1 DEF SavedFor, Text
    <2>4. ASSUME NEW m \in 1..Len(m_tbl), m > reduced + 1
          PROVE  placed'[m_tbl[m].line].value = {}
      <3>1. m > reduced /\ reduced + 1 < m
        <4>1. IsSeq(m_tbl)  BY <1>1 DEF TypeOK
        <4>2. Len(m_tbl) \in Nat  BY <4>1, Appended
        <4> QED BY <1>4, <2>4, <4>2, SMT
      <3>2. k < m_tbl[m].line  BY <1>3, <2>2, <3>1
      <3>3. m_tbl[m].line # k
        <4>1. m_tbl[m].line \in 1..Len(placed) /\ k \in 1..Len(placed)  BY <1>3, <2>1
        <4>2. Len(placed) \in Nat
          <5>1. placed \in Seq(LineEntry)  BY <1>1 DEF TypeOK
          <5> QED BY <5>1, SMT
        <4> QED BY <3>2, <4>1, <4>2, SMT
      <3> QED BY <1>2, <2>1, <3>1, <3>3
    <2> QED BY <1>2, <1>3, <2>1, <2>2, <2>3, <2>4 DEF SavedLines, SavedFor, Text, At, Place
  <1>11. Globals'
    <2>1. \A i \in 1..Len(ctx'.glob) :
            \E j \in 1..Len(placed') : /\ At(Place(placed'[j])).lab = ctx'.glob[i].name
                                       /\ ctx'.glob[i].val = Number(placed'[j].addr)
      <3>1. \A i \in 1..Len(ctx.glob) :
              \E j \in 1..Len(placed) : /\ At(Place(placed[j])).lab = ctx.glob[i].name
                                        /\ ctx.glob[i].val = Number(placed[j].addr)
        BY <1>1 DEF Globals
      <3> QED BY <1>2, <1>3, <1>7, <3>1, SMTT(30)
    <2> QED BY <1>3, <2>1 DEF Globals, At, Place
  <1> QED BY <1>5, <1>6, <1>8, <1>9, <1>10, <1>11 DEF ZasmInv

(* Nothing else touches what the invariant is about.                       *)
LEMMA Unmoved ==
  ASSUME NEW Names, NEW Trees, ZasmInv(Names, Trees),
         UNCHANGED <<src, at, ctx, global_parser_pc, m_pc, out, m_tbl, reduced, placed>>,
         phase = "overflow" => phase' = "overflow"
  PROVE  ZasmInv(Names, Trees)'
  <1>1. TypeOK(Names, Trees)'  BY DEF ZasmInv, TypeOK
  <1>2. Counters'  BY DEF ZasmInv, Counters
  <1>3. Layout'  BY DEF ZasmInv, Layout, Place, Places, Passed
  <1>4. Held'  BY SMTT(30) DEF ZasmInv, Held, Text, At, Place
  <1>5. SavedLines(Trees)'  BY DEF ZasmInv, SavedLines, SavedFor, Text, At, Place
  <1>6. Globals'  BY DEF ZasmInv, Globals, At, Place
  <1> QED BY <1>1, <1>2, <1>3, <1>4, <1>5, <1>6 DEF ZasmInv

LEMMA NextFileInv ==
  ASSUME NEW Names, NEW Trees, ZasmInv(Names, Trees), NextFile
  PROVE  ZasmInv(Names, Trees)'
  <1>1. TypeOK(Names, Trees) /\ Layout /\ Globals  BY DEF ZasmInv
  <1>2. /\ at[1] < Len(src) /\ at' = <<at[1] + 1, 1>> /\ ctx' = [ctx EXCEPT !.file = <<>>]
        /\ UNCHANGED <<src, global_parser_pc, m_pc, out, m_tbl, phase, reduced, placed>>
    BY DEF NextFile
  <1>3. at[1] \in Nat /\ at[2] \in Nat  BY <1>1 DEF TypeOK
  <1>4. ctx' \in Tables(Names, Trees) /\ ctx'.glob = ctx.glob
    <2>1. << >> \in Seq([name : Names, val : Trees])  BY SMT
    <2>2. ctx \in Tables(Names, Trees)  BY <1>1 DEF TypeOK
    <2> QED BY <1>2, <2>1, <2>2 DEF Tables
  <1>5. TypeOK(Names, Trees)'
    <2>1. DOMAIN src = 1..Len(src) /\ Len(src) \in Nat  BY <1>1, SourceLines DEF TypeOK
    <2>2. /\ at[1] + 1 \in Nat /\ at[1] + 1 \in 1..Len(src) /\ 1 \in Nat /\ 1 # 0
      BY <1>2, <1>3, <2>1, SMT
    <2>3. at' \in Nat \X Nat /\ at'[1] \in DOMAIN src /\ at'[2] # 0  BY <1>2, <2>1, <2>2
    <2> QED BY <1>1, <1>2, <1>4, <2>3 DEF TypeOK
  <1>6. Counters'  BY <1>2 DEF ZasmInv, Counters
  <1>7. Layout'
    <2>1. ASSUME NEW k \in 1..Len(placed)
          PROVE  placed[k].f < at'[1] \/ (placed[k].f = at'[1] /\ placed[k].l < at'[2])
      <3>1. placed[k].f < at[1] \/ (placed[k].f = at[1] /\ placed[k].l < at[2])
        BY <1>1 DEF Layout, Passed
      <3>2. placed[k].f \in Nat  BY <1>1, LineTyped
      <3>3. placed[k].f < at[1] + 1  BY <1>3, <3>1, <3>2, SMT
      <3> QED BY <1>2, <3>3
    <2> QED BY <1>1, <1>2, <2>1 DEF Layout, Place, Places, Passed
  <1>8. Held'  BY <1>2, SMTT(30) DEF ZasmInv, Held, Text, At, Place
  <1>9. SavedLines(Trees)'  BY <1>2 DEF ZasmInv, SavedLines, SavedFor, Text, At, Place
  <1>10. Globals'  BY <1>1, <1>2, <1>4 DEF Globals, At, Place
  <1> QED BY <1>5, <1>6, <1>7, <1>8, <1>9, <1>10 DEF ZasmInv

(* The lines the parser hands over, one by one                             *)
ParserAdds(obj) ==
  \/ Here("op") /\ obj = OpLine(Line.body, global_parser_pc, m_pc, ctx)
  \/ Here("word") /\ obj = WordLine(Line.body.es, global_parser_pc, ctx)
  \/ Here("fill") /\ obj = FillLine(Line.body, global_parser_pc, ctx)
  \/ Here("none") /\ obj = Done(<<>>, {}, ctx)
  \/ /\ Here("equ")
     /\ obj = Done(<<>>, {}, [ctx EXCEPT !.file =
                                define(@, Line.body.id, AtLine(Line.body.e, global_parser_pc))])

LEMMA ParserObject ==
  ASSUME NEW Names, NEW Exprs, NEW Trees, Given(Names, Exprs, Trees), ZasmInv(Names, Trees),
         NEW obj, ParserAdds(obj)
  PROVE  Object(obj, Names, Trees) /\ \E kind : Here(kind)
  <1>1. TypeOK(Names, Trees) /\ Counters  BY DEF ZasmInv
  <1>2. CASE Here("op") /\ obj = OpLine(Line.body, global_parser_pc, m_pc, ctx)  BY <1>1, <1>2, OpObject
  <1>3. CASE Here("word") /\ obj = WordLine(Line.body.es, global_parser_pc, ctx)
    BY <1>1, <1>3, DataObject
  <1>4. CASE Here("fill") /\ obj = FillLine(Line.body, global_parser_pc, ctx)  BY <1>1, <1>4, DataObject
  <1>5. ctx \in Tables(Names, Trees) /\ << >> \in Seq(Int)
    <2>1. << >> \in Seq(Int)  BY SMT
    <2> QED BY <1>1, <2>1 DEF TypeOK
  <1>6. CASE Here("none") /\ obj = Done(<<>>, {}, ctx)
    <2>1. Line.body.k # "op"  BY <1>6 DEF Here
    <2> QED BY <1>5, <1>6, <2>1, DoneObject
  <1>7. CASE /\ Here("equ")
             /\ obj = Done(<<>>, {}, [ctx EXCEPT !.file =
                             define(@, Line.body.id, AtLine(Line.body.e, global_parser_pc))])
    <2> DEFINE e == AtLine(Line.body.e, global_parser_pc)
               file == define(ctx.file, Line.body.id, e)
               c == [ctx EXCEPT !.file = file]
    <2>1. LineWithin(Line, Names, Exprs) /\ Line.body.k = "equ"  BY <1>1, <1>7, LineHere
    <2>2. Line.body.id \in Names /\ Line.body.e \in Exprs  BY <2>1 DEF LineWithin
    <2>3. e \in Trees
      <3>1. global_parser_pc \in Nat  BY <1>1, <1>7, CounterHere
      <3> QED BY <2>2, <3>1 DEF Given, Evaluation
    <2> HIDE DEF e
    <2>4. /\ ctx.file \in Seq([name : Names, val : Trees])
          /\ ctx.glob \in Seq([name : Names, val : Numbers]) /\ ctx.deep \in BOOLEAN
          /\ ctx = [file |-> ctx.file, glob |-> ctx.glob, deep |-> ctx.deep]
      BY <1>5 DEF Tables
    <2>5. file \in Seq([name : Names, val : Trees])  BY <2>2, <2>3, <2>4, Defined
    <2>6. obj = Done(<<>>, {}, c)  BY <1>7 DEF e
    <2> HIDE DEF file
    <2>7. c = [file |-> file, glob |-> ctx.glob, deep |-> ctx.deep]  BY <2>4
    <2>8. c \in Tables(Names, Trees) /\ c.glob = ctx.glob  BY <2>4, <2>5, <2>7 DEF Tables
    <2> HIDE DEF c
    <2>9. Line.body.k # "op"  BY <2>1
    <2> QED BY <1>5, <1>7, <2>6, <2>8, <2>9, DoneObject
  <1> QED BY <1>2, <1>3, <1>4, <1>6, <1>7 DEF ParserAdds

LEMMA ParserLine ==
  ASSUME Instruction \/ Data \/ Label \/ Equ
  PROVE  \E obj : ParserAdds(obj) /\ Add(obj)
  <1>1. CASE Instruction  BY <1>1 DEF Instruction, ParserAdds
  <1>2. CASE Data  BY <1>2 DEF Data, ParserAdds
  <1>3. CASE Label  BY <1>3 DEF Label, ParserAdds
  <1>4. CASE Equ
    <2> DEFINE obj == Done(<<>>, {}, [ctx EXCEPT !.file =
                        define(@, Line.body.id, AtLine(Line.body.e, global_parser_pc))])
    <2>1. Here("equ") /\ Add(obj)  BY <1>4 DEF Equ
    <2>2. ParserAdds(obj)  BY <2>1 DEF ParserAdds
    <2> HIDE DEF obj
    <2> QED BY <2>1, <2>2
  <1> QED BY <1>1, <1>2, <1>3, <1>4

LEMMA StepInv ==
  ASSUME NEW Names, NEW Exprs, NEW Trees, Given(Names, Exprs, Trees), ZasmInv(Names, Trees),
         [Next]_vars
  PROVE  ZasmInv(Names, Trees)'
  <1>1. CASE Instruction \/ Data \/ Label \/ Equ
    <2>1. PICK obj : ParserAdds(obj) /\ Add(obj)  BY <1>1, ParserLine
    <2>2. Object(obj, Names, Trees) /\ \E kind : Here(kind)  BY <2>1, ParserObject
    <2>3. PICK kind : Here(kind)  BY <2>2
    <2> QED BY <2>1, <2>2, <2>3, GrownInv
  <1>2. CASE NextFile  BY <1>2, NextFileInv
  <1>3. CASE EndOfInput  BY <1>3, Unmoved DEF EndOfInput
  <1>4. CASE Reduce
    <2>1. PICK r, k : Revised(r, k, Names, Trees)  BY <1>4, ReduceIs
    <2> QED BY <2>1, RevisedInv
  <1>5. CASE Finish  BY <1>5, Unmoved DEF Finish
  <1>6. CASE UNCHANGED vars  BY <1>6, Unmoved DEF vars
  <1> QED BY <1>1, <1>2, <1>3, <1>4, <1>5, <1>6 DEF Next

(* The file holds, line by line, the words of the statements, or the       *)
(* places reserved for those that wait for their value.                    *)
THEOREM FileHolds ==
  ASSUME NEW Names, NEW Exprs, NEW Trees, Given(Names, Exprs, Trees)
  PROVE  Spec => []ZasmInv(Names, Trees)
  <1>1. Init => ZasmInv(Names, Trees)  BY InitInv
  <1>2. ZasmInv(Names, Trees) /\ [Next]_vars => ZasmInv(Names, Trees)'  BY StepInv
  <1> QED BY <1>1, <1>2, PTL DEF Spec

-----------------------------------------------------------------------------
(* What follows from the invariant                                         *)
LEMMA LineOf ==
  ASSUME NEW Names, NEW Trees, TypeOK(Names, Trees), NEW p \in Lines
  PROVE  \E k \in 1..Len(placed) : p = placed[k]
  <1>1. placed \in Seq(LineEntry)  BY DEF TypeOK
  <1>2. DOMAIN placed = 1..Len(placed)  BY <1>1, SMT
  <1> QED BY <1>2 DEF Lines

LEMMA LineIn ==
  ASSUME NEW Names, NEW Trees, TypeOK(Names, Trees), NEW k \in 1..Len(placed)
  PROVE  placed[k] \in Lines
  <1>1. placed \in Seq(LineEntry)  BY DEF TypeOK
  <1>2. DOMAIN placed = 1..Len(placed)  BY <1>1, SMT
  <1> QED BY <1>2 DEF Lines

LEMMA LayoutFollows ==
  ASSUME NEW Names, NEW Trees, ZasmInv(Names, Trees)
  PROVE  LayoutAgrees
  <1>1. TypeOK(Names, Trees) /\ Counters /\ Layout /\ Globals  BY DEF ZasmInv
  <1>2. DOMAIN ctx.glob = 1..Len(ctx.glob)
    <2>1. ctx.glob \in Seq([name : Names, val : Numbers])  BY <1>1 DEF TypeOK, Tables
    <2> QED BY <2>1, SMT
  <1>3. ASSUME NEW i \in 1..Len(ctx.glob), NEW p \in Lines,
               IsLabel(Place(p), ctx.glob[i].name),
               Definitions(ctx.glob[i].name) = {Place(p)}
        PROVE  ctx.glob[i].val = Number(p.addr)
    <2>1. PICK k \in 1..Len(placed) : /\ At(Place(placed[k])).lab = ctx.glob[i].name
                                      /\ ctx.glob[i].val = Number(placed[k].addr)
      BY <1>1 DEF Globals
    <2>2. PICK j \in 1..Len(placed) : p = placed[j]  BY <1>1, LineOf
    <2>3. Place(placed[k]) \in Definitions(ctx.glob[i].name)
      BY <1>1, <2>1 DEF Layout, Definitions, IsLabel
    <2>4. Place(placed[k]) = Place(placed[j])  BY <1>3, <2>2, <2>3
    <2>5. j = k
      <3>1. j < k \/ k < j \/ j = k
        <4>1. placed \in Seq(LineEntry)  BY <1>1 DEF TypeOK
        <4>2. Len(placed) \in Nat  BY <4>1, SMT
        <4> QED BY <4>2, SMT
      <3> QED BY <1>1, <2>4, <3>1 DEF Layout
    <2> QED BY <2>1, <2>2, <2>5
  <1>4. m_pc = Len(out) /\ (phase # "overflow" => global_parser_pc = Len(out))
    BY <1>1 DEF Counters
  <1> QED BY <1>2, <1>3, <1>4 DEF LayoutAgrees, Place

(* The words of a statement whose value is known                           *)
LEMMA SettledIs ==
  ASSUME NEW Names, NEW Trees, ZasmInv(Names, Trees), phase = "done", NEW p \in Settled
  PROVE  /\ Body(p).k = "op" /\ Statement(Body(p).t) /\ p.addr \in Nat /\ p.n \in Nat
         /\ \A i \in 1..p.n : Written(p)[i] = out[p.addr + i]
         /\ \E v \in Int : /\ p.value = {v} /\ Assemble(Body(p).t, v, p.addr).ok
                           /\ \A i \in 1..p.n :
                                Written(p)[i] = WordAt(Body(p).t, v, p.addr, i)
                           /\ Body(p).t.op = "LDI" /\ p.n = 1 =>
                                fitsin(v, 23) /\ Body(p).t.cond = ALWAYS
  <1>1. TypeOK(Names, Trees) /\ Layout /\ Held  BY DEF ZasmInv
  <1>2. p \in Lines /\ Body(p).k = "op" /\ p.value # {} /\ Accepted(p)
    BY DEF Settled, Instructions
  <1>3. PICK k \in 1..Len(placed) : p = placed[k]  BY <1>1, <1>2, LineOf
  <1>4. Body(p) = Text(p)  BY DEF Body, Text, Place
  <1>5. Statement(Body(p).t)
    <2>1. src \in Sources /\ Place(p) \in Places  BY <1>1, <1>3 DEF TypeOK, Layout
    <2> QED BY <1>2, <1>4, <2>1, StatementAt DEF Text
  <1>6. p.addr \in Nat /\ p.n \in Nat /\ p.addr + p.n <= Len(out)
    BY <1>1, <1>3, LineTyped DEF Layout
  <1>7. \A i \in 1..p.n : Written(p)[i] = out[p.addr + i]
    <2> DEFINE a == p.addr
               n == p.n
    <2>1. out \in Seq(Int) /\ a \in Nat /\ n \in Nat /\ a + n <= Len(out)
      BY <1>1, <1>6 DEF TypeOK
    <2>2. Written(p) = SubSeq(out, a + 1, a + n)  BY DEF Written
    <2> HIDE DEF a, n
    <2>3. \A i \in 1..n : SubSeq(out, a + 1, a + n)[i] = out[a + i]  BY <2>1, SMT
    <2> QED BY <2>2, <2>3 DEF a, n
  <1>8. Resolved(p, Body(p).t, out)
    <2>1. HeldIn(p, Body(p).t, out)
      <3>1. phase # "overflow"  OBVIOUS
      <3> QED BY <1>1, <1>2, <1>3, <1>4, <3>1 DEF Held
    <2> QED BY <1>2, <2>1 DEF HeldIn, Awaited
  <1>9. PICK v \in Int : /\ p.value = {v}
                         /\ \A i \in 1..p.n :
                              out[p.addr + i] = WordAt(Body(p).t, v, p.addr, i)
                         /\ Body(p).t.op = "LDI" /\ p.n = 1 =>
                              fitsin(v, 23) /\ Body(p).t.cond = ALWAYS
    BY <1>8 DEF Resolved
  <1>10. Assemble(Body(p).t, v, p.addr).ok  BY <1>2, <1>9 DEF Accepted
  <1> QED BY <1>2, <1>5, <1>6, <1>7, <1>9, <1>10

LEMMA ExecutedFollows ==
  ASSUME NEW Names, NEW Trees, ZasmInv(Names, Trees)
  PROVE  ExecutedAsWritten
  <1> DEFINE Does(t, v, pc, w) ==
        LET does == Intended(t, v, pc)
        IN  /\ Executed(w) = does <=> Kept(t, does.imm)
            /\ t.op = "BRA" /\ Kept(t, does.imm) => zop_early_branch(pc, w) = v
            /\ Kept(t, does.imm) \/ Unguarded(t, does.imm)
  <1> SUFFICES ASSUME phase = "done", NEW p \in Settled, NEW v \in p.value,
                      Direct(Body(p).t), p.n = 1
               PROVE  Does(Body(p).t, v, p.addr, Written(p)[1])
    BY DEF ExecutedAsWritten
  <1> DEFINE t == Body(p).t
             ws == Assemble(t, v, p.addr).ws
  <1>1. /\ Statement(t) /\ p.addr \in Nat /\ v \in Int /\ Assemble(t, v, p.addr).ok
        /\ \A i \in 1..p.n : Written(p)[i] = WordAt(t, v, p.addr, i)
        /\ t.op = "LDI" => fitsin(v, 23) /\ t.cond = ALWAYS
    <2>1. PICK u \in Int : /\ p.value = {u} /\ Assemble(t, u, p.addr).ok
                           /\ \A i \in 1..p.n : Written(p)[i] = WordAt(t, u, p.addr, i)
                           /\ t.op = "LDI" /\ p.n = 1 => fitsin(u, 23) /\ t.cond = ALWAYS
      BY SettledIs
    <2>2. u = v  BY <2>1
    <2> QED BY <2>1, <2>2, SettledIs
  <1>2. Direct(t) /\ p.n = 1  OBVIOUS
  <1> HIDE DEF t
  <1>3. Len(ws) = 1
    <2>1. Legal(t, v, p.addr)  BY <1>1 DEF Legal
    <2>2. t.op # "NEG"
      <3>1. "NEG" \notin DualOps \cup DOMAIN BranchCond
               \cup {"MPYU", "MPYS", "MOV", "LDI", "LDILO", "ROL", "LOD", "STO", "JMP",
                     "TRAP", "RETN", "NOT", "CLRF"}
        BY DEF DualOps, BranchCond
      <3> QED BY <1>2, <3>1 DEF Direct
    <2> QED BY <1>1, <2>1, <2>2, Assembled
  <1>4. Whole(t, v, p.addr)  BY <1>1, <1>2, <1>3 DEF Whole
  <1>5. Written(p)[1] = ws[1]
    <2>1. 1 \in 1..1 /\ 1 <= 1  BY SMT
    <2>2. Written(p)[1] = WordAt(t, v, p.addr, 1)  BY <1>1, <1>2, <2>1
    <2> HIDE DEF ws
    <2> QED BY <1>3, <2>1, <2>2 DEF WordAt, ws
  <1>6. Does(t, v, p.addr, ws[1])  BY <1>4, Decoded DEF Obeyed
  <1> HIDE DEF ws, Does
  <1> QED BY <1>5, <1>6 DEF t

LEMMA ListingFollows ==
  ASSUME NEW Names, NEW Trees, ZasmInv(Names, Trees)
  PROVE  ListingTrue
  <1>1. ASSUME phase = "done", NEW p \in Settled, NEW i \in 1..p.n
        PROVE  Produced(Written(p)[i])
    <2> DEFINE t == Body(p).t
    <2>1. Statement(t) /\ p.addr \in Nat /\ p.n \in Nat  BY <1>1, SettledIs
    <2>2. PICK v \in Int : /\ Assemble(t, v, p.addr).ok
                           /\ \A j \in 1..p.n : Written(p)[j] = WordAt(t, v, p.addr, j)
      BY <1>1, SettledIs
    <2> HIDE DEF t
    <2>3. Legal(t, v, p.addr)  BY <2>1 DEF Legal
    <2>4. Produced(WordAt(t, v, p.addr, i))
      <3>1. Produced(DEFAULT_LINE)  BY MadeFixed DEF DEFAULT_LINE
      <3> DEFINE ws == Assemble(t, v, p.addr).ws
      <3>2. ws \in Seq(Int) /\ \A j \in 1..Len(ws) : Produced(ws[j])
        BY <2>2, <2>3, Assembled
      <3> HIDE DEF ws
      <3>3. i <= Len(ws) => i \in 1..Len(ws)
        <4>1. Len(ws) \in Nat  BY <3>2, SMT
        <4> QED BY <2>1, <4>1, SMT
      <3>4. Produced(IF i <= Len(ws) THEN ws[i] ELSE DEFAULT_LINE)  BY <3>1, <3>2, <3>3
      <3> QED BY <3>4 DEF WordAt, ws
    <2> QED BY <2>2, <2>4
  <1>2. ASSUME phase = "done", NEW p \in Settled, NEW i \in 1..p.n
        PROVE  Executed(Written(p)[i]) \in Says(zipi_to_string(Written(p)[i]))
                 <=> ~Misshown(Written(p)[i])
    BY <1>1, <1>2, ListedWord
  <1> QED BY <1>2 DEF ListingTrue

LEMMA RewritesReserved ==
  ASSUME NEW Names, NEW Exprs, NEW Trees, Given(Names, Exprs, Trees), ZasmInv(Names, Trees),
         [Next]_vars
  PROVE  /\ Len(out') >= Len(out)
         /\ \A i \in DOMAIN out :
              out'[i] # out[i] =>
                /\ phase = "reduce" /\ out[i] = DEFAULT_LINE
                /\ \E p \in Instructions : i \in p.addr + 1 .. p.addr + p.n
                                           /\ \E s \in DOMAIN m_tbl : m_tbl[s].m_pc = p.addr
  <1>1. TypeOK(Names, Trees) /\ Counters  BY DEF ZasmInv
  <1>2. DOMAIN out = 1..Len(out) /\ Len(out) \in Nat
    <2>1. out \in Seq(Int)  BY <1>1 DEF TypeOK
    <2> QED BY <2>1, SMT
  <1>3. CASE out' = out  BY <1>2, <1>3, SMT
  <1>4. CASE Instruction \/ Data \/ Label \/ Equ
    <2>1. PICK obj : ParserAdds(obj) /\ Add(obj)  BY <1>4, ParserLine
    <2>2. Object(obj, Names, Trees) /\ \E kind : Here(kind)  BY <2>1, ParserObject
    <2>3. PICK kind : Here(kind)  BY <2>2
    <2>4. PICK ws, value : Grown(ws, value, Names, Trees)  BY <1>1, <2>1, <2>2, <2>3, Added
    <2>5. /\ Len(out) \in Nat /\ Len(ws) \in Nat /\ Len(out') = Len(out) + Len(ws)
          /\ \A i \in 1..Len(out) : out'[i] = out[i]
      BY <1>1, <2>3, <2>4, GrownSequences
    <2>6. Len(out') >= Len(out)  BY <2>5, SMT
    <2> QED BY <1>2, <2>5, <2>6
  <1>5. CASE Reduce
    <2>1. PICK r, k : Revised(r, k, Names, Trees)  BY <1>5, ReduceIs
    <2> DEFINE p == placed[k]
    <2>2. /\ Len(out') = Len(out)
          /\ \A i \in 1..Len(out) : out'[i] # out[i] => /\ i - p.addr \in 1..p.n
                                                        /\ out[i] = DEFAULT_LINE
      BY <1>1, <2>1, RevisedSequences
    <2>3. /\ phase = "reduce" /\ k \in 1..Len(placed) /\ Text(p).k = "op"
          /\ reduced + 1 \in 1..Len(m_tbl) /\ m_tbl[reduced + 1].m_pc = p.addr
      BY <2>1 DEF Revised
    <2>4. p \in Instructions
      <3>1. p \in Lines  BY <1>1, <2>3, LineIn
      <3> QED BY <2>3, <3>1 DEF Instructions, Body, Text, Place
    <2>5. \E s \in DOMAIN m_tbl : m_tbl[s].m_pc = p.addr
      <3>1. IsSeq(m_tbl)  BY <1>1 DEF TypeOK
      <3>2. DOMAIN m_tbl = 1..Len(m_tbl)  BY <3>1, Appended
      <3> QED BY <2>3, <3>2
    <2>6. p.addr \in Nat /\ p.n \in Nat  BY <1>1, <2>3, LineTyped
    <2> HIDE DEF p
    <2>7. ASSUME NEW i \in 1..Len(out), i - p.addr \in 1..p.n
          PROVE  i \in p.addr + 1 .. p.addr + p.n
      BY <1>2, <2>6, <2>7, SMT
    <2>8. Len(out') >= Len(out)  BY <1>2, <2>2, SMT
    <2> QED BY <1>2, <2>2, <2>3, <2>4, <2>5, <2>7, <2>8
  <1>6. CASE NextFile \/ EndOfInput \/ Finish \/ UNCHANGED vars
    <2>1. out' = out  BY <1>6 DEF NextFile, EndOfInput, Finish, vars
    <2> QED BY <1>3, <2>1
  <1> QED BY <1>4, <1>5, <1>6 DEF Next

(* The parser, which asks a line for its length once more, counts as the   *)
(* object file does and as the file has grown, and a global label that is  *)
(* defined once has the address of its line (asmdata.cpp:164, zasm.y:94).  *)
THEOREM LabelsHold ==
  ASSUME NEW Names, NEW Exprs, NEW Trees, Given(Names, Exprs, Trees)
  PROVE  Spec => []LayoutAgrees
  <1>1. Spec => []ZasmInv(Names, Trees)  BY FileHolds
  <1>2. ZasmInv(Names, Trees) => LayoutAgrees  BY LayoutFollows
  <1> QED BY <1>1, <1>2, PTL

(* The file grows while the source is read; afterwards only the NOOPs that *)
(* hold the place of a saved line are overwritten (asmdata.cpp:185).       *)
THEOREM RewritesHold ==
  ASSUME NEW Names, NEW Exprs, NEW Trees, Given(Names, Exprs, Trees)
  PROVE  Spec => OnlyReservedRewritten
  <1> DEFINE Rewrite ==
        /\ Len(out') >= Len(out)
        /\ \A i \in DOMAIN out :
             out'[i] # out[i] =>
               /\ phase = "reduce" /\ out[i] = DEFAULT_LINE
               /\ \E p \in Instructions : i \in p.addr + 1 .. p.addr + p.n
                                          /\ \E s \in DOMAIN m_tbl : m_tbl[s].m_pc = p.addr
  <1>1. Spec => []ZasmInv(Names, Trees)  BY FileHolds
  <1>2. ZasmInv(Names, Trees) /\ [Next]_vars => [Rewrite]_vars  BY RewritesReserved
  <1> QED BY <1>1, <1>2, PTL DEF Spec, OnlyReservedRewritten

(* The processor does what an accepted statement says exactly if the word  *)
(* keeps the operand; one that is lost without an error is one of those    *)
(* that Unguarded lists (idecode.v:127, asmdata.cpp:216).                  *)
THEOREM ExecutionHolds ==
  ASSUME NEW Names, NEW Exprs, NEW Trees, Given(Names, Exprs, Trees)
  PROVE  Spec => []ExecutedAsWritten
  <1>1. Spec => []ZasmInv(Names, Trees)  BY FileHolds
  <1>2. ZasmInv(Names, Trees) => ExecutedAsWritten  BY ExecutedFollows
  <1> QED BY <1>1, <1>2, PTL

(* The listing of every accepted statement shows the operations that are   *)
(* executed, but for the words that Misshown names (zopcodes.cpp:524).     *)
THEOREM ListingHolds ==
  ASSUME NEW Names, NEW Exprs, NEW Trees, Given(Names, Exprs, Trees)
  PROVE  Spec => []ListingTrue
  <1>1. Spec => []ZasmInv(Names, Trees)  BY FileHolds
  <1>2. ZasmInv(Names, Trees) => ListingTrue  BY ListingFollows
  <1> QED BY <1>1, <1>2, PTL

===============================================================================
