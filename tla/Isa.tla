-------------------------------- MODULE Isa ---------------------------------
(***************************************************************************)
(* The instruction words of the ZipCPU, as three parts of the repository   *)
(* see them: the assembler, which builds a word from a statement           *)
(* (sw/zasm/asmdata.cpp and zparser.cpp), the disassembler, which shows it *)
(* (zopcodes.cpp), and the processor, which executes it (idecode.v and     *)
(* cpuops.v).  A word is a natural number below 2^31: the assembler never  *)
(* sets bit 31, which marks a pair of half-word instructions.              *)
(*                                                                         *)
(* A statement is a record [op, cond, opb, opa]: the fields of a TLINE,    *)
(* without the immediate, whose value is a parameter of its own.           *)
(***************************************************************************)
EXTENDS Integers, Sequences

(* Registers: 0 to 15 those of the running set, 16 to 31 the user's. *)
SP == 13
CC == 14
PC == 15
NoReg == 32

(* Conditions *)
ALWAYS == 0
GT == 4
GE == 5

(* The two names for opcode 8: LDIHI, and MPY where multiplies are long. *)
ZIPO == [SUB |-> 0, AND |-> 1, ADD |-> 2, OR |-> 3, XOR |-> 4, LSR |-> 5,
         LSL |-> 6, ASR |-> 7, LDIHI |-> 8, MPY |-> 8, LDILO |-> 9,
         MPYU |-> 10, MPYUHI |-> 10, MPYS |-> 11, MPYSHI |-> 11, BREV |-> 12,
         POPC |-> 13, ROL |-> 14, MOV |-> 15, CMP |-> 16, TST |-> 17,
         LOD |-> 18, STO |-> 19, DIVU |-> 20, DIVS |-> 21, LDI |-> 22]

(***************************************************************************)
(* The fields of a word                                                    *)
(***************************************************************************)
Bits(w, low, n) == (w \div 2^low) % 2^n

Low(v, n) == v % 2^n

(* twoc.cpp, sbits: the low n bits of v as a number in two's complement. *)
SBits(v, n) == LET u == v % 2^n IN IF u < 2^(n-1) THEN u ELSE u - 2^n

Op(w) == Bits(w, 22, 5)
A(w) == Bits(w, 27, 4)
B(w) == Bits(w, 14, 4)
Cond(w) == Bits(w, 19, 3)
Bit18(w) == Bits(w, 18, 1)
Bit13(w) == Bits(w, 13, 1)

(***************************************************************************)
(* ZPARSER: from operands to a word                                        *)
(***************************************************************************)
IMMOP(op, cnd, imm, a) ==
  2^27 * Low(a, 4) + 2^22 * op + 2^19 * cnd + Low(imm, 18)

DBLREGOP(op, cnd, imm, b, a) ==
  2^27 * Low(a, 4) + 2^22 * op + 2^19 * cnd + 2^18 + 2^14 * Low(b, 4) + Low(imm, 14)

(* The methods that come in a register and an immediate form. *)
op_dual(name, cnd, imm, b, a) ==
  IF b = NoReg THEN IMMOP(ZIPO[name], cnd, imm, a)
               ELSE DBLREGOP(ZIPO[name], cnd, imm, b, a)

(* The methods without a condition are those with the condition ALWAYS. *)
Always(name, imm, b, a) == op_dual(name, ALWAYS, imm, b, a)

op_mov(cnd, imm, b, a) ==
  2^27 * Low(a, 4) + 2^22 * ZIPO.MOV + 2^19 * cnd + 2^14 * Low(b, 4)
    + Low(imm, 13) + 2^13 * Bits(b, 4, 1) + 2^18 * Bits(a, 4, 1)

op_ldi(imm, a) == 2^27 * Low(a, 4) + 2^22 * ZIPO.LDI + Low(imm, 23)

op_noop  == 1979711488  \* 0x76000000
op_break == 1983905792  \* 0x76400000
op_lock  == 1988100096  \* 0x76800000
op_ljmp  == 2089271296  \* 0x7c87c000

(* The low half of the 32 reversed bits of v, built bit by bit. *)
BitOf(v, k) == IF k = 31 THEN IF v < 0 THEN 1 ELSE 0 ELSE Bits(v, k, 1)
BrevLow(v) ==
  LET r[i \in 0..16] == IF i = 0 THEN 0 ELSE 2 * r[i-1] + BitOf(v, 15 + i)
  IN  r[16]

(* Without the instruction LDIHI, a bit reversal takes its place. *)
op_ldihi(cnd, imm, a) == IMMOP(ZIPO.BREV, cnd, BrevLow(imm), a)
op_ldilo(cnd, imm, a) == IMMOP(ZIPO.LDILO, cnd, Low(imm, 16), a)

(* Multiplies cut an immediate, but not an offset, to 16 bits. *)
op_mul(name, cnd, imm, b, a) ==
  op_dual(name, cnd, IF b = NoReg /\ name # "MPY" THEN Low(imm, 16) ELSE imm, b, a)

op_clrf(cnd, a) == DBLREGOP(ZIPO.XOR, cnd, 0, a, a)
op_not(cnd, a) == IMMOP(ZIPO.XOR, cnd, -1, a)
op_halt(cnd) == op_dual("OR", cnd, 16, NoReg, CC)
op_rtu(cnd) == op_dual("OR", cnd, 32, NoReg, CC)
op_busy(cnd) == op_dual("ADD", cnd, -1, NoReg, PC)
op_branch(cnd, imm) == op_dual("ADD", cnd, imm, NoReg, PC)

(***************************************************************************)
(* TLINE::eval: the words of a statement, and whether no error was         *)
(* reported.  A word the code leaves unset is NoWord.  An error does not   *)
(* stop the assembler: the words are written all the same.                 *)
(***************************************************************************)
NoWord == -1

fitsin(v, b) == IF v > 0 THEN v < 2^(b-1) ELSE -v <= 2^b

(* The immediates of LDIHI and LDILO *)
HalfWords == 0 .. 2^16 - 1

One(w, ok) == [ws |-> <<w>>, ok |-> ok]

DualOps == {"CMP", "TST", "SUB", "AND", "ADD", "OR", "XOR", "LSL", "ASR", "LSR",
            "BREV", "POPC", "DIVU", "DIVS"}
MulOps == {"MPYU", "MPYS", "MPY", "MPYUHI", "MPYSHI"}
BranchCond == [BRA |-> 0, BLT |-> 1, BZ |-> 2, BNZ |-> 3, BGT |-> 4, BGE |-> 5,
               BRC |-> 6, BRV |-> 7]

DualLine(t, imm) ==
  One(op_dual(t.op, t.cond, imm, t.opb, t.opa),
      t.opa # NoReg /\ fitsin(imm, IF t.opb = NoReg THEN 18 ELSE 14))

BranchLine(t, offset) ==
  One(op_branch(BranchCond[t.op], offset), fitsin(offset, 18))

MovLine(t, imm) ==
  One(op_mov(t.cond, imm, t.opb, t.opa),
      t.opa # NoReg /\ t.opb # NoReg /\ fitsin(imm, 13))

HalfLine(t, imm) ==
  One(IF t.op = "LDIHI" THEN op_ldihi(t.cond, imm, t.opa) ELSE op_ldilo(t.cond, imm, t.opa),
      imm \in HalfWords /\ t.opb = NoReg /\ t.opa # NoReg)

(* The program counter and the flags are no operands of a multiply. *)
MulLine(t, imm) ==
  IF {t.opa, t.opb} \cap {PC, CC} # {} THEN One(NoWord, FALSE)
  ELSE One(op_mul(t.op, t.cond, imm, t.opb, t.opa), TRUE)

RolLine(t, imm) == One(op_dual("ROL", t.cond, imm, t.opb, t.opa), t.opa # NoReg)

MemLine(t, imm) == One(op_dual(t.op, t.cond, imm, t.opb, t.opa), TRUE)

(* A value that does not fit, or a condition, takes a pair of words. *)
LdiLine(t, imm) ==
  IF fitsin(imm, 23) /\ t.cond = ALWAYS THEN One(op_ldi(imm, t.opa), TRUE)
  ELSE [ws |-> <<op_ldihi(t.cond, Bits(imm, 16, 16), t.opa),
                 op_ldilo(t.cond, Low(imm, 16), t.opa)>>,
        ok |-> t.opa # PC]

NegLine(t) ==
  [ws |-> IF t.cond = ALWAYS
            THEN <<op_not(ALWAYS, t.opb), Always("ADD", 1, NoReg, t.opb)>>
            ELSE <<op_mov(t.cond, -1, t.opb, t.opb), op_not(t.cond, t.opb)>>,
   ok |-> TRUE]

JmpLine(t, imm) ==
  CASE t.opb = NoReg ->
         LET cut == Low(imm, 23)
         IN  One(op_ldi(cut, PC), t.cond = ALWAYS /\ fitsin(cut, 23))
    [] t.opb # NoReg /\ fitsin(imm, 13) -> One(op_mov(t.cond, imm, t.opb, PC), TRUE)
    [] t.opb # NoReg /\ ~fitsin(imm, 13) /\ fitsin(imm, 18) ->
         One(op_dual("ADD", t.cond, imm, t.opb, PC), TRUE)
    [] OTHER -> One(NoWord, FALSE)

ClrLine(t) ==
  One(IF t.cond = ALWAYS THEN op_ldi(0, t.opb) ELSE op_clrf(t.cond, t.opb), TRUE)

(* 0x0ffdf: sixteen bits without the one that enables user mode *)
TrapLine(t, imm) ==
  CASE t.opb = NoReg /\ t.cond = ALWAYS -> One(op_ldi(imm, CC), TRUE)
    [] t.opb = NoReg /\ t.cond # ALWAYS /\ imm \in HalfWords /\ Bits(imm, 5, 1) = 0 ->
         One(op_ldilo(t.cond, imm, CC), TRUE)
    [] t.opb # NoReg /\ fitsin(imm, 13) -> One(op_mov(t.cond, imm, t.opb, CC), TRUE)
    [] OTHER -> One(IF t.cond = ALWAYS THEN op_ldi(0, CC) ELSE op_ldilo(t.cond, 0, CC), FALSE)

BareWord(t) ==
  CASE t.op = "HALT" -> op_halt(t.cond)
    [] t.op = "RTU" -> op_rtu(t.cond)
    [] t.op = "BUSY" -> op_busy(t.cond)
    [] t.op = "NOOP" -> op_noop
    [] t.op = "BREAK" -> op_break
    [] t.op = "LOCK" -> op_lock
    [] t.op = "LJMP" -> op_ljmp
BareOps == {"HALT", "RTU", "BUSY", "NOOP", "BREAK", "LOCK", "LJMP"}

(* Only a move may name a register of the user's set. *)
UserRegsOk(t) ==
  t.op = "MOV" \/ \A r \in {t.opa, t.opb} : r <= PC \/ r = NoReg

OffsetFromHere(value, pc) == value - pc   \* a mutant
(* With the program counter as base, the operand is an address. *)
Offset(value, pc) == value - pc - 1
Immediate(t, value, pc) == IF t.opb = PC THEN Offset(value, pc) ELSE value

(* The switch over the opcodes; one it does not know becomes a NOOP. *)
Switch(t, value, pc) ==
  LET imm == Immediate(t, value, pc)
  IN  CASE t.op \in DualOps -> DualLine(t, imm)
        [] t.op \in DOMAIN BranchCond -> BranchLine(t, Offset(value, pc))
        [] t.op = "MOV" -> MovLine(t, imm)
        [] t.op \in {"LDIHI", "LDILO"} -> HalfLine(t, imm)
        [] t.op \in MulOps -> MulLine(t, imm)
        [] t.op = "ROL" -> RolLine(t, imm)
        [] t.op \in {"LOD", "STO"} -> MemLine(t, imm)
        [] t.op = "LDI" -> LdiLine(t, imm)
        [] t.op = "CLRF" -> One(op_clrf(t.cond, t.opb), TRUE)
        [] t.op = "NOT" -> One(op_not(t.cond, t.opb), TRUE)
        [] t.op = "NEG" -> NegLine(t)
        [] t.op = "JMP" -> JmpLine(t, imm)
        [] t.op = "CLR" -> ClrLine(t)
        [] t.op = "TRAP" -> TrapLine(t, imm)
        [] t.op = "RETN" -> One(op_dual("LOD", t.cond, -1, SP, PC), TRUE)
        [] t.op \in BareOps -> One(BareWord(t), TRUE)
        [] OTHER -> One(op_noop, FALSE)

Assemble(t, value, pc) ==
  LET r == Switch(t, value, pc) IN [r EXCEPT !.ok = @ /\ UserRegsOk(t)]

(***************************************************************************)
(* The disassembler, for words with bit 31 clear.  What it prints is a     *)
(* record [name, cond, imm, rb, ra]; a register that is not printed is     *)
(* NoReg, and an immediate that is not printed is 0.                       *)
(***************************************************************************)
Shown(name, cond, imm, rb, ra) ==
  [name |-> name, cond |-> cond, imm |-> imm, rb |-> rb, ra |-> ra]

RegOrImmShort(w, name) ==   \* a mutant
  IF Bit18(w) = 0 THEN Shown(name, Cond(w), SBits(w, 18), NoReg, A(w))
                  ELSE Shown(name, Cond(w), SBits(w, 13), B(w), A(w))

RegOrImm(w, name) ==
  IF Bit18(w) = 0 THEN Shown(name, Cond(w), SBits(w, 18), NoReg, A(w))
                  ELSE Shown(name, Cond(w), SBits(w, 14), B(w), A(w))

BranchName == <<"BRA", "BLT", "BRZ", "BNZ", "BGE", "BGT", "BRC", "BRV">>

(* The rows for special cases, of which the first that matches is taken. *)
SpecialRows(w) ==
  << [hit |-> A(w) = PC /\ Op(w) = ZIPO.MOV /\ Low(w, 19) = 253951,  \* 0x3dfff
      row |-> Shown("BUSY", Cond(w), 0, NoReg, NoReg)],
     [hit |-> A(w) = PC /\ Op(w) = ZIPO.ADD /\ Bit18(w) = 0,
      row |-> Shown(BranchName[Cond(w) + 1], ALWAYS, SBits(w, 18), NoReg, NoReg)],
     [hit |-> Op(w) = ZIPO.XOR /\ Bit18(w) = 1 /\ A(w) = B(w) /\ Low(w, 12) = 0,
      row |-> Shown("CLRF", Cond(w), 0, NoReg, A(w))],
     [hit |-> Op(w) = ZIPO.LDI /\ Low(w, 22) = 0,
      row |-> Shown("CLR", ALWAYS, 0, NoReg, A(w))],
     [hit |-> A(w) = CC /\ Op(w) = ZIPO.OR /\ Low(w, 19) = 16,
      row |-> Shown("HALT", Cond(w), 0, NoReg, NoReg)],
     [hit |-> A(w) = CC /\ Op(w) = ZIPO.OR /\ Low(w, 19) = 48,
      row |-> Shown("WAIT", Cond(w), 0, NoReg, NoReg)],
     [hit |-> A(w) = CC /\ Op(w) = ZIPO.OR /\ Low(w, 19) = 32,
      row |-> Shown("RTU", Cond(w), 0, NoReg, NoReg)],
     [hit |-> A(w) = PC /\ Op(w) = ZIPO.MOV /\ Bit18(w) = 0,
      row |-> Shown("JMP", Cond(w), SBits(w, 13), B(w), NoReg)],
     [hit |-> A(w) = PC /\ Op(w) \in {ZIPO.LDI, ZIPO.LDI + 1},
      row |-> Shown("JMP", ALWAYS, SBits(w, 23), NoReg, PC)],
     [hit |-> w = op_ljmp, row |-> Shown("LJMP", ALWAYS, 0, NoReg, NoReg)],
     [hit |-> w - 2^19 * Cond(w) = op_ljmp + 1,
      row |-> Shown("LJMP", Cond(w), 0, NoReg, NoReg)],
     [hit |-> Op(w) = ZIPO.XOR /\ Low(w, 19) = 262143,  \* 0x3ffff
      row |-> Shown("NOT", Cond(w), 0, NoReg, A(w))] >>

GeneralName ==
  <<"SUB", "AND", "ADD", "OR", "XOR", "LSR", "LSL", "ASR", "LDIHI", "LDILO", "MPYU",
    "MPYS", "BREV", "POPC", "ROL", "MOV", "CMP", "TST", "LOD", "STO", "DIVU", "DIVS",
    "LDI", "LDI", "FPADD", "FPSUB", "FPMPY", "FPDIV", "FPCVT", "FPINT">>

IllegalRow == Shown("ILL", ALWAYS, 0, NoReg, NoReg)

(* The carve-out of the floating-point opcodes for the last two registers. *)
CarveOut(w) ==
  LET plain == Low(w, 22) = 0
  IN  CASE Op(w) = 24 /\ plain -> Shown("NOOP", ALWAYS, 0, NoReg, NoReg)
        [] Op(w) = 25 /\ Bits(w, 18, 4) = 0 -> Shown("BRK", ALWAYS, SBits(w, 18), NoReg, NoReg)
        [] Op(w) = 26 /\ plain -> Shown("LOCK", ALWAYS, 0, NoReg, NoReg)
        [] OTHER -> IllegalRow

FloatRow(w) ==
  IF \/ Op(w) \in 24..27 /\ Bit18(w) = 1 /\ Low(w, 14) = 0
     \/ Op(w) = 28
     \/ Op(w) = 29 /\ Bit18(w) = 1
    THEN RegOrImm(w, GeneralName[Op(w) + 1])
    ELSE IF A(w) \in {CC, PC} THEN CarveOut(w) ELSE IllegalRow

GeneralRow(w) ==
  CASE Op(w) = ZIPO.MOV ->
         Shown("MOV", Cond(w), SBits(w, 13), B(w) + 16 * Bit13(w), A(w) + 16 * Bit18(w))
    [] Op(w) \in {ZIPO.LDI, ZIPO.LDI + 1} ->
         Shown("LDI", ALWAYS, SBits(w, 23), NoReg, A(w))
    [] Op(w) >= 24 -> FloatRow(w)
    [] OTHER -> RegOrImm(w, GeneralName[Op(w) + 1])

zipi_to_string(w) ==
  LET rows == SpecialRows(w)
      hits == {i \in DOMAIN rows : rows[i].hit}
  IN  IF hits = {} THEN GeneralRow(w)
      ELSE rows[CHOOSE i \in hits : \A j \in hits : i <= j].row

(* Where a word leads, as the listing of a program sees it. *)
zop_early_branch(pc, w) ==
  CASE A(w) = PC /\ Op(w) = ZIPO.LDI -> Low(w, 22)
    [] A(w) = PC /\ Op(w) = ZIPO.LDI + 1 -> Low(w, 23) - 2^23
    [] A(w) = PC /\ Op(w) = ZIPO.ADD /\ Bits(w, 18, 4) = 0 -> pc + 1 + SBits(w, 18)
    [] OTHER -> pc + 1

(***************************************************************************)
(* The processor in supervisor mode: idecode.v splits a word into an       *)
(* operation, a condition, a register, and an operand B, which is an       *)
(* immediate added to a base register or to nothing.                       *)
(***************************************************************************)
w_ldi(w) == Op(w) \in {22, 23}
w_mov(w) == Op(w) = 15

w_dcdR(w) == A(w) + IF w_mov(w) THEN 16 * Bit18(w) ELSE 0
w_rB(w) == w_mov(w) \/ (Bit18(w) = 1 /\ ~w_ldi(w))
w_dcdB(w) == IF w_rB(w) THEN B(w) + IF w_mov(w) THEN 16 * Bit13(w) ELSE 0 ELSE NoReg
w_I(w) == SBits(w, IF w_ldi(w) THEN 23 ELSE IF w_mov(w) THEN 13
                   ELSE IF Bit18(w) = 0 THEN 18 ELSE 14)
w_cond(w) == IF w_ldi(w) THEN ALWAYS ELSE Cond(w)

(* The results of the arithmetic unit, and the units beside it. *)
OpName ==
  <<"SUB", "AND", "ADD", "OR", "XOR", "LSR", "LSL", "ASR", "LDIHI", "LDILO", "MPYU",
    "MPYS", "BREV", "POPC", "ROL", "MOV", "CMP", "TST", "LOD", "STO", "DIVU", "DIVS",
    "LDI", "LDI", "NOOP", "BREAK", "LOCK", "ILLEGAL", "ILLEGAL", "ILLEGAL",
    "ILLEGAL", "ILLEGAL">>

Executed(w) ==
  [name |-> OpName[Op(w) + 1], cond |-> w_cond(w), imm |-> w_I(w),
   rb |-> w_dcdB(w), ra |-> w_dcdR(w)]

(* The value a register of halves <<hi, lo>> holds after a load of an      *)
(* immediate: cpuops.v.                                                    *)
Reversed(half) ==
  LET r[i \in 0..16] == IF i = 0 THEN 0 ELSE 2 * r[i-1] + Bits(half, i-1, 1) IN r[16]
Halves(v) == <<Bits(v, 16, 16), Low(v, 16)>>
o_c(w, old) ==
  LET b == Halves(w_I(w))
  IN  CASE OpName[Op(w) + 1] = "LDI" -> b
        [] OpName[Op(w) + 1] = "BREV" -> <<Reversed(b[2]), Reversed(b[1])>>
        [] OpName[Op(w) + 1] = "LDIHI" -> <<b[2], old[2]>>
        [] OpName[Op(w) + 1] = "LDILO" -> <<old[1], b[2]>>
=============================================================================
