-------------------------------- MODULE Zasm --------------------------------
(***************************************************************************)
(* The assembler of the ZipCPU (sw/zasm): the parser's actions (zasm.y),   *)
(* and the object file, which saves the lines it cannot evaluate yet and   *)
(* rewrites them at the end (asmdata.cpp).                                 *)
(*                                                                         *)
(* A source is a sequence of files, a file a sequence of lines, and a line *)
(* a record [lab, body] with a label or NoLabel.  The text and the parsing *)
(* of it are left out: a body is one of                                    *)
(*   [k |-> "none"]                 a label alone                          *)
(*   [k |-> "equ", id, e]           a symbol for an expression             *)
(*   [k |-> "op", t, e]             an instruction, as in Isa              *)
(*   [k |-> "word", es]             a list of data words                   *)
(*   [k |-> "fill", n, e]           n times the same data word             *)
(* What expressions are and how the symbol tables give them a value is     *)
(* defined in Symbols; here the evaluation is a parameter, so that the     *)
(* layout of the file can be reasoned about for any of it.                 *)
(***************************************************************************)
EXTENDS Isa, FiniteSets

CONSTANTS
  Sources,         \* the sources to be assembled
  LocalNames,      \* the names that begin with an L
  NoLabel,
  Evaluate(_, _),  \* of an expression and the tables: [c, is, v], see Symbols
  AtLine(_, _)     \* an expression on a line with that address, see Symbols

(* What the grammar makes of an instruction (zasm.y:175): the operations   *)
(* that take an operand B may have a register in it, those with two        *)
(* operands name one as the other, and some take no condition.             *)
WithoutB == {"LDI", "LDIHI", "LDILO"} \cup DOMAIN BranchCond
Statement(t) ==
  /\ t.cond \in 0..7 /\ t.opb \in 0..NoReg /\ t.opa \in 0..NoReg
  /\ t.op \in WithoutB => t.opb = NoReg
  /\ t.op \in DualOps \cup MulOps \cup {"MOV", "ROL", "LOD", "STO", "LDI", "LDIHI", "LDILO"}
       => t.opa # NoReg

ASSUME NoLabelAssumption == NoLabel \notin LocalNames
ASSUME SourcesAssumption ==
  \A s \in Sources :
    /\ Len(s) \in Nat \ {0} /\ DOMAIN s = 1..Len(s)
    /\ \A f \in DOMAIN s :
         /\ Len(s[f]) \in Nat /\ DOMAIN s[f] = 1..Len(s[f])
         /\ \A l \in DOMAIN s[f] : s[f][l].body.k = "op" => Statement(s[f][l].body.t)

VARIABLES
  src,               \* the source
  at,                \* where the parser is: <<file, line>>
  ctx,               \* the symbol tables: [file, glob, deep]
  global_parser_pc,
  m_pc,              \* the object file's own counter
  out,               \* the words in the file
  m_tbl,             \* the saved lines, each with its place in placed
  phase,             \* "parse", "reduce", "done", or "overflow" of the stack
  reduced,           \* how many saved lines have been looked at again
  placed             \* history: for each line its file, number, address and
                     \* size, and the value an instruction was made with, if any

vars == <<src, at, ctx, global_parser_pc, m_pc, out, m_tbl, phase, reduced, placed>>

DEFAULT_LINE == op_noop

Number(v) == [k |-> "N", v |-> v]

(* A table is a sequence of entries, the newest of a name first.           *)
define(tab, key, value) == <<[name |-> key, val |-> value]>> \o tab

(***************************************************************************)
(* Lines                                                                   *)
(***************************************************************************)
nlinesShort(t, r) == IF r.is /\ (t.cond # ALWAYS \/ ~fitsin(r.v, 23)) THEN 2 ELSE 1  \* a mutant

(* TLINE::nlines: an LDI that is not known yet reserves two words. *)
nlines(t, r) ==
  IF t.op = "LDI" /\ (~r.is \/ t.cond # ALWAYS \/ ~fitsin(r.v, 23)) THEN 2 ELSE 1

(* TLINE::eval(lno), for the n words from the line's address on *)
TWords(n, t, r, pc) ==
  [i \in 1..n |->
     LET ws == Assemble(t, r.v, pc + i - 1).ws
     IN  IF r.is /\ i <= Len(ws) THEN ws[i] ELSE DEFAULT_LINE]

(* The parser hands over a line it has evaluated, or the tree to evaluate  *)
(* when the line is added, after the label before it has been defined.     *)
Done(ws, value, c) == [known |-> TRUE, ws |-> ws, value |-> value, c |-> c]

(* A line names its address by the parser's counter, and is assembled with *)
(* that of the object file.                                                *)
OpLine(b, here, pc, c) ==
  LET e == AtLine(b.e, here)
      r == Evaluate(e, c)
  IN  IF r.is THEN Done(Assemble(b.t, r.v, pc).ws, {r.v}, r.c)
      ELSE [known |-> FALSE, t |-> b.t, e |-> e, c |-> r.c]

(* A list with a word that is not known becomes a void line; after the     *)
(* first word, one that is makes a list again, the void line in it.        *)
WordLine(es, here, c) ==
  LET read[n \in 0..Len(es)] ==
        IF n = 0 THEN [c |-> c, is |-> TRUE, v |-> 0]
        ELSE Evaluate(AtLine(es[n], here), read[n-1].c)
      kept == Cardinality({n \in 1..Len(es) : \A m \in n..Len(es) : read[m].is})
      void == IF 0 < kept /\ kept < Len(es) THEN <<DEFAULT_LINE>> ELSE <<>>
  IN  Done(void \o [i \in 1..kept |-> read[Len(es) - kept + i].v], {}, read[Len(es)].c)

FillLineOver(b, here, c) ==   \* a mutant
  LET n == Evaluate(AtLine(b.n, here), c)
      r == Evaluate(AtLine(b.e, here), n.c)
  IN  IF n.is /\ r.is THEN Done([i \in 1 .. n.v + 1 |-> r.v], {}, r.c) ELSE Done(<<>>, {}, r.c)

FillLine(b, here, c) ==
  LET n == Evaluate(AtLine(b.n, here), c)
      r == Evaluate(AtLine(b.e, here), n.c)
  IN  IF n.is /\ r.is THEN Done([i \in 1..n.v |-> r.v], {}, r.c) ELSE Done(<<>>, {}, r.c)

(* The label gets the parser's counter once the line behind it is parsed. *)
Labelled(lab, c) ==
  CASE lab = NoLabel -> c
    [] lab \in LocalNames -> [c EXCEPT !.file = define(@, lab, Number(global_parser_pc))]
    [] OTHER -> [c EXCEPT !.glob = define(@, lab, Number(global_parser_pc))]

(***************************************************************************)
(* The steps                                                               *)
(***************************************************************************)
Line == src[at[1]][at[2]]

Here(kind) ==
  /\ phase = "parse"
  /\ at[2] <= Len(src[at[1]])
  /\ Line.body.k = kind

Settle(c) ==
  /\ ctx' = c
  /\ phase' = IF c.deep THEN "overflow" ELSE phase

(* How long a line says it is, which evaluates an LDI that is kept a tree. *)
Counted(obj, c) ==
  IF obj.known THEN [n |-> Len(obj.ws), c |-> c]
  ELSE IF obj.t.op = "LDI" THEN LET r == Evaluate(obj.e, c) IN [n |-> nlines(obj.t, r), c |-> r.c]
  ELSE [n |-> 1, c |-> c]

CountedBefore(obj, c) == Counted(obj, ctx)   \* a mutant
(* The parser asks again, of the tables that adding the line left. *)
CountedAgain(obj, c) == Counted(obj, c)

(* OBJFILE::operator+=, and the parser's counter after it *)
Add(obj) ==
  LET first == Counted(obj, Labelled(Line.lab, obj.c))
      r == IF obj.known THEN [c |-> first.c, is |-> TRUE, v |-> 0] ELSE Evaluate(obj.e, first.c)
      again == CountedAgain(obj, r.c)
      left == IF obj.known THEN again.c ELSE Evaluate(obj.e, again.c).c   \* isdefined
      ws == IF obj.known THEN obj.ws ELSE TWords(first.n, obj.t, r, m_pc)
      value == IF obj.known THEN obj.value ELSE IF r.is THEN {r.v} ELSE {}
  IN  /\ out' = out \o ws
      /\ m_tbl' = IF r.is THEN m_tbl
                  ELSE Append(m_tbl, [m_pc |-> m_pc, t |-> obj.t, e |-> obj.e,
                                      line |-> Len(placed) + 1])
      /\ m_pc' = m_pc + first.n
      /\ global_parser_pc' = global_parser_pc + again.n
      /\ placed' = Append(placed, [f |-> at[1], l |-> at[2], addr |-> m_pc, n |-> first.n,
                                   value |-> value])
      /\ at' = <<at[1], at[2] + 1>>
      /\ Settle(left)
      /\ UNCHANGED <<src, reduced>>

Instruction == Here("op") /\ Add(OpLine(Line.body, global_parser_pc, m_pc, ctx))

Data ==
  \/ Here("word") /\ Add(WordLine(Line.body.es, global_parser_pc, ctx))
  \/ Here("fill") /\ Add(FillLine(Line.body, global_parser_pc, ctx))

Label == Here("none") /\ Add(Done(<<>>, {}, ctx))

(* Symbols are local to the file. *)
Equ ==
  /\ Here("equ")
  /\ LET e == AtLine(Line.body.e, global_parser_pc)
     IN  Add(Done(<<>>, {}, [ctx EXCEPT !.file = define(@, Line.body.id, e)]))

(* create_new_context: the symbols of the file before are dropped. *)
NextFile ==
  /\ phase = "parse"
  /\ at[2] > Len(src[at[1]]) /\ at[1] < Len(src)
  /\ at' = <<at[1] + 1, 1>>
  /\ ctx' = [ctx EXCEPT !.file = <<>>]
  /\ UNCHANGED <<src, global_parser_pc, m_pc, out, m_tbl, phase, reduced, placed>>

EndOfInput ==
  /\ phase = "parse"
  /\ at[2] > Len(src[at[1]]) /\ at[1] = Len(src)
  /\ phase' = "reduce"
  /\ UNCHANGED <<src, at, ctx, global_parser_pc, m_pc, out, m_tbl, reduced, placed>>

(* OBJFILE::reduce, one saved line at a time; the counter is put back. *)
OverwriteNext(ws, words, pc) ==   \* a mutant
  [i \in DOMAIN ws |-> IF i - pc - 1 \in DOMAIN words THEN words[i - pc - 1] ELSE ws[i]]

Overwrite(ws, words, pc) ==
  [i \in DOMAIN ws |-> IF i - pc \in DOMAIN words THEN words[i - pc] ELSE ws[i]]

Reduce ==
  /\ phase = "reduce" /\ reduced < Len(m_tbl)
  /\ LET s == m_tbl[reduced + 1]
         r == Evaluate(s.e, ctx)
     IN  /\ out' = IF r.is THEN Overwrite(out, TWords(nlines(s.t, r), s.t, r, s.m_pc), s.m_pc) ELSE out
         /\ placed' = IF r.is THEN [placed EXCEPT ![s.line].value = {r.v}] ELSE placed
         /\ Settle(r.c)
  /\ reduced' = reduced + 1
  /\ UNCHANGED <<src, at, global_parser_pc, m_pc, m_tbl>>

Finish ==
  /\ phase = "reduce" /\ reduced = Len(m_tbl)
  /\ phase' = "done"
  /\ UNCHANGED <<src, at, ctx, global_parser_pc, m_pc, out, m_tbl, reduced, placed>>

Init ==
  /\ src \in Sources
  /\ at = <<1, 1>>
  /\ ctx = [file |-> <<>>, glob |-> <<>>, deep |-> FALSE]
  /\ global_parser_pc = 0 /\ m_pc = 0
  /\ out = <<>> /\ m_tbl = <<>>
  /\ phase = "parse" /\ reduced = 0
  /\ placed = <<>>

Next ==
  \/ Instruction \/ Data \/ Label \/ Equ
  \/ NextFile \/ EndOfInput
  \/ Reduce \/ Finish

Spec == Init /\ [][Next]_vars

(***************************************************************************)
(* The source and the lines of the file                                    *)
(***************************************************************************)
Places == UNION {{<<f, l>> : l \in DOMAIN src[f]} : f \in DOMAIN src}
At(d) == src[d[1]][d[2]]
IsLabel(d, id) == At(d).lab = id
IsEqu(d, id) == At(d).body.k = "equ" /\ At(d).body.id = id
Definitions(id) == {d \in Places : IsLabel(d, id) \/ IsEqu(d, id)}

Lines == {placed[i] : i \in DOMAIN placed}
Body(p) == At(<<p.f, p.l>>).body
Instructions == {p \in Lines : Body(p).k = "op"}
Written(p) == SubSeq(out, p.addr + 1, p.addr + p.n)

(***************************************************************************)
(* Properties                                                              *)
(***************************************************************************)
(* The counter the labels are taken from, the one the branches are relative *)
(* to, and the length of the file stay the same, though the parser asks for *)
(* a line's length again after the line was evaluated and the tables were   *)
(* changed by it (asmdata.cpp:164, zasm.y:94); and every global label that  *)
(* is defined once has the address of what was written behind it.           *)
LayoutAgrees ==
  /\ m_pc = Len(out)
  /\ phase # "overflow" => global_parser_pc = Len(out)
  /\ \A i \in DOMAIN ctx.glob, p \in Lines :
       LET id == ctx.glob[i].name
           d == <<p.f, p.l>>
       IN  IsLabel(d, id) /\ Definitions(id) = {d} => ctx.glob[i].val = Number(p.addr)

(* Once the source is read, the file changes only where a NOOP holds the    *)
(* place of a saved line (asmdata.cpp:185); before, it only grows.          *)
OnlyReservedRewritten ==
  [][ /\ Len(out') >= Len(out)
      /\ \A i \in DOMAIN out :
           out'[i] # out[i] =>
             /\ phase = "reduce" /\ out[i] = DEFAULT_LINE
             /\ \E p \in Instructions : i \in p.addr + 1 .. p.addr + p.n
                                        /\ \E s \in DOMAIN m_tbl : m_tbl[s].m_pc = p.addr ]_vars

(***************************************************************************)
(* What a row of the disassembler says: the operations of the processor    *)
(* that go by its name (doc/src/spec.tex:959, "Derived Instructions").     *)
(***************************************************************************)
Operation(name, cond, imm, rb, ra) ==
  [name |-> name, cond |-> cond, imm |-> imm, rb |-> rb, ra |-> ra]

RowCond == [BRA |-> 0, BLT |-> 1, BRZ |-> 2, BNZ |-> 3, BGT |-> 4, BGE |-> 5, BRC |-> 6,
            BRV |-> 7]

Says(row) ==
  CASE row.name \in DOMAIN RowCond -> {Operation("ADD", RowCond[row.name], row.imm, NoReg, PC)}
    [] row.name = "BUSY" -> {Operation("ADD", row.cond, -1, NoReg, PC),   \* any endless loop
                             Operation("MOV", row.cond, -1, PC, PC)}
    [] row.name = "CLRF" -> {Operation("XOR", row.cond, 0, row.ra, row.ra)}
    [] row.name = "NOT" -> {Operation("XOR", row.cond, -1, NoReg, row.ra)}
    [] row.name = "CLR" -> {Operation("LDI", row.cond, 0, NoReg, row.ra)}
    [] row.name = "HALT" -> {Operation("OR", row.cond, 16, NoReg, CC)}
    [] row.name = "RTU" -> {Operation("OR", row.cond, 32, NoReg, CC)}
    [] row.name = "WAIT" -> {Operation("OR", row.cond, 48, NoReg, CC)}
    [] row.name = "JMP" /\ row.rb = NoReg -> {Operation("LDI", row.cond, row.imm, NoReg, PC)}
    [] row.name = "JMP" /\ row.rb # NoReg -> {Operation("MOV", row.cond, row.imm, row.rb, PC)}
    [] row.name = "LJMP" -> {Operation("LOD", row.cond, 0, PC, PC)}
    [] row.name \in {"NOOP", "LOCK"} -> {Operation(row.name, row.cond, 0, NoReg, r) : r \in {CC, PC}}
    [] row.name = "BRK" -> {Operation("BREAK", row.cond, row.imm, NoReg, r) : r \in {CC, PC}}
    [] OTHER -> {row}

(* The words the tables show as something else: the branches for .GT and    *)
(* .GE, whose rows are swapped; an XOR of a register with itself and an     *)
(* offset of 4096 or -4096, shown as CLRF; a user's register moved to the   *)
(* program counter, shown as a jump to the supervisor's; and the word       *)
(* behind the next one loaded there, shown as LJMP.                         *)
Misshown(w) ==
  \/ A(w) = PC /\ Op(w) = ZIPO.ADD /\ Bit18(w) = 0 /\ Cond(w) \in {GT, GE}
  \/ Op(w) = ZIPO.XOR /\ Bit18(w) = 1 /\ A(w) = B(w) /\ Bits(w, 0, 14) \in {4096, 8192, 12288}
  \/ A(w) = PC /\ Op(w) = ZIPO.MOV /\ Bit18(w) = 0 /\ Bit13(w) = 1
  \/ w - 2^19 * Cond(w) = op_ljmp + 1

(* The instructions whose words were made from a value, without an error.  *)
Accepted(p) == \A v \in p.value : Assemble(Body(p).t, v, p.addr).ok
Settled == {p \in Instructions : p.value # {} /\ Accepted(p)}

(* A listing shows what the processor will do: of every word of every      *)
(* accepted statement the row says the very operation that is executed,     *)
(* those above excepted, and none of these is shown right                   *)
(* (zopcodes.cpp:524 against idecode.v:127).                                *)
ListingTrue ==
  phase = "done" =>
    \A p \in Settled : \A i \in 1..p.n :
      LET w == Written(p)[i]
      IN  Executed(w) \in Says(zipi_to_string(w)) <=> ~Misshown(w)

(* What the processor is to do for a statement, and the bits the word has   *)
(* for its immediate.                                                       *)
Intended(t, value, pc) ==
  LET relative == value - (pc + 1)
      imm == IF t.opb = PC THEN relative ELSE value
  IN  CASE t.op \in DOMAIN BranchCond ->
             Operation("ADD", BranchCond[t.op], relative, NoReg, PC)
        [] t.op = "JMP" /\ t.opb = NoReg -> Operation("LDI", ALWAYS, value, NoReg, PC)
        [] t.op = "JMP" /\ t.opb # NoReg -> Operation("MOV", t.cond, imm, t.opb, PC)
        [] t.op = "TRAP" /\ t.opb # NoReg -> Operation("MOV", t.cond, imm, t.opb, CC)
        [] t.op = "TRAP" /\ t.opb = NoReg ->
             Operation(IF t.cond = ALWAYS THEN "LDI" ELSE "LDILO", t.cond, value, NoReg, CC)
        [] t.op = "RETN" -> Operation("LOD", t.cond, -1, SP, PC)
        [] t.op = "NOT" -> Operation("XOR", t.cond, -1, NoReg, t.opb)
        [] t.op = "CLRF" -> Operation("XOR", t.cond, 0, t.opb, t.opb)
        [] OTHER -> Operation(t.op, t.cond, imm, t.opb, t.opa)

Width(t) ==
  CASE t.op = "LDI" \/ (t.op \in {"JMP", "TRAP"} /\ t.opb = NoReg) -> 23
    [] t.op = "MOV" \/ (t.op \in {"JMP", "TRAP"} /\ t.opb # NoReg) -> 13
    [] /\ t.op \notin {"LDI", "MOV", "JMP", "TRAP"}
       /\ t.op \in DOMAIN BranchCond \/ t.opb = NoReg -> 18
    [] OTHER -> 14

(* Whether the word keeps the immediate.  That of a multiply is cut to 16   *)
(* bits and read with a sign of 18.                                         *)
Kept(t, imm) ==
  /\ imm \in -(2^(Width(t) - 1)) .. 2^(Width(t) - 1) - 1
  /\ t.op \in {"MPYU", "MPYS"} /\ t.opb = NoReg => imm \in HalfWords

(* The statements that are one operation of the processor.  The grammar     *)
(* lets NOT and CLRF of a number pass, which become those of register 0.    *)
Direct(t) ==
  /\ t.op \in DualOps \cup DOMAIN BranchCond
               \cup {"MPYU", "MPYS", "MOV", "LDI", "LDILO", "ROL", "LOD", "STO", "JMP",
                     "TRAP", "RETN", "NOT", "CLRF"}
  /\ t.op \in {"NOT", "CLRF"} => t.opb # NoReg

(* The checks let these pass though the word may not keep them: fitsin      *)
(* takes negatives of twice the field, nothing looks at some operands, an   *)
(* absolute jump is cut before it is checked, and a jump by more than a     *)
(* move can hold becomes an addition (asmdata.cpp:216, 299, 317, 349, 403,  *)
(* 413, 450).                                                               *)
Unguarded(t, imm) ==
  \/ imm \in -(2^Width(t)) .. -1
  \/ t.op \in {"LOD", "STO", "ROL", "MPYU", "MPYS"}
  \/ t.op = "TRAP" /\ t.opb = NoReg
  \/ t.op = "JMP" /\ t.opb = NoReg /\ Low(imm, 23) < 2^22
  \/ t.op = "JMP" /\ t.opb # NoReg /\ imm \in -(2^18) .. 2^17 - 1

(* The processor does what an accepted statement says, its operation on     *)
(* its registers, under its condition, with the operand it was given,       *)
(* exactly if the word keeps the operand, and then a branch goes to the     *)
(* address of its label (idecode.v:127).  Where the word does not keep the  *)
(* operand, the assembler reports it, but for the operands above.           *)
ExecutedAsWritten ==
  phase = "done" =>
    \A p \in Settled : \A v \in p.value :
      LET t == Body(p).t
          does == Intended(t, v, p.addr)
      IN  Direct(t) /\ p.n = 1 =>
            /\ Executed(Written(p)[1]) = does <=> Kept(t, does.imm)
            /\ t.op = "BRA" /\ Kept(t, does.imm) => zop_early_branch(p.addr, Written(p)[1]) = v
            /\ Kept(t, does.imm) \/ Unguarded(t, does.imm)

(* "Together with LDILO ... fully loading any register takes two cycles"    *)
(* (doc/src/spec.tex:1029): a register holds the value of an LDI after it,  *)
(* whatever the value and whatever the register held (asmdata.cpp:367).     *)
LdiLoads ==
  phase = "done" =>
    \A p \in Settled : \A v \in p.value :
      LET loaded[i \in 0..p.n] ==
            IF i = 0 THEN <<0, 0>> ELSE o_c(Written(p)[i], loaded[i-1])
      IN  Body(p).t.op = "LDI" => loaded[p.n] = Halves(v)
=============================================================================
