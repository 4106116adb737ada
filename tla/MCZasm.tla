------------------------------- MODULE MCZasm -------------------------------
(* The sources the assembler is checked on. *)
EXTENDS Symbols, SourceMeaning

Stmt(op, cond, opb, opa) == [op |-> op, cond |-> cond, opb |-> opb, opa |-> opa]
Id(id) == [k |-> "I", id |-> id]
Here0 == [k |-> "H"]
Plus(l, r) == [k |-> "B", op |-> "+", l |-> l, r |-> r]
Minus(l, r) == [k |-> "B", op |-> "-", l |-> l, r |-> r]

Ins(t, e) == [lab |-> NoLabel, body |-> [k |-> "op", t |-> t, e |-> e]]
Labels(lab) == [lab |-> lab, body |-> [k |-> "none"]]
Equate(id, e) == [lab |-> NoLabel, body |-> [k |-> "equ", id |-> id, e |-> e]]
Word(es) == [lab |-> NoLabel, body |-> [k |-> "word", es |-> es]]
Fill(n, e) == [lab |-> NoLabel, body |-> [k |-> "fill", n |-> Number(n), e |-> e]]

Bra == Stmt("BRA", ALWAYS, NoReg, NoReg)
Ldi == Stmt("LDI", ALWAYS, NoReg, 1)

(* Names: a is global, La local to a file. *)
MCLocal == {"La"}

Statements ==
  { Labels("a"), Labels("La"),
    [lab |-> "a", body |-> [k |-> "op", t |-> Bra, e |-> Id("a")]],
    [lab |-> "a", body |-> [k |-> "op", t |-> Ldi, e |-> Id("a")]],
    Ins(Bra, Id("a")), Ins(Bra, Plus(Id("La"), Number(1))),
    Ins(Ldi, Id("a")), Ins(Ldi, Number(2^23)),
    Equate("a", Plus(Id("La"), Number(2^23))), Equate("a", Id("a")), Equate("b", Id("a")),
    Equate("a", Id("b")), Equate("La", Here0),
    Ins(Ldi, Minus(Id("b"), Here0)),
    Word(<<Id("a")>>), Word(<<Number(7), Id("La"), Number(8)>>), Fill(2, Id("b")) }

UpTo(S, n) == UNION {[1..k -> S] : k \in 0..n}

OneFile == {<<f>> : f \in UpTo(Statements, 3)}

Shared ==
  { Labels("a"), Ins(Bra, Id("a")), Labels("La"), Ins(Ldi, Id("La")), Equate("a", Number(5)),
    Equate("La", Id("a")), Fill(2, Number(7)) }
TwoFiles == UpTo(Shared, 2) \X UpTo(Shared, 2)

(* One statement each, of every form the grammar has. *)
Edges ==
  {0, 1, 2, -1, 16, 48, 65535, 305419896}
    \cup UNION {{2^n - 1, 2^n, -(2^n), -(2^n) - 1} : n \in {12, 13, 17, 22}}
SomeRegs == {NoReg, 1, CC, PC, 17}
SomeConds == {ALWAYS, 2, GT, GE}

DualStatements ==
  [op : DualOps \cup MulOps \cup {"MOV", "ROL", "LOD", "STO", "FPADD"}, cond : {ALWAYS, 2},
   opb : SomeRegs, opa : {1, CC, PC, 17}]
SingleStatements ==
  [op : {"JMP", "TRAP"}, cond : {ALWAYS, 2}, opb : SomeRegs, opa : {NoReg}]
RegisterStatements ==
  [op : {"CLRF", "NOT", "NEG", "CLR"}, cond : SomeConds, opb : SomeRegs, opa : {NoReg}]
BareStatements ==
  [op : BareOps \cup {"RETN"}, cond : SomeConds, opb : {NoReg}, opa : {NoReg}]
LoadStatements ==
  [op : {"LDIHI", "LDILO"}, cond : SomeConds, opb : {NoReg}, opa : SomeRegs \ {NoReg}]
LdiStatements ==
  [op : {"LDI"}, cond : {ALWAYS}, opb : {NoReg}, opa : SomeRegs \ {NoReg}]
BranchStatements ==
  [op : DOMAIN BranchCond, cond : {ALWAYS}, opb : {NoReg}, opa : {NoReg}]

Alone(ts, values) == {<< <<Ins(t, Number(v))>> >> : t \in ts, v \in values}

OneStatement ==
  Alone(DualStatements \cup SingleStatements \cup LoadStatements \cup LdiStatements
          \cup BranchStatements, Edges)
    \cup Alone(RegisterStatements \cup BareStatements, {0})

(* What the proofs assume of the evaluation, on small trees and tables:    *)
(* every answer is a number or that it is not known yet, the local symbols  *)
(* are trees still, and the global ones are left alone.                     *)
RECURSIVE IsTree(_)
IsTree(e) ==
  CASE e.k = "N" -> e.v \in Int
    [] e.k = "I" -> TRUE
    [] e.k = "B" -> IsTree(e.l) /\ IsTree(e.r)
    [] OTHER -> FALSE

FewNames == {"a", "La"}
FewTrees ==
  {Number(3), Id("a"), Id("La"), Id("b"), Plus(Id("a"), Number(1)), Minus(Id("La"), Id("b"))}
FewTables ==
  [file : UpTo([name : FewNames, val : FewTrees], 2),
   glob : UpTo([name : FewNames, val : {Number(5)}], 1), deep : {FALSE}]

ASSUME EvaluationAnswers ==
  /\ \A e \in FewTrees \cup {Here0, Minus(Id("b"), Here0)} : IsTree(TreeAtLine(e, 7))
  /\ \A e \in FewTrees, c \in FewTables :
       LET r == EvaluateTree(e, c)
       IN  /\ r.is \in BOOLEAN /\ r.v \in Int /\ r.c.deep \in BOOLEAN /\ r.c.glob = c.glob
           /\ DOMAIN r.c.file = DOMAIN c.file
           /\ EvaluateTree(e, Deep(c)).c.deep
           /\ LET again == EvaluateTree(e, r.c) IN ~again.c.deep => again.is = r.is /\ again.v = r.v
           /\ \A i \in DOMAIN c.file : /\ r.c.file[i].name = c.file[i].name
                                       /\ IsTree(r.c.file[i].val)

MCSources == OneFile \cup TwoFiles \cup OneStatement
MCLoads == Alone(LdiStatements, {v \in Edges : v >= -(2^22)})
=============================================================================
