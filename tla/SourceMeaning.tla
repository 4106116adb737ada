---------------------------- MODULE SourceMeaning ---------------------------
(***************************************************************************)
(* What a source of the assembler means, without tables and passes: the    *)
(* definitions of a name, and from them the value of an expression, as a   *)
(* set that is empty when the meaning is not settled; and that the file is *)
(* what the source means.                                                  *)
(***************************************************************************)
EXTENDS Zasm

Global(d, id) == IsLabel(d, id) /\ id \notin LocalNames
Before(d, p) == d[1] < p[1] \/ (d[1] = p[1] /\ d[2] < p[2])

(* The definitions there are when line p is added, its own label with it   *)
(* when it is an instruction, and those that remain at the end.            *)
Early(id, p) ==
  {d \in Definitions(id) : /\ Global(d, id) \/ d[1] = p[1]
                           /\ Before(d, p) \/ (d = p /\ At(p).body.k = "op")}
Late(id, p) ==
  {d \in Definitions(id) : Global(d, id) \/ d[1] \in {p[1], Len(src)}}

Address(d) == (CHOOSE q \in {placed[i] : i \in DOMAIN placed} : <<q.f, q.l>> = d).addr

RECURSIVE Meaning(_, _, _, _, _)
Meaning(e, d, p, early, seen) ==
  CASE e.k = "N" -> {e.v}
    [] e.k = "H" -> {Address(d)}
    [] e.k = "B" -> {IF e.op = "+" THEN x + y ELSE x - y :
                       x \in Meaning(e.l, d, p, early, seen), y \in Meaning(e.r, d, p, early, seen)}
    [] e.k = "I" ->
         LET ds == IF early THEN Early(e.id, p) ELSE Late(e.id, p)
             def == CHOOSE x \in ds : TRUE
         IN  IF \/ Cardinality(ds) # 1
                \/ e.id \in seen
                \/ ~early /\ p[1] # Len(src) /\ ~Global(def, e.id)
               THEN {}
               ELSE IF IsLabel(def, e.id) THEN {Address(def)}
               ELSE Meaning(At(def).body.e, def, p, early, seen \cup {e.id})

(* An instruction may wait for the end of the source, data may not. *)
Value(e, p) ==
  LET now == Meaning(e, p, p, TRUE, {})
  IN  IF now # {} \/ At(p).body.k # "op" THEN now ELSE Meaning(e, p, p, FALSE, {})

RECURSIVE Names(_)
Names(e) ==
  CASE e.k = "I" -> {e.id}
    [] e.k = "B" -> Names(e.l) \cup Names(e.r)
    [] OTHER -> {}

Padded(ws, n) == [i \in 1..n |-> IF i <= Len(ws) THEN ws[i] ELSE DEFAULT_LINE]
Operand(p) == Value(Body(p).e, <<p.f, p.l>>)

(***************************************************************************)
(* Properties                                                              *)
(***************************************************************************)
(* At the end an instruction is in the file as it was written: with the     *)
(* value of its operand, when the source settles it, even if that became    *)
(* known long after its words were reserved, and as a NOOP when it names    *)
(* a symbol that is defined nowhere (asmdata.cpp:185).                      *)
InstructionsAsWritten ==
  phase = "done" =>
    \A p \in Instructions :
      /\ Operand(p) # {} => p.value = Operand(p)
      /\ \A v \in Operand(p) :
           LET ws == Assemble(Body(p).t, v, p.addr).ws
           IN  Len(ws) <= p.n /\ Written(p) = Padded(ws, p.n)
      /\ (\E id \in Names(Body(p).e) : Definitions(id) = {})
           => Written(p) = Padded(<<>>, p.n)

(* Data whose values are settled where they stand are in the file, one word *)
(* for each (zasm.y:135).                                                   *)
DataAsWritten ==
  phase = "done" =>
    \A p \in Lines :
      LET d == <<p.f, p.l>>
          es == CASE Body(p).k = "word" -> Body(p).es
                  [] Body(p).k = "fill" -> [i \in 1..Body(p).n.v |-> Body(p).e]
                  [] OTHER -> <<>>
      IN  Body(p).k # "op" /\ (\A i \in DOMAIN es : Value(es[i], d) # {})
            => /\ p.n = Len(es)
               /\ \A i \in DOMAIN es : Written(p)[i] \in Value(es[i], d)

(* The names a symbol stands for, through the EQUs of the file being read. *)
Alias(id) ==
  UNION {Names(At(d).body.e) : d \in {d \in Definitions(id) : IsEqu(d, id)}}
RECURSIVE Reach(_, _)
Reach(ids, n) == IF n = 0 THEN ids ELSE Reach(ids \cup UNION {Alias(id) : id \in ids}, n - 1)

(* Evaluation comes to an end (asmdata.cpp:670), cycles of EQUs included,   *)
(* except where a symbol stands for itself and for a global label as well.  *)
EvaluationEnds ==
  phase = "overflow" =>
    \E d \in Places : At(d).body.k = "equ" /\
      LET id == At(d).body.id
          met == Reach(Alias(id), Cardinality(Places))
      IN  id \in met /\ \E g \in met, x \in Places : Global(x, g)
=============================================================================
