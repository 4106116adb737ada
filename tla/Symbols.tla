------------------------------ MODULE Symbols -------------------------------
(***************************************************************************)
(* The expressions and symbol tables of the assembler (sw/zasm).  An       *)
(* expression is one of                                                    *)
(*   [k |-> "N", v]           a number                                     *)
(*   [k |-> "I", id]          a symbol                                     *)
(*   [k |-> "H"]              the address of the line                      *)
(*   [k |-> "B", op, l, r]    an operation                                 *)
(*                                                                         *)
(* Asking whether a symbol is defined reduces its expression, and asking   *)
(* for its value replaces the expression by a number, so both return the   *)
(* tables they leave.  busy holds the entries whose m_recursion_check is   *)
(* set.                                                                    *)
(***************************************************************************)
EXTENDS Zasm

CONSTANT MaxDepth   \* bound of the depth of evaluation, see Deep

lookup(tab, key) ==
  LET hits == {i \in DOMAIN tab : tab[i].name = key}
  IN  IF hits = {} THEN 0 ELSE CHOOSE i \in hits : \A j \in hits : i <= j

Unmarked(busy, id) == busy   \* a mutant
Marked(busy, id) == busy \cup {id}

(* The code has no bound; at this depth its recursion has no end either.   *)
Deep(c) == [c EXCEPT !.deep = TRUE]

(* The functions below call each other: one of them on x, an expression or  *)
(* a pair of a table and a name.                                            *)
RECURSIVE Ask(_, _, _, _, _)

(* AST::isdefined *)
IsDefined(e, c, busy, d) ==
  CASE e.k = "N" -> [c |-> c, is |-> TRUE]
    [] e.k = "I" ->
         LET local == Ask("entry defined", <<"file", e.id>>, c, busy, d)
         IN  IF local.is THEN local ELSE Ask("entry defined", <<"glob", e.id>>, local.c, busy, d)
    [] e.k = "B" ->
         LET left == Ask("defined", e.l, c, busy, d)
         IN  IF left.is THEN Ask("defined", e.r, left.c, busy, d) ELSE left

(* SYMBOL_TABLE::isdefined and SYMTABLE_ENTRY::isdefined *)
EntryDefined(tab, key, c, busy, d) ==
  LET i == lookup(c[tab], key)
  IN  CASE d > MaxDepth -> [c |-> Deep(c), is |-> FALSE]
        [] d <= MaxDepth /\ (i = 0 \/ <<tab, i>> \in busy) -> [c |-> c, is |-> FALSE]
        [] OTHER ->
             LET now == Marked(busy, <<tab, i>>)
                 r == Ask("reduced", c[tab][i].val, c, now, d + 1)
             IN  Ask("defined", r.e, [r.c EXCEPT ![tab][i].val = r.e], now, d + 1)

(* AST::eval; an unknown symbol is 0 *)
ValueOf(e, c, busy, d) ==
  CASE e.k = "N" -> [c |-> c, v |-> e.v]
    [] e.k = "I" ->
         LET local == Ask("entry defined", <<"file", e.id>>, c, busy, d)
         IN  Ask("entry value", <<IF local.is THEN "file" ELSE "glob", e.id>>, local.c, busy, d)
    [] e.k = "B" ->
         LET left == Ask("value", e.l, c, busy, d)
             right == Ask("value", e.r, left.c, busy, d)
         IN  [c |-> right.c, v |-> IF e.op = "+" THEN left.v + right.v ELSE left.v - right.v]

(* SYMBOL_TABLE::value and SYMTABLE_ENTRY::val *)
EntryValue(tab, key, c, busy, d) ==
  LET i == lookup(c[tab], key)
  IN  CASE d > MaxDepth -> [c |-> Deep(c), v |-> 0]
        [] d <= MaxDepth /\ i = 0 -> [c |-> c, v |-> 0]
        [] OTHER ->
             LET known == Ask("defined", c[tab][i].val, c, busy, d + 1)
                 r == Ask("value", known.c[tab][i].val, known.c, busy, d + 1)
             IN  [c |-> IF known.is THEN [r.c EXCEPT ![tab][i].val = Number(r.v)] ELSE r.c,
                  v |-> r.v]

(* AST::reduce: the sides of an operation that are defined become numbers. *)
Reduced(e, c, busy, d) ==
  LET Side(s, c0) ==
        LET known == Ask("defined", s, c0, busy, d)
            r == Ask("value", s, known.c, busy, d)
        IN  IF known.is THEN [c |-> r.c, e |-> Number(r.v)]
            ELSE Ask("reduced", s, known.c, busy, d)
      left == Side(e.l, c)
      right == Side(e.r, left.c)
  IN  IF e.k # "B" THEN [c |-> c, e |-> e]
      ELSE [c |-> right.c, e |-> [e EXCEPT !.l = left.e, !.r = right.e]]

Ask(what, x, c, busy, d) ==
  CASE what = "defined" -> IsDefined(x, c, busy, d)
    [] what = "value" -> ValueOf(x, c, busy, d)
    [] what = "reduced" -> Reduced(x, c, busy, d)
    [] what = "entry defined" -> EntryDefined(x[1], x[2], c, busy, d)
    [] what = "entry value" -> EntryValue(x[1], x[2], c, busy, d)

(* What a line of the parser learns of an expression, in one step. *)
EvaluateTree(e, c) ==
  LET known == Ask("defined", e, c, {}, 0)
      r == Ask("value", e, known.c, {}, 0)
  IN  IF known.is THEN [c |-> r.c, is |-> TRUE, v |-> r.v]
      ELSE [c |-> known.c, is |-> FALSE, v |-> 0]

RECURSIVE TreeAtLine(_, _)
TreeAtLine(e, pc) ==
  CASE e.k = "H" -> Number(pc)
    [] e.k = "B" -> [e EXCEPT !.l = TreeAtLine(e.l, pc), !.r = TreeAtLine(e.r, pc)]
    [] OTHER -> e
=============================================================================
