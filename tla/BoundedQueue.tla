---------------------------- MODULE BoundedQueue ----------------------------
(***************************************************************************)
(* What the FIFO core (src/ram/fifo.vhd) promises to the logic around it:  *)
(* a queue of at most Depth words.  Every clock edge first serves the      *)
(* read, then the write, so that a read and a write in the same cycle of a *)
(* full queue both succeed, while a read of an empty queue leaves the      *)
(* output register as it was.                                              *)
(***************************************************************************)
EXTENDS Naturals, Sequences

CONSTANTS Data,   \* the words the queue carries
          Zero,   \* the word on the output after a reset
          Depth   \* how many words the queue holds

VARIABLES queue,  \* the words written and not yet read, oldest first
          out,    \* the word read last
          port    \* what the last edge asked for: [rd, wr, d]

vars == <<queue, out, port>>

Idle == [rd |-> FALSE, wr |-> FALSE, d |-> Zero]

Init == queue = <<>> /\ out = Zero /\ port = Idle

Reset == queue' = <<>> /\ out' = Zero /\ port' = Idle

Cycle(rd, wr, d) ==
  LET pop  == rd /\ queue # <<>>
      rest == IF pop THEN Tail(queue) ELSE queue
      push == wr /\ Len(rest) < Depth
  IN  /\ port' = [rd |-> rd, wr |-> wr, d |-> d]
      /\ out' = IF pop THEN Head(queue) ELSE out
      /\ queue' = IF push THEN Append(rest, d) ELSE rest

Next == Reset \/ \E rd, wr \in BOOLEAN, d \in Data : Cycle(rd, wr, d)

Spec == Init /\ [][Next]_vars
=============================================================================
