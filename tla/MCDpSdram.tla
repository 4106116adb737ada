----------------------------- MODULE MCDpSdram ------------------------------
(* DpSdram with a word of two bytes: both ports write the first, each its   *)
(* own value, port 2 reads it and port 1 reads the other.                  *)
EXTENDS DpSdram, TLC

CONSTANTS r0, c0, x, y

Byte(lane) == [row |-> r0, col |-> c0, lane |-> lane]

MCRequests ==
  (1 :> {[we |-> TRUE, a |-> Byte(0), d |-> x], [we |-> FALSE, a |-> Byte(1), d |-> x]}) @@
  (2 :> {[we |-> TRUE, a |-> Byte(0), d |-> y], [we |-> FALSE, a |-> Byte(0), d |-> x]})
=============================================================================
