----------------------------- MODULE PortMemory -----------------------------
(***************************************************************************)
(* What an SRAM controller of src/ram promises to its bus masters: a byte  *)
(* memory behind one or more ports.  A port takes a request and later      *)
(* serves it, once, in one atomic access at the address and with the       *)
(* direction the master gave; nothing else changes the memory or the data  *)
(* a port returns.                                                         *)
(***************************************************************************)
CONSTANTS Ports, Addr, Data,
          NoRequest   \* a port has nothing to serve

VARIABLES mem,      \* mem[a], the bytes
          pending,  \* pending[p], the request port p has taken and not served
          out       \* out[p], the data port p returned last

vars == <<mem, pending, out>>

Request == [we : BOOLEAN, a : Addr, d : Data]

Init ==
  /\ mem \in [Addr -> Data]
  /\ pending = [p \in Ports |-> NoRequest]
  /\ out \in [Ports -> Data]

\* The ports in takes take a request and those in serves, at most one, serve
\* theirs; a port never does both at once.
Step(takes, serves) ==
  /\ takes \cap serves = {}
  /\ \A p, q \in serves : p = q
  /\ \A p \in takes : pending[p] = NoRequest /\ pending'[p] \in Request
  /\ \A p \in serves : pending[p] # NoRequest /\ pending'[p] = NoRequest
  /\ \A p \in Ports \ (takes \cup serves) : pending'[p] = pending[p]
  /\ DOMAIN pending' = Ports
  /\ mem' = [a \in Addr |->
               IF \E p \in serves : pending[p].we /\ pending[p].a = a
               THEN (CHOOSE r \in {pending[p] : p \in serves} : TRUE).d
               ELSE mem[a]]
  /\ out' = [p \in Ports |-> IF p \in serves /\ ~pending[p].we
                             THEN mem[pending[p].a] ELSE out[p]]

Next == \E takes, serves \in SUBSET Ports : Step(takes, serves)

\* No request waits for ever.
Live == \A p \in Ports : []<>(pending[p] = NoRequest)

Spec == Init /\ [][Next]_vars /\ Live
=============================================================================
