----------------------------- MODULE SendService ------------------------------
(***************************************************************************)
(* What the bridge promises a host that sends through SOCK_SEND, with no   *)
(* frames, retries, slots or caches in sight: requests are made one after  *)
(* the other, each body runs at most once, and only after it was asked     *)
(* for; an answer is given to the latest request only, after its body ran, *)
(* and is the outcome of that very run (protocol_sockets.c:28-62).         *)
(* A request may go unanswered (the host gave up) and even unexecuted.     *)
(***************************************************************************)
EXTENDS Naturals

CONSTANT N        \* number of requests

VARIABLES asked,  \* requests made so far
          ran,    \* how often the body ran for each request
          told    \* the last answer: to request n, from the run for by

vars == <<asked, ran, told>>

Init ==
    /\ asked = 0
    /\ ran = [n \in 1..N |-> 0]
    /\ told = [n |-> 0, by |-> 0]

Ask ==
    /\ asked < N
    /\ asked' = asked + 1
    /\ UNCHANGED <<ran, told>>

Run(n) ==
    /\ n <= asked
    /\ ran[n] = 0
    /\ ran' = [ran EXCEPT ![n] = 1]
    /\ UNCHANGED <<asked, told>>

Tell ==
    /\ asked > 0
    /\ ran[asked] = 1
    /\ told' = [n |-> asked, by |-> asked]
    /\ UNCHANGED <<asked, ran>>

Next == Ask \/ (\E n \in 1..N : Run(n)) \/ Tell

Spec == Init /\ [][Next]_vars
===============================================================================
