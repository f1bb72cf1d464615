------------------------------ MODULE MCLockstep ------------------------------
(* Bridge with a host that uses few of the opcodes in a behaviour: any of  *)
(* them, but no more than MaxOps.                                          *)
EXTENDS Bridge

CONSTANT MaxOps

Used == {op \in Ops : issued[op] > 0}

MCNext == Next /\ Cardinality(Used') <= MaxOps

MCFairSpec == Init /\ [][MCNext]_vars /\ Fairness
===============================================================================
