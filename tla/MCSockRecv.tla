------------------------------ MODULE MCSockRecv ------------------------------
(* SockRecv for TLC, in two situations: two streams, of which the first to *)
(* connect owns the prefetch ring and the other is served by the worker;   *)
(* or one socket the worker serves (a datagram one), closed and opened     *)
(* again, so that its handle is used twice.                                *)
EXTENDS SockRecv, TLC

CONSTANTS h1, h2, h3

MCHandles == {h1, h2, h3}
MCStreams == {h1, h2}
MCLens == {2}
MCBudgets == {[h \in MCHandles |-> IF h \in MCStreams THEN 1 ELSE 0],
              [h \in MCHandles |-> IF h \in MCStreams THEN 0 ELSE 2]}
Symmetry == Permutations(MCStreams)
===============================================================================
