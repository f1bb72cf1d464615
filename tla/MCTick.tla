--------------------------------- MODULE MCTick -------------------------------
(* The task's round for TLC: three sockets, two listeners, a ring of two,  *)
(* replies that hold one accepted connection and one status event.         *)
EXTENDS Tick

MCTraffics == {{"events"}, {"power"}}
===============================================================================
