------------------------------- MODULE MCSpiLink ------------------------------
(* SpiLink, with every kind of job and a few faults. *)
EXTENDS SpiLink
===============================================================================
