-------------------------------- MODULE MCSpi1 --------------------------------
(* Small instances of Spi1 for TLC. *)
EXTENDS Spi1
===============================================================================
