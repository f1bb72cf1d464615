-------------------------------- MODULE MCOta --------------------------------
(* Two images of one length and a shorter one, a manifest that is not a whole  *)
(* number of blocks, a window of four blocks that the longer images overflow.  *)
EXTENDS Ota

MCImages == {"a", "b", "c"}
MCImageLen == [m \in MCImages |-> IF m = "c" THEN 5 ELSE 9]
=============================================================================
