---------------------------- MODULE MCOomControl ----------------------------
(***************************************************************************)
(* OomControl for TLC: the kernel as it boots (no managed pages) and small *)
(* zones whose watermarks are not zero.                                    *)
(***************************************************************************)
EXTENDS OomControl

SmallZones ==
  {[z \in Zone |-> 0],
   [z \in Zone |-> IF z = "DMA" THEN 96 ELSE IF z = "NORMAL" THEN 256 ELSE 0]}
=============================================================================
