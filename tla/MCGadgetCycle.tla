--------------------------- MODULE MCGadgetCycle ---------------------------
(* Instances of GadgetCycle for TLC. *)
EXTENDS GadgetCycle
=============================================================================
