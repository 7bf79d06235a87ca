----------------------------- MODULE MCRateSync -----------------------------
(***************************************************************************)
(* RateSync with two fields, of which the second starts absent: the file   *)
(* is empty at first (nothing to upload until an edit) or has one rate     *)
(* (queued by prepare_initial).                                            *)
(***************************************************************************)
EXTENDS RateSync

MCInit == RateInit /\ file["f2"] = 0

MCSpec == MCInit /\ [][RateNext]_rateVars /\ RateFairness
=============================================================================
