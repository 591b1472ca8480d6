------------------------------- MODULE Trial --------------------------------
(***************************************************************************)
(* The state of the modules about one computation of the tools: an input   *)
(* is chosen and the record keeps it with what the code makes of it.  "of" *)
(* names the computation.                                                  *)
(***************************************************************************)
VARIABLE trial

NotYet == [of |-> "none"]
TrialInit == trial = NotYet
=============================================================================
