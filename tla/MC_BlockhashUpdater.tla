------------------------- MODULE MC_BlockhashUpdater -------------------------
(* An instance of BlockhashUpdater for TLC; the .cfg file gives the bounds. *)
EXTENDS BlockhashUpdater
=============================================================================
