------------------------- MODULE MC_RateScheduler -------------------------
(* An instance of RateScheduler for TLC; the .cfg file gives the bounds. *)
EXTENDS RateScheduler
=============================================================================
