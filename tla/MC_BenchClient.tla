--------------------------- MODULE MC_BenchClient ---------------------------
(* An instance of BenchClient for TLC; the .cfg file gives the bounds. *)
EXTENDS BenchClient
=============================================================================
