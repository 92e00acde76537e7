--------------------------- MODULE MC_RateClient ---------------------------
(* Instances of RateClient for TLC; the .cfg files give the bounds. *)
EXTENDS RateClient
=============================================================================
