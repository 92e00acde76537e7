------------------------- MODULE MC_AccountsCreator -------------------------
(* An instance of AccountsCreator for TLC; the .cfg file gives the bounds. *)
EXTENDS AccountsCreator
=============================================================================
