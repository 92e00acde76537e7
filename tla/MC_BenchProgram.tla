-------------------------- MODULE MC_BenchProgram --------------------------
(* Instances of BenchProgram for TLC.  The limits of QUIC are scaled down:  *)
(* 128 to 1, 512 to 4 and 100000 to 9; the stakes reach all of them.        *)
EXTENDS BenchProgram

VoteAccounts == {<<0, 0>>, <<1, 3>>, <<5>>, <<1>>}
=============================================================================
