-------------------------- MODULE MC_SlotRecorder --------------------------
(* Instances of SlotRecorder for TLC.  TickBlocks has a tick between two   *)
(* transactions, a tick before the only one, and two transactions in one   *)
(* entry, so that the task of the block has to wait for the channel.       *)
EXTENDS SlotRecorder

TickBlocks == {[s \in Slots |-> b] : b \in {<<1, 0, 1>>, <<0, 1>>, <<2>>}}

\* find_tx_ticks agrees with its reference on every block of at most five
\* entries with at most two transactions each.
AllBlocks == UNION {[1 .. n -> 0 .. 2] : n \in 0 .. 5}
ASSUME TicksAgree ==
    \A b \in AllBlocks :
        FindTxTicks([e \in DOMAIN b |-> [index |-> e - 1, count |-> b[e]]])
              = [i \in 1 .. Total(b) |-> TickOf(b, i - 1)]
=============================================================================
