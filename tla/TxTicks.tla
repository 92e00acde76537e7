------------------------------ MODULE TxTicks ------------------------------
(***************************************************************************)
(* rate-latency-tool/src/yellowstone_subscriber.rs: find_tx_ticks, which   *)
(* tells for every transaction of a block in which tick it was executed.   *)
(* An entry without transactions is a tick.  Transaction indices start at  *)
(* 0 in the code and sequences at 1 here.                                  *)
(***************************************************************************)
EXTENDS Naturals, Sequences, FiniteSets, Sums

\* The loop over the entries, after each of its turns: how many transactions
\* there are in each tick, and after the last one.
Counted(entries) ==
    LET after[n \in 0 .. Len(entries)] ==
            IF n = 0 THEN [per |-> <<>>, cur |-> 0]
            ELSE LET last == after[n - 1]
                 IN  IF entries[n].count = 0
                     THEN [per |-> Append(last.per, last.cur), cur |-> 0]
                     ELSE [last EXCEPT !.cur = @ + entries[n].count]
    IN  after

\* The transactions after the last tick make an unfinished one.
NumTxsPerTick(entries) ==
    LET c == Counted(entries)[Len(entries)]
    IN  IF c.cur > 0 THEN Append(c.per, c.cur) ELSE c.per

\* The first tick whose transactions reach beyond the index.
FindTxTicks(entries) ==
    LET per == NumTxsPerTick(entries)
    IN  [i \in 1 .. Total(per) |->
            (CHOOSE k \in DOMAIN per : SumTo(per, k - 1) < i /\ i <= SumTo(per, k)) - 1]

-----------------------------------------------------------------------------
\* The reference: a transaction belongs to the tick whose number is the
\* number of ticks of the block before the entry that holds it.
EntryOf(counts, index) ==
    CHOOSE e \in DOMAIN counts :
        SumTo(counts, e - 1) <= index /\ index < SumTo(counts, e)

TickOf(counts, index) ==
    Cardinality({t \in 1 .. EntryOf(counts, index) : counts[t] = 0})
=============================================================================
