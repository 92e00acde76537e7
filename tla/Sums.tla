-------------------------------- MODULE Sums --------------------------------
(***************************************************************************)
(* The sums of the prefixes of a sequence of numbers.                      *)
(***************************************************************************)
EXTENDS Naturals, Sequences

Sums(counts) ==
    LET sum[i \in 0 .. Len(counts)] == IF i = 0 THEN 0 ELSE sum[i - 1] + counts[i]
    IN  sum

SumTo(counts, k) == Sums(counts)[k]
Total(counts) == SumTo(counts, Len(counts))
=============================================================================
