---------------------------- MODULE MC_CsvWriter ----------------------------
(* Instances of CsvWriter for TLC; the .cfg files give the bounds.  Batches *)
(* of two show a batch that is cut short as well as one that is full, and   *)
(* an age of one tick lets a send grow too old within the clock's bound.    *)
EXTENDS CsvWriter

\* Two sends with one landing, or one send that lands twice.
FewRecords == Len(sent) + Len(blockRecs) <= 3
=============================================================================
