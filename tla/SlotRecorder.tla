---------------------------- MODULE SlotRecorder ----------------------------
(***************************************************************************)
(* rate-latency-tool/src/yellowstone_subscriber.rs: the main loop of       *)
(* run_yellowstone_subscriber, which records the entries and transactions  *)
(* of each slot, and the tasks it spawns, one per block, which send the    *)
(* rows of the recorded transactions to the block task of the CSV writer.  *)
(*                                                                         *)
(* The stream is external: it delivers the messages of each slot in any    *)
(* order, each at most once, and may stop short.  Times, signatures and    *)
(* the classification of a transaction are left out; `whole` tells whether *)
(* the update carries what try_build_csv_record_with_classification needs. *)
(***************************************************************************)
EXTENDS Naturals, Sequences, FiniteSets, TxTicks

CONSTANTS
    Slots,        \* slots of a run
    Blocks,       \* the blocks there may be in them: for each slot the
                  \* sequence of the transaction counts of its entries
    ChannelSize   \* capacity of the block channel

ASSUME ChannelAssumption == ChannelSize \in Nat \ {0}
ASSUME BlocksAssumption ==
    \A b \in Blocks : DOMAIN b = Slots /\ \A s \in Slots : b[s] \in Seq(Nat)

VARIABLES
    block,       \* the blocks of this run
    unseen,      \* messages the stream has not delivered
    stream,      \* "run", "ok" or "err": what the main loop has returned
    recordings,  \* recording_map
    tasks,       \* the tasks spawned, by slot
    rows,        \* the rows put on the block channel ...
    recvd,       \* ... and how many of them have been received
    rxOpen,      \* the block task still holds the receiver
    gaps         \* history: slots of which entries were not recorded or lost

vars == <<block, unseen, stream, recordings, tasks, rows, recvd, rxOpen, gaps>>

NumTxs(s) == Total(block[s])

TxsOf(s) == 0 .. NumTxs(s) - 1

\* The updates of a slot; those of an entry or a transaction carry its index.
SlotUpdates == {"FirstShredReceived", "CreatedBank", "Dead"}
Messages ==
    UNION {[kind : SlotUpdates \cup {"meta"}, slot : {s}, index : {0}]
           \cup [kind : {"entry"}, slot : {s}, index : 0 .. Len(block[s]) - 1]
           \cup [kind : {"tx"}, slot : {s}, index : TxsOf(s)] : s \in Slots}

Tx        == [index: Nat, whole: BOOLEAN]
Recording == [txs: Seq(Tx), entries: Seq([index: Nat, count: Nat])]
Task      == [stage: {"spawned", "run", "ended", "panicked"}, rec: Recording,
              ticks: Seq(Nat), next: Nat]
Row       == [slot: Slots, index: Nat, tick: Nat]

TypeOK ==
    /\ unseen \subseteq Messages
    /\ stream \in {"run", "ok", "err"}
    /\ DOMAIN recordings \subseteq Slots
    /\ \A s \in DOMAIN recordings : recordings[s] \in Recording
    /\ DOMAIN tasks \subseteq Slots
    /\ \A s \in DOMAIN tasks : tasks[s] \in Task
    /\ rows \in Seq(Row)
    /\ recvd \in 0 .. Len(rows) /\ Len(rows) - recvd <= ChannelSize
    /\ rxOpen \in BOOLEAN
    /\ gaps \subseteq Slots

EmptyMap == [s \in {} |-> 0]

Init ==
    /\ block \in Blocks
    /\ unseen = Messages
    /\ stream = "run"
    /\ recordings = EmptyMap /\ tasks = EmptyMap
    /\ rows = <<>> /\ recvd = 0 /\ rxOpen = TRUE
    /\ gaps = {}

\* remove and insert of a HashMap.
Removed(map, s) == [k \in DOMAIN map \ {s} |-> map[k]]
Inserted(map, s, value) ==
    [k \in DOMAIN map \cup {s} |-> IF k = s THEN value ELSE map[k]]

-----------------------------------------------------------------------------
(* The main loop. *)

Delivered(m) == stream = "run" /\ m \in unseen /\ unseen' = unseen \ {m}

\* Kept if the slot is being recorded, and skipped otherwise.
OnTransaction(m, whole) ==
    /\ m.kind = "tx" /\ Delivered(m)
    /\ recordings' =
         IF m.slot \in DOMAIN recordings
         THEN [recordings EXCEPT
                 ![m.slot].txs = Append(@, [index |-> m.index, whole |-> whole])]
         ELSE recordings
    /\ UNCHANGED <<block, stream, tasks, rows, recvd, rxOpen, gaps>>

OnEntry(m) ==
    /\ m.kind = "entry" /\ Delivered(m)
    /\ recordings' =
         IF m.slot \in DOMAIN recordings
         THEN [recordings EXCEPT ![m.slot].entries =
                 Append(@, [index |-> m.index, count |-> block[m.slot][m.index + 1]])]
         ELSE recordings
    /\ gaps' = IF m.slot \in DOMAIN recordings THEN gaps ELSE gaps \cup {m.slot}
    /\ UNCHANGED <<block, stream, tasks, rows, recvd, rxOpen>>

EmptyRecording == [txs |-> <<>>, entries |-> <<>>]

\* As Started, but a second update starts the recording afresh.
Restarted(s) == Inserted(recordings, s, EmptyRecording)

\* or_insert_with
Started(s) == IF s \in DOMAIN recordings THEN recordings
              ELSE Inserted(recordings, s, EmptyRecording)

\* The first update starts a recording, and a later one finds it there.
\* A dead slot is forgotten.
OnSlot(m) ==
    /\ m.kind \in SlotUpdates /\ Delivered(m)
    /\ recordings' =
         IF m.kind = "Dead" THEN Removed(recordings, m.slot)
         ELSE Started(m.slot)
    /\ gaps' = IF m.kind = "Dead" THEN gaps \cup ({m.slot} \cap DOMAIN recordings)
               ELSE gaps
    /\ UNCHANGED <<block, stream, tasks, rows, recvd, rxOpen>>

\* The end of the slot: its recording goes to a task of its own.
OnBlockMeta(m) ==
    /\ m.kind = "meta" /\ Delivered(m)
    /\ IF m.slot \in DOMAIN recordings
       THEN /\ recordings' = Removed(recordings, m.slot)
            /\ tasks' = Inserted(tasks, m.slot,
                 [stage |-> "spawned", rec |-> recordings[m.slot],
                  ticks |-> <<>>, next |-> 1])
       ELSE UNCHANGED <<recordings, tasks>>
    /\ gaps' = IF \E e \in unseen : e.kind = "entry" /\ e.slot = m.slot
               THEN gaps \cup {m.slot} ELSE gaps
    /\ UNCHANGED <<block, stream, rows, recvd, rxOpen>>

\* The stream ends or the token is cancelled ("ok"), or an update is an
\* error.  What is being recorded is dropped; the tasks go on.
StreamEnds(how) ==
    /\ stream = "run"
    /\ stream' = how
    /\ recordings' = EmptyMap
    /\ UNCHANGED <<block, unseen, tasks, rows, recvd, rxOpen, gaps>>

-----------------------------------------------------------------------------
(* The task of a block. *)

\* As ByIndex, but it forgets to sort.
AsRecorded(seq) == seq

\* sort_by_key, which is stable: the k-th element is that with k - 1 elements
\* before it.
Before(seq, i) ==
    {j \in DOMAIN seq :
        \/ seq[j].index < seq[i].index
        \/ seq[j].index = seq[i].index /\ j < i}
ByIndex(seq) ==
    [k \in DOMAIN seq |->
        seq[CHOOSE i \in DOMAIN seq : Cardinality(Before(seq, i)) = k - 1]]

Advance(s) == tasks' = [tasks EXCEPT ![s].next = @ + 1]

\* collect_ticks and sort_txs.
Collect(s) ==
    /\ s \in DOMAIN tasks /\ tasks[s].stage = "spawned"
    /\ LET rec == [txs |-> ByIndex(tasks[s].rec.txs),
                   entries |-> ByIndex(tasks[s].rec.entries)]
       IN  tasks' = [tasks EXCEPT ![s] = [stage |-> "run", rec |-> rec, next |-> 1,
                                          ticks |-> FindTxTicks(rec.entries)]]
    /\ UNCHANGED <<block, unseen, stream, recordings, rows, recvd, rxOpen,
                   gaps>>

\* The loop of the task s has transactions left; the next one is Current(s).
InLoop(s) ==
    /\ s \in DOMAIN tasks /\ tasks[s].stage = "run"
    /\ tasks[s].next <= Len(tasks[s].rec.txs)

Current(s) == tasks[s].rec.txs[tasks[s].next]

\* ticks[tx_index_in_block] is there.
HasTick(s) == Current(s).index < Len(tasks[s].ticks)

\* As SkipTx, but the task gives up at such an update.
SkipTxBreaks(s) ==
    /\ InLoop(s) /\ ~Current(s).whole
    /\ tasks' = [tasks EXCEPT ![s].stage = "ended"]
    /\ UNCHANGED <<block, unseen, stream, recordings, rows, recvd, rxOpen,
                   gaps>>

\* An update from which no row can be built is passed over.
SkipTx(s) ==
    /\ InLoop(s) /\ ~Current(s).whole
    /\ Advance(s)
    /\ UNCHANGED <<block, unseen, stream, recordings, rows, recvd, rxOpen,
                   gaps>>

\* As HasRoom, with an off-by-one.
HasRoomForOneMore == Len(rows) - recvd <= ChannelSize

HasRoom == Len(rows) - recvd < ChannelSize

\* As Sends, but it waits for a receiver that is gone.
SendsToOpen == rxOpen /\ HasRoom

\* csv_sender.send returns: with an error if the channel is closed.
Sends == rxOpen => HasRoom

\* The row is sent when the channel has room, or lost when it is closed.
SendRow(s) ==
    /\ InLoop(s) /\ Current(s).whole /\ HasTick(s)
    /\ Sends
    /\ rows' = IF rxOpen
               THEN Append(rows, [slot |-> s, index |-> Current(s).index,
                                  tick |-> tasks[s].ticks[Current(s).index + 1]])
               ELSE rows
    /\ Advance(s)
    /\ UNCHANGED <<block, unseen, stream, recordings, recvd, rxOpen, gaps>>

\* Too few transactions in the recorded entries: the index is out of range.
Panic(s) ==
    /\ InLoop(s) /\ Current(s).whole /\ ~HasTick(s)
    /\ tasks' = [tasks EXCEPT ![s].stage = "panicked"]
    /\ UNCHANGED <<block, unseen, stream, recordings, rows, recvd, rxOpen,
                   gaps>>

TaskEnds(s) ==
    /\ s \in DOMAIN tasks /\ tasks[s].stage = "run" /\ ~InLoop(s)
    /\ tasks' = [tasks EXCEPT ![s].stage = "ended"]
    /\ UNCHANGED <<block, unseen, stream, recordings, rows, recvd, rxOpen,
                   gaps>>

-----------------------------------------------------------------------------
(* The block task of the CSV writer, at the other end of the channel. *)

Receive ==
    /\ rxOpen /\ recvd < Len(rows)
    /\ recvd' = recvd + 1
    /\ UNCHANGED <<block, unseen, stream, recordings, tasks, rows, rxOpen,
                   gaps>>

CloseRx ==
    /\ rxOpen
    /\ rxOpen' = FALSE
    /\ UNCHANGED <<block, unseen, stream, recordings, tasks, rows, recvd, gaps>>

-----------------------------------------------------------------------------
MainLoop ==
    \/ \E m \in unseen :
         \/ \E whole \in BOOLEAN : OnTransaction(m, whole)
         \/ OnEntry(m) \/ OnSlot(m) \/ OnBlockMeta(m)
    \/ \E how \in {"ok", "err"} : StreamEnds(how)

TaskStep(s) ==
    Collect(s) \/ SkipTx(s) \/ SendRow(s) \/ Panic(s) \/ TaskEnds(s)

Next ==
    \/ MainLoop \/ Receive \/ CloseRx
    \/ \E s \in Slots : TaskStep(s)

Spec == Init /\ [][Next]_vars

\* Ready tasks are polled; nothing makes the stream deliver.
FairSpec == Spec /\ WF_vars(Receive) /\ \A s \in Slots : WF_vars(TaskStep(s))

-----------------------------------------------------------------------------
(* Properties. *)

\* find_tx_ticks and its use: if every entry of the block came between the
\* first update of its slot and its meta data, then in whatever order they and
\* the transactions came and whatever further updates came between them, a row
\* tells the tick in which its transaction was executed.
TickRight ==
    \A i \in DOMAIN rows :
        rows[i].slot \notin gaps =>
            rows[i].tick = TickOf(block[rows[i].slot], rows[i].index)

\* The index of a transaction is out of range of the ticks, which panics the
\* task, only in a block some entries of which came too early, before a Dead,
\* or too late: nothing else that was recorded of the slot has been discarded.
PanicNeedsGap ==
    \A s \in DOMAIN tasks : tasks[s].stage = "panicked" => s \in gaps

\* A task that ends while the channel is open has sent one row for each
\* usable transaction recorded: an unusable one does not cost the others.
AllRowsSent ==
    \A s \in DOMAIN tasks :
        tasks[s].stage = "ended" /\ rxOpen =>
            \A k \in DOMAIN tasks[s].rec.txs :
                tasks[s].rec.txs[k].whole =>
                    \E i \in DOMAIN rows :
                        rows[i].slot = s /\ rows[i].index = tasks[s].rec.txs[k].index

\* The rows of a block are sent in the order of the block, and none twice,
\* whatever order the stream delivered the transactions in.
BlockOrder ==
    \A i, j \in DOMAIN rows :
        i < j /\ rows[i].slot = rows[j].slot => rows[i].index < rows[j].index

\* A spawned task comes to its end: it does not wait for a receiver that is
\* gone.  (Nobody joins it.)
TasksEnd ==
    \A s \in Slots :
        (s \in DOMAIN tasks) ~>
            (s \in DOMAIN tasks /\ tasks[s].stage \in {"ended", "panicked"})

=============================================================================
