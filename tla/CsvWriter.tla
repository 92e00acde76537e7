----------------------------- MODULE CsvWriter -----------------------------
(***************************************************************************)
(* rate-latency-tool/src/csv_writer.rs: the four tasks behind              *)
(* run_csv_writer.                                                         *)
(*                                                                         *)
(*   block    takes the rows observed in blocks, joins each with the send  *)
(*            status kept under its transaction id and passes it on;       *)
(*   flusher  every MaxTxAge passes on the sends that are too old to land; *)
(*   tracker  files the sends in the map `pending`, and on cancellation    *)
(*            dumps the map;                                               *)
(*   writer   moves the rows of the internal channel to the file.          *)
(*                                                                         *)
(* A channel is the history of what was sent on it and a cursor up to      *)
(* which it has been read.  The i-th record the scheduler sends has        *)
(* transaction id i (ids are consecutive in the code), so the map is the   *)
(* set of its keys and a BTreeMap iteration is a walk over increasing ids. *)
(* The mutex around the map is free unless the flusher is scanning or the  *)
(* tracker is dumping; the other critical sections are single steps.  The  *)
(* block task sends a row only after it has given the mutex back.          *)
(***************************************************************************)
EXTENDS Naturals, Sequences

CONSTANTS
    MaxTxAge,        \* MAX_TX_AGE_MS, also the period of the flusher
    ReadAtOnce,      \* READ_AT_ONCE
    ReadAtOnceCsv,   \* READ_AT_ONCE_FOR_CSV
    ChannelSize,     \* capacity of the block channel
    MaxTxs,          \* bound: transactions sent
    MaxLandings,     \* bound: records that arrive from blocks
    MaxTime,         \* bound: clock
    IoErrors         \* whether writing to the file may fail

ASSUME MaxTxAgeAssumption == MaxTxAge \in Nat \ {0}
ASSUME BatchAssumption ==
    ReadAtOnce \in Nat \ {0} /\ ReadAtOnceCsv \in Nat \ {0}
ASSUME BoundAssumption ==
    /\ ChannelSize \in Nat \ {0}
    /\ MaxTxs \in Nat /\ MaxLandings \in Nat /\ MaxTime \in Nat
ASSUME IoErrorsAssumption == IoErrors \in BOOLEAN

VARIABLES
    now,         \* wall clock
    sent,        \* send times of the records put on the tracker channel
    sentOpen,    \* the scheduler still holds the tracker sender
    tracked,     \* records the tracker has filed
    blockRecs,   \* ids of the records put on the block channel (0: no id)
    blockOpen,   \* some sender of the block channel is alive
    recvd,       \* records the block task has received ...
    drained,     \* ... and passed on
    found,       \* the row it is about to pass on has got a status
    pending,     \* keys of pending_txs
    flushDue,    \* when the flusher's interval ticks next
    flushNow,    \* the time the flusher read before it took the lock
    dumpAt,      \* next id the tracker's dump looks at
    rows,        \* rows put on the internal writer channel
    taken,       \* rows the writer task has taken from it
    file,        \* positions in rows of those written to the file
    faulty,      \* an I/O error has occurred
    cancelled,   \* the cancellation token
    pc           \* where each task is

envVars  == <<sent, sentOpen, blockRecs, blockOpen, cancelled>>
mapVars  == <<tracked, recvd, drained, found, pending>>
timeVars == <<flushDue, flushNow>>
fileVars == <<taken, file, faulty>>
vars == <<now, envVars, mapVars, timeVars, dumpAt, rows, fileVars, pc>>

Tasks == {"block", "flush", "track", "write"}
Stages == {"run", "send", "lock", "scan", "dump", "done"}

NoId == 0
Row  == [id: Nat, by: {"block", "flush", "dump"}, status: BOOLEAN]

TypeOK ==
    /\ now \in Nat
    /\ sent \in Seq(Nat) /\ sentOpen \in BOOLEAN
    /\ tracked \in 0 .. Len(sent)
    /\ blockRecs \in Seq(0 .. MaxTxs) /\ blockOpen \in BOOLEAN
    /\ recvd \in 0 .. Len(blockRecs) /\ drained \in 0 .. recvd
    /\ found \in BOOLEAN
    /\ pc["block"] = "send" => drained < recvd
    /\ pending \subseteq 1 .. tracked
    /\ flushDue \in Nat /\ flushNow \in Nat /\ dumpAt \in Nat
    /\ rows \in Seq(Row)
    /\ taken \in 0 .. Len(rows) /\ file \subseteq 1 .. taken
    /\ faulty \in BOOLEAN /\ cancelled \in BOOLEAN
    /\ pc \in [Tasks -> Stages]

Init ==
    /\ now = 0
    /\ sent = <<>> /\ sentOpen = TRUE /\ tracked = 0
    /\ blockRecs = <<>> /\ blockOpen = TRUE /\ recvd = 0 /\ drained = 0
    /\ found = FALSE /\ pending = {}
    /\ flushDue = 0 /\ flushNow = 0 /\ dumpAt = 0
    /\ rows = <<>> /\ taken = 0 /\ file = {}
    /\ faulty = FALSE /\ cancelled = FALSE
    /\ pc = [t \in Tasks |-> "run"]

Goto(t, stage) == pc' = [pc EXCEPT ![t] = stage]

\* pending_txs.lock() would succeed.
LockFree == pc["flush"] # "scan" /\ pc["track"] # "dump"

\* As FirstFrom, but of a map that is not sorted.
AnyFrom(from, id) == id \in pending /\ id >= from

\* id is the first key of the map that is not below `from`.
FirstFrom(from, id) ==
    id \in pending /\ id >= from /\ \A o \in pending : o >= from => id <= o

\* writer_sender.send: once the writer has dropped its receiver the row is lost.
Emit(row) ==
    rows' = IF pc["write"] = "run" THEN Append(rows, row) ELSE rows

-----------------------------------------------------------------------------
(* What the rest of the program does to the writer. *)

\* Time passes.
Tick ==
    /\ now < MaxTime
    /\ now' = now + 1
    /\ UNCHANGED <<envVars, mapVars, timeVars, dumpAt, rows, fileVars, pc>>

\* The scheduler's send_record: fails when the tracker has gone.
SendRecord ==
    /\ sentOpen /\ pc["track"] # "done"
    /\ Len(sent) < MaxTxs
    /\ sent' = Append(sent, now)
    /\ UNCHANGED <<now, sentOpen, blockRecs, blockOpen, cancelled, mapVars,
                   timeVars, dumpAt, rows, fileVars, pc>>

\* The scheduler ends and drops the sender of the tracker channel.
CloseSent ==
    /\ sentOpen
    /\ sentOpen' = FALSE
    /\ UNCHANGED <<now, sent, blockRecs, blockOpen, cancelled, mapVars,
                   timeVars, dumpAt, rows, fileVars, pc>>

\* A task of the subscriber sends the row of a transaction seen in a block:
\* one of ours (also before its send was filed, and again in a fork), or
\* one that carries no id.  It waits while the channel is full.
LandRecord(id) ==
    /\ blockOpen /\ pc["block"] # "done"
    /\ Len(blockRecs) < MaxLandings
    /\ Len(blockRecs) - recvd < ChannelSize
    /\ blockRecs' = Append(blockRecs, id)
    /\ UNCHANGED <<now, sent, sentOpen, blockOpen, cancelled, mapVars,
                   timeVars, dumpAt, rows, fileVars, pc>>

\* The subscriber and all its tasks have ended.
CloseBlock ==
    /\ blockOpen
    /\ blockOpen' = FALSE
    /\ UNCHANGED <<now, sent, sentOpen, blockRecs, cancelled, mapVars,
                   timeVars, dumpAt, rows, fileVars, pc>>

Cancel ==
    /\ ~cancelled
    /\ cancelled' = TRUE
    /\ UNCHANGED <<now, sent, sentOpen, blockRecs, blockOpen, mapVars,
                   timeVars, dumpAt, rows, fileVars, pc>>

-----------------------------------------------------------------------------
\* The file cannot be created, or not take the header: run_csv_writer panics
\* before it has spawned a task, and both receivers are dropped.
OpenFails ==
    /\ IoErrors
    /\ pc = [t \in Tasks |-> "run"]
    /\ tracked = 0 /\ recvd = 0 /\ flushDue = 0
    /\ pc' = [t \in Tasks |-> "done"]
    /\ faulty' = TRUE
    /\ UNCHANGED <<now, envVars, mapVars, timeVars, dumpAt, rows, taken, file>>

-----------------------------------------------------------------------------
(* The block task. *)

\* recv_many.  A token cancelled meanwhile is only seen where the loop has
\* to wait, so the task may go on receiving what is there.
BlockRecv ==
    /\ pc["block"] = "run" /\ drained = recvd
    /\ \E n \in 1 .. ReadAtOnce :
         /\ recvd + n <= Len(blockRecs)
         /\ recvd' = recvd + n
    /\ UNCHANGED <<now, envVars, tracked, drained, found, pending, timeVars,
                   dumpAt, rows, fileVars, pc>>

\* As BlockLook, but the status stays in the map.
BlockLookKeeps ==
    /\ pc["block"] = "run" /\ drained < recvd
    /\ LET id == blockRecs[drained + 1]
       IN  /\ id # NoId => LockFree
           /\ found' = (id \in pending)
    /\ Goto("block", "send")
    /\ UNCHANGED <<now, envVars, tracked, recvd, drained, pending, timeVars,
                   dumpAt, rows, fileVars>>

\* A turn of the drain: a row with an id takes over the status filed under
\* it, a row without one does not ask for the lock ...
BlockLook ==
    /\ pc["block"] = "run" /\ drained < recvd
    /\ LET id == blockRecs[drained + 1]
       IN  /\ id # NoId => LockFree
           /\ found' = (id \in pending)
           /\ pending' = pending \ {id}
    /\ Goto("block", "send")
    /\ UNCHANGED <<now, envVars, tracked, recvd, drained, timeVars, dumpAt,
                   rows, fileVars>>

\* The row the block task has looked up.
InHand == [id |-> blockRecs[drained + 1], by |-> "block", status |-> found]

\* As BlockSend, but the next row is sent without having been looked up.
BlockSendOn ==
    /\ pc["block"] = "send"
    /\ Emit(InHand)
    /\ drained' = drained + 1 /\ found' = FALSE
    /\ UNCHANGED <<now, envVars, tracked, recvd, pending, timeVars, dumpAt,
                   fileVars, pc>>

\* ... and is sent when the lock is free again, whatever the others do.
BlockSend ==
    /\ pc["block"] = "send"
    /\ Emit(InHand)
    /\ drained' = drained + 1 /\ found' = FALSE
    /\ Goto("block", "run")
    /\ UNCHANGED <<now, envVars, tracked, recvd, pending, timeVars, dumpAt,
                   fileVars>>

\* As BlockStop, but it waits for the channel to be closed.
BlockStopClosed ==
    /\ pc["block"] = "run" /\ drained = recvd
    /\ ~blockOpen /\ recvd = Len(blockRecs)
    /\ Goto("block", "done")
    /\ UNCHANGED <<now, envVars, mapVars, timeVars, dumpAt, rows, fileVars>>

\* Cancelled at the await, or recv_many has returned 0.
BlockStop ==
    /\ pc["block"] = "run" /\ drained = recvd
    /\ cancelled \/ (~blockOpen /\ recvd = Len(blockRecs))
    /\ Goto("block", "done")
    /\ UNCHANGED <<now, envVars, mapVars, timeVars, dumpAt, rows, fileVars>>

-----------------------------------------------------------------------------
(* The flusher. *)

\* The interval ticks (a late tick does not shift the next one), and the
\* clock is read before the lock is taken.
FlushTick ==
    /\ pc["flush"] = "run" /\ now >= flushDue
    /\ flushDue' = flushDue + MaxTxAge
    /\ flushNow' = now
    /\ Goto("flush", "lock")
    /\ UNCHANGED <<now, envVars, mapVars, dumpAt, rows, fileVars>>

FlushLock ==
    /\ pc["flush"] = "lock" /\ LockFree
    /\ Goto("flush", "scan")
    /\ UNCHANGED <<now, envVars, mapVars, timeVars, dumpAt, rows, fileVars>>

\* age > MAX_TX_AGE_MS, where age is a saturating difference.
TooOld(id) == flushNow > sent[id] + MaxTxAge

\* The oldest entry is too old and goes to the writer.
FlushRow ==
    /\ pc["flush"] = "scan" /\ pc["write"] = "run"
    /\ \E id \in pending :
         /\ FirstFrom(1, id) /\ TooOld(id)
         /\ pending' = pending \ {id}
         /\ Emit([id |-> id, by |-> "flush", status |-> TRUE])
    /\ UNCHANGED <<now, envVars, tracked, recvd, drained, found, timeVars,
                   dumpAt, fileVars, pc>>

\* The scan ends at the first entry that is not too old, or when the writer
\* has gone: that entry stays.
FlushEnd ==
    /\ pc["flush"] = "scan"
    /\ \/ pending = {}
       \/ \E id \in pending :
            FirstFrom(1, id) /\ (~TooOld(id) \/ pc["write"] # "run")
    /\ Goto("flush", "run")
    /\ UNCHANGED <<now, envVars, mapVars, timeVars, dumpAt, rows, fileVars>>

FlushStop ==
    /\ pc["flush"] = "run" /\ cancelled
    /\ Goto("flush", "done")
    /\ UNCHANGED <<now, envVars, mapVars, timeVars, dumpAt, rows, fileVars>>

-----------------------------------------------------------------------------
(* The tracker: a select! of the two branches, each with its handler. *)

\* As TrackRecv, but the last record of a batch is not filed.
TrackRecvShort ==
    /\ pc["track"] = "run" /\ LockFree
    /\ \E n \in 1 .. ReadAtOnce :
         /\ tracked + n <= Len(sent)
         /\ tracked' = tracked + n
         /\ pending' = pending \cup (tracked + 1 .. tracked + n - 1)
    /\ UNCHANGED <<now, envVars, recvd, drained, found, timeVars, dumpAt, rows,
                   fileVars, pc>>

\* Files a batch of the sends.
TrackRecv ==
    /\ pc["track"] = "run" /\ LockFree
    /\ \E n \in 1 .. ReadAtOnce :
         /\ tracked + n <= Len(sent)
         /\ tracked' = tracked + n
         /\ pending' = pending \cup (tracked + 1 .. tracked + n)
    /\ UNCHANGED <<now, envVars, recvd, drained, found, timeVars, dumpAt, rows,
                   fileVars, pc>>

\* recv_many has returned 0: the task breaks without a dump.
TrackStop ==
    /\ pc["track"] = "run" /\ ~sentOpen /\ tracked = Len(sent)
    /\ Goto("track", "done")
    /\ UNCHANGED <<now, envVars, mapVars, timeVars, dumpAt, rows, fileVars>>

\* The cancelled branch, with what is left in the channel unread.
TrackCancel ==
    /\ pc["track"] = "run" /\ cancelled /\ LockFree
    /\ Goto("track", "dump")
    /\ dumpAt' = 1
    /\ UNCHANGED <<now, envVars, mapVars, timeVars, rows, fileVars>>

\* The dump sends every entry and removes none.
DumpRow ==
    /\ pc["track"] = "dump"
    /\ \E id \in pending :
         /\ FirstFrom(dumpAt, id)
         /\ Emit([id |-> id, by |-> "dump", status |-> TRUE])
         /\ dumpAt' = id + 1
    /\ UNCHANGED <<now, envVars, mapVars, timeVars, fileVars, pc>>

DumpEnd ==
    /\ pc["track"] = "dump" /\ \A id \in pending : id < dumpAt
    /\ Goto("track", "done")
    /\ UNCHANGED <<now, envVars, mapVars, timeVars, dumpAt, rows, fileVars>>

-----------------------------------------------------------------------------
(* The writer task. *)

\* Takes a batch; a row whose write fails is only logged.
TakeRows(n, lost) ==
    /\ pc["write"] = "run" /\ taken + n <= Len(rows)
    /\ taken' = taken + n
    /\ file' = file \cup ((taken + 1 .. taken + n) \ lost)
    /\ faulty' = (faulty \/ lost # {})
    /\ UNCHANGED <<now, envVars, mapVars, timeVars, dumpAt, rows>>

WriteBatch ==
    /\ \E n \in 1 .. ReadAtOnceCsv :
         \E lost \in SUBSET (IF IoErrors THEN taken + 1 .. taken + n ELSE {}) :
            TakeRows(n, lost)
    /\ UNCHANGED pc

\* The flush of a batch fails: the task ends, with its receiver.
WriteFail ==
    /\ IoErrors
    /\ \E n \in 1 .. ReadAtOnceCsv : TakeRows(n, taken + 1 .. taken + n)
    /\ Goto("write", "done")

\* As WriteStop, but the task ends with the cancellation like the others.
WriteStopCancelled ==
    /\ pc["write"] = "run" /\ cancelled
    /\ Goto("write", "done")
    /\ UNCHANGED <<now, envVars, mapVars, timeVars, dumpAt, rows, fileVars>>

\* Every sender is dropped and the channel is empty.
WriteStop ==
    /\ pc["write"] = "run" /\ taken = Len(rows)
    /\ \A t \in Tasks \ {"write"} : pc[t] = "done"
    /\ Goto("write", "done")
    /\ UNCHANGED <<now, envVars, mapVars, timeVars, dumpAt, rows, fileVars>>

-----------------------------------------------------------------------------
\* As AllDone, but the writer task is not waited for.
SendersDone == \A t \in Tasks \ {"write"} : pc[t] = "done"

\* tracker.wait() returns and run_csv_writer with it.
AllDone == \A t \in Tasks : pc[t] = "done"

Finished == AllDone /\ UNCHANGED vars

Environment ==
    \/ Tick \/ SendRecord \/ CloseSent \/ CloseBlock \/ Cancel
    \/ \E id \in 0 .. MaxTxs : LandRecord(id)

Block   == BlockRecv \/ BlockLook \/ BlockSend \/ BlockStop
Flusher == FlushTick \/ FlushLock \/ FlushRow \/ FlushEnd \/ FlushStop
Tracker == TrackRecv \/ TrackStop \/ TrackCancel \/ DumpRow \/ DumpEnd
Writer  == WriteBatch \/ WriteFail \/ WriteStop

Next ==
    \/ Environment \/ OpenFails
    \/ Block \/ Flusher \/ Tracker \/ Writer
    \/ Finished

Spec == Init /\ [][Next]_vars

\* A tokio task that can make progress is polled again.  (Which branch a
\* select! takes when both are ready is left open.)
Fairness ==
    /\ WF_vars(Block) /\ WF_vars(Flusher) /\ WF_vars(Tracker) /\ WF_vars(Writer)

FairSpec == Spec /\ Fairness

-----------------------------------------------------------------------------
(* Properties. *)

Reports(id) == {i \in DOMAIN rows : rows[i].status /\ rows[i].id = id}

\* The send whose status the block task holds, in the map no longer.
Joined == IF pc["block"] = "send" /\ found
          THEN {blockRecs[drained + 1]} ELSE {}

\* The status of a send is written once, whichever of the block task and
\* the flusher finds it first, and once more at most if the tracker has
\* dumped it at cancellation: the dump leaves the map as it is, and the
\* block task may still be draining.
StatusOnce ==
    \A i, j \in DOMAIN rows :
        /\ i # j /\ rows[i].status /\ rows[j].status
        /\ rows[i].id = rows[j].id
        => (rows[i].by = "dump") # (rows[j].by = "dump")

\* A send the tracker has filed is not forgotten: as long as the writer
\* lives it is in the map, with the block task, or its status has been
\* passed on.
NoStatusLost ==
    pc["write"] = "run" =>
        \A id \in 1 .. tracked :
            id \in pending \/ id \in Joined \/ Reports(id) # {}

\* run_csv_writer returns with every row in the file unless an I/O error
\* occurred: the writer task does not leave before its three senders.
FileComplete == AllDone /\ ~faulty => file = DOMAIN rows

\* What Reporting calls the phase of the ledger.
Phase == CASE pc["track"] = "dump" -> "dumping"
           [] pc["track"] = "done" -> "over"
           [] OTHER -> "filing"

\* The row on its way to the writer, if there is still a writer.
Held == IF pc["block"] = "send" /\ pc["write"] = "run" THEN {InHand} ELSE {}

Ledger == INSTANCE Reporting WITH
              Ids <- 0 .. MaxTxs, filed <- tracked, phase <- Phase,
              held <- Held, broken <- pc["write"] # "run"

\* Without its tasks, batches and map the writer is the ledger of Reporting:
\* whichever tasks interleave, every row is one the ledger may pass on, so
\* that a row of a block carries a status just when its send was on file and
\* not told when the row was looked up, only the oldest send expires and
\* only when it is too old, and a dump is complete.
ReportingSpec == Ledger!Spec

\* A scan that ends leaves nothing in the map that was too old when the
\* flusher read the clock, though it stops at the first young entry: ids
\* are filed in the order of their send times.
ScanComplete ==
    [][FlushEnd /\ pc["write"] = "run"
         => \A id \in pending' : ~TooOld(id)]_vars

\* A dump that ends has passed on every entry that is then in the map.
DumpComplete ==
    [][DumpEnd /\ pc["write"] = "run"
         => \A id \in pending :
              \E i \in Reports(id) : rows[i].by = "dump"]_vars

\* After the cancellation all four tasks end.
Terminates == cancelled ~> AllDone

\* A row passed to the writer reaches the file unless an I/O error occurs.
RowsReachFile ==
    \A i \in 1 .. (2 * MaxTxs + MaxLandings) :
        (i \in DOMAIN rows) ~> (i \in file \/ faulty)

=============================================================================
