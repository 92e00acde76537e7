----------------------------- MODULE RateClient -----------------------------
(***************************************************************************)
(* rate-latency-tool/src/run_client.rs: run_client and the tasks of its    *)
(* JoinSet, composed with CsvWriter.                                       *)
(*                                                                         *)
(* The parent token `cancelled` stops everything; its child                *)
(* `sendCancelled` stops the scheduler and the metrics only, so that the   *)
(* subscriber and the CSV writer outlive the sending by a delay.  What the *)
(* client does to the writer (sending records, landing rows, cancelling)   *)
(* are the environment actions of CsvWriter, taken jointly with a step of  *)
(* the client, so that what holds of CsvWriter holds here.                 *)
(***************************************************************************)
EXTENDS Naturals, Sequences, FiniteSets

CONSTANTS MaxTxAge, ReadAtOnce, ReadAtOnceCsv, ChannelSize,
          MaxTxs, MaxLandings, MaxTime, IoErrors,
          MaxSlots         \* bound: blocks the subscriber processes

ASSUME WriterAssumption ==
    /\ MaxTxAge \in Nat \ {0} /\ ChannelSize \in Nat \ {0}
    /\ ReadAtOnce \in Nat \ {0} /\ ReadAtOnceCsv \in Nat \ {0}
    /\ MaxTxs \in Nat /\ MaxLandings \in Nat /\ MaxTime \in Nat
    /\ IoErrors \in BOOLEAN
ASSUME SlotsAssumption == MaxSlots \in Nat

VARIABLES now, sent, sentOpen, tracked, blockRecs, blockOpen, recvd, drained,
          found, pending, flushDue, flushNow, dumpAt, rows, taken, file, faulty,
          cancelled, pc

VARIABLES
    opts,           \* which of output_csv_file and duration are given
    main,           \* where run_client is
    task,           \* the stage of each task of the JoinSet
    failed,         \* the tasks that returned an error or panicked
    joined,         \* those of them join_next has returned
    result,         \* what run_client returns
    sendCancelled,  \* the child token
    slotTasks,      \* tasks the subscriber has spawned, each with a sender
    slots           \* blocks the subscriber has seen

CW == INSTANCE CsvWriter

csvVars == <<now, sent, sentOpen, tracked, blockRecs, blockOpen, recvd,
             drained, found, pending, flushDue, flushNow, dumpAt, rows, taken, file,
             faulty, cancelled, pc>>
clientVars == <<opts, main, task, failed, joined, result, sendCancelled,
                slotTasks, slots>>
vars == <<csvVars, clientVars>>

ClientTasks == {"csv", "yellow", "timeout", "blockhash", "stats", "sched"}
Stages == {"none", "setup", "run", "delay", "closing", "done"}

\* As Spawned, but the CSV writer is not in the JoinSet.
SpawnedOther == {t \in ClientTasks \ {"csv"} : task[t] # "none"}

\* The tasks spawned into the JoinSet.
Spawned == {t \in ClientTasks : task[t] # "none"}

ClientTypeOK ==
    /\ opts \in [csv: BOOLEAN, timeout: BOOLEAN]
    /\ main \in {"hash", "leaders", "join", "exit", "abort"}
    /\ task \in [ClientTasks -> Stages]
    /\ joined \subseteq failed
    /\ failed \subseteq {t \in ClientTasks : task[t] = "done"}
    /\ result \in {"ok", "err"}
    /\ sendCancelled \in BOOLEAN
    /\ slotTasks \in 0 .. slots /\ slots \in 0 .. MaxSlots

\* The writer, the subscriber and the timer are spawned first, if asked for.
Init ==
    /\ CW!Init
    /\ opts \in [csv: BOOLEAN, timeout: BOOLEAN]
    /\ main = "hash"
    /\ task = [t \in ClientTasks |->
                 IF (t = "csv" /\ opts.csv) \/ (t = "timeout" /\ opts.timeout)
                 THEN "run"
                 ELSE IF t = "yellow" /\ opts.csv THEN "setup" ELSE "none"]
    /\ failed = {} /\ joined = {} /\ result = "ok"
    /\ sendCancelled = FALSE
    /\ slotTasks = 0 /\ slots = 0

\* run_client has returned, through its join loop or before it; what other
\* tasks are left ends with the process.
Gone == main \in {"exit", "abort"}

\* As CancelAll, but on the child token.
CancelSending == sendCancelled' = TRUE /\ UNCHANGED csvVars

\* cancel.cancel() on the parent: the child token is cancelled with it.
CancelAll ==
    /\ sendCancelled' = TRUE
    /\ IF cancelled THEN UNCHANGED csvVars ELSE CW!Cancel

\* As End, but the task goes on after its error.
EndNot(t, err) ==
    /\ UNCHANGED task
    /\ failed' = IF err THEN failed \cup {t} ELSE failed

\* Task t of the JoinSet ends.
End(t, err) ==
    /\ task' = [task EXCEPT ![t] = "done"]
    /\ failed' = IF err THEN failed \cup {t} ELSE failed

Running(t) == ~Gone /\ task[t] = "run"

-----------------------------------------------------------------------------
(* run_client itself. *)

\* The first blockhash has arrived; the updater is spawned.
StartBlockhash ==
    /\ main = "hash"
    /\ main' = "leaders"
    /\ task' = [task EXCEPT !["blockhash"] = "run"]
    /\ UNCHANGED <<csvVars, opts, failed, joined, result, sendCancelled,
                   slotTasks, slots>>

\* The leader updater is there; metrics and scheduler are spawned.
StartSending ==
    /\ main = "leaders"
    /\ main' = "join"
    /\ task' = [task EXCEPT !["stats"] = "run", !["sched"] = "run"]
    /\ UNCHANGED <<csvVars, opts, failed, joined, result, sendCancelled,
                   slotTasks, slots>>

\* The blockhash request panics, or create_leader_updater fails: run_client
\* ends at once and the JoinSet aborts the tasks it holds.
SetupFails ==
    /\ main \in {"hash", "leaders"}
    /\ main' = "abort" /\ result' = "err"
    /\ UNCHANGED <<csvVars, opts, task, failed, joined, sendCancelled,
                   slotTasks, slots>>

\* As Join, but an error after the cancellation is not told.
JoinSilent(t) ==
    /\ main = "join"
    /\ t \in failed \ joined
    /\ joined' = joined \cup {t}
    /\ result' = IF cancelled THEN result ELSE "err"
    /\ CancelAll
    /\ UNCHANGED <<opts, main, task, failed, slotTasks, slots>>

\* join_next: an error of any task cancels all.  (That a task which ended
\* well is joined is only logged, and is left out.)
Join(t) ==
    /\ main = "join"
    /\ t \in failed \ joined
    /\ joined' = joined \cup {t}
    /\ result' = "err" /\ CancelAll
    /\ UNCHANGED <<opts, main, task, failed, slotTasks, slots>>

\* join_next has returned every task.
Return ==
    /\ main = "join" /\ joined = failed
    /\ \A t \in Spawned : task[t] = "done"
    /\ main' = "exit"
    /\ UNCHANGED <<csvVars, opts, task, failed, joined, result, sendCancelled,
                   slotTasks, slots>>

-----------------------------------------------------------------------------
(* The timer. *)

\* The duration is over.  With an output file only the sending stops yet.
TimeoutFires ==
    /\ Running("timeout")
    /\ IF opts.csv
       THEN /\ task' = [task EXCEPT !["timeout"] = "delay"]
            /\ sendCancelled' = TRUE
            /\ UNCHANGED <<csvVars, failed>>
       ELSE End("timeout", FALSE) /\ CancelAll
    /\ UNCHANGED <<opts, main, joined, result, slotTasks, slots>>

\* YELLOWSTONE_STREAM_SHUTDOWN_DELAY is over.
DelayEnds ==
    /\ ~Gone /\ task["timeout"] = "delay"
    /\ End("timeout", FALSE) /\ CancelAll
    /\ UNCHANGED <<opts, main, joined, result, slotTasks, slots>>

TimeoutStops ==
    /\ Running("timeout") /\ cancelled
    /\ End("timeout", FALSE)
    /\ UNCHANGED <<csvVars, opts, main, joined, result, sendCancelled,
                   slotTasks, slots>>

-----------------------------------------------------------------------------
(* The scheduler, with the closures build_tx and send_record. *)

\* One turn: the record goes to the tracker; if that has gone, no more is
\* sent.  Without an output file the receiver is kept and never read.
SchedTick ==
    /\ Running("sched") /\ Len(sent) < MaxTxs
    /\ IF pc["track"] = "done"
       THEN sendCancelled' = TRUE /\ UNCHANGED csvVars
       ELSE CW!SendRecord /\ UNCHANGED sendCancelled
    /\ UNCHANGED <<opts, main, task, failed, joined, result, slotTasks, slots>>

\* The endpoint cannot be set up, or the first build_tx finds no payer.
SchedFails ==
    /\ Running("sched") /\ sent = <<>>
    /\ End("sched", TRUE) /\ CW!CloseSent
    /\ UNCHANGED <<opts, main, joined, result, sendCancelled, slotTasks, slots>>

\* Cancelled: the workers are shut down first ...
SchedStops ==
    /\ Running("sched") /\ sendCancelled
    /\ task' = [task EXCEPT !["sched"] = "closing"]
    /\ UNCHANGED <<csvVars, opts, main, failed, joined, result, sendCancelled,
                   slotTasks, slots>>

\* ... and then the task ends and drops the tracker sender it owns.
SchedEnds ==
    /\ ~Gone /\ task["sched"] = "closing"
    /\ End("sched", FALSE) /\ CW!CloseSent
    /\ UNCHANGED <<opts, main, joined, result, sendCancelled, slotTasks, slots>>

-----------------------------------------------------------------------------
(* Blockhash updater and metrics. *)

\* The updater does not know the tokens: it ends when it finds that the
\* receiver, owned by the scheduler, has been dropped.
BlockhashEnds ==
    /\ Running("blockhash") /\ task["sched"] = "done"
    /\ End("blockhash", FALSE)
    /\ UNCHANGED <<csvVars, opts, main, joined, result, sendCancelled,
                   slotTasks, slots>>

BlockhashStuck ==
    /\ Running("blockhash")
    /\ End("blockhash", TRUE)
    /\ UNCHANGED <<csvVars, opts, main, joined, result, sendCancelled,
                   slotTasks, slots>>

StatsEnds ==
    /\ Running("stats") /\ sendCancelled
    /\ End("stats", FALSE)
    /\ UNCHANGED <<csvVars, opts, main, joined, result, sendCancelled,
                   slotTasks, slots>>

-----------------------------------------------------------------------------
(* The subscriber. *)

\* The tip accounts have been asked for, the client is connected and has
\* subscribed.  The token is not looked at before.
YellowConnects ==
    /\ ~Gone /\ task["yellow"] = "setup"
    /\ task' = [task EXCEPT !["yellow"] = "run"]
    /\ UNCHANGED <<csvVars, opts, main, failed, joined, result, sendCancelled,
                   slotTasks, slots>>

\* A sender of the block channel is dropped; the last one closes it.
DropSender(left) == IF left = 0 THEN CW!CloseBlock ELSE UNCHANGED csvVars

\* The meta data of a block: a task is spawned for its transactions.
BlockMeta ==
    /\ Running("yellow") /\ slots < MaxSlots
    /\ slots' = slots + 1 /\ slotTasks' = slotTasks + 1
    /\ UNCHANGED <<csvVars, opts, main, task, failed, joined, result,
                   sendCancelled>>

\* The stream ends or fails, or the token is cancelled.  The spawned tasks
\* go on and are not waited for.
YellowEnds(err) ==
    /\ Running("yellow")
    /\ End("yellow", err)
    /\ DropSender(slotTasks)
    /\ UNCHANGED <<opts, main, joined, result, sendCancelled, slotTasks, slots>>

\* The connection fails or times out: the error is passed on.
YellowConnectFails ==
    /\ ~Gone /\ task["yellow"] = "setup"
    /\ End("yellow", TRUE)
    /\ DropSender(slotTasks)
    /\ UNCHANGED <<opts, main, joined, result, sendCancelled, slotTasks, slots>>

YellowStops == cancelled /\ YellowEnds(FALSE)

\* A spawned task sends the row of one of our transactions, or of another.
SlotSends ==
    /\ ~Gone /\ slotTasks > 0
    /\ \E id \in 0 .. Len(sent) : CW!LandRecord(id)
    /\ UNCHANGED clientVars

\* It has sent its rows, or panicked, or found the channel closed.
SlotTaskEnds ==
    /\ ~Gone /\ slotTasks > 0
    /\ slotTasks' = slotTasks - 1
    /\ DropSender(slotTasks - 1 + (IF task["yellow"] = "run" THEN 1 ELSE 0))
    /\ UNCHANGED <<opts, main, task, failed, joined, result, sendCancelled, slots>>

-----------------------------------------------------------------------------
(* The CSV writer. *)

CsvAlive == ~Gone /\ task["csv"] = "run"

CsvStep(A) == CsvAlive /\ A /\ UNCHANGED clientVars

CsvEnds ==
    /\ Running("csv") /\ CW!AllDone
    /\ End("csv", FALSE)
    /\ UNCHANGED <<csvVars, opts, main, joined, result, sendCancelled,
                   slotTasks, slots>>

\* The file cannot be created.
CsvPanics ==
    /\ Running("csv") /\ CW!OpenFails
    /\ End("csv", TRUE)
    /\ UNCHANGED <<opts, main, joined, result, sendCancelled, slotTasks, slots>>

Clock == CsvStep(CW!Tick)

-----------------------------------------------------------------------------
MainSteps == StartBlockhash \/ StartSending \/ Return
             \/ \E t \in ClientTasks : Join(t)
SchedSteps == SchedStops \/ SchedEnds

Next ==
    \/ MainSteps \/ SetupFails
    \/ TimeoutFires \/ DelayEnds \/ TimeoutStops
    \/ SchedSteps \/ SchedTick \/ SchedFails
    \/ BlockhashEnds \/ BlockhashStuck \/ StatsEnds
    \/ YellowConnects \/ YellowConnectFails
    \/ BlockMeta \/ SlotSends \/ SlotTaskEnds
    \/ \E err \in BOOLEAN : YellowEnds(err)
    \/ YellowStops
    \/ Clock \/ CsvEnds \/ CsvPanics
    \/ CsvStep(CW!Block) \/ CsvStep(CW!Flusher)
    \/ CsvStep(CW!Tracker) \/ CsvStep(CW!Writer)
    \/ Gone /\ UNCHANGED vars

Spec == Init /\ [][Next]_vars

\* Sleeps elapse, requests return or time out, ready tasks are polled.  Nothing
\* makes the subscriber's stream end, the updater get stuck or a tick of
\* the scheduler come.
Fairness ==
    /\ WF_vars(MainSteps)
    /\ WF_vars(TimeoutFires) /\ WF_vars(DelayEnds) /\ WF_vars(TimeoutStops)
    /\ WF_vars(SchedSteps) /\ WF_vars(BlockhashEnds) /\ WF_vars(StatsEnds)
    /\ WF_vars(YellowConnects \/ YellowConnectFails) /\ WF_vars(YellowStops)
    /\ WF_vars(CsvEnds)
    /\ WF_vars(CsvStep(CW!Block)) /\ WF_vars(CsvStep(CW!Flusher))
    /\ WF_vars(CsvStep(CW!Tracker)) /\ WF_vars(CsvStep(CW!Writer))

FairSpec == Spec /\ Fairness

-----------------------------------------------------------------------------
(* Properties. *)

\* The join loop reports an error exactly when some task has failed, also if
\* the failure came after others had ended well.
ResultTold ==
    main = "exit" => (result = "err" <=> failed # {})

\* A client that has gone through its join loop leaves no writer task behind
\* and, without an I/O error, every row it was given is in the file.
CsvClosed ==
    main = "exit" /\ opts.csv /\ ~faulty =>
        CW!AllDone /\ file = DOMAIN rows

\* csv_writer.rs:237 "Cancellation received, dumping all pending txs", and
\* "dump those which are still pending": a client that comes to its end
\* without an error leaves no filed send without a row.  It does when the
\* scheduler, cancelled before the writer, has closed the tracker's channel.
PendingDumped ==
    main = "exit" /\ opts.csv /\ ~faulty /\ failed = {} =>
        \A id \in pending : CW!Reports(id) # {}

\* The failure of any task ends the client, whatever the others wait for.
FailureStops == failed # {} ~> Gone

\* With a duration the client ends.
TimeoutEnds == opts.timeout ~> Gone

=============================================================================
