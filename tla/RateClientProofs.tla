-------------------------- MODULE RateClientProofs --------------------------
(***************************************************************************)
(* Proofs about RateClient, for any number of transactions, landings and   *)
(* blocks: the client uses the CSV writer as CsvWriter assumes, so that    *)
(* what is proved of the writer alone holds in the client; and the join    *)
(* loop tells of every failure and leaves no writer behind.                *)
(***************************************************************************)
EXTENDS RateClient, TLAPS

Writer == INSTANCE CsvWriterProofs

-----------------------------------------------------------------------------
(* Each step of the client leaves the writer alone or is a step of it. *)

\* Every landing the client may report is one CsvWriter allows for.
SentInv == now \in Nat /\ sent \in Seq(Nat) /\ Len(sent) <= MaxTxs

\* What a step of the client does to the writer is the writer's business.
WriterStep == UNCHANGED csvVars \/ CW!Next

\* The steps of run_client itself and of the timer.
LEMMA MainWrites ==
  ASSUME MainSteps \/ SetupFails \/ TimeoutFires \/ DelayEnds \/ TimeoutStops
  PROVE  WriterStep
<1>1. ASSUME CancelAll PROVE WriterStep
  BY <1>1 DEF CancelAll, WriterStep, CW!Next, CW!Environment
<1>2. CASE StartBlockhash \/ StartSending \/ Return \/ SetupFails \/ TimeoutStops
  BY <1>2 DEF StartBlockhash, StartSending, Return, SetupFails, TimeoutStops,
              WriterStep
<1>3. CASE \E t \in ClientTasks : Join(t)
  BY <1>1, <1>3 DEF Join
<1>4. CASE TimeoutFires
  BY <1>1, <1>4 DEF TimeoutFires, WriterStep
<1>5. CASE DelayEnds
  BY <1>1, <1>5 DEF DelayEnds
<1> QED
  BY <1>2, <1>3, <1>4, <1>5 DEF MainSteps

\* Those of the scheduler, the updater and the metrics.
LEMMA SchedulerWrites ==
  ASSUME \/ SchedSteps \/ SchedTick \/ SchedFails
         \/ BlockhashEnds \/ BlockhashStuck \/ StatsEnds
  PROVE  WriterStep
<1> USE DEF WriterStep, CW!Next, CW!Environment
<1>1. CASE SchedStops \/ BlockhashEnds \/ BlockhashStuck \/ StatsEnds
  BY <1>1 DEF SchedStops, BlockhashEnds, BlockhashStuck, StatsEnds
<1>2. CASE SchedEnds
  BY <1>2 DEF SchedEnds
<1>3. CASE SchedTick
  BY <1>3 DEF SchedTick
<1>4. CASE SchedFails
  BY <1>4 DEF SchedFails
<1> QED
  BY <1>1, <1>2, <1>3, <1>4 DEF SchedSteps

\* Those of the subscriber and its tasks.
LEMMA SubscriberWrites ==
  ASSUME SentInv,
         \/ YellowConnects \/ YellowConnectFails \/ BlockMeta \/ SlotSends
         \/ SlotTaskEnds \/ YellowStops \/ \E err \in BOOLEAN : YellowEnds(err)
  PROVE  WriterStep
<1>1. ASSUME NEW left, DropSender(left) PROVE WriterStep
  BY <1>1 DEF DropSender, WriterStep, CW!Next, CW!Environment
<1>2. CASE YellowConnects \/ BlockMeta
  BY <1>2 DEF YellowConnects, BlockMeta, WriterStep
<1>3. CASE YellowConnectFails
  BY <1>1, <1>3 DEF YellowConnectFails
<1>4. CASE YellowStops \/ \E err \in BOOLEAN : YellowEnds(err)
  BY <1>1, <1>4 DEF YellowStops, YellowEnds
<1>5. CASE SlotTaskEnds
  BY <1>1, <1>5 DEF SlotTaskEnds
<1>6. CASE SlotSends
  <2>1. PICK id \in 0 .. Len(sent) : CW!LandRecord(id)
    BY <1>6 DEF SlotSends
  <2>2. id \in 0 .. MaxTxs
    BY WriterAssumption DEF SentInv
  <2> QED
    BY <2>1, <2>2 DEF WriterStep, CW!Next, CW!Environment
<1> QED
  BY <1>2, <1>3, <1>4, <1>5, <1>6

\* Those of the writer's tasks.
LEMMA TasksWrite ==
  ASSUME \/ Clock \/ CsvEnds \/ CsvPanics
         \/ CsvStep(CW!Block) \/ CsvStep(CW!Flusher)
         \/ CsvStep(CW!Tracker) \/ CsvStep(CW!Writer)
  PROVE  WriterStep
  BY DEF Clock, CsvEnds, CsvPanics, CsvStep, WriterStep, CW!Next, CW!Environment

\* Every step of the client is a step of the writer or leaves it alone.
LEMMA ClientWrites == SentInv /\ [Next]_vars => WriterStep
<1> SUFFICES ASSUME SentInv, [Next]_vars PROVE WriterStep
  OBVIOUS
<1>1. CASE UNCHANGED vars
  BY <1>1 DEF vars, WriterStep
<1>2. CASE Next
  BY <1>1, <1>2, MainWrites, SchedulerWrites, SubscriberWrites, TasksWrite DEF Next
<1> QED
  BY <1>1, <1>2

\* No more is sent than the bound allows.
LEMMA SentStep == SentInv /\ [Next]_vars => SentInv'
<1> SUFFICES ASSUME SentInv, [Next]_vars PROVE SentInv'
  OBVIOUS
<1>1. WriterStep
  BY ClientWrites
<1> USE DEF SentInv, CW!envVars, CW!mapVars, CW!timeVars, CW!fileVars
<1>2. CASE UNCHANGED csvVars
  BY <1>2 DEF csvVars
<1>3. CASE CW!Environment
  <2>1. CASE CW!Tick
    BY <2>1, WriterAssumption DEF CW!Tick
  <2>2. CASE CW!SendRecord
    BY <2>2, WriterAssumption DEF CW!SendRecord
  <2>3. CASE CW!CloseSent \/ CW!CloseBlock \/ CW!Cancel
    BY <2>3 DEF CW!CloseSent, CW!CloseBlock, CW!Cancel
  <2>4. CASE \E id \in 0 .. MaxTxs : CW!LandRecord(id)
    BY <2>4 DEF CW!LandRecord
  <2> QED
    BY <1>3, <2>1, <2>2, <2>3, <2>4 DEF CW!Environment
<1>4. CASE CW!OpenFails \/ CW!Finished
  BY <1>4 DEF CW!OpenFails, CW!Finished, CW!vars
<1>5. CASE CW!Block
  BY <1>5 DEF CW!Block, CW!BlockRecv, CW!BlockLook, CW!BlockSend,
              CW!BlockStop, CW!Goto
<1>6. CASE CW!Flusher
  BY <1>6 DEF CW!Flusher, CW!FlushTick, CW!FlushLock, CW!FlushRow, CW!FlushEnd,
              CW!FlushStop
<1>7. CASE CW!Tracker
  BY <1>7 DEF CW!Tracker, CW!TrackRecv, CW!TrackStop, CW!TrackCancel, CW!DumpRow,
              CW!DumpEnd
<1>8. CASE CW!Writer
  BY <1>8 DEF CW!Writer, CW!WriteBatch, CW!WriteFail, CW!WriteStop, CW!TakeRows
<1> QED
  BY <1>1, <1>2, <1>3, <1>4, <1>5, <1>6, <1>7, <1>8 DEF WriterStep, CW!Next

-----------------------------------------------------------------------------
(* The join loop. *)

\* The tasks that run_client has not come to spawn.
NotYet ==
    /\ main = "hash" => task["blockhash"] = "none"
    /\ main \in {"hash", "leaders"} =>
           task["stats"] = "none" /\ task["sched"] = "none"

\* The result counts what join_next has returned, and the client leaves the
\* loop when that is everything.
LoopInv ==
    /\ main # "abort" => (result = "err" <=> joined # {})
    /\ main = "exit" => joined = failed /\ \A t \in Spawned : task[t] = "done"

\* The CSV task is in the JoinSet if it was asked for, and it ends only
\* when the four tasks of the writer have.
CsvInv ==
    /\ opts.csv => task["csv"] # "none"
    /\ task["csv"] = "done" => CW!AllDone

ClientInv == ClientTypeOK /\ NotYet /\ LoopInv /\ CsvInv

\* Tasks that have ended do not start again.
LEMMA DoneStays == CW!AllDone /\ WriterStep => CW!AllDone'
<1> SUFFICES ASSUME CW!AllDone, WriterStep PROVE pc' = pc
  BY DEF CW!AllDone
<1> USE DEF CW!envVars, CW!mapVars, CW!timeVars, CW!fileVars
<1>1. \A t \in {"block", "flush", "track", "write"} : pc[t] = "done"
  BY DEF CW!AllDone, CW!Tasks
<1>2. CASE UNCHANGED csvVars \/ CW!Finished
  BY <1>2 DEF csvVars, CW!Finished, CW!vars
<1>3. CASE CW!Environment
  BY <1>3 DEF CW!Environment, CW!Tick, CW!SendRecord, CW!CloseSent, CW!CloseBlock,
              CW!Cancel, CW!LandRecord
<1>4. CASE CW!OpenFails
  BY <1>1, <1>4 DEF CW!OpenFails, CW!Tasks
<1>5. CASE CW!Block
  BY <1>1, <1>5 DEF CW!Block, CW!BlockRecv, CW!BlockLook, CW!BlockSend,
              CW!BlockStop, CW!Goto
<1>6. CASE CW!Flusher
  BY <1>1, <1>6 DEF CW!Flusher, CW!FlushTick, CW!FlushLock, CW!FlushRow,
                    CW!FlushEnd, CW!FlushStop
<1>7. CASE CW!Tracker
  BY <1>1, <1>7 DEF CW!Tracker, CW!TrackRecv, CW!TrackStop, CW!TrackCancel,
                    CW!DumpRow, CW!DumpEnd
<1>8. CASE CW!Writer
  BY <1>1, <1>8 DEF CW!Writer, CW!WriteBatch, CW!WriteFail, CW!WriteStop, CW!TakeRows
<1> QED
  BY <1>2, <1>3, <1>4, <1>5, <1>6, <1>7, <1>8 DEF WriterStep, CW!Next

\* The initial states satisfy the invariant of the client.
LEMMA ClientInit == Init => ClientInv
<1> SUFFICES ASSUME Init PROVE ClientInv
  OBVIOUS
<1> DEFINE first(t) ==
      IF (t = "csv" /\ opts.csv) \/ (t = "timeout" /\ opts.timeout)
      THEN "run"
      ELSE IF t = "yellow" /\ opts.csv THEN "setup" ELSE "none"
<1>1. task = [t \in ClientTasks |-> first(t)]
  BY DEF Init
<1>2. \A t : first(t) \in Stages
  BY DEF Stages
<1>3. task \in [ClientTasks -> Stages]
  BY <1>1, <1>2
<1>4. \A t \in {"blockhash", "stats", "sched"} : task[t] = "none"
  BY <1>1 DEF ClientTasks
<1>5. /\ opts \in [csv: BOOLEAN, timeout: BOOLEAN]
      /\ main = "hash" /\ failed = {} /\ joined = {} /\ result = "ok"
      /\ sendCancelled = FALSE /\ slotTasks = 0 /\ slots = 0
  BY Zenon DEF Init
<1>6. task["csv"] # "done" /\ (opts.csv => task["csv"] = "run")
  BY <1>1 DEF ClientTasks
<1> HIDE DEF first
<1>7. slotTasks \in 0 .. slots /\ slots \in 0 .. MaxSlots
  BY <1>5, SlotsAssumption
<1>8. ClientTypeOK
  BY <1>3, <1>5, <1>7, Zenon DEF ClientTypeOK
<1> QED
  BY <1>4, <1>5, <1>6, <1>8 DEF ClientInv, NotYet, LoopInv, CsvInv

\* What the end of a task leaves of the invariant.
LEMMA EndKeeps ==
  ASSUME ClientInv, WriterStep, NEW t \in ClientTasks, NEW err, ~Gone,
         task[t] \notin {"none", "done"}, End(t, err),
         t = "csv" => CW!AllDone',
         UNCHANGED <<opts, main, joined, result, slots>>,
         sendCancelled' \in BOOLEAN,
         slotTasks' \in 0 .. slots
  PROVE  ClientInv'
<1> USE DEF ClientInv
<1>1. ClientTypeOK'
  BY DEF ClientTypeOK, End, Stages
<1>2. NotYet'
  BY DEF NotYet, End, ClientTypeOK, ClientTasks
<1>3. LoopInv'
  BY DEF LoopInv, Gone
<1>4. CsvInv'
  BY DoneStays DEF CsvInv, End, ClientTypeOK, ClientTasks
<1> QED
  BY <1>1, <1>2, <1>3, <1>4

\* What a step leaves of it that ends no task.
LEMMA GoOnKeeps ==
  ASSUME ClientInv, WriterStep,
         UNCHANGED <<opts, main, task, failed, joined, result>>,
         sendCancelled' \in BOOLEAN,
         slots' \in 0 .. MaxSlots, slotTasks' \in 0 .. slots'
  PROVE  ClientInv'
<1> QED
  BY DoneStays DEF ClientInv, ClientTypeOK, NotYet, LoopInv, CsvInv, Spawned

\* What one leaves of it that moves a running task on.
LEMMA MoveKeeps ==
  ASSUME ClientInv, WriterStep, NEW t \in ClientTasks \ {"csv"},
         NEW stage \in {"run", "delay", "closing"}, ~Gone,
         task[t] \notin {"none", "done"},
         task' = [task EXCEPT ![t] = stage],
         UNCHANGED <<opts, main, failed, joined, result, slots, slotTasks>>,
         sendCancelled' \in BOOLEAN
  PROVE  ClientInv'
<1> USE DEF ClientInv
<1>1. ClientTypeOK'
  BY DEF ClientTypeOK, Stages
<1>2. NotYet'
  BY DEF NotYet, ClientTypeOK, ClientTasks
<1>3. LoopInv'
  BY DEF LoopInv, Gone
<1>4. CsvInv'
  BY DoneStays DEF CsvInv, ClientTypeOK, ClientTasks
<1> QED
  BY <1>1, <1>2, <1>3, <1>4

\* run_client's own steps: those that spawn, and those of the join loop.
LEMMA MainKeeps ==
  ASSUME ClientInv, WriterStep, MainSteps \/ SetupFails
  PROVE  ClientInv'
<1> USE DEF ClientInv
<1>1. CASE StartBlockhash
  <2>1. ClientTypeOK'
    BY <1>1 DEF StartBlockhash, ClientTypeOK, NotYet, Stages
  <2>2. NotYet' /\ LoopInv'
    BY <1>1 DEF StartBlockhash, ClientTypeOK, NotYet, LoopInv
  <2>3. CsvInv'
    BY <1>1, DoneStays DEF StartBlockhash, ClientTypeOK, CsvInv, ClientTasks
  <2> QED
    BY <2>1, <2>2, <2>3
<1>2. CASE StartSending
  <2>1. ClientTypeOK'
    BY <1>2 DEF StartSending, ClientTypeOK, NotYet, Stages
  <2>2. NotYet' /\ LoopInv'
    BY <1>2 DEF StartSending, NotYet, LoopInv
  <2>3. CsvInv'
    BY <1>2, DoneStays DEF StartSending, ClientTypeOK, CsvInv, ClientTasks
  <2> QED
    BY <2>1, <2>2, <2>3
<1>3. CASE SetupFails
  BY <1>3, DoneStays
     DEF SetupFails, ClientTypeOK, NotYet, LoopInv, CsvInv
<1>4. CASE Return
  BY <1>4, DoneStays DEF Return, ClientTypeOK, NotYet, LoopInv, CsvInv, Spawned
<1>5. ASSUME NEW t \in ClientTasks, Join(t) PROVE ClientInv'
  <2>1. sendCancelled' = TRUE
    BY <1>5 DEF Join, CancelAll
  <2> QED
    BY <1>5, <2>1, DoneStays DEF Join, ClientTypeOK, NotYet, LoopInv, CsvInv
<1> QED
  BY <1>1, <1>2, <1>3, <1>4, <1>5 DEF MainSteps

\* The steps of the timer, the scheduler, the updater and the metrics.
LEMMA SendersKeep ==
  ASSUME ClientInv, WriterStep,
         \/ TimeoutFires \/ DelayEnds \/ TimeoutStops
         \/ SchedSteps \/ SchedTick \/ SchedFails
         \/ BlockhashEnds \/ BlockhashStuck \/ StatsEnds
  PROVE  ClientInv'
<1>1. /\ sendCancelled \in BOOLEAN /\ slotTasks \in 0 .. slots
      /\ slots \in 0 .. MaxSlots
  BY DEF ClientInv, ClientTypeOK
<1> USE DEF Running, ClientTasks
<1>2. CASE TimeoutFires
  <2>1. CASE opts.csv
    BY <1>1, <1>2, <2>1, MoveKeeps DEF TimeoutFires
  <2>2. CASE ~opts.csv
    BY <1>1, <1>2, <2>2, EndKeeps DEF TimeoutFires, CancelAll
  <2> QED
    BY <2>1, <2>2
<1>3. CASE DelayEnds
  BY <1>1, <1>3, EndKeeps DEF DelayEnds, CancelAll
<1>4. CASE TimeoutStops
  BY <1>1, <1>4, EndKeeps DEF TimeoutStops
<1>5. CASE SchedStops
  BY <1>1, <1>5, MoveKeeps DEF SchedStops
<1>6. CASE SchedEnds
  BY <1>1, <1>6, EndKeeps DEF SchedEnds
<1>7. CASE SchedFails
  BY <1>1, <1>7, EndKeeps DEF SchedFails
<1>8. CASE SchedTick
  BY <1>1, <1>8, GoOnKeeps DEF SchedTick
<1>9. CASE BlockhashEnds \/ BlockhashStuck
  BY <1>1, <1>9, EndKeeps DEF BlockhashEnds, BlockhashStuck
<1>10. CASE StatsEnds
  BY <1>1, <1>10, EndKeeps DEF StatsEnds
<1> QED
  BY <1>2, <1>3, <1>4, <1>5, <1>6, <1>7, <1>8, <1>9, <1>10 DEF SchedSteps

\* Those of the subscriber and its tasks.
LEMMA SubscriberKeeps ==
  ASSUME ClientInv, WriterStep,
         \/ YellowConnects \/ YellowConnectFails \/ BlockMeta \/ SlotSends
         \/ SlotTaskEnds \/ YellowStops \/ \E err \in BOOLEAN : YellowEnds(err)
  PROVE  ClientInv'
<1>1. /\ sendCancelled \in BOOLEAN /\ slotTasks \in 0 .. slots
      /\ slots \in 0 .. MaxSlots
  BY DEF ClientInv, ClientTypeOK
<1> USE DEF Running, ClientTasks
<1>2. CASE YellowConnects
  BY <1>1, <1>2, MoveKeeps DEF YellowConnects
<1>3. CASE YellowConnectFails
  BY <1>1, <1>3, EndKeeps DEF YellowConnectFails
<1>4. CASE BlockMeta
  BY <1>1, <1>4, SlotsAssumption, GoOnKeeps DEF BlockMeta
<1>5. CASE SlotSends
  BY <1>1, <1>5, GoOnKeeps DEF SlotSends, clientVars
<1>6. CASE SlotTaskEnds
  BY <1>1, <1>6, SlotsAssumption, GoOnKeeps DEF SlotTaskEnds
<1>7. CASE YellowStops \/ \E err \in BOOLEAN : YellowEnds(err)
  BY <1>1, <1>7, EndKeeps DEF YellowStops, YellowEnds
<1> QED
  BY <1>2, <1>3, <1>4, <1>5, <1>6, <1>7

\* Those of the writer's tasks.
LEMMA WriterKeeps ==
  ASSUME ClientInv, WriterStep,
         \/ Clock \/ CsvEnds \/ CsvPanics
         \/ CsvStep(CW!Block) \/ CsvStep(CW!Flusher)
         \/ CsvStep(CW!Tracker) \/ CsvStep(CW!Writer)
  PROVE  ClientInv'
<1>1. /\ sendCancelled \in BOOLEAN /\ slotTasks \in 0 .. slots
      /\ slots \in 0 .. MaxSlots
  BY DEF ClientInv, ClientTypeOK
<1> USE DEF Running, ClientTasks
<1>2. CASE CsvEnds
  BY <1>1, <1>2, DoneStays, EndKeeps DEF CsvEnds
<1>3. CASE CsvPanics
  <2>1. CW!AllDone'
    BY <1>3 DEF CsvPanics, CW!OpenFails, CW!AllDone
  <2> QED
    BY <1>1, <1>3, <2>1, EndKeeps DEF CsvPanics
<1>4. CASE UNCHANGED clientVars
  BY <1>1, <1>4, GoOnKeeps DEF clientVars
<1> QED
  BY <1>2, <1>3, <1>4 DEF Clock, CsvStep

\* Every step of the client, and of the writer in it, keeps it, ...
LEMMA ClientStep == SentInv /\ ClientInv /\ [Next]_vars => ClientInv'
<1> SUFFICES ASSUME SentInv, ClientInv, [Next]_vars PROVE ClientInv'
  OBVIOUS
<1>1. WriterStep
  BY ClientWrites
<1>2. CASE UNCHANGED vars
  BY <1>1, <1>2, GoOnKeeps DEF vars, clientVars, ClientInv, ClientTypeOK
<1>3. CASE Next
  BY <1>1, <1>2, <1>3, MainKeeps, SendersKeep, SubscriberKeeps, WriterKeeps DEF Next
<1> QED
  BY <1>2, <1>3

\* ... so that it holds in every reachable state.
THEOREM Invariance == Spec => [](SentInv /\ ClientInv)
<1>1. Init => SentInv
  BY WriterAssumption DEF Init, CW!Init, SentInv
<1> QED
  BY <1>1, ClientInit, ClientStep, SentStep, PTL DEF Spec

\* Every variable of run_client keeps its type; only tasks that have ended
\* have failed, and only failed ones are told of.
THEOREM TypeCorrect == Spec => []ClientTypeOK
  BY Invariance, PTL DEF ClientInv

\* run_client.rs:207-226: the join loop reports an error exactly when a task
\* has failed, in whatever order the tasks end.
THEOREM ResultToldCorrect == Spec => []ResultTold
<1>1. ClientInv => ResultTold
  BY DEF ClientInv, LoopInv, ResultTold
<1> QED
  BY <1>1, Invariance, PTL

-----------------------------------------------------------------------------
(* What holds of the writer alone holds in the client. *)

\* The writer that the theorems are about starts as that in the client, ...
LEMMA SameInit == CW!Init => Writer!Init
  BY DEF CW!Init, Writer!Init, CW!Tasks, Writer!Tasks

\* ... and takes the same steps.
LEMMA SameNext == CW!Next => Writer!Next
<1> SUFFICES ASSUME CW!Next PROVE Writer!Next
  OBVIOUS
<1> USE DEF CW!envVars, CW!mapVars, CW!timeVars, CW!fileVars, Writer!envVars,
            Writer!mapVars, Writer!timeVars, Writer!fileVars
<1>1. CW!Environment => Writer!Environment
  BY DEF CW!Environment, CW!Tick, CW!SendRecord, CW!CloseSent, CW!CloseBlock,
         CW!Cancel, CW!LandRecord, Writer!Environment, Writer!Tick,
         Writer!SendRecord, Writer!CloseSent, Writer!CloseBlock,
         Writer!Cancel, Writer!LandRecord
<1>2. CW!Block => Writer!Block
  BY DEF CW!Block, CW!BlockRecv, CW!BlockLook, CW!BlockSend, CW!BlockStop,
         CW!InHand, CW!NoId, CW!LockFree, CW!Emit, CW!Goto, Writer!Block,
         Writer!BlockRecv, Writer!BlockLook, Writer!BlockSend,
         Writer!BlockStop, Writer!InHand, Writer!NoId, Writer!LockFree,
         Writer!Emit, Writer!Goto
<1>3. CW!Flusher => Writer!Flusher
  BY DEF CW!Flusher, CW!FlushTick, CW!FlushLock, CW!FlushRow, CW!FlushEnd,
         CW!FlushStop, CW!LockFree, CW!FirstFrom, CW!TooOld, CW!Emit,
         CW!Goto, Writer!Flusher, Writer!FlushTick, Writer!FlushLock,
         Writer!FlushRow, Writer!FlushEnd, Writer!FlushStop, Writer!LockFree,
         Writer!FirstFrom, Writer!TooOld, Writer!Emit, Writer!Goto
<1>4. CW!Tracker => Writer!Tracker
  BY DEF CW!Tracker, CW!TrackRecv, CW!TrackStop, CW!TrackCancel, CW!DumpRow,
         CW!DumpEnd, CW!LockFree, CW!FirstFrom, CW!Emit, CW!Goto,
         Writer!Tracker, Writer!TrackRecv, Writer!TrackStop,
         Writer!TrackCancel, Writer!DumpRow, Writer!DumpEnd, Writer!LockFree,
         Writer!FirstFrom, Writer!Emit, Writer!Goto
<1>5. CW!Writer => Writer!Writer
  BY DEF CW!Writer, CW!WriteBatch, CW!WriteFail, CW!WriteStop, CW!TakeRows,
         CW!Tasks, CW!Goto, Writer!Writer, Writer!WriteBatch,
         Writer!WriteFail, Writer!WriteStop, Writer!TakeRows, Writer!Tasks,
         Writer!Goto
<1>6. CW!OpenFails => Writer!OpenFails
  BY DEF CW!OpenFails, Writer!OpenFails, CW!Tasks, Writer!Tasks
<1>7. CW!Finished => Writer!Finished
  BY DEF CW!Finished, CW!AllDone, CW!Tasks, CW!vars, Writer!Finished,
         Writer!AllDone, Writer!Tasks, Writer!vars
<1> QED
  BY <1>1, <1>2, <1>3, <1>4, <1>5, <1>6, <1>7 DEF CW!Next, Writer!Next

\* The steps of the client are those of the writer for which the theorems of
\* CsvWriterProofs are stated.
LEMMA WriterRuns == Spec => Writer!Spec
<1>1. Init => Writer!Init
  BY SameInit DEF Init
<1>2. SentInv /\ [Next]_vars => [Writer!Next]_(Writer!vars)
  BY ClientWrites, SameNext
     DEF WriterStep, csvVars, Writer!vars, Writer!envVars, Writer!mapVars,
         Writer!timeVars, Writer!fileVars
<1> QED
  BY <1>1, <1>2, Invariance, PTL DEF Spec, Writer!Spec

\* A client that has left its join loop has a writer with no task left and,
\* without an I/O error, a file with every row in it: the end of run_csv_writer
\* seen from the end of run_client.
THEOREM CsvClosedCorrect == Spec => []CsvClosed
<1>1. Writer!Spec => []Writer!FileComplete
  BY WriterAssumption, Writer!FileCompleteCorrect
<1>2. ClientInv /\ Writer!FileComplete => CsvClosed
  BY DEF ClientInv, LoopInv, CsvInv, ClientTypeOK, CsvClosed, Spawned, ClientTasks,
         CW!AllDone, CW!Tasks, Writer!FileComplete, Writer!AllDone, Writer!Tasks
<1> QED
  BY <1>1, <1>2, Invariance, WriterRuns, PTL
=============================================================================
