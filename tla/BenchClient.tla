----------------------------- MODULE BenchClient -----------------------------
(***************************************************************************)
(* transaction-bench/src/main.rs: run_client, with the generator of        *)
(* generator/transaction_generator.rs, the scheduler of the library that   *)
(* sends through the Broadcaster, and the blockhash updater.               *)
(*                                                                         *)
(* The generator keeps a pool of tasks that build batches and send them on *)
(* a bounded channel; run_client joins generator, updater and scheduler in *)
(* this order.  There is no cancellation: each ends because the one before *)
(* it has dropped its end of a channel.  A batch is only counted.          *)
(***************************************************************************)
EXTENDS Broadcaster

CONSTANTS
    PoolSize,      \* workers_pull_size
    ChannelSize    \* GENERATOR_CHANNEL_SIZE

ASSUME PoolAssumption == PoolSize \in Nat \ {0}
ASSUME ChannelAssumption == ChannelSize \in Nat \ {0}

VARIABLES
    main,       \* where run_client is
    limited,    \* a duration is given
    timeUp,     \* it is over
    gen,        \* where the generator is
    building,   \* its tasks that build a batch,
    sending,    \* that wait for the channel,
    finished,   \* and that have not been joined yet
    aborted,    \* history: those aborted before they had sent their batch
    queue,      \* batches in the channel
    sched,      \* the scheduler
    updater     \* the blockhash updater

genVars == <<gen, building, sending, finished, aborted>>
benchVars == <<main, limited, timeUp, genVars, queue, sched, updater>>
vars == <<benchVars, castVars>>

TypeOK ==
    /\ CastTypeOK
    /\ main \in {"setup", "gen", "updater", "sched", "exit"}
    /\ limited \in BOOLEAN /\ timeUp \in BOOLEAN
    /\ gen \in {"start", "head", "spawn", "join", "drain", "ok", "err"}
    /\ building \in Nat /\ sending \in Nat /\ finished \in Nat /\ aborted \in Nat
    /\ building + sending + finished <= PoolSize
    /\ queue \in 0 .. ChannelSize
    /\ sched \in {"none", "run", "ok", "err"}
    /\ updater \in {"run", "ok", "err"}

\* Updater and generator are spawned before the leader updater is set up.
Init ==
    /\ CastInit
    /\ main = "setup"
    /\ limited \in BOOLEAN /\ timeUp = FALSE
    /\ gen = "start" /\ building = 0 /\ sending = 0 /\ finished = 0
    /\ aborted = 0 /\ queue = 0 /\ sched = "none" /\ updater = "run"

\* Who holds the ends of the channels.
GenDone      == gen \in {"ok", "err"}
ReceiverGone == sched \in {"ok", "err"}

Live == main # "exit"

-----------------------------------------------------------------------------
(* run_client *)

SetUp ==
    /\ main = "setup"
    /\ main' = "gen" /\ sched' = "run"
    /\ UNCHANGED <<limited, timeUp, genVars, queue, updater, castVars>>

\* create_leader_updater fails: run_client, and the program, ends.
SetUpFails ==
    /\ main = "setup"
    /\ main' = "exit"
    /\ UNCHANGED <<limited, timeUp, genVars, queue, sched, updater, castVars>>

\* join_service, three times; an error is only logged.
JoinNext ==
    /\ \/ main = "gen" /\ GenDone /\ main' = "updater"
       \/ main = "updater" /\ updater # "run" /\ main' = "sched"
       \/ main = "sched" /\ ReceiverGone /\ main' = "exit"
    /\ UNCHANGED <<limited, timeUp, genVars, queue, sched, updater, castVars>>

TimeUp ==
    /\ Live /\ limited /\ ~timeUp
    /\ timeUp' = TRUE
    /\ UNCHANGED <<main, limited, genVars, queue, sched, updater, castVars>>

-----------------------------------------------------------------------------
(* The generator. *)

GenUnchanged == UNCHANGED <<main, limited, timeUp, sched, updater, castVars>>

\* The budget of compute units must do for the transfers of a transaction,
\* and there must be payers (without, the first turn panics).
GenStart ==
    /\ Live /\ gen = "start"
    /\ gen' \in {"head", "err"}
    /\ UNCHANGED <<building, sending, finished, aborted, queue>> /\ GenUnchanged

\* As GenHead, but it does not ask whether there is a receiver.
GenHeadBlind ==
    /\ Live /\ gen = "head"
    /\ gen' = IF timeUp THEN "drain" ELSE "spawn"
    /\ UNCHANGED <<building, sending, finished, aborted, queue>> /\ GenUnchanged

\* The JoinSet is dropped, and aborts the tasks there are.
DropTasks ==
    /\ building' = 0 /\ sending' = 0 /\ finished' = 0
    /\ aborted' = aborted + building + sending

\* The head of the loop.
GenHead ==
    /\ Live /\ gen = "head"
    /\ IF ~timeUp /\ ReceiverGone
       THEN gen' = "err" /\ DropTasks
       ELSE /\ gen' = IF timeUp THEN "drain" ELSE "spawn"
            /\ UNCHANGED <<building, sending, finished, aborted>>
    /\ UNCHANGED queue /\ GenUnchanged

\* As Wanted, but only the running tasks are counted.
WantedRunning == PoolSize - (building + sending)

\* The pool is filled up; a finished task counts until it is joined.
Wanted == PoolSize - (building + sending + finished)

GenSpawn ==
    /\ Live /\ gen = "spawn"
    /\ gen' = "join" /\ building' = building + Wanted
    /\ UNCHANGED <<sending, finished, aborted, queue>> /\ GenUnchanged

GenJoin ==
    /\ Live /\ gen = "join" /\ finished > 0
    /\ gen' = "head" /\ finished' = finished - 1
    /\ UNCHANGED <<building, sending, aborted, queue>> /\ GenUnchanged

\* The duration is over: all tasks are joined.
GenDrain ==
    /\ Live /\ gen = "drain" /\ finished > 0
    /\ finished' = finished - 1
    /\ UNCHANGED <<gen, building, sending, aborted, queue>> /\ GenUnchanged

\* As GenEnds, but the tasks are not joined: the JoinSet goes with them.
GenEndsEarly ==
    /\ Live /\ gen = "drain"
    /\ gen' = "ok" /\ DropTasks
    /\ UNCHANGED queue /\ GenUnchanged

GenEnds ==
    /\ Live /\ gen = "drain" /\ building + sending + finished = 0
    /\ gen' = "ok"
    /\ UNCHANGED <<building, sending, finished, aborted, queue>> /\ GenUnchanged

\* A task of the pool: builds a batch, or fails to ...
Built(ok) ==
    /\ Live /\ building > 0
    /\ building' = building - 1
    /\ IF ok THEN sending' = sending + 1 /\ UNCHANGED finished
             ELSE finished' = finished + 1 /\ UNCHANGED sending
    /\ UNCHANGED <<gen, aborted, queue>> /\ GenUnchanged

\* ... and sends it, unless the receiver has gone.
SendBatch ==
    /\ Live /\ sending > 0
    /\ IF ReceiverGone THEN UNCHANGED queue
                       ELSE queue < ChannelSize /\ queue' = queue + 1
    /\ sending' = sending - 1 /\ finished' = finished + 1
    /\ UNCHANGED <<gen, building, aborted>> /\ GenUnchanged

-----------------------------------------------------------------------------
(* The scheduler and the updater. *)

\* A batch is taken and broadcast to the leaders of the moment.
SchedTakes ==
    /\ Live /\ sched = "run" /\ cast = "idle" /\ queue > 0
    /\ queue' = queue - 1
    /\ \E ls \in {s \in UNION {[1 .. n -> Leaders] : n \in 0 .. 2} : IsInjective(s)} :
         \E gone \in SUBSET Leaders : Call(ls, gone)
    /\ UNCHANGED <<main, limited, timeUp, genVars, sched, updater>>

\* As ChannelEnded, but with a sender that run_client keeps.
ChannelKeptOpen == GenDone /\ queue = 0 /\ main = "exit"

\* Every sender has been dropped and every batch taken.
ChannelEnded == GenDone /\ queue = 0

SchedEnds ==
    /\ Live /\ sched = "run" /\ cast = "idle" /\ ChannelEnded
    /\ sched' = "ok"
    /\ UNCHANGED <<main, limited, timeUp, genVars, queue, updater, castVars>>

\* The endpoint cannot be set up, or the leader updater fails.
SchedFails ==
    /\ Live /\ sched = "run" /\ cast = "idle"
    /\ sched' = "err"
    /\ UNCHANGED <<main, limited, timeUp, genVars, queue, updater, castVars>>

\* BlockhashUpdater: ends when the generator has dropped the receiver, ...
UpdaterEnds ==
    /\ Live /\ updater = "run" /\ GenDone
    /\ updater' = "ok"
    /\ UNCHANGED <<main, limited, timeUp, genVars, queue, sched, castVars>>

\* ... or is stuck, which nobody looks at before the generator has ended.
UpdaterStuck ==
    /\ Live /\ updater = "run"
    /\ updater' = "err"
    /\ UNCHANGED <<main, limited, timeUp, genVars, queue, sched, castVars>>

-----------------------------------------------------------------------------
Generator == GenStart \/ GenHead \/ GenSpawn \/ GenJoin \/ GenDrain \/ GenEnds
Pool      == SendBatch \/ \E ok \in BOOLEAN : Built(ok)
Scheduler == SchedTakes \/ SchedEnds \/ (Live /\ CastStep /\ UNCHANGED benchVars)
Workers(l) == Live /\ (WorkerTakes(l) \/ WorkerDies(l)) /\ UNCHANGED benchVars

Next ==
    \/ SetUp \/ SetUpFails \/ JoinNext \/ TimeUp
    \/ Generator \/ Pool \/ Scheduler \/ SchedFails
    \/ UpdaterEnds \/ UpdaterStuck
    \/ \E l \in Leaders : Workers(l)
    \/ main = "exit" /\ UNCHANGED vars

Spec == Init /\ [][Next]_vars

\* Tasks that can go on do, and a connection takes a batch or is lost.
FairSpec ==
    /\ Spec
    /\ WF_vars(SetUp) /\ WF_vars(JoinNext)
    /\ WF_vars(Generator) /\ WF_vars(Pool) /\ WF_vars(Scheduler)
    /\ WF_vars(UpdaterEnds) /\ \A l \in Leaders : WF_vars(Workers(l))

-----------------------------------------------------------------------------
(* Properties. *)

\* "If all attempts fail due to full channels": a batch is not dropped for
\* want of room, but only when no leader of the call has a live worker.
DropOnlyIfGone ==
    [][Drop => \A l \in ToSet(leaders) : worker[l] # "alive"]_vars

\* A scheduler that ends well has taken the batches of all tasks that were
\* spawned and could build one: the channel closes only after the last of them
\* has sent, and a generator aborts tasks only if the scheduler has failed.
AllBatchesTaken ==
    sched = "ok" => GenDone /\ building + sending + aborted + queue = 0

\* With a duration the client ends, though nothing is ever cancelled and
\* tasks may be waiting for a full channel when the time is up.
DurationEnds == timeUp ~> main = "exit"

\* The generator notices that the scheduler has gone, also when all its
\* tasks were waiting for the channel.
SchedulerLost == (sched = "err") ~> (GenDone \/ main = "exit")

=============================================================================
