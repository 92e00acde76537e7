----------------------------- MODULE Broadcaster -----------------------------
(***************************************************************************)
(* transaction-bench/src/backpressured_broadcaster.rs: send_to_workers,    *)
(* one call at a time, with the workers it sends through.                  *)
(*                                                                         *)
(* The workers belong to the library solana_tpu_client_next: each has a    *)
(* channel of batches, and one whose connection is lost is found dead by   *)
(* the next send to it, which removes it from the cache.  (ShutdownError   *)
(* is left out: the token of the cache is never cancelled here.)           *)
(***************************************************************************)
EXTENDS Naturals, FiniteSets, Sequences, SequencesExt

CONSTANTS
    Leaders,        \* addresses
    WorkerChannel   \* WORKER_CHANNEL_SIZE

ASSUME WorkerChannelAssumption == WorkerChannel \in Nat \ {0}

VARIABLES
    worker,     \* the state of each leader's worker in the cache
    load,       \* batches in its channel
    cast,       \* "idle", or which of the two loops of the call runs
    leaders,    \* the leaders of the call
    todo,       \* those the loop has still to visit
    delivered   \* num_delivered

castVars == <<worker, load, cast, leaders, todo, delivered>>

CastTypeOK ==
    /\ worker \in [Leaders -> {"none", "alive", "dead"}]
    /\ load \in [Leaders -> 0 .. WorkerChannel]
    /\ cast \in {"idle", "try", "block"}
    /\ leaders \in Seq(Leaders) /\ todo \in Seq(Leaders)
    /\ delivered \in 0 .. Len(leaders)

CastInit ==
    /\ worker = [l \in Leaders |-> "none"] /\ load = [l \in Leaders |-> 0]
    /\ cast = "idle" /\ leaders = <<>> /\ todo = <<>> /\ delivered = 0

-----------------------------------------------------------------------------
(* The workers. *)

WorkerTakes(l) ==
    /\ worker[l] = "alive" /\ load[l] > 0
    /\ load' = [load EXCEPT ![l] = @ - 1]
    /\ UNCHANGED <<worker, cast, leaders, todo, delivered>>

WorkerDies(l) ==
    /\ worker[l] = "alive"
    /\ worker' = [worker EXCEPT ![l] = "dead"]
    /\ load' = [load EXCEPT ![l] = 0]
    /\ UNCHANGED <<cast, leaders, todo, delivered>>

-----------------------------------------------------------------------------
(* The call. *)

\* The scheduler has seen to the workers of the leaders it connects to: they
\* are there, except those that had to make room for others.
Call(ls, gone) ==
    /\ cast = "idle"
    /\ worker' = [l \in Leaders |->
                    IF l \in gone THEN "none"
                    ELSE IF l \in ToSet(ls) THEN "alive" ELSE worker[l]]
    /\ load' = [l \in Leaders |-> IF worker'[l] = worker[l] THEN load[l] ELSE 0]
    /\ cast' = "try" /\ leaders' = ls /\ todo' = ls /\ delivered' = 0

At(loop, l) == cast = loop /\ todo # <<>> /\ l = Head(todo)

HasRoom(l) == worker[l] = "alive" /\ load[l] < WorkerChannel

Enqueue(l) == load' = [load EXCEPT ![l] = @ + 1]

\* A worker found dead is shut down.
Forget(l) == worker' = IF worker[l] = "dead" THEN [worker EXCEPT ![l] = "none"] ELSE worker

\* try_send to the next leader, if it has a worker.
TrySend(l) ==
    /\ At("try", l)
    /\ todo' = Tail(todo)
    /\ IF HasRoom(l)
       THEN Enqueue(l) /\ delivered' = delivered + 1 /\ UNCHANGED worker
       ELSE Forget(l) /\ UNCHANGED <<load, delivered>>
    /\ UNCHANGED <<cast, leaders>>

\* One delivery is good enough; with none, the second loop begins.
TryEnds ==
    /\ cast = "try" /\ todo = <<>>
    /\ IF delivered # 0
       THEN cast' = "idle" /\ UNCHANGED todo
       ELSE cast' = "block" /\ todo' = leaders
    /\ UNCHANGED <<worker, load, leaders, delivered>>

\* The blocking send has room: the call is done.
BlockSend(l) ==
    /\ At("block", l) /\ HasRoom(l)
    /\ Enqueue(l)
    /\ delivered' = 1 /\ cast' = "idle"
    /\ UNCHANGED <<worker, leaders, todo>>

\* As BlockNext, but a full channel is passed over, too.
BlockNextFull(l) ==
    /\ At("block", l) /\ ~HasRoom(l)
    /\ Forget(l)
    /\ todo' = Tail(todo)
    /\ UNCHANGED <<load, cast, leaders, delivered>>

\* There is no worker, or it is dead, or dies while the send waits.
BlockNext(l) ==
    /\ At("block", l) /\ worker[l] # "alive"
    /\ Forget(l)
    /\ todo' = Tail(todo)
    /\ UNCHANGED <<load, cast, leaders, delivered>>

\* No leader is left: the batch is dropped.
Drop ==
    /\ cast = "block" /\ todo = <<>>
    /\ cast' = "idle"
    /\ UNCHANGED <<worker, load, leaders, todo, delivered>>

CastStep ==
    \/ TryEnds \/ Drop
    \/ \E l \in Leaders : TrySend(l) \/ BlockSend(l) \/ BlockNext(l)
=============================================================================
