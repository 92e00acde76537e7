--------------------------- MODULE RateScheduler ---------------------------
(***************************************************************************)
(* rate-latency-tool/src/run_rate_latency_tool_scheduler.rs: one turn of   *)
(* the scheduler per tick, with the cache of workers it sends through.     *)
(*                                                                         *)
(* The cache and its workers belong to the library solana_tpu_client_next  *)
(* and are modelled from their use: a bounded map in least-recently-used   *)
(* order.  The leader updater (LeaderUpdater) and the workers run beside   *)
(* the scheduler, so the leaders may change and a worker may die between   *)
(* any two calls of a turn.                                                *)
(***************************************************************************)
EXTENDS Naturals, FiniteSets, Sequences, SequencesExt

CONSTANTS
    Kinds,           \* leader trackers
    Peers,           \* addresses of leaders
    NumConnections,  \* num_max_open_connections
    SendFanout,      \* leaders_fanout.send; one more is connected to
    MaxTurns,        \* bound: leader turns of the schedule
    MaxTxs           \* bound: ticks

ASSUME CacheAssumption == NumConnections \in Nat \ {0}
ASSUME FanoutAssumption == SendFanout \in Nat
ASSUME UpdaterAssumption ==
    /\ Kinds \subseteq {"pinned", "legacy", "ws", "yellowstone", "custom"}
    /\ MaxTurns \in Nat \ {0}
ASSUME TxsAssumption == MaxTxs \in Nat

VARIABLES
    kind, schedule, turn, source, service, exit, token,  \* of LeaderUpdater
    moved,      \* how far turn advanced between the two calls of next_leaders
    pc,         \* where the scheduler is
    connect,    \* connect_leaders still to be ensured
    sendTo,     \* send_leaders still to be served
    cache,      \* peers with a worker, least recently used first
    active,     \* peers whose worker is alive
    busy,       \* peers whose worker has a batch in its channel
    status,     \* tx_status of the record being built
    records,    \* number of records sent, and of ids given
    missed,     \* leaders of the record that had no worker
    cancelled   \* the child token

Updater == INSTANCE LeaderUpdater

updaterVars == <<kind, schedule, turn, source, service, exit, token>>
leaderVars == <<updaterVars, moved>>
vars == <<leaderVars, pc, connect, sendTo, cache, active, busy, status, records,
          missed, cancelled>>

Statuses == {"Sent", "FullChannel", "ReceiverDropped", "Other"}

TypeOK ==
    /\ Updater!UpdaterTypeOK
    /\ moved \in 0 .. MaxTurns - 1
    /\ pc \in {"setup", "wait", "fetch", "ensure", "send", "closed", "stopping",
               "done", "failed"}
    /\ connect \in Seq(Peers) /\ sendTo \in Seq(Peers)
    /\ cache \in Seq(Peers) /\ IsInjective(cache)
    /\ Len(cache) <= NumConnections
    /\ active \subseteq Peers /\ busy \subseteq active
    /\ status \in Seq(Statuses \X Peers)
    /\ records \in 0 .. MaxTxs
    /\ missed \subseteq Peers /\ cancelled \in BOOLEAN

Init ==
    /\ Updater!Init /\ moved = 0
    /\ pc = "setup" /\ connect = <<>> /\ sendTo = <<>>
    /\ cache = <<>> /\ active = {} /\ busy = {}
    /\ status = <<>> /\ records = 0 /\ missed = {}
    /\ cancelled = FALSE

\* As ConnectFanout, but no connection is opened ahead of time.
ConnectNoMore == SendFanout

\* leaders_fanout.connect
ConnectFanout == SendFanout + 1

\* The cache without a peer it contains.
Without(p) ==
    LET at == CHOOSE i \in DOMAIN cache : cache[i] = p
    IN  [i \in 1 .. Len(cache) - 1 |-> cache[IF i < at THEN i ELSE i + 1]]

\* A new peer takes the place of the least recently used one when the cache is
\* full; one that is there already is used last.
Evicted(p) == IF p \notin ToSet(cache) /\ Len(cache) = NumConnections
              THEN {Head(cache)} ELSE {}
Kept(p) == IF p \in ToSet(cache) THEN Without(p) ELSE cache

\* As Pushed, but nothing makes room for a new peer.
PushedOver(p) == Append(Kept(p), p)

Pushed(p) == Append(IF Evicted(p) = {} THEN Kept(p) ELSE Tail(cache), p)

-----------------------------------------------------------------------------
(* Beside the scheduler: the leader updater, the workers, the tokens. *)

schedulerVars == <<pc, connect, sendTo, cache, active, busy, status, records, missed>>

LeaderMoves ==
    /\ Updater!Moves
    /\ moved' = IF pc = "fetch" THEN moved + (turn' - turn) ELSE moved
    /\ UNCHANGED <<schedulerVars, cancelled>>

ServiceMoves ==
    /\ Updater!SourceEnds \/ Updater!ServiceFails \/ Updater!ServiceEnds
    /\ UNCHANGED <<moved, schedulerVars, cancelled>>

\* A worker takes the batch from its channel.
WorkerTakes(p) ==
    /\ p \in busy
    /\ busy' = busy \ {p}
    /\ UNCHANGED <<leaderVars, pc, connect, sendTo, cache, active, status,
                   records, missed, cancelled>>

\* The connection fails (there are no reconnects): the worker ends.
WorkerDies(p) ==
    /\ p \in active
    /\ active' = active \ {p} /\ busy' = busy \ {p}
    /\ UNCHANGED <<leaderVars, pc, connect, sendTo, cache, status, records,
                   missed, cancelled>>

\* Only the sending is cancelled, ...
Cancel ==
    /\ ~cancelled
    /\ cancelled' = TRUE
    /\ UNCHANGED <<leaderVars, schedulerVars>>

\* ... or all of run_client.
CancelAll ==
    /\ Updater!CancelToken
    /\ cancelled' = TRUE
    /\ UNCHANGED <<moved, schedulerVars>>

-----------------------------------------------------------------------------
(* The turn of the scheduler. *)

\* setup_endpoint: its error is passed on, and the updater is dropped as it is.
SetupEndpoint ==
    /\ pc = "setup"
    /\ pc' \in {"wait", "failed"}
    /\ UNCHANGED <<leaderVars, connect, sendTo, cache, active, busy, status,
                   records, missed, cancelled>>

Tick ==
    /\ pc = "wait" /\ records < MaxTxs
    /\ pc' = "fetch" /\ moved' = 0
    /\ connect' = Updater!NextLeaders(ConnectFanout)
    /\ UNCHANGED <<updaterVars, sendTo, cache, active, busy, status, records,
                   missed, cancelled>>

\* The send leaders are asked for in a second call.
Fetch ==
    /\ pc = "fetch"
    /\ pc' = "ensure"
    /\ sendTo' = Updater!NextLeaders(SendFanout)
    /\ UNCHANGED <<leaderVars, connect, cache, active, busy, status, records,
                   missed, cancelled>>

\* As Ensure, but the evicted worker is not shut down.
EnsureLeaks ==
    /\ pc = "ensure" /\ connect # <<>>
    /\ LET p == Head(connect)
       IN  IF p \in ToSet(cache) /\ p \in active
           THEN /\ cache' \in {cache, Pushed(p)}
                /\ UNCHANGED <<active, busy>>
           ELSE /\ cache' = Pushed(p)
                /\ active' = active \cup {p}
                /\ busy' = busy \ {p}
    /\ connect' = Tail(connect)
    /\ UNCHANGED <<leaderVars, pc, sendTo, status, records, missed, cancelled>>

\* ensure_worker: a live worker is left as it is (the look-up may count as a
\* use or not); else a new one is pushed, and the evicted one is shut down.
Ensure ==
    /\ pc = "ensure" /\ connect # <<>>
    /\ LET p == Head(connect)
       IN  IF p \in ToSet(cache) /\ p \in active
           THEN /\ cache' \in {cache, Pushed(p)}
                /\ UNCHANGED <<active, busy>>
           ELSE /\ cache' = Pushed(p)
                /\ active' = (active \ Evicted(p)) \cup {p}
                /\ busy' = busy \ (Evicted(p) \cup {p})
    /\ connect' = Tail(connect)
    /\ UNCHANGED <<leaderVars, pc, sendTo, status, records, missed, cancelled>>

\* build_tx
Build ==
    /\ pc = "ensure" /\ connect = <<>>
    /\ pc' = "send"
    /\ UNCHANGED <<leaderVars, connect, sendTo, cache, active, busy, status,
                   records, missed, cancelled>>

Report(p, s) ==
    /\ status' = Append(status, <<s, p>>)
    /\ sendTo' = Tail(sendTo)
    /\ UNCHANGED <<leaderVars, pc, connect, records, missed, cancelled>>

\* A leader without a worker is skipped, and the record does not tell.
SendSkips ==
    /\ pc = "send" /\ sendTo # <<>>
    /\ Head(sendTo) \notin ToSet(cache)
    /\ sendTo' = Tail(sendTo)
    /\ missed' = missed \cup {Head(sendTo)}
    /\ UNCHANGED <<leaderVars, pc, connect, cache, active, busy, status, records,
                   cancelled>>

\* try_send_transactions_to_address, for a peer the cache contains.
SendTo(p) ==
    /\ pc = "send" /\ sendTo # <<>> /\ p = Head(sendTo)
    /\ p \in ToSet(cache)
    /\ \/ /\ p \in active /\ p \notin busy
          /\ busy' = busy \cup {p}
          /\ cache' = Pushed(p) /\ UNCHANGED active
          /\ Report(p, "Sent")
       \/ /\ p \in busy
          /\ cache' = Pushed(p) /\ UNCHANGED <<active, busy>>
          /\ Report(p, "FullChannel")
       \/ /\ p \notin active
          /\ cache' = Without(p) /\ UNCHANGED <<active, busy>>
          /\ Report(p, "ReceiverDropped")
       \/ /\ cancelled
          /\ cache' = Pushed(p) /\ UNCHANGED <<active, busy>>
          /\ Report(p, "Other")

\* send_record, once per turn whatever became of the sends.
SendRecord ==
    /\ pc = "send" /\ sendTo = <<>>
    /\ records' = records + 1
    /\ status' = <<>> /\ missed' = {}
    /\ pc' = "wait"
    /\ UNCHANGED <<leaderVars, connect, sendTo, cache, active, busy, cancelled>>

\* The token is looked at between turns only; then the workers are shut
\* down, ...
Stop ==
    /\ pc = "wait" /\ cancelled
    /\ pc' = "closed"
    /\ cache' = <<>> /\ active' = {} /\ busy' = {}
    /\ UNCHANGED <<leaderVars, connect, sendTo, status, records, missed, cancelled>>

\* As StopUpdater, but the updater is only dropped.
DropUpdater ==
    /\ pc = "closed"
    /\ pc' = "done"
    /\ UNCHANGED <<leaderVars, connect, sendTo, cache, active, busy, status,
                   records, missed, cancelled>>

\* ... the endpoint is closed and the leader updater is stopped ...
StopUpdater ==
    /\ pc = "closed"
    /\ pc' = "stopping"
    /\ Updater!Stop
    /\ UNCHANGED <<moved, connect, sendTo, cache, active, busy, status,
                   records, missed, cancelled>>

\* ... and waited for.
Finish ==
    /\ pc = "stopping" /\ Updater!Stopped
    /\ pc' = "done"
    /\ UNCHANGED <<leaderVars, connect, sendTo, cache, active, busy, status,
                   records, missed, cancelled>>

-----------------------------------------------------------------------------
Turn == \/ Tick \/ Fetch \/ Ensure \/ Build \/ SendSkips \/ SendRecord
        \/ \E p \in Peers : SendTo(p)

Next ==
    \/ SetupEndpoint \/ Turn \/ Stop \/ StopUpdater \/ Finish
    \/ LeaderMoves \/ ServiceMoves \/ Cancel \/ CancelAll
    \/ \E p \in Peers : WorkerTakes(p) \/ WorkerDies(p)
    \/ pc \in {"done", "failed"} /\ UNCHANGED vars

Spec == Init /\ [][Next]_vars

\* The interval ticks, a synchronous turn is carried through, a ready
\* cancellation branch is not passed over for ever, and a service that is
\* told to end does.
FairSpec ==
    /\ Spec
    /\ WF_vars(SetupEndpoint) /\ WF_vars(Turn)
    /\ WF_vars(Stop) /\ WF_vars(StopUpdater) /\ WF_vars(Finish)
    /\ WF_vars(Updater!ServiceEnds /\ ServiceMoves)

-----------------------------------------------------------------------------
(* Properties. *)

\* Peers whose worker was found to be gone while the record was built.
Dropped == {p \in Peers : <<"ReceiverDropped", p>> \in ToSet(status)}

\* Connections are opened ahead of time: if the leader advances by at most
\* one turn while the scheduler asks for the leaders, one is skipped for want of
\* a worker only if its worker was dropped in the same turn, or if every
\* connection there may be is taken, those dropped in this turn included.
\* (Leaders then compete for the connections: more of them are asked for than
\* the cache holds, or it has evicted one that is still to be sent to.)
LeaderHasWorker ==
    moved <= 1 =>
        missed \subseteq Dropped \/ Len(cache) + Cardinality(Dropped) >= NumConnections

\* No more connections are kept open than num_max_open_connections: a worker
\* that leaves the cache is shut down, and a dead one is replaced.
ConnectionsBounded ==
    active \subseteq ToSet(cache) /\ Cardinality(active) <= NumConnections

\* The scheduler comes to its end after the cancellation, the wait for the
\* leader updater included.  When run_client is cancelled no service is left
\* behind, whatever kind and however the scheduler has ended, except that of
\* a legacy updater which was dropped because no endpoint could be set up.
Stops ==
    /\ cancelled ~> pc \in {"done", "failed"}
    /\ token ~> (service = "up" => kind = "legacy" /\ pc = "failed")

=============================================================================
