------------------------ MODULE RateSchedulerProofs ------------------------
(***************************************************************************)
(* Proofs about RateScheduler, for any number of peers, connections and    *)
(* leaders ahead, and for any order in which leaders advance and workers   *)
(* die: the cache stays within its bound and holds every live worker.      *)
(***************************************************************************)
EXTENDS RateScheduler, FiniteSetTheorems, SequenceTheorems, TLAPS

\* The cache as a map: no peer twice, not more than there is room for.
CacheInv ==
    /\ cache \in Seq(Peers) /\ IsInjective(cache)
    /\ Len(cache) <= NumConnections

\* A worker lives only while the cache knows it.
WorkersInv ==
    /\ active \subseteq ToSet(cache) /\ active \subseteq Peers
    /\ busy \subseteq active

\* What the scheduler holds between the steps of a turn, one record at most
\* being built.
TurnInv ==
    /\ pc \in {"setup", "wait", "fetch", "ensure", "send", "closed", "stopping",
               "done", "failed"}
    /\ connect \in Seq(Peers) /\ sendTo \in Seq(Peers)
    /\ status \in Seq(Statuses \X Peers)
    /\ missed \subseteq Peers /\ cancelled \in BOOLEAN
    /\ records \in 0 .. MaxTxs
    /\ pc \in {"fetch", "ensure", "send"} => records < MaxTxs

\* The leader does not advance by more than the turns that have passed.
LeaderInv ==
    /\ Updater!UpdaterTypeOK
    /\ moved \in Nat /\ moved < turn

IInv == CacheInv /\ WorkersInv /\ TurnInv /\ LeaderInv

-----------------------------------------------------------------------------
(* The cache. *)

\* Without takes one peer out and leaves the others, in their order.
LEMMA WithoutCuts ==
  ASSUME CacheInv, NEW p \in ToSet(cache)
  PROVE  /\ Without(p) \in Seq(Peers) /\ IsInjective(Without(p))
         /\ Len(Without(p)) = Len(cache) - 1
         /\ ToSet(Without(p)) = ToSet(cache) \ {p}
<1> DEFINE at == CHOOSE i \in DOMAIN cache : cache[i] = p
           pos(i) == IF i < at THEN i ELSE i + 1
<1>1. at \in 1 .. Len(cache) /\ cache[at] = p /\ DOMAIN cache = 1 .. Len(cache)
  BY DEF ToSet, CacheInv
<1>2. /\ Len(cache) \in Nat \ {0}
      /\ \A i \in 1 .. Len(cache) : cache[i] \in Peers
  BY <1>1 DEF CacheInv
<1>3. Without(p) = [i \in 1 .. Len(cache) - 1 |-> cache[pos(i)]]
  BY DEF Without
<1> HIDE DEF at
<1>4. \A i \in 1 .. Len(cache) - 1 : pos(i) \in 1 .. Len(cache) /\ pos(i) # at
  BY <1>1, <1>2
<1>5. \A i, j \in 1 .. Len(cache) - 1 : pos(i) = pos(j) => i = j
  BY <1>1, <1>2
<1>6. \A k \in 1 .. Len(cache) : k # at => \E i \in 1 .. Len(cache) - 1 : pos(i) = k
  <2> SUFFICES ASSUME NEW k \in 1 .. Len(cache), k # at
               PROVE  \E i \in 1 .. Len(cache) - 1 : pos(i) = k
    OBVIOUS
  <2>1. CASE k < at
    <3>1. k \in 1 .. Len(cache) - 1 /\ pos(k) = k
      BY <1>1, <1>2, <2>1
    <3> QED
      BY <3>1
  <2>2. CASE k > at
    <3>1. k - 1 \in 1 .. Len(cache) - 1 /\ pos(k - 1) = k
      BY <1>1, <1>2, <2>2
    <3> QED
      BY <3>1
  <2> QED
    BY <1>1, <2>1, <2>2
<1> HIDE DEF pos
<1>7. Without(p) \in Seq(Peers) /\ Len(Without(p)) = Len(cache) - 1
  BY <1>2, <1>3, <1>4
<1>8. IsInjective(Without(p))
  BY <1>1, <1>3, <1>4, <1>5 DEF IsInjective, CacheInv
<1>9. ToSet(Without(p)) = {cache[pos(i)] : i \in 1 .. Len(cache) - 1}
  BY <1>3 DEF ToSet
<1>10. \A k \in 1 .. Len(cache) : cache[k] = p => k = at
  BY <1>1 DEF IsInjective, CacheInv
<1>11. ToSet(Without(p)) = ToSet(cache) \ {p}
  BY <1>1, <1>4, <1>6, <1>9, <1>10 DEF ToSet
<1> QED
  BY <1>7, <1>8, <1>11

\* A push puts a peer last, drops the evicted one, and keeps the bound.
LEMMA PushKeeps ==
  ASSUME CacheInv, NEW p \in Peers
  PROVE  /\ Pushed(p) \in Seq(Peers) /\ IsInjective(Pushed(p))
         /\ Len(Pushed(p)) <= NumConnections
         /\ ToSet(Pushed(p)) = (ToSet(cache) \ Evicted(p)) \cup {p}
<1> DEFINE rest == IF Evicted(p) = {} THEN Kept(p) ELSE Tail(cache)
<1>1. /\ rest \in Seq(Peers) /\ IsInjective(rest)
      /\ Len(rest) < NumConnections
      /\ ToSet(rest) = ToSet(cache) \ (Evicted(p) \cup {p})
  <2>1. CASE p \in ToSet(cache)
    <3>1. Evicted(p) = {} /\ rest = Without(p)
      BY <2>1 DEF Evicted, Kept
    <3>2. Len(cache) \in Nat
      BY DEF CacheInv
    <3> QED
      BY <2>1, <3>1, <3>2, WithoutCuts, CacheAssumption DEF CacheInv
  <2>2. CASE p \notin ToSet(cache) /\ Len(cache) # NumConnections
    <3>1. Evicted(p) = {} /\ rest = cache
      BY <2>2 DEF Evicted, Kept
    <3> QED
      BY <2>2, <3>1, CacheAssumption DEF CacheInv
  <2>3. CASE p \notin ToSet(cache) /\ Len(cache) = NumConnections
    <3>1. Evicted(p) = {Head(cache)} /\ rest = Tail(cache)
      BY <2>3 DEF Evicted
    <3>2. cache # <<>> /\ cache \in Seq(Peers)
      BY <2>3, CacheAssumption DEF CacheInv
    <3>3. /\ Tail(cache) \in Seq(Peers) /\ Len(Tail(cache)) = Len(cache) - 1
          /\ \A i \in 1 .. Len(cache) - 1 : Tail(cache)[i] = cache[i + 1]
      BY <3>2, HeadTailProperties
    <3>4. /\ Len(cache) \in Nat \ {0} /\ DOMAIN cache = 1 .. Len(cache)
          /\ DOMAIN Tail(cache) = 1 .. Len(cache) - 1 /\ Head(cache) = cache[1]
      BY <2>3, <3>2, <3>3, CacheAssumption
    <3>5. \A i, j \in 1 .. Len(cache) : cache[i] = cache[j] => i = j
      BY <3>4 DEF CacheInv, IsInjective
    <3>6. IsInjective(Tail(cache))
      BY <3>3, <3>4, <3>5 DEF IsInjective
    <3>7. ToSet(Tail(cache)) = ToSet(cache) \ {Head(cache)}
      <4>1. ASSUME NEW i \in 1 .. Len(cache) - 1
            PROVE  Tail(cache)[i] \in ToSet(cache) \ {cache[1]}
        <5>1. i + 1 \in 1 .. Len(cache) /\ i + 1 # 1 /\ 1 \in 1 .. Len(cache)
          BY <3>4
        <5>2. Tail(cache)[i] = cache[i + 1] /\ cache[i + 1] # cache[1]
          BY <3>3, <3>5, <5>1
        <5> QED
          BY <3>4, <5>1, <5>2 DEF ToSet
      <4>2. ASSUME NEW k \in 1 .. Len(cache), cache[k] # cache[1]
            PROVE  cache[k] \in ToSet(Tail(cache))
        <5>1. k - 1 \in 1 .. Len(cache) - 1 /\ (k - 1) + 1 = k
          BY <3>4, <4>2
        <5>2. Tail(cache)[k - 1] = cache[k]
          BY <3>3, <5>1
        <5> QED
          BY <3>4, <5>1, <5>2 DEF ToSet
      <4> QED
        BY <3>4, <4>1, <4>2 DEF ToSet
    <3> QED
      BY <2>3, <3>1, <3>3, <3>4, <3>6, <3>7
  <2> QED
    BY <2>1, <2>2, <2>3
<1>2. Pushed(p) = Append(rest, p)
  BY DEF Pushed
<1> HIDE DEF rest
<1>3. /\ Append(rest, p) \in Seq(Peers) /\ Len(Append(rest, p)) = Len(rest) + 1
      /\ \A i \in 1 .. Len(rest) : Append(rest, p)[i] = rest[i]
      /\ Append(rest, p)[Len(rest) + 1] = p
  BY <1>1, AppendProperties
<1>4. /\ Len(rest) \in Nat /\ DOMAIN rest = 1 .. Len(rest)
      /\ DOMAIN Append(rest, p) = 1 .. Len(rest) + 1
  BY <1>1, <1>3
<1>5. ToSet(Append(rest, p)) = ToSet(rest) \cup {p}
  BY <1>3, <1>4 DEF ToSet
<1>6. \A i \in 1 .. Len(rest) : rest[i] # p
  BY <1>1, <1>4 DEF ToSet
<1>7. IsInjective(Append(rest, p))
  BY <1>1, <1>3, <1>4, <1>6 DEF IsInjective
<1>8. p \notin Evicted(p)
  <2>1. CASE Evicted(p) = {}
    BY <2>1
  <2>2. CASE Evicted(p) # {}
    <3>1. p \notin ToSet(cache) /\ Len(cache) = NumConnections
          /\ Evicted(p) = {Head(cache)}
      BY <2>2 DEF Evicted
    <3>2. Head(cache) = cache[1] /\ 1 \in DOMAIN cache
      BY <3>1, CacheAssumption DEF CacheInv
    <3> QED
      BY <3>1, <3>2 DEF ToSet
  <2> QED
    BY <2>1, <2>2
<1>9. Len(Append(rest, p)) <= NumConnections
  BY <1>1, <1>3, <1>4, CacheAssumption
<1> QED
  BY <1>1, <1>2, <1>3, <1>5, <1>7, <1>8, <1>9

-----------------------------------------------------------------------------
(* The leader updater. *)

\* What next_leaders returns, whatever kind of updater it is and however few
\* leaders the schedule has left.
LEMMA LeadersType ==
  ASSUME LeaderInv, NEW n \in Nat
  PROVE  Updater!NextLeaders(n) \in Seq(Peers)
<1> USE DEF LeaderInv, Updater!UpdaterTypeOK
<1> DEFINE last == IF turn + n <= MaxTurns THEN turn + n - 1 ELSE MaxTurns
<1>1. turn \in Int /\ last \in Int /\ \A i \in turn .. last : i \in 1 .. MaxTurns
  BY UpdaterAssumption
<1>2. \A i \in turn .. last : schedule[i] \in Peers
  BY <1>1
<1>3. SubSeq(schedule, turn, last) \in Seq(Peers)
  BY <1>1, <1>2, SubSeqProperties
<1>4. schedule[1] \in Peers
  BY UpdaterAssumption
<1>5. <<schedule[1]>> \in Seq(Peers)
  BY <1>4
<1> QED
  BY <1>3, <1>5 DEF Updater!NextLeaders

\* The current leader never goes back, and stays within the schedule.
LEMMA LeaderAdvances ==
  ASSUME Updater!UpdaterTypeOK, Updater!Moves
  PROVE  Updater!UpdaterTypeOK' /\ turn' >= turn
<1> USE DEF Updater!UpdaterTypeOK
<1>1. CASE Updater!LibraryMoves
  BY <1>1, UpdaterAssumption DEF Updater!LibraryMoves
<1>2. CASE \E status_ \in Updater!Statuses, t \in 1 .. MaxTurns :
              Updater!HearUpdate(status_, t)
  <2>1. turn' \in turn .. MaxTurns
    BY <1>2 DEF Updater!HearUpdate, Updater!Turns
  <2>2. UNCHANGED <<kind, schedule, source, service, exit, token>>
    BY <1>2 DEF Updater!HearUpdate
  <2> QED
    BY <2>1, <2>2, UpdaterAssumption
<1> QED
  BY <1>1, <1>2 DEF Updater!Moves

\* A lag added to a number below the current leader stays below the next one.
LEMMA Shift ==
  ASSUME NEW lag \in Nat, NEW from \in Nat, NEW to \in Nat, lag < from, to >= from
  PROVE  lag + (to - from) \in Nat /\ lag + (to - from) < to /\ lag < to
OBVIOUS

\* Steps of the leaders, and those that only ask for them, keep what is
\* said about them.
LEMMA LeaderKeeps ==
  ASSUME LeaderInv,
         \/ LeaderMoves
         \/ ServiceMoves \/ CancelAll
         \/ Updater!Stop /\ UNCHANGED moved
         \/ UNCHANGED leaderVars
         \/ Tick
  PROVE  LeaderInv'
<1> USE DEF LeaderInv
<1>1. CASE LeaderMoves
  <2>1. Updater!UpdaterTypeOK' /\ turn' >= turn
    BY <1>1, LeaderAdvances DEF LeaderMoves
  <2>2. turn \in Nat /\ turn' \in Nat /\ moved \in Nat /\ moved < turn
    BY <2>1, UpdaterAssumption DEF Updater!UpdaterTypeOK
  <2>3. moved' = IF pc = "fetch" THEN moved + (turn' - turn) ELSE moved
    BY <1>1 DEF LeaderMoves
  <2>4. turn' >= turn
    BY <2>1
  <2>5. /\ moved + (turn' - turn) \in Nat
        /\ moved + (turn' - turn) < turn'
        /\ moved < turn'
    BY ONLY <2>2, <2>4, Shift
  <2>6. moved' \in Nat /\ moved' < turn'
    BY <2>2, <2>3, <2>5, Zenon
  <2> QED
    BY <2>1, <2>6
<1>2. CASE ServiceMoves
  BY <1>2 DEF ServiceMoves, Updater!SourceEnds, Updater!ServiceFails,
              Updater!ServiceEnds, Updater!UpdaterTypeOK
<1>3. CASE CancelAll
  BY <1>3 DEF CancelAll, Updater!CancelToken, Updater!UpdaterTypeOK
<1>4. CASE Updater!Stop /\ UNCHANGED moved
  BY <1>4 DEF Updater!Stop, Updater!UpdaterTypeOK
<1>5. CASE UNCHANGED leaderVars
  BY <1>5 DEF leaderVars, updaterVars, Updater!UpdaterTypeOK
<1>6. CASE Tick
  BY <1>6, UpdaterAssumption DEF Tick, updaterVars, Updater!UpdaterTypeOK
<1> QED
  BY <1>1, <1>2, <1>3, <1>4, <1>5, <1>6

-----------------------------------------------------------------------------
(* The steps. *)

\* The initial states satisfy the inductive invariant.
LEMMA InitInv == Init => IInv
<1> SUFFICES ASSUME Init PROVE IInv
  OBVIOUS
<1>1. LeaderInv
  <2>1. /\ kind \in Kinds /\ schedule \in [1 .. MaxTurns -> Peers]
        /\ source = "open" /\ service \in {"none", "up"}
        /\ turn = 1 /\ moved = 0 /\ exit = FALSE /\ token = FALSE
    BY DEF Init, Updater!Init
  <2>2. turn \in 1 .. MaxTurns /\ moved \in Nat /\ moved < turn
    BY <2>1, UpdaterAssumption
  <2> QED
    BY <2>1, <2>2 DEF LeaderInv, Updater!UpdaterTypeOK
<1>2. CacheInv /\ WorkersInv
  <2>1. cache = <<>> /\ active = {} /\ busy = {}
    BY DEF Init
  <2>2. cache \in Seq(Peers) /\ Len(cache) = 0
    BY <2>1
  <2>3. IsInjective(cache)
    BY <2>1 DEF IsInjective
  <2>4. CacheInv
    BY <2>2, <2>3, CacheAssumption DEF CacheInv
  <2>5. WorkersInv
    BY <2>1 DEF WorkersInv
  <2> QED
    BY <2>4, <2>5
<1>3. TurnInv
  <2>1. /\ pc = "setup" /\ connect = <<>> /\ sendTo = <<>> /\ status = <<>>
        /\ records = 0 /\ missed = {} /\ cancelled = FALSE
    BY DEF Init
  <2>2. records \in 0 .. MaxTxs
    BY <2>1, TxsAssumption
  <2>3. connect \in Seq(Peers) /\ sendTo \in Seq(Peers)
    BY <2>1
  <2>4. status \in Seq(Statuses \X Peers)
    BY <2>1
  <2>5. missed \subseteq Peers /\ cancelled \in BOOLEAN
    BY <2>1, Zenon
  <2>6. /\ pc \in {"setup", "wait", "fetch", "ensure", "send", "closed",
                   "stopping", "done", "failed"}
        /\ pc \notin {"fetch", "ensure", "send"}
    BY <2>1
  <2> QED
    BY <2>2, <2>3, <2>4, <2>5, <2>6, Zenon DEF TurnInv
<1> QED
  BY <1>1, <1>2, <1>3 DEF IInv

\* Steps that leave the workers alone.
LEMMA QuietKeeps ==
  ASSUME CacheInv, WorkersInv, UNCHANGED <<cache, active, busy>>
  PROVE  CacheInv' /\ WorkersInv'
  BY DEF CacheInv, WorkersInv, ToSet, IsInjective

\* What is beside the scheduler.
LEMMA BesideKeeps ==
  ASSUME IInv, \/ LeaderMoves \/ ServiceMoves \/ Cancel \/ CancelAll
               \/ \E p \in Peers : WorkerTakes(p) \/ WorkerDies(p)
  PROVE  IInv'
<1> USE DEF IInv
<1>1. CASE LeaderMoves \/ ServiceMoves \/ Cancel \/ CancelAll
  <2>1. UNCHANGED schedulerVars /\ cancelled' \in BOOLEAN
    BY <1>1 DEF LeaderMoves, ServiceMoves, Cancel, CancelAll, TurnInv
  <2>2. TurnInv'
    BY <2>1 DEF schedulerVars, TurnInv
  <2>3. CacheInv' /\ WorkersInv'
    BY <2>1, QuietKeeps DEF schedulerVars
  <2>4. LeaderInv'
    BY <1>1, LeaderKeeps DEF Cancel
  <2> QED
    BY <2>2, <2>3, <2>4
<1>2. CASE \E p \in Peers : WorkerTakes(p) \/ WorkerDies(p)
  <2>1. UNCHANGED <<leaderVars, pc, connect, sendTo, cache, status, records,
                    missed, cancelled>>
        /\ active' \subseteq active /\ busy' \subseteq busy /\ busy' \subseteq active'
    BY <1>2 DEF WorkerTakes, WorkerDies, WorkersInv
  <2>2. TurnInv' /\ CacheInv' /\ WorkersInv'
    BY <2>1 DEF TurnInv, CacheInv, WorkersInv, ToSet, IsInjective
  <2>3. LeaderInv'
    BY <2>1, LeaderKeeps
  <2> QED
    BY <2>2, <2>3
<1> QED
  BY <1>1, <1>2

\* The steps of the scheduler that do not touch the workers.
LEMMA LoopKeeps ==
  ASSUME IInv,
         \/ SetupEndpoint \/ Tick \/ Fetch \/ Build \/ SendSkips \/ SendRecord
         \/ StopUpdater \/ Finish
  PROVE  IInv'
<1> USE DEF IInv
<1>1. UNCHANGED <<cache, active, busy>>
  BY DEF SetupEndpoint, Tick, Fetch, Build, SendSkips, SendRecord, StopUpdater, Finish
<1>2. CacheInv' /\ WorkersInv'
  BY <1>1, QuietKeeps
<1>3. LeaderInv'
  BY LeaderKeeps
     DEF SetupEndpoint, Fetch, Build, SendSkips, SendRecord, StopUpdater, Finish
<1>4. TurnInv'
  <2>1. CASE SetupEndpoint \/ Build \/ StopUpdater \/ Finish
    BY <2>1 DEF SetupEndpoint, Build, StopUpdater, Finish, TurnInv
  <2>2. CASE Tick
    <3>1. ConnectFanout \in Nat
      BY FanoutAssumption DEF ConnectFanout
    <3> QED
      BY <2>2, <3>1, LeadersType DEF Tick, TurnInv
  <2>3. CASE Fetch
    BY <2>3, LeadersType, FanoutAssumption DEF Fetch, TurnInv
  <2>4. CASE SendSkips
    BY <2>4, HeadTailProperties DEF SendSkips, TurnInv
  <2>5. CASE SendRecord
    BY <2>5, TxsAssumption DEF SendRecord, TurnInv
  <2> QED
    BY <2>1, <2>2, <2>3, <2>4, <2>5
<1> QED
  BY <1>2, <1>3, <1>4

\* A worker is looked up or spawned: the cache keeps its bound.
LEMMA EnsureKeeps == ASSUME IInv, Ensure  PROVE IInv'
<1> USE DEF IInv
<1>1. Head(connect) \in Peers /\ connect' \in Seq(Peers)
  BY HeadTailProperties DEF Ensure, TurnInv
<1>2. TurnInv'
  BY <1>1 DEF Ensure, TurnInv
<1>3. LeaderInv'
  BY LeaderKeeps DEF Ensure
<1>4. CacheInv' /\ WorkersInv'
  <2> DEFINE p == Head(connect)
  <2>1. CASE p \in ToSet(cache) /\ p \in active
    <3>1. Evicted(p) = {}
      BY <2>1 DEF Evicted
    <3>2. cache' \in {cache, Pushed(p)} /\ UNCHANGED <<active, busy>>
      BY <2>1 DEF Ensure
    <3>3. CASE cache' = cache
      BY <3>2, <3>3, QuietKeeps
    <3>4. CASE cache' = Pushed(p)
      <4>1. ToSet(Pushed(p)) = (ToSet(cache) \ Evicted(p)) \cup {p}
        BY <1>1, PushKeeps
      <4>2. ToSet(cache') = ToSet(cache)
        BY <2>1, <3>1, <3>4, <4>1
      <4>3. CacheInv'
        BY <1>1, <3>4, PushKeeps DEF CacheInv, IsInjective
      <4> QED
        BY <3>2, <4>2, <4>3 DEF WorkersInv, ToSet
    <3> QED
      BY <3>2, <3>3, <3>4
  <2>2. CASE ~(p \in ToSet(cache) /\ p \in active)
    <3>1. /\ cache' = Pushed(p)
          /\ active' = (active \ Evicted(p)) \cup {p}
          /\ busy' = busy \ (Evicted(p) \cup {p})
      BY <2>2 DEF Ensure
    <3>2. ToSet(cache') = (ToSet(cache) \ Evicted(p)) \cup {p}
      BY <1>1, <3>1, PushKeeps
    <3>3. CacheInv'
      BY <1>1, <3>1, PushKeeps DEF CacheInv, IsInjective
    <3>4. WorkersInv'
      BY <1>1, <3>1, <3>2 DEF WorkersInv, ToSet
    <3> QED
      BY <3>3, <3>4
  <2> QED
    BY <2>1, <2>2
<1> QED
  BY <1>2, <1>3, <1>4

\* A worker is sent to: it may turn out to be gone, and leaves the cache.
LEMMA SendKeeps == ASSUME IInv, NEW p \in Peers, SendTo(p)  PROVE IInv'
<1> USE DEF IInv
<1>1. PICK s \in Statuses : Report(p, s)
  BY DEF SendTo, Statuses
<1>2. TurnInv'
  <2>1. /\ Append(status, <<s, p>>) \in Seq(Statuses \X Peers)
        /\ Tail(sendTo) \in Seq(Peers)
    BY HeadTailProperties, AppendProperties DEF SendTo, TurnInv
  <2> QED
    BY <1>1, <2>1 DEF Report, TurnInv
<1>3. LeaderInv'
  BY <1>1, LeaderKeeps DEF Report
<1>4. CacheInv' /\ WorkersInv'
  <2>1. p \in ToSet(cache) /\ Evicted(p) = {}
    BY DEF SendTo, Evicted
  <2>2. CASE cache' = Pushed(p)
    <3>1. active' = active /\ busy' \subseteq active
      BY <2>2 DEF SendTo, WorkersInv
    <3>2. ToSet(cache') = ToSet(cache)
      <4>1. ToSet(Pushed(p)) = (ToSet(cache) \ Evicted(p)) \cup {p}
        BY PushKeeps
      <4> QED
        BY <2>1, <2>2, <4>1
    <3>3. CacheInv'
      BY <2>2, PushKeeps DEF CacheInv, IsInjective
    <3> QED
      BY <3>1, <3>2, <3>3 DEF WorkersInv, ToSet
  <2>3. CASE cache' = Without(p) /\ p \notin active /\ UNCHANGED <<active, busy>>
    <3>1. ToSet(cache') = ToSet(cache) \ {p}
      BY <2>1, <2>3, WithoutCuts
    <3>2. CacheInv'
      BY <2>1, <2>3, WithoutCuts, CacheAssumption DEF CacheInv, IsInjective
    <3> QED
      BY <2>3, <3>1, <3>2 DEF WorkersInv, ToSet
  <2> QED
    BY <2>2, <2>3 DEF SendTo
<1> QED
  BY <1>2, <1>3, <1>4

\* Every step keeps the invariant, ...
LEMMA StepInv == IInv /\ [Next]_vars => IInv'
<1> SUFFICES ASSUME IInv, [Next]_vars PROVE IInv'
  OBVIOUS
<1>1. CASE UNCHANGED vars
  <2>1. LeaderInv'
    BY <1>1, LeaderKeeps DEF IInv, vars
  <2>2. CacheInv' /\ WorkersInv'
    BY <1>1, QuietKeeps DEF IInv, vars
  <2>3. TurnInv'
    BY <1>1 DEF IInv, vars, TurnInv
  <2> QED
    BY <2>1, <2>2, <2>3 DEF IInv
<1>2. CASE Stop
  <2>1. CacheInv' /\ WorkersInv'
    BY <1>2, CacheAssumption DEF Stop, CacheInv, WorkersInv, IsInjective, ToSet
  <2>2. TurnInv' /\ LeaderInv'
    BY <1>2, LeaderKeeps DEF IInv, Stop, TurnInv
  <2> QED
    BY <2>1, <2>2 DEF IInv
<1> QED
  BY <1>1, <1>2, BesideKeeps, LoopKeeps, EnsureKeeps, SendKeeps DEF Next, Turn

\* ... so that it holds in every reachable state.
THEOREM Invariance == Spec => []IInv
  BY InitInv, StepInv, PTL DEF Spec

-----------------------------------------------------------------------------
(* The results. *)

\* Every variable of the scheduler keeps its type; the leader advances by
\* less than the turns of the schedule while the scheduler asks for leaders.
THEOREM TypeCorrect == Spec => []TypeOK
<1>1. IInv => TypeOK
  <2> SUFFICES ASSUME IInv PROVE TypeOK
    OBVIOUS
  <2>1. moved \in 0 .. MaxTurns - 1
    BY UpdaterAssumption DEF IInv, LeaderInv, Updater!UpdaterTypeOK
  <2> QED
    BY <2>1 DEF IInv, TypeOK, CacheInv, WorkersInv, TurnInv, LeaderInv
<1> QED
  BY <1>1, Invariance, PTL

\* A sequence has not more elements than it is long.
LEMMA CacheSize ==
  ASSUME CacheInv
  PROVE  IsFiniteSet(ToSet(cache)) /\ Cardinality(ToSet(cache)) <= NumConnections
<1>1. Len(cache) \in Nat /\ DOMAIN cache = 1 .. Len(cache)
  BY DEF CacheInv
<1>2. IsFiniteSet(1 .. Len(cache)) /\ Cardinality(1 .. Len(cache)) = Len(cache)
  <2>1. 1 \in Int /\ Len(cache) \in Int
    BY <1>1
  <2>2. /\ IsFiniteSet(1 .. Len(cache))
        /\ Cardinality(1 .. Len(cache)) =
             IF 1 > Len(cache) THEN 0 ELSE Len(cache) - 1 + 1
    BY ONLY <2>1, FS_Interval
  <2> QED
    BY <1>1, <2>2
<1>3. cache \in Surjection(1 .. Len(cache), ToSet(cache))
  <2>1. cache \in [1 .. Len(cache) -> ToSet(cache)]
    <3>1. cache = [i \in 1 .. Len(cache) |-> cache[i]]
      BY <1>1 DEF CacheInv
    <3>2. \A i \in 1 .. Len(cache) : cache[i] \in ToSet(cache)
      BY <1>1 DEF ToSet
    <3> QED
      BY <3>1, <3>2
  <2>2. \A p \in ToSet(cache) : \E i \in 1 .. Len(cache) : cache[i] = p
    BY <1>1 DEF ToSet
  <2> QED
    BY <2>1, <2>2 DEF Surjection
<1>4. /\ IsFiniteSet(ToSet(cache))
      /\ Cardinality(ToSet(cache)) <= Cardinality(1 .. Len(cache))
  BY <1>2, <1>3, FS_Surjection
<1>5. Cardinality(ToSet(cache)) \in Nat
  BY <1>4, FS_CardinalityType
<1> QED
  BY <1>1, <1>2, <1>4, <1>5, CacheAssumption DEF CacheInv

\* run_rate_latency_tool_scheduler.rs:65-77: whoever dies or is evicted and
\* whatever the leaders are, there are never more live connections than
\* num_max_open_connections, and each has its place in the cache.
THEOREM ConnectionsBoundedCorrect == Spec => []ConnectionsBounded
<1>1. IInv => ConnectionsBounded
  <2> SUFFICES ASSUME IInv PROVE ConnectionsBounded
    OBVIOUS
  <2>1. active \subseteq ToSet(cache)
    BY DEF IInv, WorkersInv
  <2>2. IsFiniteSet(ToSet(cache)) /\ Cardinality(ToSet(cache)) <= NumConnections
    BY CacheSize DEF IInv
  <2>3. IsFiniteSet(active) /\ Cardinality(active) <= Cardinality(ToSet(cache))
    BY <2>1, <2>2, FS_Subset
  <2>4. Cardinality(active) \in Nat /\ Cardinality(ToSet(cache)) \in Nat
    BY <2>2, <2>3, FS_CardinalityType
  <2> QED
    BY <2>1, <2>2, <2>3, <2>4, CacheAssumption DEF ConnectionsBounded
<1> QED
  BY <1>1, Invariance, PTL

-----------------------------------------------------------------------------
(* A leader has its worker. *)

\* A push loses a peer only when the cache was full, and leaves it full.
LEMMA PushLoses ==
  ASSUME CacheInv, NEW p \in Peers
  PROVE  /\ p \in ToSet(Pushed(p)) /\ Len(cache) <= Len(Pushed(p))
         /\ \/ ToSet(cache) \subseteq ToSet(Pushed(p))
            \/ Len(Pushed(p)) = NumConnections
<1>1. ToSet(Pushed(p)) = (ToSet(cache) \ Evicted(p)) \cup {p}
  BY PushKeeps
<1>2. Len(cache) \in Nat /\ cache \in Seq(Peers)
  BY DEF CacheInv
<1>3. CASE p \in ToSet(cache)
  <2>1. /\ Without(p) \in Seq(Peers) /\ Len(Without(p)) = Len(cache) - 1
        /\ Pushed(p) = Append(Without(p), p) /\ Evicted(p) = {}
    BY <1>3, WithoutCuts DEF Pushed, Evicted, Kept
  <2>2. Len(Pushed(p)) = Len(cache)
    BY <1>2, <2>1
  <2> QED
    BY <1>1, <1>2, <2>1, <2>2
<1>4. CASE p \notin ToSet(cache) /\ Len(cache) # NumConnections
  <2>1. Pushed(p) = Append(cache, p) /\ Evicted(p) = {}
    BY <1>4 DEF Pushed, Evicted, Kept
  <2>2. Len(Pushed(p)) = Len(cache) + 1
    BY <1>2, <2>1
  <2> QED
    BY <1>1, <1>2, <2>1, <2>2
<1>5. CASE p \notin ToSet(cache) /\ Len(cache) = NumConnections
  <2>1. Pushed(p) = Append(Tail(cache), p) /\ cache # <<>>
    BY <1>2, <1>5, CacheAssumption DEF Pushed, Evicted
  <2>2. Tail(cache) \in Seq(Peers) /\ Len(Tail(cache)) = Len(cache) - 1
    BY <1>2, <2>1, HeadTailProperties
  <2>3. Len(Pushed(p)) = Len(cache)
    BY <1>2, <2>1, <2>2
  <2> QED
    BY <1>1, <1>2, <1>5, <2>3
<1> QED
  BY <1>3, <1>4, <1>5

\* A pinned leader leads every turn.
PinnedInv ==
    kind = "pinned" => \A t \in 1 .. MaxTurns : schedule[t] = schedule[1]

\* The leaders asked for first are those of the turn it was then and of the
\* SendFanout turns after it.
AskedInv ==
    pc = "fetch" =>
        \A t \in 1 .. MaxTurns :
           turn - moved <= t /\ t <= turn - moved + SendFanout =>
               schedule[t] \in ToSet(connect)

\* A leader to be sent to is in the cache, or will be, or others take up all of
\* the cache.
EnsuredInv ==
    pc = "ensure" /\ moved <= 1 =>
        \/ ToSet(sendTo) \subseteq ToSet(connect) \cup ToSet(cache)
        \/ Len(cache) = NumConnections

\* Every connection is taken, those counted that were lost in this turn.
NoRoom == Len(cache) + Cardinality(Dropped) >= NumConnections

\* Who was dropped has left the cache.
DroppedInv ==
    /\ IsFiniteSet(Dropped) /\ Dropped \cap ToSet(cache) = {}
    /\ pc # "send" => status = <<>> /\ missed = {}

\* While the record is built its leaders leave the cache only when they are
\* reported as dropped.
SendingInv ==
    pc = "send" /\ moved <= 1 =>
        \/ ToSet(sendTo) \subseteq ToSet(cache) \cup Dropped /\ missed \subseteq Dropped
        \/ NoRoom

LeadersInv == PinnedInv /\ AskedInv /\ EnsuredInv /\ DroppedInv /\ SendingInv

\* The leaders of the first call are those AskedInv speaks of, ...
LEMMA AskedFirst ==
  ASSUME LeaderInv, PinnedInv
  PROVE  \A t \in 1 .. MaxTurns :
            turn <= t /\ t <= turn + SendFanout =>
                schedule[t] \in ToSet(Updater!NextLeaders(ConnectFanout))
<1>1. turn \in 1 .. MaxTurns /\ schedule \in [1 .. MaxTurns -> Peers]
  BY DEF LeaderInv, Updater!UpdaterTypeOK
<1>2. CASE kind = "pinned"
  <2>1. Updater!NextLeaders(ConnectFanout) = <<schedule[1]>>
    BY <1>2 DEF Updater!NextLeaders
  <2>2. Len(<<schedule[1]>>) = 1 /\ ToSet(<<schedule[1]>>) = {schedule[1]}
    BY DEF ToSet
  <2> QED
    BY <1>2, <2>1, <2>2 DEF PinnedInv
<1>3. CASE kind # "pinned"
  <2> DEFINE last == IF turn + ConnectFanout <= MaxTurns
                     THEN turn + ConnectFanout - 1 ELSE MaxTurns
             asked == SubSeq(schedule, turn, last)
  <2>1. Updater!NextLeaders(ConnectFanout) = asked
    BY <1>3 DEF Updater!NextLeaders
  <2>2. /\ last \in turn .. MaxTurns /\ last - turn + 1 <= ConnectFanout
        /\ turn \in 1 .. MaxTurns /\ MaxTurns \in Nat
        /\ \A t \in 1 .. MaxTurns : t <= turn + SendFanout => t <= last
    BY <1>1, UpdaterAssumption, FanoutAssumption DEF ConnectFanout
  <2> HIDE DEF last
  <2>3. asked = [i \in 1 .. last - turn + 1 |-> schedule[i + turn - 1]]
    BY <2>2
  <2>4. \A i \in 1 .. last - turn + 1 : schedule[i + turn - 1] \in Peers
    <3>1. \A i \in 1 .. last - turn + 1 : i + turn - 1 \in 1 .. MaxTurns
      BY <2>2
    <3> QED
      BY <1>1, <3>1
  <2>5. Len(asked) = last - turn + 1 /\ DOMAIN asked = 1 .. last - turn + 1
    BY <2>2, <2>3, <2>4
  <2>7. ASSUME NEW t \in 1 .. MaxTurns, turn <= t, t <= turn + SendFanout
        PROVE  schedule[t] \in ToSet(asked)
    <3>1. t - turn + 1 \in 1 .. last - turn + 1 /\ (t - turn + 1) + turn - 1 = t
      BY <2>2, <2>7
    <3>2. asked[t - turn + 1] = schedule[t]
      BY <2>3, <3>1
    <3> QED
      BY <2>5, <3>1, <3>2 DEF ToSet
  <2> QED
    BY <2>1, <2>7
<1> QED
  BY <1>2, <1>3

\* ... and those of the second call are leaders of turns from the present one
\* on, SendFanout of them at most.
LEMMA AskedSecond ==
  ASSUME LeaderInv, PinnedInv, NEW p \in ToSet(Updater!NextLeaders(SendFanout))
  PROVE  \E t \in 1 .. MaxTurns :
           /\ p = schedule[t] /\ turn <= t
           /\ t < turn + SendFanout \/ t = turn
<1>1. turn \in 1 .. MaxTurns /\ schedule \in [1 .. MaxTurns -> Peers]
  BY DEF LeaderInv, Updater!UpdaterTypeOK
<1>2. CASE kind = "pinned"
  <2>1. Updater!NextLeaders(SendFanout) = <<schedule[1]>>
    BY <1>2 DEF Updater!NextLeaders
  <2>2. p = schedule[turn]
    BY <1>1, <1>2, <2>1 DEF PinnedInv, ToSet
  <2> QED
    BY <1>1, <2>2
<1>3. CASE kind # "pinned"
  <2> DEFINE last == IF turn + SendFanout <= MaxTurns
                     THEN turn + SendFanout - 1 ELSE MaxTurns
             asked == SubSeq(schedule, turn, last)
  <2>1. Updater!NextLeaders(SendFanout) = asked
    BY <1>3 DEF Updater!NextLeaders
  <2>2. /\ last \in Int /\ turn \in Nat /\ MaxTurns \in Nat /\ last <= MaxTurns
        /\ 1 <= turn
        /\ \A t \in 1 .. MaxTurns : t <= last => t < turn + SendFanout
    BY <1>1, UpdaterAssumption, FanoutAssumption
  <2> HIDE DEF last
  <2>3. asked = [i \in 1 .. last - turn + 1 |-> schedule[i + turn - 1]]
    BY <2>2
  <2>4. PICK i \in DOMAIN asked : p = asked[i]
    BY <2>1 DEF ToSet
  <2>5. i \in 1 .. last - turn + 1
    BY <2>3, <2>4
  <2>6. /\ i + turn - 1 \in 1 .. MaxTurns /\ turn <= i + turn - 1
        /\ i + turn - 1 < turn + SendFanout
    BY <2>2, <2>5
  <2>7. p = schedule[i + turn - 1]
    BY <2>3, <2>4, <2>5
  <2> QED
    BY <2>6, <2>7
<1> QED
  BY <1>2, <1>3

\* Steps that neither ask for leaders nor touch what is known of them.
LEMMA QuietLeads ==
  ASSUME LeadersInv,
         UNCHANGED <<kind, schedule, turn, moved, pc, connect, sendTo, cache,
                     status, missed>>
  PROVE  LeadersInv'
<1>1. PinnedInv' /\ AskedInv'
  BY DEF LeadersInv, PinnedInv, AskedInv
<1>2. EnsuredInv'
  BY DEF LeadersInv, EnsuredInv
<1>3. DroppedInv' /\ SendingInv'
  BY DEF LeadersInv, DroppedInv, SendingInv, NoRoom, Dropped
<1> QED
  BY <1>1, <1>2, <1>3 DEF LeadersInv

\* A lag that grows by an advance leaves its starting point where it was.
LEMMA Lag ==
  ASSUME NEW from \in Int, NEW to \in Int, NEW lag \in Nat
  PROVE  to - (lag + (to - from)) = from - lag
OBVIOUS

\* What is beside the scheduler: the leader may advance, which moved counts
\* between the two calls.
LEMMA BesideLeads ==
  ASSUME IInv, LeadersInv,
         \/ LeaderMoves \/ ServiceMoves \/ Cancel \/ CancelAll
         \/ \E p \in Peers : WorkerTakes(p) \/ WorkerDies(p)
  PROVE  LeadersInv'
<1>1. CASE LeaderMoves
  <2>1. UNCHANGED <<kind, schedule>>
    BY <1>1 DEF LeaderMoves, Updater!Moves, Updater!LibraryMoves, Updater!HearUpdate
  <2>2. UNCHANGED <<pc, connect, sendTo, cache, status, missed>>
    BY <1>1 DEF LeaderMoves, schedulerVars
  <2>3. /\ pc = "fetch" => moved' = moved + (turn' - turn)
        /\ pc # "fetch" => moved' = moved
    BY <1>1 DEF LeaderMoves
  <2>4. PinnedInv'
    BY <2>1 DEF LeadersInv, PinnedInv
  <2>5. AskedInv'
    <3>1. turn \in Int /\ turn' \in Int /\ moved \in Nat
      <4>1. LeaderInv'
        BY <1>1, LeaderKeeps DEF IInv
      <4> QED
        BY <4>1 DEF IInv, LeaderInv, Updater!UpdaterTypeOK
    <3>2. turn' - (moved + (turn' - turn)) = turn - moved
      BY ONLY <3>1, Lag
    <3>3. pc = "fetch" => turn' - moved' = turn - moved
      BY <2>3, <3>2, Zenon
    <3> QED
      BY <2>1, <2>2, <3>3 DEF LeadersInv, AskedInv
  <2>6. Dropped' = Dropped
    BY <2>2 DEF Dropped
  <2>7. EnsuredInv' /\ DroppedInv' /\ SendingInv'
    BY <2>2, <2>3, <2>6 DEF LeadersInv, EnsuredInv, DroppedInv, SendingInv, NoRoom
  <2> QED
    BY <2>4, <2>5, <2>7 DEF LeadersInv
<1>2. CASE ServiceMoves \/ Cancel \/ CancelAll
  <2>1. UNCHANGED <<kind, schedule, turn, moved, schedulerVars>>
    BY <1>2 DEF ServiceMoves, Cancel, CancelAll, leaderVars, updaterVars,
                Updater!SourceEnds, Updater!ServiceFails, Updater!ServiceEnds,
                Updater!CancelToken
  <2> QED
    BY <2>1, QuietLeads DEF schedulerVars
<1>3. CASE \E p \in Peers : WorkerTakes(p) \/ WorkerDies(p)
  BY <1>3, QuietLeads DEF WorkerTakes, WorkerDies, leaderVars, updaterVars
<1> QED
  BY <1>1, <1>2, <1>3

\* The two calls of next_leaders.
LEMMA AskingLeads ==
  ASSUME IInv, LeadersInv, Tick \/ Fetch
  PROVE  LeadersInv'
<1> USE DEF IInv, LeadersInv
<1>1. turn \in Nat /\ moved \in Nat /\ SendFanout \in Nat
  BY FanoutAssumption DEF LeaderInv, Updater!UpdaterTypeOK
<1>2. UNCHANGED <<kind, schedule, turn>> /\ PinnedInv'
  BY DEF Tick, Fetch, leaderVars, updaterVars, PinnedInv
<1>3. DroppedInv'
  <2>1. pc # "send" /\ pc' # "send" /\ UNCHANGED <<cache, status, missed>>
    BY DEF Tick, Fetch
  <2>2. Dropped' = Dropped
    BY <2>1 DEF Dropped
  <2> QED
    BY <2>1, <2>2 DEF DroppedInv
<1>4. CASE Tick
  <2>1. pc' = "fetch" /\ moved' = 0 /\ connect' = Updater!NextLeaders(ConnectFanout)
    BY <1>4 DEF Tick
  <2>2. turn' - moved' = turn
    BY <1>1, <1>2, <2>1
  <2>3. AskedInv'
    BY <1>2, <2>1, <2>2, AskedFirst DEF AskedInv
  <2> QED
    BY <1>2, <1>3, <2>1, <2>3 DEF EnsuredInv, SendingInv
<1>5. CASE Fetch
  <2>1. /\ pc = "fetch" /\ pc' = "ensure"
        /\ moved' = moved /\ connect' = connect /\ cache' = cache
        /\ sendTo' = Updater!NextLeaders(SendFanout)
    BY <1>5 DEF Fetch, leaderVars
  <2>2. ASSUME moved <= 1, NEW p \in ToSet(sendTo')
        PROVE  p \in ToSet(connect)
    <3>1. PICK t \in 1 .. MaxTurns :
             /\ p = schedule[t] /\ turn <= t
             /\ t < turn + SendFanout \/ t = turn
      BY <2>1, <2>2, AskedSecond
    <3>2. CASE moved = 0 \/ t < turn + SendFanout
      <4>1. turn - moved <= t /\ t <= turn - moved + SendFanout
        BY <1>1, <2>2, <3>1, <3>2
      <4> QED
        BY <2>1, <3>1, <4>1 DEF AskedInv
    <3>3. CASE moved = 1 /\ t = turn /\ SendFanout = 0
      \* nothing is sent to unless the leader is pinned
      <4>1. kind = "pinned"
        <5> SUFFICES ASSUME kind # "pinned" PROVE FALSE
          OBVIOUS
        <5>1. Updater!NextLeaders(SendFanout) = <<>>
          BY <1>1, <3>3, UpdaterAssumption
             DEF Updater!NextLeaders, LeaderInv, Updater!UpdaterTypeOK
        <5> QED
          BY <2>1, <2>2, <5>1 DEF ToSet
      <4>2. turn - 1 \in 1 .. MaxTurns
        <5>1. moved < turn /\ turn <= MaxTurns /\ MaxTurns \in Nat
          BY UpdaterAssumption DEF LeaderInv, Updater!UpdaterTypeOK
        <5> QED
          BY <1>1, <3>3, <5>1
      <4>3. schedule[turn - 1] \in ToSet(connect)
        BY <1>1, <2>1, <3>3, <4>2 DEF AskedInv
      <4> QED
        BY <3>1, <4>1, <4>2, <4>3 DEF PinnedInv
    <3>4. CASE moved = 1 /\ t = turn /\ SendFanout # 0
      <4>1. turn - moved <= t /\ t <= turn - moved + SendFanout
        BY <1>1, <3>4
      <4> QED
        BY <2>1, <3>1, <4>1 DEF AskedInv
    <3> QED
      BY <1>1, <2>2, <3>1, <3>2, <3>3, <3>4
  <2>3. EnsuredInv'
    BY <2>1, <2>2 DEF EnsuredInv
  <2> QED
    BY <1>2, <1>3, <2>1, <2>3 DEF AskedInv, SendingInv
<1> QED
  BY <1>4, <1>5

\* A worker that is ensured is in the cache; whom it evicts leaves it full.
LEMMA EnsureLeads ==
  ASSUME IInv, LeadersInv, Ensure
  PROVE  LeadersInv'
<1> USE DEF IInv, LeadersInv
<1>0. PICK p \in Peers : p = Head(connect)
  BY HeadTailProperties DEF Ensure, TurnInv
<1>1. /\ pc = "ensure" /\ pc' = "ensure" /\ connect' = Tail(connect)
      /\ UNCHANGED <<kind, schedule, turn, moved, sendTo, status, missed>>
  BY DEF Ensure, leaderVars, updaterVars
<1>2. \/ cache' = cache /\ p \in ToSet(cache)
      \/ cache' = Pushed(p)
  BY <1>0 DEF Ensure
<1>3. ToSet(connect) \subseteq ToSet(connect') \cup {p}
  <2>1. connect \in Seq(Peers) /\ connect # <<>>
    BY DEF Ensure, TurnInv
  <2>2. /\ Len(connect) \in Nat \ {0} /\ connect[1] = p
        /\ DOMAIN connect = 1 .. Len(connect)
        /\ DOMAIN connect' = 1 .. Len(connect) - 1
        /\ \A i \in 1 .. Len(connect) - 1 : connect'[i] = connect[i + 1]
    BY <1>0, <1>1, <2>1, HeadTailProperties
  <2>3. ASSUME NEW q \in ToSet(connect), q # p PROVE q \in ToSet(connect')
    <3>1. PICK i \in 1 .. Len(connect) : connect[i] = q
      BY <2>2 DEF ToSet
    <3>2. i - 1 \in 1 .. Len(connect) - 1 /\ (i - 1) + 1 = i
      BY <2>2, <2>3, <3>1
    <3>3. connect'[i - 1] = q
      BY <2>2, <3>1, <3>2
    <3> QED
      BY <2>2, <3>2, <3>3 DEF ToSet
  <2> QED
    BY <2>3
<1>4. /\ p \in ToSet(cache')
      /\ ToSet(cache) \subseteq ToSet(cache') \/ Len(cache') = NumConnections
      /\ Len(cache) = NumConnections => Len(cache') = NumConnections
  <2>1. Len(cache') \in Nat /\ Len(cache') <= NumConnections
    BY EnsureKeeps DEF CacheInv
  <2> QED
    BY <1>2, <2>1, PushLoses, CacheAssumption
<1>5. EnsuredInv'
  BY <1>1, <1>3, <1>4 DEF EnsuredInv
<1>6. DroppedInv'
  <2>1. status = <<>> /\ missed = {}
    BY <1>1 DEF DroppedInv
  <2>2. Dropped = {} /\ Dropped' = {}
    BY <1>1, <2>1 DEF Dropped, ToSet
  <2> QED
    BY <1>1, <2>1, <2>2, FS_EmptySet DEF DroppedInv
<1> QED
  BY <1>1, <1>5, <1>6 DEF PinnedInv, AskedInv, SendingInv

\* An appended element joins the others.
LEMMA AppendAdds ==
  ASSUME NEW S, NEW seq \in Seq(S), NEW e \in S
  PROVE  ToSet(Append(seq, e)) = ToSet(seq) \cup {e}
<1>1. /\ Len(seq) \in Nat /\ DOMAIN seq = 1 .. Len(seq)
      /\ DOMAIN Append(seq, e) = 1 .. Len(seq) + 1
      /\ Append(seq, e)[Len(seq) + 1] = e
      /\ \A i \in 1 .. Len(seq) : Append(seq, e)[i] = seq[i]
  OBVIOUS
<1> QED
  BY <1>1 DEF ToSet

\* The record is built, and a leader's worker is there until it is dropped.
LEMMA SendLeads ==
  ASSUME IInv, LeadersInv,
         \/ Build \/ SendSkips \/ SendRecord \/ \E p \in Peers : SendTo(p)
  PROVE  LeadersInv'
<1> USE DEF IInv, LeadersInv
<1>1. /\ UNCHANGED <<kind, schedule, turn, moved>> /\ pc' \in {"send", "wait"}
      /\ pc \in {"ensure", "send"}
  BY DEF Build, SendSkips, SendRecord, SendTo, Report, leaderVars, updaterVars
<1>2. PinnedInv' /\ AskedInv' /\ EnsuredInv'
  BY <1>1 DEF PinnedInv, AskedInv, EnsuredInv
<1>3. CASE Build
  <2>1. /\ connect = <<>> /\ pc = "ensure" /\ pc' = "send"
        /\ missed = {} /\ status = <<>>
        /\ UNCHANGED <<sendTo, cache, status, missed>>
    BY <1>3 DEF Build, DroppedInv
  <2>2. ToSet(connect) = {} /\ Dropped = {} /\ Dropped' = {}
    BY <2>1 DEF ToSet, Dropped
  <2>3. Cardinality(Dropped') = 0 /\ Len(cache) \in Nat
    BY <2>2, FS_EmptySet DEF CacheInv
  <2>4. SendingInv'
    BY <1>1, <2>1, <2>2, <2>3, CacheAssumption DEF EnsuredInv, SendingInv, NoRoom
  <2>5. DroppedInv'
    BY <2>1, <2>2, FS_EmptySet DEF DroppedInv
  <2> QED
    BY <1>2, <2>4, <2>5
<1>4. CASE SendRecord
  <2>1. pc' = "wait" /\ status' = <<>> /\ missed' = {}
    BY <1>4 DEF SendRecord
  <2>2. Dropped' = {}
    BY <2>1 DEF Dropped, ToSet
  <2> QED
    BY <1>2, <2>1, <2>2, FS_EmptySet DEF DroppedInv, SendingInv
<1>5. ASSUME sendTo # <<>>
      PROVE  /\ Head(sendTo) \in ToSet(sendTo)
             /\ ToSet(Tail(sendTo)) \subseteq ToSet(sendTo)
  <2>1. /\ sendTo \in Seq(Peers) /\ Len(sendTo) \in Nat \ {0}
        /\ Len(Tail(sendTo)) = Len(sendTo) - 1 /\ Head(sendTo) = sendTo[1]
        /\ \A i \in 1 .. Len(sendTo) - 1 : Tail(sendTo)[i] = sendTo[i + 1]
        /\ DOMAIN sendTo = 1 .. Len(sendTo)
        /\ DOMAIN Tail(sendTo) = 1 .. Len(sendTo) - 1
    BY <1>5, HeadTailProperties DEF TurnInv
  <2>2. \A i \in 1 .. Len(sendTo) - 1 : i + 1 \in 1 .. Len(sendTo)
    BY <2>1
  <2> QED
    BY <2>1, <2>2 DEF ToSet
<1>6. CASE SendSkips
  <2>1. /\ pc = "send" /\ pc' = "send" /\ sendTo # <<>>
        /\ Head(sendTo) \notin ToSet(cache) /\ sendTo' = Tail(sendTo)
        /\ missed' = missed \cup {Head(sendTo)} /\ UNCHANGED <<cache, status>>
    BY <1>6 DEF SendSkips
  <2>2. Dropped' = Dropped /\ NoRoom' = NoRoom
    BY <2>1 DEF Dropped, NoRoom
  <2>3. SendingInv'
    BY <1>1, <1>5, <2>1, <2>2 DEF SendingInv
  <2>4. DroppedInv'
    BY <2>1, <2>2 DEF DroppedInv
  <2> QED
    BY <1>2, <2>3, <2>4
<1>7. CASE \E p \in Peers : SendTo(p)
  <2>1. PICK p \in Peers : SendTo(p)
    BY <1>7
  <2>2. PICK s \in Statuses : Report(p, s) /\
           \/ cache' = Pushed(p) /\ s # "ReceiverDropped"
           \/ cache' = Without(p) /\ s = "ReceiverDropped"
    BY <2>1 DEF SendTo, Statuses
  <2>3. /\ pc = "send" /\ pc' = "send" /\ sendTo # <<>> /\ p \in ToSet(cache)
        /\ sendTo' = Tail(sendTo) /\ missed' = missed
        /\ status' = Append(status, <<s, p>>)
    BY <2>1, <2>2 DEF SendTo, Report
  <2>4. ToSet(status') = ToSet(status) \cup {<<s, p>>}
    <3>1. status \in Seq(Statuses \X Peers) /\ <<s, p>> \in Statuses \X Peers
      BY DEF TurnInv
    <3>2. ToSet(Append(status, <<s, p>>)) = ToSet(status) \cup {<<s, p>>}
      BY ONLY <3>1, AppendAdds
    <3>3. status' = Append(status, <<s, p>>)
      BY <2>3
    <3> QED
      BY ONLY <3>2, <3>3
  <2>5. Len(cache) \in Nat /\ Cardinality(Dropped) \in Nat
    BY FS_CardinalityType DEF CacheInv, DroppedInv
  <2>6. CASE cache' = Pushed(p) /\ s # "ReceiverDropped"
    <3>1. Dropped' = Dropped
      BY <2>4, <2>6 DEF Dropped
    <3>2. ToSet(cache') = ToSet(cache)
      <4>1. ToSet(Pushed(p)) = (ToSet(cache) \ Evicted(p)) \cup {p}
        BY PushKeeps
      <4>2. Evicted(p) = {}
        BY <2>3 DEF Evicted
      <4> QED
        BY <2>3, <2>6, <4>1, <4>2
    <3>3. NoRoom => NoRoom'
      <4>1. Len(cache) <= Len(cache') /\ Len(cache') \in Nat
        BY <2>6, PushLoses, PushKeeps
      <4> QED
        BY <2>5, <3>1, <4>1, CacheAssumption DEF NoRoom
    <3> QED
      BY <1>1, <1>2, <1>5, <2>3, <3>1, <3>2, <3>3 DEF DroppedInv, SendingInv
  <2>7. CASE cache' = Without(p) /\ s = "ReceiverDropped"
    <3>1. Dropped' = Dropped \cup {p}
      BY <2>4, <2>7 DEF Dropped
    <3>2. ToSet(cache') = ToSet(cache) \ {p} /\ Len(cache') = Len(cache) - 1
      BY <2>3, <2>7, WithoutCuts
    <3>3. /\ IsFiniteSet(Dropped')
          /\ Cardinality(Dropped') = Cardinality(Dropped) + 1
      <4>1. p \notin Dropped
        BY <2>3 DEF DroppedInv
      <4> QED
        BY <3>1, <4>1, FS_AddElement DEF DroppedInv
    <3>4. NoRoom => NoRoom'
      BY <2>5, <3>2, <3>3, CacheAssumption DEF NoRoom
    <3> QED
      BY <1>1, <1>2, <1>5, <2>3, <3>1, <3>2, <3>3, <3>4 DEF DroppedInv, SendingInv
  <2> QED
    BY <2>2, <2>6, <2>7
<1> QED
  BY <1>3, <1>4, <1>6, <1>7

\* Every step of scheduler, workers and leaders keeps what is said about the
\* leaders that are to have a worker.
LEMMA StepLeads ==
  ASSUME IInv, LeadersInv, [Next]_vars
  PROVE  LeadersInv'
<1>1. CASE SetupEndpoint \/ StopUpdater \/ Finish
  <2>1. /\ UNCHANGED <<kind, schedule, missed, status, cache>>
        /\ pc \notin {"fetch", "ensure", "send"}
        /\ pc' \notin {"fetch", "ensure", "send"}
    BY <1>1 DEF SetupEndpoint, StopUpdater, Finish, leaderVars, updaterVars,
                Updater!Stop
  <2>2. Dropped' = Dropped
    BY <2>1 DEF Dropped
  <2> QED
    BY <2>1, <2>2
       DEF LeadersInv, PinnedInv, AskedInv, EnsuredInv, DroppedInv, SendingInv
<1>2. CASE Stop
  <2>1. /\ UNCHANGED <<kind, schedule, missed, status>>
        /\ pc = "wait" /\ pc' = "closed" /\ cache' = <<>>
    BY <1>2 DEF Stop, leaderVars, updaterVars
  <2>2. Dropped' = Dropped /\ ToSet(cache') = {}
    BY <2>1 DEF Dropped, ToSet
  <2> QED
    BY <2>1, <2>2
       DEF LeadersInv, PinnedInv, AskedInv, EnsuredInv, DroppedInv, SendingInv
<1>3. CASE UNCHANGED vars
  BY <1>3, QuietLeads DEF vars, leaderVars, updaterVars
<1> QED
  BY <1>1, <1>2, <1>3, BesideLeads, AskingLeads, EnsureLeads, SendLeads DEF Next, Turn

\* run_rate_latency_tool_scheduler.rs:55-92: connections are opened ahead of
\* time.  For every schedule, whichever workers die and whatever the numbers of
\* leaders and connections: if the leader advances by one turn at most between
\* the two calls, a leader is passed over only if its worker was dropped in the
\* same turn or all connections are taken.
THEOREM LeaderHasWorkerCorrect == Spec => []LeaderHasWorker
<1>1. Init => IInv /\ LeadersInv
  <2> SUFFICES ASSUME Init PROVE IInv /\ LeadersInv
    OBVIOUS
  <2>1. pc = "setup" /\ missed = {} /\ status = <<>> /\ cache = <<>>
    BY DEF Init
  <2>2. PinnedInv
    BY DEF Init, Updater!Init, PinnedInv
  <2>3. Dropped = {}
    BY <2>1 DEF Dropped, ToSet
  <2> QED
    BY <2>1, <2>2, <2>3, InitInv, FS_EmptySet
       DEF LeadersInv, AskedInv, EnsuredInv, DroppedInv, SendingInv
<1>2. (IInv /\ LeadersInv) /\ [Next]_vars => (IInv /\ LeadersInv)'
  BY StepInv, StepLeads
<1>3. IInv /\ LeadersInv => LeaderHasWorker
  BY DEF LeadersInv, DroppedInv, SendingInv, NoRoom, LeaderHasWorker
<1> QED
  BY <1>1, <1>2, <1>3, PTL DEF Spec
=============================================================================
