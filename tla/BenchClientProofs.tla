-------------------------- MODULE BenchClientProofs --------------------------
(***************************************************************************)
(* Proofs about BenchClient: its type invariant, and AllBatchesTaken, for  *)
(* any number of leaders, any pool and channels of any size.               *)
(***************************************************************************)
EXTENDS BenchClient, SequenceTheorems, TLAPS

\* A loop visits no more leaders than the call has, and each leader adds at
\* most one delivery.
CursorInv ==
    /\ cast = "try" => delivered + Len(todo) <= Len(leaders)
    /\ cast = "block" => Len(todo) <= Len(leaders)

\* A generator that has not begun, or has ended, has no tasks: it ends by
\* itself after the last one, and by an error it takes them with it.
PoolInv == gen \in {"start", "ok", "err"} => building + sending + finished = 0

\* Tasks are aborted only when there is no receiver, and before the generator
\* has ended the scheduler, once it is begun, cannot have ended well.
AbortInv ==
    /\ main = "setup" => sched = "none"
    /\ aborted # 0 => sched = "err"

IInv == TypeOK /\ CursorInv /\ PoolInv /\ AbortInv /\ AllBatchesTaken

castTypes == CastTypeOK /\ CursorInv

-----------------------------------------------------------------------------
(* The broadcaster. *)

\* A step of the call keeps its variables in their types.
LEMMA CastKeeps ==
  ASSUME castTypes, CastStep
  PROVE  castTypes'
<1> USE DEF castTypes, CastTypeOK, CursorInv
<1>1. CASE TryEnds
  <2>1. Len(leaders) \in Nat /\ UNCHANGED <<worker, load, leaders, delivered>>
    BY <1>1, LenProperties DEF TryEnds
  <2>2. CASE delivered # 0
    <3>1. cast' = "idle" /\ todo' = todo
      BY <1>1, <2>2 DEF TryEnds
    <3> QED
      BY <2>1, <3>1
  <2>3. CASE delivered = 0
    <3>1. cast' = "block" /\ todo' = leaders
      BY <1>1, <2>3 DEF TryEnds
    <3> QED
      BY <2>1, <3>1
  <2> QED
    BY <2>2, <2>3
<1>2. CASE Drop
  BY <1>2 DEF Drop
<1>3. ASSUME NEW l \in Leaders, TrySend(l)
      PROVE  castTypes'
  <2>1. todo # <<>> /\ cast = "try" /\ todo' = Tail(todo) /\ UNCHANGED <<cast, leaders>>
    BY <1>3 DEF TrySend, At
  <2>2. todo' \in Seq(Leaders) /\ Len(todo') = Len(todo) - 1
    BY <2>1, HeadTailProperties
  <2>3. CASE HasRoom(l)
    <3>1. /\ load' = [load EXCEPT ![l] = @ + 1]
          /\ delivered' = delivered + 1 /\ worker' = worker
      BY <1>3, <2>3 DEF TrySend, Enqueue
    <3>2. load[l] + 1 \in 0 .. WorkerChannel
      BY <2>3, WorkerChannelAssumption DEF HasRoom
    <3>3. load' \in [Leaders -> 0 .. WorkerChannel]
      BY <3>1, <3>2
    <3>4. Len(todo) \in Nat /\ Len(leaders) \in Nat
      BY LenProperties
    <3>5. /\ delivered' \in 0 .. Len(leaders)
          /\ delivered' + Len(todo') <= Len(leaders)
      BY <2>1, <2>2, <3>1, <3>4
    <3> QED
      BY <2>1, <2>2, <3>1, <3>3, <3>5
  <2>4. CASE ~HasRoom(l)
    <3>1. UNCHANGED <<load, delivered>> /\ Forget(l)
      BY <1>3, <2>4 DEF TrySend
    <3>2. worker' \in [Leaders -> {"none", "alive", "dead"}]
      BY <3>1 DEF Forget
    <3>3. Len(todo) \in Nat /\ Len(leaders) \in Nat
      BY LenProperties
    <3> QED
      BY <2>1, <2>2, <3>1, <3>2, <3>3
  <2> QED
    BY <2>3, <2>4
<1>4. ASSUME NEW l \in Leaders, BlockSend(l)
      PROVE  castTypes'
  <2>1. /\ todo # <<>> /\ cast = "block" /\ HasRoom(l)
        /\ load' = [load EXCEPT ![l] = @ + 1]
        /\ delivered' = 1 /\ cast' = "idle" /\ UNCHANGED <<worker, leaders, todo>>
    BY <1>4 DEF BlockSend, At, Enqueue
  <2>2. load[l] + 1 \in 0 .. WorkerChannel
    BY <2>1, WorkerChannelAssumption DEF HasRoom
  <2>3. load' \in [Leaders -> 0 .. WorkerChannel]
    BY <2>1, <2>2
  <2>4. Len(todo) \in Nat \ {0} /\ Len(leaders) \in Nat
    BY <2>1, LenProperties, EmptySeq
  <2>5. delivered' \in 0 .. Len(leaders)
    BY <2>1, <2>4
  <2> QED
    BY <2>1, <2>3, <2>5
<1>5. ASSUME NEW l \in Leaders, BlockNext(l)
      PROVE  castTypes'
  <2>1. /\ todo # <<>> /\ cast = "block" /\ todo' = Tail(todo) /\ Forget(l)
        /\ UNCHANGED <<load, cast, leaders, delivered>>
    BY <1>5 DEF BlockNext, At
  <2>2. todo' \in Seq(Leaders) /\ Len(todo') = Len(todo) - 1
    BY <2>1, HeadTailProperties
  <2>3. worker' \in [Leaders -> {"none", "alive", "dead"}]
    BY <2>1 DEF Forget
  <2>4. Len(todo) \in Nat /\ Len(leaders) \in Nat
    BY LenProperties
  <2> QED
    BY <2>1, <2>2, <2>3, <2>4
<1> QED
  BY <1>1, <1>2, <1>3, <1>4, <1>5 DEF CastStep

\* So does the beginning of a call, and what happens to the workers.
LEMMA CallKeeps ==
  ASSUME castTypes, NEW ls \in Seq(Leaders), NEW gone \in SUBSET Leaders,
         Call(ls, gone)
  PROVE  castTypes'
<1> USE DEF castTypes, CastTypeOK, CursorInv
<1>1. /\ cast' = "try" /\ leaders' = ls /\ todo' = ls /\ delivered' = 0
      /\ worker' = [l \in Leaders |->
                      IF l \in gone THEN "none"
                      ELSE IF l \in ToSet(ls) THEN "alive" ELSE worker[l]]
      /\ load' = [l \in Leaders |-> IF worker'[l] = worker[l] THEN load[l] ELSE 0]
  BY DEF Call
<1>2. worker' \in [Leaders -> {"none", "alive", "dead"}]
  BY <1>1
<1>3. load' \in [Leaders -> 0 .. WorkerChannel]
  BY <1>1, WorkerChannelAssumption
<1>4. Len(ls) \in Nat
  BY LenProperties
<1> QED
  BY <1>1, <1>2, <1>3, <1>4

\* The workers take and lose batches whenever they like; the broadcaster's
\* variables keep their types.
LEMMA WorkersKeep ==
  ASSUME castTypes, NEW l \in Leaders, WorkerTakes(l) \/ WorkerDies(l)
  PROVE  castTypes'
<1> USE DEF castTypes, CastTypeOK, CursorInv
<1>1. CASE WorkerTakes(l)
  BY <1>1, WorkerChannelAssumption DEF WorkerTakes
<1>2. CASE WorkerDies(l)
  BY <1>2, WorkerChannelAssumption DEF WorkerDies
<1> QED
  BY <1>1, <1>2

-----------------------------------------------------------------------------
(* The client. *)

\* The initial states satisfy the inductive invariant.
LEMMA InitInv == Init => IInv
<1> SUFFICES ASSUME Init PROVE IInv
  OBVIOUS
<1>1. CastTypeOK /\ CursorInv
  <2>1. /\ cast = "idle" /\ leaders = <<>> /\ todo = <<>> /\ delivered = 0
        /\ worker = [l \in Leaders |-> "none"] /\ load = [l \in Leaders |-> 0]
    BY DEF Init, CastInit
  <2>2. leaders \in Seq(Leaders) /\ todo \in Seq(Leaders) /\ Len(leaders) = 0
    BY <2>1
  <2>3. load \in [Leaders -> 0 .. WorkerChannel]
    BY <2>1, WorkerChannelAssumption
  <2> QED
    BY <2>1, <2>2, <2>3 DEF CastTypeOK, CursorInv
<1>2. limited \in BOOLEAN /\ timeUp \in BOOLEAN
  BY Zenon DEF Init
<1>3. /\ main = "setup" /\ gen = "start" /\ sched = "none" /\ updater = "run"
      /\ building = 0 /\ sending = 0 /\ finished = 0 /\ aborted = 0 /\ queue = 0
  BY DEF Init
<1>4. queue \in 0 .. ChannelSize /\ building + sending + finished <= PoolSize
  BY <1>3, PoolAssumption, ChannelAssumption
<1>5. TypeOK /\ PoolInv /\ AbortInv /\ AllBatchesTaken
  BY <1>1, <1>2, <1>3, <1>4 DEF TypeOK, PoolInv, AbortInv, AllBatchesTaken
<1> QED
  BY <1>1, <1>5 DEF IInv

\* What the generator and its pool do; the scheduler is where it was.
LEMMA GeneratorKeeps ==
  ASSUME IInv, Generator \/ Pool
  PROVE  IInv'
<1> USE PoolAssumption, ChannelAssumption
    DEF IInv, TypeOK, PoolInv, AbortInv, AllBatchesTaken, GenDone, GenUnchanged
<1>1. ASSUME UNCHANGED castVars PROVE CastTypeOK' /\ CursorInv'
  BY <1>1 DEF castVars, CastTypeOK, CursorInv
<1>2. UNCHANGED castVars
  BY DEF Generator, Pool, GenStart, GenHead, GenSpawn, GenJoin, GenDrain, GenEnds,
         SendBatch, Built
<1>3. CASE GenStart
  BY <1>1, <1>2, <1>3 DEF GenStart
<1>4. CASE GenHead
  BY <1>1, <1>2, <1>4 DEF GenHead, DropTasks, ReceiverGone
<1>5. CASE GenSpawn
  BY <1>1, <1>2, <1>5 DEF GenSpawn, Wanted
<1>6. CASE GenJoin
  BY <1>1, <1>2, <1>6 DEF GenJoin
<1>7. CASE GenDrain
  BY <1>1, <1>2, <1>7 DEF GenDrain
<1>8. CASE GenEnds
  BY <1>1, <1>2, <1>8 DEF GenEnds
<1>9. CASE SendBatch
  BY <1>1, <1>2, <1>9 DEF SendBatch, ReceiverGone
<1>10. ASSUME NEW ok \in BOOLEAN, Built(ok) PROVE IInv'
  BY <1>1, <1>2, <1>10 DEF Built
<1> QED
  BY <1>3, <1>4, <1>5, <1>6, <1>7, <1>8, <1>9, <1>10 DEF Generator, Pool

\* What happens beside the generator.
LEMMA BesideKeeps ==
  ASSUME IInv,
         \/ SetUp \/ SetUpFails \/ JoinNext \/ TimeUp
         \/ SchedEnds \/ SchedFails \/ UpdaterEnds \/ UpdaterStuck
         \/ UNCHANGED vars
  PROVE  IInv'
<1> USE DEF IInv, TypeOK, PoolInv, AbortInv, AllBatchesTaken, GenDone, genVars
<1>1. UNCHANGED castVars
  BY DEF SetUp, SetUpFails, JoinNext, TimeUp, SchedEnds, SchedFails, UpdaterEnds,
         UpdaterStuck, vars
<1>2. CastTypeOK' /\ CursorInv'
  BY <1>1 DEF castVars, CastTypeOK, CursorInv
<1>3. CASE SetUp
  BY <1>2, <1>3 DEF SetUp
<1>4. CASE SetUpFails
  BY <1>2, <1>4 DEF SetUpFails
<1>5. CASE JoinNext
  BY <1>2, <1>5 DEF JoinNext
<1>6. CASE TimeUp
  BY <1>2, <1>6 DEF TimeUp
<1>7. CASE SchedEnds
  BY <1>2, <1>7 DEF SchedEnds, ChannelEnded
<1>8. CASE SchedFails
  BY <1>2, <1>8 DEF SchedFails
<1>9. CASE UpdaterEnds
  BY <1>2, <1>9 DEF UpdaterEnds
<1>10. CASE UpdaterStuck
  BY <1>2, <1>10 DEF UpdaterStuck
<1>11. CASE UNCHANGED vars
  BY <1>2, <1>11 DEF vars, benchVars
<1> QED
  BY <1>3, <1>4, <1>5, <1>6, <1>7, <1>8, <1>9, <1>10, <1>11

\* Every step keeps it, ...
LEMMA StepInv == IInv /\ [Next]_vars => IInv'
<1> SUFFICES ASSUME IInv, [Next]_vars PROVE IInv'
  OBVIOUS
<1>1. castTypes
  BY DEF IInv, TypeOK, castTypes
<1>2. CASE SchedTakes
  <2>1. PICK ls \in {s \in UNION {[1 .. n -> Leaders] : n \in 0 .. 2} : IsInjective(s)},
             gone \in SUBSET Leaders : Call(ls, gone)
    BY <1>2 DEF SchedTakes
  <2>2. PICK n \in 0 .. 2 : ls \in [1 .. n -> Leaders]
    BY <2>1
  <2>3. ls \in Seq(Leaders)
    BY <2>2
  <2>4. CastTypeOK' /\ CursorInv'
    BY <1>1, <2>1, <2>3, CallKeeps DEF castTypes
  <2>5. /\ sched = "run" /\ queue > 0 /\ queue' = queue - 1
        /\ UNCHANGED <<main, limited, timeUp, genVars, sched, updater>>
    BY <1>2 DEF SchedTakes
  <2>6. queue' \in 0 .. ChannelSize
    BY <2>5, ChannelAssumption DEF IInv, TypeOK
  <2>7. TypeOK'
    BY <2>4, <2>5, <2>6 DEF IInv, TypeOK, genVars
  <2>8. PoolInv' /\ AbortInv' /\ AllBatchesTaken'
    BY <2>5 DEF IInv, PoolInv, AbortInv, AllBatchesTaken, genVars
  <2> QED
    BY <2>4, <2>7, <2>8 DEF IInv
<1>3. ASSUME UNCHANGED benchVars, castTypes' PROVE IInv'
  BY <1>3 DEF IInv, castTypes, TypeOK, PoolInv, AbortInv, AllBatchesTaken, GenDone,
               benchVars, genVars
<1>4. CASE Live /\ CastStep /\ UNCHANGED benchVars
  BY <1>1, <1>3, <1>4, CastKeeps
<1>5. CASE \E l \in Leaders : Workers(l)
  BY <1>1, <1>3, <1>5, WorkersKeep DEF Workers
<1>6. CASE Generator \/ Pool
  BY <1>6, GeneratorKeeps
<1>7. CASE \/ SetUp \/ SetUpFails \/ JoinNext \/ TimeUp
           \/ SchedEnds \/ SchedFails \/ UpdaterEnds \/ UpdaterStuck
           \/ UNCHANGED vars
  BY <1>7, BesideKeeps
<1> QED
  BY <1>2, <1>4, <1>5, <1>6, <1>7 DEF Next, Scheduler

\* ... so that it holds in every reachable state.
THEOREM Invariance == Spec => []IInv
  BY InitInv, StepInv, PTL DEF Spec

\* The counts of the pool never exceed its size, no channel holds more than
\* its capacity, and a call delivers at most once per leader.
THEOREM TypeCorrect == Spec => []TypeOK
<1>1. IInv => TypeOK
  BY DEF IInv
<1> QED
  BY <1>1, Invariance, PTL

\* A scheduler that ends well has taken every batch that the pool built.
THEOREM AllBatchesTakenCorrect == Spec => []AllBatchesTaken
<1>1. IInv => AllBatchesTaken
  BY DEF IInv
<1> QED
  BY <1>1, Invariance, PTL

-----------------------------------------------------------------------------
(* A batch is dropped only when nobody could take it. *)

\* The leaders that the second loop has passed have no live worker, and get
\* none before the next call.
PassedInv ==
    cast = "block" =>
        \A l \in ToSet(leaders) : l \in ToSet(todo) \/ worker[l] # "alive"

\* The leaders but the first are those of the rest.
LEMMA HeadOrTail ==
  ASSUME NEW S, NEW seq \in Seq(S), seq # <<>>, NEW l \in ToSet(seq)
  PROVE  l = Head(seq) \/ l \in ToSet(Tail(seq))
<1>1. /\ Len(seq) \in Nat /\ DOMAIN seq = 1 .. Len(seq) /\ Head(seq) = seq[1]
      /\ DOMAIN Tail(seq) = 1 .. Len(seq) - 1
      /\ \A k \in 1 .. Len(seq) - 1 : Tail(seq)[k] = seq[k + 1]
  BY HeadTailProperties
<1>2. PICK i \in 1 .. Len(seq) : l = seq[i]
  BY <1>1 DEF ToSet
<1>3. CASE i = 1
  BY <1>1, <1>2, <1>3
<1>4. CASE i # 1
  <2>1. i - 1 \in 1 .. Len(seq) - 1 /\ (i - 1) + 1 = i
    BY <1>1, <1>4
  <2>2. Tail(seq)[i - 1] = l
    BY <1>1, <1>2, <2>1
  <2> QED
    BY <1>1, <2>1, <2>2 DEF ToSet
<1> QED
  BY <1>3, <1>4

\* No step of a call revives a worker, and the second loop passes a leader
\* only when its worker is not alive.
LEMMA CastPasses ==
  ASSUME CastTypeOK, PassedInv, CastStep
  PROVE  PassedInv'
<1> USE DEF PassedInv
<1>1. CASE TryEnds
  BY <1>1 DEF TryEnds
<1>2. CASE Drop
  BY <1>2 DEF Drop
<1>3. CASE \E l \in Leaders : TrySend(l)
  BY <1>3 DEF TrySend, At
<1>4. CASE \E l \in Leaders : BlockSend(l)
  BY <1>4 DEF BlockSend
<1>5. ASSUME NEW l \in Leaders, BlockNext(l)
      PROVE  PassedInv'
  <2>1. /\ cast = "block" /\ todo # <<>> /\ l = Head(todo) /\ worker[l] # "alive"
        /\ todo' = Tail(todo) /\ leaders' = leaders /\ Forget(l)
    BY <1>5 DEF BlockNext, At
  <2>2. \A m \in Leaders : worker[m] # "alive" => worker'[m] # "alive"
    BY <2>1 DEF Forget, CastTypeOK
  <2>3. \A m \in ToSet(leaders) : m \in Leaders
    BY DEF CastTypeOK, ToSet
  <2>4. ASSUME NEW m \in ToSet(leaders)
        PROVE  m \in ToSet(todo') \/ worker'[m] # "alive"
    <3>1. m \in ToSet(todo) => m = l \/ m \in ToSet(Tail(todo))
      BY <2>1, HeadOrTail DEF CastTypeOK
    <3> QED
      BY <2>1, <2>2, <2>3, <2>4, <3>1
  <2> QED
    BY <2>1, <2>4
<1> QED
  BY <1>1, <1>2, <1>3, <1>4, <1>5 DEF CastStep

\* Neither does what a worker does, and every other step begins a call or has
\* nothing to do with it.
LEMMA StepPasses ==
  ASSUME IInv, PassedInv, [Next]_vars
  PROVE  PassedInv'
<1>1. CastTypeOK
  BY DEF IInv, TypeOK
<1>2. CASE CastStep
  BY <1>1, <1>2, CastPasses
<1>3. CASE UNCHANGED castVars
  BY <1>3 DEF castVars, PassedInv
<1>4. CASE SchedTakes
  BY <1>4 DEF SchedTakes, Call, PassedInv
<1>5. ASSUME NEW l \in Leaders, WorkerTakes(l) \/ WorkerDies(l)
      PROVE  PassedInv'
  <2>1. /\ UNCHANGED <<cast, leaders, todo>>
        /\ worker' = worker \/ worker' = [worker EXCEPT ![l] = "dead"]
    BY <1>5 DEF WorkerTakes, WorkerDies
  <2>2. \A m \in Leaders : worker[m] # "alive" => worker'[m] # "alive"
    BY <1>1, <2>1 DEF CastTypeOK
  <2>3. \A m \in ToSet(leaders) : m \in Leaders
    BY <1>1 DEF CastTypeOK, ToSet
  <2> QED
    BY <2>1, <2>2, <2>3 DEF PassedInv
<1>6. \/ CastStep \/ SchedTakes \/ UNCHANGED castVars
      \/ \E l \in Leaders : WorkerTakes(l) \/ WorkerDies(l)
  <2>1. CASE Generator \/ Pool
    BY <2>1 DEF Generator, Pool, GenStart, GenHead, GenSpawn, GenJoin, GenDrain,
                GenEnds, SendBatch, Built, GenUnchanged
  <2>2. CASE Scheduler
    BY <2>2 DEF Scheduler, SchedEnds
  <2>3. CASE SetUp \/ SetUpFails \/ JoinNext \/ TimeUp \/ SchedFails
             \/ UpdaterEnds \/ UpdaterStuck \/ UNCHANGED vars
    BY <2>3 DEF SetUp, SetUpFails, JoinNext, TimeUp, SchedFails, UpdaterEnds,
                UpdaterStuck, vars
  <2>4. CASE \E l \in Leaders : Workers(l)
    BY <2>4 DEF Workers
  <2> QED
    BY <2>1, <2>2, <2>3, <2>4 DEF Next
<1> QED
  BY <1>2, <1>3, <1>4, <1>5, <1>6

\* backpressured_broadcaster.rs:33-110: for any leaders and channels, and
\* whenever workers die in the course of a call, a batch is dropped only when no
\* leader of the call has a live worker, never because all channels are full.
THEOREM DropOnlyIfGoneCorrect == Spec => DropOnlyIfGone
<1>1. Init => PassedInv
  BY DEF Init, CastInit, PassedInv
<1>2. ASSUME PassedInv, Drop
      PROVE  \A l \in ToSet(leaders) : worker[l] # "alive"
  BY <1>2 DEF Drop, PassedInv, ToSet
<1>3. (IInv /\ PassedInv) /\ [Next]_vars => (IInv /\ PassedInv)'
  BY StepInv, StepPasses
<1>4. (IInv /\ PassedInv) /\ [Next]_vars =>
        [Drop => \A l \in ToSet(leaders) : worker[l] # "alive"]_vars
  BY <1>2
<1> QED
  BY <1>1, <1>3, <1>4, InitInv, PTL DEF Spec, DropOnlyIfGone
=============================================================================
