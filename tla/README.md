# Specifications of tpu-tools

TLA+ modules, TLC models and TLAPS proofs for the Rust programs of this
repository: `solana-rate-latency-tool`, `solana-transaction-bench` and the
crates they share.  Source paths are relative to `src/`.

## 1. The system

Two command line programs send transactions to the TPU port of Solana leaders
and share the setting up of accounts, blockhashes and leader tracking.

| Component | Source | State it keeps | Operations | Talks to |
|---|---|---|---|---|
| rate-latency `run_client` | `rate-latency-tool/src/run_client.rs` | a JoinSet, a cancellation token and its child | spawn the tasks, time out, join and cancel | all tasks below |
| scheduler | `rate-latency-tool/src/run_rate_latency_tool_scheduler.rs` | cache of connection workers, the record being built | one turn per tick, stop | leader updater, workers, tracker channel |
| yellowstone subscriber | `rate-latency-tool/src/yellowstone_subscriber.rs` | a recording per slot; one spawned task per block | add entries and transactions, start/drop/finish a recording, find ticks, send rows | gRPC stream, block channel |
| CSV writer | `rate-latency-tool/src/csv_writer.rs` | a map of pending sends under a mutex, the internal channel, the file | block, flusher, tracker and writer task | block channel, tracker channel, file |
| blockhash updater | `tools-common/src/blockhash_updater.rs` | last blockhash, time of the last update | one request per interval | RPC node, watch channel |
| accounts creator, accounts file | `tools-common/src/accounts_creator.rs`, `accounts_file.rs` | accounts created, attempts, failures in a row | check balance, airdrop, send batches, give up, validate, write | RPC node, files |
| transaction generator | `transaction-bench/src/generator/` | a pool of tasks, the duration | fill the pool, build and send batches, drain | blockhash channel, batch channel |
| backpressured broadcaster | `transaction-bench/src/backpressured_broadcaster.rs` | number delivered | try every leader, then block on one | workers cache |
| bench `run_client` | `transaction-bench/src/main.rs` | three join handles | spawn, join in order | the three above |
| leader updaters, slot event sources | `tools-common/src/leader_updater.rs`, `custom_geyser_node_address_service.rs`, `tpu-client-next-extensions/` | a service each, an exit flag | create, next leaders, current slot, map messages to slot events, stop | scheduler, library services, UDP, gRPC |
| `run` of transaction-bench | `transaction-bench/src/main.rs` | the accounts file | create and run, create and write, read and run | accounts creator, bench `run_client` |
| transactions-per-block writer | `rate-latency-tool/src/txs_per_block_writer.rs` | file | write a line | nobody calls it |
| command lines, errors | `*/cli.rs`, `*/error.rs` | none | parse, convert | |

What is hard, and what makes each component right:

* **CSV writer.**  Four tokio tasks share a map; a send and the block it landed
  in reach it through different channels, in either order; cancellation and the
  closing of channels race.  Right means: the status of a send is reported once,
  none is forgotten, the early exit of the scan is justified, the file is
  complete when the function returns, and it returns.
* **run_client (rate-latency).**  Two tokens, up to six tasks, any of which may
  fail or panic at any time.  Right means: a failure is reported and ends
  everything, a duration ends everything, and the writer is not left behind.
* **Scheduler and leader updaters.**  Leaders advance and workers die or are
  evicted between the calls of one turn; the service that follows the leaders may
  end, or outlive everybody.  Right means: the connection ahead of time works, the
  number of connections is bounded, cancellation ends loop and service.
* **Subscriber.**  Updates come in any order and may be missing; the tasks it
  spawns are joined by nobody.  Right means: ticks and order are right whatever
  the order of arrival, and an index is out of range only if entries are missing.
* **Blockhash updater.**  A timer, a request that may hang up to its timeout, a
  receiver that may go away.  Right means: trouble is noticed in bounded time.
* **Accounts.**  Requests fail, transactions land though an error is returned.
  Right means: batches fit, funds suffice, the retries end, and
  a later program finds in the file what an earlier one has saved.
* **Batches of transfers.**  How many payers and amounts a batch takes is computed
  in one place and used in another.  Right means: the payers take turns, and
  there are amounts enough.
* **Bench.**  No cancellation at all: tasks end by channels that close, in one
  order.  Right means: no batch is lost on the way, and the chain of closings
  reaches everybody.

`PROJECT.json` lists the hazards one by one with the line where each bites.

## 2. Modules

| Module | Models | State and actions |
|---|---|---|
| `Reporting` | what the CSV writer promises | a ledger of `sent`, `filed` and `rows`; `File`, `Expire`, `Dump` are one step each, without tasks, batches, map or mutex.  A row of a block takes two, `Look` and `Land`: between them it is `held`, with or without a status. |
| `CsvWriter` | `csv_writer.rs` | channels are histories with read cursors (`sent`/`tracked`, `blockRecs`/`recvd`/`drained`, `rows`/`taken`); `pending` is the set of keys of the map; `pc` gives each task's place. `Block*`, `Flush*`, `Track*`/`Dump*` and `Write*` are the four tasks (the block task looks a row up in `BlockLook`, with the lock if the row has an id, and sends it in `BlockSend`, without it); `SendRecord`, `LandRecord`, `Close*`, `Cancel`, `Tick` are what surrounds them. `Ledger` instantiates `Reporting` with the refinement mapping. |
| `RateClient` | `run_client.rs`, set-up of the subscriber | instantiates `CsvWriter` as `CW` and takes its environment actions jointly with steps of the client: `SchedTick` is `CW!SendRecord`, `SlotSends` is `CW!LandRecord`, `CancelAll` is `CW!Cancel`, dropped senders are `CW!CloseSent` and `CW!CloseBlock`. |
| `LeaderUpdater` | `leader_updater.rs`, `custom_geyser_node_address_service.rs`, `yellowstone_leader_tracker.rs` | `kind` is the leader tracker, `turn` the current leader, `service` the task behind the updater. `HearUpdate` maps an update to a slot event, `SourceEnds` and `ServiceFails` are the ways a source or service fails, `Stop` and `ServiceEnds` its orderly end. |
| `RateScheduler` | `run_rate_latency_tool_scheduler.rs` | composed with `LeaderUpdater` (instantiated as `Updater`). `Tick`, `Fetch`, `Ensure`, `Build`, `SendSkips`/`SendTo`, `SendRecord` are one turn in order; `LeaderMoves`, `ServiceMoves`, `WorkerTakes`, `WorkerDies` may come between any two of them; `Stop`, `StopUpdater`, `Finish` are the end. |
| `Sums` | running totals of `find_tx_ticks`, and of the stakes | the sums of the prefixes of a sequence. |
| `TxTicks` | `find_tx_ticks` | the first loop as a function of the number of its turns, the second as a choice, with a reference (`TickOf`) they are compared with. |
| `SlotRecorder` | `yellowstone_subscriber.rs` | `recordings` is the map of the main loop, `tasks` the spawned tasks, `unseen` what the stream has not delivered, `gaps` a history of the slots that miss entries. |
| `BlockhashUpdater` | `blockhash_updater.rs` | ages in place of times; `Head`, `IntervalTick`, `RpcSame`, `RpcNew` are the parts of one turn of the loop. |
| `AccountsCreator` | `accounts_creator.rs`, `accounts_file.rs` | counters in place of keypairs; one action per request and per branch of the loop.  Of a batch `SendBatch` lands some transactions that are confirmed, some that are not, and some with an error of their own, which burn their fee; `GiveUp` and `DumpFails` are the ways to give up. |
| `TransferGenerator` | `transaction-bench/src/generator/`, `compute_num_streams` | the size of a batch from the stakes (`SetUp`), the pool of tasks (`Refill`, `SpawnBatch`, `JoinOne`, `ReceiverDropped`), the payers and amounts a batch takes (`BuildBatch`, `Met`, `EnoughAmounts`). |
| `BenchProgram` | `run` of `transaction-bench/src/main.rs` | extends `AccountsCreator` and instantiates `TransferGenerator`: `Create` is the accounts creator with the file, `Run` and `ReadAccounts` hand the payers to the generator, `StartRead` is the next program. |
| `Broadcaster` | `backpressured_broadcaster.rs` | the two loops of `send_to_workers` as a cursor over the leaders, and the workers. |
| `BenchClient` | `run_client` of `transaction-bench/src/main.rs`, `transaction_generator.rs` | extends `Broadcaster`; counts of the tasks of the pool by stage (those that were aborted too), the batch channel, the scheduler loop of the library. |
| `*Proofs` | | theorems: section 4.  `CsvWriterProofs` has the refinement of `Reporting` too, `BenchProgramProofs` the proofs about `AccountsCreator` and `TransferGenerator`. |
| `MC_*` | | instances for TLC. |

The generator appears twice, with different abstractions: `BenchClient` has its
channel and its end and counts batches, `TransferGenerator` has what is in the
batches and no channel.  Both have the same pool.

Operators introduced by "As ..., but" are faulty variants of the definition
that follows them.  No specification uses them; put in its place, each one
breaks a property, which shows that the property depends on that line of code
(`PROJECT.json`, "mutants").

Abstractions worth knowing:

* Transaction ids are consecutive in the code (`tx_id.wrapping_add(1)`), so the
  i-th record sent has id i and the map's order is the order of ids.  Id 0
  stands for a row without an id.
* A critical section without an await is one step, except the scan and the dump,
  which are long and are therefore done row by row while the lock is held.  Steps
  are never longer than the lock is held: in the block task the lock goes with the
  `if let` (`csv_writer.rs:167`), before the row is sent.
* Where `select!` or `run_until_cancelled` could choose, the model may choose
  either.  In particular a task that always finds work may ignore the
  cancellation for as long as it does.
* The workers cache of `solana_tpu_client_next` is external.  Whether its
  look-up in `ensure_worker` refreshes the place of a worker in LRU order is left
  open: `Ensure` may do either.
* In `LeaderUpdater` the four slots of a leader's turn count as one.  The
  services of the libraries know a turn, follow events that may be late, never
  go back, and end when they are told to, fail or panic.
* In `SlotRecorder` the stream delivers every message at most once, in any
  order, and may stop anywhere; `whole` stands for an update from which a row
  can be built.
* In `RateClient` that a task which ended well is joined is left out: it only
  logs.  `run_client` returns when all tasks are done and all failures joined.
* `AccountsCreator` has the authority's balance and what is spent of it in
  lamports; other balances are what the RPC node says they are.
* `TransferGenerator` divides stakes with integers, the code with floats, which can
  differ by one stream before the clamp.  Different amounts are only counted.

## 3. Runs

| Run | Question | Bounds, and why they are enough |
|---|---|---|
| `csv` | does the writer keep the ledger of `Reporting`? is its scan right, the file complete? | up to 2 sends and 2 landings, 3 of both together (`FewRecords`), 3 clock values, `MAX_TX_AGE_MS` = 1 tick: a send can grow too old, be overtaken by its own landing, be filed while its row is in the block task's hands, land twice, and two sends can be on different sides of the age limit, or be dumped around a row. Batches of 2 are full or cut short; a channel of 1 blocks the subscriber. |
| `csv_live` | the writer ends, and rows reach the file | 1 send, 1 landing, with I/O errors. |
| `client` | errors are told, nothing of the writer is left behind, files complete | one send, one landing, one block, two clock values: enough for every order in which the six tasks end. No I/O errors, which `client_live` has. |
| `client_live` | failure and timeout end the client | one send and one block, no landings, a clock that stands still, I/O errors possible (the file that cannot be created among them); the subscriber may be connecting all the while. |
| `client_exit` | are pending sends dumped at the end? (violated) | one send, no landing. |
| `sched` | connections ahead of time, bounded, and the end | all five leader trackers, every schedule of 3 turns over 3 leaders, 2 connections, 2 ticks, fanout 1 (so 2 leaders are connected to); the leader may advance between any two steps, so that it is skipped when it advances twice within one turn, and the third leader evicts the first, which may be one still to be sent to. |
| `slots` | ticks, order, panics, rows, and the end of the tasks | one slot with three kinds of block: a tick in the middle, a tick first, two transactions in one entry; every order and subset of the updates. `MC_SlotRecorder` also compares `FindTxTicks` with its reference on all 364 blocks of up to 5 entries with up to 2 transactions. Tasks of different slots share only the channel. |
| `blockhash` | bounded detection, and no giving up too early | interval 2, stuck after 10 (two of the slowest turns, so that a single request in vain must not do), requests of up to 3, ticks up to 3 late: requests longer than the interval, so ticks come in bursts. |
| `accounts` | batches, funds, the file, turns of the payers, termination | 4 payers of 2 lamports each, a fee of 1, an authority that has nothing, one lamport too little, just enough, or enough for a fifth account; batches of about 2, 3 failures in a row; files that are missing, broken, empty or have another number of payers; stakes that reach the least, the greatest and a middle number of streams, a total of zero and the default; a pool of 2 tasks and 3 batches, so that tasks build out of order and the index wraps. |
| `accounts_validate` | do validated accounts have the balance? (violated) | balances scaled: 5 lamports asked for, 10 to a SOL. |
| `bench_amounts` | is the assertion of `unique_random_numbers` always met? (violated) | as `accounts` with two transfers per transaction; 4 streams for 512, 5 amounts for 513. |
| `bench` | the chain of closings, and backpressure | 2 leaders, channels of 1, a pool of 2: the pool, the batch channel and the workers can all be full at once. |

`CHECK_DEADLOCK FALSE` stands where the program ends (`BenchProgram`,
`AccountsCreator`, `BlockhashUpdater`) or may wait for a stream for ever
(`SlotRecorder`).  The other models stutter explicitly when all is done, so that
TLC finds a deadlock if some task is left waiting: this is how the chain of
closings of `BenchClient` is checked besides its liveness properties.

### Fairness

Weak fairness everywhere.  In `CsvWriter` and `RateClient` a task that can go
on is polled by tokio, sleeps elapse, and RPC requests and the connection of the
subscriber return (they have timeouts).  Nothing is assumed of the stream, of the
ticks at which the scheduler sends, or of errors.  `RateScheduler` assumes that
its ticks come, that a turn, which has no await, is carried through, that a ready
cancellation is taken at some time, and that a leader service which is told to
end does.  `BenchClient` assumes that a connection takes a batch or is lost: QUIC
has an idle timeout.  `BlockhashUpdater` assumes that time passes, `BenchProgram`
that some step is taken as long as there is one.

## 4. Proofs

For every value of the constants that satisfies the named assumptions:

* `CsvWriterProofs`: `TypeOK`, `StatusOnce`, `NoStatusLost`, `ScanComplete`,
  `DumpComplete` and `FileComplete`.  None of the middle four is inductive.
  `IInv` adds: the stages each task can be in, and that scan and dump exclude
  each other (`StageInv`, the mutex); a row with a status is that of a filed send,
  and unless dumped the send has left the map (`GoneInv`); the send whose status the
  block task has in its hands has left the map and is told by no row but one of a
  dump (`HandInv`); rows of the dump exist only below its position (`DumpInv`), below which nothing was skipped
  (`DumpedInv`); ids are in the order of send times (`OrderInv`).  Steps that
  leave map and rows alone are dealt with by one lemma (`QuietStep`), the
  others each by a lemma of their own.  `FileComplete` has an invariant of its own
  (`FileInv`): the rows taken are in the file unless something was faulty, and a
  writer that has ended without a fault has left nothing in the channel and no
  task alive that sends.
* `CsvWriterProofs`, second part: `CsvWriter` implements `Reporting`
  (`ImplementsReporting`).  The mapping keeps the clock, the sends and the rows,
  takes the tracker's cursor for what is filed, the row that the block task has
  looked up and not sent for what is `held`, and reads the phase and whether
  writing is broken off the places of the tasks.  It rests on two more
  invariants: the keys of the shared map are exactly the sends that the ledger
  has on file, not told and not about to be told (`MapInv`, as long as the writer
  task runs), and the
  time the flusher compares with is not ahead of the clock (`FlushNowInv`).  Each
  task's step is then shown to be one step of the ledger or none.
* `RateClientProofs`: by an invariant that ties the stages of the tasks to what
  they hold: `ClientTypeOK`, `ResultTold`, and, with the invariant behind
  `FileComplete` of the writer, `CsvClosed`.  (A step of the client is a step of
  the writer or leaves it alone by the way the two modules are composed, so that
  what is proved of the writer holds in the client; that is a lemma and says
  nothing about the code.)
* `RateSchedulerProofs`: `TypeOK`, `ConnectionsBounded` and `LeaderHasWorker`.
  The invariant says that the cache is a sequence without repetitions no longer
  than the number of connections, and that every live worker is in it; lemmas
  show what taking a peer out (`WithoutCuts`) and pushing one (`PushKeeps`) leave
  of it.  The bound follows with the cardinality of the range of such a sequence.
  `LeaderHasWorker` is proved for all constants and for both kinds of look-up, and
  needs the history of a turn (`LeadersInv`): the leaders asked for first cover the
  turns until the second call (`AskedInv`); a leader to be sent to is still to be
  ensured or in the cache, unless the cache is full (`EnsuredInv`); and while the
  record is built, it leaves the cache only when it is reported as dropped, which
  the count of the connections taken remembers (`SendingInv`, `DroppedInv`).  The
  heart of it is that pushing a peer loses another one only from a full cache and
  leaves it full (`PushLoses`).
* `TxTicksProofs`: `find_tx_ticks` computes what the reference says, for blocks of
  any length (`TicksCorrect`).  No induction rule with an operator for the
  statement can be used here, so each induction is carried out on a set: `NatSet`
  says that a set of numbers with 0 and all successors has every number, which
  follows from the numbers being well-founded.  That the recursive definitions
  have a solution is shown in the same way (`SumsRecursion`, `CountedRecursion`).
  The invariant of the first loop is `CountedState`: the transactions counted are
  in a closed tick or in `cur_num_txs`, and there are as many closed ticks as
  entries without transactions.
* `SlotRecorderProofs`: all five invariants of `SlotRecorder`, for any number of
  slots, blocks of any length and any channel, with `TicksCorrect` for the ticks.
  The invariant follows the parts of a block: until its meta data comes, what has
  been delivered of its entries is in the recording unless the slot has a gap
  (`CompleteInv`), and nothing is recorded twice (`RecordingsInv`); the task that
  takes the recording over has all of it, in order once it is sorted, with the
  right ticks (`TaskInv`); rows and passed transactions correspond (`RowsInv`,
  `SentInv`).  Lemmas about `ByIndex` show that it sorts and is a permutation, and
  that a complete sorted recording is the block itself.
* `BlockhashUpdaterProofs`: `TypeOK`, `AgeBounded`, `GoneBounded`,
  `StuckInVain`.  The invariant bounds the age at each place of the loop by
  what has passed since the last check: at the timer by the time the next tick
  is due, in the request by its age.  For `StuckInVain` it bounds the age in the
  same way by the number of requests in vain, each with its wait (`VainInv`).
* `BenchProgramProofs`, first part: `TypeOK`, `BatchFits` and `FundsSuffice` of
  `AccountsCreator`.  The invariant adds that validation is reached only with all
  the payers; the arithmetic of `calculate_batch_size` and that of what a batch
  spends (`LandsKeeps`) are lemmas.
  Second part: `FileServes`: an invariant follows the number of payers into the
  file and out of it, and the file of an earlier program through the failures of
  a later one (`FileInv`).  (Programs take the steps of `AccountsCreator` as they
  are, so that the first part holds of them too.)
  Third part: `ProgramTypeOK` and `PayersBalanced`, for any number of payers,
  transfers, streams and tasks.  All batches together walk round the payers in
  steps that are numbered from the first one begun; a batch owns an interval of
  them (`StepsOf`), which begins where its `from` says (`IndexInv`), and the
  intervals of different batches are apart.  A payer has then been used as often
  as the steps given out and not waiting in the pool meet it (`UsesInv`), whatever
  the order in which batches are built.  When nothing waits, these are the steps
  from 0 on, and a walk from 0 meets each payer as often as another or once more
  (`WalkFair`: moving every step that meets one payer back to one that meets the
  other is an injection).  `ModIs` and `ModAdd` are the facts about remainders,
  `StreamsType` says that no stakes make the size of a batch anything but a
  number.
* `BenchClientProofs`: `TypeOK`, `AllBatchesTaken` and the action property
  `DropOnlyIfGone`.  The invariant adds that a generator that has not begun, or
  has ended, has no tasks, that tasks are aborted only after the scheduler has
  failed (`AbortInv`), and that a loop of the broadcaster has visited a leader for
  each delivery.  For the last one: the leaders that the second loop has
  passed have no live worker, and get none before the call ends (`PassedInv`).

Every safety invariant, every action property and every refinement that a passing
run checks is a theorem of its specification.  Only model-checked: liveness
(`Terminates`, `RowsReachFile`, `FailureStops`, `TimeoutEnds`, `Stops`, `TasksEnd`,
`PublishesOrEnds`, `DurationEnds`, `SchedulerLost`), which is out of the prover's
reach.  The three violated properties are refuted by TLC's counterexamples.

## 5. Where code and documentation disagree

* **Pending sends are not dumped after a timeout** (`client_exit`).  With a CSV
  file the timeout cancels the scheduler two seconds before the rest.  The
  scheduler then drops the sender of the tracker channel, `recv_many` returns 0
  and the tracker breaks without a dump (`csv_writer.rs:224-227`); what the
  flusher has not written by then gets no row, although the other branch of the
  `select!` says "dump those which are still pending".
* **Too few amounts for a batch** (`bench_amounts`).  `unique_random_numbers`
  asserts that there are as many different amounts as transfers.  The command
  line requires an amount of at least 513, one more than the greatest number of
  streams, but not that it is at least the product with the number of transfers
  per transaction.  With two of them, which a test of `cli.rs` uses together with
  513, a client with a large stake has the blocking task behind every batch panic;
  the task of the pool only warns ("Failed to generate transfer txs batch!"), and
  the generator spins to the end of the duration without sending anything.
* **Validation accepts too low a balance** (`accounts_validate`):
  `validate_payers` multiplies lamports by `LAMPORTS_PER_SOL`.

Met on the way, and not stated by any document: the first batch of accounts has 65
transactions, since `calculate_batch_size` adds one to `MAX_RPC_SEND_TX_BATCH`; a
run without payers panics in the generator, and `run_client` ends well.

## 6. What the assumptions hide

* `LeaderHasWorker` excepts what the code does not rule out.  The leader may advance
  by more than one turn between the two calls of `next_leaders`.  And the
  connections may all be taken: the program does not check that
  `num_max_open_connections` is at least the number of leaders connected to (its
  tests run with one connection and two leaders), and a returning leader whose old
  worker is the least recently used can lose it to the next one that is ensured,
  if the look-up does not count as a use.  A leader skipped for these reasons
  leaves no trace in the record.
* `FundsSuffice` measures what unconfirmed accounts and failed transactions cost; the
  code does not check the balance again, so that a retry after them may lack funds.
* `Stops` excepts one case: when no endpoint can be set up, the updater is dropped
  without `stop`, and the service of the legacy one, which was not given the token,
  goes on until the process ends.
* `ScanComplete` and `ReportingSpec` hold for a clock that does not run backwards;
  the code uses wall time.
* After an I/O error the writer task is gone and the others lose their rows: the
  ledger then is `broken`, and `FileComplete` and `CsvClosed` except it.
* Memory is not bounded by anything in the code where channels are unbounded.

## 7. Not modelled

The conversion of records to text, memo formatting and parsing, the
classification of transactions (jito tips, AMM programs), signing and
serialisation, the parsing of command lines and metrics have no control the
properties depend on.  The transactions-per-block writer is not called by
anything, and the main of `rate-latency-tool` only calls what is modelled.  What
belongs to the libraries (workers, leader services, RPC client, tokio) is modelled
only where the code above is seen to depend on it.

## 8. Plan

Done, in this order: `CsvWriter` with its proofs, `RateClient` on top of it,
`RateScheduler`, `SlotRecorder` with `TxTicks`, `BlockhashUpdater` and
`AccountsCreator` with proofs, `Broadcaster` and `BenchClient`; then `Reporting`
and the refinement, `LeaderUpdater`, `TransferGenerator` and `BenchProgram`, and
the proofs about the client, the scheduler and the two bench modules; then those
about `TxTicks`, `SlotRecorder`, the generator, the leaders of the scheduler and
the dropped batches.

Left:

1. `SlotRecorder` in place of the `LandRecord` environment of `CsvWriter`, so that
   several slots and the real tasks meet the block task.
2. `TransferGenerator` behind the channel of `BenchClient`, in place of its
   counts, and the pool of `BenchClient` as a refinement of it.
3. The safety part of the liveness properties as theorems: what a task waits for
   when it waits (for instance that a full channel always has a receiver).
