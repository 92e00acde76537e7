-------------------------- MODULE TransferGenerator --------------------------
(***************************************************************************)
(* What the transaction generator of transaction-bench puts in a batch:    *)
(* how many transactions (main.rs, compute_num_streams), between which     *)
(* payers and with which amounts (generator/).                             *)
(*                                                                         *)
(* The generator gives each task of its pool the index of a payer to start *)
(* from and moves the index on by what the batch is going to use; the task *)
(* walks round the payers from there, two for every transfer.  The tasks   *)
(* build in any order.  The channel behind them is that of BenchClient.    *)
(***************************************************************************)
EXTENDS Integers, FiniteSets, Sums

CONSTANTS
    MaxUnstaked,      \* QUIC_MAX_UNSTAKED_CONCURRENT_STREAMS
    MinStaked,        \* QUIC_MIN_STAKED_CONCURRENT_STREAMS
    MaxStaked,        \* QUIC_MAX_STAKED_CONCURRENT_STREAMS
    TotalStaked,      \* QUIC_TOTAL_STAKED_CONCURRENT_STREAMS
    DefaultStreams,   \* DEFAULT_NUM_STREAMS_PER_CONNECTION
    Votes,            \* the stakes that the RPC node may report, a list each
    Instructions,     \* num_send_instructions_per_tx
    Lamports,         \* lamports_to_transfer
    CuBudget,         \* transfer_tx_cu_budget
    CuCost,           \* cost of a transfer, or of setting the budget
    PoolSize,         \* workers_pull_size
    MaxBatches        \* bound: batches begun

VARIABLES
    gen,          \* where run_client and its generator are
    payers,       \* number of payers
    streams,      \* num_streams_per_connection, the size of a batch
    index_payer,  \* the payer the next batch starts from
    begun,        \* batches given to a task
    building,     \* tasks that have not built their batch yet
    done,         \* tasks that have ended and are not joined yet
    uses,         \* how often each payer has sent or received
    failed        \* tasks that have panicked

sizeVars == <<payers, streams>>
poolVars == <<index_payer, begun, building, done>>
useVars  == <<uses, failed>>
vars == <<gen, sizeVars, poolVars, useVars>>

Task == [nth: Nat, from: Nat]

\* The length of the JoinSet.
Futures == Cardinality(building) + done

GenTypeOK ==
    /\ gen \in {"none", "setup", "start", "loop", "fill", "drain",
               "ok", "err", "panic"}
    /\ payers \in Nat /\ streams \in Nat /\ begun \in 0 .. MaxBatches
    /\ index_payer \in Nat /\ (payers # 0 => index_payer < payers)
    /\ building \subseteq Task /\ done \in Nat /\ Futures <= PoolSize
    /\ uses \in [0 .. payers - 1 -> Nat]
    /\ failed \in 0 .. begun

Init ==
    /\ gen = "none" /\ payers = 0 /\ streams = 0 /\ index_payer = 0
    /\ begun = 0 /\ building = {} /\ done = 0
    /\ uses = [p \in {} |-> 0] /\ failed = 0

\* run_client is called with n payers.
CallWith(n) ==
    /\ gen = "none"
    /\ gen' = "setup" /\ payers' = n /\ uses' = [p \in 0 .. n - 1 |-> 0]
    /\ UNCHANGED <<streams, poolVars, failed>>

-----------------------------------------------------------------------------
(* The size of a batch. *)

Clamp(n, low, high) == IF n < low THEN low ELSE IF n > high THEN high ELSE n

\* compute_max_allowed_uni_streams of a staked peer.  (The code divides in
\* floating point, which can be off by one before the clamp.)
MaxAllowedUniStreams(stake, total) ==
    IF total = 0 \/ stake > total
    THEN MinStaked
    ELSE Clamp((stake * (TotalStaked - MinStaked)) \div total + MinStaked,
               MinStaked, MaxStaked)

\* find_node_activated_stake: the total stake of the vote accounts, whichever
\* of their nodes the client has the identity of.
TotalStake(votes) == Total(votes)

\* compute_num_streams for a client without an identity, with that of a node
\* that votes, and with the default for all that fails: the request, or a
\* node that is not among those that vote.
NumStreams ==
    {MaxUnstaked, DefaultStreams}
    \cup UNION {{MaxAllowedUniStreams(votes[n], TotalStake(votes)) : n \in DOMAIN votes} :
                   votes \in Votes}

\* The keypair cannot be read, or there is no blockhash to start with.
SetUpFails ==
    /\ gen = "setup"
    /\ gen' \in {"err", "panic"}
    /\ UNCHANGED <<sizeVars, poolVars, useVars>>

SetUp ==
    /\ gen = "setup"
    /\ gen' = "start" /\ streams' \in NumStreams
    /\ UNCHANGED <<payers, poolVars, useVars>>

-----------------------------------------------------------------------------
(* The batches. *)

\* The CU budget must do for all transfers of a transaction.
Start ==
    /\ gen = "start"
    /\ gen' = IF CuBudget < CuCost + CuCost * Instructions THEN "err" ELSE "loop"
    /\ UNCHANGED <<sizeVars, poolVars, useVars>>

\* As Forward, but only one payer is counted for a transfer.
ForwardByOne == Instructions * streams

\* "p1 -> p2, p3 -> p4, etc."
Forward == 2 * Instructions * streams

\* The head of the loop: the duration is over, the receiver of the batches is
\* gone, or the pool is filled.
TimeUp ==
    /\ gen = "loop"
    /\ gen' = "drain"
    /\ UNCHANGED <<sizeVars, poolVars, useVars>>

\* The JoinSet is dropped; what is being built may still be, but is not sent.
ReceiverDropped ==
    /\ gen = "loop"
    /\ gen' = "err"
    /\ UNCHANGED <<sizeVars, poolVars, useVars>>

Refill ==
    /\ gen = "loop" /\ begun + PoolSize - Futures <= MaxBatches
    /\ gen' = "fill"
    /\ UNCHANGED <<sizeVars, poolVars, useVars>>

\* A task is spawned.  Without payers the index is then taken modulo zero,
\* and the panic drops the JoinSet with its tasks.
SpawnBatch ==
    /\ gen = "fill" /\ Futures < PoolSize
    /\ IF payers = 0
       THEN gen' = "panic" /\ building' = {} /\ UNCHANGED <<index_payer, begun>>
       ELSE /\ begun' = begun + 1
            /\ building' = building \cup {[nth |-> begun', from |-> index_payer]}
            /\ index_payer' = (index_payer + Forward) % payers
            /\ UNCHANGED gen
    /\ UNCHANGED <<sizeVars, done, useVars>>

\* One task is joined; that it may have panicked is not looked at.
JoinOne ==
    /\ gen = "fill" /\ Futures = PoolSize /\ done > 0
    /\ gen' = "loop" /\ done' = done - 1
    /\ UNCHANGED <<sizeVars, index_payer, begun, building, useVars>>

\* unique_random_numbers: all transfers of a batch have different amounts.
EnoughAmounts == Instructions * streams <= Lamports

\* A transaction has a transfer, and an amount for it, even if the number of
\* instructions is zero.
Builds == EnoughAmounts /\ Instructions > 0

\* How often a walk round the payers from the given one meets payer p.
Met(from, p) ==
    Cardinality({k \in 0 .. 2 * Instructions * streams - 1 :
                    (from + k) % payers = p})

\* A task builds its batch, or panics, which is only logged.
BuildBatch(task) ==
    /\ building' = building \ {task} /\ done' = done + 1
    /\ IF Builds
       THEN uses' = [p \in DOMAIN uses |-> uses[p] + Met(task.from, p)]
                /\ UNCHANGED failed
       ELSE failed' = failed + 1 /\ UNCHANGED uses
    /\ UNCHANGED <<gen, sizeVars, index_payer, begun>>

\* All tasks are joined.
Drained ==
    /\ gen = "drain" /\ building = {}
    /\ gen' = "ok" /\ done' = 0
    /\ UNCHANGED <<sizeVars, index_payer, begun, building, useVars>>

Next ==
    \/ SetUpFails \/ SetUp \/ Start
    \/ TimeUp \/ ReceiverDropped \/ Refill \/ SpawnBatch \/ JoinOne \/ Drained
    \/ \E task \in building : BuildBatch(task)

-----------------------------------------------------------------------------
(* Properties. *)

\* The payers take turns: when all batches that were begun are built, in
\* whatever order, no payer has been used more than once more often than
\* another, so that a transaction depends on another as late as possible.
\* The step of the index and the walk of a batch are computed in two places.
PayersBalanced ==
    building = {} /\ failed = 0 =>
        \A p, q \in DOMAIN uses : uses[p] <= uses[q] + 1

\* simple_transfers_generator.rs:56 asserts that there are as many amounts as
\* transfers: no task panics.
AssertionHolds == failed = 0

=============================================================================
