--------------------------- MODULE AccountsCreator ---------------------------
(***************************************************************************)
(* tools-common/src/accounts_creator.rs and accounts_file.rs: the payer    *)
(* accounts are paid for, created batch by batch through the RPC node,     *)
(* validated and written to a file.                                        *)
(*                                                                         *)
(* Every RPC request may fail, and a transaction may land though           *)
(* send_and_confirm_transaction returns an error, with its account created *)
(* or with an error of its own that costs no more than the fee.  Keypairs  *)
(* count only by their number; balances are in lamports.                   *)
(***************************************************************************)
EXTENDS Integers

CONSTANTS
    NumPayers,       \* num_payers
    MaxBatch,        \* MAX_RPC_SEND_TX_BATCH
    MaxFailed,       \* MAX_CONTINUOUS_FAILED_ATTEMPTS
    PayerBalance,    \* payer_account_balance_lamports
    Fee,             \* the fee of a transaction that creates an account
    LamportsPerSol,  \* LAMPORTS_PER_SOL
    StartFunds,      \* the balances the authority may have
    Balances         \* the balances the RPC node may report of a payer

ASSUME NumPayersAssumption == NumPayers \in Nat
ASSUME BatchAssumption == MaxBatch \in Nat \ {0} /\ MaxFailed \in Nat
ASSUME BalanceAssumption ==
    /\ PayerBalance \in Nat /\ Fee \in Nat /\ LamportsPerSol \in Nat
    /\ StartFunds \subseteq Nat /\ Balances \subseteq Nat

VARIABLES
    opts,      \* validate_accounts, and whether the accounts go to a file
    pc,        \* where the program is
    funds,     \* the authority's balance
    created,   \* accounts whose creation was confirmed
    lost,      \* accounts that were created but not confirmed
    burnt,     \* transactions that have landed with an error
    attempts,  \* num_send_batch_attempts
    failures,  \* num_continuous_failed_attempts
    batch,     \* size of the batch being sent
    checked,   \* payers validated
    low,       \* one of them had less than the balance asked for
    dumped,    \* keys in the dump of partial results
    kept,      \* keys returned, or in the accounts file
    result     \* what the program ends with

loopVars == <<created, lost, burnt, attempts, failures, batch>>
endVars  == <<checked, low, dumped, kept>>
vars == <<opts, pc, funds, loopVars, endVars, result>>

TypeOK ==
    /\ opts \in [validate: BOOLEAN, persist: BOOLEAN]
    /\ pc \in {"fee", "balance", "airdrop", "recheck", "loop", "send", "made",
               "validate", "ended"}
    /\ funds \in Nat /\ lost \in Nat /\ burnt \in Nat /\ attempts \in Nat
    /\ created \in 0 .. NumPayers
    /\ failures \in 0 .. MaxFailed
    /\ batch \in 0 .. NumPayers
    /\ checked \in 0 .. created /\ low \in BOOLEAN
    /\ dumped \in 0 .. created /\ kept \in 0 .. created
    /\ result \in {"none", "ok", "client_error", "airdrop_failure",
                   "create_failure", "validation_failure", "panic"}

Init ==
    /\ opts \in [validate: BOOLEAN, persist: BOOLEAN]
    /\ pc = "fee"
    /\ funds \in StartFunds
    /\ created = 0 /\ lost = 0 /\ burnt = 0 /\ attempts = 0 /\ failures = 0 /\ batch = 0
    /\ checked = 0 /\ low = FALSE /\ dumped = 0 /\ kept = 0
    /\ result = "none"

End(r) == pc' = "ended" /\ result' = r

Minimum(a, b) == IF a < b THEN a ELSE b

-----------------------------------------------------------------------------
(* ensure_authority_balance *)

\* min_balance_to_create_account, and that for all payers.
MinBalance == Fee + PayerBalance
RequiredBalance == NumPayers * MinBalance

\* A request whose error is passed on with `?`.
RpcFails ==
    /\ pc \in {"fee", "balance", "airdrop", "recheck", "validate"}
    /\ End("client_error")
    /\ UNCHANGED <<opts, funds, loopVars, endVars>>

RequestFee ==
    /\ pc = "fee"
    /\ pc' = "balance"
    /\ UNCHANGED <<opts, funds, loopVars, endVars, result>>

GetBalance ==
    /\ pc = "balance"
    /\ pc' = IF funds >= RequiredBalance THEN "loop" ELSE "airdrop"
    /\ UNCHANGED <<opts, funds, loopVars, endVars, result>>

\* The airdrop of what is missing.  Whether it was confirmed is not looked
\* at, only the balance is.
Airdrop ==
    /\ pc = "airdrop"
    /\ pc' = "recheck"
    /\ funds' \in {funds, RequiredBalance}
    /\ UNCHANGED <<opts, loopVars, endVars, result>>

\* As Recheck, but the balance is taken to be there.
RecheckNot ==
    /\ pc = "recheck"
    /\ pc' = "loop"
    /\ UNCHANGED <<opts, funds, loopVars, endVars, result>>

Recheck ==
    /\ pc = "recheck"
    /\ IF funds < RequiredBalance
       THEN End("airdrop_failure")
       ELSE pc' = "loop" /\ UNCHANGED result
    /\ UNCHANGED <<opts, funds, loopVars, endVars>>

-----------------------------------------------------------------------------
(* create_accounts *)

\* Mean number of accounts an attempt has created.
MeanSuccess ==
    IF attempts = 0 THEN Minimum(NumPayers, MaxBatch) ELSE created \div attempts

\* As BatchSize, but what is left to create is not looked at.
BatchSizeOver == Minimum(MeanSuccess + 1, NumPayers)

\* calculate_batch_size
BatchSize == Minimum(MeanSuccess + 1, NumPayers - created)

InLoop == pc = "loop" /\ created < NumPayers /\ failures < MaxFailed

NoBlockhash ==
    /\ InLoop
    /\ failures' = failures + 1
    /\ UNCHANGED <<opts, pc, funds, created, lost, burnt, attempts, batch, endVars, result>>

PrepareBatch ==
    /\ InLoop
    /\ pc' = "send" /\ batch' = BatchSize
    /\ UNCHANGED <<opts, funds, created, lost, burnt, attempts, failures, endVars, result>>

\* num_continuous_failed_attempts after an attempt that created n accounts.
Failures(n) == IF n = 0 THEN failures + 1 ELSE 0

\* Of the batch, n accounts are created and confirmed, m more are created
\* though an error came back, and k transactions land with an error.
Lands(n, m, k) ==
    /\ n + m + k <= batch
    /\ (n + m) * MinBalance + k * Fee <= funds
    /\ funds' = funds - ((n + m) * MinBalance + k * Fee)
    /\ created' = created + n /\ lost' = lost + m /\ burnt' = burnt + k

\* As SendBatch, but an attempt that created no account is not counted.
SendBatchForgiven(n, m, k) ==
    /\ pc = "send"
    /\ Lands(n, m, k)
    /\ pc' = "loop"
    /\ IF n = 0 THEN UNCHANGED <<attempts, failures>>
                ELSE attempts' = attempts + 1 /\ failures' = 0
    /\ UNCHANGED <<opts, batch, endVars, result>>

\* send_transaction_batch: only those confirmed count as created.
SendBatch(n, m, k) ==
    /\ pc = "send"
    /\ Lands(n, m, k)
    /\ pc' = "loop"
    /\ attempts' = attempts + 1 /\ failures' = Failures(n)
    /\ UNCHANGED <<opts, batch, endVars, result>>

-----------------------------------------------------------------------------
(* The end of create, validation and the file. *)

AllCreated ==
    /\ pc = "loop" /\ created = NumPayers
    /\ pc' = "made"
    /\ UNCHANGED <<opts, funds, loopVars, endVars, result>>

GivenUp == pc = "loop" /\ created < NumPayers /\ failures >= MaxFailed

\* Too many failures in a row: the accounts there are are saved.
GiveUp ==
    /\ GivenUp
    /\ dumped' = created
    /\ End("create_failure")
    /\ UNCHANGED <<opts, funds, loopVars, checked, low, kept>>

\* There are some, and the dump cannot be written: their keys are lost.
DumpFails ==
    /\ GivenUp /\ created > 0
    /\ End("panic")
    /\ UNCHANGED <<opts, funds, loopVars, endVars>>

StartValidation ==
    /\ pc = "made" /\ opts.validate
    /\ pc' = "validate"
    /\ UNCHANGED <<opts, funds, loopVars, endVars, result>>

\* validate_payers multiplies the balance it is told, which is in lamports.
\* (The multiplication saturates, which the comparison cannot tell.)
Insufficient(balance) == balance * LamportsPerSol < PayerBalance

ValidatePayer(balance) ==
    /\ pc = "validate" /\ checked < created
    /\ low' = (low \/ balance < PayerBalance)
    /\ IF Insufficient(balance)
       THEN End("validation_failure") /\ UNCHANGED checked
       ELSE checked' = checked + 1 /\ UNCHANGED <<pc, result>>
    /\ UNCHANGED <<opts, funds, loopVars, dumped, kept>>

\* The accounts are returned, or written to the file.
Keep ==
    /\ (pc = "made" /\ ~opts.validate) \/ (pc = "validate" /\ checked = created)
    /\ kept' = created
    /\ End("ok")
    /\ UNCHANGED <<opts, funds, loopVars, checked, low, dumped>>

\* The accounts file cannot be written.
FileFails ==
    /\ opts.persist
    /\ (pc = "made" /\ ~opts.validate) \/ (pc = "validate" /\ checked = created)
    /\ End("panic")
    /\ UNCHANGED <<opts, funds, loopVars, endVars>>

-----------------------------------------------------------------------------
Next ==
    \/ RpcFails \/ RequestFee \/ GetBalance \/ Airdrop \/ Recheck
    \/ NoBlockhash \/ PrepareBatch
    \/ \E n, m, k \in 0 .. NumPayers : SendBatch(n, m, k)
    \/ AllCreated \/ GiveUp \/ DumpFails
    \/ StartValidation \/ (\E b \in Balances : ValidatePayer(b)) \/ Keep \/ FileFails

Spec == Init /\ [][Next]_vars

\* Requests return and sleeps end.
FairSpec == Spec /\ WF_vars(Next)

-----------------------------------------------------------------------------
(* Properties. *)

\* However the attempts went, the next batch has work and does not create
\* more accounts than are wanted: a batch of none would count as a failure.
BatchFits == pc = "send" => batch \in 1 .. NumPayers - created

\* The authority's balance, checked once before the loop, falls short of what is
\* still to be created by no more than was spent on accounts that nobody knows of
\* and on the fees of transactions that created none: retries after anything
\* else are paid for.
FundsSuffice ==
    pc \in {"loop", "send"} =>
        funds + lost * MinBalance + burnt * Fee >= (NumPayers - created) * MinBalance

\* The retries come to an end, also when attempts keep creating a few.
Terminates == <>(pc = "ended")

\* cli.rs:45 "Validate the created accounts number and balance.": with
\* validate_accounts no payer has less than the balance asked for.
BalancesValid == result = "ok" /\ opts.validate => ~low

=============================================================================
