---------------------------- MODULE BenchProgram ----------------------------
(***************************************************************************)
(* transaction-bench/src/main.rs, run: the commands.  WriteAccounts        *)
(* creates payers and saves them, Run creates them and goes on to          *)
(* run_client, ReadAccountsRun takes them from the file of an earlier      *)
(* program.  Of run_client only what the generator makes of the payers is  *)
(* in this module; BenchClient has its tasks and channels.                 *)
(***************************************************************************)
EXTENDS AccountsCreator, Sequences

CONSTANTS MaxUnstaked, MinStaked, MaxStaked, TotalStaked, DefaultStreams, Votes,
          Instructions, Lamports, CuBudget, CuCost, PoolSize, MaxBatches

ASSUME StreamsAssumption ==
    /\ MaxUnstaked \in Nat \ {0} /\ DefaultStreams \in Nat \ {0}
    /\ MinStaked \in Nat \ {0} /\ MaxStaked \in Nat /\ TotalStaked \in Nat
    /\ MinStaked <= MaxStaked /\ MaxStaked <= TotalStaked
ASSUME VotesAssumption == Votes \subseteq Seq(Nat)
ASSUME TransferAssumption ==
    /\ Instructions \in Nat /\ Lamports \in Nat
    /\ CuBudget \in Nat /\ CuCost \in Nat
    /\ PoolSize \in Nat \ {0} /\ MaxBatches \in Nat

VARIABLES
    command,   \* the command of the program that runs
    file,      \* number of keys in the accounts file, or why there are none
    before,    \* history: what it held before the first program
    gen, payers, streams, index_payer, begun, building, done, uses, failed

Transfers == INSTANCE TransferGenerator

runVars == <<payers, streams, index_payer, begun, building, done, uses, failed>>
genVars == <<gen, runVars>>

programVars == <<vars, command, file, before, genVars>>

NoFile  == -1
Garbled == -2   \* truncated, or not an accounts file

ProgramTypeOK ==
    /\ TypeOK
    /\ command \in {"run", "write", "read"}
    /\ file \in {NoFile, Garbled} \cup Nat /\ before \in {NoFile, Garbled} \cup Nat
    /\ Transfers!GenTypeOK

\* A file of an earlier program may be there; one without payers is valid.
ProgramInit ==
    /\ Init
    /\ command = IF opts.persist THEN "write" ELSE "run"
    /\ before \in {NoFile, Garbled, 0, 1} /\ file = before
    /\ Transfers!Init

-----------------------------------------------------------------------------
\* The keys write_accounts_file has put in the file.
Written == kept'

\* As Create, but the file is opened when the program starts.
CreateEarly ==
    /\ command # "read" /\ gen = "none"
    /\ Next
    /\ file' = CASE command = "write" /\ result' = "ok" -> Written
                 [] command = "write" /\ result' # "ok" -> Garbled
                 [] OTHER                               -> file
    /\ UNCHANGED <<command, before, genVars>>

\* The accounts are created; what is then done with them is up to the command.
\* File::create truncates a file that is there before anything is written.
Create ==
    /\ command # "read" /\ gen = "none"
    /\ Next
    /\ CASE command = "write" /\ result' = "ok" -> file' = Written
         [] command = "write" /\ FileFails      -> file' \in {file, Garbled}
         [] OTHER                               -> file' = file
    /\ UNCHANGED <<command, before, genVars>>

Run ==
    /\ command = "run" /\ result = "ok"
    /\ Transfers!CallWith(kept)
    /\ UNCHANGED <<vars, command, file, before>>

\* The program has ended.
Over ==
    \/ gen \in {"ok", "err", "panic"}
    \/ command = "write" /\ pc = "ended"
    \/ command = "run" /\ result \notin {"none", "ok"}

\* Another program is started to run with the accounts of the file.
StartRead ==
    /\ Over /\ command # "read"
    /\ command' = "read"
    /\ gen' = "none" /\ payers' = 0 /\ streams' = 0 /\ index_payer' = 0
    /\ begun' = 0 /\ building' = {} /\ done' = 0
    /\ uses' = [p \in {} |-> 0] /\ failed' = 0
    /\ UNCHANGED <<vars, file, before>>

\* read_accounts_file: panics if there is nothing that can be read.
ReadAccounts ==
    /\ command = "read" /\ gen = "none"
    /\ IF file \in Nat
       THEN Transfers!CallWith(file)
       ELSE /\ gen' = "panic"
            /\ UNCHANGED runVars
    /\ UNCHANGED <<vars, command, file, before>>

Generate == Transfers!Next /\ UNCHANGED <<vars, command, file, before>>

ProgramNext == Create \/ Run \/ StartRead \/ ReadAccounts \/ Generate

ProgramSpec == ProgramInit /\ [][ProgramNext]_programVars

\* Requests return, sleeps end and tasks build.
ProgramFairSpec == ProgramSpec /\ WF_programVars(ProgramNext)

-----------------------------------------------------------------------------
(* Properties. *)

PayersBalanced == Transfers!PayersBalanced

AssertionHolds == Transfers!AssertionHolds

\* What a program reads from the accounts file after another one has written
\* it, or was to: as many payers as were asked for if that ended without an
\* error, and else what the file held before, unless it was the writing of the
\* file that failed.
FileServes ==
    command = "read" /\ gen # "none" =>
        LET expected == IF opts.persist /\ result = "ok" THEN NumPayers ELSE before
        IN  \/ IF expected \in Nat THEN payers = expected ELSE gen = "panic"
            \/ opts.persist /\ result = "panic" /\ created = NumPayers

=============================================================================
