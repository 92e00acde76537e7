------------------------- MODULE BenchProgramProofs -------------------------
(***************************************************************************)
(* Proofs about the programs of transaction-bench, in three parts: the     *)
(* accounts creator, for any number of payers and all limits; the commands *)
(* that run it unchanged, so that the accounts one program has saved are   *)
(* those that the next one runs with; and the generator, whose batches use *)
(* the payers in turn in whatever order they are built.                    *)
(* PoolInv, IndexInv and UsesInv below hold of the generator on its way;   *)
(* what is proved about the walk of one batch is stated of numbers.        *)
(***************************************************************************)
EXTENDS BenchProgram, TxTicksProofs

-----------------------------------------------------------------------------
(* The accounts creator. *)

\* A batch is being sent only within the loop's condition.
SendInv == pc = "send" => created < NumPayers /\ failures < MaxFailed

\* create() goes on to validation with all the payers.
MadeInv == pc \in {"made", "validate"} => created = NumPayers

\* A program that ends without an error keeps a key for every payer.
KeptInv == result = "ok" => kept = NumPayers

\* The program has a result when it has ended.
EndInv == (result = "none") <=> (pc # "ended")

IInv == TypeOK /\ BatchFits /\ FundsSuffice /\ KeptInv /\ SendInv /\ MadeInv /\ EndInv

-----------------------------------------------------------------------------
\* calculate_batch_size returns at least one and at most what is missing.
LEMMA BatchSizeFits ==
  ASSUME TypeOK, created < NumPayers
  PROVE  BatchSize \in 1 .. NumPayers - created
<1>1. MeanSuccess \in Nat
  <2>1. CASE attempts = 0
    BY <2>1, NumPayersAssumption, BatchAssumption DEF MeanSuccess, Minimum
  <2>2. CASE attempts # 0
    <3>1. attempts \in Nat \ {0} /\ created \in Nat
      BY <2>2, NumPayersAssumption DEF TypeOK
    <3>2. created \div attempts \in Nat
      BY <3>1, SMT
    <3> QED
      BY <2>2, <3>2 DEF MeanSuccess
  <2> QED
    BY <2>1, <2>2
<1> QED
  BY <1>1, NumPayersAssumption DEF BatchSize, Minimum, TypeOK

\* The initial states satisfy the inductive invariant.
LEMMA InitInv == Init => IInv
<1> SUFFICES ASSUME Init PROVE IInv
  OBVIOUS
<1>1. TypeOK
  <2>1. created = 0 /\ checked = 0 /\ dumped = 0 /\ kept = 0
    BY DEF Init
  <2>2. low \in BOOLEAN
    BY DEF Init
  <2>3. funds \in Nat
    BY BalanceAssumption DEF Init
  <2> QED
    BY <2>1, <2>2, <2>3, NumPayersAssumption, BatchAssumption DEF Init, TypeOK
<1>2. BatchFits /\ FundsSuffice /\ KeptInv /\ SendInv /\ MadeInv /\ EndInv
  BY DEF Init, BatchFits, FundsSuffice, KeptInv, SendInv, MadeInv, EndInv
<1> QED
  BY <1>1, <1>2 DEF Init, IInv

\* What an account costs, and all of them.
LEMMA CostType == MinBalance \in Nat /\ RequiredBalance \in Nat
  BY NumPayersAssumption, BalanceAssumption DEF MinBalance, RequiredBalance

\* What remains of a sum that is taken from a product of two terms.
LEMMA Spread ==
  ASSUME NEW c \in Nat, NEW a \in Int, NEW b \in Int
  PROVE  a * c \in Int /\ (a + b) * c = a * c + b * c /\ (a - b) * c = a * c - b * c
OBVIOUS

\* The steps before the loop keep it.
LEMMA BalanceStep ==
  ASSUME IInv, RpcFails \/ RequestFee \/ GetBalance \/ Airdrop \/ Recheck
  PROVE  IInv'
<1> USE NumPayersAssumption, BatchAssumption, CostType
    DEF IInv, TypeOK, BatchFits, KeptInv, SendInv, MadeInv, EndInv,
        loopVars, endVars
<1>1. pc' \in {"loop", "send"} => funds' = funds /\ funds >= RequiredBalance
  BY DEF RpcFails, RequestFee, GetBalance, Airdrop, Recheck, End
<1>2. UNCHANGED loopVars
  BY DEF RpcFails, RequestFee, GetBalance, Airdrop, Recheck
<1>3. FundsSuffice'
  <2> SUFFICES ASSUME pc' \in {"loop", "send"}
               PROVE  funds' + lost' * MinBalance + burnt' * Fee
                        >= (NumPayers - created') * MinBalance
    BY DEF FundsSuffice
  <2>1. /\ lost * MinBalance \in Nat /\ burnt * Fee \in Nat
        /\ created * MinBalance \in Nat
    BY BalanceAssumption
  <2>2. (NumPayers - created) * MinBalance = RequiredBalance - created * MinBalance
    BY Spread DEF RequiredBalance
  <2> QED
    BY <1>1, <1>2, <2>1, <2>2
<1>4. CASE RpcFails
  BY <1>3, <1>4 DEF RpcFails, End
<1>5. CASE RequestFee
  BY <1>3, <1>5 DEF RequestFee
<1>6. CASE GetBalance
  BY <1>3, <1>6 DEF GetBalance
<1>7. CASE Airdrop
  BY <1>3, <1>7 DEF Airdrop
<1>8. CASE Recheck
  BY <1>3, <1>8 DEF Recheck, End
<1> QED
  BY <1>4, <1>5, <1>6, <1>7, <1>8

\* However a batch has landed, what was spent is accounted for.
LEMMA LandsKeeps ==
  ASSUME TypeOK, FundsSuffice, pc \in {"loop", "send"},
         NEW n \in Nat, NEW m \in Nat, NEW k \in Nat, Lands(n, m, k)
  PROVE  FundsSuffice' /\ funds' \in Nat /\ lost' \in Nat /\ burnt' \in Nat
<1>1. /\ funds \in Nat /\ lost \in Nat /\ burnt \in Nat /\ created \in Nat
      /\ NumPayers \in Nat /\ MinBalance \in Nat /\ Fee \in Nat
  BY NumPayersAssumption, BalanceAssumption, CostType DEF TypeOK
<1> DEFINE of(a) == a * MinBalance
           fee(a) == a * Fee
<1>2. /\ of(n + m) = of(n) + of(m) /\ of(lost + m) = of(lost) + of(m)
      /\ of(NumPayers - (created + n)) = of(NumPayers - created) - of(n)
      /\ fee(burnt + k) = fee(burnt) + fee(k)
  <2>1. NumPayers - (created + n) = (NumPayers - created) - n
    BY <1>1
  <2> QED
    BY <1>1, <2>1, Spread
<1>3. /\ of(n) \in Int /\ of(m) \in Int /\ of(lost) \in Int
      /\ of(NumPayers - created) \in Int /\ fee(burnt) \in Int /\ fee(k) \in Int
  BY <1>1, Spread
<1>4. /\ of(n + m) + fee(k) <= funds /\ funds' = funds - (of(n + m) + fee(k))
      /\ created' = created + n /\ lost' = lost + m /\ burnt' = burnt + k
  BY DEF Lands
<1>5. funds + of(lost) + fee(burnt) >= of(NumPayers - created)
  BY DEF FundsSuffice
<1> HIDE DEF of, fee
<1>6. funds' + of(lost') + fee(burnt') >= of(NumPayers - created')
  BY <1>1, <1>2, <1>3, <1>4, <1>5
<1>7. FundsSuffice'
  BY <1>6 DEF FundsSuffice, of, fee
<1> QED
  BY <1>1, <1>2, <1>3, <1>4, <1>7

\* The steps of the loop keep it.
LEMMA LoopStep ==
  ASSUME IInv,
         \/ NoBlockhash \/ PrepareBatch
         \/ \E n, m, k \in 0 .. NumPayers : SendBatch(n, m, k)
  PROVE  IInv'
<1> USE NumPayersAssumption, BatchAssumption
    DEF IInv, TypeOK, BatchFits, KeptInv, SendInv, MadeInv, EndInv,
        loopVars, endVars
<1>1. CASE NoBlockhash
  <2>1. FundsSuffice'
    BY <1>1 DEF NoBlockhash, InLoop, FundsSuffice
  <2> QED
    BY <1>1, <2>1 DEF NoBlockhash, InLoop
<1>2. CASE PrepareBatch
  <2>1. BatchSize \in 1 .. NumPayers - created
    BY <1>2, BatchSizeFits DEF PrepareBatch, InLoop
  <2>2. FundsSuffice'
    BY <1>2 DEF PrepareBatch, InLoop, FundsSuffice
  <2> QED
    BY <1>2, <2>1, <2>2 DEF PrepareBatch, InLoop
<1>3. CASE \E n, m, k \in 0 .. NumPayers : SendBatch(n, m, k)
  <2>1. PICK n \in 0 .. NumPayers, m \in 0 .. NumPayers, k \in 0 .. NumPayers :
           SendBatch(n, m, k)
    BY <1>3
  <2>2. Failures(n) \in 0 .. MaxFailed
    BY <2>1 DEF SendBatch, Failures
  <2>3. FundsSuffice' /\ funds' \in Nat /\ lost' \in Nat /\ burnt' \in Nat
    BY <2>1, LandsKeeps DEF SendBatch
  <2>4. n + m + k <= batch /\ created' = created + n
    BY <2>1 DEF SendBatch, Lands
  <2>5. created' \in 0 .. NumPayers /\ created <= created'
    BY <2>1, <2>4 DEF SendBatch
  <2> QED
    BY <2>1, <2>2, <2>3, <2>5 DEF SendBatch
<1> QED
  BY <1>1, <1>2, <1>3

\* The steps after the loop keep it.
LEMMA EndStep ==
  ASSUME IInv,
         \/ AllCreated \/ GiveUp \/ DumpFails \/ StartValidation \/ Keep \/ FileFails
         \/ \E b \in Balances : ValidatePayer(b)
  PROVE  IInv'
<1> USE NumPayersAssumption, BatchAssumption
    DEF IInv, TypeOK, BatchFits, KeptInv, SendInv, MadeInv, EndInv,
        loopVars, endVars
<1>0. FundsSuffice'
  BY DEF AllCreated, GiveUp, DumpFails, StartValidation, Keep, FileFails,
         ValidatePayer, End, FundsSuffice
<1> USE <1>0
<1>1. CASE AllCreated
  BY <1>1 DEF AllCreated
<1>2. CASE GiveUp
  BY <1>2 DEF GiveUp, End
<1>3. CASE DumpFails
  BY <1>3 DEF DumpFails, End
<1>4. CASE StartValidation
  BY <1>4 DEF StartValidation
<1>5. CASE Keep
  BY <1>5 DEF Keep, End
<1>6. CASE FileFails
  BY <1>6 DEF FileFails, End
<1>7. CASE \E b \in Balances : ValidatePayer(b)
  <2>1. PICK b \in Balances : ValidatePayer(b)
    BY <1>7
  <2>2. low' \in BOOLEAN
    BY <2>1 DEF ValidatePayer
  <2> QED
    BY <2>1, <2>2 DEF ValidatePayer, End
<1> QED
  BY <1>1, <1>2, <1>3, <1>4, <1>5, <1>6, <1>7

\* The inductive invariant holds in every reachable state.
THEOREM Invariance == Spec => []IInv
<1>1. IInv /\ [Next]_vars => IInv'
  <2> SUFFICES ASSUME IInv, [Next]_vars PROVE IInv'
    OBVIOUS
  <2>1. CASE Next
    BY <2>1, BalanceStep, LoopStep, EndStep DEF Next
  <2>2. CASE UNCHANGED vars
    BY <2>2 DEF vars, loopVars, endVars, IInv, TypeOK, BatchFits, FundsSuffice,
                KeptInv, SendInv, MadeInv, EndInv
  <2> QED
    BY <2>1, <2>2
<1> QED
  BY <1>1, InitInv, PTL DEF Spec

\* Whatever the attempts have returned, the next batch has at least one
\* account and no more than are missing.
THEOREM BatchFitsCorrect == Spec => []BatchFits
  BY Invariance, PTL DEF IInv

\* For any balance, fee and number of payers, and however the batches land: what
\* the authority had before the loop falls short of what is still to be created by
\* no more than the accounts nobody knows of and the fees of those that failed.
THEOREM FundsSufficeCorrect == Spec => []FundsSuffice
  BY Invariance, PTL DEF IInv

\* The types of the variables.
THEOREM TypeCorrect == Spec => []TypeOK
  BY Invariance, PTL DEF IInv

-----------------------------------------------------------------------------
(* The commands. *)

\* Until an accounts file is read, the command says whether one is written.
CommandInv == command # "read" => (opts.persist <=> command = "write")

\* A file that was written without an error has the keys of all payers; any
\* other end, but for a failure to write it, leaves it as it was.
FileInv ==
    /\ opts.persist /\ result = "ok" => file = NumPayers
    /\ ~(opts.persist /\ result = "ok") =>
          \/ file = before
          \/ opts.persist /\ result = "panic" /\ created = NumPayers

\* A program that has read the file runs with its keys.
ServeInv ==
    command = "read" /\ gen # "none" =>
        IF file \in Nat THEN payers = file ELSE gen = "panic"

ProgramInv == IInv /\ CommandInv /\ FileInv /\ ServeInv

-----------------------------------------------------------------------------
\* A step of the accounts creator is one of a program that has not ended, and
\* leaves the options as they are.
LEMMA CreatorGoesOn == Next => pc # "ended" /\ opts' = opts
<1> SUFFICES ASSUME Next PROVE pc # "ended" /\ opts' = opts
  OBVIOUS
<1>1. CASE RpcFails \/ RequestFee \/ GetBalance \/ Airdrop \/ Recheck
  BY <1>1 DEF RpcFails, RequestFee, GetBalance, Airdrop, Recheck
<1>2. CASE NoBlockhash \/ PrepareBatch \/ AllCreated \/ GiveUp \/ DumpFails
  BY <1>2 DEF NoBlockhash, PrepareBatch, AllCreated, GiveUp, DumpFails, GivenUp, InLoop
<1>3. CASE \E n, m, k \in 0 .. NumPayers : SendBatch(n, m, k)
  BY <1>3 DEF SendBatch
<1>4. CASE StartValidation \/ Keep \/ FileFails
  BY <1>4 DEF StartValidation, Keep, FileFails
<1>5. CASE \E b \in Balances : ValidatePayer(b)
  BY <1>5 DEF ValidatePayer
<1> QED
  BY <1>1, <1>2, <1>3, <1>4, <1>5 DEF Next

\* A step of the generator leaves the payers as they are, and it does not start one.
LEMMA GeneratorKeepsPayers ==
  Transfers!Next =>
    payers' = payers /\ (gen \in {"none", "panic"} => gen' = gen)
<1> SUFFICES ASSUME Transfers!Next
             PROVE  payers' = payers /\ (gen \in {"none", "panic"} => gen' = gen)
  OBVIOUS
<1> USE DEF Transfers!sizeVars
<1>1. CASE Transfers!SetUpFails \/ Transfers!SetUp \/ Transfers!Start
  BY <1>1 DEF Transfers!SetUpFails, Transfers!SetUp, Transfers!Start
<1>2. CASE Transfers!TimeUp \/ Transfers!ReceiverDropped \/ Transfers!Refill
             \/ Transfers!JoinOne \/ Transfers!Drained
  BY <1>2 DEF Transfers!TimeUp, Transfers!ReceiverDropped, Transfers!Refill,
              Transfers!JoinOne, Transfers!Drained
<1>3. CASE Transfers!SpawnBatch
  BY <1>3 DEF Transfers!SpawnBatch
<1>4. CASE \E task \in building : Transfers!BuildBatch(task)
  BY <1>4 DEF Transfers!BuildBatch
<1> QED
  BY <1>1, <1>2, <1>3, <1>4 DEF Transfers!Next

\* Each step of a program is one of the accounts creator or leaves it alone.
LEMMA ProgramStep == [ProgramNext]_programVars => [Next]_vars
  BY DEF ProgramNext, Create, Run, StartRead, ReadAccounts, Generate, programVars

\* The invariant holds when the first program starts.
LEMMA ProgramInitInv == ProgramInit => ProgramInv
  BY InitInv DEF ProgramInit, ProgramInv, CommandInv, FileInv, ServeInv, Init

\* Every step of a program, and the start of the next one, keeps it.
LEMMA ProgramKeepsInv == ProgramInv /\ [ProgramNext]_programVars => ProgramInv'
<1> SUFFICES ASSUME ProgramInv, [ProgramNext]_programVars PROVE ProgramInv'
  OBVIOUS
<1>1. IInv'
  <2>1. [Next]_vars
    BY ProgramStep
  <2>2. CASE Next
    BY <2>2, BalanceStep, LoopStep, EndStep DEF Next, ProgramInv
  <2>3. CASE UNCHANGED vars
    BY <2>3 DEF vars, loopVars, endVars, ProgramInv, IInv, TypeOK, BatchFits,
                FundsSuffice, KeptInv, SendInv, MadeInv, EndInv
  <2> QED
    BY <2>1, <2>2, <2>3
<1> USE DEF ProgramInv, CommandInv, FileInv, ServeInv
<1>2. CASE Create
  <2>1. opts' = opts /\ result = "none"
    BY <1>2, CreatorGoesOn DEF Create, IInv, EndInv
  <2>2. result' = "ok" => kept' = NumPayers
    BY <1>1 DEF IInv, KeptInv
  <2>3. command # "read" /\ UNCHANGED <<command, gen, before>>
    BY <1>2 DEF Create, genVars
  <2>4. \/ command = "write" /\ result' = "ok" /\ file' = kept'
        \/ command = "write" /\ FileFails
        \/ ~(command = "write" /\ result' = "ok") /\ file' = file
    BY <1>2 DEF Create, Written
  <2>5. FileFails => result' = "panic" /\ created' = NumPayers
    BY DEF FileFails, End, loopVars, IInv, MadeInv
  <2>6. file = before
    BY <2>1
  <2> QED
    BY <1>1, <2>1, <2>2, <2>3, <2>4, <2>5, <2>6
<1>3. CASE Run
  BY <1>1, <1>3 DEF Run, vars, loopVars
<1>4. CASE StartRead
  BY <1>1, <1>4 DEF StartRead, vars, loopVars
<1>5. CASE ReadAccounts
  BY <1>1, <1>5 DEF ReadAccounts, vars, loopVars, Transfers!CallWith
<1>6. CASE Generate
  BY <1>1, <1>6, GeneratorKeepsPayers DEF Generate, vars, loopVars
<1>7. CASE UNCHANGED programVars
  BY <1>1, <1>7 DEF programVars, genVars, runVars, vars, loopVars
<1> QED
  BY <1>2, <1>3, <1>4, <1>5, <1>6, <1>7 DEF ProgramNext

-----------------------------------------------------------------------------
\* Whatever the command, the part of a program before run_client behaves as
\* the accounts creator does on its own: its theorems hold of the program.
LEMMA ImplementsCreator == ProgramSpec => Spec
<1>1. ProgramInit => Init
  BY DEF ProgramInit
<1> QED
  BY <1>1, ProgramStep, PTL DEF ProgramSpec, Spec

\* Whatever an earlier program has left in the accounts file and however the
\* requests of the one that writes it go: if that ends without an error, the
\* program that reads the file runs with as many payers as were asked for, and
\* else with what was there before, unless the writing itself has failed.
THEOREM FileServesCorrect == ProgramSpec => []FileServes
<1>1. ProgramInv => FileServes
  BY NumPayersAssumption DEF ProgramInv, FileInv, ServeInv, FileServes, NoFile, Garbled
<1> QED
  BY <1>1, ProgramInitInv, ProgramKeepsInv, PTL DEF ProgramSpec

-----------------------------------------------------------------------------
(* Walking round the payers. *)

\* Division leaves a remainder that is less than the divisor, ...
LEMMA DivMod ==
  ASSUME NEW x \in Int, NEW n \in Nat \ {0}
  PROVE  x % n \in 0 .. n - 1 /\ x \div n \in Int /\ x = n * (x \div n) + (x % n)
  BY SMT

\* ... and there is only one.
LEMMA ModIs ==
  ASSUME NEW n \in Nat \ {0}, NEW q \in Int, NEW r \in 0 .. n - 1
  PROVE  (n * q + r) % n = r
<1> DEFINE p == (n * q + r) \div n
           s == (n * q + r) % n
<1>1. n * q \in Int
  OBVIOUS
<1>2. p \in Int /\ s \in 0 .. n - 1 /\ n * q + r = n * p + s
  BY <1>1, DivMod
<1> HIDE DEF p, s
<1>3. n * (q - p) = s - r
  BY <1>2
<1>4. CASE q > p
  <2>1. q - p >= 1
    BY <1>2, <1>4
  <2>2. n * (q - p) >= n
    BY <1>2, <2>1
  <2> QED
    BY <1>2, <1>3, <2>2
<1>5. CASE q < p
  <2>1. q - p <= -1
    BY <1>2, <1>5
  <2>2. n * (q - p) <= -n
    BY <1>2, <2>1
  <2> QED
    BY <1>2, <1>3, <2>2
<1>6. CASE q = p
  BY <1>2, <1>3, <1>6 DEF s
<1>7. q > p \/ q < p \/ q = p
  BY <1>2
<1> QED
  BY <1>4, <1>5, <1>6, <1>7

\* A remainder can be taken before adding.
LEMMA ModAdd ==
  ASSUME NEW n \in Nat \ {0}, NEW a \in Int, NEW b \in Int
  PROVE  ((a % n) + b) % n = (a + b) % n
<1> DEFINE q == a \div n
           r == a % n
           p == (r + b) \div n
           s == (r + b) % n
<1>1. q \in Int /\ r \in 0 .. n - 1 /\ a = n * q + r
  BY DivMod
<1>2. r + b \in Int
  BY <1>1
<1> HIDE DEF r, q
<1>3. p \in Int /\ s \in 0 .. n - 1 /\ r + b = n * p + s
  BY <1>2, DivMod
<1> HIDE DEF p, s
<1>4. a + b = n * (q + p) + s
  BY <1>1, <1>3
<1>5. (n * (q + p) + s) % n = s
  BY <1>1, <1>3, ModIs
<1> QED
  BY <1>4, <1>5 DEF s, r

\* The steps of a walk over n places that meet place p.
Meets(from, to, n, p) == {k \in from .. to : k % n = p}

\* There are finitely many of them.
LEMMA MeetsFinite ==
  ASSUME NEW from \in Int, NEW to \in Int, NEW n, NEW p
  PROVE  /\ IsFiniteSet(Meets(from, to, n, p))
         /\ Cardinality(Meets(from, to, n, p)) \in Nat
<1>1. IsFiniteSet(from .. to)
  BY FS_Interval
<1>2. Meets(from, to, n, p) \subseteq from .. to
  BY DEF Meets
<1>3. IsFiniteSet(Meets(from, to, n, p))
  BY <1>1, <1>2, FS_Subset
<1> QED
  BY <1>3, FS_CardinalityType

\* A set that can be mapped into another without two elements meeting is not
\* larger.
LEMMA NotLarger ==
  ASSUME NEW S, NEW T, IsFiniteSet(T), NEW f \in [S -> T],
         \A x, y \in S : f[x] = f[y] => x = y
  PROVE  IsFiniteSet(S) /\ Cardinality(S) <= Cardinality(T)
<1>1. f \in Injection(S, T)
  BY DEF Injection, IsInjective
<1> QED
  BY <1>1, FS_Injection

\* A walk from the beginning meets each place as often as another, or once more.
LEMMA WalkFair ==
  ASSUME NEW len \in Nat, NEW n \in Nat \ {0}, NEW p \in 0 .. n - 1, NEW q \in 0 .. n - 1
  PROVE  Cardinality(Meets(0, len - 1, n, p)) <= Cardinality(Meets(0, len - 1, n, q)) + 1
<1> DEFINE P == Meets(0, len - 1, n, p)
           Q == Meets(0, len - 1, n, q)
<1>1. len - 1 \in Int
  OBVIOUS
<1>2. /\ IsFiniteSet(P) /\ Cardinality(P) \in Nat
      /\ IsFiniteSet(Q) /\ Cardinality(Q) \in Nat
  BY <1>1, MeetsFinite
<1>3. ASSUME NEW k \in P
      PROVE  k \in 0 .. len - 1 /\ \E d \in Int : k = n * d + p
  <2>1. k \in 0 .. len - 1 /\ k % n = p
    BY DEF Meets
  <2> HIDE DEF P
  <2>2. k \in Int
    BY <2>1
  <2>3. k \div n \in Int /\ k = n * (k \div n) + (k % n)
    BY <2>2, DivMod
  <2> QED
    BY <2>1, <2>3
<1>4. ASSUME NEW k \in 0 .. len - 1, NEW d \in Int, k = n * d + q
      PROVE  k \in Q
  BY <1>4, ModIs DEF Meets
<1> HIDE DEF P, Q
<1>5. CASE q <= p
  <2> DEFINE f == [k \in P |-> k - (p - q)]
  <2>1. ASSUME NEW k \in P PROVE k - (p - q) \in Q
    <3>1. PICK d \in Int : k \in 0 .. len - 1 /\ k = n * d + p
      BY <1>3
    <3>2. d >= 0
      <4> SUFFICES ASSUME d <= -1 PROVE FALSE
        OBVIOUS
      <4>1. n * d <= -n
        OBVIOUS
      <4> QED
        BY <3>1, <4>1
    <3>3. n * d >= 0 /\ n * d \in Int
      BY <3>2
    <3>4. k - (p - q) \in 0 .. len - 1 /\ k - (p - q) = n * d + q
      BY <1>5, <3>1, <3>3
    <3> QED
      BY <1>4, <3>4
  <2>2. f \in [P -> Q]
    BY <2>1
  <2>3. \A x, y \in P : f[x] = f[y] => x = y
    <3>1. \A x \in P : x \in Int
      BY <1>3
    <3> QED
      BY <3>1
  <2> HIDE DEF f
  <2>4. Cardinality(P) <= Cardinality(Q)
    BY <1>2, <2>2, <2>3, NotLarger
  <2> QED
    BY <1>2, <2>4 DEF P, Q
<1>6. CASE q > p
  <2> DEFINE R == P \ {p}
             f == [k \in R |-> k - (n - (q - p))]
  <2>1. ASSUME NEW k \in R PROVE k - (n - (q - p)) \in Q
    <3>1. PICK d \in Int : k \in 0 .. len - 1 /\ k = n * d + p
      BY <1>3
    <3>2. d >= 1
      <4>1. d # 0
        BY <3>1
      <4>2. CASE d <= -1
        <5>1. n * d <= -n
          BY <4>2
        <5> QED
          BY <3>1, <5>1
      <4> QED
        BY <4>1, <4>2
    <3>3. n * (d - 1) >= 0 /\ n * (d - 1) = n * d - n /\ n * d \in Int
      BY <3>2
    <3>4. k - (n - (q - p)) \in 0 .. len - 1 /\ k - (n - (q - p)) = n * (d - 1) + q
      BY <1>6, <3>1, <3>3
    <3>5. d - 1 \in Int
      OBVIOUS
    <3> QED
      BY <1>4, <3>4, <3>5
  <2>2. f \in [R -> Q]
    BY <2>1
  <2>3. \A x, y \in R : f[x] = f[y] => x = y
    <3>1. \A x \in R : x \in Int
      BY <1>3
    <3> QED
      BY <3>1
  <2> HIDE DEF f
  <2>4. IsFiniteSet(R) /\ Cardinality(R) <= Cardinality(Q)
    <3> HIDE DEF R
    <3> QED
      BY <1>2, <2>2, <2>3, NotLarger
  <2>5. Cardinality(R) \in {Cardinality(P), Cardinality(P) - 1}
    BY <1>2, FS_RemoveElement
  <2> HIDE DEF R
  <2>6. Cardinality(P) <= Cardinality(Q) + 1
    BY <1>2, <2>4, <2>5
  <2> QED
    BY <2>6 DEF P, Q
<1> QED
  BY <1>5, <1>6

\* Those of a walk that begins at a given place.
Walk(from, len, n, p) == {k \in 0 .. len - 1 : (from + k) % n = p}

\* A walk of a number of steps meets a place as often wherever the rounds
\* before it have ended.
LEMMA WalkFrom ==
  ASSUME NEW n \in Nat \ {0}, NEW start \in Nat, NEW len \in Nat, NEW p
  PROVE  Cardinality(Walk(start % n, len, n, p)) =
           Cardinality(Meets(start, start + len - 1, n, p))
<1> DEFINE S == Walk(start % n, len, n, p)
           T == Meets(start, start + len - 1, n, p)
           f == [k \in S |-> start + k]
           g == [k \in T |-> k - start]
<1>1. S = {k \in 0 .. len - 1 : (start + k) % n = p}
  <2>1. ASSUME NEW k \in 0 .. len - 1
        PROVE  ((start % n) + k) % n = (start + k) % n
    <3>1. start \in Int /\ k \in Int
      OBVIOUS
    <3> QED
      BY <3>1, ModAdd
  <2> QED
    BY <2>1 DEF Walk
<1>2. \A k \in S : k \in Int /\ start + k \in T
  <2>1. \A k \in S : k \in 0 .. len - 1 /\ (start + k) % n = p
    BY <1>1
  <2>2. \A k \in 0 .. len - 1 : start + k \in start .. start + len - 1
    OBVIOUS
  <2>3. T = {k \in start .. start + len - 1 : k % n = p}
    BY DEF Meets
  <2> HIDE DEF S, T
  <2>4. ASSUME NEW k \in S
        PROVE  k \in Int /\ start + k \in T
    <3> DEFINE m == start + k
    <3>1. k \in Int /\ m \in start .. start + len - 1 /\ m % n = p
      BY <2>1, <2>2
    <3> HIDE DEF m
    <3>2. m \in T
      BY <2>3, <3>1
    <3> QED
      BY <3>1, <3>2 DEF m
  <2> QED
    BY <2>4
<1>3. \A k \in T : k \in Int /\ k - start \in S
  <2>1. \A k \in T : k \in start .. start + len - 1 /\ k % n = p
    BY DEF Meets
  <2>2. \A k \in T : k - start \in 0 .. len - 1 /\ start + (k - start) = k
    BY <2>1
  <2> HIDE DEF T, S
  <2> QED
    BY <1>1, <2>1, <2>2
<1>4. IsFiniteSet(T) /\ Cardinality(T) \in Nat
  <2>1. start + len - 1 \in Int
    OBVIOUS
  <2> QED
    BY <2>1, MeetsFinite
<1> HIDE DEF S, T
<1>5. f \in [S -> T] /\ \A x, y \in S : f[x] = f[y] => x = y
  BY <1>2
<1>6. g \in [T -> S] /\ \A x, y \in T : g[x] = g[y] => x = y
  BY <1>3
<1> HIDE DEF f, g
<1>7. IsFiniteSet(S) /\ Cardinality(S) <= Cardinality(T)
  BY <1>4, <1>5, NotLarger
<1>8. Cardinality(T) <= Cardinality(S)
  BY <1>6, <1>7, NotLarger
<1>9. Cardinality(S) \in Nat
  BY <1>7, FS_CardinalityType
<1> QED
  BY <1>4, <1>7, <1>8, <1>9 DEF S, T

-----------------------------------------------------------------------------
(* The generator. *)

\* How many steps a batch makes round the payers.
Stride == Transfers!Forward

\* Those of one batch, counted from the first step of the first batch.
StepsOf(task) == (task.nth - 1) * Stride .. task.nth * Stride - 1

\* Those steps that have met payer p: all that were given out, except those of
\* the batches that are still to be built.
Taken(p) ==
    {k \in Meets(0, begun * Stride - 1, payers, p) :
        \A task \in building : k \notin StepsOf(task)}

\* The generator has not begun.
Idle ==
    /\ begun = 0 /\ building = {} /\ done = 0 /\ failed = 0 /\ index_payer = 0
    /\ uses = [p \in 0 .. payers - 1 |-> 0]

\* The tasks of the pool: each has a batch of its own, and Refill has asked for
\* no more of them than may be begun.  The generator has not begun before it
\* runs, and does not without payers.
PoolInv ==
    /\ IsFiniteSet(building)
    /\ \A t, u \in building : t.nth = u.nth => t = u
    /\ \A t \in building : t.nth \in 1 .. begun
    /\ failed + Cardinality(building) <= begun
    /\ gen = "fill" => begun + PoolSize - Transfers!Futures <= MaxBatches
    /\ gen \in {"none", "setup", "start"} => Idle
    /\ payers = 0 => begun = 0

\* A batch starts where the one begun before it is going to end.
IndexInv ==
    payers # 0 =>
        /\ index_payer = (begun * Stride) % payers
        /\ \A t \in building : t.from = ((t.nth - 1) * Stride) % payers

\* Every payer was used by the steps that have met it.
UsesInv ==
    failed = 0 =>
        \A p \in 0 .. payers - 1 : uses[p] = Cardinality(Taken(p))

GeneratorInv == Transfers!GenTypeOK /\ PoolInv /\ IndexInv /\ UsesInv

\* The generator counts its tasks with the same operator.
LEMMA SameCount == \A S : Transfers!Cardinality(S) = Cardinality(S)
  BY DEF Transfers!Cardinality, Cardinality

\* The length of the JoinSet.
LEMMA FuturesAre == Transfers!Futures = Cardinality(building) + done
  BY SameCount DEF Transfers!Futures

\* compute_num_streams gives a number, whatever the stakes are.
LEMMA StreamsType == Transfers!NumStreams \subseteq Nat
<1> USE StreamsAssumption
<1>1. ASSUME NEW x \in Int
      PROVE  Transfers!Clamp(x, MinStaked, MaxStaked) \in Nat
  BY DEF Transfers!Clamp
<1>2. ASSUME NEW votes \in Votes, NEW n \in DOMAIN votes
      PROVE  Transfers!MaxAllowedUniStreams(votes[n], Transfers!TotalStake(votes)) \in Nat
  <2>1. votes \in Seq(Nat)
    BY VotesAssumption
  <2>2. votes[n] \in Nat
    BY <2>1
  <2>3. Transfers!TotalStake(votes) = SumTo(votes, Len(votes))
    BY DEF Transfers!TotalStake, Transfers!Total, Transfers!SumTo, Transfers!Sums,
           SumTo, Sums
  <2>4. SumTo(votes, Len(votes)) \in Nat
    BY <2>1, SumsType
  <2> DEFINE total == Transfers!TotalStake(votes)
             stake == votes[n]
  <2>5. total \in Nat /\ stake \in Nat
    BY <2>2, <2>3, <2>4
  <2> HIDE DEF total, stake
  <2>6. CASE total # 0
    <3>1. stake * (TotalStaked - MinStaked) \in Int /\ total \in Nat \ {0}
      BY <2>5, <2>6
    <3>2. (stake * (TotalStaked - MinStaked)) \div total + MinStaked \in Int
      BY <3>1, DivMod
    <3>3. Transfers!MaxAllowedUniStreams(stake, total) \in Nat
      BY <1>1, <3>2 DEF Transfers!MaxAllowedUniStreams
    <3> QED
      BY <3>3 DEF total, stake
  <2>7. CASE total = 0
    <3>1. Transfers!MaxAllowedUniStreams(stake, total) \in Nat
      BY <2>7 DEF Transfers!MaxAllowedUniStreams
    <3> QED
      BY <3>1 DEF total, stake
  <2> QED
    BY <2>6, <2>7
<1> QED
  BY <1>2 DEF Transfers!NumStreams

\* A batch makes a number of steps.
LEMMA StrideType == ASSUME streams \in Nat PROVE Stride \in Nat
  BY TransferAssumption DEF Stride, Transfers!Forward

\* The generator has not begun, and its other variables have their types.
NotBegun ==
    /\ Idle /\ payers \in Nat /\ streams \in Nat
    /\ gen \in {"none", "setup", "start", "loop", "err", "panic"}

\* A generator that has not begun has used nobody, whatever its payers are and
\* the size of its batches.
LEMMA NothingBegun == NotBegun => GeneratorInv
<1> SUFFICES ASSUME NotBegun PROVE GeneratorInv
  OBVIOUS
<1> USE DEF NotBegun, Idle
<1>1. IsFiniteSet(building) /\ Cardinality(building) = 0
  BY FS_EmptySet
<1>2. PoolInv
  BY <1>1 DEF PoolInv
<1>3. Transfers!GenTypeOK
  BY <1>1, FuturesAre, TransferAssumption DEF Transfers!GenTypeOK
<1>4. Stride \in Nat
  BY StrideType
<1>5. begun * Stride = 0
  BY <1>4
<1>6. IndexInv
  <2>1. ASSUME payers # 0 PROVE 0 % payers = 0
    <3>1. payers \in Nat \ {0} /\ 0 \in 0 .. payers - 1 /\ 0 \in Int
      BY <2>1
    <3>2. (payers * 0 + 0) % payers = 0
      BY <3>1, ModIs
    <3>3. payers * 0 + 0 = 0
      OBVIOUS
    <3> QED
      BY <3>2, <3>3
  <2> QED
    BY <1>5, <2>1 DEF IndexInv
<1>7. UsesInv
  <2>1. \A p : Taken(p) = {}
    BY <1>5 DEF Taken, Meets
  <2> QED
    BY <2>1, FS_EmptySet DEF UsesInv
<1> QED
  BY <1>2, <1>3, <1>6, <1>7 DEF GeneratorInv

\* The steps of one batch lie within those that were given out, and apart from
\* those of another.
LEMMA StepsLie ==
  ASSUME NEW s \in Nat, NEW i \in Nat, NEW j \in Nat, i <= j
  PROVE  i * s <= j * s /\ i * s \in Nat /\ j * s \in Nat
<1>1. (j - i) * s >= 0 /\ (j - i) * s = j * s - i * s
  OBVIOUS
<1>2. i * s \in Nat /\ j * s \in Nat
  OBVIOUS
<1> QED
  BY <1>1, <1>2

\* What is appended to an interval is all that is new in it.
LEMMA Appended ==
  ASSUME NEW m \in Nat, NEW s \in Nat
  PROVE  \A k : k \in 0 .. m - 1 <=> k \in 0 .. (m + s) - 1 /\ k \notin m .. (m + s) - 1
  OBVIOUS

\* A batch is begun: nothing is taken of it yet.
LEMMA SpawnKeeps ==
  ASSUME GeneratorInv, Transfers!SpawnBatch
  PROVE  GeneratorInv'
<1> USE DEF GeneratorInv, Transfers!sizeVars, Transfers!useVars
<1>1. /\ payers \in Nat /\ streams \in Nat /\ begun \in Nat /\ done \in Nat
      /\ index_payer \in Nat /\ Stride \in Nat /\ Stride' = Stride
      /\ UNCHANGED <<payers, streams, done, uses, failed>>
  BY StrideType DEF Transfers!SpawnBatch, Transfers!GenTypeOK, Stride, Transfers!Forward
<1>2. CASE payers = 0
  <2>1. /\ gen' = "panic" /\ building' = {} /\ UNCHANGED <<index_payer, begun>>
        /\ begun = 0 /\ failed = 0
    <3>1. gen' = "panic" /\ building' = {} /\ UNCHANGED <<index_payer, begun>>
      BY <1>2 DEF Transfers!SpawnBatch
    <3>2. begun = 0
      BY <1>2 DEF PoolInv
    <3>3. failed = 0
      BY <3>2 DEF Transfers!GenTypeOK
    <3> QED
      BY <3>1, <3>2, <3>3
  <2>2. IsFiniteSet({}) /\ Cardinality({}) = 0
    BY FS_EmptySet
  <2>3. PoolInv'
    BY <1>1, <1>2, <2>1, <2>2 DEF PoolInv
  <2>4. done <= PoolSize
    <3>1. Cardinality(building) \in Nat
      BY FS_CardinalityType DEF PoolInv
    <3> QED
      BY <1>1, <3>1, FuturesAre, TransferAssumption DEF Transfers!GenTypeOK
  <2>5. Transfers!GenTypeOK'
    <3>1. Transfers!Futures' = done
      <4>1. Transfers!Futures' = Cardinality(building') + done'
        BY SameCount DEF Transfers!Futures
      <4> QED
        BY <1>1, <2>1, <2>2, <4>1
    <3> QED
      BY <1>1, <1>2, <2>1, <2>4, <3>1 DEF Transfers!GenTypeOK
  <2> QED
    BY <1>1, <1>2, <2>1, <2>3, <2>5 DEF IndexInv, UsesInv
<1>3. CASE payers # 0
  <2> DEFINE new == [nth |-> begun + 1, from |-> index_payer]
  <2>1. /\ gen = "fill" /\ gen' = gen /\ Transfers!Futures < PoolSize
        /\ begun' = begun + 1 /\ building' = building \cup {new}
        /\ index_payer' = (index_payer + Stride) % payers
    BY <1>3 DEF Transfers!SpawnBatch, Stride
  <2>2. /\ IsFiniteSet(building) /\ Cardinality(building) \in Nat
        /\ \A t \in building : t.nth \in 1 .. begun
    BY FS_CardinalityType DEF PoolInv
  <2>3. new \notin building
    <3>1. new.nth = begun + 1 /\ begun + 1 \notin 1 .. begun
      BY <1>1
    <3> QED
      BY <2>2, <3>1
  <2>4. /\ IsFiniteSet(building')
        /\ Cardinality(building') = Cardinality(building) + 1
    BY <2>1, <2>2, <2>3, FS_AddElement
  <2>5. new.nth = begun + 1 /\ new.from = index_payer /\ new \in Transfers!Task
    BY <1>1 DEF Transfers!Task
  <2> HIDE DEF new
  <2>6. Transfers!Futures' = Transfers!Futures + 1 /\ Transfers!Futures \in Nat
    <3>1. /\ Transfers!Futures = Cardinality(building) + done
          /\ Transfers!Futures' = Cardinality(building') + done'
      BY SameCount DEF Transfers!Futures
    <3> QED
      BY <1>1, <2>2, <2>4, <3>1
  <2>7. begun + PoolSize - Transfers!Futures <= MaxBatches
    BY <2>1 DEF PoolInv
  <2>8. PoolInv'
    <3>1. \A t, u \in building' : t.nth = u.nth => t = u
      <4>1. \A t \in building : t.nth # begun + 1
        BY <1>1, <2>2
      <4> QED
        BY <2>1, <2>5, <4>1 DEF PoolInv
    <3>2. \A t \in building' : t.nth \in 1 .. begun'
      BY <1>1, <2>1, <2>2, <2>5
    <3>3. failed' + Cardinality(building') <= begun'
      <4>1. failed + Cardinality(building) <= begun /\ failed \in Nat
        BY DEF PoolInv, Transfers!GenTypeOK
      <4> QED
        BY <1>1, <2>1, <2>2, <2>4, <4>1
    <3>4. begun' + PoolSize - Transfers!Futures' <= MaxBatches
      BY <1>1, <2>1, <2>6, <2>7, TransferAssumption
    <3> QED
      BY <1>1, <1>3, <2>1, <2>4, <3>1, <3>2, <3>3, <3>4 DEF PoolInv
  <2>9. Transfers!GenTypeOK'
    <3>1. index_payer' \in 0 .. payers - 1
      <4>1. index_payer + Stride \in Int /\ payers \in Nat \ {0}
        BY <1>1, <1>3
      <4> QED
        BY <2>1, <4>1, DivMod
    <3>2. begun' \in 0 .. MaxBatches
      BY <1>1, <2>1, <2>6, <2>7, TransferAssumption
    <3>3. Transfers!Futures' <= PoolSize
      BY <2>1, <2>6, TransferAssumption
    <3>4. failed \in 0 .. begun'
      BY <1>1, <2>1 DEF Transfers!GenTypeOK
    <3>5. building' \subseteq Transfers!Task
      BY <2>1, <2>5 DEF Transfers!GenTypeOK
    <3>6. index_payer' \in Nat /\ index_payer' < payers
      BY <1>1, <3>1
    <3> QED
      BY <1>1, <2>1, <3>2, <3>3, <3>4, <3>5, <3>6 DEF Transfers!GenTypeOK
  <2>10. begun * Stride \in Nat /\ (begun + 1) * Stride = begun * Stride + Stride
    BY <1>1
  <2>11. IndexInv'
    <3>1. index_payer = (begun * Stride) % payers
      BY <1>3 DEF IndexInv
    <3>2. index_payer' = (begun' * Stride) % payers
      <4>1. begun * Stride \in Int /\ Stride \in Int /\ payers \in Nat \ {0}
        BY <1>1, <1>3, <2>10
      <4>2. (((begun * Stride) % payers) + Stride) % payers
              = (begun * Stride + Stride) % payers
        BY <4>1, ModAdd
      <4> QED
        BY <2>1, <2>10, <3>1, <4>2
    <3>3. new.from = ((new.nth - 1) * Stride) % payers
      <4>1. new.nth - 1 = begun
        BY <1>1, <2>5
      <4> QED
        BY <2>5, <3>1, <4>1
    <3>4. \A t \in building : t.from = ((t.nth - 1) * Stride) % payers
      BY <1>3 DEF IndexInv
    <3> QED
      BY <1>1, <2>1, <3>2, <3>3, <3>4 DEF IndexInv
  <2>12. UsesInv'
    <3>1. \A t : StepsOf(t)' = StepsOf(t)
      BY <1>1 DEF StepsOf
    <3>2. PICK m \in Nat :
            /\ m = begun * Stride /\ m + Stride = begun' * Stride
            /\ m = (new.nth - 1) * Stride /\ m + Stride = new.nth * Stride
      <4>1. new.nth - 1 = begun /\ new.nth = begun + 1
        BY <1>1, <2>5
      <4> QED
        BY <2>1, <2>10, <4>1
    <3>3. \A k : k \in 0 .. begun * Stride - 1 <=>
                   /\ k \in 0 .. begun' * Stride - 1
                   /\ k \notin StepsOf(new)
      <4>1. StepsOf(new) = m .. (m + Stride) - 1
        BY <3>2, Zenon DEF StepsOf
      <4>2. 0 .. begun * Stride - 1 = 0 .. m - 1
        BY <3>2, Zenon
      <4>3. 0 .. begun' * Stride - 1 = 0 .. (m + Stride) - 1
        BY <3>2, Zenon
      <4>4. \A k : k \in 0 .. m - 1 <=>
                     k \in 0 .. (m + Stride) - 1 /\ k \notin m .. (m + Stride) - 1
        BY <1>1, Appended
      <4> QED
        BY <4>1, <4>2, <4>3, <4>4, Zenon
    <3>4. ASSUME NEW p PROVE Taken(p)' = Taken(p)
      <4>1. Taken(p)' = {k \in 0 .. begun' * Stride - 1 :
                           k % payers = p /\ \A t \in building' : k \notin StepsOf(t)}
        BY <1>1, <3>1 DEF Taken, Meets
      <4>2. Taken(p) = {k \in 0 .. begun * Stride - 1 :
                           k % payers = p /\ \A t \in building : k \notin StepsOf(t)}
        BY DEF Taken, Meets
      <4> QED
        BY <2>1, <3>3, <4>1, <4>2
    <3> QED
      BY <1>1, <3>4 DEF UsesInv
  <2> QED
    BY <2>8, <2>9, <2>11, <2>12
<1> QED
  BY <1>2, <1>3

\* A batch walks as often over a payer as the steps that are set apart for it
\* meet the payer.
LEMMA BatchWalk ==
  ASSUME NEW n \in Nat \ {0}, NEW s \in Nat, NEW i \in Nat \ {0}, NEW p
  PROVE  /\ ((i - 1) * s) \in Nat /\ i * s = (i - 1) * s + s
         /\ Cardinality(Walk(((i - 1) * s) % n, s, n, p))
              = Cardinality(Meets((i - 1) * s, i * s - 1, n, p))
<1>1. PICK m \in Nat : m = (i - 1) * s /\ m + s = i * s
  <2>1. i - 1 \in Nat /\ s \in Nat
    OBVIOUS
  <2>2. (i - 1) * s \in Nat
    BY <2>1
  <2>3. i * s = (i - 1) * s + s
    OBVIOUS
  <2> QED
    BY <2>2, <2>3
<1>2. Cardinality(Walk(m % n, s, n, p))
        = Cardinality(Meets(m, m + s - 1, n, p))
  BY <1>1, WalkFrom
<1>3. m + s - 1 = i * s - 1
  BY <1>1
<1> QED
  BY <1>1, <1>2, <1>3

\* A batch is built: the payers are used by the steps that were set apart for it.
LEMMA BuildKeeps ==
  ASSUME GeneratorInv, NEW task \in building, Transfers!BuildBatch(task)
  PROVE  GeneratorInv'
<1> USE DEF GeneratorInv, Transfers!sizeVars
<1>1. /\ payers \in Nat /\ streams \in Nat /\ begun \in Nat /\ done \in Nat
      /\ Stride \in Nat /\ Stride' = Stride
      /\ UNCHANGED <<gen, payers, streams, index_payer, begun>>
      /\ building' = building \ {task} /\ done' = done + 1
  BY StrideType DEF Transfers!BuildBatch, Transfers!GenTypeOK, Stride, Transfers!Forward
<1>2. /\ IsFiniteSet(building) /\ Cardinality(building) \in Nat
      /\ IsFiniteSet(building') /\ Cardinality(building') \in Nat
      /\ Cardinality(building') = Cardinality(building) - 1
  <2>1. IsFiniteSet(building)
    BY DEF PoolInv
  <2>2. /\ IsFiniteSet(building \ {task})
        /\ Cardinality(building \ {task}) = Cardinality(building) - 1
    BY <2>1, FS_RemoveElement
  <2> QED
    BY <1>1, <2>1, <2>2, FS_CardinalityType
<1>3. task.nth \in 1 .. begun /\ begun > 0 /\ payers \in Nat \ {0}
  BY <1>1 DEF PoolInv
<1>4. failed' \in {failed, failed + 1} /\ failed \in Nat
  BY DEF Transfers!BuildBatch, Transfers!GenTypeOK
<1>5. Transfers!Futures' = Transfers!Futures
  <2>1. /\ Transfers!Futures = Cardinality(building) + done
        /\ Transfers!Futures' = Cardinality(building') + done'
    BY SameCount DEF Transfers!Futures
  <2> QED
    BY <1>1, <1>2, <2>1
<1>6. failed' + Cardinality(building') <= begun
  <2>1. failed + Cardinality(building) <= begun
    BY DEF PoolInv
  <2> QED
    BY <1>1, <1>2, <1>4, <2>1
<1>7. PoolInv'
  <2>1. gen \notin {"none", "setup", "start"}
    BY <1>3 DEF PoolInv, Idle
  <2>2. \A t, u \in building' : t.nth = u.nth => t = u
    BY <1>1 DEF PoolInv
  <2>3. \A t \in building' : t.nth \in 1 .. begun
    BY <1>1 DEF PoolInv
  <2>4. gen' = "fill" => begun' + PoolSize - Transfers!Futures' <= MaxBatches
    BY <1>1, <1>5 DEF PoolInv
  <2> QED
    BY <1>1, <1>2, <1>3, <1>6, <2>1, <2>2, <2>3, <2>4 DEF PoolInv
<1>8. IndexInv'
  <2>1. /\ index_payer = (begun * Stride) % payers
        /\ \A t \in building : t.from = ((t.nth - 1) * Stride) % payers
    BY <1>3 DEF IndexInv
  <2> QED
    BY <1>1, <2>1 DEF IndexInv
<1> DEFINE M(p) == Meets((task.nth - 1) * Stride, task.nth * Stride - 1, payers, p)
<1>9. /\ (task.nth - 1) * Stride \in Nat
      /\ task.nth * Stride = (task.nth - 1) * Stride + Stride
      /\ \A p : IsFiniteSet(M(p)) /\ Cardinality(M(p)) \in Nat
  <2>1. task.nth \in Nat \ {0}
    BY <1>1, <1>3
  <2>2. /\ (task.nth - 1) * Stride \in Nat
        /\ task.nth * Stride = (task.nth - 1) * Stride + Stride
    BY <1>1, <1>3, <2>1, BatchWalk
  <2>3. task.nth * Stride - 1 \in Int /\ (task.nth - 1) * Stride \in Int
    BY <1>1, <2>2
  <2> QED
    BY <2>2, <2>3, MeetsFinite
<1>10. \A p : Transfers!Met(task.from, p) = Cardinality(M(p))
  <2> TAKE p
  <2>1. task.nth \in Nat \ {0}
    BY <1>1, <1>3
  <2>2. task.from = ((task.nth - 1) * Stride) % payers
    BY <1>3 DEF IndexInv
  <2>3. Transfers!Met(task.from, p) =
          Cardinality(Walk(task.from, Stride, payers, p))
    BY SameCount DEF Transfers!Met, Walk, Stride, Transfers!Forward
  <2>4. Cardinality(Walk(((task.nth - 1) * Stride) % payers, Stride, payers, p))
          = Cardinality(M(p))
    <3>1. Stride \in Nat /\ payers \in Nat \ {0}
      BY <1>1, <1>3
    <3>2. PICK i \in Nat \ {0}, s \in Nat, n \in Nat \ {0} :
            i = task.nth /\ s = Stride /\ n = payers
      BY <2>1, <3>1
    <3>3. Cardinality(Walk(((i - 1) * s) % n, s, n, p))
            = Cardinality(Meets((i - 1) * s, i * s - 1, n, p))
      BY BatchWalk
    <3> QED
      BY ONLY <3>2, <3>3, Zenon DEF M
  <2> QED
    BY <2>2, <2>3, <2>4
<1>11. Transfers!GenTypeOK'
  <2>1. uses' \in [0 .. payers - 1 -> Nat]
    <3>1. uses \in [0 .. payers - 1 -> Nat]
      BY DEF Transfers!GenTypeOK
    <3>2. \A p : Transfers!Met(task.from, p) \in Nat
      BY <1>9, <1>10
    <3> QED
      BY <3>1, <3>2 DEF Transfers!BuildBatch
  <2>2. failed' \in 0 .. begun
    BY <1>1, <1>2, <1>4, <1>6
  <2> QED
    BY <1>1, <1>5, <2>1, <2>2 DEF Transfers!GenTypeOK
<1> HIDE DEF M
<1>12. UsesInv'
  <2> SUFFICES ASSUME failed' = 0, NEW p \in 0 .. payers - 1
               PROVE  uses'[p] = Cardinality(Taken(p)')
    BY <1>1 DEF UsesInv
  <2>1. failed = 0 /\ uses'[p] = uses[p] + Transfers!Met(task.from, p)
    <3>1. Transfers!Builds
      <4>1. failed + 1 # 0
        BY <1>4
      <4> QED
        BY <4>1 DEF Transfers!BuildBatch
    <3>2. DOMAIN uses = 0 .. payers - 1
      BY DEF Transfers!GenTypeOK
    <3> QED
      BY <3>1, <3>2 DEF Transfers!BuildBatch
  <2>2. uses[p] = Cardinality(Taken(p))
    BY <2>1 DEF UsesInv
  <2>3. IsFiniteSet(Taken(p)) /\ Cardinality(Taken(p)) \in Nat
    <3>1. begun * Stride - 1 \in Int /\ 0 \in Int
      BY <1>1
    <3>2. IsFiniteSet(Meets(0, begun * Stride - 1, payers, p))
      BY <3>1, MeetsFinite
    <3>3. Taken(p) \subseteq Meets(0, begun * Stride - 1, payers, p)
      BY DEF Taken
    <3> QED
      BY <3>2, <3>3, FS_Subset, FS_CardinalityType
  <2>4. M(p) = {k \in StepsOf(task) : k % payers = p}
    BY DEF M, Meets, StepsOf
  <2>5. StepsOf(task) \subseteq 0 .. begun * Stride - 1
    <3>1. PICK a \in Nat, b \in Nat, c \in Nat :
            /\ a = (task.nth - 1) * Stride /\ b = task.nth * Stride
            /\ c = begun * Stride /\ b <= c
      <4>1. task.nth \in Nat /\ task.nth <= begun
        BY <1>1, <1>3
      <4>2. /\ task.nth * Stride <= begun * Stride
            /\ task.nth * Stride \in Nat /\ begun * Stride \in Nat
        BY <1>1, <4>1, StepsLie
      <4> QED
        BY <1>9, <4>2
    <3>2. a .. b - 1 \subseteq 0 .. c - 1
      BY <3>1
    <3> QED
      BY <3>1, <3>2, Zenon DEF StepsOf
  <2>6. ASSUME NEW u \in building, u # task
        PROVE  StepsOf(u) \cap StepsOf(task) = {}
    <3>1. u.nth # task.nth /\ u.nth \in Nat /\ task.nth \in Nat
      BY <1>1, <1>3, <2>6 DEF PoolInv
    <3>2. PICK a \in Int, b \in Int, c \in Int, d \in Int :
            /\ a = (task.nth - 1) * Stride /\ b = task.nth * Stride
            /\ c = (u.nth - 1) * Stride /\ d = u.nth * Stride
            /\ (b <= c \/ d <= a)
      <4>1. u.nth \in Nat \ {0} /\ task.nth \in Nat \ {0}
        BY <1>1, <1>3 DEF PoolInv
      <4>2. (task.nth - 1) * Stride \in Int /\ task.nth * Stride \in Int
        BY <1>1, <4>1
      <4>3. (u.nth - 1) * Stride \in Int /\ u.nth * Stride \in Int
        BY <1>1, <4>1
      <4>4. CASE task.nth < u.nth
        <5>1. u.nth - 1 \in Nat /\ task.nth <= u.nth - 1
          BY <4>1, <4>4
        <5>2. task.nth * Stride <= (u.nth - 1) * Stride
          BY <1>1, <3>1, <5>1, StepsLie
        <5> QED
          BY <4>2, <4>3, <5>2
      <4>5. CASE u.nth < task.nth
        <5>1. task.nth - 1 \in Nat /\ u.nth <= task.nth - 1
          BY <4>1, <4>5
        <5>2. u.nth * Stride <= (task.nth - 1) * Stride
          BY <1>1, <3>1, <5>1, StepsLie
        <5> QED
          BY <4>2, <4>3, <5>2
      <4> QED
        BY <3>1, <4>4, <4>5
    <3>3. (c .. d - 1) \cap (a .. b - 1) = {}
      BY <3>2
    <3> QED
      BY <3>2, <3>3, Zenon DEF StepsOf
  <2>7. \A t : StepsOf(t)' = StepsOf(t)
    BY <1>1 DEF StepsOf
  <2>8. Taken(p)' = {k \in 0 .. begun * Stride - 1 :
                        k % payers = p /\ \A t \in building \ {task} : k \notin StepsOf(t)}
    BY <1>1, <2>7 DEF Taken, Meets
  <2>9. Taken(p) = {k \in 0 .. begun * Stride - 1 :
                       k % payers = p /\ \A t \in building : k \notin StepsOf(t)}
    BY DEF Taken, Meets
  <2>10. Taken(p)' = Taken(p) \cup M(p) /\ Taken(p) \cap M(p) = {}
    BY <2>4, <2>5, <2>6, <2>8, <2>9
  <2>11. Cardinality(Taken(p)') = Cardinality(Taken(p)) + Cardinality(M(p))
    <3>1. Cardinality(Taken(p) \cup M(p))
            = Cardinality(Taken(p)) + Cardinality(M(p)) - Cardinality({})
      BY <1>9, <2>3, <2>10, FS_Union
    <3> QED
      BY <1>9, <2>3, <2>10, <3>1, FS_EmptySet
  <2> QED
    BY <1>10, <2>1, <2>2, <2>11
<1> QED
  BY <1>7, <1>8, <1>11, <1>12

\* A step that leaves the generator as if it had not begun.
LEMMA SetUpKeeps ==
  ASSUME GeneratorInv, Transfers!SetUpFails \/ Transfers!SetUp \/ Transfers!Start
  PROVE  GeneratorInv'
<1> USE DEF Transfers!sizeVars, Transfers!poolVars, Transfers!useVars
<1>1. gen \in {"setup", "start"} /\ payers \in Nat /\ streams \in Nat
  BY DEF Transfers!SetUpFails, Transfers!SetUp, Transfers!Start, GeneratorInv,
         Transfers!GenTypeOK
<1>2. Idle
  BY <1>1 DEF GeneratorInv, PoolInv
<1>3. Idle' /\ payers' = payers
  BY <1>2 DEF Idle, Transfers!SetUpFails, Transfers!SetUp, Transfers!Start
<1>4. /\ streams' \in Nat
      /\ gen' \in {"none", "setup", "start", "loop", "err", "panic"}
  BY <1>1, StreamsType DEF Transfers!SetUpFails, Transfers!SetUp, Transfers!Start
<1>5. NotBegun'
  BY <1>1, <1>3, <1>4 DEF NotBegun
<1> QED
  BY <1>5, NothingBegun, PTL

\* The other steps of the loop leave the batches alone.
LEMMA LoopKeeps ==
  ASSUME GeneratorInv,
         \/ Transfers!TimeUp \/ Transfers!ReceiverDropped \/ Transfers!Refill
         \/ Transfers!JoinOne \/ Transfers!Drained
  PROVE  GeneratorInv'
<1> USE DEF Transfers!sizeVars, Transfers!poolVars, Transfers!useVars, GeneratorInv
<1>1. /\ UNCHANGED <<payers, streams, index_payer, begun, building, uses, failed>>
      /\ gen' \in {"drain", "fill", "loop", "ok", "err"}
      /\ done' \in {done, done - 1, 0}
  BY DEF Transfers!TimeUp, Transfers!ReceiverDropped, Transfers!Refill,
         Transfers!JoinOne, Transfers!Drained
<1>2. IsFiniteSet(building) /\ Cardinality(building) \in Nat /\ done \in Nat
  BY FS_CardinalityType DEF PoolInv, Transfers!GenTypeOK
<1>3. done' \in Nat /\ done' <= done
  <2>1. Transfers!JoinOne => done > 0 /\ done' = done - 1
    BY DEF Transfers!JoinOne
  <2>2. \/ done' = done \/ done' = 0 \/ Transfers!JoinOne
    BY DEF Transfers!TimeUp, Transfers!ReceiverDropped, Transfers!Refill,
           Transfers!Drained
  <2> QED
    BY <1>2, <2>1, <2>2
<1>4. /\ Transfers!Futures = Cardinality(building) + done
      /\ Transfers!Futures' = Cardinality(building) + done'
  BY <1>1, SameCount DEF Transfers!Futures
<1>5. Transfers!Futures' <= PoolSize
  <2>1. Transfers!Futures <= PoolSize
    BY DEF Transfers!GenTypeOK
  <2> QED
    BY <1>2, <1>3, <1>4, <2>1, TransferAssumption
<1>6. gen' = "fill" => begun' + PoolSize - Transfers!Futures' <= MaxBatches
  <2>1. gen' = "fill" => Transfers!Refill
    BY DEF Transfers!TimeUp, Transfers!ReceiverDropped, Transfers!JoinOne,
           Transfers!Drained
  <2>2. Transfers!Refill =>
          begun + PoolSize - Transfers!Futures <= MaxBatches /\ done' = done
    BY DEF Transfers!Refill
  <2> QED
    BY <1>1, <1>4, <2>1, <2>2
<1>7. PoolInv'
  BY <1>1, <1>6 DEF PoolInv
<1>8. Transfers!GenTypeOK'
  BY <1>1, <1>3, <1>5 DEF Transfers!GenTypeOK
<1>9. Stride' = Stride
  BY <1>1 DEF Stride, Transfers!Forward
<1>10. IndexInv'
  BY <1>1, <1>9 DEF IndexInv
<1>11. UsesInv'
  BY <1>1, <1>9 DEF UsesInv, Taken, StepsOf
<1> QED
  BY <1>7, <1>8, <1>10, <1>11

\* Every step of the generator keeps its invariant.
LEMMA GeneratorStep == GeneratorInv /\ Transfers!Next => GeneratorInv'
<1> SUFFICES ASSUME GeneratorInv, Transfers!Next PROVE GeneratorInv'
  OBVIOUS
<1>1. CASE Transfers!SetUpFails \/ Transfers!SetUp \/ Transfers!Start
  BY <1>1, SetUpKeeps
<1>2. CASE Transfers!TimeUp \/ Transfers!ReceiverDropped \/ Transfers!Refill
             \/ Transfers!JoinOne \/ Transfers!Drained
  BY <1>2, LoopKeeps
<1>3. CASE Transfers!SpawnBatch
  BY <1>3, SpawnKeeps
<1>4. CASE \E task \in building : Transfers!BuildBatch(task)
  BY <1>4, BuildKeeps
<1> QED
  BY <1>1, <1>2, <1>3, <1>4 DEF Transfers!Next

\* run_client is called with the payers of a program whose generator has not begun.
LEMMA CallKeeps ==
  ASSUME GeneratorInv, NEW n \in Nat, Transfers!CallWith(n)
  PROVE  GeneratorInv'
<1> USE DEF Transfers!poolVars
<1>1. Idle /\ streams \in Nat
  BY DEF Transfers!CallWith, GeneratorInv, PoolInv, Transfers!GenTypeOK
<1>2. NotBegun'
  BY <1>1 DEF NotBegun, Idle, Transfers!CallWith
<1> QED
  BY <1>2, NothingBegun, PTL

\* What the command line and the accounts file may be.
CommandTypeOK ==
    /\ command \in {"run", "write", "read"}
    /\ file \in {NoFile, Garbled} \cup Nat /\ before \in {NoFile, Garbled} \cup Nat

WholeInv == ProgramInv /\ CommandTypeOK /\ GeneratorInv

\* All of it holds when the first program starts, ...
LEMMA WholeInit == ProgramInit => WholeInv
<1> SUFFICES ASSUME ProgramInit PROVE WholeInv
  OBVIOUS
<1>1. CommandTypeOK
  BY DEF ProgramInit, CommandTypeOK
<1>2. NotBegun
  BY DEF ProgramInit, Transfers!Init, NotBegun, Idle
<1> QED
  BY <1>1, <1>2, NothingBegun, ProgramInitInv DEF WholeInv

\* ... and every step keeps it.
LEMMA WholeStep == WholeInv /\ [ProgramNext]_programVars => WholeInv'
<1> SUFFICES ASSUME WholeInv, [ProgramNext]_programVars PROVE WholeInv'
  OBVIOUS
<1>1. ProgramInv'
  BY ProgramKeepsInv DEF WholeInv
<1>2. kept \in Nat /\ kept' \in Nat
  <2>1. TypeOK /\ TypeOK'
    BY <1>1 DEF WholeInv, ProgramInv, IInv
  <2> QED
    BY <2>1, NumPayersAssumption DEF TypeOK
<1>3. CommandTypeOK'
  <2> USE DEF WholeInv, CommandTypeOK
  <2>1. CASE Create
    BY <1>2, <2>1 DEF Create, Written
  <2>2. CASE Run \/ StartRead \/ ReadAccounts \/ Generate \/ UNCHANGED programVars
    BY <2>2 DEF Run, StartRead, ReadAccounts, Generate, programVars
  <2> QED
    BY <2>1, <2>2 DEF ProgramNext
<1>4. GeneratorInv'
  <2> USE DEF WholeInv
  <2>1. CASE UNCHANGED genVars
    BY <2>1 DEF genVars, runVars, GeneratorInv, Transfers!GenTypeOK, PoolInv, Idle,
                IndexInv, UsesInv, Taken, StepsOf, Stride, Transfers!Forward,
                Transfers!Futures
  <2>2. CASE Run
    BY <1>2, <2>2, CallKeeps DEF Run
  <2>3. CASE StartRead
    <3>1. NotBegun'
      BY <2>3 DEF StartRead, NotBegun, Idle
    <3> QED
      BY <3>1, NothingBegun, PTL
  <2>4. CASE ReadAccounts
    <3>1. CASE file \in Nat
      BY <2>4, <3>1, CallKeeps DEF ReadAccounts
    <3>2. CASE file \notin Nat
      <4>1. gen = "none" /\ gen' = "panic" /\ UNCHANGED runVars
        BY <2>4, <3>2 DEF ReadAccounts
      <4>2. Idle /\ payers \in Nat /\ streams \in Nat
        BY <4>1 DEF GeneratorInv, PoolInv, Transfers!GenTypeOK
      <4>3. NotBegun'
        BY <4>1, <4>2 DEF NotBegun, Idle, runVars
      <4> QED
        BY <4>3, NothingBegun, PTL
    <3> QED
      BY <3>1, <3>2
  <2>5. CASE Generate
    BY <2>5, GeneratorStep DEF Generate
  <2>6. Create \/ UNCHANGED programVars => UNCHANGED genVars
    BY DEF Create, programVars
  <2> QED
    BY <2>1, <2>2, <2>3, <2>4, <2>5, <2>6 DEF ProgramNext
<1> QED
  BY <1>1, <1>3, <1>4 DEF WholeInv

\* It holds in every reachable state.
THEOREM WholeInvariance == ProgramSpec => []WholeInv
  BY WholeInit, WholeStep, PTL DEF ProgramSpec

\* The types of all variables of a program; among them that the pool is never
\* over its size, that the index is that of a payer, and that no stakes that
\* the RPC node may report make the size of a batch anything but a number.
THEOREM ProgramTypeCorrect == ProgramSpec => []ProgramTypeOK
<1>1. WholeInv => ProgramTypeOK
  BY DEF WholeInv, ProgramInv, IInv, CommandTypeOK, GeneratorInv, ProgramTypeOK
<1> QED
  BY <1>1, WholeInvariance, PTL

\* In whatever order the tasks of the pool build their batches, and whatever
\* their size is: when all that were begun are built, no payer has been used
\* more than once more often than another.
THEOREM PayersBalancedCorrect == ProgramSpec => []PayersBalanced
<1>1. WholeInv => PayersBalanced
  <2> SUFFICES ASSUME WholeInv, building = {}, failed = 0,
                      NEW p \in DOMAIN uses, NEW q \in DOMAIN uses
               PROVE  uses[p] <= uses[q] + 1
    BY DEF PayersBalanced, Transfers!PayersBalanced
  <2>1. /\ payers \in Nat /\ begun \in Nat /\ Stride \in Nat
        /\ DOMAIN uses = 0 .. payers - 1
    BY StrideType DEF WholeInv, GeneratorInv, Transfers!GenTypeOK
  <2>2. /\ uses[p] = Cardinality(Taken(p))
        /\ uses[q] = Cardinality(Taken(q))
    BY <2>1 DEF WholeInv, GeneratorInv, UsesInv
  <2>3. \A r : Taken(r) = Meets(0, begun * Stride - 1, payers, r)
    BY DEF Taken
  <2>4. PICK len \in Nat : len = begun * Stride
    BY <2>1
  <2>5. payers \in Nat \ {0} /\ p \in 0 .. payers - 1 /\ q \in 0 .. payers - 1
    BY <2>1
  <2>6. Cardinality(Meets(0, len - 1, payers, p))
          <= Cardinality(Meets(0, len - 1, payers, q)) + 1
    BY <2>5, WalkFair
  <2> QED
    BY <2>2, <2>3, <2>4, <2>6
<1> QED
  BY <1>1, WholeInvariance, PTL

=============================================================================
