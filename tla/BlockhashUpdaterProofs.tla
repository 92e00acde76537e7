----------------------- MODULE BlockhashUpdaterProofs -----------------------
(***************************************************************************)
(* Proofs about BlockhashUpdater, for all lengths of the intervals.        *)
(***************************************************************************)
EXTENDS BlockhashUpdater, TLAPS

\* What is left of the three intervals at each place of the turn.
AgeInv ==
    /\ pc = "head" => lastAge <= StuckInterval
    /\ pc = "tick" => /\ lastAge <= StuckInterval + UpdateInterval
                      /\ lastAge + due <= StuckInterval + UpdateInterval
    /\ pc = "rpc"  => lastAge <= StuckInterval + UpdateInterval + rpcAge

\* The same for the time without a receiver: the head of the loop passes on
\* only a task that has one.
GoneInv ==
    /\ rxOpen => goneFor = 0
    /\ pc = "head" => goneFor <= MaxGone
    /\ pc = "tick" => goneFor <= UpdateInterval /\ goneFor + due <= UpdateInterval
    /\ pc = "rpc"  => goneFor <= UpdateInterval + rpcAge

\* The task has a result when it has ended.
ResultInv == (result = "none") <=> (pc # "ended")

IInv == TypeOK /\ AgeInv /\ GoneInv /\ ResultInv

\* The longest that m requests in vain can take, with the waits before them.
Longest(m) == m * MaxGone

\* The age is made up of the requests in vain and the turn that is under way.
VainInv ==
    /\ pc = "head" => lastAge <= Longest(misses)
    /\ pc = "tick" => /\ lastAge <= Longest(misses) + UpdateInterval
                      /\ lastAge + due <= Longest(misses) + UpdateInterval
    /\ pc = "rpc"  => lastAge <= Longest(misses) + UpdateInterval + rpcAge
    /\ result = "stuck" => StuckInterval < Longest(misses)

-----------------------------------------------------------------------------
\* The initial states satisfy the inductive invariant.
LEMMA InitInv == Init => IInv
  BY IntervalAssumption
     DEF Init, IInv, TypeOK, AgeInv, GoneInv, ResultInv, MaxAge, MaxGone

\* Every step keeps it.
LEMMA StepInv == IInv /\ [Next]_vars => IInv'
<1> SUFFICES ASSUME IInv, [Next]_vars PROVE IInv'
  OBVIOUS
<1> USE IntervalAssumption
    DEF IInv, TypeOK, AgeInv, GoneInv, ResultInv, MaxAge, MaxGone
<1>1. CASE Pass
  BY <1>1 DEF Pass, Capped
<1>2. CASE NewBlockhash
  BY <1>2 DEF NewBlockhash
<1>3. CASE DropReceiver
  BY <1>3 DEF DropReceiver
<1>4. CASE Head
  BY <1>4 DEF Head, End
<1>5. CASE IntervalTick
  BY <1>5 DEF IntervalTick
<1>6. CASE RpcSame
  BY <1>6 DEF RpcSame, AfterRpc, Stuck, End
<1>7. CASE RpcNew
  <2>1. CASE rxOpen
    <3>1. /\ pc = "rpc" /\ pc' = "head" /\ lastAge' = 0 /\ fresh' = FALSE
          /\ misses' = 0 /\ UNCHANGED <<due, rpcAge, rxOpen, goneFor, result>>
      <4>1. ~Stuck(0)
        BY DEF Stuck
      <4>2. AfterRpc(0)
        BY <1>7, <2>1 DEF RpcNew
      <4>3. pc' = "head" /\ UNCHANGED result
        BY <4>1, <4>2 DEF AfterRpc
      <4> QED
        BY <1>7, <2>1, <4>3 DEF RpcNew
    <3>2. TypeOK'
      <4>1. fresh' \in BOOLEAN /\ rxOpen' \in BOOLEAN /\ pc' \in {"head", "tick", "rpc", "ended"}
        BY <3>1
      <4>2. lastAge' \in 0 .. MaxAge' + 1
        BY <3>1
      <4>3. /\ due' \in -MaxLate .. UpdateInterval /\ rpcAge' \in 0 .. RpcTimeout
            /\ goneFor' \in 0 .. MaxGone' + 1 /\ result' \in {"none", "ok", "stuck"}
            /\ misses' \in Nat
        BY <3>1
      <4> QED
        BY <4>1, <4>2, <4>3
    <3>3. AgeInv' /\ ResultInv'
      BY <3>1
    <3>4. GoneInv'
      BY <2>1, <3>1
    <3> QED
      BY <3>2, <3>3, <3>4
  <2>2. CASE ~rxOpen
    BY <1>7, <2>2 DEF RpcNew, End
  <2> QED
    BY <2>1, <2>2
<1>8. CASE UNCHANGED vars
  BY <1>8 DEF vars
<1> QED
  BY <1>1, <1>2, <1>3, <1>4, <1>5, <1>6, <1>7, <1>8, SMT DEF Next, Task

\* One more request in vain takes at most a wait and an answer.
LEMMA LongestOf ==
    /\ Longest(0) = 0
    /\ \A m \in Nat : /\ Longest(m) \in Nat
                      /\ Longest(m + 1) = Longest(m) + UpdateInterval + RpcTimeout
<1> DEFINE T == UpdateInterval + RpcTimeout
<1>1. T \in Nat
  BY IntervalAssumption
<1>2. MaxGone = T
  BY DEF MaxGone
<1> HIDE DEF T
<1>3. 0 * T = 0 /\ \A m \in Nat : m * T \in Nat /\ (m + 1) * T = m * T + T
  BY <1>1
<1>4. \A m \in Nat : m * T + T = m * T + UpdateInterval + RpcTimeout
  BY <1>3, IntervalAssumption DEF T
<1> QED
  BY <1>2, <1>3, <1>4 DEF Longest

\* Every step keeps the account of the requests in vain.
LEMMA StepVain == IInv /\ VainInv /\ [Next]_vars => VainInv'
<1> SUFFICES ASSUME IInv, VainInv, [Next]_vars PROVE VainInv'
  OBVIOUS
<1> USE IntervalAssumption DEF IInv, TypeOK, ResultInv, VainInv
<1>0. Longest(misses) \in Nat
  BY LongestOf
<1>1. CASE Pass
  <2>1. lastAge' \in Int /\ lastAge' <= lastAge + 1
    BY <1>1 DEF Pass, Capped, MaxAge
  <2> QED
    BY <1>0, <1>1, <2>1 DEF Pass, MaxAge
<1>2. CASE NewBlockhash \/ DropReceiver
  BY <1>0, <1>2 DEF NewBlockhash, DropReceiver
<1>3. CASE Head
  BY <1>0, <1>3 DEF Head, End, MaxAge
<1>4. CASE IntervalTick
  BY <1>0, <1>4 DEF IntervalTick, MaxAge
<1>5. CASE RpcSame
  <2>1. /\ misses' = misses + 1 /\ lastAge' = lastAge
        /\ lastAge <= Longest(misses) + UpdateInterval + RpcTimeout
    BY <1>0, <1>5 DEF RpcSame, MaxAge
  <2>2. lastAge <= Longest(misses')
    BY <2>1, LongestOf
  <2>3. Longest(misses') \in Nat
    BY <2>1, LongestOf
  <2> QED
    BY <1>5, <2>1, <2>2, <2>3 DEF RpcSame, AfterRpc, Stuck, End, MaxAge
<1>6. CASE RpcNew
  <2>1. misses' = 0 /\ Longest(misses') = 0
    BY <1>6, LongestOf DEF RpcNew
  <2>2. ~Stuck(0)
    BY DEF Stuck
  <2>3. \/ pc' = "head" /\ lastAge' = 0 /\ result' = result
        \/ pc' = "ended" /\ result' = "ok"
    BY <1>6, <2>2 DEF RpcNew, AfterRpc, End
  <2>4. result = "none"
    BY <1>6 DEF RpcNew
  <2> QED
    BY <2>1, <2>3, <2>4
<1>7. CASE UNCHANGED vars
  BY <1>7 DEF vars
<1> QED
  BY <1>1, <1>2, <1>3, <1>4, <1>5, <1>6, <1>7 DEF Next, Task

\* The inductive invariant holds in every reachable state.
THEOREM Invariance == Spec => []IInv
  BY InitInv, StepInv, PTL DEF Spec

\* The types of the variables, for all intervals.
THEOREM TypeCorrect == Spec => []TypeOK
  BY Invariance, PTL DEF IInv

\* While the updater runs, what it has published is never older than
\* stuck_interval, update_interval and the RPC timeout together.
THEOREM AgeBoundedCorrect == Spec => []AgeBounded
<1>1. IInv => AgeBounded
  BY IntervalAssumption
     DEF IInv, TypeOK, AgeInv, ResultInv, AgeBounded, MaxAge
<1> QED
  BY <1>1, Invariance, PTL

\* An updater without a receiver ends within one turn.
THEOREM GoneBoundedCorrect == Spec => []GoneBounded
<1>1. IInv => GoneBounded
  BY IntervalAssumption
     DEF IInv, TypeOK, GoneInv, ResultInv, GoneBounded, MaxGone
<1> QED
  BY <1>1, Invariance, PTL

\* The updater reports a stuck blockhash only after so many requests in vain
\* that they make up stuck_interval.
THEOREM StuckInVainCorrect == Spec => []StuckInVain
<1>1. Init => VainInv
  BY LongestOf, IntervalAssumption DEF Init, VainInv
<1>2. VainInv => StuckInVain
  <2> SUFFICES ASSUME VainInv, result = "stuck" PROVE misses * MaxGone > StuckInterval
    BY DEF StuckInVain
  <2>1. StuckInterval < Longest(misses)
    BY DEF VainInv
  <2> QED
    BY <2>1 DEF Longest
<1> QED
  BY <1>1, <1>2, StepVain, Invariance, PTL DEF Spec
=============================================================================
