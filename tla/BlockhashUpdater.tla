-------------------------- MODULE BlockhashUpdater --------------------------
(***************************************************************************)
(* tools-common/src/blockhash_updater.rs: the task that asks the RPC node  *)
(* for the latest blockhash and publishes it on a watch channel.           *)
(*                                                                         *)
(* Of a blockhash only matters whether it is the one published last, and   *)
(* of a time only how long ago it was; ages above the largest that a       *)
(* property speaks of are all the same.  The task is polled when its timer *)
(* is due or its request returns, and a request is answered or given up by *)
(* the RPC client within RpcTimeout.                                       *)
(***************************************************************************)
EXTENDS Integers

CONSTANTS
    UpdateInterval,  \* update_interval
    StuckInterval,   \* stuck_interval
    RpcTimeout,      \* timeout of the RPC client
    MaxLate          \* bound: how late a tick of the interval may be

ASSUME IntervalAssumption ==
    /\ UpdateInterval \in Nat \ {0} /\ StuckInterval \in Nat
    /\ RpcTimeout \in Nat /\ MaxLate \in Nat

VARIABLES
    pc,        \* where the task is
    due,       \* time left to the next tick of the interval
    rpcAge,    \* how long the request has been under way
    lastAge,   \* blockhash_last_updated.elapsed()
    fresh,     \* the node has a blockhash other than last_blockhash
    rxOpen,    \* a receiver of the watch channel is alive
    goneFor,   \* how long there has been none
    misses,    \* history: requests in vain since the last update
    result     \* what run has returned

vars == <<pc, due, rpcAge, lastAge, fresh, rxOpen, goneFor, misses, result>>

\* The age of what is published when the task must have noticed, and how
\* long it may take to notice that nobody listens.
MaxAge  == StuckInterval + UpdateInterval + RpcTimeout
MaxGone == UpdateInterval + RpcTimeout

Capped(n, max) == IF n > max THEN max ELSE n

TypeOK ==
    /\ pc \in {"head", "tick", "rpc", "ended"}
    /\ due \in -MaxLate .. UpdateInterval
    /\ rpcAge \in 0 .. RpcTimeout
    /\ lastAge \in 0 .. MaxAge + 1
    /\ fresh \in BOOLEAN /\ rxOpen \in BOOLEAN
    /\ goneFor \in 0 .. MaxGone + 1
    /\ misses \in Nat
    /\ result \in {"none", "ok", "stuck"}

\* The first tick of an interval is due at once.
Init ==
    /\ pc = "head" /\ due = 0 /\ rpcAge = 0 /\ lastAge = 0
    /\ fresh = TRUE
    /\ rxOpen = TRUE /\ goneFor = 0 /\ misses = 0 /\ result = "none"

-----------------------------------------------------------------------------
(* Around the task. *)

\* A unit of time passes, unless the task has something to do.
Pass ==
    /\ pc # "head"
    /\ pc = "tick" => due > 0
    /\ pc = "rpc" => rpcAge < RpcTimeout
    /\ due' = IF due > -MaxLate THEN due - 1 ELSE due
    /\ rpcAge' = IF pc = "rpc" THEN rpcAge + 1 ELSE rpcAge
    /\ lastAge' = Capped(lastAge + 1, MaxAge + 1)
    /\ goneFor' = IF rxOpen THEN 0 ELSE Capped(goneFor + 1, MaxGone + 1)
    /\ UNCHANGED <<pc, fresh, rxOpen, misses, result>>

NewBlockhash ==
    /\ ~fresh
    /\ fresh' = TRUE
    /\ UNCHANGED <<pc, due, rpcAge, lastAge, rxOpen, goneFor, misses, result>>

DropReceiver ==
    /\ rxOpen
    /\ rxOpen' = FALSE
    /\ UNCHANGED <<pc, due, rpcAge, lastAge, fresh, goneFor, misses, result>>

-----------------------------------------------------------------------------
(* The task. *)

End(r) == pc' = "ended" /\ result' = r

\* As Head, but it does not ask whether anybody listens.
HeadBlind ==
    /\ pc = "head"
    /\ pc' = "tick"
    /\ UNCHANGED <<due, rpcAge, lastAge, fresh, rxOpen, goneFor, misses, result>>

\* sender.is_closed()
Head ==
    /\ pc = "head"
    /\ IF rxOpen THEN pc' = "tick" /\ UNCHANGED result ELSE End("ok")
    /\ UNCHANGED <<due, rpcAge, lastAge, fresh, rxOpen, goneFor, misses>>

\* As IntervalTick, but it does not wait.
IntervalTickEarly ==
    /\ pc = "tick"
    /\ pc' = "rpc" /\ rpcAge' = 0
    /\ due' = due + UpdateInterval
    /\ UNCHANGED <<lastAge, fresh, rxOpen, goneFor, misses, result>>

\* interval.tick(); ticks that were missed come in a burst.
IntervalTick ==
    /\ pc = "tick" /\ due <= 0
    /\ pc' = "rpc" /\ rpcAge' = 0
    /\ due' = due + UpdateInterval
    /\ UNCHANGED <<lastAge, fresh, rxOpen, goneFor, misses, result>>

\* As Stuck, but one turn late.
StuckLate(age)  == age > StuckInterval + UpdateInterval

Stuck(age) == age > StuckInterval

\* The rest of the turn, with the time since the last update.
AfterRpc(age) ==
    IF Stuck(age) THEN End("stuck") ELSE pc' = "head" /\ UNCHANGED result

\* As RpcSame, but an error does not count.
RpcSameRetries ==
    /\ pc = "rpc"
    /\ pc' = "head"
    /\ UNCHANGED <<due, rpcAge, lastAge, fresh, rxOpen, goneFor, misses, result>>

\* The request fails, or returns the blockhash that is already published.
RpcSame ==
    /\ pc = "rpc"
    /\ AfterRpc(lastAge)
    /\ misses' = misses + 1
    /\ UNCHANGED <<due, rpcAge, lastAge, fresh, rxOpen, goneFor>>

\* As RpcNew, but the time of the update is not noted.
RpcNewUnnoted ==
    /\ pc = "rpc" /\ fresh
    /\ fresh' = FALSE /\ misses' = 0
    /\ IF rxOpen THEN AfterRpc(lastAge) ELSE End("ok")
    /\ UNCHANGED <<due, rpcAge, lastAge, rxOpen, goneFor>>

\* It returns another one, which is published if there is a receiver.
RpcNew ==
    /\ pc = "rpc" /\ fresh
    /\ fresh' = FALSE /\ misses' = 0
    /\ IF rxOpen
       THEN lastAge' = 0 /\ AfterRpc(0)
       ELSE End("ok") /\ UNCHANGED lastAge
    /\ UNCHANGED <<due, rpcAge, rxOpen, goneFor>>

-----------------------------------------------------------------------------
Task == Head \/ IntervalTick \/ RpcSame \/ RpcNew

Next == Pass \/ NewBlockhash \/ DropReceiver \/ Task

Spec == Init /\ [][Next]_vars

\* Time goes on, and the task with it.
FairSpec == Spec /\ WF_vars(Pass) /\ WF_vars(Task)

-----------------------------------------------------------------------------
(* Properties. *)

\* While the task runs, what the receivers see was published (or the task was
\* begun) no longer ago than the three intervals together: a stuck blockhash
\* is noticed in the first turn that ends after stuck_interval.
AgeBounded == result = "none" => lastAge <= MaxAge

\* A task whose receivers are gone ends within one turn.
GoneBounded == result = "none" => goneFor <= MaxGone

\* The task does not give up on a single slow or failed request: since the last
\* blockhash it has published (or its begin), so many requests in a row have
\* come to nothing that even with the slowest turns they make up stuck_interval.
\* (With the default of 120 s, an RPC timeout of 30 s and a tick each second:
\* at least four.)  It rests on every update being noted before the check.
StuckInVain == result = "stuck" => misses * MaxGone > StuckInterval

\* Without a new blockhash the task does not go on for ever: either it
\* publishes again and again, or it ends.
PublishesOrEnds == []<>(pc = "ended" \/ lastAge = 0)

=============================================================================
