--------------------------- MODULE ExecutionLease ---------------------------
(***************************************************************************)
(* The lease of one execution (ojs.worker.execution_retry): the deadline   *)
(* the worker keeps for a job it fetched, the heartbeats that extend it,   *)
(* and the local retries of a failed handler, which sleep only while the   *)
(* lease lasts.  The backend keeps the lease that counts; the worker's     *)
(* copy starts when the fetch reply arrives and is renewed when a          *)
(* heartbeat reply arrives, so it runs behind by the calls' latency.       *)
(*                                                                         *)
(* Time is discrete and relative: every deadline is the number of ticks    *)
(* left until it, never below 0, as in ExecutionLease.remaining.           *)
(***************************************************************************)
EXTENDS Naturals

CONSTANTS
    Visibility,    \* visibility timeout of a job
    Interval,      \* heartbeat_interval
    MaxBackoff,    \* cap of the heartbeat loop's backoff (30 s)
    MaxLatency,    \* bound: ticks from sending a call to its reply being applied
    MaxRetries,    \* ExecutionRetry.max_retries
    BaseDelay,     \* ExecutionRetry.base_delay
    MaxDelay,      \* ExecutionRetry.max_delay
    LateWakes      \* may the event loop run a ready sleeper late?

ASSUME LeaseAssumption ==
    /\ Visibility \in Nat /\ Visibility >= 1
    /\ Interval \in Nat /\ Interval >= 1
    /\ MaxBackoff \in Nat /\ MaxBackoff >= 1
    /\ MaxLatency \in Nat /\ MaxLatency <= Visibility
    /\ MaxRetries \in Nat /\ BaseDelay \in Nat /\ MaxDelay \in Nat
    /\ LateWakes \in BOOLEAN

VARIABLES
    phase,       \* the execution: "none", "handler" or "sleep"
    attempt,     \* local attempts of the handler that failed
    target,      \* ticks left of the retry delay
    nap,         \* ticks left of the sleep in progress
    extended,    \* ExecutionLease._extended
    lease,       \* ExecutionLease.remaining
    serverLease, \* ticks left of the backend's lease
    beat,        \* the heartbeat loop: "off", "rest", "call" or "reply"
    beatTimer,   \* ticks left of its wait
    backoff,     \* its next backoff
    callAge,     \* ticks since the call in flight was sent
    listed,      \* the call names this execution's job
    confirmed,   \* its reply does, in jobs_extended
    failed       \* a call failed, and none has got through since with the worker idle

execution == <<phase, attempt, target, nap>>
heartbeat == <<beat, beatTimer, backoff, callAge, listed>>
vars == <<execution, extended, lease, serverLease, heartbeat, confirmed, failed>>

Least(a, b)    == IF a <= b THEN a ELSE b
Greatest(a, b) == IF a >= b THEN a ELSE b
Less(n)        == IF n = 0 THEN 0 ELSE n - 1

\* ExecutionRetry._delay: exponential, capped, with half of it jittered.
Delays(a) ==
    LET capped == Least(BaseDelay * 2^a, MaxDelay)
    IN {d \in 0..capped : 2 * d >= capped}

Init ==
    /\ phase = "none" /\ attempt = 0 /\ target = 0 /\ nap = 0
    /\ extended = FALSE /\ lease = 0 /\ serverLease = 0
    /\ beat = "rest" /\ beatTimer = 0 /\ backoff = 1 /\ callAge = 0
    /\ listed = FALSE /\ confirmed = FALSE /\ failed = FALSE

-----------------------------------------------------------------------------
(* The execution and its retries *)

\* A fetch reply starts an execution; the backend's lease began when it served
\* the fetch, lag ticks ago.  A job can come back while the reply of an earlier
\* heartbeat naming it is on its way: leases are extended by job id.
Begin ==
    /\ phase = "none" /\ beat # "off"
    /\ \E lag \in 0..MaxLatency, again \in BOOLEAN :
          /\ again /\ confirmed => lag <= callAge
          /\ serverLease' = Visibility - lag
          /\ listed' = (listed /\ again) /\ confirmed' = (confirmed /\ again)
    /\ phase' = "handler" /\ attempt' = 0
    /\ lease' = Visibility /\ extended' = FALSE
    /\ UNCHANGED <<target, nap, beat, beatTimer, backoff, callAge, failed>>

\* The execution is over: its outcome gives the job back to the backend.
End ==
    /\ phase' = "none" /\ attempt' = 0 /\ target' = 0 /\ nap' = 0
    /\ extended' = FALSE /\ lease' = 0 /\ serverLease' = 0
    /\ UNCHANGED <<heartbeat, confirmed, failed>>

\* The handler returns, fails for the last time or is cancelled.
HandlerEnds == phase = "handler" /\ End

\* One turn of sleep_for_retry's loop, with left ticks to its target: back to
\* the handler, out with LeaseBudgetExceededError, or asleep until the sooner
\* of the target and the lease's end.
SleepTurn(left) ==
    \/ /\ left = 0
       /\ phase' = "handler" /\ target' = 0 /\ nap' = 0
       /\ UNCHANGED <<extended, lease, serverLease, heartbeat, confirmed, failed>>
    \/ /\ left > 0 /\ lease > 0
       /\ phase' = "sleep" /\ target' = left /\ nap' = Least(left, lease)
       /\ extended' = FALSE
       /\ UNCHANGED <<lease, serverLease, heartbeat, confirmed, failed>>

\* The handler raises with retries left: the sleep's first turn, at once.
HandlerRaises ==
    /\ phase = "handler" /\ attempt < MaxRetries
    /\ \E delay \in Delays(attempt) :
          \/ SleepTurn(delay) /\ attempt' = attempt + 1
          \/ delay > 0 /\ lease = 0 /\ End

\* (mutant) the target is computed inside the loop: an extension restarts it.
WakeRestarts ==
    /\ phase = "sleep" /\ (extended \/ nap = 0)
    /\ \/ SleepTurn(IF extended THEN Least(BaseDelay, MaxDelay) ELSE target)
          /\ UNCHANGED attempt
       \/ target > 0 /\ lease = 0 /\ End

\* (mutant) an extension is taken for the end of the delay.
WakeEarly ==
    /\ phase = "sleep" /\ (extended \/ nap = 0)
    /\ \/ SleepTurn(IF extended THEN 0 ELSE target) /\ UNCHANGED attempt
       \/ target > 0 /\ lease = 0 /\ End

\* asyncio.wait returns: the nap is over (however late) or the lease extended.
Wake ==
    /\ phase = "sleep" /\ (extended \/ nap = 0)
    /\ \/ SleepTurn(target) /\ UNCHANGED attempt
       \/ target > 0 /\ lease = 0 /\ End

\* CancelledError in the sleep: the grace period of a drain is over.
SleepCancelled == phase = "sleep" /\ beat = "off" /\ End

-----------------------------------------------------------------------------
(* The heartbeat loop, and the backend's side of it *)

\* (mutant) an execution asleep between two retries is not named.
HeartbeatSendMisses ==
    /\ beat = "rest" /\ beatTimer = 0
    /\ beat' = "call" /\ callAge' = 0
    /\ listed' = (phase = "handler") /\ confirmed' = FALSE
    /\ UNCHANGED <<execution, extended, lease, serverLease, beatTimer, backoff, failed>>

HeartbeatSend ==
    /\ beat = "rest" /\ beatTimer = 0
    /\ beat' = "call" /\ callAge' = 0
    /\ listed' = (phase # "none") /\ confirmed' = FALSE
    /\ UNCHANGED <<execution, extended, lease, serverLease, beatTimer, backoff, failed>>

\* The backend extends the lease of a listed job it still holds, and says so.
BackendExtends ==
    /\ beat = "call"
    /\ beat' = "reply"
    /\ confirmed' = (listed /\ serverLease > 0)
    /\ serverLease' = IF confirmed' THEN Visibility ELSE serverLease
    /\ UNCHANGED <<execution, extended, lease, beatTimer, backoff, callAge, listed, failed>>

\* The loop's wait after a call, and the call's end.
Rest(ticks) ==
    /\ beat' = "rest" /\ beatTimer' = ticks
    /\ callAge' = 0 /\ listed' = FALSE /\ confirmed' = FALSE

\* (mutant) every active execution is extended, whatever jobs_extended says.
HeartbeatReplyExtendsAll ==
    /\ beat = "reply"
    /\ IF phase # "none"
       THEN lease' = Greatest(lease, Visibility) /\ extended' = TRUE
       ELSE UNCHANGED <<lease, extended>>
    /\ Rest(Interval) /\ backoff' = 1 /\ failed' = (failed /\ phase # "none")
    /\ UNCHANGED <<execution, serverLease>>

\* The reply: only executions whose job it confirms are extended.
HeartbeatReply ==
    /\ beat = "reply"
    /\ IF confirmed /\ phase # "none"
       THEN lease' = Greatest(lease, Visibility) /\ extended' = TRUE
       ELSE UNCHANGED <<lease, extended>>
    /\ Rest(Interval) /\ backoff' = 1 /\ failed' = (failed /\ phase # "none")
    /\ UNCHANGED <<execution, serverLease>>

\* The call fails, before or after the backend served it: connection and API
\* errors back off, any other is logged and waits the interval.
HeartbeatError ==
    /\ beat \in {"call", "reply"} /\ failed' = TRUE
    /\ \/ Rest(backoff) /\ backoff' = Least(backoff * 2, MaxBackoff)
       \/ Rest(Interval) /\ UNCHANGED backoff
    /\ UNCHANGED <<execution, extended, lease, serverLease>>

\* Shutdown is requested: the loop is cancelled, and the drain has no heartbeats.
HeartbeatStops ==
    /\ beat # "off"
    /\ beat' = "off" /\ beatTimer' = 0 /\ backoff' = 1
    /\ callAge' = 0 /\ listed' = FALSE /\ confirmed' = FALSE
    /\ UNCHANGED <<execution, extended, lease, serverLease, failed>>

-----------------------------------------------------------------------------
\* A tick of the clock.  The heartbeat loop's own timers are prompt; a sleeper
\* may wake up late when LateWakes says so.
Tick ==
    /\ phase = "sleep" /\ nap = 0 => LateWakes
    /\ beat = "rest" => beatTimer > 0
    /\ beat \in {"call", "reply"} => callAge < MaxLatency
    /\ lease' = Less(lease) /\ serverLease' = Less(serverLease)
    /\ target' = Less(target) /\ nap' = Less(nap)
    /\ beatTimer' = Less(beatTimer)
    /\ callAge' = IF beat \in {"call", "reply"} THEN callAge + 1 ELSE callAge
    /\ UNCHANGED <<phase, attempt, extended, beat, backoff, listed, confirmed, failed>>

HeartbeatStep ==
    \/ HeartbeatSend \/ BackendExtends \/ HeartbeatReply \/ HeartbeatError

Next ==
    \/ Begin \/ HandlerEnds \/ HandlerRaises \/ Wake \/ SleepCancelled
    \/ HeartbeatStep \/ HeartbeatStops \/ Tick

Spec == Init /\ [][Next]_vars

\* Time passes, calls end, and the event loop runs a sleeper that is ready.
FairSpec ==
    /\ Spec
    /\ WF_vars(Tick) /\ WF_vars(HeartbeatStep) /\ WF_vars(Wake)

-----------------------------------------------------------------------------
(* Properties *)

\* What is counted: ticks and attempts.
CountersOK ==
    /\ attempt \in 0..MaxRetries /\ target \in Nat /\ nap \in Nat
    /\ lease \in 0..Visibility /\ serverLease \in 0..Visibility
    /\ beatTimer \in 0..Interval \cup 0..MaxBackoff
    /\ backoff \in 1..MaxBackoff /\ callAge \in 0..MaxLatency

\* Where the two tasks are, and what is flagged.
ModesOK ==
    /\ phase \in {"none", "handler", "sleep"}
    /\ beat \in {"off", "rest", "call", "reply"}
    /\ extended \in BOOLEAN /\ listed \in BOOLEAN /\ confirmed \in BOOLEAN
    /\ failed \in BOOLEAN

\* Every variable keeps its type; the handler fails locally at most max_retries
\* times before the failure is final (execution_retry.py 111-123).
TypeOK == CountersOK /\ ModesOK

\* The worker's lease outlives the backend's by no more than one call's latency:
\* unconfirmed jobs, lost replies and stale replies never stretch it
\* (execution_retry.py 41-48, runtime.py 349-358).
OverrunBounded == lease <= serverLease + MaxLatency

\* A local retry never starts before its delay is over, however many heartbeat
\* extensions interrupt the sleep (execution_retry.py 55-90).
NoEarlyRetry ==
    [][phase = "sleep" /\ phase' = "handler" => target = 0]_vars

\* The budget error is raised only when the lease has run out with the delay
\* still to go: not at an extension and not at the end of a shorter nap
\* (execution_retry.py 59-61, 89-90).
BudgetErrorJustified ==
    [][phase = "sleep" /\ phase' = "none" /\ beat # "off"
          => lease = 0 /\ target > 0]_vars

\* A retry sleep ends in a retry when the delay is over and in the budget error
\* when the lease is, and neither is taken for the other (execution_retry.py
\* 55-90).
RetryTimely == NoEarlyRetry /\ BudgetErrorJustified

\* A retry sleep always ends: extensions keep the lease alive but do not move
\* the sleep's target (execution_retry.py 55-90).
SleepEnds == phase = "sleep" ~> phase # "sleep"

\* While its heartbeats get through, the backend never takes a job back from a
\* worker that still executes it, if the visibility timeout is longer than an
\* interval and three calls: of the fetch, of a heartbeat that was on its way
\* already and of the next (runtime.py 340-389).
LeaseKept ==
    Visibility > Interval + 3 * MaxLatency =>
        (phase # "none" /\ beat # "off" /\ ~failed => serverLease > 0)

\* What the reply on its way may say of the backend's lease: a confirmation is
\* no older than the call.
ReplyInv ==
    /\ confirmed => beat = "reply"
    /\ confirmed /\ phase # "none" => serverLease + callAge >= Visibility
    /\ beat \notin {"call", "reply"} => callAge = 0

\* The inductive invariant behind OverrunBounded (runtime.py 340-389).
IInv == TypeOK /\ OverrunBounded /\ ReplyInv

-----------------------------------------------------------------------------
(* What a comment says, which a run refutes. *)

\* execution_retry.py 1 and 15-16: local retries are constrained by the active
\* lease; a retry that would continue beyond it is a LeaseBudgetExceededError.
RetryWithinLease ==
    [][phase = "sleep" /\ phase' = "handler" => lease > 0]_vars
=============================================================================
