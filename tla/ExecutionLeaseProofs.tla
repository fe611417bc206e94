------------------------ MODULE ExecutionLeaseProofs ------------------------
(* Proofs of the safety of ExecutionLease, for every timing and retry bound. *)
EXTENDS ExecutionLease, TLAPS

\* Delays are numbers of ticks (execution_retry.py, ExecutionRetry._delay).
LEMMA DelaysAreTicks == ASSUME NEW a \in Nat, NEW d \in Delays(a) PROVE d \in Nat
  BY DEF Delays

\* Ending an execution keeps the invariant, whatever reply is on its way.
LEMMA EndKeepsIInv == ASSUME IInv, End PROVE IInv'
  <1> USE LeaseAssumption DEF IInv, TypeOK, End, heartbeat
  <1>1. CountersOK'
    BY DEF CountersOK
  <1>2. ModesOK'
    BY DEF ModesOK
  <1>3. OverrunBounded' /\ ReplyInv'
    BY DEF OverrunBounded, ReplyInv
  <1> QED BY <1>1, <1>2, <1>3

\* A turn of the sleep loop keeps it (execution_retry.py, sleep_for_retry).
LEMMA TurnKeepsIInv ==
  ASSUME IInv, NEW left \in Nat, SleepTurn(left), attempt' \in 0..MaxRetries,
         phase # "none"
  PROVE  IInv'
  <1> USE LeaseAssumption DEF IInv, TypeOK, SleepTurn, heartbeat
  <1>1. CountersOK'
    BY DEF CountersOK, Least
  <1>2. ModesOK'
    BY DEF ModesOK
  <1>3. OverrunBounded' /\ ReplyInv'
    BY DEF OverrunBounded, ReplyInv
  <1> QED BY <1>1, <1>2, <1>3

\* A worker without executions starts in the invariant.
LEMMA InitIInv == Init => IInv
  <1> SUFFICES ASSUME Init PROVE IInv
    OBVIOUS
  <1> USE LeaseAssumption DEF Init
  <1>1. CountersOK
    BY DEF CountersOK
  <1>2. ModesOK
    BY DEF ModesOK
  <1>3. OverrunBounded /\ ReplyInv
    BY DEF OverrunBounded, ReplyInv
  <1> QED BY <1>1, <1>2, <1>3 DEF IInv, TypeOK

\* Every step of the execution, the heartbeat loop and the clock preserves it.
LEMMA StepIInv == IInv /\ [Next]_vars => IInv'
  <1> SUFFICES ASSUME IInv, [Next]_vars PROVE IInv'
    OBVIOUS
  <1> USE LeaseAssumption DEF IInv, TypeOK
  <1>1. CASE Begin
    <2>1. CountersOK'
      BY <1>1 DEF Begin, CountersOK
    <2>2. ModesOK'
      BY <1>1 DEF Begin, ModesOK
    <2>3. OverrunBounded' /\ ReplyInv'
      BY <1>1 DEF Begin, CountersOK, ModesOK, OverrunBounded, ReplyInv
    <2> QED BY <2>1, <2>2, <2>3
  <1>2. CASE HandlerEnds
    BY <1>2, EndKeepsIInv DEF HandlerEnds
  <1>3. CASE HandlerRaises
    <2> attempt \in Nat /\ phase # "none" /\ attempt < MaxRetries
      BY <1>3 DEF HandlerRaises, CountersOK
    <2> PICK delay \in Delays(attempt) :
          \/ SleepTurn(delay) /\ attempt' = attempt + 1
          \/ delay > 0 /\ lease = 0 /\ End
      BY <1>3 DEF HandlerRaises
    <2> delay \in Nat
      BY DelaysAreTicks
    <2>1. CASE SleepTurn(delay) /\ attempt' = attempt + 1
      BY <2>1, TurnKeepsIInv
    <2>2. CASE End
      BY <2>2, EndKeepsIInv
    <2> QED BY <2>1, <2>2
  <1>4. CASE Wake
    <2> target \in Nat /\ attempt \in 0..MaxRetries /\ phase # "none"
      BY <1>4 DEF Wake, CountersOK
    <2>1. CASE SleepTurn(target) /\ UNCHANGED attempt
      BY <2>1, TurnKeepsIInv
    <2>2. CASE End
      BY <2>2, EndKeepsIInv
    <2> QED BY <1>4, <2>1, <2>2 DEF Wake
  <1>5. CASE SleepCancelled
    BY <1>5, EndKeepsIInv DEF SleepCancelled
  <1>6. CASE HeartbeatSend
    <2>1. CountersOK'
      BY <1>6 DEF HeartbeatSend, CountersOK, execution
    <2>2. ModesOK'
      BY <1>6 DEF HeartbeatSend, ModesOK, execution
    <2>3. OverrunBounded' /\ ReplyInv'
      BY <1>6 DEF HeartbeatSend, OverrunBounded, ReplyInv
    <2> QED BY <2>1, <2>2, <2>3
  <1>7. CASE BackendExtends
    <2>1. CountersOK'
      BY <1>7 DEF BackendExtends, CountersOK, execution
    <2>2. ModesOK'
      BY <1>7 DEF BackendExtends, ModesOK, execution
    <2>3. OverrunBounded' /\ ReplyInv'
      BY <1>7 DEF BackendExtends, CountersOK, OverrunBounded, ReplyInv, execution
    <2> QED BY <2>1, <2>2, <2>3
  <1>8. CASE HeartbeatReply
    <2>1. CountersOK'
      BY <1>8 DEF HeartbeatReply, Rest, CountersOK, Greatest, execution
    <2>2. ModesOK'
      BY <1>8 DEF HeartbeatReply, Rest, ModesOK, execution
    <2>3. OverrunBounded'
      BY <1>8 DEF HeartbeatReply, CountersOK, OverrunBounded, ReplyInv, Greatest
    <2>4. ReplyInv'
      BY <1>8 DEF HeartbeatReply, Rest, ReplyInv
    <2> QED BY <2>1, <2>2, <2>3, <2>4
  <1>9. CASE HeartbeatError
    <2>1. CountersOK'
      BY <1>9 DEF HeartbeatError, Rest, CountersOK, Least, execution
    <2>2. ModesOK'
      BY <1>9 DEF HeartbeatError, Rest, ModesOK, execution
    <2>3. OverrunBounded' /\ ReplyInv'
      BY <1>9 DEF HeartbeatError, Rest, OverrunBounded, ReplyInv
    <2> QED BY <2>1, <2>2, <2>3
  <1>10. CASE HeartbeatStops
    <2>1. CountersOK'
      BY <1>10 DEF HeartbeatStops, CountersOK, execution
    <2>2. ModesOK'
      BY <1>10 DEF HeartbeatStops, ModesOK, execution
    <2>3. OverrunBounded' /\ ReplyInv'
      BY <1>10 DEF HeartbeatStops, OverrunBounded, ReplyInv
    <2> QED BY <2>1, <2>2, <2>3
  <1>11. CASE Tick
    <2>1. CountersOK'
      BY <1>11 DEF Tick, CountersOK, Less
    <2>2. ModesOK'
      BY <1>11 DEF Tick, ModesOK
    <2>3. OverrunBounded' /\ ReplyInv'
      BY <1>11 DEF Tick, CountersOK, OverrunBounded, ReplyInv, Less
    <2> QED BY <2>1, <2>2, <2>3
  <1>12. CASE UNCHANGED vars
    BY <1>12 DEF vars, execution, heartbeat, CountersOK, ModesOK, OverrunBounded,
                 ReplyInv
  <1> QED BY <1>1, <1>2, <1>3, <1>4, <1>5, <1>6, <1>7, <1>8, <1>9, <1>10, <1>11,
             <1>12 DEF Next, HeartbeatStep

\* The inductive invariant of the lease holds in every reachable state.
THEOREM LeaseInvariance == Spec => []IInv
  BY InitIInv, StepIInv, PTL DEF Spec

\* Every variable keeps its type and local failures never exceed max_retries
\* (execution_retry.py, ExecutionRetry.run).
THEOREM LeaseTypes == Spec => []TypeOK
  <1>1. IInv => TypeOK
    BY DEF IInv
  <1> QED BY <1>1, LeaseInvariance, PTL

\* The worker believes in its lease for at most one call's latency longer than
\* the backend, for every visibility timeout, interval and latency bound
\* (ExecutionLease.extend, the heartbeat loop).
THEOREM OverrunIsBounded == Spec => []OverrunBounded
  <1>1. IInv => OverrunBounded
    BY DEF IInv
  <1> QED BY <1>1, LeaseInvariance, PTL

\* A retry sleep never returns to the handler before its target
\* (execution_retry.py, sleep_for_retry).
THEOREM RetriesWaitTheirDelay == Spec => NoEarlyRetry
  <1>1. [Next]_vars => (phase = "sleep" /\ phase' = "handler" => target = 0)
    BY DEF Next, Begin, HandlerEnds, HandlerRaises, Wake, SleepCancelled, SleepTurn,
           End, HeartbeatStep, HeartbeatSend, BackendExtends, HeartbeatReply,
           HeartbeatError, HeartbeatStops, Tick, vars, execution
  <1> QED BY <1>1, PTL DEF Spec, NoEarlyRetry

\* Without a shutdown a sleep is given up only on an exhausted lease with the
\* delay still to go (execution_retry.py, sleep_for_retry).
THEOREM BudgetErrorsJustified == Spec => BudgetErrorJustified
  <1>1. [Next]_vars =>
          (phase = "sleep" /\ phase' = "none" /\ beat # "off" => lease = 0 /\ target > 0)
    BY DEF Next, Begin, HandlerEnds, HandlerRaises, Wake, SleepCancelled, SleepTurn,
           End, HeartbeatStep, HeartbeatSend, BackendExtends, HeartbeatReply,
           HeartbeatError, HeartbeatStops, Tick, vars, execution
  <1> QED BY <1>1, PTL DEF Spec, BudgetErrorJustified

\* A retry sleep ends as the delay and the lease say (execution_retry.py,
\* sleep_for_retry).
THEOREM RetriesAreTimely == Spec => RetryTimely
  BY RetriesWaitTheirDelay, BudgetErrorsJustified DEF RetryTimely

-----------------------------------------------------------------------------
\* The backend's lease lasts until a heartbeat that names the job reaches it: of
\* the next one while the loop rests, of the one in flight if it names the job,
\* and of the one after it if it does not.
RenewedInTime ==
    /\ beat = "rest" /\ ~failed => beatTimer <= Interval
    /\ phase # "none" /\ ~failed =>
         /\ beat = "rest" => serverLease > beatTimer + MaxLatency
         /\ beat = "call" /\ listed => serverLease + callAge > MaxLatency
         /\ (beat = "call" /\ ~listed) \/ (beat = "reply" /\ ~confirmed) =>
              serverLease + callAge > Interval + MaxLatency + MaxLatency

\* The visibility timeout LeaseKept asks for.
Roomy == Visibility > Interval + 3 * MaxLatency

LEMMA RoomyMeans == Roomy => Visibility > Interval + MaxLatency + MaxLatency + MaxLatency
  BY LeaseAssumption DEF Roomy

\* It is kept where the visibility timeout allows it, by every step of the
\* execution, the heartbeat loop and the clock.
LEMMA StepRenewedInTime ==
  ASSUME Roomy, IInv, RenewedInTime, [Next]_vars
  PROVE  RenewedInTime'
  <1>1. /\ lease \in Nat /\ serverLease \in Nat /\ beatTimer \in Nat /\ callAge \in Nat
        /\ callAge <= MaxLatency /\ beat \in {"off", "rest", "call", "reply"}
        /\ listed \in BOOLEAN /\ confirmed \in BOOLEAN /\ failed \in BOOLEAN
        /\ confirmed => beat = "reply"
        /\ confirmed /\ phase # "none" => serverLease + callAge >= Visibility
        /\ beat \notin {"call", "reply"} => callAge = 0
    BY LeaseAssumption DEF IInv, TypeOK, CountersOK, ModesOK, ReplyInv
  <1>2. ASSUME End PROVE RenewedInTime'
    BY <1>2 DEF End, RenewedInTime, heartbeat
  <1>3. ASSUME NEW left, SleepTurn(left), phase # "none" PROVE RenewedInTime'
    BY <1>3 DEF SleepTurn, RenewedInTime, heartbeat
  <1> USE LeaseAssumption
  <1>4. CASE Begin
    <2>1. PICK lag \in 0 .. MaxLatency, again \in BOOLEAN :
            /\ again /\ confirmed => lag <= callAge
            /\ serverLease' = Visibility - lag
            /\ listed' = (listed /\ again) /\ confirmed' = (confirmed /\ again)
      BY <1>4 DEF Begin
    <2>2. /\ beat' = beat /\ beatTimer' = beatTimer /\ callAge' = callAge
          /\ failed' = failed
      BY <1>4 DEF Begin
    <2>3. PICK left \in Nat :
            serverLease' = left /\ left > Interval + MaxLatency + MaxLatency
      BY <2>1, RoomyMeans
    <2>4. beat = "rest" /\ ~failed => beatTimer <= Interval
      BY DEF RenewedInTime
    <2>5. /\ left + callAge > Interval + MaxLatency + MaxLatency
          /\ left + callAge > MaxLatency
          /\ beatTimer <= Interval => left > beatTimer + MaxLatency
      BY <1>1, <2>3
    <2> QED BY <2>2, <2>3, <2>4, <2>5 DEF RenewedInTime
  <1>5. CASE HandlerEnds
    BY <1>2, <1>5 DEF HandlerEnds
  <1>6. CASE HandlerRaises
    BY <1>2, <1>3, <1>6 DEF HandlerRaises
  <1>7. CASE Wake
    BY <1>2, <1>3, <1>7 DEF Wake
  <1>8. CASE SleepCancelled
    BY <1>2, <1>8 DEF SleepCancelled
  <1>9. CASE HeartbeatSend
    <2>1. /\ beat = "rest" /\ beatTimer = 0 /\ beat' = "call" /\ callAge' = 0
          /\ listed' = (phase # "none") /\ phase' = phase /\ failed' = failed
          /\ serverLease' = serverLease
      BY <1>9 DEF HeartbeatSend, execution
    <2>2. phase # "none" /\ ~failed => serverLease + 0 > MaxLatency
      BY <1>1, <2>1 DEF RenewedInTime
    <2>3. phase # "none" => listed'
      BY <2>1
    <2> QED BY <2>1, <2>2, <2>3 DEF RenewedInTime
  <1>10. CASE BackendExtends
    <2>1. /\ beat = "call" /\ beat' = "reply" /\ confirmed' = (listed /\ serverLease > 0)
          /\ serverLease' = IF confirmed' THEN Visibility ELSE serverLease
          /\ phase' = phase /\ callAge' = callAge /\ failed' = failed
      BY <1>10 DEF BackendExtends, execution
    <2>2. CASE listed /\ serverLease > 0
      <3>1. confirmed'
        BY <2>1, <2>2
      <3> QED BY <2>1, <3>1 DEF RenewedInTime
    <2>3. CASE ~listed
      <3>1. serverLease' = serverLease /\ ~confirmed'
        BY <2>1, <2>3
      <3> QED BY <2>1, <2>3, <3>1 DEF RenewedInTime
    <2>4. CASE listed /\ ~(serverLease > 0)
      <3>1. phase = "none" \/ failed
        BY <1>1, <2>1, <2>4 DEF RenewedInTime
      <3> QED BY <2>1, <3>1 DEF RenewedInTime
    <2> QED BY <2>2, <2>3, <2>4
  <1>11. CASE HeartbeatReply
    <2>1. /\ beat = "reply" /\ beat' = "rest" /\ beatTimer' = Interval
          /\ phase' = phase /\ serverLease' = serverLease
          /\ phase # "none" /\ ~failed' => ~failed
      BY <1>11 DEF HeartbeatReply, Rest, execution
    <2>2. ASSUME phase # "none", ~failed
          PROVE  serverLease > Interval + MaxLatency
      <3>1. \/ confirmed /\ serverLease + callAge >= Visibility
            \/ serverLease + callAge > Interval + MaxLatency + MaxLatency
        BY <1>1, <2>1, <2>2 DEF RenewedInTime
      <3> QED BY <1>1, <3>1, RoomyMeans
    <2>3. beatTimer' <= Interval
      BY <1>1, <2>1, LeaseAssumption
    <2> QED BY <2>1, <2>2, <2>3 DEF RenewedInTime
  <1>12. CASE HeartbeatError
    BY <1>12 DEF HeartbeatError, Rest, RenewedInTime
  <1>13. CASE HeartbeatStops
    BY <1>13 DEF HeartbeatStops, RenewedInTime
  <1>14. CASE Tick
    BY <1>1, <1>14 DEF Tick, Less, RenewedInTime
  <1>15. CASE UNCHANGED vars
    BY <1>15 DEF vars, execution, heartbeat, RenewedInTime
  <1> QED BY <1>4, <1>5, <1>6, <1>7, <1>8, <1>9, <1>10, <1>11, <1>12, <1>13, <1>14,
             <1>15 DEF Next, HeartbeatStep

\* A worker whose heartbeats get through keeps the backend's lease of the job it
\* executes, for every visibility timeout longer than an interval and three calls
\* (runtime.py, the heartbeat loop; ExecutionLease.extend).
THEOREM LeaseIsKept == Spec => []LeaseKept
  <1> DEFINE Inv == IInv /\ (Roomy => RenewedInTime)
  <1>1. Init => Inv
    <2>1. Init => RenewedInTime
      BY LeaseAssumption DEF Init, RenewedInTime
    <2> QED BY <2>1, InitIInv
  <1>2. Inv /\ [Next]_vars => Inv'
    BY StepIInv, StepRenewedInTime DEF Roomy
  <1>3. Inv => LeaseKept
    <2> SUFFICES ASSUME Inv, Roomy, phase # "none", beat # "off", ~failed
                 PROVE  serverLease > 0
      BY DEF LeaseKept, Roomy
    <2>1. /\ serverLease \in Nat /\ beatTimer \in Nat /\ callAge \in Nat
          /\ callAge <= MaxLatency /\ beat \in {"rest", "call", "reply"}
          /\ listed \in BOOLEAN /\ confirmed \in BOOLEAN
          /\ confirmed => serverLease + callAge >= Visibility
      BY LeaseAssumption DEF IInv, TypeOK, CountersOK, ModesOK, ReplyInv
    <2>2. Visibility > Interval + MaxLatency + MaxLatency + MaxLatency
      BY RoomyMeans
    <2> QED BY <2>1, <2>2, LeaseAssumption DEF RenewedInTime
  <1> QED BY <1>1, <1>2, <1>3, PTL DEF Spec
=============================================================================
