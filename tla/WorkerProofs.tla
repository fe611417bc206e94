---------------------------- MODULE WorkerProofs ----------------------------
(***************************************************************************)
(* Proofs about Worker for every set of tokens, every concurrency and      *)
(* every number of delivery attempts.                                      *)
(***************************************************************************)
EXTENDS Worker, FiniteSetTheorems, TLAPS

\* Reserving exactly the available capacity, in fresh tokens, fills the
\* admission to its capacity and not beyond (lease_admission.py 35-43).
LEMMA ReserveFits ==
    ASSUME NEW P \in SUBSET Tokens, NEW new \in SUBSET Tokens,
           Cardinality(P) <= Concurrency,
           Cardinality(new) = Concurrency - Cardinality(P)
    PROVE  Cardinality(P \cup new) <= Concurrency
<1>1. IsFiniteSet(P) /\ IsFiniteSet(new)
  BY TokensAssumption, FS_Subset
<1>2. Cardinality(P) \in Nat /\ Cardinality(new) \in Nat
  BY <1>1, FS_CardinalityType
<1>3. Cardinality(P \cup new)
        = Cardinality(P) + Cardinality(new) - Cardinality(P \cap new)
  BY <1>1, FS_Union
<1>4. IsFiniteSet(P \cap new) /\ Cardinality(P \cap new) \in Nat
  BY <1>1, FS_Subset, FS_CardinalityType
<1>. QED
  BY <1>2, <1>3, <1>4, ConcurrencyAssumption

\* Giving permits back keeps the admission within its capacity.
LEMMA ReleaseFits ==
    ASSUME NEW P \in SUBSET Tokens, NEW Q \in SUBSET P,
           Cardinality(P) <= Concurrency
    PROVE  Cardinality(Q) <= Concurrency
<1>1. IsFiniteSet(P) /\ IsFiniteSet(Q) /\ Cardinality(Q) <= Cardinality(P)
  BY TokensAssumption, FS_Subset
<1>2. Cardinality(P) \in Nat /\ Cardinality(Q) \in Nat
  BY <1>1, FS_CardinalityType
<1>. QED
  BY <1>1, <1>2, ConcurrencyAssumption

-----------------------------------------------------------------------------
\* A worker that was never started satisfies the invariant.
LEMMA InitIInv == Init => IInv
<1>1. Init => Cardinality(permits) <= Concurrency
  BY FS_EmptySet, ConcurrencyAssumption DEF Init
<1>2. Init => TypeOK
  <2>. SUFFICES ASSUME Init PROVE TypeOK
    OBVIOUS
  <2>1. /\ task \in [Tokens -> {"none", "handler", "deliver", "backoff"}]
        /\ outcome \in [Tokens -> Outcomes \cup {"none"}]
        /\ cancelled \in [Tokens -> BOOLEAN]
        /\ sent \in [Tokens -> SUBSET Calls]
    BY DEF Init
  <2>2. /\ attempt \in [Tokens -> 0..MaxAttempts]
        /\ surplus \in 0..MaxSurplus
    BY BoundsAssumption DEF Init
  <2>. QED
    BY <2>1, <2>2 DEF Init, TypeOK, WorkerStates
<1>3. Init => RegistryIsComplete /\ HeldIsFresh /\ ReporterInv
  BY DEF Init, RegistryIsComplete, HeldIsFresh, ReporterInv, Live
<1>4. Init => PermitConservation /\ LifecycleInv
  BY <1>1 DEF Init, PermitConservation, LifecycleInv
<1>. QED
  BY <1>2, <1>3, <1>4 DEF IInv

\* Every action of the worker preserves it.
LEMMA StepIInv == IInv /\ [Next]_vars => IInv'
<1>. SUFFICES ASSUME IInv, [Next]_vars PROVE IInv'
  OBVIOUS
<1>. USE DEF IInv, TypeOK, PermitConservation, RegistryIsComplete, LifecycleInv,
      ReporterInv, HeldIsFresh, Live, WorkerStates, Outcomes, Calls, lifecycle, loops, pool, exec, Kind
<1>. USE BoundsAssumption, ConcurrencyAssumption
<1>1. CASE Start
  BY <1>1 DEF Start
<1>2. CASE Stop
  BY <1>2 DEF Stop, RequestTermination
<1>3. CASE SignalArrives
  BY <1>3 DEF SignalArrives
<1>4. CASE SignalCallback
  BY <1>4 DEF SignalCallback, RequestTermination
<1>5. CASE StaleSignalCallback
  BY <1>5 DEF StaleSignalCallback
<1>6. CASE CancelStart
  BY <1>6 DEF CancelStart
<1>7. CASE CoordinatorWakes
  BY <1>7 DEF CoordinatorWakes
<1>8. CASE LoopsGathered
  BY <1>8 DEF LoopsGathered
<1>9. CASE Drained
  BY <1>9, FS_EmptySet DEF Drained, FinishRun
<1>10. CASE GraceExpires
  BY <1>10 DEF GraceExpires
<1>11. CASE Reaped
  BY <1>11, FS_EmptySet DEF Reaped, FinishRun
<1>12. CASE DrainInterrupted
  <2>. USE <1>12 DEF DrainInterrupted, FinishRun
  <2>1. Cardinality(permits') <= Concurrency
    BY FS_EmptySet
  <2>2. PermitConservation'
    BY <2>1
  <2>3. TypeOK'
    OBVIOUS
  <2>4. RegistryIsComplete' /\ HeldIsFresh'
    OBVIOUS
  <2>5. LifecycleInv'
    OBVIOUS
  <2>6. ReporterInv'
    OBVIOUS
  <2>. QED
    BY <2>2, <2>3, <2>4, <2>5, <2>6
<1>13. CASE FetchReserve
  <2>1. PICK new \in SUBSET Free : /\ Cardinality(new) = Available
                                 /\ held' = new
                                 /\ permits' = permits \cup new
    BY <1>13 DEF FetchReserve
  <2>2. /\ fetchLoop = "poll" /\ fetchLoop' = "call" /\ ~fetchCancel /\ ~shutdown
        /\ UNCHANGED <<lifecycle, fetchCancel, heartbeat, heartbeatCancel, surplus,
                       executions, orphans, exec>>
    BY <1>13 DEF FetchReserve
  <2>3. Cardinality(permits') <= Concurrency
    BY <2>1, ReserveFits DEF Available, Free
  <2>4. held = {} /\ new \cap Live = {} /\ new \subseteq Tokens
    BY <2>1, <2>2 DEF Free
  <2>5. PermitConservation'
    BY <2>1, <2>2, <2>3, <2>4
  <2>6. TypeOK'
    BY <2>1, <2>2, <2>4
  <2>7. RegistryIsComplete' /\ HeldIsFresh'
    BY <2>1, <2>2, <2>4
  <2>8. LifecycleInv' /\ ReporterInv'
    BY <2>2
  <2>. QED
    BY <2>5, <2>6, <2>7, <2>8
<1>14. CASE FetchExits
  BY <1>14 DEF FetchExits
<1>15. CASE FetchReply
  <2>1. PICK admitted \in SUBSET held, extra \in 0..MaxSurplus,
             unknown \in SUBSET held :
          /\ unknown \subseteq admitted
          /\ task' = [t \in Tokens |-> IF t \in unknown THEN "deliver"
                                       ELSE IF t \in admitted THEN "handler"
                                       ELSE task[t]]
          /\ outcome' = [t \in Tokens |-> IF t \in unknown THEN "failed"
                                          ELSE outcome[t]]
          /\ attempt' = [t \in Tokens |-> IF t \in unknown THEN 1
                                          ELSE attempt[t]]
          /\ sent' = [t \in Tokens |-> IF t \in unknown THEN {"nack"}
                                       ELSE sent[t]]
          /\ executions' = executions \cup admitted
          /\ permits' = permits \ (held \ admitted)
          /\ surplus' = extra
          /\ fetchLoop' = IF extra > 0 THEN "reject" ELSE "poll"
    BY <1>15 DEF FetchReply
  <2>2. /\ fetchLoop = "call" /\ ~fetchCancel /\ held' = {}
        /\ UNCHANGED <<lifecycle, fetchCancel, heartbeat, heartbeatCancel,
                       orphans, cancelled>>
    BY <1>15 DEF FetchReply
  <2>3. Cardinality(permits') <= Concurrency
    BY <2>1, ReleaseFits
  <2>4. PermitConservation'
    BY <2>1, <2>2, <2>3
  <2>5. TypeOK'
    <3>1. /\ task' \in [Tokens -> {"none", "handler", "deliver", "backoff"}]
          /\ outcome' \in [Tokens -> Outcomes \cup {"none"}]
          /\ attempt' \in [Tokens -> 0..MaxAttempts]
          /\ sent' \in [Tokens -> SUBSET Calls]
      BY <2>1
    <3>2. /\ executions' \subseteq Tokens /\ permits' \subseteq Tokens
          /\ surplus' \in 0..MaxSurplus
          /\ fetchLoop' \in {"off", "poll", "call", "reject"}
      BY <2>1
    <3>. QED
      BY <2>2, <3>1, <3>2
  <2>6. Live' = Live \cup admitted
    BY <2>1
  <2>7. RegistryIsComplete' /\ HeldIsFresh'
    <3>1. admitted \cap orphans = {}
      BY DEF RegistryIsComplete, HeldIsFresh
    <3>. QED
      BY <2>1, <2>2, <2>6, <3>1
  <2>8. LifecycleInv'
    BY <2>1, <2>2
  <2>9. ReporterInv'
    <3>1. \A t \in admitted : task[t] = "none"
      OBVIOUS
    <3>. QED
      BY <2>1, <3>1
  <2>. QED
    BY <2>4, <2>5, <2>7, <2>8, <2>9
<1>16. CASE FetchError
  <2>. USE <1>16 DEF FetchError
  <2>1. Cardinality(permits') <= Concurrency
    BY ReleaseFits
  <2>2. PermitConservation'
    BY <2>1
  <2>3. TypeOK'
    OBVIOUS
  <2>4. RegistryIsComplete' /\ HeldIsFresh'
    OBVIOUS
  <2>5. LifecycleInv'
    OBVIOUS
  <2>6. ReporterInv'
    OBVIOUS
  <2>. QED
    BY <2>2, <2>3, <2>4, <2>5, <2>6
<1>17. CASE SurplusRejected
  BY <1>17 DEF SurplusRejected
<1>18. CASE SurplusAbandoned
  BY <1>18 DEF SurplusAbandoned
<1>19. CASE FetchCancelled
  <2>. USE <1>19 DEF FetchCancelled
  <2>1. Cardinality(permits') <= Concurrency
    BY ReleaseFits
  <2>2. PermitConservation'
    BY <2>1
  <2>3. TypeOK'
    <3>1. permits' \subseteq Tokens /\ surplus' \in 0..MaxSurplus
      OBVIOUS
    <3>. QED
      BY <3>1
  <2>4. RegistryIsComplete' /\ HeldIsFresh'
    OBVIOUS
  <2>5. LifecycleInv'
    OBVIOUS
  <2>6. ReporterInv'
    OBVIOUS
  <2>. QED
    BY <2>2, <2>3, <2>4, <2>5, <2>6
<1>20. CASE HeartbeatSend
  BY <1>20 DEF HeartbeatSend
<1>21. CASE HeartbeatExits
  BY <1>21 DEF HeartbeatExits
<1>22. CASE HeartbeatError
  BY <1>22 DEF HeartbeatError
<1>23. CASE HeartbeatCancelled
  BY <1>23 DEF HeartbeatCancelled
<1>24. ASSUME NEW d \in Directives, HeartbeatReply(d) PROVE IInv'
  BY <1>24 DEF HeartbeatReply, Directives, ApplyDirective, RequestTermination
<1>25. ASSUME NEW t \in Tokens, HandlerEnds(t) PROVE IInv'
  BY <1>25 DEF HandlerEnds, Report
<1>26. ASSUME NEW t \in Tokens, HandlerSwallows(t) PROVE IInv'
  BY <1>26 DEF HandlerSwallows
<1>27. ASSUME NEW t \in Tokens, DeliverySettles(t) PROVE IInv'
  <2>. USE <1>27 DEF DeliverySettles, EndExecution
  <2>1. Cardinality(permits') <= Concurrency
    BY ReleaseFits
  <2>2. PermitConservation'
    BY <2>1
  <2>3. TypeOK'
    OBVIOUS
  <2>4. RegistryIsComplete' /\ HeldIsFresh'
    OBVIOUS
  <2>5. LifecycleInv'
    OBVIOUS
  <2>6. ReporterInv'
    OBVIOUS
  <2>. QED
    BY <2>2, <2>3, <2>4, <2>5, <2>6
<1>28. ASSUME NEW t \in Tokens, DeliveryRetries(t) PROVE IInv'
  BY <1>28 DEF DeliveryRetries
<1>29. ASSUME NEW t \in Tokens, DeliveryResumes(t) PROVE IInv'
  BY <1>29 DEF DeliveryResumes
<1>30. ASSUME NEW t \in Tokens, DeliveryCancelled(t) PROVE IInv'
  <2>. USE <1>30 DEF DeliveryCancelled, EndExecution
  <2>1. Cardinality(permits') <= Concurrency
    BY ReleaseFits
  <2>2. PermitConservation'
    BY <2>1
  <2>3. TypeOK'
    <3>1. /\ task' \in [Tokens -> {"none", "handler", "deliver", "backoff"}]
          /\ outcome' \in [Tokens -> Outcomes \cup {"none"}]
          /\ attempt' \in [Tokens -> 0..MaxAttempts]
          /\ cancelled' \in [Tokens -> BOOLEAN]
          /\ sent' \in [Tokens -> SUBSET Calls]
      OBVIOUS
    <3>. QED
      BY <3>1
  <2>4. RegistryIsComplete' /\ HeldIsFresh'
    OBVIOUS
  <2>5. LifecycleInv'
    OBVIOUS
  <2>6. ReporterInv'
    OBVIOUS
  <2>. QED
    BY <2>2, <2>3, <2>4, <2>5, <2>6
<1>31. CASE UNCHANGED vars
  BY <1>31 DEF vars
<1>. QED
  BY <1>1, <1>2, <1>3, <1>4, <1>5, <1>6, <1>7, <1>8, <1>9, <1>10, <1>11, <1>12, <1>13,
     <1>14, <1>15, <1>16, <1>17, <1>18, <1>19, <1>20, <1>21, <1>22, <1>23, <1>24, <1>25,
     <1>26, <1>27, <1>28, <1>29, <1>30, <1>31
  DEF Next, Control, Coordinator, FetchStep, HeartbeatStep, ExecutionStep

\* The inductive invariant holds in every reachable state of the worker.
THEOREM Invariance == Spec => []IInv
<1>. QED
  BY InitIInv, StepIInv, PTL DEF Spec

\* Types, and at most max_attempts deliveries, at every await (TypeOK).
THEOREM TypeCorrectness == Spec => []TypeOK
<1>1. IInv => TypeOK
  BY DEF IInv
<1>. QED
  BY <1>1, Invariance, PTL

\* No permit is ever lost, shared or over-issued: every exit of a fetch call,
\* every end of an execution and every end of a run gives back what it holds.
THEOREM AdmissionConserved == Spec => []PermitConservation
<1>1. IInv => PermitConservation
  BY DEF IInv
<1>. QED
  BY <1>1, Invariance, PTL

\* Every unfinished execution task is in the registry the drain waits on.
THEOREM RegistryCompleteness == Spec => []RegistryIsComplete
<1>1. IInv => RegistryIsComplete
  BY DEF IInv
<1>. QED
  BY <1>1, Invariance, PTL

\* Capacity and tasks agree at every await of the runtime (lease_admission.py,
\* execution_registry.py).
THEOREM AdmissionIsAccounted == Spec => []AdmissionAccounted
<1>1. PermitConservation /\ RegistryIsComplete => AdmissionAccounted
  BY DEF AdmissionAccounted
<1>. QED
  BY <1>1, AdmissionConserved, RegistryCompleteness, PTL

\* An execution that was acknowledged is never also rejected, nor the reverse.
THEOREM SingleOutcome == Spec => []OneOutcome
<1>1. IInv => OneOutcome
  <2>. SUFFICES ASSUME IInv, NEW t \in Tokens
                PROVE  ~({"ack", "nack"} \subseteq sent[t])
    BY DEF OneOutcome
  <2>1. sent[t] = {} \/ sent[t] = {Kind(outcome[t])}
    BY DEF IInv, TypeOK, ReporterInv
  <2>. QED
    BY <2>1
<1>. QED
  BY <1>1, Invariance, PTL

-----------------------------------------------------------------------------
(* Action properties *)

\* The only two steps that end an execution task are the end of a delivery and
\* its cancellation.
LEMMA TaskEnds ==
    ASSUME IInv, Next, NEW t \in Tokens, task[t] # "none", task'[t] = "none"
    PROVE  DeliverySettles(t) \/ DeliveryCancelled(t)
<1>. USE DEF IInv, TypeOK, exec
<1>1. ASSUME UNCHANGED task PROVE FALSE
  BY <1>1
<1>2. ~Control
  BY <1>1 DEF Control, Start, Stop, SignalArrives, SignalCallback,
              StaleSignalCallback, CancelStart
<1>3. ~Coordinator
  BY <1>1 DEF Coordinator, CoordinatorWakes, LoopsGathered, Drained, GraceExpires,
              Reaped, DrainInterrupted, FinishRun
<1>4. ~HeartbeatStep
  BY <1>1 DEF HeartbeatStep, HeartbeatSend, HeartbeatExits, HeartbeatError,
              HeartbeatCancelled, HeartbeatReply
<1>5. ~FetchReply
  BY DEF FetchReply
<1>6. ~FetchStep
  BY <1>1, <1>5 DEF FetchStep, FetchReserve, FetchExits, FetchError, SurplusRejected,
                    SurplusAbandoned, FetchCancelled
<1>7. PICK u \in Tokens : ExecutionStep(u)
  BY <1>2, <1>3, <1>4, <1>6 DEF Next
<1>8. ~HandlerEnds(u) /\ ~DeliveryRetries(u) /\ ~DeliveryResumes(u) /\ ~HandlerSwallows(u)
  BY <1>1 DEF HandlerEnds, Report, HandlerSwallows, DeliveryRetries, DeliveryResumes
<1>9. EndExecution(u) => u = t
  BY DEF EndExecution
<1>. QED
  BY <1>7, <1>8, <1>9 DEF ExecutionStep, DeliverySettles, DeliveryCancelled

\* No execution ends without having handed its outcome to the transport.
THEOREM EndsAreReported == Spec => NoSilentEnd
<1>1. IInv /\ [Next]_vars =>
        [\A t \in Tokens : task[t] # "none" /\ task'[t] = "none" => sent[t] # {}]_vars
  <2>. SUFFICES ASSUME IInv, Next, NEW t \in Tokens,
                       task[t] # "none", task'[t] = "none"
                PROVE  sent[t] # {}
    OBVIOUS
  <2>1. task[t] \in {"deliver", "backoff"}
    BY TaskEnds DEF DeliverySettles, DeliveryCancelled
  <2>. QED
    BY <2>1 DEF IInv, ReporterInv
<1>. QED
  BY <1>1, Invariance, PTL DEF Spec, NoSilentEnd

\* A run whose caller did not give it up returns with nothing executing.
THEOREM ReturnsDrained == Spec => StopDrains
<1>1. IInv /\ [Next]_vars => [run /\ ~run' /\ ~interrupted => executions = {}]_vars
  <2>. SUFFICES ASSUME Next, run, ~run', ~interrupted PROVE executions = {}
    OBVIOUS
  <2>1. ASSUME UNCHANGED run PROVE FALSE
    BY <2>1
  <2>2. ~Control /\ ~FetchStep /\ ~HeartbeatStep
    BY <2>1 DEF Control, Start, Stop, SignalArrives, SignalCallback,
              StaleSignalCallback, CancelStart, lifecycle, FetchStep, FetchReserve,
              FetchExits, FetchReply, FetchError, SurplusRejected, SurplusAbandoned,
              FetchCancelled, HeartbeatStep, HeartbeatSend, HeartbeatExits,
              HeartbeatError, HeartbeatCancelled, HeartbeatReply
  <2>3. ASSUME NEW t \in Tokens PROVE ~ExecutionStep(t)
    BY <2>1 DEF ExecutionStep, HandlerEnds, HandlerSwallows, DeliverySettles,
                DeliveryRetries, DeliveryResumes, DeliveryCancelled, EndExecution,
                lifecycle
  <2>4. Coordinator
    BY <2>2, <2>3 DEF Next
  <2>. QED
    BY <2>1, <2>4 DEF Coordinator, CoordinatorWakes, LoopsGathered, Drained,
                      GraceExpires, Reaped, DrainInterrupted
<1>. QED
  BY <1>1, Invariance, PTL DEF Spec, StopDrains

\* While a run shuts down its published state only moves to TERMINATE.
THEOREM ShutdownStateOneWay == Spec => ShutdownIsOneWay
<1>1. IInv /\ [Next]_vars =>
        [run /\ shutdown /\ run' => state' \in {state, "terminate"}]_vars
  <2>. SUFFICES ASSUME Next, run, shutdown, run'
                PROVE  state' \in {state, "terminate"}
    OBVIOUS
  <2>. USE DEF lifecycle
  <2>1. CASE Control
    BY <2>1 DEF Control, Start, Stop, SignalArrives, SignalCallback,
                StaleSignalCallback, CancelStart, RequestTermination
  <2>2. CASE Coordinator
    BY <2>2 DEF Coordinator, CoordinatorWakes, LoopsGathered, Drained, GraceExpires,
                Reaped, DrainInterrupted, FinishRun
  <2>3. CASE FetchStep
    BY <2>3 DEF FetchStep, FetchReserve, FetchExits, FetchReply, FetchError,
                SurplusRejected, SurplusAbandoned, FetchCancelled
  <2>4. CASE HeartbeatStep
    BY <2>4 DEF HeartbeatStep, HeartbeatSend, HeartbeatExits, HeartbeatError,
                HeartbeatCancelled, HeartbeatReply, ApplyDirective, RequestTermination
  <2>5. ASSUME NEW t \in Tokens, ExecutionStep(t)
        PROVE  state' \in {state, "terminate"}
    BY <2>5 DEF ExecutionStep, HandlerEnds, HandlerSwallows, DeliverySettles,
                DeliveryRetries, DeliveryResumes, DeliveryCancelled, EndExecution
  <2>. QED
    BY <2>1, <2>2, <2>3, <2>4, <2>5 DEF Next
<1>. QED
  BY <1>1, Invariance, PTL DEF Spec, ShutdownIsOneWay
-----------------------------------------------------------------------------
(* The worker implements WorkerContract *)

\* The loops' own steps that leave executions, orphans and start() alone are
\* stuttering steps of the contract.
LEMMA ContractStutter ==
    ASSUME UNCHANGED <<start, interrupted, executions, orphans>>
    PROVE  UNCHANGED Contract!vars
BY DEF Contract!vars, Phase

\* A reply to a fetch admits within capacity, and only before the run closes.
LEMMA ContractAdmit ==
    ASSUME IInv, IInv', FetchReply PROVE Contract!Admit
<1>. USE DEF lifecycle
<1>1. PICK admitted \in SUBSET held : executions' = executions \cup admitted
  BY DEF FetchReply
<1>2. start = "wait" /\ UNCHANGED <<start, interrupted, orphans>>
  BY DEF FetchReply, IInv, TypeOK, LifecycleInv
<1>3. admitted \in SUBSET (Tokens \ (executions \cup orphans))
  BY <1>1 DEF IInv, TypeOK, RegistryIsComplete, HeldIsFresh
<1>4. Cardinality(executions') <= Concurrency
  <2>1. executions' \subseteq permits' /\ permits' \in SUBSET Tokens
    BY DEF IInv, TypeOK, PermitConservation
  <2>2. Cardinality(permits') <= Concurrency
    BY DEF IInv, PermitConservation
  <2>. QED
    BY <2>1, <2>2, ReleaseFits
<1>5. Phase = "serving" /\ Phase' = "serving"
  BY <1>2 DEF Phase
<1>6. Contract!Cardinality(executions') = Cardinality(executions')
  BY DEF Contract!Cardinality, Cardinality
<1>. QED
  BY <1>1, <1>2, <1>3, <1>4, <1>5, <1>6 DEF Contract!Admit

\* The end of an execution settles one job of the contract.
LEMMA ContractSettle ==
    ASSUME IInv, NEW t \in Tokens, task[t] # "none", EndExecution(t)
    PROVE  Contract!Settle
<1>1. t \in executions \cup orphans
  BY DEF IInv, RegistryIsComplete, Live
<1>. QED
  BY <1>1 DEF EndExecution, Contract!Settle, Phase, lifecycle

\* Every step of the worker is a step of the contract, or none.
LEMMA ContractStep ==
    ASSUME IInv, IInv', [Next]_vars PROVE [Contract!Next]_(Contract!vars)
<1>. USE DEF lifecycle, pool, Contract!Next
<1>1. CASE UNCHANGED vars
  BY <1>1, ContractStutter DEF vars
<1>2. CASE Control
  <2>1. CASE Start
    BY <2>1 DEF Start, IInv, LifecycleInv, Contract!Begin, Phase
  <2>2. CASE CancelStart
    BY <2>2 DEF CancelStart, IInv, TypeOK, LifecycleInv, Contract!Interrupt, Phase
  <2>3. CASE Stop \/ SignalArrives \/ SignalCallback \/ StaleSignalCallback
    BY <2>3, ContractStutter
    DEF Stop, SignalArrives, SignalCallback, StaleSignalCallback
  <2>. QED
    BY <1>2, <2>1, <2>2, <2>3 DEF Control
<1>3. CASE Coordinator
  <2>. USE DEF IInv, Phase
  <2>1. CASE CoordinatorWakes
    BY <2>1 DEF CoordinatorWakes, Contract!Close
  <2>2. CASE LoopsGathered
    BY <2>2 DEF LoopsGathered, Contract!Drain
  <2>3. CASE Drained \/ Reaped
    BY <2>3 DEF Drained, Reaped, FinishRun, Contract!Return
  <2>4. CASE GraceExpires
    BY <2>4 DEF GraceExpires, Contract!vars
  <2>5. CASE DrainInterrupted
    BY <2>5 DEF DrainInterrupted, FinishRun, Contract!Abandon
  <2>. QED
    BY <1>3, <2>1, <2>2, <2>3, <2>4, <2>5 DEF Coordinator
<1>4. CASE FetchStep
  <2>1. CASE FetchReply
    BY <2>1, ContractAdmit
  <2>2. CASE ~FetchReply
    BY <1>4, <2>2, ContractStutter
    DEF FetchStep, FetchReserve, FetchExits, FetchError, SurplusRejected,
        SurplusAbandoned, FetchCancelled
  <2>. QED
    BY <2>1, <2>2
<1>5. CASE HeartbeatStep
  BY <1>5, ContractStutter
  DEF HeartbeatStep, HeartbeatSend, HeartbeatExits, HeartbeatError,
      HeartbeatCancelled, HeartbeatReply
<1>6. ASSUME NEW t \in Tokens, ExecutionStep(t)
      PROVE  [Contract!Next]_(Contract!vars)
  <2>1. CASE DeliverySettles(t) \/ DeliveryCancelled(t)
    BY <2>1, ContractSettle DEF DeliverySettles, DeliveryCancelled
  <2>2. CASE ~(DeliverySettles(t) \/ DeliveryCancelled(t))
    BY <1>6, <2>2, ContractStutter
    DEF ExecutionStep, HandlerEnds, HandlerSwallows, DeliveryRetries, DeliveryResumes
  <2>. QED
    BY <2>1, <2>2
<1>. QED
  BY <1>1, <1>2, <1>3, <1>4, <1>5, <1>6 DEF Next

\* Every behaviour of the worker is one of the contract its caller relies on.
THEOREM WorkerImplementsContract == Spec => ImplementsContract
<1>1. Init => Contract!Init
  BY DEF Init, Contract!Init, Phase
<1>2. IInv /\ IInv' /\ [Next]_vars => [Contract!Next]_(Contract!vars)
  BY ContractStep
<1>. QED
  BY <1>1, <1>2, Invariance, PTL DEF Spec, ImplementsContract, Contract!Spec

=============================================================================
