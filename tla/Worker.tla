------------------------------- MODULE Worker -------------------------------
(***************************************************************************)
(* The worker runtime of the SDK (ojs.worker): one Worker object, the      *)
(* start() coroutine that runs it, its fetch loop, its heartbeat loop, the *)
(* execution tasks it spawns, and the shutdown coordinator.                *)
(*                                                                         *)
(* Everything runs on one asyncio event loop, so the code between two      *)
(* awaits is one action.  What interleaves is where each task is           *)
(* suspended: a transport call in flight, a poll or a backoff wait, a      *)
(* handler, the grace period.  Task.cancel() only marks a task (the        *)
(* "...Cancel" and cancelled variables); the CancelledError is raised when *)
(* the task is next resumed, whatever it was waiting for.                  *)
(***************************************************************************)
EXTENDS Naturals, FiniteSets

CONSTANTS
    Tokens,        \* permit tokens, one uuid per reserved execution slot
    Concurrency,   \* capacity of the lease admission
    MaxAttempts,   \* CompletionReporter's max_attempts
    MaxSurplus,    \* bound: jobs a backend may return beyond the count asked
    SwallowCancel  \* may a handler catch CancelledError and keep running?

ASSUME TokensAssumption == IsFiniteSet(Tokens)
ASSUME ConcurrencyAssumption ==
    Concurrency \in Nat /\ Concurrency >= 1 /\ Concurrency <= Cardinality(Tokens)
ASSUME BoundsAssumption ==
    /\ MaxAttempts \in Nat /\ MaxAttempts >= 1
    /\ MaxSurplus \in Nat
    /\ SwallowCancel \in BOOLEAN

VARIABLES
    state,         \* Worker._state, what Worker.state publishes
    run,           \* Worker._run_state is not None
    shutdown,      \* the current run's shutdown event
    start,         \* where the start() coroutine is suspended
    interrupted,   \* a CancelledError is pending in start() or its coordinator
    fetchLoop,     \* where the fetch loop is suspended
    fetchCancel,   \* the coordinator has cancelled the fetch task
    heartbeat,     \* where the heartbeat loop is suspended
    heartbeatCancel,
    signals,       \* signal callbacks queued on the loop: this run's, an old run's
    permits,       \* LeaseAdmission._permits
    held,          \* the fetch loop's local permits[used_permits:]
    surplus,       \* jobs of the last reply still to be rejected
    executions,    \* ExecutionRegistry._executions, by token
    orphans,       \* executions whose run ended without draining them
    task,          \* where each execution task is suspended
    outcome,       \* CompletionReporter._outcome of the execution
    attempt,       \* delivery attempts made for it
    cancelled,     \* the execution task is marked cancelled
    sent           \* terminal calls its reporter handed to the transport

lifecycle == <<state, run, shutdown, start, interrupted, signals>>
loops     == <<fetchLoop, fetchCancel, heartbeat, heartbeatCancel, surplus>>
pool      == <<permits, held, executions, orphans>>
exec      == <<task, outcome, attempt, cancelled, sent>>
vars      == <<lifecycle, loops, pool, exec>>

-----------------------------------------------------------------------------
WorkerStates == {"idle", "running", "quiet", "terminate"}
Directives   == {"none", "running", "quiet", "terminate"}
Outcomes     == {"completed", "failed", "cancelled"}
Calls        == {"ack", "nack"}

Kind(o) == IF o = "completed" THEN "ack" ELSE "nack"

Live == {t \in Tokens : task[t] # "none"}      \* tasks that have not ended
Free == Tokens \ (Live \cup held)              \* uuids not in use

Available == Concurrency - Cardinality(permits)

Init ==
    /\ state = "idle" /\ run = FALSE /\ shutdown = TRUE /\ start = "off"
    /\ interrupted = FALSE /\ signals = {}
    /\ fetchLoop = "off" /\ fetchCancel = FALSE
    /\ heartbeat = "off" /\ heartbeatCancel = FALSE /\ surplus = 0
    /\ permits = {} /\ held = {} /\ executions = {} /\ orphans = {}
    /\ task = [t \in Tokens |-> "none"]
    /\ outcome = [t \in Tokens |-> "none"]
    /\ attempt = [t \in Tokens |-> 0]
    /\ cancelled = [t \in Tokens |-> FALSE]
    /\ sent = [t \in Tokens |-> {}]

-----------------------------------------------------------------------------
(* start(), stop() and signals *)

\* start(): a fresh WorkerRunState, then the coordinator creates both loops and
\* waits.  The first conjunct's bound on orphans keeps Tokens large enough.
Start ==
    /\ ~run
    /\ Cardinality(orphans) + Concurrency <= Cardinality(Tokens)
    /\ run' = TRUE /\ shutdown' = FALSE /\ state' = "running" /\ start' = "wait"
    /\ fetchLoop' = "poll" /\ heartbeat' = "rest"
    /\ UNCHANGED <<interrupted, signals, fetchCancel, heartbeatCancel, surplus,
                   pool, exec>>

\* _request_termination(): both assignments, no await between them.
RequestTermination == state' = "terminate" /\ shutdown' = TRUE

Stop ==
    /\ run
    /\ RequestTermination
    /\ UNCHANGED <<run, start, interrupted, signals, loops, pool, exec>>

\* SIGTERM or SIGINT while the custodian's handlers are installed: the loop
\* queues the callback, which closes over this run's WorkerRunState.
SignalArrives ==
    /\ run
    /\ signals' = signals \cup {"run"}
    /\ UNCHANGED <<state, run, shutdown, start, interrupted, loops, pool, exec>>

SignalCallback ==
    /\ "run" \in signals
    /\ signals' = signals \ {"run"}
    /\ RequestTermination
    /\ UNCHANGED <<run, start, interrupted, loops, pool, exec>>

\* A callback still queued when its run ended: it assigns the worker's state,
\* but the event it sets belongs to the run that is over.
StaleSignalCallback ==
    /\ "old" \in signals
    /\ signals' = signals \ {"old"}
    /\ state' = "terminate"
    /\ UNCHANGED <<run, shutdown, start, interrupted, loops, pool, exec>>

\* The application cancels the task that awaits start().  In "reap" the
\* gather() it is suspended in passes the cancellation to the executions.
CancelStart ==
    /\ run
    /\ interrupted' = TRUE
    /\ cancelled' = IF start = "reap"
                    THEN [t \in Tokens |-> cancelled[t] \/ t \in executions]
                    ELSE cancelled
    /\ UNCHANGED <<state, run, shutdown, start, signals, loops, pool,
                   task, outcome, attempt, sent>>

-----------------------------------------------------------------------------
(* ShutdownCoordinator.run and the end of start() *)

\* asyncio.wait returns (or is cancelled): request shutdown, cancel the loops
\* that are not done, gather them.
CoordinatorWakes ==
    /\ start = "wait"
    /\ shutdown \/ interrupted \/ fetchLoop = "off" \/ heartbeat = "off"
    /\ start' = "gather" /\ shutdown' = TRUE /\ interrupted' = FALSE
    /\ fetchCancel' = (fetchLoop # "off")
    /\ heartbeatCancel' = (heartbeat # "off")
    /\ UNCHANGED <<state, run, signals, fetchLoop, heartbeat, surplus, pool, exec>>

LoopsGathered ==
    /\ start = "gather" /\ ~interrupted
    /\ fetchLoop = "off" /\ heartbeat = "off"
    /\ start' = "drain"
    /\ UNCHANGED <<state, run, shutdown, interrupted, signals, loops, pool, exec>>

\* The finally block of start(): handlers restored, the run dropped.  Whatever
\* executions it still had go on as tasks nobody waits for.
FinishRun ==
    /\ run' = FALSE /\ shutdown' = TRUE /\ state' = "idle" /\ start' = "off"
    /\ interrupted' = FALSE
    /\ signals' = IF signals = {} THEN {} ELSE {"old"}
    /\ permits' = {} /\ held' = {} /\ executions' = {}
    /\ orphans' = orphans \cup executions
    /\ UNCHANGED <<loops, exec>>

\* (mutant) a run that failed over its executions is taken for drained.
DrainedAnyway == start = "drain" /\ ~interrupted /\ FinishRun

Drained ==
    /\ start = "drain" /\ executions = {} /\ ~interrupted
    /\ FinishRun

\* (mutant) the grace period ends without a cancellation.
GraceExpiresQuietly ==
    /\ start = "drain" /\ executions # {} /\ ~interrupted
    /\ start' = "reap"
    /\ UNCHANGED <<state, run, shutdown, interrupted, signals, loops, pool, exec>>

\* Grace period over: cancel every execution of the registry's snapshot.
GraceExpires ==
    /\ start = "drain" /\ executions # {} /\ ~interrupted
    /\ start' = "reap"
    /\ cancelled' = [t \in Tokens |-> cancelled[t] \/ t \in executions]
    /\ UNCHANGED <<state, run, shutdown, interrupted, signals, loops, pool,
                   task, outcome, attempt, sent>>

Reaped ==
    /\ start = "reap" /\ executions = {}
    /\ FinishRun

\* CancelledError raised at the gather of the loops or at the grace-period
\* wait: neither is guarded, so the rest of the drain is skipped.
DrainInterrupted ==
    /\ interrupted
    /\ \/ start = "gather" /\ fetchLoop = "off" /\ heartbeat = "off"
       \/ start = "drain"
    /\ FinishRun

-----------------------------------------------------------------------------
(* _fetch_loop *)

\* One turn that finds work to ask for: RUNNING (or a stale TERMINATE), some
\* capacity left.  reserve_available() takes all of it without suspending.
FetchReserve ==
    /\ fetchLoop = "poll" /\ ~fetchCancel /\ ~shutdown
    /\ state # "quiet"
    /\ Available > 0
    /\ \E new \in SUBSET Free :
          /\ Cardinality(new) = Available
          /\ held' = new
          /\ permits' = permits \cup new
    /\ fetchLoop' = "call"
    /\ UNCHANGED <<lifecycle, fetchCancel, heartbeat, heartbeatCancel, surplus,
                   executions, orphans, exec>>

FetchExits ==
    /\ fetchLoop = "poll" /\ ~fetchCancel /\ shutdown
    /\ fetchLoop' = "off"
    /\ UNCHANGED <<lifecycle, fetchCancel, heartbeat, heartbeatCancel, surplus,
                   pool, exec>>

\* The reply's jobs: one execution per admitted permit, the unused permits
\* released; only a full house leaves surplus jobs to reject.  A job without a
\* handler goes straight to reporting unknown_job_type.
FetchReply ==
    /\ fetchLoop = "call" /\ ~fetchCancel
    /\ \E admitted \in SUBSET held, extra \in 0..MaxSurplus :
          /\ extra > 0 => admitted = held
          /\ \E unknown \in SUBSET admitted :
                /\ task' = [t \in Tokens |-> IF t \in unknown THEN "deliver"
                                             ELSE IF t \in admitted THEN "handler"
                                             ELSE task[t]]
                /\ outcome' = [t \in Tokens |-> IF t \in unknown THEN "failed"
                                                ELSE outcome[t]]
                /\ attempt' = [t \in Tokens |-> IF t \in unknown THEN 1
                                                ELSE attempt[t]]
                /\ sent' = [t \in Tokens |-> IF t \in unknown THEN {"nack"}
                                             ELSE sent[t]]
          /\ executions' = executions \cup admitted
          /\ permits' = permits \ (held \ admitted)
          /\ surplus' = extra
          /\ fetchLoop' = IF extra > 0 THEN "reject" ELSE "poll"
    /\ held' = {}
    /\ UNCHANGED <<lifecycle, fetchCancel, heartbeat, heartbeatCancel, orphans,
                   cancelled>>

\* (mutant) the reserved permits are not given back when the call fails.
FetchErrorLeaks ==
    /\ fetchLoop = "call" /\ ~fetchCancel
    /\ fetchLoop' = "poll" /\ held' = {}
    /\ UNCHANGED <<lifecycle, fetchCancel, heartbeat, heartbeatCancel, surplus,
                   permits, executions, orphans, exec>>

FetchError ==
    /\ fetchLoop = "call" /\ ~fetchCancel
    /\ fetchLoop' = "poll"
    /\ permits' = permits \ held /\ held' = {}
    /\ UNCHANGED <<lifecycle, fetchCancel, heartbeat, heartbeatCancel, surplus,
                   executions, orphans, exec>>

\* One surplus job nacked; a delivery that fails for good is caught by the
\* loop's handler and abandons the jobs behind it.
SurplusRejected ==
    /\ fetchLoop = "reject" /\ ~fetchCancel
    /\ surplus' = surplus - 1
    /\ fetchLoop' = IF surplus = 1 THEN "poll" ELSE "reject"
    /\ UNCHANGED <<lifecycle, fetchCancel, heartbeat, heartbeatCancel, pool, exec>>

SurplusAbandoned ==
    /\ fetchLoop = "reject" /\ ~fetchCancel
    /\ surplus' = 0
    /\ fetchLoop' = "poll"
    /\ UNCHANGED <<lifecycle, fetchCancel, heartbeat, heartbeatCancel, pool, exec>>

\* CancelledError at any await of the loop; the finally releases what is held.
FetchCancelled ==
    /\ fetchCancel
    /\ fetchLoop' = "off" /\ fetchCancel' = FALSE /\ surplus' = 0
    /\ permits' = permits \ held /\ held' = {}
    /\ UNCHANGED <<lifecycle, heartbeat, heartbeatCancel, executions, orphans, exec>>

-----------------------------------------------------------------------------
(* _heartbeat_loop *)

HeartbeatSend ==
    /\ heartbeat = "rest" /\ ~heartbeatCancel /\ ~shutdown
    /\ heartbeat' = "call"
    /\ UNCHANGED <<lifecycle, fetchLoop, fetchCancel, heartbeatCancel, surplus,
                   pool, exec>>

HeartbeatExits ==
    /\ heartbeat = "rest" /\ ~heartbeatCancel /\ shutdown
    /\ heartbeat' = "off"
    /\ UNCHANGED <<lifecycle, fetchLoop, fetchCancel, heartbeatCancel, surplus,
                   pool, exec>>

\* What a reply's directive does to the published state.
ApplyDirective(d) ==
    IF d = "terminate" THEN RequestTermination
    ELSE /\ state' = IF ~shutdown /\ d \in {"quiet", "running"} THEN d ELSE state
         /\ UNCHANGED shutdown

HeartbeatReply(d) ==
    /\ heartbeat = "call" /\ ~heartbeatCancel
    /\ ApplyDirective(d)
    /\ heartbeat' = IF d = "terminate" THEN "off" ELSE "rest"
    /\ UNCHANGED <<run, start, interrupted, signals, fetchLoop, fetchCancel,
                   heartbeatCancel, surplus, pool, exec>>

\* Every error is caught; the loop waits (backoff or interval) and goes round.
HeartbeatError ==
    /\ heartbeat = "call" /\ ~heartbeatCancel
    /\ heartbeat' = "rest"
    /\ UNCHANGED <<lifecycle, fetchLoop, fetchCancel, heartbeatCancel, surplus,
                   pool, exec>>

HeartbeatCancelled ==
    /\ heartbeatCancel
    /\ heartbeat' = "off" /\ heartbeatCancel' = FALSE
    /\ UNCHANGED <<lifecycle, fetchLoop, fetchCancel, surplus, pool, exec>>

-----------------------------------------------------------------------------
(* _run_execution, _process_job and CompletionReporter *)

\* report(): claim the outcome, then the first delivery attempt.
Report(t, o) ==
    /\ outcome[t] = "none"
    /\ outcome' = [outcome EXCEPT ![t] = o]
    /\ task' = [task EXCEPT ![t] = "deliver"]
    /\ attempt' = [attempt EXCEPT ![t] = 1]
    /\ sent' = [sent EXCEPT ![t] = @ \cup {Kind(o)}]

\* (mutant) only Exception is caught: a cancelled handler ends the task.
HandlerEndsUnreported(t) ==
    /\ task[t] = "handler"
    /\ task' = [task EXCEPT ![t] = "none"]
    /\ executions' = executions \ {t} /\ orphans' = orphans \ {t}
    /\ permits' = permits \ {t}
    /\ cancelled' = [cancelled EXCEPT ![t] = FALSE]
    /\ UNCHANGED <<lifecycle, loops, held, outcome, attempt, sent>>

\* The handler (with its middleware) returns, raises, or raises CancelledError;
\* a cancelled handler may still do any of these.
HandlerEnds(t) ==
    /\ task[t] = "handler"
    /\ \E o \in Outcomes : Report(t, o)
    /\ cancelled' = [cancelled EXCEPT ![t] = FALSE]
    /\ UNCHANGED <<lifecycle, loops, pool>>

HandlerSwallows(t) ==
    /\ SwallowCancel
    /\ task[t] = "handler" /\ cancelled[t]
    /\ cancelled' = [cancelled EXCEPT ![t] = FALSE]
    /\ UNCHANGED <<lifecycle, loops, pool, task, outcome, attempt, sent>>

\* (mutant) the registry forgets the execution and keeps its permit.
EndExecutionKeepsPermit(t) ==
    /\ executions' = executions \ {t} /\ orphans' = orphans \ {t}
    /\ task' = [task EXCEPT ![t] = "none"]
    /\ outcome' = [outcome EXCEPT ![t] = "none"]
    /\ attempt' = [attempt EXCEPT ![t] = 0]
    /\ cancelled' = [cancelled EXCEPT ![t] = FALSE]
    /\ sent' = [sent EXCEPT ![t] = {}]
    /\ UNCHANGED <<lifecycle, loops, permits, held>>

\* complete(): the finally of _run_execution, against the registry of its run.
EndExecution(t) ==
    /\ executions' = executions \ {t}
    /\ orphans' = orphans \ {t}
    /\ permits' = permits \ {t}
    /\ task' = [task EXCEPT ![t] = "none"]
    /\ outcome' = [outcome EXCEPT ![t] = "none"]
    /\ attempt' = [attempt EXCEPT ![t] = 0]
    /\ cancelled' = [cancelled EXCEPT ![t] = FALSE]
    /\ sent' = [sent EXCEPT ![t] = {}]
    /\ UNCHANGED <<lifecycle, loops, held>>

\* The call succeeds, or fails in a way that is not retried: either way the
\* exception stops at _process_job or at the task and the execution ends.
DeliverySettles(t) ==
    /\ task[t] = "deliver" /\ ~cancelled[t]
    /\ EndExecution(t)

DeliveryRetries(t) ==
    /\ task[t] = "deliver" /\ ~cancelled[t]
    /\ attempt[t] < MaxAttempts
    /\ task' = [task EXCEPT ![t] = "backoff"]
    /\ UNCHANGED <<lifecycle, loops, pool, outcome, attempt, cancelled, sent>>

DeliveryResumes(t) ==
    /\ task[t] = "backoff" /\ ~cancelled[t]
    /\ task' = [task EXCEPT ![t] = "deliver"]
    /\ attempt' = [attempt EXCEPT ![t] = @ + 1]
    /\ sent' = [sent EXCEPT ![t] = @ \cup {Kind(outcome[t])}]
    /\ UNCHANGED <<lifecycle, loops, pool, outcome, cancelled>>

\* (mutant) a cancelled delivery is reported again, as a cancelled job.
DeliveryCancelledNacks(t) ==
    /\ task[t] \in {"deliver", "backoff"} /\ cancelled[t]
    /\ task' = [task EXCEPT ![t] = "deliver"]
    /\ sent' = [sent EXCEPT ![t] = @ \cup {"nack"}]
    /\ cancelled' = [cancelled EXCEPT ![t] = FALSE]
    /\ UNCHANGED <<lifecycle, loops, pool, outcome, attempt>>

\* CancelledError during delivery: re-raised, never turned into another report.
DeliveryCancelled(t) ==
    /\ task[t] \in {"deliver", "backoff"} /\ cancelled[t]
    /\ EndExecution(t)

-----------------------------------------------------------------------------
Control ==
    \/ Start \/ Stop \/ SignalArrives \/ SignalCallback \/ StaleSignalCallback
    \/ CancelStart

Coordinator ==
    \/ CoordinatorWakes \/ LoopsGathered \/ Drained \/ GraceExpires \/ Reaped
    \/ DrainInterrupted

FetchStep ==
    \/ FetchReserve \/ FetchExits \/ FetchReply \/ FetchError
    \/ SurplusRejected \/ SurplusAbandoned \/ FetchCancelled

HeartbeatStep ==
    \/ HeartbeatSend \/ HeartbeatExits \/ HeartbeatError \/ HeartbeatCancelled
    \/ \E d \in Directives : HeartbeatReply(d)

ExecutionStep(t) ==
    \/ HandlerEnds(t) \/ HandlerSwallows(t)
    \/ DeliverySettles(t) \/ DeliveryRetries(t) \/ DeliveryResumes(t)
    \/ DeliveryCancelled(t)

Next ==
    \/ Control \/ Coordinator \/ FetchStep \/ HeartbeatStep
    \/ \E t \in Tokens : ExecutionStep(t)

Spec == Init /\ [][Next]_vars

\* The event loop runs every ready task, timers fire, and transport calls end
\* (each has a request timeout).  Handlers need not end by themselves: only one
\* that has been cancelled is assumed to.
Fairness ==
    /\ WF_vars(Coordinator) /\ WF_vars(FetchStep) /\ WF_vars(HeartbeatStep)
    /\ WF_vars(SignalCallback)
    /\ \A t \in Tokens :
          /\ WF_vars(cancelled[t] /\ HandlerEnds(t))
          /\ WF_vars(\/ DeliverySettles(t) \/ DeliveryRetries(t)
                     \/ DeliveryResumes(t) \/ DeliveryCancelled(t))

FairSpec == Spec /\ Fairness
-----------------------------------------------------------------------------
(* Properties *)

\* Every variable keeps its type, and no outcome is delivered more often than
\* CompletionReporter's max_attempts allows.
TypeOK ==
    /\ state \in WorkerStates /\ run \in BOOLEAN /\ shutdown \in BOOLEAN
    /\ start \in {"off", "wait", "gather", "drain", "reap"}
    /\ interrupted \in BOOLEAN /\ signals \subseteq {"run", "old"}
    /\ fetchLoop \in {"off", "poll", "call", "reject"} /\ fetchCancel \in BOOLEAN
    /\ heartbeat \in {"off", "rest", "call"} /\ heartbeatCancel \in BOOLEAN
    /\ surplus \in 0..MaxSurplus
    /\ permits \subseteq Tokens /\ held \subseteq Tokens
    /\ executions \subseteq Tokens /\ orphans \subseteq Tokens
    /\ task \in [Tokens -> {"none", "handler", "deliver", "backoff"}]
    /\ outcome \in [Tokens -> Outcomes \cup {"none"}]
    /\ attempt \in [Tokens -> 0..MaxAttempts]
    /\ cancelled \in [Tokens -> BOOLEAN]
    /\ sent \in [Tokens -> SUBSET Calls]

\* Admission is conserved: at every await, whatever failed or was cancelled
\* before it, a permit of the run is either in the hands of the fetch call in
\* flight or owned by exactly one registered execution, and there are never
\* more of them than the worker's concurrency (lease_admission.py 35-50, the
\* fetch loop's finally 212-214, ExecutionRegistry.complete 53-60).
PermitConservation ==
    /\ permits = held \cup executions
    /\ held \cap executions = {}
    /\ held # {} => fetchLoop = "call"
    /\ Cardinality(permits) <= Concurrency

\* The registry misses nothing: an execution task that has not ended is in the
\* registry of its own run, so heartbeats report its job and the drain waits
\* for it, and a task that has ended is in none (runtime.py 230-247).
RegistryIsComplete ==
    /\ Live = executions \cup orphans
    /\ executions \cap orphans = {}

\* Whatever was started, failed or was cancelled in between, capacity and tasks
\* agree: no permit is lost or granted twice and no task runs unregistered
\* (lease_admission.py 35-50, runtime.py 205-247).
AdmissionAccounted == PermitConservation /\ RegistryIsComplete

\* One execution never tells the backend two different things: if an ACK has
\* been handed to the transport no NACK ever is, however deliveries fail and
\* wherever the shutdown cancels the task (AUDIT.md OJS-PY-007, runtime.py
\* 304-338, completion_reporter.py 58-81).
OneOutcome ==
    \A t \in Tokens : ~({"ack", "nack"} \subseteq sent[t])

\* start() does not return over running executions unless its own task is
\* cancelled while it gathers or drains (shutdown_coordinator.py 47-73).
StopDrains ==
    [][run /\ ~run' /\ ~interrupted => executions = {}]_vars

\* From the moment shutdown is requested until start() returns, no reply in
\* flight changes the published state except to TERMINATE (runtime.py 365-376).
ShutdownIsOneWay ==
    [][run /\ shutdown /\ run' => state' \in {state, "terminate"}]_vars

\* Once the coordinator has stopped waiting, no job of a fetch reply in flight
\* is started any more: the set it will drain only shrinks
\* (shutdown_coordinator.py 47-54).
NoAdmissionWhileClosing ==
    [][start # "wait" /\ run => executions' \subseteq executions]_vars

\* No execution ends without its outcome having been handed to the transport
\* at least once, those cancelled by the shutdown included: the backend is
\* never left to find out by the visibility timeout alone (runtime.py 304-338).
NoSilentEnd ==
    [][\A t \in Tokens : task[t] # "none" /\ task'[t] = "none" => sent[t] # {}]_vars

\* A requested shutdown completes: start() returns although handlers may run
\* for ever until they are cancelled, calls fail and retry, and cancellations
\* are repeated (shutdown_coordinator.py 18-73).
ShutdownCompletes == (run /\ shutdown) ~> ~run

\* The fetch loop is never starved by capacity it has lost: a running worker
\* with nothing to execute gets back to asking for jobs (runtime.py 182-217).
IdleCapacityFetches ==
    (run /\ executions = {}) ~>
        (fetchLoop = "call" \/ executions # {} \/ shutdown \/ state = "quiet")

\* The run as its caller sees it, which the worker implements.
Phase == CASE start = "off" -> "idle" [] start = "wait" -> "serving"
           [] start = "gather" -> "closing" [] OTHER -> "draining"

Contract == INSTANCE WorkerContract
    WITH phase <- Phase, giveUp <- interrupted, active <- executions,
         abandoned <- orphans

\* The loops, calls and deliveries implement the contract of a run: capacity,
\* no admission once closing, no return over running executions unless the
\* caller gave the drain up (runtime.py 121-150, shutdown_coordinator.py 18-73).
ImplementsContract == Contract!Spec

-----------------------------------------------------------------------------
(* The inductive invariant behind the safety properties *)

\* Which loops may still run, and what may still be owned, at each await of
\* start().
LifecycleInv ==
    /\ run <=> start # "off"
    /\ start # "wait" => shutdown
    /\ start \in {"off", "drain", "reap"} => fetchLoop = "off" /\ heartbeat = "off"
    /\ start = "gather" => fetchLoop = "off" \/ fetchCancel
    /\ fetchCancel => start = "gather" /\ fetchLoop # "off"
    /\ ~run => executions = {} /\ ~interrupted
    /\ fetchLoop = "reject" <=> surplus > 0

\* What the reporter of an execution has claimed and sent at each await.
ReporterInv ==
    \A t \in Tokens :
        /\ task[t] \in {"none", "handler"} => outcome[t] = "none" /\ sent[t] = {}
        /\ task[t] \in {"deliver", "backoff"} =>
              /\ outcome[t] # "none"
              /\ sent[t] = {Kind(outcome[t])}
        /\ task[t] = "backoff" => attempt[t] < MaxAttempts

\* Tokens in the hands of a fetch call are fresh: no task has them.
HeldIsFresh == held \cap Live = {}

\* The invariant the proofs carry from step to step; it implies the safety
\* properties above (all of runtime.py's loops).
IInv ==
    /\ TypeOK /\ PermitConservation /\ RegistryIsComplete
    /\ LifecycleInv /\ ReporterInv /\ HeldIsFresh

=============================================================================
