# A verification of the OJS Python SDK in TLA+

`src/` holds the Python SDK of the Open Job Spec: a client that enqueues jobs, a
worker that fetches and executes them, event subscriptions, durable execution,
serverless adapters and test helpers. This directory models the parts of it where
order, failure and concurrency decide whether it is right, checks the models with
TLC and proves with TLAPS every safety property the runs check.

Paths below are relative to the package `src/ojs/` of the repository.
`PROJECT.json` lists every run, the lines each definition stands for, the hazards
and the theorems.

## 1. Inventory

Everything asynchronous runs on one asyncio event loop: code between two awaits is
atomic, what interleaves is where each task is suspended. Threads appear in one
place, the synchronous client.

### Worker runtime (`worker/`)

| part | state | operations |
|---|---|---|
| `runtime.Worker` | `_state`, `_run_state`, handlers and middleware | `start`, `stop`, `_fetch_loop`, `_heartbeat_loop`, `_process_job`, `_request_termination` |
| `run_state.WorkerRunState` | the shutdown event of one run | `wait_or_timeout` |
| `lease_admission.LeaseAdmission` | the set of permits | `reserve`, `release` |
| `execution_registry.ExecutionRegistry` | active executions by permit token | `register`, `complete`, `extend_leases` |
| `completion_reporter.CompletionReporter` | the one outcome of an execution | `report`, `_deliver` (retries with backoff) |
| `shutdown_coordinator.ShutdownCoordinator` | none of its own | waits, cancels and gathers the loops, drains, reaps |
| `signal_custodian.SignalCustodian` | the process's previous signal handlers and their owner | `install`, `restore` |
| `execution_retry.ExecutionLease`, `ExecutionRetry` | deadline and "extended" flag of a lease; local attempts | `extend`, `sleep_for_retry`, `run` |

The fetch loop reserves permits, asks the backend for that many jobs and starts one
task per job. The heartbeat loop reports the registered jobs, extends the leases
the backend confirms and applies its directive (running, quiet, terminate). `stop`,
a signal, a directive or a cancellation of the task awaiting `start` begins the
shutdown: both loops are cancelled and gathered, executions get a grace period, what
is left is cancelled, and its outcome still reported.

Hard here: a reply applied after the shutdown that overtook it; permits in the hands
of a call that fails or is cancelled; a task cancelled while its ACK is in flight; a
coordinator cancelled again while it drains; signals queued behind the run's end; a
lease whose two copies run apart. *Correct* means: capacity is conserved, the registry
misses no execution, one outcome per execution and never none, shutdown one-way and
complete, nothing admitted while closing, no retry before its delay.

### Client (`client/`)

`async_client` passes each method to the transport. `enqueue_pipeline` runs the
enqueue middleware; for a batch it runs every item's chain concurrently up to its
terminal, waits for all of them at a barrier, sends one `push_batch` and lets each
chain go on. `sync_runner` owns the event-loop thread behind `SyncClient`. Hard:
chains that end early, give up or are cancelled around the barrier; threads that
start, submit, interrupt and close at once. *Correct*: all or nothing, each
middleware sees its own job, no task or thread left behind, every call ends.

### Transports (`transport/`)

`http/transport._do_request` sends one operation, with retries for 429 and for
gateway errors of operations that are safe to repeat (`retry_policy`), after a delay
(`rate_limiter`), under one idempotency identity (`enqueue_idempotency`). `grpc/`
emulates the same interface over protobuf: offsets over cursors (`paging`), a
heartbeat of one call per lease (`worker_lease`), requests and jobs through two
projections and messages without presence, errors through statuses and details.
`fake.py` keeps jobs in memory for tests. *Correct*: an operation without identity is
executed at most once by retries, a job that was read from an answer is one the
backend has, delays respect the server and the cap; and over gRPC a caller gets the
job, the page, the error and the workflow it would get over HTTP, or a refusal.

### Events (`sse/`, `subscribe.py`)

`frame_parser` turns lines into events and keeps the id buffer; `subscription_session`
reconnects with `Last-Event-ID`. *Correct*: no event lost at a reconnection, ids as the
processing model of Server-Sent Events defines them, no endless flapping.

### Durable execution (`durable/`)

`context.DurableContext` records the results of a handler's effects, writes them at
checkpoints and replays them on the next attempt; `replay_loader` loads a checkpoint
or fails. *Correct*: an effect gets its own value back or an error, never another's;
checkpoints only grow; what is checkpointed is not executed again.

### Serverless adapters (`serverless/`)

`invocation_bridge` runs one job and reports its outcome once; `aws_lambda` and
`azure_functions` wrap it in what each platform does with the answer: the batch item
failures of SQS, an exception for the Azure queue trigger, a response for direct and
HTTP invocations. Hard: the function killed in the middle of a batch, a report that
fails after the handler has run, poison messages. *Correct*: no message leaves the
queue before somebody was told of its job, no job is run again for a neighbour's
sake, and poison leaves the queue.

### Execution middleware (`middleware/`, `encryption.py`, `otel.py`)

Retry, timeout, logging, metrics, spans and decryption, in the order the application
gives. Hard: a timer that expires in the tick in which the worker cancels the task,
layers entered again by a retry outside them, recorders that fail. *Correct*: a
cancellation is never taken for a failure, a success stays one unless a recorder's
failure may replace it, observers do not contradict the report.

### Workflows (`workflow/`)

`chain`, `group` and `batch` build a DAG of steps, which the server runs. *Correct*:
what is run is what was built, over either transport.

### The rest

The fake transport and the test helpers, `recorder/`, the retry policy sent to the
server, the agent and attestation clients, ML helpers, generated protobuf code.

## 2. Modules and how they correspond to the code

**`Worker`** (with `MCWorker`). One variable per attribute or suspension point:
`start`, `fetchLoop`, `heartbeat` and `task[t]` say which await a coroutine is at;
`shutdown`, `permits`, `executions` are the code's own; `held` is the fetch loop's
local list of permits not yet owned by an execution; `orphans` are executions whose
run ended without draining them. `fetchCancel`, `heartbeatCancel`, `cancelled[t]` and
`interrupted` are `Task.cancel()` marks: the exception is raised when the task next
resumes, whatever it was waiting for, so a reply that is already there loses to it.
An action is everything from one await to the next: `FetchReply` starts one task per
job, gives back the permits left over and keeps the surplus to reject. Tasks are
created and make their first step in one action: creation and every later
cancellation go through the loop's FIFO queue of ready callbacks, so no task is
cancelled before it has entered its `try`. `StaleSignalCallback` is a callback that
was queued before `restore()` removed the handlers; asyncio does not withdraw it.

**`WorkerContract`** is what a run promises to whoever awaits `start()`: at most
`Concurrency` executions, none admitted once it closes, a return only when none is
left, unless the caller's own cancellation made it give up the drain. `Worker` maps
`start` to its phases (`Phase`), `interrupted` to `giveUp`, the registry to `active`.

**`ExecutionLease`**. One execution, the heartbeat loop and the backend's copy of the
lease, in ticks. Deadlines are relative and floored at 0, as in
`ExecutionLease.remaining`. `MaxLatency` bounds the time from sending a call to
applying its reply, the loop's own lag included. `SleepTurn` is one turn of the loop
of `sleep_for_retry`, shared by the first turn (`HandlerRaises`) and the later ones
(`Wake`). `failed` is a history variable: a heartbeat call failed and none has got
through since with the worker idle.

**`HttpTransport`** (with `MCHttp`). Operations of one client, their requests, and a
network in which a gateway may answer 5xx for a request it forwarded, a request whose
connection was given up may still arrive (`stray`), and a reply may be lost. Something
on the way may answer a request itself (`Foreign`): a redirect, which the client does
not follow, or a page of its own. The code takes every status below 400 as success, so
an operation whose answer it does not read (an ack, say) then returns though nothing was
executed; one that reads a job in the answer (`Reads`) raises. The backend knows
operations by their key and executes a known key once.

**`SSESession`**. The server's history is a sequence of blocks (id set, reset or
absent; data, malformed data or none). A connection is fed a line at a time and may
end between any two. A block's id is its position.

**`DurableContext`**. All attempts of one job, each with its own
context, and the one log in the backend. A handler is a sequence of steps, each a
sequence of effects started in order and awaited together. `overlap` lets an attempt
begin while an older one, whose lease ran out, still runs. A side effect that raises
ends the attempt (`Crash`) or is caught by the handler, which goes on (`CallRaises`);
`gather` does not wait for the others then (`Awaited`). `caught` is a history variable.

**`EnqueueBatch`**. The state of each item's chain, its terminal's future and
`enqueue_batch`'s phase. Middleware is the application's and is given its whole
repertoire: return, replace, drop, raise, give up on `next()`, call it again. It does
not swallow `CancelledError`. A `gather` that is cancelled a second time still waits
for its children, so one cancellation is enough.

**`SyncRunner`**. The calling threads, the loop threads and the runner's fields.
`_state_lock` is only ever taken by the holder of `_submission_lock` and is left out.

**`Serverless`** and **`DeliveryContract`**. A queue of messages, the invocation
(`step`, `pos`) over its batch, and the backend that hears outcomes. The platform may
kill the function at any step; a report may be executed and its answer lost. A body is
valid, malformed (the adapters' own `ServerlessEventError`, which is final), invalid (an
envelope whose job `Job.from_dict` rejects: an `OJSValidationError`, which
`failed_outcome` takes for a handler error to be retried) or of an unknown type
(`Bodies`, `EventErrors`). The contract is
what the adapters promise: a message is settled only after somebody was told what
became of its job, and what was told stays told. For a success without a completion
transport, and for what the Azure trigger's documentation calls poison messages, that
somebody is nobody (`Unheard`).

**`ExecutionChain`**. One execution as a position in a stack of
layers: going down (`Enter...`), in the handler or in a retry's sleep, and going up
with a result (`Leave...`). Between awaits the stack is walked without interruption;
timers and cancellations are delivered while the handler or a sleep is awaited.
`cancelling` and `base` are the counters by which `asyncio.timeout` tells its own
cancellation from the worker's. The observers are `metrics` (with `fail_open`: a
recorder that fails leaves no record and changes nothing), `strict` (without it: its
exception goes up in place of what came) and `logging` (logging and OpenTelemetry,
which record a success inside the `try`: what that raises is recorded as a failure and
raised). A recorder that raises has recorded nothing, and closing the OpenTelemetry
span is taken not to raise. Encryption is a number of seals on the arguments.

**`Client`** and **`Execution`** (with `MCExecution`) put parts side by side that belong
together but read nothing of each other's state: a batch, the synchronous client and a
subscription; the attempts of a durable job and an execution through the middleware. A
behaviour is one of the parts, chosen by the initial state; the others are pinned to a
state in which they are over (`NoBatch`, `NoCalls`, `NoSubscription`, `NoDurable`,
`NoExecution`), which is why the product is not explored. The theorems are about the
parts' own specifications (`BatchSpec`, `RunnerSpec`, `SessionSpec`, `DurableSpec`,
`ChainSpec`), with no assumption about the other parts.

**`GrpcTransport`** (with `MCGrpc`) composes what a user of the gRPC transport may do,
one of four modules per behaviour since they share only the channel:

* **`GrpcCall`**, over **`JobWire`** and **`ErrorMapping`**: a `push` or an `info` from
  the request to the job or the exception, over gRPC and over HTTP. `JobWire` has
  a table per conversion, field by field: what `to_dict` leaves out, what
  `project_enqueue` passes on, which zeros the messages do not carry
  (`OverProtobuf`), which defaults `project_job` and the decoder put in; a policy that
  is there but empty is none to the decoder, which tests for truth (`Lacking`). `Envelopes`
  are the requests and jobs in question; every field of one may hold anything.
  `ErrorMapping` holds the whole error catalog and both mappings.
* **`GrpcPaging`**: the loops over cursors, against an honest server whose list changes
  between two pages and a faulty one with any cursors.
* **`GrpcHeartbeat`**: the worker's heartbeat loop over `GrpcTransport.heartbeat`, in
  ticks as in `ExecutionLease`, but for several jobs and one RPC per job. The loop
  rests for the interval, also after an RPC that ran into its deadline (an
  `OJSTimeoutError`, for `except Exception`), or for a growing backoff after another
  failure (`LongestRest`).
* **`WorkflowDag`**: the builders, `project_workflow`, a server that runs the DAG it
  was sent, and what a client reads back. The server may report a state that the
  SDK does not know.

## 3. What the runs check

| run | instance | what it shows |
|---|---|---|
| `worker_safety` | 3 tokens, concurrency 2, 2 delivery attempts, surplus up to 2, handlers may swallow cancellation | `AdmissionAccounted`: permits and registry agree with what runs; one outcome, no silent end, and `WorkerContract` |
| `worker_liveness` | 2 tokens, concurrency 2 | a requested shutdown ends the run; an idle worker gets back to fetching |
| `lease_retries` | visibility 9, interval 2, latency 2, 2 retries | overrun of the local lease, `LeaseKept`, and how a retry sleep may end (`RetryTimely`) |
| `http_retries` | two pushes, one with a key, and an ack; 2 retries | `ExecutionsAccounted`: at most once, and a job that was read was created; backoff bounds, termination |
| `client` | 3 items, middleware with and without a lock around `next()`; 3 threads, 3 calls, 2 loop threads; every history of 3 blocks, 2 reconnections | batches: `AllOrNothing` (nothing partial, own job, one call), no task left, every call ends (`Settles`); synchronous client: `OneAtATime` (one loop, serialized), quiet after close, every call ends (`CallsEnd`); subscriptions: `EventsAsSent` (no gap, sticky ids), no endless flapping (`SubscriptionSettles`) |
| `execution` | 3 attempts, a sequential and a gathering handler; every order of up to 3 layers and four of 4, 1 retry, 2 cancellations, 2 seals | durable jobs: faithful replay, a sequential handler's log fits unless an earlier attempt caught an exception, `CheckpointKept` (checkpoints grow and are not executed again); middleware: cancellation prevails, a success stays one or a recorder that may replace it did, plaintext for the handler, observers do not contradict the report, a timeout ends the execution |
| `serverless` | 2 messages, batches of 2, 2 deliveries, 2 report attempts, every entry point | `DeliveryContract`; a job the backend acknowledged is run again only after a cut-short delivery or a lost answer; poison does not circulate and leaves the queue (`PoisonLeaves`) |
| `grpc` | calls with any two fields out of the usual, every error under every status, lists of 4 items, 2 jobs with heartbeats, workflows of up to 3 jobs | `JobKept`, `ErrorsAgree`, `PageHonest`, `PagingEnds`, `HeartbeatHonest`, `OvershootBounded`, `LeasesKept`, `WorkflowKept` |

Four runs end in a counterexample, each against a text of the repository quoted under
`findings` in `PROJECT.json`:

* `lease_retry_beyond` (`RetryWithinLease`): a retry whose delay ends together with the
  lease runs the handler without a lease.
* `durable_caught` (`RecordedIsReplayed`): a handler that caught a side effect's
  exception, went on and made a checkpoint is refused its log on every later attempt:
  what raised left no entry, and the replay meets the one after it.
* `serverless_invalid` (`InvalidLeaves`): a queue message whose job fails validation makes
  the Azure queue trigger raise on every delivery, though it can never succeed.
* `grpc_zeros` (`ZerosSurvive`): an explicit zero in a job reads back over gRPC as the
  SDK's default, since the codec drops it before `project_job` sees the answer.

Each property of a passing run has a mutant in `PROJECT.json`: an operator beside the one it changes
(`(mutant)` in the modules) with a plausible mistake that violates it.

### Bounds, and why they are enough

* *Worker.* Three tokens at concurrency 2 are one full run and one orphan of a run
  before it, which is what `Start` asks for (`orphans + Concurrency <= Tokens`): with
  fewer, a restarted worker could not be full. Two delivery attempts have one retry;
  two surplus jobs let a rejection fail with another behind it. Tokens are symmetric.
* *Lease.* The backend keeps a job whose heartbeats get through when the visibility
  timeout exceeds three latencies plus the interval: the hypothesis of `LeaseKept`.
  9 > 3\*2 + 2 is the smallest value that satisfies it; the bound is tight. With the defaults
  (30 s and 5 s) that is a latency below 8.3 s, while the request timeout is 30 s.
  `MaxBackoff` and the delays are large enough for a sleep to span several
  heartbeats and small enough for a lease to end inside one.
* *HTTP.* A backoff capped at 2 with Retry-After 2 and 9 puts the server's wish at the
  cap, above it and absent. Operations do not interact, so that three show the kinds
  the code treats differently: repeatable or not, answer read or not; GET and DELETE are
  classified like the POST with a key.
* *SSE.* Three blocks give every order of set, reset and inherit around a cut.
  TLC takes all 729 histories as initial states. The proofs have no such bound.
* *Durable.* Three attempts: one that records, one that replays and checkpoints in
  the middle, one that meets what both left. Both handlers have two calls, which a
  check of the type alone would mix up; in the sequential one a time or random value
  stands before each, so that a missing entry is met by another kind or key.
* *Batch.* Three items leave a gap in the middle of the push and one on each side.
* *Serverless.* Two messages are a batch with a neighbour, and the second delivery is
  the one that may be a repetition. Two report attempts have one retry.
* *ExecutionChain.* Three layers put any two around, inside or beside a third; the
  four of length 4 nest a retry between two timeouts and decryption between a retry
  and a failing recorder. One retry is a re-entry; two cancellations are the
  shutdown's and one more; two seals are an enqueue retried over the encryption.
* *gRPC.* A field of a job interacts with one other at most (a policy with its
  members, `retry.max_attempts` with `max_attempts`), so that two unusual ones at a time
  are enough for TLC; the proof is for all combinations. Errors do not depend on the
  fields, and are explored for the usual call (`Failing`). Four
  items, limits and offsets up to 2 and two changes move an item across each edge of
  a page. Heartbeats: `LeasesKept` asks for a visibility above `LongestRest` + (2N + 1)
  RPCs; with two jobs, a backoff of up to 3 and RPCs of 1 that is 9 > 3 + 5, and the cap
  above the interval tells the two rests apart. Three jobs are the shortest chain with a
  middle.
* *SyncRunner.* Three callers: one holds the lock, one waits, one closes. `MaxCalls`
  and `MaxLoops` cap counters; a second loop is all that a late start can produce
  before the first one is used again.

### Fairness

* `Worker`: the event loop runs what is ready, timers fire and transport calls end
  (each has a request timeout). A handler need not end unless it was cancelled; in
  `worker_liveness` it does not swallow the cancellation, since the code waits for it
  without a limit. Signals, `stop` and cancellations are never forced.
* `ExecutionLease`: the clock and the heartbeat loop go on, and a sleeper that is ready
  is run (however late, with `LateWakes`).
* `HttpTransport`: the client goes on: its timeout ends a request at the latest. The
  network owes nothing.
* `SSESession`: a request is answered or fails, and the reconnect delay ends. The
  server need not send anything.
* `EnqueueBatch`: chains, the pipeline and the transport go on. Giving up on `next()`
  and cancelling the caller are never forced.
* `Serverless`: the platform runs the function it invoked, delivers what is queued and
  gives up after its last delivery. Killing is never forced.
* `ExecutionChain`: the task and its timers run. A handler need not end; one that does
  not catch its `CancelledError` is ended by it.
* `GrpcTransport`: every RPC has a deadline, so that a listing goes on.
* `SyncRunner`: threads run and coroutines end. `StartTimesOut` has no clock: it may
  happen whenever the loop is not ready.

`CHECK_DEADLOCK FALSE` stands where the modelled object has an end: a finished batch,
an ended subscription, an acknowledged job, operations that are over, a closed client,
a drained queue, an execution that is reported, a call that returned.

## 4. What is proved

For every value of the constants that satisfies the assumptions named in the modules:
every safety property of the passing runs, invariants, action properties and the two
refinements alike. Each proof has the same shape: the initial states satisfy an
inductive invariant, every action preserves it (one case per action, one step per
conjunct it disturbs), and each property follows from it. TLC checked these
invariants on small instances before they were proved. What makes a property not
inductive by itself:

* `WorkerProofs`. `PermitConservation` is not inductive: that a fetch reply does
  not overfill the registry needs the fetch call's tokens to be fresh
  (`HeldIsFresh`), and that a drain starts with no loop running needs to know which
  loops may be alive at each await of `start()` (`LifecycleInv`). `OneOutcome` needs
  what the reporter has claimed at each await (`ReporterInv`). From `IInv`: types and
  delivery bound, permit conservation, registry completeness, one outcome, no silent
  end, `StopDrains`, one-way shutdown, and that `Worker` implements `WorkerContract`
  (every step maps to a step of the contract or a stutter). The counting of permits
  rests on two lemmas over finite cardinalities (`ReserveFits`, `ReleaseFits`).
* `ExecutionLeaseProofs`. `OverrunBounded` needs to know how old a confirmation
  on its way can be (`ReplyInv`: the backend's lease plus the call's age reach the
  visibility timeout). `LeaseKept` needs, wherever the heartbeat loop is, that the
  lease outlasts what is left of its rest and of its calls (`RenewedInTime`). Also types,
  no early retry and justified budget errors.
* `SSESessionProofs`. `NoGap` needs that the session's id never runs ahead of what
  was yielded (`CoverageInv`), `IdIsSticky` that the parser's buffer holds the id in
  force at the line it has reached (`BufferInv`). For histories of every length.
* `HttpTransportProofs`. `AtMostOnce` needs an account of every request: executed and
  still on the way together never exceed the attempts made, and an unsafe operation
  that is allowed another attempt has not been executed (`Accounted`). That a job which
  was read was created (`JobMeansExecuted`) needs to know who answered: the backend, or
  something in between whose answer has no job (`Accounted` again).
  `BackoffRespected` rests on `BackoffsAreBounded`, which needs 2^n to be a number: the
  provers know it as the size of a power set.
* `ServerlessProofs`. That `Serverless` implements `DeliveryContract` under the map
  `told`: every step of the adapters and of the platform is one of the contract or a
  stutter. A record the adapter is done with was told of or is asked for again
  (`SettledInv`), for which the records of a batch must be different and in flight
  (`BatchInv`). `RerunJustified` needs that a job the backend acknowledged is on its way
  to being deleted as long as no delivery was cut short (`ExcuseInv`), and
  `PoisonNotAgain`, the safety half of `PoisonLeaves`, the same of a message found to be
  poison: the outcome that is returned for it is final (`PoisonInv`).
* `ClientProofs`. For batches of any size: no chain passes the barrier before all have
  begun, and a chain inside `next()` has a future only it awaits (`ChainInv`); nothing is
  created before the one push, which takes every item captured (`PushInv`); under a lock
  around `next()` one chain at most gets a job (`LockInv`), which is the safety half of
  `Settles`. For any number of calling threads: who closes excludes the others
  (`CloserInv`), and the thread, its loop and the flag `ready` go together (`ThreadInv`).
  The latter, as the properties themselves, holds for runs in which the wait for a new
  thread was never given up (`late`, section 5).
* `ExecutionProofs`. `ReplayFaithful` and `CheckpointKept`, for any handler that performs
  each effect once (`EffectsAreDistinct`) and any number of attempts: what an attempt has
  started is what it has replayed, or recorded and has in flight (`ReplayInv`); logs
  have each effect once (`LogsInv`); without overlap a checkpoint is the beginning of what
  the running attempt knows (`OrderInv`). `SequentialAccepted` needs that every log,
  and the place of each attempt in it, is that of the handler (`Follows`, `PlaceInv`) as
  long as no attempt before it caught an exception (`Clean`), and holds with overlapping
  attempts as well. For any chain of layers: the count by
  which `asyncio.timeout` tells its own cancellation from the worker's is that of the
  worker's cancellations and the expired timers on the stack (`TimerInv`), so that the
  worker's prevails (`CancelInv`); a success goes up unless the recorder of an observer
  below failed (`SuccessInv`); every decryption passed has opened one seal (`SealInv`); and
  an observer with nothing but metrics and decryption around it is entered once, and its
  last record is what goes up from it, or the start if its recorder failed
  (`ObserverInv`).
* `GrpcTransportProofs`. *Heartbeats*, for any number of jobs and any timings: each job
  named was renewed or waits for its turn (`TurnInv`), a renewed lease is as old as the
  RPCs since (`AgeInv`), and every lease lasts until its turn (`TurnComes`); from this
  `OvershootBounded`, `LeasesKept` and `HeartbeatHonest`. *Calls*, for jobs with any
  values in all fields together: a stage determines what is on the wire (`CallInv`), so
  that `JobKept` is a fact about the composed conversions (`StoredIsRead`,
  `RequestIsRead`), and `ErrorsAgree` one about the catalog and the two mappings
  (`CatalogStatuses`, `MappedIs`, `StatusesAgree`). *Listings*, of any length and with any
  limits: what was collected is a segment of the list up to the cursor, whatever changed
  behind and ahead of it (`OnTheWay`), where "the list" is well defined since a set of
  numbers has one ascending order (`OrderIsOne`). *Workflows*, of any number of jobs:
  each step is what the builder made of its job (`DagInv`), and what began was ready
  (`BegunWhenReady`).

`AdmissionAccounted`, `RetryTimely`, `EventsAsSent` and `ExecutionsAccounted` join what a
run checks together; their theorems follow from those of their parts. The types of every
component are part of its inductive invariant. `ShutdownIsOneWay` and `StopDrains` are
proved and not run again.

Only model-checked: the liveness properties, since the prover does not handle fairness
(`ShutdownCompletes`, `IdleCapacityFetches`, `SleepEnds`, `OperationsEnd`, `Settles`,
`SubscriptionSettles`, `CallsEnd`, the other half of `PoisonLeaves`, `TimeoutEnds`, `PagingEnds`). And
`RetryWithinLease`, `RecordedIsReplayed`, `InvalidLeaves` and `ZerosSurvive` are refuted.

## 5. Other places where code and description part

Seen while modelling, and not given a run of their own:

* Cancelling the task that awaits `start()` sets the shutdown event and drains while
  the published state still reads RUNNING or QUIET (`shutdown_coordinator.py` 48).
* A signal callback still queued when `start()` ends sets the state of the stopped, or
  restarted, worker to TERMINATE (`runtime.py` 179). `StaleSignalCallback` has it.
* A drain given up by a second cancellation leaves handlers running, and a restarted
  worker runs up to `concurrency` jobs beside them. The contract's `Abandon` says so.
* `complete()` deletes the checkpoint before the worker's ACK; a crash in between
  executes the handler's side effects again (`durable/context.py` 191-197).
* Middleware that gives up on `next()` before the barrier and returns None has its
  item pushed and left out of the results in silence; one that calls `next()` again
  after the batch failed gets the generic error, not its terminal's
  (`enqueue_pipeline.py` 183, 235).
* When the loop thread of `SyncClient` needs more than five seconds to get ready, the
  next call starts a second one and both may be used (`sync_runner.py` 78). `OneLoop`
  and `ClosedIsQuiet` are stated for the case where that did not happen (`late`), and
  a `close()` that fails this way cannot be repeated (`async_client.py` 624-628).
* A reset of the id in an SSE block without data is forgotten when the connection
  drops next: the session learns ids only from events it yields, and the old
  `Last-Event-ID` is sent (`subscription_session.py` 136). AUDIT.md 164 says a reconnect
  after a reset omits the header; its exception (294-302) is another case.
* Side effects awaited together are recorded in the order they return and replayed by
  position: the next attempt, which starts them in order, gets `DurableReplayError`
  every time (`durable/context.py` 154; line 138 calls the key unique identification).
  `SequentialAccepted` is stated for handlers that await one effect after the other, also
  when two attempts overlap.
* A batch never ends when middleware awaits `next()` under a lock, fine for a single
  enqueue: the barrier wants every chain inside `next()` at once (`enqueue_pipeline.py`
  215). `Settles` says so: under such middleware one item at most ever gets a job.
* Over HTTP an ack, nack, fetch or heartbeat succeeds on a redirect, which the client does
  not follow, and on a page that is no JSON, such as a proxy's: every status below 400
  is success (`http/transport.py` 183-189, 236-260). `ExecutionsAccounted` says what is
  left: a job that was read from an answer was executed.
* Over gRPC a policy that holds zeros only reads back as none: the codec drops its members
  and the decoder takes the empty policy for an absent one (`job.py` 140, 148). `JobKept`
  names this and the other alterations (`Altered`); `grpc_zeros` refutes the promise.
* Fail-open metrics may miss the start or the end of a job whose recorder failed
  (`metrics.py` 114-119); logging and OpenTelemetry report a job that was done as failed
  when recording the success raises (`logging.py` 58-77, `otel.py` 103-119), and a retry
  around them runs it again. `SuccessIsKept` and `OutcomeCounted` name these.
* `_from_proto_value` unwraps arguments a second time: one that merely looks like a wire
  value, such as `{"string_value": ...}`, is replaced by what is in it
  (`grpc/transport.py` 508-524).
* `UniquePolicy(keys=[])` and `states=[]` are left out of a request, so that the server's
  defaults apply (`job.py` 60-72).
* A handler's result that is not an object cannot be put into an `AckRequest`: over gRPC
  the ACK fails on every attempt.
* An error with details but no `retryable` among them counts as final over gRPC and by
  the catalog's word over HTTP; FAILED_PRECONDITION becomes 422 where the catalog has
  409 (`rpc_error_mapper.py` 57-183). `ErrorsAgree` is stated for the rest.
* `project_enqueue` runs outside `_call`: an invalid duration raises `ValueError` and not
  an `OJSError`, an encoding error an `OJSConnectionError`.
* A heartbeat that fails at one lease, if only because its job has just ended, drops the
  directive and the local renewal of all (`grpc/transport.py` 206).
* The backoff after failed heartbeats reaches 30 s (`runtime.py` 383), the default
  visibility timeout: a job fetched during a long backoff may lose its lease at the
  server before its first heartbeat. `LeasesKept` counts the backoff (`LongestRest`).
* A cancelled execution has no end in metrics, logs or spans (`otel.py` 80-121).
* Decryption inside a retry fails on re-entry when the plain first argument is a string,
  which it takes for ciphertext (`encryption.py` 238-270); encryption inside an enqueue
  retry seals twice, and is opened once.
* A job that asks for the queue `default`, or for priority 0, cannot be told from one
  that asks for none, and gets the workflow's (`job.py` 221-225).
* The fake transport lets an ACK complete a cancelled job, never retries, takes
  `max_jobs=0` for no limit, and goes on counting ids after `clear`.
* The jitter takes a backoff below `min_backoff` (`rate_limiter.py` 62).
* httpx errors outside the three `except` clauses reach the caller unwrapped
  (`http/transport.py` 138-147); a DELETE executed behind a 502 and sent again is
  reported as not found.
* `job.py` 348 says the worker checks a job's `cancel()`; it does not.

## 6. Not modelled, and what is left

* *Signal ownership between workers.* One worker's signals are actions of `Worker`. Two
  workers of one process that contend for a class attribute under a lock are not.
* *Fake transport, test helpers, recorder.* Test support without concurrency of its own.
* *`RetryPolicy.delay_for_attempt`.* The server applies the policy; its fields are in
  `JobWire`.
* *Methods per endpoint* of the clients and transports: one request each, which
  `HttpTransport` and `GrpcCall` stand for.
* *Agent client, attestation, ML helpers, transport declarations, generated code*: data
  and single requests.

Left for the proofs: nothing of what the runs check, but for liveness. A model of the
signal callbacks of two workers, with the lock between them, is the next step for the
models; its safety would be proved like that of the others.
