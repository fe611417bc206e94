--------------------------- MODULE ExecutionChain ---------------------------
(* One execution of a job through the worker's middleware                       *)
(* (ExecutionMiddlewareChain.execute): the built-in layers - retry, timeout,    *)
(* the observers (logging, metrics, OpenTelemetry) and decryption - in any      *)
(* order around the handler, against the handler's own ends, the timers of      *)
(* asyncio.timeout and the worker that cancels the task.  The event loop gets   *)
(* control only while the handler or a retry's sleep is awaited, so this is     *)
(* where timers and cancellations are delivered.                                *)
EXTENDS Naturals, Sequences, FiniteSets

CONSTANTS
    Chains,         \* the middleware orders considered, outermost first
    MaxRetries,     \* ExecutionRetry.max_retries
    MaxCancels,     \* Task.cancel() calls by the worker
    MaxSeals        \* passes of the encryption middleware when it was enqueued

\* Observers: metrics with fail_open, metrics without it, and what records a
\* success inside the try around the handler - logging and OpenTelemetry.
Observers == {"metrics", "strict", "logging"}

\* Those that let an exception of their recorder through.
Loud == {"strict", "logging"}

Kinds == {"retry", "timeout", "decrypt"} \cup Observers

ASSUME ChainAssumption ==
    /\ Chains \subseteq Seq(Kinds)
    /\ {MaxRetries, MaxCancels, MaxSeals} \subseteq Nat

VARIABLES
    chain,      \* the worker's middleware
    first,      \* the type of the job's first argument
    key,        \* whether the worker knows the key
    seals,      \* encryptions of the arguments, of which the metadata names the last
    depth,      \* encryptions that ctx.job.args still has
    phase,      \* what the task is doing
    at,         \* the layer it is at: 0 above the chain, Len(chain) + 1 the handler
    attempt,    \* retry's attempt, of each layer
    timer,      \* asyncio.timeout's state, of each layer
    base,       \* Task.cancelling() when that timeout was entered
    counted,    \* the last record of each observer
    cancelling, \* Task.cancelling()
    pending,    \* a CancelledError is to be thrown into the task
    result,     \* what the current layer returned or raised
    cancels,    \* cancellations by the worker
    swallowed,  \* whose cancellations the handler swallowed (history)
    lastRun     \* how the handler's last run ended (history)

setting == <<chain, first, key>>
layers == <<attempt, timer, base, counted>>
chainVars == <<setting, seals, depth, phase, at, layers, cancelling, pending, result, cancels,
          swallowed, lastRun>>

Layers == DOMAIN chain
\* What "except Exception" catches.
Exceptions == {"error", "timeout", "recorder", "decrypt", "lease"}

ChainTypeOK ==
    /\ chain \in Chains
    /\ first \in {"string", "other", "empty"} /\ key \in BOOLEAN
    /\ seals \in 0 .. MaxSeals /\ depth \in 0 .. seals
    /\ phase \in {"enqueue", "down", "handler", "sleep", "up", "done"}
    /\ at \in 0 .. Len(chain) + 1
    /\ phase = "sleep" => chain[at] = "retry"
    /\ attempt \in [Layers -> 0 .. MaxRetries]
    /\ timer \in [Layers -> {"off", "running", "expired"}]
    /\ base \in [Layers -> Nat] /\ cancelling \in Nat
    /\ counted \in [Layers -> {"none", "started", "completed", "failed"}]
    /\ pending \in BOOLEAN
    /\ result \in Exceptions \cup {"value", "cancelled"}
    /\ cancels \in 0 .. MaxCancels
    /\ swallowed \subseteq {"timer", "worker"}
    /\ lastRun \in {"none", "value", "error", "cancelled"}

ChainInit ==
    /\ chain \in Chains
    /\ first \in {"string", "other", "empty"} /\ key \in BOOLEAN
    /\ seals = 0 /\ depth = 0
    /\ phase = "enqueue" /\ at = 0
    /\ attempt = [i \in Layers |-> 0]
    /\ timer = [i \in Layers |-> "off"]
    /\ base = [i \in Layers |-> 0]
    /\ counted = [i \in Layers |-> "none"]
    /\ cancelling = 0 /\ pending = FALSE
    /\ result = "value"
    /\ cancels = 0
    /\ swallowed = {} /\ lastRun = "none"

-----------------------------------------------------------------------------
(* Enqueue middleware *)

(* encryption_middleware replaces the arguments by one string and names the key *)
(* and the nonce in the metadata; enqueue middleware outside of it that calls   *)
(* next() again makes it encrypt what it has encrypted.                         *)
Seal ==
    /\ phase = "enqueue"
    /\ seals < MaxSeals
    /\ seals' = seals + 1
    /\ depth' = depth + 1
    /\ UNCHANGED <<setting, phase, at, layers, cancelling, pending, result, cancels,
                   swallowed, lastRun>>

(* The job is sent, and later a worker starts executing it. *)
Start ==
    /\ phase = "enqueue"
    /\ phase' = "down"
    /\ at' = 1
    /\ UNCHANGED <<setting, seals, depth, layers, cancelling, pending, result, cancels,
                   swallowed, lastRun>>

-----------------------------------------------------------------------------
(* On the way to the handler *)

Enters(kind) == phase = "down" /\ at \in Layers /\ chain[at] = kind
Deeper == phase' = "down" /\ at' = at + 1 /\ UNCHANGED result
Raise(exception) == phase' = "up" /\ at' = at - 1 /\ result' = exception
Quiet == UNCHANGED <<setting, seals, cancelling, pending, cancels, swallowed, lastRun>>

EnterRetry ==
    /\ Enters("retry")
    /\ attempt' = [attempt EXCEPT ![at] = 0]
    /\ Deeper
    /\ Quiet /\ UNCHANGED <<depth, timer, base, counted>>

\* (mutant) One asyncio.timeout for all attempts: it does not run a second time.
EnterTimeoutOnce ==
    /\ Enters("timeout")
    /\ timer' = [timer EXCEPT ![at] =
                   IF \E i \in Layers : attempt[i] > 0 THEN "off" ELSE "running"]
    /\ base' = [base EXCEPT ![at] = cancelling]
    /\ Deeper
    /\ Quiet /\ UNCHANGED <<depth, attempt, counted>>

(* asyncio.timeout remembers how many cancellations are already outstanding. *)
EnterTimeout ==
    /\ Enters("timeout")
    /\ timer' = [timer EXCEPT ![at] = "running"]
    /\ base' = [base EXCEPT ![at] = cancelling]
    /\ Deeper
    /\ Quiet /\ UNCHANGED <<depth, attempt, counted>>

(* Observers record the start; where the recorder fails there is no record, and *)
(* without fail_open the handler is not reached (_record_metric, log.log and    *)
(* start_as_current_span outside of any try).                                   *)
EnterObserver ==
    /\ \E kind \in Observers : Enters(kind)
    /\ \/ counted' = [counted EXCEPT ![at] = "started"] /\ Deeper
       \/ UNCHANGED counted /\ IF chain[at] \in Loud THEN Raise("recorder") ELSE Deeper
    /\ Quiet /\ UNCHANGED <<depth, attempt, timer, base>>

\* (mutant) Without the test that the first argument is a string.
LooksEncryptedByMeta == seals > 0

(* decryption_middleware opens what the metadata calls encrypted if it starts  *)
(* with a string; the metadata's key and nonce fit the last encryption only,   *)
(* and it goes on calling the opened arguments encrypted.                      *)
LooksEncrypted == seals > 0 /\ (depth > 0 \/ first = "string")

EnterDecrypt ==
    /\ Enters("decrypt")
    /\ CASE ~LooksEncrypted -> Deeper /\ UNCHANGED depth
         [] LooksEncrypted /\ key /\ depth = seals -> Deeper /\ depth' = depth - 1
         [] OTHER -> Raise("decrypt") /\ UNCHANGED depth
    /\ Quiet /\ UNCHANGED layers

EnterHandler ==
    /\ phase = "down"
    /\ at = Len(chain) + 1
    /\ phase' = "handler"
    /\ lastRun' = "none"
    /\ UNCHANGED <<setting, seals, depth, at, layers, cancelling, pending, result, cancels,
                   swallowed>>

-----------------------------------------------------------------------------
(* While the task is suspended *)

Suspended == phase \in {"handler", "sleep"}

(* asyncio.timeout's _on_timeout cancels the task. *)
TimerFires(i) ==
    /\ Suspended
    /\ timer[i] = "running"
    /\ timer' = [timer EXCEPT ![i] = "expired"]
    /\ cancelling' = cancelling + 1
    /\ pending' = TRUE
    /\ UNCHANGED <<setting, seals, depth, phase, at, attempt, base, counted, result, cancels,
                   swallowed, lastRun>>

(* The worker cancels the execution (the end of the grace period). *)
WorkerCancels ==
    /\ Suspended
    /\ cancels < MaxCancels
    /\ cancels' = cancels + 1
    /\ cancelling' = cancelling + 1
    /\ pending' = TRUE
    /\ UNCHANGED <<setting, seals, depth, phase, at, layers, result, swallowed, lastRun>>

(* The handler's CancelledError: raised on, or swallowed by the handler. *)
HandlerCancelled ==
    /\ phase = "handler"
    /\ pending
    /\ pending' = FALSE
    /\ \/ Raise("cancelled") /\ lastRun' = "cancelled" /\ UNCHANGED swallowed
       \/ /\ swallowed' = swallowed
                 \cup (IF cancels > 0 THEN {"worker"} ELSE {})
                 \cup (IF \E i \in Layers : timer[i] = "expired" THEN {"timer"} ELSE {})
          /\ UNCHANGED <<phase, at, result, lastRun>>
    /\ UNCHANGED <<setting, seals, depth, layers, cancelling, cancels>>

HandlerEnds ==
    /\ phase = "handler"
    /\ ~pending
    /\ \E end \in {"value", "error"} : Raise(end) /\ lastRun' = end
    /\ UNCHANGED <<setting, seals, depth, layers, cancelling, pending, cancels, swallowed>>

(* The retry's sleep ends; with a lease that runs out first it raises *)
(* LeaseBudgetExceededError.                                          *)
SleepEnds ==
    /\ phase = "sleep"
    /\ ~pending
    /\ \/ attempt' = [attempt EXCEPT ![at] = @ + 1] /\ Deeper
       \/ Raise("lease") /\ UNCHANGED attempt
    /\ Quiet /\ UNCHANGED <<depth, timer, base, counted>>

SleepCancelled ==
    /\ phase = "sleep"
    /\ pending
    /\ pending' = FALSE
    /\ Raise("cancelled")
    /\ UNCHANGED <<setting, seals, depth, layers, cancelling, cancels, swallowed, lastRun>>

-----------------------------------------------------------------------------
(* On the way back *)

Leaves(kind) == phase = "up" /\ at \in Layers /\ chain[at] = kind
Outer == phase' = "up" /\ at' = at - 1

(* ExecutionRetry.run: any Exception is tried again until the attempts are used. *)
LeaveRetry ==
    /\ Leaves("retry")
    /\ IF result \in Exceptions /\ attempt[at] < MaxRetries
         THEN phase' = "sleep" /\ UNCHANGED at
         ELSE Outer
    /\ Quiet /\ UNCHANGED <<depth, layers, result>>

\* (mutant) Whatever else is outstanding.
LeaveTimeoutBlindly ==
    /\ Leaves("timeout")
    /\ timer' = [timer EXCEPT ![at] = "off"]
    /\ cancelling' = IF timer[at] = "expired" THEN cancelling - 1 ELSE cancelling
    /\ result' = IF timer[at] = "expired" /\ result = "cancelled" THEN "timeout" ELSE result
    /\ Outer
    /\ UNCHANGED <<setting, seals, depth, attempt, base, counted, pending, cancels, swallowed,
                   lastRun>>

(* asyncio.timeout's exit, and the middleware's own TimeoutError: a timeout that *)
(* expired takes back its cancellation, and is to blame for the CancelledError  *)
(* only when no other cancellation is outstanding.                              *)
LeaveTimeout ==
    /\ Leaves("timeout")
    /\ timer' = [timer EXCEPT ![at] = "off"]
    /\ cancelling' = IF timer[at] = "expired" THEN cancelling - 1 ELSE cancelling
    /\ result' = IF timer[at] = "expired" /\ result = "cancelled" /\ cancelling' <= base[at]
                   THEN "timeout"
                   ELSE result
    /\ Outer
    /\ UNCHANGED <<setting, seals, depth, attempt, base, counted, pending, cancels, swallowed,
                   lastRun>>

\* (mutant) except BaseException.
RecordAll(end, last) == IF end = "value" THEN "completed" ELSE "failed"

(* An observer records a completion or a failure, and nothing of a *)
(* cancellation, which is no Exception.                            *)
Record(end, last) ==
    CASE end = "value" -> "completed" [] end \in Exceptions -> "failed" [] OTHER -> last

Recorded == counted' = [counted EXCEPT ![at] = Record(result, @)] /\ Outer /\ UNCHANGED result

\* (mutant) The success is recorded, and its recorder fails, inside the try.
LeaveMetricsInside ==
    /\ Leaves("metrics") \/ Leaves("strict")
    /\ \/ Recorded
       \/ result # "cancelled" /\ Raise("recorder") /\ UNCHANGED counted
    /\ Quiet /\ UNCHANGED <<depth, attempt, timer, base>>

(* Metrics: a recorder that fails leaves no record; with fail_open that is all, *)
(* without it the recorder's exception takes the place of what came up.         *)
LeaveMetrics ==
    /\ Leaves("metrics") \/ Leaves("strict")
    /\ \/ Recorded
       \/ /\ result # "cancelled" /\ UNCHANGED counted
          /\ IF chain[at] = "strict" THEN Raise("recorder") ELSE Outer /\ UNCHANGED result
    /\ Quiet /\ UNCHANGED <<depth, attempt, timer, base>>

(* Logging and OpenTelemetry: what recording a success raises is caught as if   *)
(* the handler had raised it, recorded as a failure and raised on; recording a  *)
(* failure may raise in turn.                                                   *)
LeaveLogging ==
    /\ Leaves("logging")
    /\ \/ Recorded
       \/ /\ result # "cancelled" /\ Raise("recorder")
          /\ \/ UNCHANGED counted
             \/ result = "value" /\ counted' = [counted EXCEPT ![at] = "failed"]
    /\ Quiet /\ UNCHANGED <<depth, attempt, timer, base>>

LeaveDecrypt ==
    /\ Leaves("decrypt")
    /\ Outer
    /\ Quiet /\ UNCHANGED <<depth, layers, result>>

(* Worker._process_job gets the chain's result. *)
Finish ==
    /\ phase = "up"
    /\ at = 0
    /\ phase' = "done"
    /\ UNCHANGED <<setting, seals, depth, at, layers, cancelling, pending, result, cancels,
                   swallowed, lastRun>>

(* What it reports: an ACK, or a NACK with this error code. *)
Outcome ==
    CASE result = "value" -> "ack" [] result = "cancelled" -> "cancelled"
      [] OTHER -> "handler_error"

-----------------------------------------------------------------------------
Synchronous == EnterRetry \/ EnterTimeout \/ EnterObserver \/ EnterDecrypt \/ EnterHandler
               \/ LeaveRetry \/ LeaveTimeout \/ LeaveMetrics \/ LeaveLogging \/ LeaveDecrypt
               \/ Finish

ChainNext == Seal \/ Start \/ Synchronous \/ SleepEnds \/ SleepCancelled \/ HandlerCancelled
        \/ HandlerEnds \/ WorkerCancels \/ \E i \in Layers : TimerFires(i)

(* The event loop runs the task and its timers.  Nothing obliges the handler to *)
(* end; one that does not catch its CancelledError is ended by it.              *)
ChainFairness ==
    /\ WF_chainVars(Start)
    /\ WF_chainVars(Synchronous)
    /\ WF_chainVars(SleepEnds \/ SleepCancelled)
    /\ WF_chainVars(HandlerCancelled)
    /\ WF_chainVars(\E i \in Layers : TimerFires(i))

ChainSpec == ChainInit /\ [][ChainNext]_chainVars /\ ChainFairness

-----------------------------------------------------------------------------
\* Some layer of kind a encloses one of kind b.
Encloses(a, b) == \E i, j \in Layers : i < j /\ chain[i] = a /\ chain[j] = b
HandlerStarts == phase # "handler" /\ phase' = "handler"

(* A cancellation by the worker ends the execution and is reported as such: no  *)
(* timeout that expires around it turns it into a failure and no retry starts   *)
(* the handler again, unless the handler itself swallowed it (timeout.py's      *)
(* asyncio.timeout, ExecutionRetry's "except Exception").                       *)
CancelPrevails ==
    [][cancels > 0 /\ "worker" \notin swallowed =>
         /\ ~HandlerStarts
         /\ phase' = "done" => Outcome = "cancelled"]_chainVars

(* A handler that succeeded is neither started again nor reported as failed,    *)
(* whatever the recorder of metrics with fail_open does. The other observers    *)
(* give that up: what their recorder raises is reported, or starts the handler  *)
(* again with a retry around them (_record_metric, the try of otel.py 103-119). *)
SuccessIsKept ==
    [][lastRun = "value" =>
         LET again == \E kind \in Loud : Encloses("retry", kind)
         IN /\ HandlerStarts => again
            /\ phase' = "done" =>
                 \/ Outcome = "ack"
                 \/ again
                 \/ result = "recorder" /\ \E i \in Layers : chain[i] \in Loud]_chainVars

(* Behind the decryption middleware the handler gets plain arguments, and a key *)
(* that fits is refused only when a layer around it goes through it again and   *)
(* the plain arguments start with a string, which it takes for ciphertext.      *)
(* Arguments encrypted twice are out of its reach (_decrypt_mw, _encrypt_mw).   *)
HandlerSeesPlaintext ==
    /\ ChainTypeOK
    /\ seals <= 1 /\ "decrypt" \in {chain[i] : i \in Layers} =>
         /\ phase = "handler" => depth = 0
         /\ result = "decrypt" /\ key =>
              /\ first = "string"
              /\ Encloses("retry", "decrypt") \/ Encloses("decrypt", "decrypt")

(* An observer with nothing around it but metrics with fail_open or decryption. *)
Outermost(i) ==
    chain[i] \in Observers /\ \A j \in 1 .. (i - 1) : chain[j] \in {"metrics", "decrypt"}

(* No such observer contradicts what is reported to the backend: if it recorded *)
(* an end it was a completion for an ACK, a failure for a NACK, and nothing for *)
(* a cancellation. Metrics with fail_open may have missed the end, the others   *)
(* only when their recorder's exception is what is reported (metrics_middleware,*)
(* logging_middleware, opentelemetry_middleware).                               *)
OutcomeCounted ==
    \A i \in Layers : phase = "done" /\ Outermost(i) =>
      /\ counted[i] = "completed" => Outcome = "ack"
      /\ counted[i] = "failed" => Outcome = "handler_error"
      /\ counted[i] = "started" => \/ chain[i] = "metrics"
                                  \/ result \in {"cancelled", "recorder"}

(* With a timeout anywhere in the chain an execution ends although its handler  *)
(* never does, unless the handler swallows the cancellation (timeout.py).       *)
TimeoutEnds ==
    "timeout" \in {chain[i] : i \in Layers} => <>(phase = "done" \/ swallowed # {})
=============================================================================
