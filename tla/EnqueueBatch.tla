---------------------------- MODULE EnqueueBatch ----------------------------
(***************************************************************************)
(* EnqueuePipeline.enqueue_batch (ojs.client.enqueue_pipeline): the        *)
(* middleware chains of a batch run concurrently up to their terminal      *)
(* (the innermost next()), a barrier waits until each has reached it or    *)
(* ended without, one push_batch sends what reached it, and each chain     *)
(* goes on with its own job.                                               *)
(*                                                                         *)
(* Middleware is the application's: before next() it may return a result   *)
(* of its own or None or raise; it may give up on next() (a timeout), and  *)
(* after next() it may pass the job on, drop it, replace it, raise, or     *)
(* call next() once more.  It does not swallow CancelledError.             *)
(***************************************************************************)
EXTENDS Naturals, Sequences, FiniteSets

CONSTANTS
    N,              \* the requests of the batch
    Timeouts,       \* may middleware give up on next()?
    Cancellable     \* may the caller of enqueue_batch be cancelled?

VARIABLES
    serial,    \* does the application's middleware hold a lock across next()?
    phase,     \* of enqueue_batch: the await it is at
    chain,     \* item -> where its run_chain task is
    reached,   \* item -> dispatch's "reached"
    hand,      \* item -> what next() gave its middleware: a job or an exception
    future,    \* item -> its _BatchTerminal's future
    got,       \* item -> the job its future was resolved with
    final,     \* item -> final_results
    error,     \* item -> chain_errors
    pushed,    \* the items of the push_batch call, in order
    calls,     \* push_batch calls made
    created,   \* items whose job the backend has created
    outcome    \* how enqueue_batch ended

tasks   == <<chain, reached, hand, final, error>>
batch   == <<future, got>>
backend == <<pushed, calls, created, serial>>
batchVars    == <<phase, tasks, batch, backend, outcome>>

Items == 1..N

ASSUME BatchAssumption ==
    /\ N \in Nat \ {0}
    /\ {Timeouts, Cancellable} \subseteq BOOLEAN

Phases    == {"gates", "push", "abort", "pushfailed", "post", "cancelled", "done"}
\* Exceptions: the request is invalid, middleware's own, a rejected item that
\* aborts the batch, the transport's, "terminal re-invoked", a timeout, and
\* asyncio.CancelledError.
Errors    == {"invalid", "middleware", "rejected", "transport", "reinvoked",
              "timeout", "cancelled"}
Finals    == {"None", "job", "replacement"}
Futures   == {"none", "pending", "job", "rejected", "transport", "cancelled"}

BatchInit ==
    /\ serial \in BOOLEAN
    /\ phase = "gates"
    /\ chain = [i \in Items |-> "pre"]
    /\ reached = [i \in Items |-> FALSE]
    /\ hand = [i \in Items |-> "none"]
    /\ future = [i \in Items |-> "none"]
    /\ got = [i \in Items |-> 0]
    /\ final = [i \in Items |-> "None"]
    /\ error = [i \in Items |-> "none"]
    /\ pushed = <<>> /\ calls = 0 /\ created = {}
    /\ outcome = "none"

-----------------------------------------------------------------------------
(* run_chain: one task per item *)

Locked == serial /\ \E i \in Items : chain[i] \in {"wait", "after"}

\* A chain's task ends with a result, or with an exception that run_chain keeps
\* unless it is CancelledError.
EndsWith(i, result) ==
    /\ chain' = [chain EXCEPT ![i] = "done"]
    /\ final' = [final EXCEPT ![i] = result]
    /\ UNCHANGED <<reached, hand, error>>
EndsRaising(i, e) ==
    /\ chain' = [chain EXCEPT ![i] = "done"]
    /\ error' = [error EXCEPT ![i] = IF e = "cancelled" THEN "none" ELSE e]
    /\ UNCHANGED <<reached, hand, final>>

\* The request is invalid: no middleware sees it.
InvalidRequest(i) ==
    /\ chain[i] = "pre" /\ EndsRaising(i, "invalid")
    /\ UNCHANGED <<phase, batch, backend, outcome>>

\* Middleware does not call next(): None rejects, anything else replaces.
ShortCircuit(i) ==
    /\ chain[i] = "pre" /\ ~Locked
    /\ \/ \E result \in {"None", "replacement"} : EndsWith(i, result)
       \/ EndsRaising(i, "middleware")
    /\ UNCHANGED <<phase, batch, backend, outcome>>

\* dispatch: the terminal captures the request and awaits its job.
Dispatch(i) ==
    /\ chain[i] = "pre" /\ ~Locked
    /\ chain' = [chain EXCEPT ![i] = "wait"]
    /\ reached' = [reached EXCEPT ![i] = TRUE]
    /\ future' = [future EXCEPT ![i] = "pending"]
    /\ UNCHANGED <<phase, hand, final, error, got, backend, outcome>>

\* dispatch refuses a request that middleware has made invalid.
DispatchInvalid(i) ==
    /\ chain[i] = "pre" /\ ~Locked
    /\ chain' = [chain EXCEPT ![i] = "after"]
    /\ reached' = [reached EXCEPT ![i] = TRUE]
    /\ hand' = [hand EXCEPT ![i] = "invalid"]
    /\ UNCHANGED <<phase, final, error, batch, backend, outcome>>

\* The awaited future is resolved, and next() returns or raises.
Resume(i) ==
    /\ chain[i] = "wait" /\ future[i] # "pending"
    /\ chain' = [chain EXCEPT ![i] = "after"]
    /\ hand' = [hand EXCEPT ![i] = future[i]]
    /\ UNCHANGED <<phase, reached, final, error, batch, backend, outcome>>

\* Middleware stops waiting for next(), which cancels the future.
GiveUp(i) ==
    /\ Timeouts /\ chain[i] = "wait"
    /\ chain' = [chain EXCEPT ![i] = "after"]
    /\ hand' = [hand EXCEPT ![i] = "timeout"]
    /\ future' = [future EXCEPT ![i] = IF @ = "pending" THEN "cancelled" ELSE @]
    /\ UNCHANGED <<phase, reached, final, error, got, backend, outcome>>

\* Middleware calls next() again: dispatch refuses, with the error of its
\* validation if that is what failed, and a generic one otherwise.
Reinvoke(i) ==
    /\ chain[i] = "after" /\ hand[i] \notin {"cancelled", "reinvoked"}
    /\ hand' = [hand EXCEPT ![i] = IF future[i] = "none" THEN "invalid" ELSE "reinvoked"]
    /\ UNCHANGED <<phase, chain, reached, final, error, batch, backend, outcome>>

\* Middleware returns or raises after next().
Finish(i) ==
    /\ chain[i] = "after"
    /\ \/ hand[i] = "job" /\ EndsWith(i, "job")
       \/ hand[i] # "cancelled" /\ \E result \in {"None", "replacement"} : EndsWith(i, result)
       \/ hand[i] # "job" /\ EndsRaising(i, hand[i])
       \/ hand[i] # "cancelled" /\ EndsRaising(i, "middleware")
    /\ UNCHANGED <<phase, batch, backend, outcome>>

-----------------------------------------------------------------------------
(* enqueue_batch *)

\* gates: an item is decided when it is captured or its chain has ended.
Decided == \A i \in Items : future[i] # "none" \/ chain[i] = "done"

\* (mutant) a rejected item does not count as a failure.
FailuresRaised == {i \in Items : error[i] # "none"}

\* An exception anywhere, or None from a chain that was not captured.
Failures == {i \in Items : error[i] # "none" \/ (future[i] = "none" /\ final[i] = "None")}

\* set_exception on whatever is not done yet.
FailFutures(e) ==
    future' = [i \in Items |-> IF future[i] = "pending" THEN e ELSE future[i]]

\* The whole batch is given up before any transport call.
Abort ==
    /\ phase = "gates" /\ Decided /\ Failures # {}
    /\ phase' = "abort"
    /\ error' = [i \in Items |->
          IF error[i] = "none" /\ i \in Failures THEN "rejected" ELSE error[i]]
    /\ FailFutures("rejected")
    /\ UNCHANGED <<chain, reached, hand, final, got, backend, outcome>>

\* The items that reached their terminal, in the order of the batch.
InOrder(S) == CHOOSE s \in [1..Cardinality(S) -> S] :
    \A a, b \in DOMAIN s : a < b => s[a] < s[b]
Captured == {i \in Items : future[i] # "none"}

Push ==
    /\ phase = "gates" /\ Decided /\ Failures = {}
    /\ IF Captured = {} THEN phase' = "post" /\ UNCHANGED <<pushed, calls>>
       ELSE /\ phase' = "push" /\ calls' = calls + 1
            /\ pushed' = InOrder(Captured)
    /\ UNCHANGED <<tasks, batch, created, outcome, serial>>

\* The jobs of the answer are handed to the futures still waiting for them.
Sent == {pushed[k] : k \in DOMAIN pushed}
Resolve(jobs) ==
    /\ created' = created \cup Sent
    /\ future' = [i \in Items |-> IF future[i] = "pending" THEN "job" ELSE future[i]]
    /\ got' = [i \in Items |-> IF future[i] = "pending" THEN jobs[i] ELSE got[i]]

\* push_batch returns one job per item, in the order of the call.
PushSucceeds ==
    /\ phase = "push" /\ phase' = "post"
    /\ Resolve([i \in Sent |-> pushed[CHOOSE k \in DOMAIN pushed : pushed[k] = i]])
    /\ UNCHANGED <<tasks, pushed, calls, outcome, serial>>

\* (mutant) the chains are not told.
PushFailsSilently ==
    /\ phase = "push" /\ phase' = "pushfailed"
    /\ created' \in {created, created \cup Sent}
    /\ UNCHANGED <<tasks, batch, pushed, calls, outcome, serial>>

\* It raises, or answers with another number of jobs; the batch may exist.
PushFails ==
    /\ phase = "push" /\ phase' = "pushfailed"
    /\ created' \in {created, created \cup Sent}
    /\ FailFutures("transport")
    /\ UNCHANGED <<tasks, got, pushed, calls, outcome, serial>>

\* gather(*tasks) is over: the call raises what it aborted or failed with, the
\* first exception after next(), or returns the results that are not None.
End ==
    /\ phase \in {"abort", "pushfailed", "post", "cancelled"}
    /\ \A i \in Items : chain[i] = "done"
    /\ phase' = "done"
    /\ outcome' = CASE phase = "abort" -> "aborted"
                    [] phase = "pushfailed" -> "transport"
                    [] phase = "cancelled" -> "cancelled"
                    [] OTHER -> IF \E i \in Items : error[i] # "none" THEN "raised" ELSE "returned"
    /\ UNCHANGED <<tasks, batch, backend>>

\* (mutant) the chains are not awaited after they are cancelled.
CallerCancelledHurried ==
    /\ Cancellable /\ phase \notin {"cancelled", "done"}
    /\ phase' = "done" /\ outcome' = "cancelled"
    /\ hand' = [i \in Items |-> IF chain[i] = "done" THEN hand[i] ELSE "cancelled"]
    /\ UNCHANGED <<chain, reached, final, error, batch, backend>>

\* The task awaiting enqueue_batch is cancelled, and with it every chain; a push
\* under way is abandoned.  A gather that is cancelled again still waits.
CallerCancelled ==
    /\ Cancellable /\ phase \notin {"cancelled", "done"}
    /\ phase' = "cancelled"
    /\ created' \in IF phase = "push"
                    THEN {created, created \cup Sent}
                    ELSE {created}
    /\ chain' = [i \in Items |-> IF chain[i] = "done" THEN "done" ELSE "after"]
    /\ hand' = [i \in Items |-> IF chain[i] = "done" THEN hand[i] ELSE "cancelled"]
    /\ FailFutures("cancelled")
    /\ UNCHANGED <<reached, final, error, got, pushed, calls, outcome, serial>>

-----------------------------------------------------------------------------
ChainStep(i) ==
    \/ ShortCircuit(i) \/ Dispatch(i) \/ DispatchInvalid(i) \/ Resume(i)
    \/ Reinvoke(i) \/ Finish(i)

BatchStep == Abort \/ Push \/ PushSucceeds \/ PushFails \/ End

BatchNext ==
    \/ BatchStep \/ CallerCancelled
    \/ \E i \in Items : InvalidRequest(i) \/ GiveUp(i) \/ ChainStep(i)

\* Middleware, the loop and the transport make progress; middleware calls
\* next() again only once, which the model builds in.
BatchFairness == WF_batchVars(BatchStep) /\ \A i \in Items : WF_batchVars(ChainStep(i))

BatchSpec == BatchInit /\ [][BatchNext]_batchVars /\ BatchFairness

-----------------------------------------------------------------------------
(* Properties *)

\* Types, and at most one transport call (enqueue_pipeline.py 133).
BatchTypeOK ==
    /\ serial \in BOOLEAN /\ phase \in Phases
    /\ chain \in [Items -> {"pre", "wait", "after", "done"}]
    /\ reached \in [Items -> BOOLEAN]
    /\ hand \in [Items -> {"none", "job"} \cup Errors]
    /\ future \in [Items -> Futures]
    /\ got \in [Items -> 0..N]
    /\ final \in [Items -> Finals]
    /\ error \in [Items -> {"none"} \cup Errors]
    /\ calls \in 0..1 /\ created \subseteq Items
    /\ outcome \in {"none", "aborted", "transport", "cancelled", "raised", "returned"}

\* Nothing of a batch is ever created when one of its items was rejected or
\* failed before its terminal (enqueue_pipeline.py 131-138, 217-233).
NoPartialBatch ==
    \A i \in Items :
        chain[i] = "done" /\ future[i] = "none" /\ final[i] # "replacement"
            => calls = 0 /\ created = {}

\* Middleware sees its own item's job, whichever items were left out of the push
\* (enqueue_pipeline.py 235-252).
OwnJob == \A i \in Items : got[i] \in {0, i} /\ (got[i] = i => i \in created)

\* A batch is created as a whole or not at all, by one call, and each item gets
\* the job made for it (enqueue_pipeline.py 131-138, 217-252).
AllOrNothing == BatchTypeOK /\ NoPartialBatch /\ OwnJob

\* When enqueue_batch ends, whichever way, no chain is left running
\* (enqueue_pipeline.py 232, 248, 257-262).
NoTaskLeft == phase = "done" => \A i \in Items : chain[i] = "done"

\* Middleware that holds a lock across next() keeps the others out of it, so that
\* no more than one item of its batch ever gets a job (enqueue_pipeline.py 215).
Starved == serial => Cardinality({i \in Items : got[i] # 0}) <= 1

\* Every call ends: no chain waits for a future nobody resolves, and the barrier
\* for no chain that has ended (enqueue_pipeline.py 164-167, 210-262). Not so
\* with middleware that holds a lock across next(), which the barrier wants
\* every chain to be in at once.
Settles ==
    /\ serial \/ <>(phase = "done")
    /\ []Starved
=============================================================================
