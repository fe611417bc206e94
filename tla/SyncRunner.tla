----------------------------- MODULE SyncRunner -----------------------------
(***************************************************************************)
(* SyncRunner (ojs.client.sync_runner), the event-loop thread behind       *)
(* SyncClient: threads that call it take turns to start the loop if there  *)
(* is none, submit one coroutine and wait for it; close() runs the last    *)
(* one, stops the loop and joins its thread.                               *)
(*                                                                         *)
(* _state_lock is taken only by the holder of _submission_lock, so it adds *)
(* nothing to it and is left out.                                          *)
(***************************************************************************)
EXTENDS Naturals, FiniteSets

CONSTANTS
    Callers,      \* the application's threads
    MaxCalls,     \* bound: calls of run()
    MaxLoops,     \* bound: event-loop threads
    NoOne

VARIABLES
    pc,         \* caller -> where it is
    lock,       \* holder of _submission_lock, or NoOne
    loop,       \* _loop: 0, or the thread that set it
    ready,      \* _ready
    thread,     \* _thread: the last thread started
    threads,    \* thread -> "none", "spawned", "assigned", "running", "stopping", "dead"
    closed,     \* _closed
    closing,    \* SyncClient._closed
    on,         \* caller -> the loop its coroutine runs on, or 0
    orphans,    \* loop -> coroutines whose caller was interrupted
    runs,      \* calls of run() made
    closeEnds,  \* how close() ended: "none", "joined", "raised"
    late,       \* the wait for a new thread was given up
    target      \* the loop close() has submitted to

runner == <<loop, ready, thread, closed>>
work   == <<on, orphans>>
ends   == <<closeEnds, late, target>>
runnerVars   == <<pc, lock, runner, threads, closing, work, runs, ends>>

Loops == 1..MaxLoops
Pcs == {"idle", "run", "ensure", "starting", "result",
        "close", "closeensure", "closestarting", "closeresult", "joining"}

ASSUME RunnerAssumption ==
    /\ NoOne \notin Callers
    /\ MaxCalls \in Nat /\ MaxLoops \in Nat \ {0}

RunnerInit ==
    /\ pc = [c \in Callers |-> "idle"] /\ lock = NoOne
    /\ loop = 0 /\ ready = FALSE /\ thread = 0 /\ closed = FALSE
    /\ threads = [l \in Loops |-> "none"]
    /\ closing = FALSE
    /\ on = [c \in Callers |-> 0] /\ orphans = [l \in Loops |-> 0]
    /\ runs = 0 /\ closeEnds = "none" /\ late = FALSE /\ target = 0

Go(c, to) == pc' = [pc EXCEPT ![c] = to]
Release(c) == lock' = NoOne /\ Go(c, "idle")

-----------------------------------------------------------------------------
(* The application's threads *)

Run(c) ==
    /\ pc[c] = "idle" /\ runs < MaxCalls
    /\ runs' = runs + 1 /\ Go(c, "run")
    /\ UNCHANGED <<lock, runner, threads, closing, work, ends>>

\* SyncClient.close(): only the first call reaches the runner.
Close(c) ==
    /\ pc[c] = "idle" /\ ~closing
    /\ closing' = TRUE /\ Go(c, "close")
    /\ UNCHANGED <<lock, runner, threads, work, runs, ends>>

Acquire(c) ==
    /\ lock = NoOne
    /\ \/ pc[c] = "run" /\ Go(c, "ensure")
       \/ pc[c] = "close" /\ Go(c, "closeensure")
    /\ lock' = c
    /\ UNCHANGED <<runner, threads, closing, work, runs, ends>>

\* run() after close(): RuntimeError.
Refused(c) ==
    /\ pc[c] = "ensure" /\ closed /\ Release(c)
    /\ UNCHANGED <<runner, threads, closing, work, runs, ends>>

\* (mutant) the lock is released while the coroutine runs.
SubmitUnlocked(c, to) ==
    /\ on' = [on EXCEPT ![c] = loop] /\ Go(c, to) /\ lock' = NoOne
    /\ target' = IF to = "closeresult" THEN loop ELSE target
    /\ UNCHANGED <<runner, threads, closing, orphans, runs, closeEnds, late>>

\* run_coroutine_threadsafe on the loop there is.
Submit(c, to) ==
    /\ on' = [on EXCEPT ![c] = loop] /\ Go(c, to)
    /\ target' = IF to = "closeresult" THEN loop ELSE target
    /\ UNCHANGED <<lock, runner, threads, closing, orphans, runs, closeEnds, late>>

UseLoop(c) ==
    /\ loop # 0
    /\ \/ pc[c] = "ensure" /\ ~closed /\ Submit(c, "result")
       \/ pc[c] = "closeensure" /\ Submit(c, "closeresult")

\* No loop yet: a thread is started for it.
StartLoop(c) ==
    /\ loop = 0 /\ thread < MaxLoops
    /\ \/ pc[c] = "ensure" /\ ~closed /\ Go(c, "starting")
       \/ pc[c] = "closeensure" /\ Go(c, "closestarting")
    /\ ready' = FALSE
    /\ thread' = thread + 1
    /\ threads' = [threads EXCEPT ![thread'] = "spawned"]
    /\ UNCHANGED <<lock, loop, closed, closing, work, runs, ends>>

LoopIsReady(c) ==
    /\ ready /\ loop # 0
    /\ \/ pc[c] = "starting" /\ Submit(c, "result")
       \/ pc[c] = "closestarting" /\ Submit(c, "closeresult")

\* (mutant) a failed start keeps the lock.
StartTimesOutLocked(c) ==
    /\ ~ready /\ pc[c] \in {"starting", "closestarting"}
    /\ Go(c, "idle")
    /\ UNCHANGED <<lock, runner, threads, closing, work, runs, ends>>

\* The thread is not ready within 5 s, or the wait for it is interrupted: an
\* exception, and close() has not closed.
StartTimesOut(c) ==
    /\ ~ready /\ pc[c] \in {"starting", "closestarting"}
    /\ Release(c)
    /\ closeEnds' = IF pc[c] = "closestarting" THEN "raised" ELSE closeEnds
    /\ late' = TRUE
    /\ UNCHANGED <<runner, threads, closing, work, runs, target>>

\* The coroutine is over, and its result returned or raised.
Return(c) ==
    /\ pc[c] = "result" /\ on[c] = 0 /\ Release(c)
    /\ UNCHANGED <<runner, threads, closing, work, runs, ends>>

\* KeyboardInterrupt: run() raises, and leaves the coroutine on the loop.
Interrupted(c) ==
    /\ pc[c] = "result" /\ on[c] # 0
    /\ on' = [on EXCEPT ![c] = 0]
    /\ orphans' = [orphans EXCEPT ![on[c]] = @ + 1]
    /\ Release(c)
    /\ UNCHANGED <<runner, threads, closing, runs, ends>>

\* The last coroutine is over, or the wait for it interrupted: the client is
\* closed, no call may follow, and the loop is stopped.
Stop(c) ==
    /\ pc[c] = "closeresult"
    /\ on' = [on EXCEPT ![c] = 0]
    /\ orphans' = IF on[c] = 0 THEN orphans ELSE [orphans EXCEPT ![on[c]] = @ + 1]
    /\ closed' = TRUE /\ Go(c, "joining")
    /\ threads' = [threads EXCEPT ![target] = "stopping"]
    /\ UNCHANGED <<lock, loop, ready, thread, closing, runs, ends>>

Joined(c) ==
    /\ pc[c] = "joining" /\ threads[thread] = "dead"
    /\ closeEnds' = "joined" /\ Release(c)
    /\ UNCHANGED <<runner, threads, closing, work, runs, late, target>>

\* The thread is still alive after 5 s: RuntimeError.
JoinTimesOut(c) ==
    /\ pc[c] = "joining" /\ threads[thread] # "dead"
    /\ closeEnds' = "raised" /\ Release(c)
    /\ UNCHANGED <<runner, threads, closing, work, runs, late, target>>

-----------------------------------------------------------------------------
(* _run_loop: the loop's thread *)

Assign(l) ==
    /\ threads[l] = "spawned"
    /\ threads' = [threads EXCEPT ![l] = "assigned"] /\ loop' = l
    /\ UNCHANGED <<pc, lock, ready, thread, closed, closing, work, runs, ends>>

SetReady(l) ==
    /\ threads[l] = "assigned"
    /\ threads' = [threads EXCEPT ![l] = "running"] /\ ready' = TRUE
    /\ UNCHANGED <<pc, lock, loop, thread, closed, closing, work, runs, ends>>

CoroutineEnds(l) ==
    /\ threads[l] = "running"
    /\ \E c \in Callers : on[c] = l /\ on' = [on EXCEPT ![c] = 0]
    /\ UNCHANGED <<pc, lock, runner, threads, closing, orphans, runs, ends>>

\* An abandoned coroutine ends, by itself or cancelled by the stopping loop.
OrphanEnds(l) ==
    /\ threads[l] \in {"running", "stopping"} /\ orphans[l] > 0
    /\ orphans' = [orphans EXCEPT ![l] = @ - 1]
    /\ UNCHANGED <<pc, lock, runner, threads, closing, on, runs, ends>>

\* (mutant) a stopping loop leaves its pending tasks behind.
LoopEndsAnyway(l) ==
    /\ threads[l] = "stopping"
    /\ threads' = [threads EXCEPT ![l] = "dead"]
    /\ UNCHANGED <<pc, lock, runner, closing, work, runs, ends>>

\* A stopping loop has waited for the tasks it cancelled.
LoopEnds(l) ==
    /\ threads[l] = "stopping" /\ orphans[l] = 0
    /\ threads' = [threads EXCEPT ![l] = "dead"]
    /\ UNCHANGED <<pc, lock, runner, closing, work, runs, ends>>

-----------------------------------------------------------------------------
CallerStep(c) ==
    \/ Acquire(c) \/ Refused(c) \/ UseLoop(c) \/ StartLoop(c) \/ LoopIsReady(c)
    \/ StartTimesOut(c) \/ Return(c) \/ Stop(c) \/ Joined(c) \/ JoinTimesOut(c)
LoopStep(l) == Assign(l) \/ SetReady(l) \/ CoroutineEnds(l) \/ OrphanEnds(l) \/ LoopEnds(l)

RunnerNext ==
    \/ \E c \in Callers : Run(c) \/ Close(c) \/ Interrupted(c) \/ CallerStep(c)
    \/ \E l \in Loops : LoopStep(l)

\* Threads run, and every coroutine ends.
RunnerFairness ==
    /\ \A c \in Callers : WF_runnerVars(CallerStep(c))
    /\ \A l \in Loops : WF_runnerVars(LoopStep(l))

RunnerSpec == RunnerInit /\ [][RunnerNext]_runnerVars /\ RunnerFairness

-----------------------------------------------------------------------------
(* Properties *)

\* Types; and the lock is held from Acquire to Release, by whoever is in between.
RunnerTypeOK ==
    /\ pc \in [Callers -> Pcs] /\ lock \in Callers \cup {NoOne}
    /\ \A c \in Callers : lock = c <=> pc[c] \notin {"idle", "run", "close"}
    /\ loop \in 0..MaxLoops /\ thread \in 0..MaxLoops
    /\ threads \in [Loops -> {"none", "spawned", "assigned", "running", "stopping", "dead"}]
    /\ ready \in BOOLEAN /\ closed \in BOOLEAN /\ closing \in BOOLEAN /\ late \in BOOLEAN
    /\ on \in [Callers -> 0..MaxLoops] /\ orphans \in [Loops -> Nat]
    /\ runs \in 0..MaxCalls /\ closeEnds \in {"none", "joined", "raised"}
    /\ target \in 0..MaxLoops

Alive == {l \in Loops : threads[l] \notin {"none", "dead"}}

\* There is one event-loop thread, and what is submitted goes to it, as long as
\* no start was given up (sync_runner.py 13-14, 68-82).
OneLoop ==
    \/ late
    \/ Cardinality(Alive) <= 1 /\ \A c \in Callers : on[c] # 0 => Alive = {on[c]}

\* Two coroutines run at a time only after an interruption (sync_runner.py 25-34).
Serialized == Cardinality({c \in Callers : on[c] # 0}) <= 1

\* However callers are interrupted, time out and close, their coroutines run one
\* at a time on the one loop (sync_runner.py 13-34, 68-82).
OneAtATime == RunnerTypeOK /\ OneLoop /\ Serialized

\* Once close() has returned nothing runs any more: no loop, no coroutine, not
\* even one whose caller was interrupted, as long as no start was given up
\* (sync_runner.py 36-60, 84-99).
ClosedIsQuiet ==
    closeEnds = "joined" /\ ~late =>
        /\ Alive = {} /\ \A c \in Callers : on[c] = 0
        /\ \A l \in Loops : orphans[l] = 0

\* Every call ends, calls that wait while another thread closes the client
\* included (sync_runner.py 25-60).
CallsEnd == \A c \in Callers : pc[c] # "idle" ~> pc[c] = "idle"
=============================================================================
