--------------------------- MODULE DurableContext ---------------------------
(***************************************************************************)
(* Durable execution (ojs.durable): a job is attempted until it is acked,  *)
(* and each attempt's DurableContext records the results of the handler's  *)
(* effects in a log, writes the log to the backend at checkpoints and      *)
(* replays the log it finds there when it starts.                          *)
(*                                                                         *)
(* The handler is a sequence of steps; the effects of one step are started *)
(* in order and awaited together (asyncio.gather), so a step of one effect *)
(* is sequential code.  It may checkpoint between any two steps.           *)
(***************************************************************************)
EXTENDS Naturals, Sequences, Functions

CONSTANTS
    Handlers,     \* job handlers: sequences of sequences of effects
    Kind,         \* effect -> "time", "random" or "call"
    MaxAttempts   \* bound: attempts of the job

VARIABLES
    handler,     \* the job's handler
    overlap,     \* may an attempt begin while an older one still runs?
    mode,        \* attempt -> "none", "run", "completed", "over" or "mismatch"
    entries,     \* attempt -> DurableContext._entries
    cursor,      \* attempt -> _cursor
    replaying,   \* attempt -> _replaying
    step,        \* attempt -> the handler's step
    started,     \* attempt -> effects of the step already started
    inflight,    \* attempt -> side effects being executed
    caught,      \* attempt -> side effects that raised, and the handler went on
    store,       \* the backend's replay log; empty without a checkpoint
    acked        \* the backend has the job's ACK

job     == <<handler, overlap>>
context == <<entries, cursor, replaying>>
program == <<step, started, inflight, caught>>
backend == <<store, acked>>
durableVars    == <<job, mode, context, program, backend>>

Attempts == 1..MaxAttempts
Effects  == DOMAIN Kind

ASSUME HandlerAssumption ==
    /\ MaxAttempts \in Nat
    /\ \A h \in Handlers : h \in Seq(Seq(Effects))
    /\ \A e \in Effects : Kind[e] \in {"time", "random", "call"}

\* An effect is one place in the handler's code: a key names one call.
ASSUME EffectsAreDistinct ==
    \A h \in Handlers : \A i, k \in DOMAIN h : \A j \in DOMAIN h[i], l \in DOMAIN h[k] :
        h[i][j] = h[k][l] => i = k /\ j = l

\* A log entry: the effect and the attempt that produced the value.
Entry(e, n) == [effect |-> e, by |-> n]
EffectsOf(log) == {entry.effect : entry \in Range(log)}

\* (mutant) any entry of the right type will do.
MatchesType(entry, e) == Kind[entry.effect] = Kind[e]

\* What _replay_entry compares: the type, and for a call the key.
Matches(entry, e) ==
    /\ Kind[entry.effect] = Kind[e]
    /\ Kind[e] = "call" => entry.effect = e

DurableInit ==
    /\ handler \in Handlers /\ overlap \in BOOLEAN
    /\ mode = [n \in Attempts |-> "none"]
    /\ entries = [n \in Attempts |-> <<>>]
    /\ cursor = [n \in Attempts |-> 0]
    /\ replaying = [n \in Attempts |-> FALSE]
    /\ step = [n \in Attempts |-> 1]
    /\ started = [n \in Attempts |-> 0]
    /\ inflight = [n \in Attempts |-> {}] /\ caught = [n \in Attempts |-> {}]
    /\ store = <<>> /\ acked = FALSE

-----------------------------------------------------------------------------
(* An attempt begins and ends *)

\* The backend delivers the job: no attempt has it, or, with overlap, the lease
\* of the one that has it ran out.
Delivered(n) ==
    /\ mode[n] = "none" /\ ~acked
    /\ \A k \in 1..(n - 1) :
          mode[k] # "none" /\ (overlap \/ mode[k] \notin {"run", "completed"})

BeginWith(n, log) ==
    /\ mode' = [mode EXCEPT ![n] = "run"]
    /\ entries' = [entries EXCEPT ![n] = log]
    /\ replaying' = [replaying EXCEPT ![n] = (log # <<>>)]

\* create(): the log found in the backend is replayed.
Begin(n) ==
    /\ Delivered(n) /\ BeginWith(n, store)
    /\ UNCHANGED <<cursor, program, backend>>

\* load_replay_log fails closed: whatever cannot be loaded ends the attempt.
BeginFails(n) ==
    /\ Delivered(n) /\ mode' = [mode EXCEPT ![n] = "over"]
    /\ UNCHANGED <<context, program, backend>>

\* The attempt is over; what it knew is gone with it (but for caught: history).
EndAs(n, m) ==
    /\ mode' = [mode EXCEPT ![n] = m]
    /\ entries' = [entries EXCEPT ![n] = <<>>]
    /\ cursor' = [cursor EXCEPT ![n] = 0]
    /\ replaying' = [replaying EXCEPT ![n] = FALSE]
    /\ step' = [step EXCEPT ![n] = 1]
    /\ started' = [started EXCEPT ![n] = 0]
    /\ inflight' = [inflight EXCEPT ![n] = {}]
    /\ UNCHANGED caught

\* The process dies, the handler raises, or its outcome cannot be delivered.
Crash(n) ==
    /\ mode[n] \in {"run", "completed"}
    /\ EndAs(n, "over")
    /\ UNCHANGED backend

-----------------------------------------------------------------------------
(* now, random and side_effect *)

HasNext(n) == step[n] <= Len(handler) /\ started[n] < Len(handler[step[n]])
NextEffect(n) == handler[step[n]][started[n] + 1]

Replays(n) == replaying[n] /\ cursor[n] < Len(entries[n])
Candidate(n) == entries[n][cursor[n] + 1]

\* (mutant) only calls move the cursor.
ReplayCountsCalls(n) ==
    /\ mode[n] = "run" /\ HasNext(n) /\ Replays(n)
    /\ Matches(Candidate(n), NextEffect(n))
    /\ started' = [started EXCEPT ![n] = @ + 1]
    /\ cursor' = [cursor EXCEPT ![n] = IF Kind[NextEffect(n)] = "call" THEN @ + 1 ELSE @]
    /\ replaying' = [replaying EXCEPT ![n] = cursor'[n] < Len(entries[n])]
    /\ UNCHANGED <<mode, entries, step, inflight, caught, backend>>

\* The recorded value is returned, and the cursor moves past it.
Replay(n) ==
    /\ mode[n] = "run" /\ HasNext(n) /\ Replays(n)
    /\ Matches(Candidate(n), NextEffect(n))
    /\ started' = [started EXCEPT ![n] = @ + 1]
    /\ cursor' = [cursor EXCEPT ![n] = @ + 1]
    /\ replaying' = [replaying EXCEPT ![n] = cursor[n] + 1 < Len(entries[n])]
    /\ UNCHANGED <<mode, entries, step, inflight, caught, backend>>

\* DurableReplayError: the log does not fit the handler.
ReplayMismatch(n) ==
    /\ mode[n] = "run" /\ HasNext(n) /\ Replays(n)
    /\ ~Matches(Candidate(n), NextEffect(n))
    /\ EndAs(n, "mismatch")
    /\ UNCHANGED backend

\* now() and random(): the value is recorded at once.
RecordValue(n) ==
    /\ mode[n] = "run" /\ HasNext(n) /\ ~Replays(n)
    /\ Kind[NextEffect(n)] # "call"
    /\ entries' = [entries EXCEPT ![n] = Append(@, Entry(NextEffect(n), n))]
    /\ replaying' = [replaying EXCEPT ![n] = FALSE]
    /\ started' = [started EXCEPT ![n] = @ + 1]
    /\ UNCHANGED <<mode, cursor, step, inflight, caught, backend>>

\* side_effect() without a recorded result: the function is called.
Call(n) ==
    /\ mode[n] = "run" /\ HasNext(n) /\ ~Replays(n)
    /\ Kind[NextEffect(n)] = "call"
    /\ inflight' = [inflight EXCEPT ![n] = @ \cup {NextEffect(n)}]
    /\ replaying' = [replaying EXCEPT ![n] = FALSE]
    /\ started' = [started EXCEPT ![n] = @ + 1]
    /\ UNCHANGED <<mode, entries, cursor, step, caught, backend>>

\* It returns, and its result is appended: in the order the calls return.
CallReturns(n, e) ==
    /\ mode[n] = "run" /\ e \in inflight[n]
    /\ entries' = [entries EXCEPT ![n] = Append(@, Entry(e, n))]
    /\ inflight' = [inflight EXCEPT ![n] = @ \ {e}]
    /\ UNCHANGED <<mode, cursor, replaying, step, started, caught, backend>>

\* It raises, and the handler catches that and goes on: nothing is recorded.
CallRaises(n, e) ==
    /\ mode[n] = "run" /\ e \in inflight[n]
    /\ inflight' = [inflight EXCEPT ![n] = @ \ {e}]
    /\ caught' = [caught EXCEPT ![n] = @ \cup {e}]
    /\ UNCHANGED <<mode, context, step, started, backend>>

-----------------------------------------------------------------------------
(* checkpoint, complete and the end of the handler *)

\* All effects of the step have their results, or one raised: asyncio.gather
\* does not wait for the others then, which go on.
Awaited(n) ==
    LET effects == Range(handler[step[n]])
    IN inflight[n] \cap effects = {} \/ caught[n] \cap effects # {}

BetweenSteps(n) ==
    mode[n] = "run" /\ started[n] > 0 /\ ~HasNext(n) /\ Awaited(n)

NextStep(n) ==
    /\ BetweenSteps(n)
    /\ step' = [step EXCEPT ![n] = @ + 1] /\ started' = [started EXCEPT ![n] = 0]
    /\ UNCHANGED <<mode, context, inflight, caught, backend>>

\* (mutant) only what this attempt has replayed or recorded so far is written.
CheckpointTruncates(n) ==
    /\ BetweenSteps(n)
    /\ LET log == IF Replays(n) THEN SubSeq(entries[n], 1, cursor[n]) ELSE entries[n]
       IN store' = log
    /\ UNCHANGED <<mode, context, program, acked>>

\* checkpoint(): the whole log is written.
Checkpoint(n) ==
    /\ BetweenSteps(n)
    /\ store' = entries[n]
    /\ UNCHANGED <<mode, context, program, acked>>

\* complete(), the handler's last call: the checkpoint is deleted.
Complete(n) ==
    /\ mode[n] = "run" /\ step[n] > Len(handler)
    /\ mode' = [mode EXCEPT ![n] = "completed"]
    /\ store' = <<>>
    /\ UNCHANGED <<context, program, acked>>

\* The handler has returned and the worker's ACK arrives.
Ack(n) ==
    /\ \/ mode[n] = "completed"
       \/ mode[n] = "run" /\ step[n] > Len(handler)
    /\ acked' = TRUE
    /\ EndAs(n, "over")
    /\ UNCHANGED store

-----------------------------------------------------------------------------
AttemptStep(n) ==
    \/ Begin(n) \/ BeginFails(n) \/ Crash(n)
    \/ Replay(n) \/ ReplayMismatch(n) \/ RecordValue(n) \/ Call(n)
    \/ \E e \in Effects : CallReturns(n, e) \/ CallRaises(n, e)
    \/ NextStep(n) \/ Checkpoint(n) \/ Complete(n) \/ Ack(n)

DurableNext == (\E n \in Attempts : AttemptStep(n)) /\ UNCHANGED job

DurableSpec == DurableInit /\ [][DurableNext]_durableVars

-----------------------------------------------------------------------------
(* Properties *)

\* Every variable keeps its type; a log never has two entries of one effect.
DurableTypeOK ==
    /\ handler \in Handlers /\ overlap \in BOOLEAN
    /\ mode \in [Attempts -> {"none", "run", "completed", "over", "mismatch"}]
    /\ \A n \in Attempts :
          /\ \A i \in DOMAIN entries[n] :
                entries[n][i] \in [effect : Effects, by : Attempts]
          /\ \A i, j \in DOMAIN entries[n] :
                entries[n][i].effect = entries[n][j].effect => i = j
          /\ cursor[n] \in 0..Len(entries[n])
    /\ replaying \in [Attempts -> BOOLEAN]
    /\ step \in [Attempts -> 1..(Len(handler) + 1)]
    /\ started \in [Attempts -> Nat]
    /\ inflight \in [Attempts -> SUBSET Effects]
    /\ caught \in [Attempts -> SUBSET Effects]
    /\ acked \in BOOLEAN

\* No effect is ever given the value another effect recorded, however calls
\* finish, attempts overlap and checkpoints overwrite each other: a log that
\* does not fit is refused (context.py 208-230).
ReplayFaithful ==
    [][\A n \in Attempts :
          cursor'[n] > cursor[n] => Candidate(n).effect = NextEffect(n)]_durableVars

\* A side effect with a result in the checkpoint is not executed again by any
\* later attempt (context.py 69-88, 131-162; replay_loader.py 54-99).
CheckpointedNotRepeated ==
    [][~overlap => \A n \in Attempts :
          (inflight'[n] \ inflight[n]) \cap EffectsOf(store) = {}]_durableVars

\* A checkpoint only grows until the handler has run all its steps, also when an
\* attempt checkpoints in the middle of its replay: no attempt takes from the
\* next one a value it was given itself (context.py 69-88, 164-197).
CheckpointGrows ==
    [][\/ overlap
       \/ Len(store') >= Len(store) /\ SubSeq(store', 1, Len(store)) = store
       \/ store' = <<>> /\ \E n \in Attempts : step[n] > Len(handler)]_durableVars

\* What a checkpoint holds is neither lost nor done again (context.py 69-88,
\* 131-197).
CheckpointKept == CheckpointGrows /\ CheckpointedNotRepeated

\* Each effect is awaited before the next is started.
Sequential == \A i \in DOMAIN handler : Len(handler[i]) = 1

\* A sequential handler is never refused its own log (each effect finds its
\* recorded result) unless an earlier attempt went on past a side effect that
\* raised, of which the log has no entry (context.py 131-162, 208-230).
SequentialAccepted ==
    /\ DurableTypeOK
    /\ Sequential => \A n \in Attempts :
          mode[n] = "mismatch" => \E k \in 1..(n - 1) : caught[k] # {}

\* "On retry after a crash, recorded values are replayed from the checkpoint
\* instead of re-executing" (context.py 4-6), whatever became of the operations
\* between them: no retry of a sequential handler is refused its log.
RecordedIsReplayed == Sequential /\ ~overlap => \A n \in Attempts : mode[n] # "mismatch"
=============================================================================
