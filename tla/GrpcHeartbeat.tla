--------------------------- MODULE GrpcHeartbeat ----------------------------
(* Heartbeats over gRPC: GrpcTransport.heartbeat makes one RPC for each job the *)
(* worker runs, one after the other (worker_lease.py), and the worker renews    *)
(* its local leases when the last has answered (runtime._heartbeat_loop,        *)
(* ExecutionRegistry.extend_leases). Time is relative, as in ExecutionLease: a  *)
(* lease is the number of ticks it has left.                                    *)
EXTENDS Integers, FiniteSets, SequencesExt

CONSTANTS
    Jobs,           \* the jobs the worker may run; no more than its concurrency
    Idle,           \* the worker's own id, sent when it runs nothing
    Visibility,     \* the visibility timeout
    Interval,       \* heartbeat_interval
    RpcLatency,     \* bound: ticks from sending an RPC to its answer or its failure
    MaxBeatBackoff  \* cap of the loop's backoff

ASSUME HeartbeatAssumption ==
    /\ Idle \notin Jobs /\ IsFiniteSet(Jobs)
    /\ {Visibility, Interval, MaxBeatBackoff} \subseteq Nat \ {0}
    /\ RpcLatency \in Nat /\ RpcLatency < Visibility

VARIABLES
    running,      \* the jobs executing, in the order they were registered
    localLease,   \* job -> ticks left of the worker's lease
    serverLease,  \* job -> ticks left of the server's, 0 if the job has none
    loop,         \* heartbeat loop: "off", "rest", "sent" or "served"
    beatTimer,    \* ticks left of its rest
    beatBackoff,  \* its next backoff
    rpcAge,       \* ticks since the RPC in flight was sent
    pending,      \* ids whose RPC is not answered, the one in flight first
    snapshot,     \* active_job_ids when the heartbeat began
    directed,     \* directed_state of the answers so far
    answer,       \* the served RPC's
    renewed,      \* jobs whose lease the server renewed in this heartbeat
    missed,       \* running jobs that saw a heartbeat fail
    workerState   \* "running", "quiet" or "terminate"

heartbeatVars ==
    <<running, localLease, serverLease, loop, beatTimer, beatBackoff, rpcAge, pending,
      snapshot, directed, answer, renewed, missed, workerState>>
leases == <<running, localLease, serverLease>>
call == <<rpcAge, pending, snapshot, directed, answer, renewed>>

Executing == {running[i] : i \in DOMAIN running}
Directions == {"running", "quiet", "terminate"}

(* The longest rest of the loop: the cap of its backoff may exceed its interval. *)
LongestRest == IF Interval < MaxBeatBackoff THEN MaxBeatBackoff ELSE Interval

HeartbeatTypeOK ==
    /\ Executing \subseteq Jobs /\ Len(running) = Cardinality(Executing)
    /\ localLease \in [Jobs -> 0 .. Visibility] /\ serverLease \in [Jobs -> 0 .. Visibility]
    /\ loop \in {"off", "rest", "sent", "served"}
    /\ beatTimer \in 0 .. LongestRest /\ beatBackoff \in 1 .. MaxBeatBackoff
    /\ rpcAge \in 0 .. RpcLatency
    /\ {pending[i] : i \in DOMAIN pending} \subseteq Jobs \cup {Idle}
    /\ snapshot \subseteq Jobs /\ renewed \subseteq snapshot /\ missed \subseteq Executing
    /\ directed \subseteq Directions /\ answer \in Directions \cup {"none", "error"}
    /\ workerState \in Directions

HeartbeatStart(state) ==
    /\ running = << >>
    /\ localLease = [j \in Jobs |-> 0] /\ serverLease = [j \in Jobs |-> 0]
    /\ loop = state /\ beatTimer = 0 /\ beatBackoff = 1
    /\ rpcAge = 0 /\ pending = << >> /\ snapshot = {} /\ directed = {}
    /\ answer = "none" /\ renewed = {} /\ missed = {}
    /\ workerState = "running"
HeartbeatInit == HeartbeatStart("rest")
NoHeartbeat == HeartbeatStart("off")

(* A fetch starts an execution; the server's lease began when it served it. A   *)
(* job may come back while a heartbeat that renewed it is in flight: it was     *)
(* handed out after its RPC then.                                               *)
BeginJob(j) ==
    /\ loop # "off" /\ workerState = "running" /\ j \notin Executing
    /\ running' = Append(running, j)
    /\ localLease' = [localLease EXCEPT ![j] = Visibility]
    /\ \E lag \in 0 .. (IF loop # "rest" /\ j \in renewed THEN rpcAge ELSE RpcLatency) :
          serverLease' = [serverLease EXCEPT ![j] = Visibility - lag]
    /\ missed' = missed \ {j}
    /\ UNCHANGED <<call, loop, beatTimer, beatBackoff, workerState>>

(* Its outcome is reported, and the execution leaves the registry. *)
EndJob(j) ==
    /\ loop # "off" /\ j \in Executing
    /\ \E i \in DOMAIN running :
          /\ running[i] = j
          /\ running' = RemoveAt(running, i)
    /\ localLease' = [localLease EXCEPT ![j] = 0]
    /\ serverLease' = [serverLease EXCEPT ![j] = 0]
    /\ missed' = missed \ {j}
    /\ UNCHANGED <<call, loop, beatTimer, beatBackoff, workerState>>

\* (mutant) One RPC speaks for all the jobs.
HeartbeatRequestsOnce == IF running = << >> THEN <<Idle>> ELSE <<Head(running)>>

(* heartbeat_requests: an RPC per active job, or one for the worker itself. *)
HeartbeatRequests == IF running = << >> THEN <<Idle>> ELSE running

StartHeartbeat ==
    /\ loop = "rest" /\ beatTimer = 0
    /\ loop' = "sent" /\ rpcAge' = 0
    /\ pending' = HeartbeatRequests /\ snapshot' = Executing
    /\ directed' = {} /\ renewed' = {} /\ answer' = "none"
    /\ UNCHANGED <<leases, beatTimer, beatBackoff, missed, workerState>>

(* The server renews a lease that it still has, and knows no other job. *)
ServeHeartbeat ==
    /\ loop = "sent"
    /\ loop' = "served"
    /\ \/ /\ \/ Head(pending) = Idle /\ UNCHANGED <<serverLease, renewed>>
             \/ /\ Head(pending) # Idle
                /\ serverLease[Head(pending)] > 0
                /\ serverLease' = [serverLease EXCEPT ![Head(pending)] = Visibility]
                /\ renewed' = renewed \cup {Head(pending)}
          /\ answer' \in Directions
       \/ /\ Head(pending) # Idle /\ serverLease[Head(pending)] = 0
          /\ answer' = "error"
          /\ UNCHANGED <<serverLease, renewed>>
    /\ UNCHANGED <<running, localLease, beatTimer, beatBackoff, rpcAge, pending, snapshot,
                   directed, missed, workerState>>

(* The next RPC goes out when the one before has answered. *)
NextRpc ==
    /\ loop = "served" /\ answer # "error" /\ Len(pending) > 1
    /\ loop' = "sent" /\ rpcAge' = 0
    /\ pending' = Tail(pending)
    /\ directed' = directed \cup {answer}
    /\ answer' = "none"
    /\ UNCHANGED <<leases, beatTimer, beatBackoff, snapshot, renewed, missed, workerState>>

\* (mutant) The last answer's.
AggregateLast(responses) == answer

(* aggregate_heartbeat_states. *)
AggregateHeartbeatStates(responses) ==
    IF "terminate" \in responses THEN "terminate"
    ELSE IF "quiet" \in responses THEN "quiet" ELSE "running"

(* extend_leases, of the executions whose job the heartbeat named. *)
ExtendLeases(ids) ==
    localLease' = [j \in Jobs |-> IF j \in ids \cap Executing THEN Visibility ELSE localLease[j]]

(* The last RPC has answered: the leases are renewed and the directive obeyed;  *)
(* "terminate" ends the loop.                                                   *)
HeartbeatSucceeds ==
    /\ loop = "served" /\ answer # "error" /\ Len(pending) = 1
    /\ ExtendLeases(snapshot)
    /\ workerState' = AggregateHeartbeatStates(directed \cup {answer})
    /\ loop' = IF workerState' = "terminate" THEN "off" ELSE "rest"
    /\ beatTimer' = Interval /\ beatBackoff' = 1
    /\ pending' = << >>
    /\ UNCHANGED <<running, serverLease, rpcAge, snapshot, directed, answer, renewed, missed>>

(* A failure of the connection or an error of the server backs the loop off; a  *)
(* deadline, like any exception the loop does not expect, is followed by the    *)
(* usual rest, the backoff left as it was.                                      *)
RestAfterFailure ==
    \/ /\ beatTimer' = beatBackoff
       /\ beatBackoff' = IF 2 * beatBackoff < MaxBeatBackoff THEN 2 * beatBackoff
                         ELSE MaxBeatBackoff
    \/ beatTimer' = Interval /\ UNCHANGED beatBackoff

\* (mutant) What did not fail is kept: the leases named are renewed all the same.
HeartbeatFailsExtending ==
    /\ loop \in {"sent", "served"}
    /\ ExtendLeases(snapshot)
    /\ loop' = "rest" /\ pending' = << >>
    /\ RestAfterFailure
    /\ missed' = Executing
    /\ UNCHANGED <<running, serverLease, rpcAge, snapshot, directed, answer, renewed, workerState>>

(* An RPC is lost, or its answer, or it answers with an error: the exception    *)
(* ends the heartbeat, what the others answered goes with it, and the loop      *)
(* rests.                                                                       *)
HeartbeatFails ==
    /\ loop \in {"sent", "served"}
    /\ loop' = "rest" /\ pending' = << >>
    /\ RestAfterFailure
    /\ missed' = Executing
    /\ UNCHANGED <<leases, rpcAge, snapshot, directed, answer, renewed, workerState>>

Less(n) == IF n = 0 THEN 0 ELSE n - 1
TickHeartbeat ==
    /\ \/ loop = "rest" /\ beatTimer > 0
       \/ loop \in {"sent", "served"} /\ rpcAge < RpcLatency
    /\ localLease' = [j \in Jobs |-> Less(localLease[j])]
    /\ serverLease' = [j \in Jobs |-> Less(serverLease[j])]
    /\ beatTimer' = Less(beatTimer)
    /\ rpcAge' = IF loop = "rest" THEN 0 ELSE rpcAge + 1
    /\ UNCHANGED <<running, loop, beatBackoff, pending, snapshot, directed, answer, renewed,
                   missed, workerState>>

HeartbeatNext ==
    \/ \E j \in Jobs : BeginJob(j) \/ EndJob(j)
    \/ StartHeartbeat \/ ServeHeartbeat \/ NextRpc \/ HeartbeatSucceeds \/ HeartbeatFails
    \/ TickHeartbeat

-----------------------------------------------------------------------------

(* The worker extends a lease it holds only on the server's word, given in the  *)
(* same heartbeat for that job, although jobs_extended is the client's own      *)
(* list; and the directive it obeys is the strongest any of the RPCs answered.  *)
HeartbeatHonest ==
    [][/\ \A j \in Executing : localLease'[j] > localLease[j] => j \in renewed
       /\ workerState' # workerState =>
             /\ \A d \in directed \cup {answer} :
                   d = "terminate" => workerState' = "terminate"
             /\ "quiet" \in directed \cup {answer} => workerState' # "running"
             /\ workerState' \in directed \cup {answer}]_heartbeatVars

(* The worker's lease outlives the server's by no more than the RPCs of one     *)
(* heartbeat take, whichever of them failed.                                    *)
OvershootBounded ==
    /\ HeartbeatTypeOK
    /\ loop # "off" => \A j \in Executing :
          localLease[j] <= serverLease[j] + Cardinality(Jobs) * RpcLatency

(* While heartbeats get through, the server's lease of a running job does not   *)
(* run out, though its RPC waits for those of the other jobs: a job that is not *)
(* in the snapshot of one heartbeat may be the last in the next, and one that   *)
(* begins after a failure waits out the backoff first.                          *)
LeasesKept ==
    (loop # "off" /\ Visibility > LongestRest + (2 * Cardinality(Jobs) + 1) * RpcLatency) =>
        \A j \in Executing \ missed : serverLease[j] > 0
=============================================================================
