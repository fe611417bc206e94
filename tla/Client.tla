------------------------------- MODULE Client -------------------------------
(* What an application does with a client: it enqueues a batch, calls the     *)
(* synchronous client from its threads, or subscribes to events. None of them *)
(* reads the state of another, so that a behaviour is one of the three.       *)
EXTENDS EnqueueBatch, SyncRunner, SSESession

clientVars == <<batchVars, runnerVars, sessionVars>>

\* No batch: one that is over.
NoBatch ==
    /\ serial = FALSE /\ phase = "done" /\ outcome = "returned"
    /\ chain = [i \in Items |-> "done"] /\ reached = [i \in Items |-> FALSE]
    /\ hand = [i \in Items |-> "none"] /\ future = [i \in Items |-> "none"]
    /\ got = [i \in Items |-> 0] /\ final = [i \in Items |-> "None"]
    /\ error = [i \in Items |-> "none"]
    /\ pushed = <<>> /\ calls = 0 /\ created = {}

\* No calls: a synchronous client that was closed before it was used.
NoCalls ==
    /\ pc = [c \in Callers |-> "idle"] /\ lock = NoOne
    /\ loop = 0 /\ ready = FALSE /\ thread = 0 /\ closed = TRUE
    /\ threads = [l \in Loops |-> "none"]
    /\ closing = TRUE
    /\ on = [c \in Callers |-> 0] /\ orphans = [l \in Loops |-> 0]
    /\ runs = MaxCalls /\ closeEnds = "joined" /\ late = FALSE /\ target = 0

\* No subscription: one that is over.
NoSubscription ==
    /\ history = [i \in 1..Length |-> [id |-> "none", data |-> "none"]]
    /\ reconnect = FALSE /\ raising = FALSE
    /\ subscription = "done" /\ reconnects = 0 /\ lastId = 0
    /\ pos = 1 /\ read = {} /\ buffer = 0
    /\ delivered = {} /\ latest = 0

ClientInit ==
    \/ BatchInit /\ NoCalls /\ NoSubscription
    \/ NoBatch /\ RunnerInit /\ NoSubscription
    \/ NoBatch /\ NoCalls /\ SessionInit

ClientNext ==
    \/ BatchNext /\ UNCHANGED <<runnerVars, sessionVars>>
    \/ RunnerNext /\ UNCHANGED <<batchVars, sessionVars>>
    \/ SessionNext /\ UNCHANGED <<batchVars, runnerVars>>

\* That of the part which is not over.
ClientFairness == BatchFairness /\ RunnerFairness /\ SessionFairness

ClientSpec == ClientInit /\ [][ClientNext]_clientVars /\ ClientFairness
=============================================================================
