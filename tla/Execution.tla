----------------------------- MODULE Execution ------------------------------
(* How a job is executed, from two sides: the attempts of a durable handler   *)
(* over its replay log, and one execution through the worker's middleware.    *)
(* Neither reads the state of the other, so that a behaviour is one of them.  *)
EXTENDS DurableContext, ExecutionChain

executionVars == <<durableVars, chainVars>>

\* No durable job: one whose attempts are over.
NoDurable ==
    /\ handler = (CHOOSE h \in Handlers : TRUE) /\ overlap = FALSE
    /\ mode = [n \in Attempts |-> "over"]
    /\ entries = [n \in Attempts |-> <<>>] /\ cursor = [n \in Attempts |-> 0]
    /\ replaying = [n \in Attempts |-> FALSE]
    /\ step = [n \in Attempts |-> 1] /\ started = [n \in Attempts |-> 0]
    /\ inflight = [n \in Attempts |-> {}] /\ caught = [n \in Attempts |-> {}]
    /\ store = <<>> /\ acked = TRUE

\* No execution: one that is over.
NoExecution ==
    /\ chain = (CHOOSE c \in Chains : TRUE) /\ first = "empty" /\ key = FALSE
    /\ seals = 0 /\ depth = 0
    /\ phase = "done" /\ at = 0
    /\ attempt = [i \in Layers |-> 0] /\ timer = [i \in Layers |-> "off"]
    /\ base = [i \in Layers |-> 0] /\ counted = [i \in Layers |-> "none"]
    /\ cancelling = 0 /\ pending = FALSE /\ result = "value" /\ cancels = 0
    /\ swallowed = {} /\ lastRun = "none"

ExecutionInit ==
    \/ DurableInit /\ NoExecution
    \/ NoDurable /\ ChainInit

ExecutionNext ==
    \/ DurableNext /\ UNCHANGED chainVars
    \/ ChainNext /\ UNCHANGED durableVars

\* No attempt of a durable job is ever obliged to go on.
ExecutionSpec == ExecutionInit /\ [][ExecutionNext]_executionVars /\ ChainFairness
=============================================================================
