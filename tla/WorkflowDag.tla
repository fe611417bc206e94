---------------------------- MODULE WorkflowDag -----------------------------
(* A workflow from chain(), group() or batch() to the DAG the server runs and   *)
(* back to the Workflow a client reads (workflow/, workflow_projection.py and   *)
(* the workflow calls of both transports). A step's id is the number of its job *)
(* or the name of its callback, here a pair of both.                            *)
EXTENDS Naturals, FiniteSets, Sequences

CONSTANT MaxJobs   \* bound: the jobs of a workflow

ASSUME WorkflowAssumption == MaxJobs \in Nat \ {0}

VARIABLES
    flow,        \* the call: what is built, of which jobs, over which transport
    dag,         \* the steps the server was sent
    steps,       \* the server's state of each step
    shown,       \* the steps of the Workflow the client last got
    flowStage    \* "idle", "building", "running", "refused" or "read"

flowVars == <<flow, dag, steps, shown, flowStage>>

Callbacks == {"on_complete", "on_success", "on_failure"}
StepStates == {"waiting", "pending", "active", "completed", "failed", "cancelled"}
Ended == {"completed", "failed", "cancelled"}

(* A job that asks for the queue "default" cannot be told from one that asks    *)
(* for none (JobRequest.to_dict): both have no options here.                    *)
Requests == {"plain", "own_queue", "schema"}

Id(i) == <<i, "step">>
JobIds(n) == {Id(i) : i \in 0 .. n - 1}

(* project_workflow_step: the request's envelope, with its place in the DAG.    *)
ProjectStep(id, request, dependsOn) ==
    [id |-> id, depends_on |-> dependsOn, schema |-> request = "schema",
     callback_type |-> IF id[2] \in Callbacks THEN id[2] ELSE "none",
     queue |-> IF request = "own_queue" THEN "own" ELSE "unset"]

BuildChain(jobs) ==
    {ProjectStep(Id(i), jobs[i + 1], IF i > 0 THEN {Id(i - 1)} ELSE {}) :
        i \in 0 .. Len(jobs) - 1}

BuildGroup(jobs) == {ProjectStep(Id(i), jobs[i + 1], {}) : i \in 0 .. Len(jobs) - 1}

BuildBatch(jobs, callbacks) ==
    BuildGroup(jobs)
    \cup {ProjectStep(<<0, c>>, "plain", JobIds(Len(jobs))) : c \in callbacks}

Build(f) ==
    CASE f.shape = "chain" -> BuildChain(f.jobs)
      [] f.shape = "group" -> BuildGroup(f.jobs)
      [] OTHER -> BuildBatch(f.jobs, f.callbacks)

(* project_workflow refuses the first step that has no protobuf form.           *)
RefusedStep(step) == step.schema \/ step.callback_type # "none"

\* (mutant) The workflow's options prevail over the step's.
ProjectWorkflowDefaultsLast(definition, default) ==
    {[step EXCEPT !.queue = IF default = "unset" THEN @ ELSE default] : step \in definition}

(* The messages have no options for the workflow: each step gets them, under    *)
(* its own.                                                                     *)
ProjectWorkflow(definition, default) ==
    {[step EXCEPT !.queue = IF @ = "unset" THEN default ELSE @] : step \in definition}

(* _from_proto_workflow and Workflow.from_dict: an unset or unknown state reads *)
(* as "pending"; a step a newer server invents a state for is shown so too.     *)
ReadStep(via, state) ==
    IF via = "grpc" /\ state \notin StepStates THEN "pending" ELSE state
Shown(via, s) ==
    [step \in dag |-> [depends_on |-> step.depends_on, state |-> ReadStep(via, s[step.id])]]

-----------------------------------------------------------------------------

JobLists == UNION {[1 .. n -> Requests] : n \in 0 .. MaxJobs}

Flows ==
    [shape : {"chain", "group", "batch"}, jobs : JobLists, callbacks : SUBSET Callbacks,
     default : {"unset", "shared"}, via : {"http", "grpc"}]

WorkflowTypeOK ==
    /\ flowStage \in {"idle", "building", "running", "refused", "read"}
    /\ flowStage \in {"running", "read"} => DOMAIN steps = {step.id : step \in dag}
    /\ \A id \in DOMAIN steps : steps[id] \in StepStates \cup {"novel"}

WorkflowInit ==
    /\ flow \in {f \in Flows :
                   /\ f.shape # "batch" => f.callbacks = {}
                   /\ Cardinality({i \in DOMAIN f.jobs : f.jobs[i] # "plain"}) <= 1}
    /\ dag = {} /\ steps = << >> /\ shown = << >>
    /\ flowStage = "building"

NoWorkflow ==
    /\ flow = [shape |-> "chain", jobs |-> << >>, callbacks |-> {}, default |-> "unset",
               via |-> "http"]
    /\ dag = {} /\ steps = << >> /\ shown = << >>
    /\ flowStage = "idle"

(* create_workflow. Over HTTP the workflow's options travel beside the steps.   *)
CreateWorkflow ==
    /\ flowStage = "building"
    /\ LET definition == Build(flow)
       IN IF flow.via = "grpc" /\ \E step \in definition : RefusedStep(step)
          THEN /\ flowStage' = "refused"
               /\ UNCHANGED <<dag, steps, shown>>
          ELSE /\ dag' = IF flow.via = "http" THEN definition
                         ELSE ProjectWorkflow(definition, flow.default)
               /\ steps' = [id \in {step.id : step \in dag'} |-> "waiting"]
               /\ flowStage' = "running"
               /\ UNCHANGED shown
    /\ UNCHANGED flow

(* The server makes a step ready when what it depends on has ended as it must.  *)
Ready(step) ==
    LET before == {steps[id] : id \in step.depends_on}
    IN CASE step.callback_type = "on_complete" -> before \subseteq Ended
         [] step.callback_type = "on_failure" -> before \subseteq Ended /\ "failed" \in before
         [] OTHER -> before \subseteq {"completed"}

(* It runs them; a newer server may report a state the SDK does not know.       *)
ServeStep ==
    /\ flowStage = "running"
    /\ \E step \in dag :
         \E next \in (CASE steps[step.id] = "waiting" -> {"pending"}
                        [] steps[step.id] = "pending" -> {"active", "novel"}
                        [] steps[step.id] = "active" -> {"completed", "failed"}
                        [] OTHER -> {}) :
            /\ steps[step.id] = "waiting" => Ready(step)
            /\ steps' = [steps EXCEPT ![step.id] = next]
    /\ UNCHANGED <<flow, dag, shown, flowStage>>

(* get_workflow. *)
GetWorkflow ==
    /\ flowStage = "running"
    /\ shown' = Shown(flow.via, steps)
    /\ flowStage' = "read"
    /\ UNCHANGED <<flow, dag, steps>>

(* cancel_workflow: the server cancels what has not ended and answers with the  *)
(* workflow.                                                                    *)
CancelWorkflow ==
    /\ flowStage = "running"
    /\ steps' = [id \in DOMAIN steps |-> IF steps[id] \in Ended THEN steps[id] ELSE "cancelled"]
    /\ shown' = Shown(flow.via, steps')
    /\ flowStage' = "read"
    /\ UNCHANGED <<flow, dag>>

WorkflowNext == CreateWorkflow \/ ServeStep \/ GetWorkflow \/ CancelWorkflow

-----------------------------------------------------------------------------

Begun(id) == steps[id] \notin {"waiting", "cancelled"}

(* A client sees the dependencies it built, and does not take a step for ended  *)
(* that is not, whatever state a newer server gives it.                         *)
ShownAsServed ==
    \A step \in dag :
       /\ shown[step].depends_on = step.depends_on
       /\ \/ shown[step].state = steps[step.id]
          \/ flow.via = "grpc" /\ steps[step.id] = "novel" /\ shown[step].state = "pending"

(* What the server runs is what chain, group or batch promises, over either     *)
(* transport: a step for every job; in a chain no job begins before the one it  *)
(* follows has completed; in a group or a batch no job waits for another; a     *)
(* callback is there if it was given and begins only when every job has ended,  *)
(* after a success or a failure as it is named. Over gRPC, whose messages have  *)
(* no options for a workflow, each step has its own queue or else the           *)
(* workflow's; a schema or a callback is never dropped on the way; and what is  *)
(* read back is what the server has.                                            *)
WorkflowKept ==
    /\ WorkflowTypeOK
    /\ flowStage = "read" => ShownAsServed
    /\ flowStage \in {"running", "read"} =>
         LET n == Len(flow.jobs)
             ended == {steps[id] : id \in JobIds(n)}
         IN /\ DOMAIN steps = JobIds(n) \cup {<<0, c>> : c \in flow.callbacks}
            /\ flow.shape = "chain" =>
                  \A i \in 1 .. n - 1 : Begun(Id(i)) => steps[Id(i - 1)] = "completed"
            /\ flow.shape # "chain" =>
                  \A step \in dag : step.id \in JobIds(n) => Ready(step)
            /\ \A c \in flow.callbacks : Begun(<<0, c>>) =>
                  /\ ended \subseteq Ended
                  /\ c = "on_success" => ended \subseteq {"completed"}
                  /\ c = "on_failure" => "failed" \in ended
            /\ \A step \in dag : step.id[2] \in Callbacks => step.callback_type = step.id[2]
            /\ \A step \in dag, i \in 0 .. n - 1 : step.id = Id(i) =>
                  /\ step.schema <=> flow.jobs[i + 1] = "schema"
                  /\ flow.via = "grpc" =>
                        step.queue = IF flow.jobs[i + 1] = "own_queue" THEN "own"
                                     ELSE flow.default
=============================================================================
