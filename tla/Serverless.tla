----------------------------- MODULE Serverless -----------------------------
(* The serverless adapters: a function of AWS Lambda (aws_lambda.py) or Azure   *)
(* (azure_functions.py) that runs OJS jobs through the invocation bridge        *)
(* (invocation_bridge.py), reports their outcomes to the backend, and tells the *)
(* platform which messages to deliver again. The platform, its queue and the    *)
(* backend are the environment: the function may be killed at any step.         *)
EXTENDS Naturals, Sequences, FiniteSets, Functions

CONSTANTS
    Messages,       \* messages of the queue, one job each
    MaxBatch,       \* records of one SQS event
    MaxReceive,     \* deliveries before the queue's own redrive policy gives up
    MaxAttempts     \* CompletionReporter's max_attempts

ASSUME ServerlessAssumption ==
    /\ MaxBatch \in Nat \ {0}
    /\ MaxReceive \in Nat \ {0}
    /\ MaxAttempts \in Nat \ {0}

VARIABLES
    entry,      \* the entry point that is deployed
    callback,   \* whether a completion transport is configured
    body,       \* what each message holds
    queue,      \* where each message is
    receives,   \* how often each message was delivered
    batch,      \* the records of the running invocation
    pos,        \* the record being processed
    step,       \* where the invocation is
    outcome,    \* the InvocationOutcome of the current record
    tries,      \* deliveries of the outcome attempted by the reporter
    failures,   \* batchItemFailures collected so far
    heard,      \* what the backend, or the invoker, was told of each job
    past,       \* how the runs of each job ended (history)
    excuse      \* messages whose delivery was cut short, or whose report's answer
                \* was lost (history)

env == <<entry, callback, body>>
vars == <<entry, callback, body, queue, receives, batch, pos, step, outcome, tries,
          failures, heard, past, excuse>>

Entries == {"sqs", "azure", "direct", "http"}
Bodies == {"valid", "malformed", "invalid", "noHandler"}
Ends == {"none", "eventError", "validationError", "handlerNotFound", "resultError", "raised"}

InvocationOutcome ==
    [code : Ends \cup {"callback"}, retryable : BOOLEAN, redeliver : BOOLEAN]

\* (mutant) A failed callback does not ask for the message again.
CallbackLost == [code |-> "callback", retryable |-> TRUE, redeliver |-> FALSE]

\* (mutant) Any error may be tried again.
FailedForNow(error) == [code |-> error, retryable |-> TRUE, redeliver |-> FALSE]

(* error_response.py: completed_outcome, failed_outcome, callback_failed_outcome. *)
(* An exception failed_outcome does not know is the handler's, and retryable.     *)
Completed == [code |-> "none", retryable |-> FALSE, redeliver |-> FALSE]
FailedOutcome(error) ==
    [code |-> error, retryable |-> error \in {"raised", "validationError"},
     redeliver |-> FALSE]
CallbackFailed == [code |-> "callback", retryable |-> TRUE, redeliver |-> TRUE]

(* handle_http and handle_http_request invoke with report_completion=False. *)
Reports == entry # "http"

Current == batch[pos]

TypeOK ==
    /\ entry \in Entries
    /\ callback \in BOOLEAN
    /\ body \in [Messages -> Bodies]
    /\ queue \in [Messages -> {"queued", "inflight", "deleted", "dead"}]
    /\ receives \in [Messages -> 0 .. MaxReceive]
    /\ batch \in Seq(Messages)
    /\ pos \in Nat
    /\ step \in {"idle", "decode", "execute", "report", "resolve", "return"}
    /\ step \in {"decode", "execute", "report", "resolve"} => pos \in DOMAIN batch
    /\ outcome \in InvocationOutcome
    /\ tries \in 0 .. MaxAttempts
    /\ failures \subseteq Messages
    /\ heard \in [Messages -> SUBSET {"ack", "nack", "response"}]
    /\ past \in [Messages -> SUBSET Ends]
    /\ excuse \subseteq Messages

Init ==
    /\ entry \in Entries
    /\ callback \in BOOLEAN
    /\ body \in [Messages -> Bodies]
    /\ queue = [m \in Messages |-> "queued"]
    /\ receives = [m \in Messages |-> 0]
    /\ batch = <<>>
    /\ pos = 1
    /\ step = "idle"
    /\ outcome = Completed
    /\ tries = 0
    /\ failures = {}
    /\ heard = [m \in Messages |-> {}]
    /\ past = [m \in Messages |-> {}]
    /\ excuse = {}

-----------------------------------------------------------------------------
(* The platform *)

(* The platform hands the function a batch of queued messages; only SQS hands *)
(* over more than one at a time.                                              *)
Deliver ==
    /\ step = "idle"
    /\ \E n \in 1 .. (IF entry = "sqs" THEN MaxBatch ELSE 1) :
         \E b \in [1 .. n -> {m \in Messages : queue[m] = "queued"
                                              /\ receives[m] < MaxReceive}] :
           /\ IsInjective(b)
           /\ batch' = b
           /\ queue' = [m \in Messages |-> IF m \in Range(b) THEN "inflight" ELSE queue[m]]
           /\ receives' = [m \in Messages |->
                             IF m \in Range(b) THEN receives[m] + 1 ELSE receives[m]]
    /\ pos' = 1
    /\ failures' = {}
    /\ step' = "decode"
    /\ UNCHANGED <<env, outcome, tries, heard, past, excuse>>

(* A message delivered MaxReceive times goes to the dead-letter queue. *)
GiveUp(m) ==
    /\ queue[m] = "queued"
    /\ receives[m] = MaxReceive
    /\ queue' = [queue EXCEPT ![m] = "dead"]
    /\ UNCHANGED <<env, receives, batch, pos, step, outcome, tries, failures, heard,
                   past, excuse>>

(* The invocation times out or its task is cancelled: nothing is returned and *)
(* all of its messages become visible again.                                  *)
Killed ==
    /\ step # "idle"
    /\ queue' = [m \in Messages |-> IF m \in Range(batch) THEN "queued" ELSE queue[m]]
    /\ excuse' = excuse \cup Range(batch)
    /\ step' = "idle"
    /\ batch' = <<>>
    /\ UNCHANGED <<env, receives, pos, outcome, tries, failures, heard, past>>

-----------------------------------------------------------------------------
(* The function *)

(* The next record of the event, or the end of the loop over them. *)
NextRecord ==
    /\ pos' = pos + 1
    /\ step' = IF pos < Len(batch) THEN "decode" ELSE "return"

(* decode_event and extract_job_event accept the record. *)
Decode ==
    /\ step = "decode"
    /\ body[Current] \notin {"malformed", "invalid"}
    /\ step' = "execute"
    /\ UNCHANGED <<env, queue, receives, batch, pos, outcome, tries, failures, heard,
                   past, excuse>>

(* ServerlessEventError for a body that is no job event; what Job.from_dict makes *)
(* of other fields it rejects (tags, retry, timestamps) is an OJSValidationError. *)
EventErrors == [malformed |-> "eventError", invalid |-> "validationError"]

(* They raise: handle_sqs lists the message as failed whatever the error, the  *)
(* others turn it into an outcome.                                             *)
Refuse ==
    /\ step = "decode"
    /\ body[Current] \in DOMAIN EventErrors
    /\ LET error == EventErrors[body[Current]]
       IN /\ past' = [past EXCEPT ![Current] = @ \cup {error}]
          /\ IF entry = "sqs"
               THEN failures' = failures \cup {Current} /\ NextRecord /\ UNCHANGED outcome
               ELSE outcome' = FailedOutcome(error) /\ step' = "resolve"
                    /\ UNCHANGED <<failures, pos>>
    /\ UNCHANGED <<env, queue, receives, batch, tries, heard, excuse>>

(* HandlerRegistry.execute: a type without a handler, or however it ends. *)
HandlerEnds ==
    IF body[Current] = "noHandler" THEN {"handlerNotFound"}
    ELSE {"none", "resultError", "raised"}

(* InvocationBridge.invoke up to the completion report: the registry runs the  *)
(* handler, whose result must be JSON; what can be reported is reported, and a *)
(* failure that cannot be asks for the message again.                          *)
Execute ==
    /\ step = "execute"
    /\ \E end \in HandlerEnds :
         /\ past' = [past EXCEPT ![Current] = @ \cup {end}]
         /\ LET result == IF end = "none" THEN Completed ELSE FailedOutcome(end)
            IN outcome' = [result EXCEPT !.redeliver = end # "none" /\ Reports /\ ~callback]
    /\ step' = IF Reports /\ callback THEN "report" ELSE "resolve"
    /\ tries' = 0
    /\ UNCHANGED <<env, queue, receives, batch, pos, failures, heard, excuse>>

(* One delivery attempt of CompletionReporter: the backend may execute a call  *)
(* whose answer is lost; a transient error is tried again, up to max_attempts. *)
Report ==
    /\ step = "report"
    /\ \E executed \in BOOLEAN, reply \in {"ok", "transient", "permanent"} :
         /\ reply = "ok" => executed
         /\ heard' = IF ~executed THEN heard
                     ELSE [heard EXCEPT ![Current] =
                             @ \cup {IF outcome.code = "none" THEN "ack" ELSE "nack"}]
         /\ excuse' = IF executed /\ reply # "ok" THEN excuse \cup {Current} ELSE excuse
         /\ tries' = tries + 1
         /\ CASE reply = "ok" -> step' = "resolve" /\ UNCHANGED outcome
              [] reply = "transient" /\ tries + 1 < MaxAttempts -> UNCHANGED <<step, outcome>>
              [] OTHER -> step' = "resolve" /\ outcome' = CallbackFailed
    /\ UNCHANGED <<env, queue, receives, batch, pos, failures, past>>

(* Back in the adapter: handle_sqs collects the messages to deliver again and  *)
(* goes on with the next record.                                               *)
Resolve ==
    /\ step = "resolve"
    /\ failures' = IF outcome.redeliver THEN failures \cup {Current} ELSE failures
    /\ NextRecord
    /\ UNCHANGED <<env, queue, receives, batch, outcome, tries, heard, past, excuse>>

\* (mutant) Any failure asks for the whole batch again.
AgainAll == IF failures # {} \/ (entry = "azure" /\ outcome.retryable)
              THEN Range(batch) ELSE {}

(* What the platform gets: the batch item failures of SQS; for the Azure queue *)
(* trigger an exception exactly when the outcome is retryable; for the others  *)
(* the outcome itself, as the answer to the invoker.                           *)
Again ==
    CASE entry = "sqs" -> failures
      [] entry = "azure" /\ outcome.retryable -> Range(batch)
      [] OTHER -> {}

\* The direct and the HTTP entry points give the invoker the outcome itself.
Answers == entry \in {"direct", "http"}

Return ==
    /\ step = "return"
    /\ queue' = [m \in Messages |->
                   IF m \notin Range(batch) THEN queue[m]
                   ELSE IF m \in Again THEN "queued" ELSE "deleted"]
    /\ heard' = IF Answers
                  THEN [m \in Messages |->
                          IF m \in Range(batch) THEN heard[m] \cup {"response"} ELSE heard[m]]
                  ELSE heard
    /\ step' = "idle"
    /\ batch' = <<>>
    /\ UNCHANGED <<env, receives, pos, outcome, tries, failures, past, excuse>>

-----------------------------------------------------------------------------
Function == Decode \/ Refuse \/ Execute \/ Report \/ Resolve \/ Return
Next == Deliver \/ (\E m \in Messages : GiveUp(m)) \/ Killed \/ Function

(* The platform runs the function it invoked, delivers what is queued and, as   *)
(* its redrive policy says, gives up in the end.                                *)
Fairness ==
    /\ WF_vars(Function)
    /\ WF_vars(Deliver)
    /\ \A m \in Messages : WF_vars(GiveUp(m))

Spec == Init /\ [][Next]_vars /\ Fairness

-----------------------------------------------------------------------------
(* Ends of a run that settle a message although the backend was not told: a     *)
(* success when there is no backend to tell, and for the Azure queue trigger    *)
(* the failures its documentation calls poison messages.                        *)
Unheard ==
    (IF callback THEN {} ELSE {"none"})
    \cup (IF entry # "azure" THEN {}
          ELSE {"eventError"} \cup IF callback THEN {} ELSE {"handlerNotFound", "resultError"})

Contract == INSTANCE DeliveryContract WITH
    at <- [m \in Messages |-> CASE queue[m] = "deleted" -> "settled"
                                [] queue[m] = "dead" -> "dead"
                                [] OTHER -> "pending"],
    told <- [m \in Messages |-> heard[m] \cup (past[m] \cap Unheard)]

(* A message leaves the queue only once its job's outcome was told: a failed    *)
(* callback, a handler that raises, a malformed neighbour or a killed function  *)
(* never loses a job (invoke, handle_sqs, _resolve_queue_trigger_outcome).      *)
ImplementsDelivery == Contract!Spec

(* A job the backend has acknowledged is executed again only if its delivery    *)
(* was cut short or the answer to its report was lost: a partial failure of a   *)
(* batch redelivers nobody else's message (handle_sqs's batchItemFailures).     *)
RerunJustified ==
    /\ []TypeOK
    /\ [][\A m \in Messages :
            ("ack" \in heard[m] /\ receives'[m] # receives[m]) => m \in excuse]_vars

(* Once told what is wrong with it, a message that can never succeed is poison: *)
(* it is no job event, or no handler has its type.                              *)
Poison(m) ==
    \/ body[m] = "malformed" /\ past[m] # {}
    \/ body[m] = "noHandler" /\ (IF callback THEN "nack" \in heard[m] ELSE past[m] # {})

DeliveredAgain(m) == receives[m] > 0 /\ receives'[m] # receives[m]

(* Poison does not circulate: the Azure queue trigger gets such a message again *)
(* only after a delivery that was cut short or an answer that was lost          *)
(* (handle_queue_message, _resolve_queue_trigger_outcome).                      *)
PoisonNotAgain ==
    [][\A m \in Messages :
         entry = "azure" /\ Poison(m) /\ DeliveredAgain(m) => m \in excuse]_vars

(* Nor does it stay: every message of any entry point leaves the queue          *)
(* (handle_queue_message, handle_sqs).                                          *)
PoisonLeaves ==
    /\ PoisonNotAgain
    /\ \A m \in Messages : <>(queue[m] \in {"deleted", "dead"})

(* "A non-retryable failure (invalid request, ...) completes the message        *)
(* instead of retrying a poison message forever" (azure_functions.py 75-78):    *)
(* nor does the queue trigger get a message again whose job it found invalid.   *)
InvalidLeaves ==
    [][\A m \in Messages :
         (/\ entry = "azure" /\ body[m] = "invalid" /\ past[m] # {}
          /\ DeliveredAgain(m)) => m \in excuse]_vars
=============================================================================
