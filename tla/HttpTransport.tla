---------------------------- MODULE HttpTransport ----------------------------
(***************************************************************************)
(* HTTPTransport._do_request (ojs.transport.http) and its retry policy:    *)
(* each operation of the client is one logical call, sent again with the   *)
(* same identity after a 429, and after a 502, 503 or 504 when repeating   *)
(* it is safe.                                                             *)
(*                                                                         *)
(* Between the client and the backend are gateways and a network that      *)
(* lose requests and replies, that may deliver a request after the client  *)
(* was told that it failed, and that may answer in the backend's place: a  *)
(* redirect, which the client does not follow, or a page of their own.     *)
(***************************************************************************)
EXTENDS Naturals, FiniteSets

CONSTANTS
    Ops,                \* the operations the application performs
    Method,             \* operation -> "GET", "DELETE" or "POST"
    Key,                \* operation -> its idempotency key, or NoKey
    NoKey,
    Reads,              \* the operations that read a job in the answer: push, info, cancel
    MaxRetries, MinBackoff, MaxBackoff, Enabled, RetryServerErrors, \* RetryConfig
    RetryAfters         \* bound: Retry-After values a 429 may carry; 0 if none

VARIABLES
    state,      \* operation -> "new", "sent", "sleeping", "returned" or "raised"
    attempt,    \* operation -> attempt
    delay,      \* operation -> the delay before its next attempt
    reply,      \* operation -> status of the reply on its way, or 0
    asked,      \* operation -> Retry-After of that reply, 0 if none
    request,    \* operation -> is its last request on the way to the backend?
    stray,      \* operation -> earlier requests that may still arrive
    executed    \* operation -> times the backend executed it

client  == <<state, attempt, delay>>
network == <<reply, asked, request, stray>>
vars    == <<client, network, executed>>

ASSUME HttpAssumption ==
    /\ {MaxRetries, MinBackoff, MaxBackoff} \subseteq Nat
    /\ {Enabled, RetryServerErrors} \subseteq BOOLEAN
    /\ RetryAfters \subseteq Nat /\ Reads \subseteq Ops
    /\ \A o \in Ops : Method[o] \in {"GET", "DELETE", "POST"}

\* Foreign stands for any answer below 400 that is not the backend's.
Ok == 200  Foreign == 302  ClientError == 400  ServerError == 500  Transient == 503  TooMany == 429

\* classify_operation.
Safety(o) ==
    IF Method[o] = "GET" THEN "safe"
    ELSE IF Method[o] = "DELETE" \/ Key[o] # NoKey THEN "idempotent" ELSE "unsafe"

\* (mutant) the kind of operation is not looked at.
RetryAlways(o, status) ==
    /\ Enabled /\ attempt[o] < MaxRetries
    /\ status = TooMany \/ (status = Transient /\ RetryServerErrors)

\* retry_reason.
Retry(o, status) ==
    /\ Enabled /\ attempt[o] < MaxRetries
    /\ \/ status = TooMany
       \/ status = Transient /\ RetryServerErrors /\ Safety(o) # "unsafe"

Least(a, b) == IF a < b THEN a ELSE b

\* (mutant) Retry-After is not limited.
BackoffsUncapped(o, after) ==
    LET base == Least(MinBackoff * 2 ^ attempt[o], MaxBackoff)
    IN  IF after > 0 THEN {after} ELSE (base \div 2)..base

\* calculate_backoff: what the server asks for, or exponential with half the
\* delay left to chance, never above max_backoff.
Backoffs(o, after) ==
    LET base == Least(MinBackoff * 2 ^ attempt[o], MaxBackoff)
    IN  IF after > 0 THEN {Least(after, MaxBackoff)} ELSE (base \div 2)..base

Init ==
    /\ state = [o \in Ops |-> "new"]
    /\ attempt = [o \in Ops |-> 0] /\ delay = [o \in Ops |-> 0]
    /\ reply = [o \in Ops |-> 0] /\ asked = [o \in Ops |-> 0]
    /\ request = [o \in Ops |-> FALSE] /\ stray = [o \in Ops |-> 0]
    /\ executed = [o \in Ops |-> 0]

-----------------------------------------------------------------------------
(* The client *)

\* One request, with a fresh X-Request-ID and the operation's identity.
Send(o) ==
    /\ state[o] \in {"new", "sleeping"}
    /\ state' = [state EXCEPT ![o] = "sent"]
    /\ request' = [request EXCEPT ![o] = TRUE]
    /\ delay' = [delay EXCEPT ![o] = 0]
    /\ UNCHANGED <<attempt, reply, asked, stray, executed>>

\* (mutant) being rate limited does not count as an attempt.
RetryReplyUncounted(o) ==
    /\ state[o] = "sent" /\ reply[o] # 0 /\ Retry(o, reply[o])
    /\ state' = [state EXCEPT ![o] = "sleeping"]
    /\ \E d \in Backoffs(o, asked[o]) : delay' = [delay EXCEPT ![o] = d]
    /\ attempt' = [attempt EXCEPT ![o] = IF reply[o] = TooMany THEN @ ELSE @ + 1]
    /\ reply' = [reply EXCEPT ![o] = 0] /\ asked' = [asked EXCEPT ![o] = 0]
    /\ UNCHANGED <<request, stray, executed>>

\* The reply is worth another attempt: sleep_before_retry.
RetryReply(o) ==
    /\ state[o] = "sent" /\ reply[o] # 0 /\ Retry(o, reply[o])
    /\ state' = [state EXCEPT ![o] = "sleeping"]
    /\ \E d \in Backoffs(o, asked[o]) : delay' = [delay EXCEPT ![o] = d]
    /\ attempt' = [attempt EXCEPT ![o] = @ + 1]
    /\ reply' = [reply EXCEPT ![o] = 0] /\ asked' = [asked EXCEPT ![o] = 0]
    /\ UNCHANGED <<request, stray, executed>>

\* What a reply means to the caller: whatever is below 400 is a success, but JSON
\* that cannot be decoded, and data["job"] of an answer without a job.
Outcomes(o, status) ==
    IF status = Ok \/ (status = Foreign /\ o \notin Reads) THEN {"returned", "raised"}
    ELSE {"raised"}

\* The reply is the result, or the error the caller gets.
FinalReply(o) ==
    /\ state[o] = "sent" /\ reply[o] # 0 /\ ~Retry(o, reply[o])
    /\ \E s \in Outcomes(o, reply[o]) : state' = [state EXCEPT ![o] = s]
    /\ reply' = [reply EXCEPT ![o] = 0] /\ asked' = [asked EXCEPT ![o] = 0]
    /\ UNCHANGED <<attempt, delay, request, stray, executed>>

\* The request leaves the client's sight: it may be lost, or arrive later.
Astray(o) ==
    /\ request' = [request EXCEPT ![o] = FALSE]
    /\ stray' = [stray EXCEPT ![o] = IF request[o] THEN @ + 1 ELSE @]

\* The connection fails or the timeout is over: raised at once.
ConnectionFails(o) ==
    /\ state[o] = "sent" /\ reply[o] = 0
    /\ state' = [state EXCEPT ![o] = "raised"]
    /\ Astray(o)
    /\ UNCHANGED <<attempt, delay, reply, asked, executed>>

\* The task awaiting the operation is cancelled, in a request or asleep.
Cancelled(o) ==
    /\ state[o] \in {"sent", "sleeping"}
    /\ state' = [state EXCEPT ![o] = "raised"]
    /\ reply' = [reply EXCEPT ![o] = 0] /\ asked' = [asked EXCEPT ![o] = 0]
    /\ Astray(o)
    /\ UNCHANGED <<attempt, delay, executed>>

-----------------------------------------------------------------------------
(* Gateways, the network and the backend *)

Reply(o, status) == reply' = [reply EXCEPT ![o] = status]

\* The backend executes an operation; one it knows by its key only once.
Execute(o) ==
    executed' = [executed EXCEPT ![o] = IF Key[o] # NoKey /\ @ > 0 THEN @ ELSE @ + 1]

\* A request arrives and is executed, and its answer gets through, or a gateway
\* or the backend itself fails after it, or the answer is replaced.
Served(o) ==
    /\ request[o] /\ request' = [request EXCEPT ![o] = FALSE]
    /\ Execute(o)
    /\ \E status \in {0, Ok, Foreign, Transient, ServerError} : Reply(o, status)
    /\ UNCHANGED <<client, asked, stray>>

\* It is refused: nothing is executed.
Denied(o) ==
    /\ request[o] /\ request' = [request EXCEPT ![o] = FALSE]
    /\ \/ Reply(o, ClientError) /\ UNCHANGED <<asked>>
       \/ /\ Reply(o, TooMany)
          /\ \E after \in RetryAfters : asked' = [asked EXCEPT ![o] = after]
    /\ UNCHANGED <<client, stray, executed>>

\* A gateway or a proxy answers and forwards nothing: nothing is executed.
Intercepted(o) ==
    /\ request[o] /\ request' = [request EXCEPT ![o] = FALSE]
    /\ Reply(o, Foreign)
    /\ UNCHANGED <<client, asked, stray, executed>>

\* A gateway gives up on a request it has forwarded.
GatewayFails(o) ==
    /\ request[o] /\ reply[o] = 0 /\ Astray(o) /\ Reply(o, Transient)
    /\ UNCHANGED <<client, asked, executed>>

\* A request the client no longer waits for is executed, or lost.
StrayArrives(o) ==
    /\ stray[o] > 0 /\ stray' = [stray EXCEPT ![o] = @ - 1]
    /\ Execute(o) \/ UNCHANGED executed
    /\ UNCHANGED <<client, reply, asked, request>>

-----------------------------------------------------------------------------
ClientStep(o) == Send(o) \/ RetryReply(o) \/ FinalReply(o) \/ ConnectionFails(o)

Next == \E o \in Ops :
    \/ ClientStep(o) \/ Cancelled(o)
    \/ Served(o) \/ Denied(o) \/ Intercepted(o) \/ GatewayFails(o) \/ StrayArrives(o)

\* The client goes on: at the latest its timeout ends a request.
Spec == Init /\ [][Next]_vars /\ \A o \in Ops : WF_vars(ClientStep(o))

-----------------------------------------------------------------------------
(* Properties *)

\* Types, and never more than max_retries retries.
TypeOK ==
    /\ state \in [Ops -> {"new", "sent", "sleeping", "returned", "raised"}]
    /\ attempt \in [Ops -> 0..MaxRetries]
    /\ asked \in [Ops -> RetryAfters \cup {0}]
    /\ reply \in [Ops -> {0, Ok, Foreign, ClientError, ServerError, Transient, TooMany}]
    /\ request \in [Ops -> BOOLEAN]
    /\ stray \in [Ops -> 0..(MaxRetries + 1)]
    /\ executed \in [Ops -> 0..(MaxRetries + 1)]

\* Requests of an operation the backend may still execute.
OnTheWay(o) == stray[o] + (IF request[o] THEN 1 ELSE 0)

\* An operation that is not safe to repeat is executed at most once, and nothing
\* the client sent can make it happen again later, whatever gateways answer and
\* however late requests arrive (retry_policy.py 29-61; transport.py 124-168).
AtMostOnce ==
    \A o \in Ops : Safety(o) = "unsafe" =>
        executed[o] + OnTheWay(o) <= 1

\* A push, info or cancel that returned was executed, whoever answered: only the
\* backend's answer has a job (transport.py 129-221). An ack, nack, fetch or
\* heartbeat may return without it (183-189, 236-260).
JobMeansExecuted ==
    \A o \in Reads : state[o] = "returned" => executed[o] > 0

\* What a caller can tell from the outcome: an operation that returned a job was
\* executed, one that is not safe to repeat was not executed twice
\* (retry_policy.py 29-61; transport.py 124-221).
ExecutionsAccounted == AtMostOnce /\ JobMeansExecuted

\* The inductive invariant behind these: no more than one request per attempt
\* was ever sent, and one that may be repeated has not been executed.
Waiting(o) == state[o] \in {"new", "sleeping"}
Accounted(o) ==
    /\ executed[o] + OnTheWay(o) <= attempt[o] + (IF Waiting(o) THEN 0 ELSE 1)
    /\ request[o] => state[o] = "sent" /\ reply[o] = 0
    /\ reply[o] # 0 => state[o] = "sent"
    /\ reply[o] = Ok \/ (o \in Reads /\ state[o] = "returned") => executed[o] > 0
    /\ Safety(o) = "unsafe" =>
          /\ executed[o] + OnTheWay(o) <= 1
          /\ Waiting(o) \/ reply[o] = TooMany => executed[o] + OnTheWay(o) = 0

Types ==
    /\ state \in [Ops -> {"new", "sent", "sleeping", "returned", "raised"}]
    /\ attempt \in [Ops -> 0..MaxRetries]
    /\ asked \in [Ops -> RetryAfters \cup {0}]
    /\ reply \in [Ops -> {0, Ok, Foreign, ClientError, ServerError, Transient, TooMany}]
    /\ request \in [Ops -> BOOLEAN]
    /\ stray \in [Ops -> Nat] /\ executed \in [Ops -> Nat]

IInv == Types /\ \A o \in Ops : Accounted(o)

\* A client waits at least as long as a rate-limited server asked, unless that
\* is more than max_backoff, and never longer than max_backoff
\* (rate_limiter.py 55-62; transport.py 155-166).
BackoffRespected ==
    [][\A o \in Ops : state[o] = "sent" /\ state'[o] = "sleeping" =>
          /\ delay'[o] <= MaxBackoff
          /\ asked[o] <= MaxBackoff => delay'[o] >= asked[o]]_vars

\* Every operation ends, also when every answer asks to try again
\* (transport.py 129-168).
OperationsEnd == \A o \in Ops : state[o] = "sent" ~> state[o] \in {"returned", "raised"}
=============================================================================
