------------------------------ MODULE GrpcCall ------------------------------
(* One unary call of GrpcTransport: enqueueing a job (push) or reading one      *)
(* (info), from the request envelope to the job or the exception the caller     *)
(* gets (transport.py, channel.py, protobuf_codec.py, the projections and       *)
(* rpc_error_mapper.py), with the same call over HTTP to compare with.          *)
EXTENDS JobWire, ErrorMapping

CONSTANTS
    Envelopes,   \* the requests made and the jobs read, field by field
    Failing      \* those a server may answer with an error: bounds what TLC explores

ASSUME EnvelopesAssumption ==
    \A e \in Envelopes : DOMAIN e = AllFields /\ \A f \in AllFields : e[f] \in ValuesOf(f)

VARIABLES
    asked,    \* the call: its operation, the transport, and the envelope in question
    wire,     \* what travels: the request, then the answer
    stage,    \* "idle" (no such call), "calling", "serving", "answered", "done"
    outcome   \* what the caller gets

callVars == <<asked, wire, stage, outcome>>

Nothing == [kind |-> "nothing"]

(* The job an info call finds at the server, any client's. *)
Stored(r) ==
    [f \in JobFields |->
        IF \/ r[f] \in {"none", "invalid"}
           \/ InRetry(f) /\ r["retry"] # "other"
           \/ InUnique(f) /\ r["unique"] # "other"
        THEN "absent" ELSE r[f]]
HasEmptyPolicy(r) == "zero" \in {r["retry"], r["unique"]}

CallTypeOK ==
    /\ stage \in {"idle", "calling", "serving", "answered", "done"}
    /\ wire.kind \in {"nothing", "request", "job", "error"}
    /\ outcome.kind \in {"nothing", "refused", "job", "error"}
    /\ outcome.kind = "error" => outcome.exception \in Exceptions
    /\ outcome.kind = "job" => DOMAIN outcome.job = JobFields

CallInit ==
    /\ asked \in [op : {"push", "info"}, via : {"http", "grpc"}, fields : Envelopes]
    /\ asked.op = "push" => ~HasEmptyPolicy(asked.fields)
    /\ wire = Nothing /\ outcome = Nothing
    /\ stage = "calling"

NoCall ==
    /\ asked = Nothing /\ wire = Nothing /\ outcome = Nothing
    /\ stage = "idle"

(* push and info up to the RPC: project_enqueue may raise before anything is    *)
(* sent, ParseDict inside _call.                                                *)
Call ==
    /\ stage = "calling"
    /\ LET body == ToDict(asked.fields)
       IN IF asked.op = "push" /\ asked.via = "grpc" /\ Refused(body)
          THEN /\ stage' = "done"
               /\ outcome' = [kind |-> "refused"]
               /\ UNCHANGED wire
          ELSE /\ stage' = "serving"
               /\ wire' = [kind |-> "request",
                           fields |-> IF asked.op = "info" THEN Stored(asked.fields)
                                     ELSE IF asked.via = "http" THEN body
                                     ELSE OverProtobuf(ProjectEnqueue(body))]
               /\ UNCHANGED outcome
    /\ UNCHANGED asked

(* The server stores what it was sent, a field it was not sent is not set, and  *)
(* answers with the job.                                                        *)
ServeJob ==
    /\ stage = "serving"
    /\ \A f \in DOMAIN wire.fields : ~Inexpressible(wire.fields[f])
    /\ stage' = "answered"
    /\ wire' = [kind |-> "job",
                fields |-> [f \in JobFields |->
                    IF f \in DOMAIN wire.fields THEN wire.fields[f] ELSE "absent"]]
    /\ UNCHANGED <<asked, outcome>>

(* Or with an error, over gRPC under a status that fits it and with or without  *)
(* the details of google.rpc.Status.                                            *)
ServeError ==
    /\ stage = "serving"
    /\ asked.fields \in Failing
    /\ \E a \in Answers : \E code \in ServerCodes(a.row), structured \in BOOLEAN :
          wire' = [kind |-> "error", answer |-> a, code |-> code, structured |-> structured]
    /\ stage' = "answered"
    /\ UNCHANGED <<asked, outcome>>

ReturnJob ==
    /\ stage = "answered" /\ wire.kind = "job"
    /\ outcome' = [kind |-> "job",
                   job |-> IF asked.via = "http" THEN FromDict(wire.fields)
                           ELSE FromDict(ProjectJob(OverProtobuf(wire.fields)))]
    /\ stage' = "done"
    /\ UNCHANGED <<asked, wire>>

RaiseError ==
    /\ stage = "answered" /\ wire.kind = "error"
    /\ outcome' = [kind |-> "error",
                   exception |-> IF asked.via = "http"
                                 THEN MapErrorResponse(wire.answer.row.status, wire.answer)
                                 ELSE MapGrpcError(wire.code, wire.answer, wire.structured)]
    /\ stage' = "done"
    /\ UNCHANGED <<asked, wire>>

CallNext == Call \/ ServeJob \/ ServeError \/ ReturnJob \/ RaiseError

-----------------------------------------------------------------------------

(* What the caller asked for (push) or the server holds (info). *)
Meant(f) ==
    IF asked.op = "info" THEN Stored(asked.fields)[f]
    ELSE IF \/ f \notin RequestFields \/ asked.fields[f] = "none"
            \/ InRetry(f) /\ asked.fields["retry"] = "none"
            \/ InUnique(f) /\ asked.fields["unique"] = "none"
    THEN "absent" ELSE asked.fields[f]

(* Says the policy anything a caller could read? Over gRPC a zero says nothing.  *)
Says(members) ==
    \E f \in members : Meant(f) \notin {"absent"} \cup (IF asked.via = "grpc" THEN {"zero"} ELSE {})

(* What the job says of a field that is not what was meant: an empty date is no *)
(* date; an empty policy list of a request is not sent; a policy that says      *)
(* nothing is none; over gRPC a zero the messages do not carry is the SDK's     *)
(* default, and an argument that looks like a wire value is unwrapped.          *)
Altered(f, got) ==
    LET Zero(fs) == Meant(f) = "zero" /\ f \in fs
    IN \/ Zero({"delay_until", "expires_at", "unique.period"}) /\ got = "none"
       \/ asked.op = "push" /\ Zero({"unique.key", "unique.states"}) /\ got \in {"default", "zero"}
       \/ f \in {"retry"} \cup RetryFields /\ ~Says(RetryFields) /\ got = "none"
       \/ f = "unique" /\ ~Says(UniqueFields) /\ got = "none"
       \/ asked.via = "grpc" /\ Zero(ZeroIsLost) /\ got = SdkDefault(f)
       \/ asked.via = "grpc" /\ Meant(f) = "value_shaped" /\ got = "unwrapped"

(* Over either transport the job a caller gets says what it asked for (push) or *)
(* what the server holds (info), through to_dict, both projections, the messages *)
(* and the decoder: nothing is dropped or replaced on the way, but for the      *)
(* fields Altered names, which read as it says and as nothing else. A request   *)
(* gRPC cannot carry is refused, never trimmed.                                 *)
JobKept ==
    /\ CallTypeOK
    /\ outcome.kind = "job" =>
         /\ \A f \in JobFields :
               Meant(f) \in {"absent", outcome.job[f]} \/ Altered(f, outcome.job[f])
         /\ asked.op = "push" /\ asked.via = "grpc" =>
               asked.fields["schema"] \in {"none", "zero"}

(* An explicit zero of a job or of its retry policy is read as that zero over   *)
(* gRPC, "preserved rather than silently replaced by a locally hardcoded        *)
(* default" (job_projection.py 60-71).                                          *)
ZerosSurvive ==
    outcome.kind = "job" /\ asked.op = "info" /\ asked.via = "grpc" =>
        \A f \in {"max_attempts", "retry.max_attempts", "retry.backoff_coefficient",
                  "retry.jitter"} :
            Meant(f) = "zero" => outcome.job[f] = "zero"

(* A server's error is the same exception over gRPC as over HTTP: with the      *)
(* details, the same class and the same wait, and the same answer to whether to *)
(* try again when the server gives one; without them, a report that was not     *)
(* delivered is retried when it would be over HTTP (CompletionReporter).        *)
ErrorsAgree ==
    outcome.kind = "error" /\ asked.via = "grpc" =>
       LET http == MapErrorResponse(wire.answer.row.status, wire.answer)
           grpc == outcome.exception
       IN /\ wire.structured =>
                /\ grpc.class = http.class
                /\ grpc.retryAfter = http.retryAfter
                /\ wire.answer.retryable # "unsaid" => grpc.retryable = http.retryable
          /\ ~wire.structured /\ wire.answer.retryable = "unsaid" /\ Found(wire.answer) =>
                \/ RetryableDelivery(grpc) = RetryableDelivery(http)
                \/ wire.code \in {"UNKNOWN", "FAILED_PRECONDITION", "INVALID_ARGUMENT",
                                  "ALREADY_EXISTS"} /\ ~RetryableDelivery(grpc)
=============================================================================
