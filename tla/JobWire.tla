------------------------------ MODULE JobWire -------------------------------
(* A job on the wire, field by field: what a request says over HTTP and over    *)
(* gRPC, and what a client reads in the job a server answers with. The value of *)
(* a field is "none" (Python's None), "zero" (0, False, an empty string, list   *)
(* or object), "default" (the SDK's own, where it is not zero), "other", or a   *)
(* value only that field has; "absent" is a missing key.                        *)

RetryFields ==
    {"retry.max_attempts", "retry.initial_interval", "retry.max_interval",
     "retry.backoff_coefficient", "retry.jitter", "retry.non_retryable_errors"}
UniqueFields ==
    {"unique.key", "unique.args_keys", "unique.meta_keys", "unique.period",
     "unique.states", "unique.on_conflict"}
RequestFields ==
    {"args", "queue", "priority", "timeout_ms", "delay_until", "expires_at", "meta", "tags",
     "schema", "retry", "unique"} \cup RetryFields \cup UniqueFields
JobFields == (RequestFields \ {"schema"}) \cup {"max_attempts", "attempt", "state", "result"}

(* The part of the envelope a field is in, if any. *)
InRetry(f) == f \in RetryFields
InUnique(f) == f \in UniqueFields

(* What a field may hold: "value_shaped" is an argument such as                 *)
(* {"string_value": ...}, "past" a moment gone by, "invalid" a duration, date   *)
(* or action only the wire format rejects. A policy that is "zero" is an empty  *)
(* object: a server's, never a request's.                                       *)
ValuesOf(f) ==
    CASE f = "args" -> {"zero", "other", "value_shaped"}
      [] f = "queue" -> {"default", "other"}
      [] f \in {"priority", "attempt", "retry.non_retryable_errors"} -> {"zero", "other"}
      [] f \in {"timeout_ms", "delay_until", "unique.period"} ->
           {"none", "zero", "other", "invalid"}
      [] f = "expires_at" -> {"none", "zero", "other", "past", "invalid"}
      [] f = "result" -> {"none", "other"}
      [] f \in {"retry", "unique"} -> {"none", "zero", "other"}
      [] f \in {"max_attempts", "retry.max_attempts", "retry.backoff_coefficient",
                "unique.key", "unique.states"} -> {"default", "zero", "other"}
      [] f \in {"retry.initial_interval", "retry.max_interval", "unique.on_conflict"} ->
           {"default", "other", "invalid"}
      [] f = "retry.jitter" -> {"default", "zero"}
      [] f = "state" -> {"default", "other"}
      [] OTHER -> {"none", "zero", "other"}   \* meta, tags, schema, args_keys, meta_keys

AllFields == RequestFields \cup JobFields

-----------------------------------------------------------------------------
(* Sending *)

(* The fields to_dict leaves out when they are falsy. *)
OmittedWhenFalsy ==
    {"meta", "schema", "priority", "delay_until", "expires_at", "tags",
     "retry.non_retryable_errors", "unique.key", "unique.period", "unique.states"}

(* JobRequest.to_dict with those of its policies: the body an HTTP server gets. *)
ToDict(r) ==
    [f \in RequestFields |->
        IF \/ r[f] = "none"
           \/ r[f] = "zero" /\ f \in OmittedWhenFalsy
           \/ f = "queue" /\ r[f] = "default"
           \/ InRetry(f) /\ r["retry"] = "none"
           \/ InUnique(f) /\ r["unique"] = "none"
        THEN "absent" ELSE r[f]]

(* The conversions of protobuf_time: a negative or unreadable duration or date  *)
(* raises, and what can be read keeps its meaning (not its wording).            *)
Inexpressible(value) == value = "invalid"

(* project_enqueue raises for a schema, and for what has no protobuf form. *)
Refused(body) ==
    body["schema"] # "absent" \/ \E f \in RequestFields : Inexpressible(body[f])

(* project_enqueue: isinstance tests let every value of the body through, and   *)
(* the attempts of the policy are the job's as well.                            *)
ProjectEnqueue(body) ==
    [f \in RequestFields \cup {"max_attempts"} |->
        IF f = "max_attempts" THEN body["retry.max_attempts"] ELSE body[f]]

(* Fields of the protobuf messages that have no presence: scalars, enums and    *)
(* repeated fields, whose zero is not sent.                                     *)
NoPresence ==
    {"args", "queue", "priority", "tags", "max_attempts", "attempt", "state",
     "retry.max_attempts", "retry.backoff_coefficient", "retry.jitter",
     "retry.non_retryable_errors", "unique.key", "unique.args_keys", "unique.meta_keys",
     "unique.states", "unique.on_conflict"}

(* ProtobufCodec and the generated messages: MessageToDict(ParseDict(d)). *)
OverProtobuf(d) ==
    [f \in DOMAIN d |-> IF d[f] = "zero" /\ f \in NoPresence THEN "absent" ELSE d[f]]

-----------------------------------------------------------------------------
(* Receiving *)

(* WireDecoder: the value of a key, or the default given for it. *)
Decoded(j, f, default) == IF j[f] = "absent" THEN default ELSE j[f]

(* The defaults of Job, UniquePolicy._from_decoder and RetryPolicy.from_dict. *)
SdkDefault(f) ==
    IF f \notin {"meta", "tags"} /\ "none" \in ValuesOf(f) THEN "none"
    ELSE IF "default" \in ValuesOf(f) THEN "default" ELSE "zero"

(* `if retry_data:`, `if unique_data:`: a policy that says nothing is no policy. *)
Lacking(j, policy, members) == j[policy] = "absent" \/ \A f \in members : j[f] = "absent"

(* Job.from_dict. *)
FromDict(j) ==
    [f \in JobFields |->
        IF \/ f \in {"retry"} \cup RetryFields /\ Lacking(j, "retry", RetryFields)
           \/ f \in {"unique"} \cup UniqueFields /\ Lacking(j, "unique", UniqueFields)
        THEN "none" ELSE Decoded(j, f, SdkDefault(f))]

(* _from_proto_value: response_dict has made each argument a Python value       *)
(* already, and what merely looks like a wire value is unwrapped.               *)
Unwrapped(value) == IF value = "value_shaped" THEN "unwrapped" ELSE value

\* (mutant) An empty list of a policy is left to from_dict's default.
ProjectJobDroppingEmpty(d) ==
    [f \in JobFields |->
        IF d[f] # "absent" THEN Unwrapped(d[f])
        ELSE IF f \in {"args", "priority", "attempt", "meta", "tags"} THEN "zero"
        ELSE "absent"]

(* _from_proto_job and project_job: some missing fields are filled in, the rest *)
(* is from_dict's.                                                              *)
ProjectJob(d) ==
    [f \in JobFields |->
        IF d[f] # "absent" THEN Unwrapped(d[f])
        ELSE IF \/ f \in {"args", "priority", "attempt", "meta", "tags"}
                \/ f \in {"unique.key", "unique.states"} /\ d["unique"] # "absent" THEN "zero"
        ELSE "absent"]

(* What cannot be told from "not set" in the messages, where the SDK's default  *)
(* is not zero.                                                                 *)
ZeroIsLost ==
    {"max_attempts", "retry.max_attempts", "retry.backoff_coefficient", "retry.jitter",
     "unique.args_keys", "unique.meta_keys"}
=============================================================================
