---------------------------- MODULE ErrorMapping ----------------------------
(* Which exception of the SDK an error answer becomes: the catalog of error     *)
(* codes (error_codes.py), the mapping of HTTP answers (response_mapper.py,     *)
(* rate_limit_headers.py) and that of gRPC statuses, with or without the        *)
(* structured details of google.rpc.Status (rpc_error_mapper.py).               *)
EXTENDS Integers

(* A catalog row; wire is FALSE for a row without a canonical code, which only  *)
(* its OJS-xxxx number finds. Status 0 marks errors no server answers with.     *)
Rows(status, retryable, wire, names) ==
    {[name |-> n, status |-> status, retryable |-> retryable, wire |-> wire] : n \in names}

ClientErrors ==
    Rows(400, FALSE, TRUE,
         {"INVALID_PAYLOAD", "INVALID_JOB_TYPE", "INVALID_QUEUE", "INVALID_ARGS",
          "INVALID_METADATA", "INVALID_RETRY_POLICY", "INVALID_CRON_EXPRESSION",
          "QUEUE_NAME_TOO_LONG", "JOB_TYPE_TOO_LONG", "CHECKSUM_MISMATCH",
          "UNSUPPORTED_COMPRESSION"})
    \cup Rows(409, FALSE, TRUE, {"INVALID_STATE_TRANSITION"})
    \cup Rows(422, FALSE, TRUE, {"SCHEMA_VALIDATION_FAILED"})
    \cup Rows(413, FALSE, TRUE, {"PAYLOAD_TOO_LARGE", "METADATA_TOO_LARGE"})
    \cup Rows(0, TRUE, FALSE, {"CONNECTION_ERROR", "REQUEST_TIMEOUT"})
    \cup Rows(0, FALSE, FALSE, {"SERIALIZATION_ERROR"})

ServerErrors ==
    Rows(500, TRUE, TRUE, {"BACKEND_ERROR", "REPLICATION_LAG"})
    \cup Rows(503, TRUE, TRUE, {"BACKEND_UNAVAILABLE"})
    \cup Rows(504, TRUE, TRUE, {"BACKEND_TIMEOUT"})
    \cup Rows(500, TRUE, FALSE, {"INTERNAL_SERVER_ERROR"})

LifecycleErrors ==
    Rows(404, FALSE, TRUE, {"NOT_FOUND"})
    \cup Rows(409, FALSE, TRUE,
              {"DUPLICATE_JOB", "JOB_ALREADY_COMPLETED", "JOB_ALREADY_CANCELLED"})
    \cup Rows(422, TRUE, TRUE, {"QUEUE_PAUSED"})
    \cup Rows(0, TRUE, TRUE, {"HANDLER_ERROR", "HANDLER_TIMEOUT", "HANDLER_PANIC"})
    \cup Rows(0, FALSE, TRUE, {"NON_RETRYABLE_ERROR", "JOB_CANCELLED"})
    \cup Rows(0, FALSE, FALSE, {"NO_HANDLER_REGISTERED"})

WorkflowErrors ==
    Rows(404, FALSE, FALSE, {"WORKFLOW_NOT_FOUND"})
    \cup Rows(422, FALSE, FALSE, {"CHAIN_STEP_FAILED", "DEPENDENCY_FAILED"})
    \cup Rows(504, TRUE, FALSE, {"GROUP_TIMEOUT"})
    \cup Rows(400, FALSE, FALSE, {"CYCLIC_DEPENDENCY"})
    \cup Rows(422, TRUE, FALSE, {"BATCH_CALLBACK_FAILED"})
    \cup Rows(409, FALSE, FALSE, {"WORKFLOW_CANCELLED"})

AccessErrors ==
    Rows(401, FALSE, TRUE, {"UNAUTHENTICATED", "TOKEN_EXPIRED"})
    \cup Rows(403, FALSE, TRUE, {"PERMISSION_DENIED", "TENANT_ACCESS_DENIED"})

RateErrors ==
    Rows(429, TRUE, TRUE, {"RATE_LIMITED", "QUEUE_FULL"})
    \cup Rows(429, TRUE, FALSE, {"CONCURRENCY_LIMITED", "BACKPRESSURE_APPLIED"})

ExtensionErrors ==
    Rows(422, FALSE, TRUE, {"UNSUPPORTED_FEATURE"})
    \cup Rows(409, FALSE, FALSE, {"CRON_SCHEDULE_CONFLICT"})
    \cup Rows(400, FALSE, FALSE, {"UNIQUE_KEY_INVALID"})
    \cup Rows(500, TRUE, FALSE, {"MIDDLEWARE_ERROR"})
    \cup Rows(504, TRUE, FALSE, {"MIDDLEWARE_TIMEOUT"})

AllErrorCodes == ClientErrors \cup ServerErrors \cup LifecycleErrors \cup WorkflowErrors
                 \cup AccessErrors \cup RateErrors \cup ExtensionErrors

(* A server's error answer: the code it names and how it spells it (canonical   *)
(* in any case, as OJS-xxxx, or by one of the four aliases of earlier servers), *)
(* what it says of retrying and of waiting.                                     *)
Aliased == {"DUPLICATE_JOB", "NOT_FOUND", "QUEUE_PAUSED", "RATE_LIMITED"}

Answers ==
    {a \in [row : {r \in AllErrorCodes : r.status > 0},
            spelling : {"canonical", "number", "alias"},
            retryable : {"yes", "no", "unsaid"},
            wait : {"unsaid", "garbled", "infinite", "past", "seconds"}] :
       a.spelling = "alias" => a.row.name \in Aliased}

(* _catalog_entry: by alias or canonical code, else by number. *)
Found(a) == a.row.wire \/ a.spelling = "number"

(* The canonical code an answer's code stands for: empty for the rows without. *)
Canonical(a) ==
    CASE Found(a) -> IF a.row.wire THEN a.row.name ELSE ""
      [] OTHER -> a.row.name

(* parse_retry_after: seconds or a date, never negative, and only if finite. *)
RetryAfter(wait) ==
    CASE wait = "seconds" -> "seconds" [] wait = "past" -> "zero" [] OTHER -> "none"

Exceptions ==
    [class : {"OJSAPIError", "DuplicateJobError", "JobNotFoundError", "QueuePausedError",
              "RateLimitedError", "OJSConnectionError", "OJSTimeoutError"},
     retryable : BOOLEAN,
     retryAfter : {"none", "zero", "seconds"}]
Raised(class, retryable, retryAfter) ==
    [class |-> class, retryable |-> retryable, retryAfter |-> retryAfter]

\* (mutant) The class follows the status alone.
MapErrorResponseByStatus(status, a) ==
    LET retryable == CASE a.retryable = "yes" -> TRUE
                       [] a.retryable = "no" -> FALSE
                       [] OTHER -> Found(a) /\ a.row.retryable
    IN CASE status = 404 -> Raised("JobNotFoundError", retryable, "none")
         [] status = 409 -> Raised("DuplicateJobError", retryable, "none")
         [] status = 429 -> Raised("RateLimitedError", retryable, RetryAfter(a.wait))
         [] OTHER -> Raised("OJSAPIError", retryable, "none")

(* map_error_response: the answer's own retryable, else the catalog's; the most *)
(* specific class of its canonical code, and every 429 a RateLimitedError.      *)
MapErrorResponse(status, a) ==
    LET retryable == CASE a.retryable = "yes" -> TRUE
                       [] a.retryable = "no" -> FALSE
                       [] OTHER -> Found(a) /\ a.row.retryable
    IN CASE Canonical(a) = "DUPLICATE_JOB" -> Raised("DuplicateJobError", retryable, "none")
         [] Canonical(a) = "NOT_FOUND" -> Raised("JobNotFoundError", retryable, "none")
         [] Canonical(a) = "QUEUE_PAUSED" -> Raised("QueuePausedError", retryable, "none")
         [] OTHER -> IF Canonical(a) = "RATE_LIMITED" \/ status = 429
                     THEN Raised("RateLimitedError", retryable, RetryAfter(a.wait))
                     ELSE Raised("OJSAPIError", retryable, "none")

-----------------------------------------------------------------------------
(* gRPC *)

GrpcCodes ==
    {"INVALID_ARGUMENT", "NOT_FOUND", "ALREADY_EXISTS", "FAILED_PRECONDITION",
     "RESOURCE_EXHAUSTED", "PERMISSION_DENIED", "UNAUTHENTICATED", "UNAVAILABLE",
     "DEADLINE_EXCEEDED", "UNIMPLEMENTED", "INTERNAL", "UNKNOWN"}

(* grpc_code_to_http_status. *)
HttpStatus(code) ==
    CASE code = "INVALID_ARGUMENT" -> 400 [] code = "NOT_FOUND" -> 404
      [] code = "ALREADY_EXISTS" -> 409 [] code = "FAILED_PRECONDITION" -> 422
      [] code = "RESOURCE_EXHAUSTED" -> 429 [] code = "PERMISSION_DENIED" -> 403
      [] code = "UNAUTHENTICATED" -> 401 [] code = "UNAVAILABLE" -> 503
      [] code = "DEADLINE_EXCEEDED" -> 504 [] code = "UNIMPLEMENTED" -> 501
      [] OTHER -> 500

(* The gRPC statuses a server may answer a row with. Only a rate limit is       *)
(* RESOURCE_EXHAUSTED; where HTTP has several conflicts and refusals the choice *)
(* is the server's.                                                             *)
ServerCodes(row) ==
    CASE row.status = 400 -> {"INVALID_ARGUMENT"}
      [] row.status = 404 -> {"NOT_FOUND"}
      [] row.status = 429 -> {"RESOURCE_EXHAUSTED"}
      [] row.status = 503 -> {"UNAVAILABLE"}
      [] row.status = 504 -> {"DEADLINE_EXCEEDED"}
      [] row.status = 500 -> {"INTERNAL", "UNKNOWN"}
      [] row.status = 401 -> {"UNAUTHENTICATED"}
      [] row.status = 403 -> {"PERMISSION_DENIED"}
      [] OTHER -> {"INVALID_ARGUMENT", "ALREADY_EXISTS", "FAILED_PRECONDITION"}

(* _structured_error: an ErrorInfo of the OJS domain carries the answer, with   *)
(* retryable in its metadata, absent meaning false; RetryInfo is a duration.    *)
StructuredError(code, a) ==
    MapErrorResponse(HttpStatus(code),
        [a EXCEPT !.retryable = IF @ = "yes" THEN "yes" ELSE "no",
                  !.wait = IF @ = "seconds" THEN "seconds" ELSE IF @ = "past" THEN "past"
                           ELSE "unsaid"])

(* map_grpc_error without details: the status is all there is. *)
PlainError(code) ==
    LET retryable == code \in {"UNAVAILABLE", "DEADLINE_EXCEEDED", "RESOURCE_EXHAUSTED",
                               "INTERNAL"}
    IN CASE code = "NOT_FOUND" -> Raised("JobNotFoundError", retryable, "none")
         [] code = "ALREADY_EXISTS" -> Raised("DuplicateJobError", retryable, "none")
         [] code = "RESOURCE_EXHAUSTED" -> Raised("RateLimitedError", retryable, "none")
         [] code = "UNAVAILABLE" -> Raised("OJSConnectionError", retryable, "none")
         [] code = "DEADLINE_EXCEEDED" -> Raised("OJSTimeoutError", retryable, "none")
         [] OTHER -> Raised("OJSAPIError", retryable, "none")

MapGrpcError(code, a, structured) ==
    IF structured THEN StructuredError(code, a) ELSE PlainError(code)

(* _retryable_delivery: what CompletionReporter tries again. *)
RetryableDelivery(exception) ==
    exception.class \in {"OJSConnectionError", "OJSTimeoutError"} \/ exception.retryable
=============================================================================
