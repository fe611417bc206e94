------------------------------- MODULE MCGrpc -------------------------------
(* GrpcTransport instantiated for TLC: calls with every field as usual but two, *)
(* or with a retry policy that holds zeros only, and errors for the usual call, *)
(* as they do not depend on the fields.                                         *)
EXTENDS GrpcTransport

Usual(f) ==
    IF f \in {"args", "retry", "unique"} THEN "other"
    ELSE IF "none" \in ValuesOf(f) THEN "none"
    ELSE IF "default" \in ValuesOf(f) THEN "default" ELSE "zero"

UsualFields == [f \in AllFields |-> Usual(f)]
UsualOnly == {UsualFields}
Unusual(f, x, g, y) == [UsualFields EXCEPT ![f] = x, ![g] = y]
TwoUnusual ==
    UNION {{Unusual(f, x, g, y) : x \in ValuesOf(f), y \in ValuesOf(g)} :
             f \in AllFields, g \in AllFields}
ZeroRetry ==
    [f \in AllFields |->
        IF f \notin RetryFields THEN UsualFields[f]
        ELSE IF "zero" \in ValuesOf(f) THEN "zero" ELSE "invalid"]
UnusualFields == TwoUnusual \cup {ZeroRetry}
=============================================================================
