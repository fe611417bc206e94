---------------------------- MODULE MCExecution -----------------------------
(* Execution instantiated for TLC. *)
EXTENDS Execution

KindOf == [now |-> "time", rnd |-> "random", nonce |-> "random",
           fetch |-> "call", charge |-> "call"]

\* Everything awaited where it is called.
OneByOne == << <<"rnd">>, <<"fetch">>, <<"nonce">>, <<"charge">> >>

\* Two side effects awaited together.
Gathering == << <<"fetch", "charge">>, <<"now">> >>

BothHandlers == {OneByOne, Gathering}

\* Every order of up to three layers, and of four with two of the same kind
\* around the handler where nesting matters.
Upto3 == UNION {[1 .. n -> Kinds] : n \in 0 .. 3}
Nested == {<<"logging", "timeout", "retry", "timeout">>,
           <<"retry", "timeout", "retry", "timeout">>,
           <<"metrics", "retry", "decrypt", "strict">>,
           <<"timeout", "retry", "timeout", "decrypt">>}
MCChains == Upto3 \cup Nested
=============================================================================
