--------------------------- MODULE WorkerContract ---------------------------
(***************************************************************************)
(* What a run of the worker promises to whoever awaits start(), with the   *)
(* loops, calls and deliveries left out: it executes at most Concurrency   *)
(* jobs, admits none once it closes, and returns only when none is left,   *)
(* unless the caller's own cancellation made it give up the drain.         *)
(***************************************************************************)
EXTENDS Naturals, FiniteSets

CONSTANTS Tokens, Concurrency

VARIABLES
    phase,       \* "idle", "serving", "closing" or "draining"
    giveUp,      \* the caller has cancelled start() in this phase
    active,      \* executions of the run
    abandoned    \* executions of runs that were given up

vars == <<phase, giveUp, active, abandoned>>

Init == phase = "idle" /\ giveUp = FALSE /\ active = {} /\ abandoned = {}

Begin ==
    /\ phase = "idle" /\ phase' = "serving"
    /\ UNCHANGED <<giveUp, active, abandoned>>

Admit ==
    /\ phase = "serving"
    /\ \E new \in SUBSET (Tokens \ (active \cup abandoned)) :
          active' = active \cup new
    /\ Cardinality(active') <= Concurrency
    /\ UNCHANGED <<phase, giveUp, abandoned>>

Settle ==
    /\ \E t \in active \cup abandoned :
          active' = active \ {t} /\ abandoned' = abandoned \ {t}
    /\ UNCHANGED <<phase, giveUp>>

Interrupt ==
    /\ phase # "idle" /\ giveUp' = TRUE
    /\ UNCHANGED <<phase, active, abandoned>>

Close ==
    /\ phase = "serving" /\ phase' = "closing" /\ giveUp' = FALSE
    /\ UNCHANGED <<active, abandoned>>

Drain ==
    /\ phase = "closing" /\ phase' = "draining" /\ ~giveUp
    /\ UNCHANGED <<giveUp, active, abandoned>>

Return ==
    /\ phase = "draining" /\ active = {}
    /\ phase' = "idle" /\ giveUp' = FALSE
    /\ UNCHANGED <<active, abandoned>>

Abandon ==
    /\ phase \in {"closing", "draining"} /\ giveUp
    /\ phase' = "idle" /\ giveUp' = FALSE
    /\ active' = {} /\ abandoned' = abandoned \cup active

Next == Begin \/ Admit \/ Settle \/ Interrupt \/ Close \/ Drain \/ Return \/ Abandon

Spec == Init /\ [][Next]_vars
=============================================================================
