-------------------------- MODULE DeliveryContract --------------------------
(* What a serverless adapter promises about the messages it is handed: a       *)
(* message is settled only once somebody was told what became of its job, and  *)
(* what was told stays told.                                                   *)
CONSTANT Messages

VARIABLES
    at,     \* [Messages -> {"pending", "settled", "dead"}]
    told    \* [Messages -> a set of what was said of the message's job]

Init ==
    /\ at = [m \in Messages |-> "pending"]
    /\ told = [m \in Messages |-> {}]

(* One message: it may be settled with an outcome that was told, be given up   *)
(* by the platform, or stay where it is.                                       *)
Message(m) ==
    /\ told[m] \subseteq told'[m]
    /\ \/ at'[m] = at[m] /\ (at[m] # "pending" => told'[m] = told[m])
       \/ at[m] = "pending" /\ at'[m] = "settled" /\ told'[m] # {}
       \/ at[m] = "pending" /\ at'[m] = "dead" /\ told'[m] = told[m]

Next ==
    /\ DOMAIN at' = Messages
    /\ DOMAIN told' = Messages
    /\ \A m \in Messages : Message(m)

vars == <<at, told>>

Spec == Init /\ [][Next]_vars
=============================================================================
