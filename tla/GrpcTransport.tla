--------------------------- MODULE GrpcTransport ----------------------------
(* What a user of GrpcTransport may do: make a unary call, list something, run  *)
(* a worker whose heartbeats are a sequence of RPCs, or submit a workflow. They *)
(* share the channel and nothing else, so that a behaviour is one of the four.  *)
EXTENDS GrpcCall, GrpcPaging, GrpcHeartbeat, WorkflowDag

vars == <<callVars, pagingVars, heartbeatVars, flowVars>>

Init ==
    \/ CallInit /\ NoListing /\ NoHeartbeat /\ NoWorkflow
    \/ NoCall /\ PagingInit /\ NoHeartbeat /\ NoWorkflow
    \/ NoCall /\ NoListing /\ HeartbeatInit /\ NoWorkflow
    \/ NoCall /\ NoListing /\ NoHeartbeat /\ WorkflowInit

Next ==
    \/ CallNext /\ UNCHANGED <<pagingVars, heartbeatVars, flowVars>>
    \/ PagingNext /\ UNCHANGED <<callVars, heartbeatVars, flowVars>>
    \/ HeartbeatNext /\ UNCHANGED <<callVars, pagingVars, flowVars>>
    \/ WorkflowNext /\ UNCHANGED <<callVars, pagingVars, heartbeatVars>>

(* Every RPC has a deadline, so that a listing goes on. *)
Fairness == WF_vars((NextPage \/ SlicePage) /\ UNCHANGED <<callVars, heartbeatVars, flowVars>>)

Spec == Init /\ [][Next]_vars /\ Fairness
=============================================================================
