-------------------------- MODULE ServerlessProofs --------------------------
(* Proofs about the serverless adapters, for every set of messages, batch size, *)
(* redrive policy and number of report attempts: the adapters keep the delivery *)
(* contract, and a job is run again only for a reason.                          *)
EXTENDS Serverless, TLAPS

(* What was told of each message, as the contract sees it. *)
told == [m \in Messages |-> heard[m] \cup (past[m] \cap Unheard)]

(* The records of an invocation are different messages, all of them in flight,  *)
(* pos is the one being processed, or the one past the last, and only records   *)
(* before it have failed.                                                       *)
BatchInv ==
    /\ step = "idle" => batch = <<>>
    /\ step = "return" => pos = Len(batch) + 1
    /\ step # "idle" => Len(batch) >= 1
    /\ entry # "sqs" => Len(batch) <= 1
    /\ \A i \in DOMAIN batch : queue[batch[i]] = "inflight"
    /\ \A i, j \in DOMAIN batch : batch[i] = batch[j] => i = j
    /\ \A i \in DOMAIN batch : batch[i] \in failures => i < pos

(* Where the reporter is: it runs only with a transport to report over, with    *)
(* attempts left, and holds the outcome the handler ended with.                 *)
ReportInv ==
    step = "report" =>
      /\ callback /\ Reports
      /\ tries < MaxAttempts
      /\ ~outcome.redeliver
      /\ outcome.code = "none" => ~outcome.retryable

(* A record that the adapter is done with, or about to be, was told of or is    *)
(* asked for again.                                                             *)
SettledInv ==
    /\ step = "resolve" =>
         /\ entry = "sqs" => outcome.redeliver \/ told[Current] # {}
         /\ entry = "azure" => outcome.retryable \/ told[Current] # {}
    /\ entry = "sqs" => \A i \in DOMAIN batch :
         i < pos => batch[i] \in failures \/ told[batch[i]] # {}
    /\ entry = "azure" /\ step = "return" => outcome.retryable \/ told[batch[1]] # {}

(* The record of batch that is m was acknowledged in this invocation, and none  *)
(* of what the adapter will return asks for it again.                           *)
Acknowledged(m) ==
    \E i \in DOMAIN batch :
      /\ batch[i] = m
      /\ \/ i < pos /\ m \notin failures
         \/ i = pos /\ step = "resolve" /\ ~outcome.redeliver
      /\ entry = "azure" => ~outcome.retryable

(* A job the backend has acknowledged and whose message is still there has an   *)
(* excuse, or is on its way to being deleted.                                   *)
ExcuseInv ==
    \A m \in Messages :
      "ack" \in heard[m] => m \in excuse \/ queue[m] = "deleted" \/ Acknowledged(m)

(* The inductive invariant. *)
IInv == TypeOK /\ BatchInv /\ ReportInv /\ SettledInv /\ ExcuseInv

-----------------------------------------------------------------------------
(* The records of an invocation are messages. *)
LEMMA BatchFacts ==
  ASSUME TypeOK
  PROVE  /\ Len(batch) \in Nat
         /\ DOMAIN batch = 1 .. Len(batch)
         /\ \A i \in DOMAIN batch : batch[i] \in Messages
         /\ Range(batch) \subseteq Messages
  BY DEF TypeOK, Range

(* Before the first delivery nothing is in flight. *)
LEMMA InitIInv == Init => IInv
<1> SUFFICES ASSUME Init PROVE IInv
  OBVIOUS
<1>1. TypeOK
  BY ServerlessAssumption DEF Init, TypeOK, InvocationOutcome, Completed, Bodies, Entries, Ends
<1>2. BatchInv /\ ReportInv /\ SettledInv /\ ExcuseInv
  BY DEF Init, BatchInv, ReportInv, SettledInv, ExcuseInv
<1> QED
  BY <1>1, <1>2 DEF IInv

(* The platform hands over a batch of queued messages. *)
LEMMA DeliverIInv == ASSUME IInv, Deliver PROVE IInv'
<1> USE ServerlessAssumption DEF IInv, env
<1> DEFINE Free == {m \in Messages : queue[m] = "queued" /\ receives[m] < MaxReceive}
<1>0. PICK n \in 1 .. (IF entry = "sqs" THEN MaxBatch ELSE 1) :
        \E b \in [1 .. n -> Free] :
         /\ IsInjective(b)
         /\ batch' = b
         /\ queue' = [m \in Messages |-> IF m \in Range(b) THEN "inflight" ELSE queue[m]]
         /\ receives' = [m \in Messages |->
                           IF m \in Range(b) THEN receives[m] + 1 ELSE receives[m]]
  BY DEF Deliver
<1>1. /\ batch' \in [1 .. n -> Free] /\ IsInjective(batch')
      /\ queue' = [m \in Messages |-> IF m \in Range(batch') THEN "inflight" ELSE queue[m]]
      /\ receives' = [m \in Messages |->
                        IF m \in Range(batch') THEN receives[m] + 1 ELSE receives[m]]
  BY <1>0
<1>2. n \in Nat /\ n >= 1 /\ batch' \in Seq(Messages) /\ Len(batch') = n
      /\ DOMAIN batch' = 1 .. n /\ (entry # "sqs" => n = 1)
  BY <1>1
<1>a. /\ pos' = 1 /\ failures' = {} /\ step' = "decode"
      /\ UNCHANGED <<entry, callback, body, outcome, tries, heard, past, excuse>>
  BY DEF Deliver
<1>b. queue' \in [Messages -> {"queued", "inflight", "deleted", "dead"}]
  BY <1>1 DEF TypeOK
<1>c. receives' \in [Messages -> 0 .. MaxReceive]
  BY <1>1 DEF TypeOK, Range
<1>3. TypeOK'
  BY <1>2, <1>a, <1>b, <1>c DEF TypeOK
<1>4. BatchInv'
  BY <1>1, <1>2 DEF Deliver, BatchInv, IsInjective, Range, TypeOK
<1>5. ReportInv' /\ SettledInv'
  BY <1>2 DEF Deliver, ReportInv, SettledInv
<1>6. ExcuseInv'
  BY <1>1 DEF Deliver, ExcuseInv, TypeOK, Acknowledged, BatchInv, Range
<1> QED
  BY <1>3, <1>4, <1>5, <1>6

(* The platform gives a message up, or kills the function. *)
LEMMA GiveUpIInv == ASSUME IInv, NEW m \in Messages, GiveUp(m) PROVE IInv'
<1> USE DEF IInv, env, GiveUp
<1>1. TypeOK'
  BY DEF TypeOK
<1>2. BatchInv'
  BY BatchFacts DEF BatchInv, TypeOK
<1>3. ReportInv' /\ SettledInv'
  BY DEF ReportInv, SettledInv, told, Unheard, Current, Reports
<1>4. ExcuseInv'
  BY BatchFacts DEF ExcuseInv, Acknowledged, TypeOK, BatchInv
<1> QED
  BY <1>1, <1>2, <1>3, <1>4

LEMMA KilledIInv == ASSUME IInv, Killed PROVE IInv'
<1> USE DEF IInv, env, Killed
<1>1. TypeOK'
  BY BatchFacts DEF TypeOK
<1>2. BatchInv' /\ ReportInv' /\ SettledInv'
  BY DEF BatchInv, ReportInv, SettledInv
<1>3. ExcuseInv'
  BY BatchFacts DEF ExcuseInv, Acknowledged, TypeOK, Range
<1> QED
  BY <1>1, <1>2, <1>3

(* What was told stays told and what has failed stays failed, so that a step    *)
(* keeps SettledInv if it does so for the record it is at.                      *)
LEMMA SettledStep ==
  ASSUME TypeOK, BatchInv, SettledInv, UNCHANGED <<entry, batch>>, pos \in DOMAIN batch,
         \A m \in Messages : told[m] \subseteq told'[m],
         failures \subseteq failures',
         pos' = pos \/ pos' = pos + 1,
         pos' = pos + 1 =>
            (entry = "sqs" => batch[pos] \in failures' \/ told'[batch[pos]] # {}),
         step' = "resolve" =>
            /\ pos' = pos
            /\ entry = "sqs" => outcome'.redeliver \/ told'[batch[pos]] # {}
            /\ entry = "azure" => outcome'.retryable \/ told'[batch[pos]] # {},
         step' = "return" /\ entry = "azure" => step = "resolve" /\ outcome' = outcome
  PROVE  SettledInv'
<1> USE BatchFacts
<1>1. ASSUME NEW i \in DOMAIN batch, entry = "sqs", i < pos'
      PROVE  batch[i] \in failures' \/ told'[batch[i]] # {}
  <2>1. CASE i = pos
    BY <1>1, <2>1
  <2>2. CASE i # pos
    <3>1. i < pos
      BY <1>1, <2>2 DEF TypeOK
    <3>2. batch[i] \in failures \/ told[batch[i]] # {}
      BY <1>1, <3>1 DEF SettledInv
    <3> QED
      BY <1>1, <3>2
  <2> QED
    BY <2>1, <2>2
<1>2. ASSUME step' = "return", entry = "azure"
      PROVE  outcome'.retryable \/ told'[batch[1]] # {}
  <2>1. pos = 1
    BY <1>2 DEF BatchInv
  <2>2. outcome.retryable \/ told[batch[1]] # {}
    BY <1>2, <2>1 DEF SettledInv, Current
  <2> QED
    BY <1>2, <2>1, <2>2
<1> QED
  BY <1>1, <1>2 DEF SettledInv, Current

(* The function goes through the records of the batch. *)
LEMMA DecodeIInv == ASSUME IInv, Decode PROVE IInv'
<1> USE DEF IInv, env, Decode
<1>1. TypeOK'
  BY DEF TypeOK
<1>2. BatchInv'
  BY DEF BatchInv
<1>3. ReportInv' /\ SettledInv'
  BY DEF ReportInv, SettledInv, told, Unheard
<1>4. ExcuseInv'
  BY DEF ExcuseInv, Acknowledged
<1> QED
  BY <1>1, <1>2, <1>3, <1>4

(* What failed_outcome makes of each error. *)
LEMMA FailedFacts ==
  /\ \A error \in {"eventError", "handlerNotFound", "resultError"} :
       FailedOutcome(error) = [code |-> error, retryable |-> FALSE, redeliver |-> FALSE]
  /\ \A error \in {"raised", "validationError"} :
       FailedOutcome(error) = [code |-> error, retryable |-> TRUE, redeliver |-> FALSE]
<1>1. ASSUME NEW error \in {"eventError", "handlerNotFound", "resultError"}
      PROVE  (error \in {"raised", "validationError"}) = FALSE
  OBVIOUS
<1>2. ASSUME NEW error \in {"raised", "validationError"}
      PROVE  (error \in {"raised", "validationError"}) = TRUE
  OBVIOUS
<1> QED
  BY <1>1, <1>2 DEF FailedOutcome

LEMMA RefuseIInv == ASSUME IInv, Refuse PROVE IInv'
<1> USE DEF IInv, env, Refuse, NextRecord, Current, FailedOutcome
<1>0. pos \in DOMAIN batch /\ batch[pos] \in Messages
  BY BatchFacts DEF TypeOK
<1> DEFINE error == EventErrors[body[Current]]
<1>r. \/ error = "eventError"
      \/ error = "validationError"
  BY DEF EventErrors
<1>p. past' = [past EXCEPT ![batch[pos]] = @ \cup {error}]
  OBVIOUS
<1>o. IF entry = "sqs" THEN UNCHANGED outcome ELSE outcome' = FailedOutcome(error)
  OBVIOUS
<1> HIDE DEF error, FailedOutcome
<1>a. past' \in [Messages -> SUBSET Ends] /\ error \in past'[batch[pos]]
  <2> HIDE DEF Refuse
  <2>1. error \in Ends /\ past \in [Messages -> SUBSET Ends]
    BY <1>r DEF Ends, TypeOK
  <2> QED
    BY <1>0, <1>p, <2>1
<1>b. outcome' \in InvocationOutcome
  <2> HIDE DEF Refuse
  <2>1. CASE entry = "sqs"
    BY <1>o, <2>1 DEF TypeOK
  <2>2. CASE entry # "sqs" /\ error = "eventError"
    <3>1. outcome' = [code |-> "eventError", retryable |-> FALSE, redeliver |-> FALSE]
      BY <1>o, <2>2, FailedFacts
    <3> QED
      BY <3>1 DEF InvocationOutcome, Ends
  <2>3. CASE entry # "sqs" /\ error = "validationError"
    <3>1. outcome' = [code |-> "validationError", retryable |-> TRUE, redeliver |-> FALSE]
      BY <1>o, <2>3, FailedFacts
    <3> QED
      BY <3>1 DEF InvocationOutcome, Ends
  <2> QED
    BY <1>r, <2>1, <2>2, <2>3
<1>c. /\ failures' \subseteq Messages /\ pos' \in Nat
      /\ step' \in {"decode", "resolve", "return"}
      /\ step' \in {"decode", "resolve"} => pos' \in DOMAIN batch
  BY <1>0, BatchFacts DEF TypeOK
<1>1. TypeOK'
  <2>1. UNCHANGED <<entry, callback, body, queue, receives, batch, tries, heard, excuse>>
    OBVIOUS
  <2>2. TypeOK
    OBVIOUS
  <2> HIDE DEF Refuse, IInv
  <2>3. step' \in {"idle", "decode", "execute", "report", "resolve", "return"}
    BY <1>c
  <2>4. step' \in {"decode", "execute", "report", "resolve"} => pos' \in DOMAIN batch'
    BY <1>c, <2>1
  <2>5. step' \in {"decode", "execute", "report", "resolve"} => pos' \in DOMAIN batch'
    BY <2>4
  <2>6. past' \in [Messages -> SUBSET Ends] /\ failures' \subseteq Messages /\ pos' \in Nat
    BY <1>a, <1>c
  <2>7. /\ entry' \in Entries /\ callback' \in BOOLEAN /\ body' \in [Messages -> Bodies]
        /\ queue' \in [Messages -> {"queued", "inflight", "deleted", "dead"}]
        /\ receives' \in [Messages -> 0 .. MaxReceive]
        /\ batch' \in Seq(Messages) /\ tries' \in 0 .. MaxAttempts
        /\ heard' \in [Messages -> SUBSET {"ack", "nack", "response"}]
        /\ excuse' \subseteq Messages
    BY <2>1, <2>2 DEF TypeOK
  <2> QED
    BY <1>b, <2>3, <2>5, <2>6, <2>7 DEF TypeOK
<1>2. BatchInv'
  <2>1. UNCHANGED <<entry, queue, batch>> /\ step = "decode"
    OBVIOUS
  <2>2. \/ /\ entry = "sqs" /\ failures' = failures \cup {batch[pos]} /\ pos' = pos + 1
           /\ step' = IF pos < Len(batch) THEN "decode" ELSE "return"
        \/ entry # "sqs" /\ step' = "resolve" /\ UNCHANGED <<failures, pos>>
    OBVIOUS
  <2>3. BatchInv /\ pos \in Nat /\ Len(batch) \in Nat /\ pos \in 1 .. Len(batch)
    BY <1>0, BatchFacts DEF TypeOK
  <2> HIDE DEF Refuse, IInv
  <2>4. step' # "idle" /\ Len(batch) >= 1
    BY <2>1, <2>2, <2>3 DEF BatchInv
  <2>5. step' = "return" => pos' = Len(batch) + 1
    BY <2>2, <2>3
  <2>6. ASSUME NEW i \in DOMAIN batch, batch[i] \in failures' PROVE i < pos'
    <3>1. i \in Nat
      BY BatchFacts, <2>3
    <3>2. batch[i] \in failures => i < pos
      BY <2>3 DEF BatchInv
    <3>3. batch[i] = batch[pos] => i = pos
      BY <1>0, <2>3 DEF BatchInv
    <3> QED
      BY <2>2, <2>3, <2>6, <3>1, <3>2, <3>3
  <2> QED
    BY <2>1, <2>3, <2>4, <2>5, <2>6 DEF BatchInv
<1>3. ReportInv'
  BY DEF ReportInv
<1>d. \A m \in Messages : told[m] \subseteq told'[m]
  BY <1>0 DEF told, Unheard, TypeOK
<1>f. /\ UNCHANGED <<entry, batch>> /\ failures \subseteq failures'
      /\ entry = "sqs" => /\ failures' = failures \cup {batch[pos]} /\ pos' = pos + 1
                         /\ step' \in {"decode", "return"}
  OBVIOUS
<1>e. ASSUME entry = "azure"
      PROVE  /\ outcome'.retryable \/ told'[batch[pos]] # {}
             /\ step' = "resolve" /\ pos' = pos
  <2>1. CASE error = "eventError"
    BY <1>0, <1>a, <1>e, <2>1 DEF told, Unheard
  <2>2. CASE error = "validationError"
    <3>1. outcome' = [code |-> "validationError", retryable |-> TRUE, redeliver |-> FALSE]
      BY <1>o, <1>e, <2>2, FailedFacts
    <3> QED
      BY <1>e, <3>1
  <2> QED
    BY <1>r, <1>e, <2>1, <2>2
<1>4. SettledInv'
  <2>1. pos' = pos \/ pos' = pos + 1
    BY DEF TypeOK
  <2>2. step' = "resolve" => pos' = pos /\ entry # "sqs"
    OBVIOUS
  <2>3. step' = "return" => entry = "sqs" /\ batch[pos] \in failures'
    OBVIOUS
  <2>4. pos' = pos + 1 => entry = "sqs"
    BY DEF TypeOK
  <2> HIDE DEF Refuse
  <2> QED
    BY <1>0, <1>c, <1>d, <1>e, <1>f, <2>1, <2>2, <2>3, <2>4, SettledStep
<1>5. ExcuseInv'
  <2> SUFFICES ASSUME NEW m \in Messages, "ack" \in heard[m], m \notin excuse,
                      queue[m] # "deleted"
               PROVE  Acknowledged(m)'
    BY DEF ExcuseInv
  <2>1. Acknowledged(m)
    BY DEF ExcuseInv
  <2>2. PICK i \in DOMAIN batch :
          /\ batch[i] = m /\ i < pos /\ m \notin failures
          /\ entry = "azure" => ~outcome.retryable
    BY <2>1 DEF Acknowledged
  <2>3. i < pos' /\ m \notin failures'
    BY <1>0, <2>2, BatchFacts DEF BatchInv, TypeOK
  <2>4. entry # "azure"
    <3>1. ASSUME entry = "azure" PROVE FALSE
      <4>1. Len(batch) <= 1 /\ pos \in 1 .. Len(batch) /\ i \in 1 .. Len(batch)
        BY <1>0, <3>1, BatchFacts DEF BatchInv
      <4> QED
        BY <2>2, <4>1, BatchFacts
    <3> QED
      BY <3>1
  <2> QED
    BY <2>2, <2>3, <2>4, <1>f DEF Acknowledged
<1> QED
  BY <1>1, <1>2, <1>3, <1>4, <1>5

LEMMA ExecuteIInv == ASSUME IInv, Execute PROVE IInv'
<1> USE DEF IInv, env, Execute, Current, FailedOutcome, Completed, HandlerEnds, Reports
<1>0. pos \in DOMAIN batch /\ batch[pos] \in Messages
  BY BatchFacts DEF TypeOK
<1>a. PICK end \in HandlerEnds :
        /\ past' = [past EXCEPT ![Current] = @ \cup {end}]
        /\ outcome' = [(IF end = "none" THEN Completed ELSE FailedOutcome(end))
                         EXCEPT !.redeliver = end # "none" /\ Reports /\ ~callback]
  OBVIOUS
<1>h. end \in {"none", "handlerNotFound", "resultError", "raised"}
  BY <1>a
<1>b. /\ outcome'.code = end
      /\ outcome'.retryable = (end = "raised")
      /\ outcome'.redeliver = (end # "none" /\ Reports /\ ~callback)
      /\ outcome' = [code |-> outcome'.code, retryable |-> outcome'.retryable,
                      redeliver |-> outcome'.redeliver]
  <2> HIDE DEF FailedOutcome, Execute
  <2> DEFINE again == end # "none" /\ Reports /\ ~callback
  <2>1. CASE end = "none"
    <3>1. outcome' = [Completed EXCEPT !.redeliver = again]
      BY <1>a, <2>1
    <3> QED
      BY <3>1, <2>1
  <2>2. CASE end \in {"handlerNotFound", "resultError"}
    <3>1. outcome' = [[code |-> end, retryable |-> FALSE, redeliver |-> FALSE]
                        EXCEPT !.redeliver = again]
      BY <1>a, <2>2, FailedFacts
    <3> QED
      BY <3>1, <2>2
  <2>3. CASE end = "raised"
    <3>1. outcome' = [[code |-> end, retryable |-> TRUE, redeliver |-> FALSE]
                        EXCEPT !.redeliver = again]
      BY <1>a, <2>3, FailedFacts
    <3> QED
      BY <3>1, <2>3
  <2> QED
    BY <1>h, <2>1, <2>2, <2>3
<1>c. outcome' \in InvocationOutcome
  BY <1>b DEF InvocationOutcome, Ends
<1>d. past' \in [Messages -> SUBSET Ends] /\ end \in past'[Current]
  BY <1>0, <1>a DEF TypeOK, Ends
<1>1. TypeOK'
  BY <1>0, <1>c, <1>d, ServerlessAssumption DEF TypeOK
<1>2. BatchInv'
  BY <1>0 DEF BatchInv
<1>g. /\ step' = IF Reports /\ callback THEN "report" ELSE "resolve"
      /\ tries' = 0 /\ UNCHANGED <<entry, callback>>
  OBVIOUS
<1>3. ReportInv'
  <2> HIDE DEF Execute
  <2> QED
    BY <1>b, <1>c, <1>g, ServerlessAssumption DEF ReportInv, InvocationOutcome
<1>e. \A m \in Messages : told[m] \subseteq told'[m]
  BY <1>0, <1>a DEF told, Unheard, TypeOK
<1>f. step' = "resolve" =>
        /\ entry = "sqs" => outcome'.redeliver \/ told'[batch[pos]] # {}
        /\ entry = "azure" => outcome'.retryable \/ told'[batch[pos]] # {}
  BY <1>0, <1>a, <1>b, <1>d DEF told, Unheard
<1>4. SettledInv'
  <2>1. /\ UNCHANGED <<entry, batch, pos, failures>>
        /\ step' \in {"report", "resolve"}
    OBVIOUS
  <2> HIDE DEF Execute
  <2> QED
    BY <1>0, <1>e, <1>f, <2>1, SettledStep DEF TypeOK
<1>5. ExcuseInv'
  BY <1>0, BatchFacts DEF ExcuseInv, Acknowledged, TypeOK, BatchInv
<1> QED
  BY <1>1, <1>2, <1>3, <1>4, <1>5

LEMMA ReportIInv == ASSUME IInv, Report PROVE IInv'
<1> USE DEF IInv, env, Current
<1>0. pos \in DOMAIN batch /\ batch[pos] \in Messages /\ step = "report"
  BY BatchFacts DEF TypeOK, Report
<1>1. PICK executed \in BOOLEAN, reply \in {"ok", "transient", "permanent"} :
        /\ reply = "ok" => executed
        /\ heard' = IF ~executed THEN heard
                    ELSE [heard EXCEPT ![Current] =
                            @ \cup {IF outcome.code = "none" THEN "ack" ELSE "nack"}]
        /\ excuse' = IF executed /\ reply # "ok" THEN excuse \cup {Current} ELSE excuse
        /\ tries' = tries + 1
        /\ CASE reply = "ok" -> step' = "resolve" /\ UNCHANGED outcome
             [] reply = "transient" /\ tries + 1 < MaxAttempts -> UNCHANGED <<step, outcome>>
             [] OTHER -> step' = "resolve" /\ outcome' = CallbackFailed
  BY DEF Report
<1>2. UNCHANGED <<entry, callback, body, queue, receives, batch, pos, failures, past>>
  BY DEF Report
<1>3. \/ reply = "ok" /\ step' = "resolve" /\ outcome' = outcome
      \/ /\ reply # "ok" /\ tries + 1 < MaxAttempts
         /\ step' = "report" /\ outcome' = outcome
      \/ reply # "ok" /\ step' = "resolve" /\ outcome' = CallbackFailed
  BY <1>0, <1>1
<1>4. TypeOK'
  <2>1. CallbackFailed \in InvocationOutcome
    BY DEF CallbackFailed, InvocationOutcome
  <2>2. outcome' \in InvocationOutcome
    BY <1>3, <2>1 DEF TypeOK
  <2>3. heard' \in [Messages -> SUBSET {"ack", "nack", "response"}]
    BY <1>0, <1>1 DEF TypeOK
  <2>4. tries' \in 0 .. MaxAttempts
    BY <1>0, <1>1, ServerlessAssumption DEF TypeOK, ReportInv
  <2>5. excuse' \subseteq Messages
    BY <1>0, <1>1 DEF TypeOK
  <2> QED
    BY <1>0, <1>2, <1>3, <2>2, <2>3, <2>4, <2>5 DEF TypeOK
<1>5. BatchInv'
  BY <1>0, <1>2, <1>3 DEF BatchInv
<1>6. ReportInv'
  BY <1>0, <1>1, <1>2, <1>3 DEF ReportInv, Reports
<1>7. SettledInv'
  <2>1. \A m \in Messages : told[m] \subseteq told'[m]
    BY <1>0, <1>1, <1>2 DEF told, Unheard, TypeOK
  <2>2. reply = "ok" => told'[batch[pos]] # {}
    BY <1>0, <1>1, <1>2 DEF told, TypeOK
  <2> QED
    BY <1>0, <1>2, <1>3, <2>1, <2>2, SettledStep DEF TypeOK, CallbackFailed
<1>8. ExcuseInv'
  <2> SUFFICES ASSUME NEW m \in Messages, "ack" \in heard'[m]
               PROVE  m \in excuse' \/ queue'[m] = "deleted" \/ Acknowledged(m)'
    BY DEF ExcuseInv
  <2>1. CASE "ack" \in heard[m]
    <3>1. m \in excuse => m \in excuse'
      BY <1>1
    <3>2. CASE Acknowledged(m)
      <4>1. PICK i \in DOMAIN batch :
              /\ batch[i] = m /\ i < pos /\ m \notin failures
              /\ entry = "azure" => ~outcome.retryable
        BY <1>0, <3>2 DEF Acknowledged
      <4>2. entry # "azure"
        BY <4>1, <1>0, BatchFacts DEF BatchInv, Entries, TypeOK
      <4> QED
        BY <4>1, <4>2, <1>2 DEF Acknowledged
    <3> QED
      BY <1>2, <2>1, <3>1, <3>2 DEF ExcuseInv
  <2>2. CASE "ack" \notin heard[m]
    <3>1. m = Current /\ outcome.code = "none" /\ executed
      BY <1>0, <1>1, <2>2 DEF TypeOK
    <3> QED
      BY <1>0, <1>1, <1>2, <1>3, <3>1, BatchFacts DEF ReportInv, Acknowledged, TypeOK
  <2> QED
    BY <2>1, <2>2
<1> QED
  BY <1>4, <1>5, <1>6, <1>7, <1>8

LEMMA ResolveIInv == ASSUME IInv, Resolve PROVE IInv'
<1> USE DEF IInv, env, Resolve, NextRecord, Current
<1>0. pos \in DOMAIN batch /\ batch[pos] \in Messages
  BY BatchFacts DEF TypeOK
<1>1. TypeOK'
  BY <1>0, BatchFacts DEF TypeOK
<1>2. BatchInv'
  BY <1>0, BatchFacts DEF BatchInv, TypeOK
<1>3. ReportInv'
  BY DEF ReportInv
<1>4. SettledInv'
  <2>1. /\ UNCHANGED <<entry, batch, outcome>> /\ step = "resolve"
        /\ pos' = pos + 1 /\ step' \in {"decode", "return"}
        /\ failures \subseteq failures'
        /\ outcome.redeliver => batch[pos] \in failures'
    OBVIOUS
  <2>2. told' = told
    BY DEF told, Unheard
  <2>3. entry = "sqs" => batch[pos] \in failures' \/ told[batch[pos]] # {}
    BY <2>1 DEF SettledInv
  <2> HIDE DEF Resolve
  <2> QED
    BY <1>0, <2>1, <2>2, <2>3, SettledStep
<1>5. ExcuseInv'
  <2> SUFFICES ASSUME NEW m \in Messages, "ack" \in heard[m], m \notin excuse,
                      queue[m] # "deleted"
               PROVE  Acknowledged(m)'
    BY DEF ExcuseInv
  <2>1. Acknowledged(m)
    BY DEF ExcuseInv
  <2>2. PICK i \in DOMAIN batch :
          /\ batch[i] = m
          /\ \/ i < pos /\ m \notin failures
             \/ i = pos /\ ~outcome.redeliver
          /\ entry = "azure" => ~outcome.retryable
    BY <2>1 DEF Acknowledged
  <2>3. i < pos' /\ m \notin failures'
    BY <1>0, <2>2, BatchFacts DEF BatchInv, TypeOK
  <2> QED
    BY <2>2, <2>3 DEF Acknowledged
<1> QED
  BY <1>1, <1>2, <1>3, <1>4, <1>5

LEMMA ReturnIInv == ASSUME IInv, Return PROVE IInv'
<1> USE DEF IInv, env, Return
<1>1. TypeOK'
  BY BatchFacts DEF TypeOK
<1>2. BatchInv' /\ ReportInv' /\ SettledInv'
  BY DEF BatchInv, ReportInv, SettledInv
<1>3. ExcuseInv'
  BY BatchFacts DEF ExcuseInv, Acknowledged, TypeOK, BatchInv, Range, Again, Entries
<1> QED
  BY <1>1, <1>2, <1>3

(* Every step of the function and of its platform keeps the invariant. *)
LEMMA StepIInv == IInv /\ [Next]_vars => IInv'
<1> SUFFICES ASSUME IInv, [Next]_vars PROVE IInv'
  OBVIOUS
<1>1. CASE UNCHANGED vars
  <2> USE <1>1 DEF IInv, vars
  <2>1. TypeOK' /\ BatchInv' /\ ReportInv'
    BY DEF TypeOK, BatchInv, ReportInv, Reports
  <2>2. SettledInv' /\ ExcuseInv'
    BY DEF SettledInv, ExcuseInv, Acknowledged, told, Unheard, Current
  <2> QED
    BY <2>1, <2>2
<1> QED
  BY <1>1, DeliverIInv, GiveUpIInv, KilledIInv, DecodeIInv, RefuseIInv, ExecuteIInv,
     ReportIInv, ResolveIInv, ReturnIInv DEF Next, Function

(* In every reachable state an acknowledged job has an excuse to be there, and  *)
(* what leaves the adapter was told of or is asked for again.                   *)
THEOREM AdapterInvariance == Spec => []IInv
  BY InitIInv, StepIInv, PTL DEF Spec

-----------------------------------------------------------------------------
(* Where each message is, as the contract sees it. *)
at == [m \in Messages |-> CASE queue[m] = "deleted" -> "settled"
                            [] queue[m] = "dead" -> "dead"
                            [] OTHER -> "pending"]

(* What a step does to one message: it stays where it is, is given up, or is    *)
(* settled with an outcome that was told.                                       *)
StaysPut(m) ==
    /\ at'[m] = at[m]
    /\ told[m] \subseteq told'[m]
    /\ at[m] # "pending" => told'[m] = told[m]
GivenUp(m) == at[m] = "pending" /\ at'[m] = "dead" /\ told'[m] = told[m]
Settles(m) ==
    /\ at[m] = "pending" /\ at'[m] = "settled"
    /\ told[m] \subseteq told'[m] /\ told'[m] # {}

(* That is a step of the contract. *)
LEMMA ContractNext ==
  ASSUME \A m \in Messages : StaysPut(m) \/ GivenUp(m) \/ Settles(m)
  PROVE  Contract!Next
  BY DEF Contract!Next, Contract!Message, StaysPut, GivenUp, Settles, at, told

(* Deleted messages and dead ones stay where they are, and so do the others     *)
(* unless they are deleted or given up.                                         *)
LEMMA AtFollowsQueue ==
  ASSUME NEW m \in Messages,
         queue'[m] = queue[m] \/ {queue[m], queue'[m]} \subseteq {"queued", "inflight"}
  PROVE  at'[m] = at[m]
  BY DEF at

(* While an invocation runs nothing of it is over yet. *)
LEMMA RecordStep ==
  ASSUME IInv, pos \in DOMAIN batch, queue' = queue,
         \A m \in Messages : told[m] \subseteq told'[m],
         \A m \in Messages \ {Current} : told'[m] = told[m]
  PROVE  \A m \in Messages : StaysPut(m)
<1> SUFFICES ASSUME NEW m \in Messages PROVE StaysPut(m)
  OBVIOUS
<1>1. at'[m] = at[m]
  BY AtFollowsQueue
<1>2. CASE m = Current
  <2>1. queue[m] = "inflight"
    BY <1>2 DEF IInv, BatchInv, Current
  <2>2. at[m] = "pending"
    BY <2>1 DEF at
  <2> QED
    BY <1>1, <2>2 DEF StaysPut
<1>3. CASE m # Current
  BY <1>1, <1>3 DEF StaysPut
<1> QED
  BY <1>2, <1>3

(* The adapter's return settles what it does not ask for again: every message   *)
(* of the batch was told of, at the latest by the answer itself.                *)
LEMMA ReturnSettles ==
  ASSUME IInv, Return PROVE \A m \in Messages : StaysPut(m) \/ Settles(m)
<1> USE DEF Return, IInv
<1> SUFFICES ASSUME NEW m \in Messages PROVE StaysPut(m) \/ Settles(m)
  OBVIOUS
<1>1. told[m] \subseteq told'[m]
  BY DEF told, Unheard, env, TypeOK
<1>2. CASE m \notin Range(batch)
  <2>1. queue'[m] = queue[m] /\ told'[m] = told[m]
    BY <1>2 DEF told, Unheard, env, TypeOK
  <2> QED
    BY <2>1, <1>1, AtFollowsQueue DEF StaysPut
<1>3. CASE m \in Range(batch) /\ m \in Again
  <2>1. queue[m] = "inflight" /\ queue'[m] = "queued"
    BY <1>3 DEF Range, BatchInv, TypeOK
  <2>2. at[m] = "pending" /\ at'[m] = at[m]
    BY <2>1, AtFollowsQueue DEF at
  <2> QED
    BY <2>2, <1>1 DEF StaysPut
<1>4. CASE m \in Range(batch) /\ m \notin Again
  <2>1. queue[m] = "inflight" /\ queue'[m] = "deleted"
    BY <1>4 DEF Range, BatchInv, TypeOK
  <2>2. at[m] = "pending" /\ at'[m] = "settled"
    BY <2>1 DEF at
  <2>3. PICK i \in DOMAIN batch : batch[i] = m
    BY <1>4 DEF Range
  <2>4. i < pos
    BY BatchFacts DEF BatchInv
  <2>5. CASE entry = "sqs"
    <3>1. m \notin failures
      BY <1>4, <2>5 DEF Again
    <3>2. told[m] # {}
      BY <2>3, <2>4, <2>5, <3>1 DEF SettledInv
    <3> QED
      BY <2>2, <1>1, <3>2 DEF Settles
  <2>6. CASE entry = "azure"
    <3>1. Len(batch) <= 1
      BY <2>6 DEF BatchInv
    <3>2. i = 1
      BY <3>1, <2>3, BatchFacts
    <3>3. ~outcome.retryable
      BY <1>4, <2>6 DEF Again
    <3>4. told[m] # {}
      BY <2>3, <2>6, <3>2, <3>3 DEF SettledInv
    <3> QED
      BY <2>2, <1>1, <3>4 DEF Settles
  <2>7. CASE Answers
    <3>1. "response" \in heard'[m]
      BY <1>4, <2>7 DEF TypeOK
    <3>2. "response" \in told'[m]
      BY <3>1 DEF told
    <3> QED
      BY <2>2, <1>1, <3>2 DEF Settles
  <2> QED
    BY <2>5, <2>6, <2>7 DEF TypeOK, Entries, Answers
<1> QED
  BY <1>2, <1>3, <1>4

(* Every step of the function and of its platform is one of the contract. *)
LEMMA ImplementsNext == IInv /\ [Next]_vars => Contract!Next
<1> SUFFICES ASSUME IInv, [Next]_vars
             PROVE  \A m \in Messages : StaysPut(m) \/ GivenUp(m) \/ Settles(m)
  BY ContractNext
<1> USE DEF env
<1>0. /\ queue \in [Messages -> {"queued", "inflight", "deleted", "dead"}]
      /\ heard \in [Messages -> SUBSET {"ack", "nack", "response"}]
      /\ past \in [Messages -> SUBSET Ends]
  BY DEF IInv, TypeOK
<1>1. CASE UNCHANGED vars
  BY <1>1 DEF vars, StaysPut, at, told, Unheard
<1>2. CASE Deliver
  <2>1. told' = told
    BY <1>2 DEF Deliver, told, Unheard
  <2>2. \A m \in Messages :
          queue'[m] = queue[m] \/ {queue[m], queue'[m]} \subseteq {"queued", "inflight"}
    BY <1>2, <1>0 DEF Deliver, Range
  <2> QED
    BY <2>1, <2>2, AtFollowsQueue DEF StaysPut
<1>3. ASSUME NEW g \in Messages, GiveUp(g)
      PROVE  \A m \in Messages : StaysPut(m) \/ GivenUp(m)
  <2>1. told' = told
    BY <1>3 DEF GiveUp, told, Unheard
  <2>2. at[g] = "pending" /\ at'[g] = "dead"
    BY <1>3, <1>0 DEF GiveUp, at
  <2>3. \A m \in Messages \ {g} : queue'[m] = queue[m]
    BY <1>3, <1>0 DEF GiveUp
  <2> QED
    BY <2>1, <2>2, <2>3, AtFollowsQueue DEF StaysPut, GivenUp
<1>4. CASE Killed
  <2>1. told' = told
    BY <1>4 DEF Killed, told, Unheard
  <2>2. \A m \in Messages :
          queue'[m] = queue[m] \/ {queue[m], queue'[m]} \subseteq {"queued", "inflight"}
    BY <1>4, <1>0 DEF Killed, Range, IInv, BatchInv
  <2> QED
    BY <2>1, <2>2, AtFollowsQueue DEF StaysPut
<1>5. CASE Decode \/ Resolve
  <2>1. told' = told /\ queue' = queue /\ pos \in DOMAIN batch
    BY <1>5 DEF Decode, Resolve, told, Unheard, IInv, TypeOK
  <2> QED
    BY <2>1, RecordStep
<1>6. CASE Refuse \/ Execute
  <2>0. queue' = queue /\ pos \in DOMAIN batch /\ batch[pos] \in Messages
    BY <1>6, BatchFacts DEF Refuse, Execute, IInv, TypeOK
  <2>1. PICK end : past' = [past EXCEPT ![Current] = @ \cup {end}]
    BY <1>6 DEF Refuse, Execute
  <2>2. /\ \A m \in Messages : told[m] \subseteq told'[m]
        /\ \A m \in Messages \ {Current} : told'[m] = told[m]
    BY <1>6, <1>0, <2>0, <2>1 DEF Refuse, Execute, told, Unheard, Current
  <2> QED
    BY <2>0, <2>2, RecordStep
<1>7. CASE Report
  <2>0. /\ queue' = queue /\ pos \in DOMAIN batch /\ batch[pos] \in Messages
        /\ UNCHANGED <<entry, callback, past>>
    BY <1>7, BatchFacts DEF Report, IInv, TypeOK
  <2>1. \/ heard' = heard
        \/ \E what : heard' = [heard EXCEPT ![Current] = @ \cup {what}]
    BY <1>7 DEF Report
  <2>2. /\ \A m \in Messages : told[m] \subseteq told'[m]
        /\ \A m \in Messages \ {Current} : told'[m] = told[m]
    BY <1>0, <2>0, <2>1 DEF told, Unheard, Current
  <2> QED
    BY <2>0, <2>2, RecordStep
<1>8. CASE Return
  BY <1>8, ReturnSettles
<1> QED
  BY <1>1, <1>2, <1>3, <1>4, <1>5, <1>6, <1>7, <1>8 DEF Next, Function

(* The adapters implement the delivery contract: a message leaves the queue for *)
(* good only when somebody was told what became of its job or the platform gave *)
(* it up, whatever fails and whenever the function is killed.                   *)
THEOREM AdaptersImplementDelivery == Spec => ImplementsDelivery
<1>1. Init => Contract!Init
  BY DEF Init, Contract!Init
<1>2. IInv /\ [Next]_vars => [Contract!Next]_(Contract!vars)
  BY ImplementsNext
<1> QED
  BY <1>1, <1>2, AdapterInvariance, PTL DEF Spec, ImplementsDelivery, Contract!Spec

(* A job that was acknowledged is not run again because of another message of   *)
(* its batch: only if its own delivery was cut short or its report's answer lost. *)
THEOREM RerunsAreJustified == Spec => RerunJustified
<1>1. IInv => TypeOK
  BY DEF IInv
<1>2. IInv /\ [Next]_vars =>
        [\A m \in Messages :
            ("ack" \in heard[m] /\ receives'[m] # receives[m]) => m \in excuse]_vars
  <2> SUFFICES ASSUME IInv, Next, NEW m \in Messages,
                      "ack" \in heard[m], receives'[m] # receives[m]
               PROVE  m \in excuse
    OBVIOUS
  <2>1. Deliver
    BY DEF Next, Function, GiveUp, Killed, Decode, Refuse, Execute, Report, Resolve, Return
  <2>2. queue[m] = "queued" /\ batch = <<>>
    BY <2>1 DEF Deliver, Range, IInv, TypeOK, BatchInv
  <2>3. ~Acknowledged(m)
    BY <2>2 DEF Acknowledged
  <2> QED
    BY <2>2, <2>3 DEF IInv, ExcuseInv
<1> QED
  BY <1>1, <1>2, AdapterInvariance, PTL DEF Spec, RerunJustified

-----------------------------------------------------------------------------
(* What the adapter holds that was found to be poison is on its way to being    *)
(* completed: the outcome of its invocation asks for nothing again.             *)
Discarded(m) ==
    /\ step \in {"resolve", "return"} /\ ~outcome.retryable
    /\ \E i \in DOMAIN batch : batch[i] = m

(* Poison that is still in the queue has an excuse, for the queue trigger; what *)
(* is executed is a job event, and what is reported of a type without handler   *)
(* is a final failure.                                                          *)
PoisonInv ==
    /\ step \in {"execute", "report"} => body[Current] \in {"valid", "noHandler"}
    /\ step = "report" /\ body[Current] = "noHandler" =>
         outcome.code # "none" /\ ~outcome.retryable
    /\ entry = "azure" => \A m \in Messages : Poison(m) =>
         m \in excuse \/ queue[m] \in {"deleted", "dead"} \/ Discarded(m)

(* A queue trigger's invocation has one message. *)
LEMMA OneMessage ==
  ASSUME IInv, entry = "azure", NEW i \in DOMAIN batch
  PROVE  i = 1 /\ Len(batch) = 1
  BY BatchFacts DEF IInv, BatchInv

LEMMA PoisonStep == IInv /\ PoisonInv /\ [Next]_vars => PoisonInv'
<1> SUFFICES ASSUME IInv, PoisonInv, [Next]_vars PROVE PoisonInv'
  OBVIOUS
<1> USE DEF env
<1>0. /\ TypeOK /\ BatchInv /\ DOMAIN batch = 1 .. Len(batch) /\ Len(batch) \in Nat
      /\ \A i \in DOMAIN batch : batch[i] \in Messages
      /\ step \in {"decode", "execute", "report", "resolve"} => pos \in DOMAIN batch
  BY BatchFacts DEF IInv, TypeOK
<1>1. CASE UNCHANGED vars
  BY <1>1 DEF vars, PoisonInv, Poison, Discarded, Current
<1>2. CASE Deliver
  <2>1. /\ step = "idle" /\ step' = "decode"
        /\ UNCHANGED <<entry, callback, body, heard, past, excuse>>
        /\ \A m \in Messages : queue[m] \in {"deleted", "dead"} => queue'[m] = queue[m]
    BY <1>0, <1>2 DEF Deliver, TypeOK, Range
  <2> QED
    BY <1>0, <2>1 DEF PoisonInv, Poison, Discarded
<1>3. ASSUME NEW g \in Messages, GiveUp(g) PROVE PoisonInv'
  <2>1. /\ UNCHANGED <<entry, callback, body, batch, pos, step, outcome, heard, past, excuse>>
        /\ \A m \in Messages : queue[m] \in {"deleted", "dead"} => queue'[m] \in {"deleted", "dead"}
    BY <1>0, <1>3 DEF GiveUp, TypeOK
  <2> QED
    BY <2>1 DEF PoisonInv, Poison, Discarded, Current
<1>4. CASE Killed
  <2>1. /\ step' = "idle" /\ UNCHANGED <<entry, callback, body, heard, past>>
        /\ excuse' = excuse \cup Range(batch)
        /\ \A m \in Messages : m \notin Range(batch) => queue'[m] = queue[m]
    BY <1>0, <1>4 DEF Killed, TypeOK
  <2>2. \A m \in Messages : Discarded(m) => m \in Range(batch)
    BY DEF Discarded, Range
  <2> QED
    BY <1>0, <2>1, <2>2 DEF PoisonInv, Poison
<1>5. CASE Decode
  <2>1. /\ step = "decode" /\ step' = "execute" /\ body[Current] \in {"valid", "noHandler"}
        /\ UNCHANGED <<entry, callback, body, queue, batch, pos, outcome, heard, past, excuse>>
    BY <1>0, <1>5 DEF Decode, TypeOK, Bodies, Current
  <2> QED
    BY <2>1 DEF PoisonInv, Poison, Discarded, Current
<1>6. CASE Refuse
  <2>1. /\ step = "decode" /\ step' \in {"decode", "return", "resolve"}
        /\ UNCHANGED <<entry, callback, body, queue, batch, heard, excuse>>
        /\ \A m \in Messages \ {Current} : past'[m] = past[m]
        /\ Current \in Messages /\ Current = batch[pos]
    BY <1>0, <1>6 DEF Refuse, NextRecord, TypeOK, Current
  <2>2. entry = "azure" /\ body[Current] = "malformed" =>
          step' = "resolve" /\ ~outcome'.retryable
    <3> SUFFICES ASSUME entry = "azure", body[Current] = "malformed"
                 PROVE  step' = "resolve" /\ ~outcome'.retryable
      OBVIOUS
    <3>1. step' = "resolve" /\ outcome' = FailedOutcome("eventError")
      BY <1>6 DEF Refuse, EventErrors
    <3> QED
      BY <3>1, FailedFacts
  <2>3. body[Current] = "noHandler" => FALSE
    BY <1>6 DEF Refuse, EventErrors
  <2>4. ASSUME NEW m \in Messages, entry = "azure", Poison(m)'
        PROVE  m \in excuse \/ queue[m] \in {"deleted", "dead"} \/ Discarded(m)'
    <3>1. CASE m = Current
      BY <1>0, <2>1, <2>2, <2>3, <2>4, <3>1 DEF Poison, Discarded
    <3>2. CASE m # Current
      <4>1. Poison(m) /\ ~Discarded(m)
        BY <2>1, <2>4, <3>2 DEF Poison, Discarded
      <4> QED
        BY <2>4, <4>1 DEF PoisonInv
    <3> QED
      BY <3>1, <3>2
  <2> QED
    BY <2>1, <2>4 DEF PoisonInv
<1>7. CASE Execute
  <2>0. PICK end \in HandlerEnds :
          /\ past' = [past EXCEPT ![Current] = @ \cup {end}]
          /\ outcome' = [(IF end = "none" THEN Completed ELSE FailedOutcome(end))
                           EXCEPT !.redeliver = end # "none" /\ Reports /\ ~callback]
    BY <1>7 DEF Execute
  <2>1. /\ step = "execute" /\ step' = IF Reports /\ callback THEN "report" ELSE "resolve"
        /\ UNCHANGED <<entry, callback, body, queue, batch, pos, heard, excuse>>
        /\ \A m \in Messages \ {Current} : past'[m] = past[m]
        /\ Current \in Messages /\ Current = batch[pos] /\ Current' = Current
        /\ body[Current] \in {"valid", "noHandler"}
    BY <1>0, <1>7, <2>0 DEF Execute, TypeOK, Current, PoisonInv
  <2>2. body[Current] = "noHandler" => outcome'.code # "none" /\ ~outcome'.retryable
    <3> DEFINE again == end # "none" /\ Reports /\ ~callback
    <3> SUFFICES ASSUME body[Current] = "noHandler"
                 PROVE  outcome'.code # "none" /\ ~outcome'.retryable
      OBVIOUS
    <3>1. end = "handlerNotFound"
      BY <2>0 DEF HandlerEnds
    <3>2. outcome' = [FailedOutcome("handlerNotFound") EXCEPT !.redeliver = again]
      BY <2>0, <3>1
    <3> HIDE DEF again
    <3> QED
      BY <3>2, FailedFacts
  <2>3. entry = "azure" => (Reports <=> TRUE)
    BY DEF Reports
  <2>4. ASSUME NEW m \in Messages, entry = "azure", Poison(m)'
        PROVE  m \in excuse \/ queue[m] \in {"deleted", "dead"} \/ Discarded(m)'
    <3>1. CASE Poison(m)
      BY <2>1, <2>4, <3>1 DEF PoisonInv, Discarded
    <3>2. CASE ~Poison(m)
      <4>1. m = Current /\ body[m] = "noHandler" /\ ~callback
        BY <2>1, <2>4, <3>2 DEF Poison
      <4> QED
        BY <1>0, <2>1, <2>2, <2>3, <2>4, <4>1 DEF Discarded
    <3> QED
      BY <3>1, <3>2
  <2> QED
    BY <2>1, <2>2, <2>4 DEF PoisonInv
<1>8. CASE Report
  <2>0. PICK executed \in BOOLEAN, reply \in {"ok", "transient", "permanent"} :
          /\ heard' = IF ~executed THEN heard
                      ELSE [heard EXCEPT ![Current] =
                              @ \cup {IF outcome.code = "none" THEN "ack" ELSE "nack"}]
          /\ excuse' = IF executed /\ reply # "ok" THEN excuse \cup {Current} ELSE excuse
          /\ CASE reply = "ok" -> step' = "resolve" /\ UNCHANGED outcome
               [] reply = "transient" /\ tries + 1 < MaxAttempts -> UNCHANGED <<step, outcome>>
               [] OTHER -> step' = "resolve" /\ outcome' = CallbackFailed
    BY <1>8 DEF Report
  <2>1. /\ step = "report" /\ UNCHANGED <<entry, callback, body, queue, batch, pos, past>>
        /\ Current \in Messages /\ Current = batch[pos] /\ Current' = Current
        /\ body[Current] \in {"valid", "noHandler"}
        /\ body[Current] = "noHandler" => outcome.code # "none" /\ ~outcome.retryable
    BY <1>0, <1>8 DEF Report, Current, PoisonInv
  <2>2. \/ reply = "ok" /\ step' = "resolve" /\ outcome' = outcome
        \/ reply # "ok" /\ step' = "report" /\ outcome' = outcome
        \/ reply # "ok" /\ step' = "resolve"
    BY <2>0, <2>1
  <2>3. ASSUME NEW m \in Messages, entry = "azure", Poison(m)'
        PROVE  m \in excuse' \/ queue[m] \in {"deleted", "dead"} \/ Discarded(m)'
    <3>1. CASE Poison(m)
      BY <2>0, <2>1, <2>3, <3>1 DEF PoisonInv, Discarded
    <3>2. CASE ~Poison(m)
      <4>1. m = Current /\ body[m] = "noHandler" /\ executed
        BY <1>0, <2>0, <2>1, <2>3, <3>2 DEF Poison, TypeOK
      <4>2. CASE reply = "ok"
        BY <1>0, <2>1, <2>2, <4>1, <4>2 DEF Discarded
      <4>3. CASE reply # "ok"
        BY <2>0, <4>1, <4>3
      <4> QED
        BY <4>2, <4>3
    <3> QED
      BY <3>1, <3>2
  <2> QED
    BY <2>1, <2>2, <2>3 DEF PoisonInv
<1>9. CASE Resolve
  <2>1. /\ step = "resolve" /\ step' \in {"decode", "return"}
        /\ (step' = "decode" <=> pos < Len(batch))
        /\ UNCHANGED <<entry, callback, body, queue, batch, outcome, heard, past, excuse>>
    BY <1>9 DEF Resolve, NextRecord
  <2>2. entry = "azure" => step' = "return"
    BY <1>0, <2>1, OneMessage
  <2> QED
    BY <2>1, <2>2 DEF PoisonInv, Poison, Discarded
<1>10. CASE Return
  <2>1. /\ step = "return" /\ step' = "idle"
        /\ UNCHANGED <<entry, callback, body, outcome, past, excuse>>
        /\ queue' = [m \in Messages |->
                       IF m \notin Range(batch) THEN queue[m]
                       ELSE IF m \in Again THEN "queued" ELSE "deleted"]
        /\ entry = "azure" => heard' = heard
    BY <1>10 DEF Return, Answers
  <2>2. ASSUME NEW m \in Messages, entry = "azure", Poison(m)'
        PROVE  m \in excuse \/ queue'[m] \in {"deleted", "dead"}
    <3>1. Poison(m)
      BY <2>1, <2>2 DEF Poison
    <3>2. CASE Discarded(m)
      <4>1. m \in Range(batch) /\ Again = {}
        BY <2>2, <3>2 DEF Discarded, Range, Again
      <4> QED
        BY <2>1, <4>1
    <3>3. CASE queue[m] \in {"deleted", "dead"}
      <4>1. m \notin Range(batch)
        BY <1>0, <3>3 DEF BatchInv, Range
      <4> QED
        BY <2>1, <3>3, <4>1
    <3> QED
      BY <2>2, <3>1, <3>2, <3>3 DEF PoisonInv
  <2> QED
    BY <2>1, <2>2 DEF PoisonInv
<1> QED
  BY <1>1, <1>2, <1>3, <1>4, <1>5, <1>6, <1>7, <1>8, <1>9, <1>10 DEF Next, Function

(* A message that was found to be poison is delivered to the queue trigger      *)
(* again only if its delivery was cut short or an answer was lost               *)
(* (_resolve_queue_trigger_outcome, failed_outcome).                            *)
THEOREM PoisonDoesNotCirculate == Spec => PoisonNotAgain
<1>1. Init => PoisonInv
  BY DEF Init, PoisonInv, Poison
<1>2. Spec => []PoisonInv
  BY <1>1, PoisonStep, AdapterInvariance, PTL DEF Spec
<1>3. IInv /\ PoisonInv /\ [Next]_vars =>
        [\A m \in Messages :
           entry = "azure" /\ Poison(m) /\ DeliveredAgain(m) => m \in excuse]_vars
  <2> SUFFICES ASSUME IInv, PoisonInv, Next, NEW m \in Messages,
                      entry = "azure", Poison(m), receives'[m] # receives[m]
               PROVE  m \in excuse
    BY DEF DeliveredAgain
  <2>1. Deliver
    BY DEF Next, Function, GiveUp, Killed, Decode, Refuse, Execute, Report, Resolve, Return
  <2>2. queue[m] = "queued" /\ step = "idle"
    BY <2>1 DEF Deliver, Range, IInv, TypeOK
  <2> QED
    BY <2>2 DEF PoisonInv, Discarded
<1> QED
  BY <1>2, <1>3, AdapterInvariance, PTL DEF Spec, PoisonNotAgain
=============================================================================
