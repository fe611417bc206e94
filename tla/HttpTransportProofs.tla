------------------------ MODULE HttpTransportProofs ------------------------
(* What HttpTransport promises for every retry configuration. *)
EXTENDS HttpTransport, FiniteSetTheorems, TLAPS

\* Initially nothing has been sent.
LEMMA InitIInv == Init => IInv
  BY HttpAssumption DEF Init, IInv, Types, Accounted, Waiting, OnTheWay, Ok, TooMany

\* The account of an operation depends on nothing else: a step that leaves all
\* but o alone has to keep o's.
LEMMA OthersKept ==
  ASSUME IInv, NEW o \in Ops, Types', Accounted(o)',
         \A p \in Ops \ {o} :
            /\ state'[p] = state[p] /\ attempt'[p] = attempt[p] /\ reply'[p] = reply[p]
            /\ request'[p] = request[p] /\ stray'[p] = stray[p]
            /\ executed'[p] = executed[p]
  PROVE  IInv'
<1>1. ASSUME NEW p \in Ops \ {o} PROVE Accounted(p)'
  <2>1. Accounted(p)
    BY DEF IInv
  <2> QED
    BY <2>1, <1>1 DEF Accounted, Waiting, OnTheWay, Safety
<1> QED
  BY <1>1 DEF IInv

\* Every step of one operation keeps its account, and does not touch others'.
LEMMA NextIInv == IInv /\ [Next]_vars => IInv'
<1> SUFFICES ASSUME IInv, [Next]_vars PROVE IInv'
  OBVIOUS
<1> USE HttpAssumption DEF Types, Ok, Foreign, ClientError, ServerError, Transient, TooMany
<1>0. Types /\ \A o \in Ops : Accounted(o)
  BY DEF IInv
<1>1. CASE UNCHANGED vars
  BY <1>1 DEF IInv, Accounted, Waiting, OnTheWay, Safety, vars, client, network
<1>2. ASSUME NEW o \in Ops, Send(o) PROVE IInv'
  <2>1. Types'
    BY <1>2, <1>0 DEF Send
  <2>2. Accounted(o)'
    BY <1>2, <1>0 DEF Send, Accounted, Waiting, OnTheWay, Safety
  <2>3. \A p \in Ops \ {o} :
           /\ state'[p] = state[p] /\ attempt'[p] = attempt[p] /\ reply'[p] = reply[p]
           /\ request'[p] = request[p] /\ stray'[p] = stray[p]
           /\ executed'[p] = executed[p]
    BY <1>2, <1>0 DEF Send
  <2> HIDE DEF Types
  <2> QED
    BY <2>1, <2>2, <2>3, OthersKept
<1>3. ASSUME NEW o \in Ops, RetryReply(o) PROVE IInv'
  <2>1. Types'
    BY <1>3, <1>0 DEF RetryReply, Retry
  <2>2. Accounted(o)'
    BY <1>3, <1>0 DEF RetryReply, Retry, Accounted, Waiting, OnTheWay, Safety
  <2>3. \A p \in Ops \ {o} :
           /\ state'[p] = state[p] /\ attempt'[p] = attempt[p] /\ reply'[p] = reply[p]
           /\ request'[p] = request[p] /\ stray'[p] = stray[p]
           /\ executed'[p] = executed[p]
    BY <1>3, <1>0 DEF RetryReply, Retry
  <2> HIDE DEF Types
  <2> QED
    BY <2>1, <2>2, <2>3, OthersKept
<1>4. ASSUME NEW o \in Ops, FinalReply(o) PROVE IInv'
  <2>1. Types'
    BY <1>4, <1>0 DEF FinalReply, Outcomes
  <2>2. Accounted(o)'
    BY <1>4, <1>0 DEF FinalReply, Outcomes, Accounted, Waiting, OnTheWay, Safety
  <2>3. \A p \in Ops \ {o} :
           /\ state'[p] = state[p] /\ attempt'[p] = attempt[p] /\ reply'[p] = reply[p]
           /\ request'[p] = request[p] /\ stray'[p] = stray[p]
           /\ executed'[p] = executed[p]
    BY <1>4, <1>0 DEF FinalReply, Outcomes
  <2> HIDE DEF Types
  <2> QED
    BY <2>1, <2>2, <2>3, OthersKept
<1>5. ASSUME NEW o \in Ops, ConnectionFails(o) PROVE IInv'
  <2>1. Types'
    BY <1>5, <1>0 DEF ConnectionFails, Astray
  <2>2. Accounted(o)'
    BY <1>5, <1>0 DEF ConnectionFails, Astray, Accounted, Waiting, OnTheWay, Safety
  <2>3. \A p \in Ops \ {o} :
           /\ state'[p] = state[p] /\ attempt'[p] = attempt[p] /\ reply'[p] = reply[p]
           /\ request'[p] = request[p] /\ stray'[p] = stray[p]
           /\ executed'[p] = executed[p]
    BY <1>5, <1>0 DEF ConnectionFails, Astray
  <2> HIDE DEF Types
  <2> QED
    BY <2>1, <2>2, <2>3, OthersKept
<1>6. ASSUME NEW o \in Ops, Cancelled(o) PROVE IInv'
  <2>1. Types'
    BY <1>6, <1>0 DEF Cancelled, Astray
  <2>2. Accounted(o)'
    BY <1>6, <1>0 DEF Cancelled, Astray, Accounted, Waiting, OnTheWay, Safety
  <2>3. \A p \in Ops \ {o} :
           /\ state'[p] = state[p] /\ attempt'[p] = attempt[p] /\ reply'[p] = reply[p]
           /\ request'[p] = request[p] /\ stray'[p] = stray[p]
           /\ executed'[p] = executed[p]
    BY <1>6, <1>0 DEF Cancelled, Astray
  <2> HIDE DEF Types
  <2> QED
    BY <2>1, <2>2, <2>3, OthersKept
<1>7. ASSUME NEW o \in Ops, Served(o) PROVE IInv'
  <2>1. Types'
    BY <1>7, <1>0 DEF Served, Execute, Reply, client
  <2>2. Accounted(o)'
    BY <1>7, <1>0 DEF Served, Execute, Reply, client, Accounted, Waiting, OnTheWay, Safety
  <2>3. PICK status : Reply(o, status)
    BY <1>7 DEF Served
  <2>4. \A p \in Ops \ {o} : reply'[p] = reply[p]
    BY <2>3, <1>0 DEF Reply
  <2>5. \A p \in Ops \ {o} :
           /\ state'[p] = state[p] /\ attempt'[p] = attempt[p] /\ request'[p] = request[p]
           /\ stray'[p] = stray[p] /\ executed'[p] = executed[p]
    BY <1>7, <1>0 DEF Served, Execute, client
  <2> HIDE DEF Types
  <2> QED
    BY <2>1, <2>2, <2>4, <2>5, OthersKept
<1>8. ASSUME NEW o \in Ops, Denied(o) PROVE IInv'
  <2>1. Types'
    BY <1>8, <1>0 DEF Denied, Reply, client
  <2>2. Accounted(o)'
    BY <1>8, <1>0 DEF Denied, Reply, client, Accounted, Waiting, OnTheWay, Safety
  <2>3. PICK status : Reply(o, status)
    BY <1>8 DEF Denied
  <2>4. \A p \in Ops \ {o} : reply'[p] = reply[p]
    BY <2>3, <1>0 DEF Reply
  <2>5. \A p \in Ops \ {o} :
           /\ state'[p] = state[p] /\ attempt'[p] = attempt[p] /\ request'[p] = request[p]
           /\ stray'[p] = stray[p] /\ executed'[p] = executed[p]
    BY <1>8, <1>0 DEF Denied, client
  <2> HIDE DEF Types
  <2> QED
    BY <2>1, <2>2, <2>4, <2>5, OthersKept
<1>11. ASSUME NEW o \in Ops, Intercepted(o) PROVE IInv'
  <2>1. Types'
    BY <1>11, <1>0 DEF Intercepted, Reply, client
  <2>2. Accounted(o)'
    BY <1>11, <1>0 DEF Intercepted, Reply, client, Accounted, Waiting, OnTheWay, Safety
  <2>3. \A p \in Ops \ {o} :
           /\ state'[p] = state[p] /\ attempt'[p] = attempt[p] /\ reply'[p] = reply[p]
           /\ request'[p] = request[p] /\ stray'[p] = stray[p]
           /\ executed'[p] = executed[p]
    BY <1>11, <1>0 DEF Intercepted, Reply, client
  <2> HIDE DEF Types
  <2> QED
    BY <2>1, <2>2, <2>3, OthersKept
<1>9. ASSUME NEW o \in Ops, GatewayFails(o) PROVE IInv'
  <2>1. Types'
    BY <1>9, <1>0 DEF GatewayFails, Astray, Reply, client
  <2>2. Accounted(o)'
    BY <1>9, <1>0 DEF GatewayFails, Astray, Reply, client, Accounted, Waiting, OnTheWay, Safety
  <2>3. \A p \in Ops \ {o} :
           /\ state'[p] = state[p] /\ attempt'[p] = attempt[p] /\ reply'[p] = reply[p]
           /\ request'[p] = request[p] /\ stray'[p] = stray[p]
           /\ executed'[p] = executed[p]
    BY <1>9, <1>0 DEF GatewayFails, Astray, Reply, client
  <2> HIDE DEF Types
  <2> QED
    BY <2>1, <2>2, <2>3, OthersKept
<1>10. ASSUME NEW o \in Ops, StrayArrives(o) PROVE IInv'
  <2>1. Types'
    BY <1>10, <1>0 DEF StrayArrives, Execute, client
  <2>2. Accounted(o)'
    BY <1>10, <1>0 DEF StrayArrives, Execute, client, Accounted, Waiting, OnTheWay, Safety
  <2>3. \A p \in Ops \ {o} :
           /\ state'[p] = state[p] /\ attempt'[p] = attempt[p] /\ reply'[p] = reply[p]
           /\ request'[p] = request[p] /\ stray'[p] = stray[p]
           /\ executed'[p] = executed[p]
    BY <1>10, <1>0 DEF StrayArrives, Execute, client
  <2> HIDE DEF Types
  <2> QED
    BY <2>1, <2>2, <2>3, OthersKept
<1> QED
  BY <1>1, <1>2, <1>3, <1>4, <1>5, <1>6, <1>7, <1>8, <1>9, <1>10, <1>11
  DEF Next, ClientStep

\* The account of every operation is kept in every reachable state.
THEOREM Accounts == Spec => []IInv
  BY InitIInv, NextIInv, PTL DEF Spec

\* Types, and never more than max_retries retries.
THEOREM HttpTypes == Spec => []TypeOK
<1>1. IInv => TypeOK
  BY HttpAssumption DEF IInv, Types, Accounted, TypeOK, OnTheWay, Waiting
<1> QED
  BY <1>1, Accounts, PTL

\* Whatever is not safe to repeat happens at most once.
THEOREM UnsafeAtMostOnce == Spec => []AtMostOnce
<1>1. IInv => AtMostOnce
  BY DEF IInv, Accounted, AtMostOnce
<1> QED
  BY <1>1, Accounts, PTL

\* What returned a job was executed, although proxies may answer in the backend's
\* place (transport.py 183-221).
THEOREM ReturnedJobWasExecuted == Spec => []JobMeansExecuted
<1>1. IInv => JobMeansExecuted
  BY HttpAssumption DEF IInv, Accounted, JobMeansExecuted
<1> QED
  BY <1>1, Accounts, PTL

\* What a caller is told agrees with what the backend has executed
\* (transport.py, _do_request; retry_policy.py, retry_reason).
THEOREM ExecutionsAreAccounted == Spec => []ExecutionsAccounted
<1>1. AtMostOnce /\ JobMeansExecuted => ExecutionsAccounted
  BY DEF ExecutionsAccounted
<1> QED
  BY <1>1, UnsafeAtMostOnce, ReturnedJobWasExecuted, PTL

\* Exponential backoff is a number: the subsets of n things are 2^n.
LEMMA PowersAreNumbers == ASSUME NEW n \in Nat PROVE 2^n \in Nat
<1>1. n \in Int /\ 1 \in Int /\ (IF 1 > n THEN 0 ELSE n - 1 + 1) = n
  OBVIOUS
<1>2. IsFiniteSet(1..n) /\ Cardinality(1..n) = n
  BY <1>1, FS_Interval
<1>3. IsFiniteSet(SUBSET (1..n)) /\ Cardinality(SUBSET (1..n)) = 2^Cardinality(1..n)
  BY <1>2, FS_SUBSET
<1>4. Cardinality(SUBSET (1..n)) \in Nat
  BY <1>3, FS_CardinalityType
<1> QED
  BY <1>2, <1>3, <1>4

\* Any backoff is within max_backoff, and is the server's wish where that is too.
LEMMA BackoffsAreBounded ==
  ASSUME NEW o \in Ops, attempt[o] \in Nat, NEW after \in Nat, NEW d \in Backoffs(o, after)
  PROVE  d \in 0..MaxBackoff /\ (after <= MaxBackoff => d >= after)
<1> DEFINE wish == MinBackoff * 2^attempt[o]
           base == Least(wish, MaxBackoff)
<1>1. MaxBackoff \in Nat /\ MinBackoff \in Nat
  BY HttpAssumption
<1>2. wish \in Nat
  <2>1. \A m, k \in Nat : m * k \in Nat
    OBVIOUS
  <2> QED
    BY <1>1, <2>1, PowersAreNumbers
<1>3. d \in IF after > 0 THEN {Least(after, MaxBackoff)} ELSE (base \div 2)..base
  BY DEF Backoffs
<1> HIDE DEF wish
<1>4. base \in Nat /\ base <= MaxBackoff
  BY <1>1, <1>2 DEF Least
<1> HIDE DEF base
<1>5. CASE after > 0
  BY <1>1, <1>3, <1>5 DEF Least
<1>6. CASE after = 0
  <2>1. d \in (base \div 2)..base /\ base \div 2 \in Nat
    BY <1>3, <1>4, <1>6
  <2> QED
    BY <1>1, <1>4, <1>6, <2>1
<1> QED
  BY <1>5, <1>6

\* What an operation waits is always a backoff.
DelayTypes == delay \in [Ops -> 0..MaxBackoff]

LEMMA TypesOf ==
  ASSUME IInv, NEW o \in Ops
  PROVE  attempt[o] \in Nat /\ asked[o] \in Nat
<1>1. attempt \in [Ops -> 0..MaxRetries] /\ asked \in [Ops -> RetryAfters \cup {0}]
  BY DEF IInv, Types
<1>2. 0..MaxRetries \subseteq Nat /\ RetryAfters \cup {0} \subseteq Nat
  BY HttpAssumption
<1> QED
  BY <1>1, <1>2

\* Only a reply that is worth another attempt sets a delay.
LEMMA DelaysAreBackoffs ==
  ASSUME IInv, DelayTypes, [Next]_vars
  PROVE  \/ \E o \in Ops : \E d \in Backoffs(o, asked[o]) :
              /\ state'[o] = "sleeping" /\ delay' = [delay EXCEPT ![o] = d]
              /\ \A p \in Ops \ {o} : state'[p] = state[p]
         \/ /\ \E o \in Ops : delay' = [delay EXCEPT ![o] = 0] \/ delay' = delay
            /\ \A o \in Ops : state'[o] = "sleeping" => state[o] = "sleeping"
         \/ delay' = delay /\ state' = state
<1>1. state \in [Ops -> {"new", "sent", "sleeping", "returned", "raised"}]
  BY DEF IInv, Types
<1>2. CASE UNCHANGED vars
  BY <1>2 DEF vars, client
<1>3. ASSUME NEW o \in Ops, Send(o) \/ FinalReply(o) \/ ConnectionFails(o) \/ Cancelled(o)
      PROVE  /\ delay' = [delay EXCEPT ![o] = 0] \/ delay' = delay
             /\ \A p \in Ops : state'[p] = "sleeping" => state[p] = "sleeping"
  BY <1>1, <1>3 DEF Send, FinalReply, Outcomes, ConnectionFails, Cancelled
<1>4. ASSUME NEW o \in Ops, RetryReply(o)
      PROVE  \E d \in Backoffs(o, asked[o]) :
              /\ state'[o] = "sleeping" /\ delay' = [delay EXCEPT ![o] = d]
              /\ \A p \in Ops \ {o} : state'[p] = state[p]
  BY <1>1, <1>4 DEF RetryReply
<1>5. ASSUME NEW o \in Ops, Served(o) \/ Denied(o) \/ Intercepted(o) \/ GatewayFails(o) \/ StrayArrives(o)
      PROVE  delay' = delay /\ state' = state
  BY <1>5 DEF Served, Denied, Intercepted, GatewayFails, StrayArrives, client
<1> QED
  BY <1>2, <1>3, <1>4, <1>5 DEF Next, ClientStep

LEMMA DelayTypesKept == IInv /\ DelayTypes /\ [Next]_vars => DelayTypes'
<1> SUFFICES ASSUME IInv, DelayTypes, [Next]_vars PROVE DelayTypes'
  OBVIOUS
<1>1. 0 \in 0..MaxBackoff
  BY HttpAssumption
<1>2. \A o \in Ops : \A d \in Backoffs(o, asked[o]) : d \in 0..MaxBackoff
  BY TypesOf, BackoffsAreBounded
<1> QED
  BY <1>1, <1>2, DelaysAreBackoffs DEF DelayTypes

\* A retry waits as long as the server asked, and never longer than max_backoff
\* (rate_limiter.py, calculate_backoff; transport.py, sleep_before_retry).
THEOREM BackoffIsRespected == Spec => BackoffRespected
<1>1. Init => DelayTypes
  BY HttpAssumption DEF Init, DelayTypes
<1>2. ASSUME IInv, DelayTypes, [Next]_vars,
             NEW o \in Ops, state[o] = "sent", state'[o] = "sleeping"
      PROVE  /\ delay'[o] <= MaxBackoff
             /\ asked[o] <= MaxBackoff => delay'[o] >= asked[o]
  <2>1. PICK d \in Backoffs(o, asked[o]) : delay' = [delay EXCEPT ![o] = d]
    BY <1>2, DelaysAreBackoffs
  <2>2. d \in 0..MaxBackoff /\ (asked[o] <= MaxBackoff => d >= asked[o])
    BY <1>2, TypesOf, BackoffsAreBounded
  <2>3. delay'[o] = d
    BY <1>2, <2>1 DEF DelayTypes
  <2>4. d <= MaxBackoff
    BY <2>2, HttpAssumption
  <2> QED
    BY <2>2, <2>3, <2>4
<1>3. IInv /\ DelayTypes /\ [Next]_vars =>
        [\A o \in Ops : state[o] = "sent" /\ state'[o] = "sleeping" =>
           /\ delay'[o] <= MaxBackoff
           /\ asked[o] <= MaxBackoff => delay'[o] >= asked[o]]_vars
  BY <1>2
<1> QED
  BY <1>1, <1>3, DelayTypesKept, Accounts, PTL DEF Spec, BackoffRespected
=============================================================================
