---------------------------- MODULE ClientProofs ----------------------------
(* Proofs about the client. EnqueueBatch, for batches of every size and with or *)
(* without timeouts, cancellation and locks: a batch is created as a whole or   *)
(* not at all, every item gets its own job, and no chain is left behind.        *)
(* SyncRunner, for any number of calling threads: one coroutine at a time on    *)
(* the one loop, and nothing left after the close.                              *)
EXTENDS EnqueueBatch, SyncRunner, FiniteSetTheorems, TLAPS

(* A chain that is inside next() has a future, which only it awaits; next()     *)
(* returns a job only from a future, so that a chain without one has none; and  *)
(* the barrier lets no chain be where it has not begun.                         *)
ChainInv ==
    \A i \in Items :
      /\ chain[i] = "wait" => future[i] # "none"
      /\ future[i] = "pending" => chain[i] = "wait"
      /\ chain[i] = "pre" => future[i] = "none" /\ phase = "gates"
      /\ hand[i] = "job" \/ final[i] = "job" => future[i] # "none"

(* Before the push nothing was sent, created or handed out; during it whoever   *)
(* still waits was sent; and it was made, if it was, with every item captured   *)
(* or replaced by its middleware.                                               *)
PushInv ==
    /\ phase \in {"gates", "abort"} => calls = 0
    /\ calls = 0 => created = {}
    /\ phase = "push" => calls = 1
    /\ phase \in {"gates", "push"} => \A i \in Items : got[i] = 0
    /\ phase = "push" => \A i \in Items : future[i] = "pending" => i \in Sent
    /\ Sent \subseteq Items
    /\ calls = 1 => \A i \in Items :
         future[i] # "none" \/ (chain[i] = "done" /\ final[i] = "replacement")

(* Middleware that holds a lock across next() lets one chain in at a time, and  *)
(* so at most one item is ever given a job.                                     *)
LockInv ==
    serial =>
      /\ phase # "cancelled" => \A i, j \in Items :
           chain[i] \in {"wait", "after"} /\ chain[j] \in {"wait", "after"} => i = j
      /\ \A i, j \in Items : got[i] # 0 /\ got[j] # 0 => i = j

(* The inductive invariant. *)
IInv == BatchTypeOK /\ ChainInv /\ PushInv /\ LockInv /\ OwnJob /\ NoTaskLeft

-----------------------------------------------------------------------------
(* Some of the items are finitely many. *)
LEMMA ItemsFinite == ASSUME NEW S \in SUBSET Items PROVE IsFiniteSet(S) /\ Cardinality(S) \in Nat
<1>1. IsFiniteSet(Items)
  BY BatchAssumption, FS_Interval DEF Items
<1> QED
  BY <1>1, FS_Subset, FS_CardinalityType

LEMMA ItemsAreNumbers == \A i \in Items : i \in Nat \ {0}
  BY BatchAssumption DEF Items

(* Any set of items can be put in order: each goes to the place that tells how  *)
(* many are not after it.                                                       *)
LEMMA OrderExists ==
  ASSUME NEW S \in SUBSET Items
  PROVE  \E s \in [1 .. Cardinality(S) -> S] :
            \A a, b \in DOMAIN s : a < b => s[a] < s[b]
<1> DEFINE n == Cardinality(S)
           UpTo(i) == {j \in S : j <= i}
           rank == [i \in S |-> Cardinality(UpTo(i))]
<1>1. IsFiniteSet(S) /\ n \in Nat /\ IsFiniteSet(1 .. n) /\ Cardinality(1 .. n) = n
  BY ItemsFinite, FS_Interval
<1>2. \A i \in S : i \in Nat
  BY ItemsAreNumbers
<1>3. ASSUME NEW i \in S PROVE rank[i] \in 1 .. n
  <2>1. UpTo(i) \in SUBSET S /\ i \in UpTo(i)
    BY <1>2
  <2>2. IsFiniteSet(UpTo(i)) /\ Cardinality(UpTo(i)) <= n /\ Cardinality(UpTo(i)) \in Nat
    BY <1>1, <2>1, FS_Subset, FS_CardinalityType
  <2>3. Cardinality(UpTo(i)) # 0
    BY <2>1, <2>2, FS_EmptySet
  <2> QED
    BY <1>1, <2>2, <2>3
<1>4. ASSUME NEW i \in S, NEW j \in S, i < j PROVE rank[i] < rank[j]
  <2>1. UpTo(i) \in SUBSET UpTo(j) /\ j \in UpTo(j) /\ j \notin UpTo(i)
    BY <1>2, <1>4
  <2>2. UpTo(j) \in SUBSET S /\ IsFiniteSet(UpTo(j))
    BY <1>1, FS_Subset
  <2>3. Cardinality(UpTo(i)) <= Cardinality(UpTo(j))
        /\ Cardinality(UpTo(i)) # Cardinality(UpTo(j))
    BY <2>1, <2>2, FS_Subset
  <2>4. rank[i] \in Nat /\ rank[j] \in Nat
    BY <1>3
  <2> QED
    BY <2>3, <2>4
<1>5. rank \in Injection(S, 1 .. n)
  <2>1. rank \in [S -> 1 .. n]
    BY <1>3
  <2>2. ASSUME NEW i \in S, NEW j \in S, rank[i] = rank[j] PROVE i = j
    <3>1. rank[i] \in Nat /\ rank[j] \in Nat
      BY <1>3
    <3>2. ~(i < j) /\ ~(j < i)
      BY <1>4, <2>2, <3>1
    <3> QED
      BY <1>2, <3>2
  <2> HIDE DEF rank
  <2> QED
    BY <2>1, <2>2 DEF Injection, IsInjective
<1> HIDE DEF rank
<1>6. rank \in Surjection(S, 1 .. n)
  BY <1>1, <1>5, FS_Injection
<1>7. \A k \in 1 .. n : \E i \in S : rank[i] = k
  BY <1>6 DEF Surjection
<1> DEFINE s == [k \in 1 .. n |-> CHOOSE i \in S : rank[i] = k]
<1>8. \A k \in 1 .. n : s[k] \in S /\ rank[s[k]] = k
  BY <1>7
<1>9. ASSUME NEW a \in 1 .. n, NEW b \in 1 .. n, a < b PROVE s[a] < s[b]
  <2>1. s[a] # s[b] /\ ~(s[b] < s[a])
    BY <1>1, <1>4, <1>8, <1>9
  <2> QED
    BY <1>2, <1>8, <2>1
<1> QED
  BY <1>8, <1>9

(* InOrder lists all of a set of items. *)
LEMMA InOrderListsAll ==
  ASSUME NEW S \in SUBSET Items
  PROVE  {InOrder(S)[k] : k \in DOMAIN InOrder(S)} = S
<1> DEFINE n == Cardinality(S)
           s == InOrder(S)
<1>1. s \in [1 .. n -> S] /\ \A a, b \in DOMAIN s : a < b => s[a] < s[b]
  BY OrderExists DEF InOrder
<1> HIDE DEF s
<1>2. IsFiniteSet(S) /\ n \in Nat /\ IsFiniteSet(1 .. n) /\ Cardinality(1 .. n) = n
  BY ItemsFinite, FS_Interval
<1>3. s \in Injection(1 .. n, S)
  <2>1. ASSUME NEW a \in 1 .. n, NEW b \in 1 .. n, s[a] = s[b] PROVE a = b
    <3>1. s[a] \in S
      BY <1>1
    <3>2. s[a] \in Nat
      BY <3>1, ItemsAreNumbers
    <3>3. ~(a < b) /\ ~(b < a)
      BY <1>1, <2>1, <3>2
    <3> QED
      BY <1>2, <3>3
  <2> QED
    BY <1>1, <2>1 DEF Injection, IsInjective
<1>4. s \in Surjection(1 .. n, S)
  BY <1>2, <1>3, FS_Injection
<1>5. {s[k] : k \in DOMAIN s} = S
  BY <1>1, <1>4 DEF Surjection
<1> QED
  BY <1>5 DEF s

-----------------------------------------------------------------------------
(* A batch starts in the invariant. *)
LEMMA InitIInv == BatchInit => IInv
<1> SUFFICES ASSUME BatchInit PROVE IInv
  OBVIOUS
<1> USE BatchAssumption DEF BatchInit
<1>1. BatchTypeOK
  BY DEF BatchTypeOK, Phases, Futures, Finals
<1>2. ChainInv /\ PushInv /\ LockInv
  BY DEF ChainInv, PushInv, LockInv, Sent
<1>3. OwnJob /\ NoTaskLeft
  BY DEF OwnJob, NoTaskLeft
<1> QED
  BY <1>1, <1>2, <1>3 DEF IInv

(* A step of one item's chain: the others stay where they are, and what it may  *)
(* change of its own keeps to ChainInv. It keeps the invariant if it enters     *)
(* next() only when the lock is free and does not change a future it was given. *)
LEMMA ChainStepIInv ==
  ASSUME IInv, NEW i \in Items, BatchTypeOK', chain[i] # "done",
         UNCHANGED <<phase, serial, got, pushed, calls, created, outcome>>,
         \A j \in Items \ {i} : /\ chain'[j] = chain[j] /\ future'[j] = future[j]
                              /\ hand'[j] = hand[j] /\ final'[j] = final[j],
         future[i] # "none" => future'[i] \in {future[i], "cancelled"},
         future'[i] = "pending" => phase = "gates" \/ future[i] = "pending",
         chain'[i] = "wait" => future'[i] # "none",
         future'[i] = "pending" => chain'[i] = "wait",
         chain'[i] # "pre",
         hand'[i] = "job" \/ final'[i] = "job" => future'[i] # "none",
         chain'[i] \in {"wait", "after"} => chain[i] \in {"wait", "after"} \/ ~Locked
  PROVE  IInv'
<1> USE DEF IInv
<1>1. ChainInv'
  BY DEF ChainInv
<1>2. PushInv'
  BY DEF PushInv, Sent, BatchTypeOK
<1>3. LockInv'
  BY DEF LockInv, Locked
<1>4. OwnJob' /\ NoTaskLeft'
  BY DEF OwnJob, NoTaskLeft
<1> QED
  BY <1>1, <1>2, <1>3, <1>4

(* Each step of a chain is such a step. *)
LEMMA ItemIInv ==
  ASSUME IInv, NEW i \in Items, InvalidRequest(i) \/ GiveUp(i) \/ ChainStep(i)
  PROVE  IInv'
<1> USE DEF batch, backend
<1>0. BatchTypeOK /\ ChainInv /\ PushInv
  BY DEF IInv
<1>1. CASE InvalidRequest(i)
  <2> USE DEF InvalidRequest, EndsRaising
  <2>1. BatchTypeOK'
    BY <1>0, <1>1 DEF BatchTypeOK, Errors
  <2> QED
    BY <1>0, <1>1, <2>1, ChainStepIInv DEF BatchTypeOK, ChainInv
<1>2. CASE GiveUp(i)
  <2> USE DEF GiveUp
  <2>1. BatchTypeOK'
    BY <1>0, <1>2 DEF BatchTypeOK, Errors, Futures
  <2>2. future[i] # "none" /\ hand'[i] = "timeout" /\ chain'[i] = "after"
        /\ future'[i] \in {future[i], "cancelled"} /\ future'[i] # "pending"
    BY <1>0, <1>2 DEF BatchTypeOK, ChainInv
  <2>3. \A j \in Items \ {i} : /\ chain'[j] = chain[j] /\ future'[j] = future[j]
                              /\ hand'[j] = hand[j] /\ final'[j] = final[j]
    BY <1>0, <1>2 DEF BatchTypeOK
  <2> QED
    BY <1>0, <1>2, <2>1, <2>2, <2>3, ChainStepIInv DEF BatchTypeOK, ChainInv
<1>3. CASE ShortCircuit(i)
  <2> USE DEF ShortCircuit, EndsRaising, EndsWith
  <2>1. BatchTypeOK'
    BY <1>0, <1>3 DEF BatchTypeOK, Errors, Finals
  <2>2. /\ chain'[i] = "done" /\ UNCHANGED <<hand, future>> /\ final'[i] # "job"
        /\ \A j \in Items \ {i} : chain'[j] = chain[j] /\ final'[j] = final[j]
    BY <1>0, <1>3 DEF BatchTypeOK, ChainInv
  <2> QED
    BY <1>0, <1>3, <2>1, <2>2, ChainStepIInv DEF BatchTypeOK, ChainInv
<1>4. CASE Dispatch(i)
  <2> USE DEF Dispatch
  <2>1. BatchTypeOK'
    BY <1>0, <1>4 DEF BatchTypeOK, Futures
  <2>2. phase = "gates"
    BY <1>0, <1>4 DEF ChainInv, PushInv, BatchTypeOK
  <2> QED
    BY <1>0, <1>4, <2>1, <2>2, ChainStepIInv DEF BatchTypeOK, ChainInv
<1>5. CASE DispatchInvalid(i)
  <2> USE DEF DispatchInvalid
  <2>1. BatchTypeOK'
    BY <1>0, <1>5 DEF BatchTypeOK, Errors
  <2> QED
    BY <1>0, <1>5, <2>1, ChainStepIInv DEF BatchTypeOK, ChainInv
<1>6. CASE Resume(i)
  <2> USE DEF Resume
  <2>1. BatchTypeOK'
    BY <1>0, <1>6 DEF BatchTypeOK, Errors, Futures, ChainInv
  <2> QED
    BY <1>0, <1>6, <2>1, ChainStepIInv DEF BatchTypeOK, ChainInv
<1>7. CASE Reinvoke(i)
  <2> USE DEF Reinvoke
  <2>1. BatchTypeOK'
    BY <1>0, <1>7 DEF BatchTypeOK, Errors
  <2> QED
    BY <1>0, <1>7, <2>1, ChainStepIInv DEF BatchTypeOK, ChainInv
<1>8. CASE Finish(i)
  <2> USE DEF Finish, EndsRaising, EndsWith
  <2>1. BatchTypeOK'
    BY <1>0, <1>8 DEF BatchTypeOK, Errors, Finals
  <2>2. /\ chain[i] = "after" /\ chain'[i] = "done" /\ UNCHANGED <<hand, future>>
        /\ final'[i] = "job" => future[i] # "none"
        /\ \A j \in Items \ {i} : chain'[j] = chain[j] /\ final'[j] = final[j]
    BY <1>0, <1>8 DEF BatchTypeOK, ChainInv
  <2> QED
    BY <1>0, <1>8, <2>1, <2>2, ChainStepIInv DEF BatchTypeOK, ChainInv
<1> QED
  BY <1>1, <1>2, <1>3, <1>4, <1>5, <1>6, <1>7, <1>8 DEF ChainStep

(* The steps of enqueue_batch and of its caller. *)
LEMMA AbortIInv == ASSUME IInv, Abort PROVE IInv'
<1> USE DEF IInv, Abort, FailFutures, backend
<1>1. BatchTypeOK'
  BY DEF BatchTypeOK, Phases, Errors, Futures
<1>2. \A i \in Items : chain[i] # "pre"
  BY DEF Decided, ChainInv
<1>3. ChainInv'
  BY <1>2 DEF ChainInv, BatchTypeOK
<1>4. PushInv'
  BY DEF PushInv, Sent, BatchTypeOK
<1>5. LockInv' /\ OwnJob' /\ NoTaskLeft'
  BY DEF LockInv, OwnJob, NoTaskLeft
<1> QED
  BY <1>1, <1>3, <1>4, <1>5

LEMMA PushIInv == ASSUME IInv, Push PROVE IInv'
<1> USE DEF IInv, Push, tasks, batch
<1>0. calls = 0 /\ created = {} /\ \A i \in Items : got[i] = 0
  BY DEF PushInv
<1>1. BatchTypeOK'
  BY <1>0 DEF BatchTypeOK, Phases
<1>2. \A i \in Items : chain[i] # "pre"
  BY DEF Decided, ChainInv
<1>3. ChainInv'
  BY <1>2 DEF ChainInv
<1>4. ASSUME NEW i \in Items
      PROVE  future[i] # "none" \/ (chain[i] = "done" /\ final[i] = "replacement")
  BY DEF Decided, Failures, ChainInv, BatchTypeOK, Finals
<1>5. phase' = "push" => \A i \in Items : future[i] = "pending" => i \in Sent'
  <2> SUFFICES ASSUME phase' = "push", NEW i \in Items, future[i] = "pending"
               PROVE  i \in Sent'
    OBVIOUS
  <2>1. pushed' = InOrder(Captured)
    OBVIOUS
  <2>2. i \in Captured /\ Captured \in SUBSET Items
    BY DEF Captured
  <2> QED
    BY <2>1, <2>2, InOrderListsAll DEF Sent
<1>6. Sent' \subseteq Items
  <2>1. CASE Captured = {}
    BY <2>1 DEF Sent, PushInv
  <2>2. CASE Captured # {}
    <3>1. pushed' = InOrder(Captured) /\ Captured \in SUBSET Items
      BY <2>2 DEF Captured
    <3> QED
      BY <3>1, InOrderListsAll DEF Sent
  <2> QED
    BY <2>1, <2>2
<1>7. PushInv'
  BY <1>0, <1>4, <1>5, <1>6 DEF PushInv
<1>8. LockInv' /\ OwnJob' /\ NoTaskLeft'
  BY <1>0 DEF LockInv, OwnJob, NoTaskLeft
<1> QED
  BY <1>1, <1>3, <1>7, <1>8

LEMMA PushSucceedsIInv == ASSUME IInv, PushSucceeds PROVE IInv'
<1> USE DEF IInv, PushSucceeds, tasks
<1> DEFINE jobs == [i \in Sent |-> pushed[CHOOSE k \in DOMAIN pushed : pushed[k] = i]]
<1>0. /\ phase = "push" /\ phase' = "post" /\ Resolve(jobs)
      /\ UNCHANGED <<chain, reached, hand, final, error, pushed, calls, outcome, serial>>
  OBVIOUS
<1>1. \A i \in Sent : jobs[i] = i
  BY DEF Sent
<1> HIDE DEF PushSucceeds, jobs
<1>2. \A i \in Items : got'[i] = IF future[i] = "pending" THEN i ELSE 0
  BY <1>0, <1>1 DEF Resolve, PushInv
<1>3. /\ future' = [i \in Items |-> IF future[i] = "pending" THEN "job" ELSE future[i]]
      /\ created' = created \cup Sent /\ DOMAIN got' = Items
      /\ got' = [i \in Items |-> got'[i]]
  BY <1>0 DEF Resolve
<1>4. Sent \subseteq Items
  BY DEF PushInv
<1>5. BatchTypeOK'
  <2>1. got' \in [Items -> 0 .. N]
    <3>1. \A i \in Items : got'[i] \in 0 .. N
      BY <1>2, BatchAssumption DEF Items
    <3> QED
      BY <1>3, <3>1
  <2>2. future' \in [Items -> Futures]
    BY <1>3 DEF BatchTypeOK, Futures
  <2> QED
    BY <1>0, <1>3, <1>4, <2>1, <2>2 DEF BatchTypeOK, Phases
<1>6. ChainInv'
  BY <1>0, <1>3 DEF ChainInv, BatchTypeOK
<1>7. PushInv'
  BY <1>0, <1>3 DEF PushInv, BatchTypeOK, Sent
<1>8. LockInv'
  BY <1>0, <1>2 DEF LockInv, ChainInv
<1>9. OwnJob' /\ NoTaskLeft'
  BY <1>0, <1>2, <1>3 DEF OwnJob, NoTaskLeft, PushInv
<1> QED
  BY <1>5, <1>6, <1>7, <1>8, <1>9

LEMMA PushFailsIInv == ASSUME IInv, PushFails PROVE IInv'
<1> USE DEF IInv, PushFails, FailFutures, tasks
<1>1. BatchTypeOK'
  BY DEF BatchTypeOK, Phases, Futures, PushInv
<1>2. ChainInv'
  BY DEF ChainInv, BatchTypeOK
<1>3. PushInv'
  BY DEF PushInv, BatchTypeOK, Sent
<1>4. LockInv' /\ OwnJob' /\ NoTaskLeft'
  BY DEF LockInv, OwnJob, NoTaskLeft
<1> QED
  BY <1>1, <1>2, <1>3, <1>4

LEMMA EndIInv == ASSUME IInv, End PROVE IInv'
<1> USE DEF IInv, End, tasks, batch, backend
<1>1. outcome' \in {"aborted", "transport", "cancelled", "raised", "returned"}
  OBVIOUS
<1>2. BatchTypeOK' /\ ChainInv'
  BY <1>1 DEF BatchTypeOK, Phases, ChainInv
<1>3. PushInv'
  BY DEF PushInv, Sent
<1>4. LockInv' /\ OwnJob' /\ NoTaskLeft'
  BY DEF LockInv, OwnJob, NoTaskLeft
<1> QED
  BY <1>2, <1>3, <1>4

LEMMA CallerCancelledIInv == ASSUME IInv, CallerCancelled PROVE IInv'
<1> USE DEF IInv, CallerCancelled, FailFutures
<1>0. phase' = "cancelled" /\ created \subseteq created' /\ created' \subseteq created \cup Sent
  OBVIOUS
<1>1. BatchTypeOK'
  BY <1>0 DEF BatchTypeOK, Phases, Futures, Errors, PushInv
<1>2. ChainInv'
  BY DEF ChainInv, BatchTypeOK
<1>3. PushInv'
  <2>1. calls = 0 => created' = {}
    BY DEF PushInv
  <2>2. calls = 1 => \A i \in Items :
          future'[i] # "none" \/ (chain'[i] = "done" /\ final'[i] = "replacement")
    BY DEF PushInv, BatchTypeOK
  <2>3. Sent' = Sent
    BY DEF Sent
  <2> QED
    BY <1>0, <2>1, <2>2, <2>3 DEF PushInv
<1>4. LockInv'
  BY <1>0 DEF LockInv
<1>5. OwnJob' /\ NoTaskLeft'
  BY <1>0 DEF OwnJob, NoTaskLeft
<1> QED
  BY <1>1, <1>2, <1>3, <1>4, <1>5

(* Every step keeps the invariant. *)
LEMMA StepIInv == IInv /\ [BatchNext]_batchVars => IInv'
<1> SUFFICES ASSUME IInv, [BatchNext]_batchVars PROVE IInv'
  OBVIOUS
<1>1. CASE UNCHANGED batchVars
  <2> USE <1>1 DEF IInv, batchVars, tasks, batch, backend
  <2>1. BatchTypeOK' /\ ChainInv'
    BY DEF BatchTypeOK, ChainInv
  <2>2. PushInv' /\ LockInv' /\ OwnJob' /\ NoTaskLeft'
    BY DEF PushInv, LockInv, OwnJob, NoTaskLeft, Sent
  <2> QED
    BY <2>1, <2>2
<1> QED
  BY <1>1, ItemIInv, AbortIInv, PushIInv, PushSucceedsIInv, PushFailsIInv, EndIInv,
     CallerCancelledIInv DEF BatchNext, BatchStep

-----------------------------------------------------------------------------
(* In every reachable state the barrier, the push and the chains agree. *)
THEOREM BatchInvariance == BatchSpec => []IInv
  BY InitIInv, StepIInv, PTL DEF BatchSpec

(* A batch is created as a whole or not at all, by one call, and each item gets *)
(* the job that was made for it, whatever the middleware does and whoever gives *)
(* up (enqueue_pipeline.py, the barrier and the resolution of the futures).     *)
THEOREM BatchIsAllOrNothing == BatchSpec => []AllOrNothing
<1>1. IInv => NoPartialBatch
  <2> SUFFICES ASSUME IInv, NEW i \in Items, chain[i] = "done", future[i] = "none",
                      final[i] # "replacement"
               PROVE  calls = 0 /\ created = {}
    BY DEF NoPartialBatch
  <2>1. calls # 1
    BY DEF IInv, PushInv
  <2> QED
    BY <2>1 DEF IInv, BatchTypeOK, PushInv
<1>2. IInv => AllOrNothing
  BY <1>1 DEF IInv, AllOrNothing
<1> QED
  BY <1>2, BatchInvariance, PTL

(* However enqueue_batch ends, no chain outlives it.                            *)
THEOREM NoChainIsLeft == BatchSpec => []NoTaskLeft
<1>1. IInv => NoTaskLeft
  BY DEF IInv
<1> QED
  BY <1>1, BatchInvariance, PTL

(* Under middleware that holds a lock across next(), no more than one item of a *)
(* batch ever gets a job: the safety half of Settles.                           *)
THEOREM LockedBatchesStarve == BatchSpec => []Starved
<1>1. ASSUME IInv, serial PROVE Cardinality({i \in Items : got[i] # 0}) <= 1
  <2> DEFINE S == {i \in Items : got[i] # 0}
  <2>1. CASE S = {}
    BY <2>1, FS_EmptySet
  <2>2. CASE S # {}
    <3>1. PICK i \in Items : i \in S
      BY <2>2
    <3>2. S = {i}
      BY <1>1, <3>1 DEF IInv, LockInv
    <3> QED
      BY <3>2, FS_Singleton
  <2> QED
    BY <2>1, <2>2
<1>2. IInv => Starved
  BY <1>1 DEF Starved
<1> QED
  BY <1>2, BatchInvariance, PTL

-----------------------------------------------------------------------------
(* SyncRunner *)

(* Where a caller waits for a new thread, for its coroutine, or has come to     *)
(* close the runner.                                                            *)
Waits == {"starting", "closestarting"}
Awaits == {"result", "closeresult"}
Closes == {"close", "closeensure", "closestarting", "closeresult", "joining"}

(* SyncClient lets one caller close the runner, and only once; a coroutine on a *)
(* loop has its caller wait for it, with the lock; and after the close nothing  *)
(* is started or submitted.                                                     *)
CloserInv ==
    /\ \A c \in Callers : pc[c] \in Closes => closing
    /\ \A c, d \in Callers : pc[c] \in Closes /\ pc[d] \in Closes => c = d
    /\ \A c \in Callers : pc[c] = "joining" => closed
    /\ \A c \in Callers : on[c] # 0 => pc[c] \in Awaits
    /\ closed => closing /\ \A c \in Callers :
                   pc[c] \notin Waits \cup Awaits \cup {"close", "closeensure"}

(* As long as no start was given up there is the one thread, loop 1: between    *)
(* its start and the end of its preparations somebody waits for it with the     *)
(* lock, coroutines are on it only while it runs, and only the close stops it.  *)
ThreadInv ==
    /\ \A l \in Loops : l # 1 => threads[l] = "none" /\ orphans[l] = 0
    /\ thread = IF threads[1] = "none" THEN 0 ELSE 1
    /\ loop = IF threads[1] \in {"none", "spawned"} THEN 0 ELSE 1
    /\ ready => threads[1] \in {"running", "stopping", "dead"}
    /\ threads[1] \in {"spawned", "assigned"} => \E c \in Callers : pc[c] \in Waits
    /\ closed <=> threads[1] \in {"stopping", "dead"}
    /\ orphans[1] # 0 => threads[1] \in {"running", "stopping"}
    /\ \A c \in Callers : on[c] # 0 => on[c] = 1 /\ threads[1] = "running"
    /\ \A c \in Callers : pc[c] \in Waits => threads[1] # "none"
    /\ \A c \in Callers : pc[c] = "closeresult" => target = 1 /\ threads[1] = "running"
    /\ closeEnds = "joined" => threads[1] = "dead"

RunnerInv == RunnerTypeOK /\ CloserInv /\ (~late => ThreadInv)

-----------------------------------------------------------------------------
LEMMA RunnerStarts == RunnerInit => RunnerInv
<1> SUFFICES ASSUME RunnerInit PROVE RunnerInv
  OBVIOUS
<1> USE RunnerAssumption DEF RunnerInit, Loops
<1>1. RunnerTypeOK
  <2>1. pc \in [Callers -> Pcs] /\ on \in [Callers -> 0 .. MaxLoops]
    BY DEF Pcs
  <2>2. \A c \in Callers : lock = c <=> pc[c] \notin {"idle", "run", "close"}
    OBVIOUS
  <2>3. /\ threads \in [Loops -> {"none", "spawned", "assigned", "running", "stopping", "dead"}]
        /\ orphans \in [Loops -> Nat]
    OBVIOUS
  <2>4. /\ loop \in 0 .. MaxLoops /\ thread \in 0 .. MaxLoops
        /\ runs \in 0 .. MaxCalls /\ target \in 0 .. MaxLoops
        /\ lock \in Callers \cup {NoOne} /\ closeEnds \in {"none", "joined", "raised"}
    OBVIOUS
  <2>5. /\ ready \in BOOLEAN /\ closed \in BOOLEAN
        /\ closing \in BOOLEAN /\ late \in BOOLEAN
    OBVIOUS
  <2> HIDE DEF RunnerInit
  <2> QED
    BY <2>1, <2>2, <2>3, <2>4, <2>5 DEF RunnerTypeOK
<1>2. CloserInv
  BY DEF CloserInv, Closes, Awaits
<1>3. ThreadInv
  BY DEF ThreadInv, Waits
<1> QED
  BY <1>1, <1>2, <1>3 DEF RunnerInv

LEMMA StepRun ==
  ASSUME RunnerInv, NEW c \in Callers, Run(c)
  PROVE  RunnerInv'
<1> USE RunnerAssumption DEF RunnerInv, Run, Go, runner, work, ends, Loops
<1>1. RunnerTypeOK'
  BY DEF RunnerTypeOK, Pcs
<1>2. CloserInv'
  BY DEF CloserInv, RunnerTypeOK, Closes, Awaits, Waits
<1>3. ~late' => ThreadInv'
  BY DEF ThreadInv, RunnerTypeOK, Waits
<1> QED
  BY <1>1, <1>2, <1>3

LEMMA StepClose ==
  ASSUME RunnerInv, NEW c \in Callers, Close(c)
  PROVE  RunnerInv'
<1> USE RunnerAssumption DEF RunnerInv, Close, Go, runner, work, ends, Loops
<1>1. RunnerTypeOK'
  BY DEF RunnerTypeOK, Pcs
<1>2. CloserInv'
  BY DEF CloserInv, RunnerTypeOK, Closes, Awaits, Waits
<1>3. ~late' => ThreadInv'
  BY DEF ThreadInv, CloserInv, RunnerTypeOK, Closes, Awaits, Waits
<1> QED
  BY <1>1, <1>2, <1>3

LEMMA StepAcquire ==
  ASSUME RunnerInv, NEW c \in Callers, Acquire(c)
  PROVE  RunnerInv'
<1> USE RunnerAssumption DEF RunnerInv, Acquire, Go, runner, work, ends, Loops
<1>1. RunnerTypeOK'
  BY DEF RunnerTypeOK, Pcs
<1>2. CloserInv'
  BY DEF CloserInv, RunnerTypeOK, Closes, Awaits, Waits
<1>3. ~late' => ThreadInv'
  BY DEF ThreadInv, CloserInv, RunnerTypeOK, Closes, Awaits, Waits
<1> QED
  BY <1>1, <1>2, <1>3

LEMMA StepRefused ==
  ASSUME RunnerInv, NEW c \in Callers, Refused(c)
  PROVE  RunnerInv'
<1> USE RunnerAssumption DEF RunnerInv, Refused, Release, Go, runner, work, ends, Loops
<1>1. RunnerTypeOK'
  BY DEF RunnerTypeOK, Pcs
<1>2. CloserInv'
  BY DEF CloserInv, RunnerTypeOK, Closes, Awaits, Waits
<1>3. ~late' => ThreadInv'
  BY DEF ThreadInv, CloserInv, RunnerTypeOK, Closes, Awaits, Waits
<1> QED
  BY <1>1, <1>2, <1>3

\* Submitting, whoever does it.
LEMMA Submitted ==
  ASSUME RunnerInv, NEW c \in Callers, NEW to \in Awaits, Submit(c, to), loop # 0,
         pc[c] \in Waits \cup {"ensure", "closeensure"},
         to = "result" => pc[c] \in {"ensure", "starting"} /\ ~closed,
         to = "closeresult" => pc[c] \in {"closeensure", "closestarting"},
         ~late => threads[1] = "running"
  PROVE  RunnerInv'
<1> USE RunnerAssumption DEF Submit, Go, Loops
<1>0. /\ RunnerTypeOK /\ CloserInv /\ (~late => ThreadInv)
      /\ late' = late /\ closed' = closed /\ loop' = loop /\ thread' = thread
      /\ threads' = threads /\ ready' = ready /\ orphans' = orphans /\ closeEnds' = closeEnds
      /\ runs' = runs /\ closing' = closing /\ lock' = lock
  BY DEF RunnerInv, runner
<1>1. RunnerTypeOK'
  <2>1. pc' \in [Callers -> Pcs] /\ on' \in [Callers -> 0 .. MaxLoops]
    BY <1>0 DEF RunnerTypeOK, Pcs, Awaits
  <2>2. \A d \in Callers : lock' = d <=> pc'[d] \notin {"idle", "run", "close"}
    BY <1>0 DEF RunnerTypeOK, Awaits, Waits
  <2>3. target' \in 0 .. MaxLoops
    BY <1>0 DEF RunnerTypeOK
  <2> QED
    BY <1>0, <2>1, <2>2, <2>3 DEF RunnerTypeOK
<1>2. CloserInv'
  BY <1>0 DEF CloserInv, RunnerTypeOK, Closes, Awaits, Waits
<1>3. ~late' => ThreadInv'
  <2> SUFFICES ASSUME ~late PROVE ThreadInv'
    BY <1>0
  <2>1. loop = 1
    BY <1>0 DEF ThreadInv
  <2>2. \A d \in Callers : d # c => pc'[d] = pc[d] /\ on'[d] = on[d]
    BY <1>0 DEF RunnerTypeOK
  <2>3. pc'[c] = to /\ pc'[c] \notin Waits
    BY <1>0 DEF RunnerTypeOK, Awaits, Waits
  <2>4. \A d \in Callers : pc'[d] \in Waits => threads[1] # "none"
    BY <1>0
  <2>5. \A d \in Callers : pc'[d] = "closeresult" => target' = 1 /\ threads[1] = "running"
    <3>1. \A d \in Callers : d # c => pc[d] # "closeresult"
      BY <1>0 DEF RunnerTypeOK, Waits
    <3> QED
      BY <1>0, <2>1, <2>2, <2>3, <3>1
  <2>6. \A d \in Callers : on'[d] # 0 => on'[d] = 1 /\ threads[1] = "running"
    <3>1. on'[c] = 1
      BY <1>0, <2>1 DEF RunnerTypeOK
    <3> QED
      BY <1>0, <2>2, <3>1 DEF ThreadInv
  <2> HIDE DEF Submit
  <2> QED
    BY <1>0, <2>4, <2>5, <2>6 DEF ThreadInv
<1> QED
  BY <1>1, <1>2, <1>3 DEF RunnerInv

LEMMA StepUseLoop ==
  ASSUME RunnerInv, NEW c \in Callers, UseLoop(c)
  PROVE  RunnerInv'
<1>1. ~late => threads[1] = "running"
  <2> SUFFICES ASSUME ~late PROVE threads[1] = "running"
    OBVIOUS
  <2>1. threads[1] \in {"assigned", "running", "stopping", "dead"}
    BY RunnerAssumption DEF RunnerInv, ThreadInv, RunnerTypeOK, UseLoop, Loops
  <2>2. threads[1] # "assigned"
    BY DEF RunnerInv, ThreadInv, RunnerTypeOK, UseLoop, Waits
  <2>3. ~closed
    BY DEF RunnerInv, CloserInv, UseLoop
  <2> QED
    BY <2>1, <2>2, <2>3 DEF RunnerInv, ThreadInv
<1>2. CASE pc[c] = "ensure"
  BY <1>1, <1>2, Submitted DEF UseLoop, Awaits
<1>3. CASE pc[c] = "closeensure"
  BY <1>1, <1>3, Submitted DEF UseLoop, Awaits
<1> QED
  BY <1>2, <1>3 DEF UseLoop

LEMMA StepStartLoop ==
  ASSUME RunnerInv, NEW c \in Callers, StartLoop(c)
  PROVE  RunnerInv'
<1> USE RunnerAssumption DEF Loops
<1>0. /\ RunnerTypeOK /\ CloserInv /\ (~late => ThreadInv)
      /\ loop = 0 /\ thread < MaxLoops /\ ready' = FALSE /\ thread' = thread + 1
      /\ threads' = [threads EXCEPT ![thread'] = "spawned"]
      /\ late' = late /\ closed' = closed /\ loop' = loop /\ on' = on
      /\ orphans' = orphans /\ closeEnds' = closeEnds /\ target' = target
      /\ runs' = runs /\ closing' = closing /\ lock' = lock
  BY DEF RunnerInv, StartLoop, work, ends
<1>1. PICK to \in Waits : /\ pc' = [pc EXCEPT ![c] = to]
                          /\ to = "starting" => pc[c] = "ensure" /\ ~closed
                          /\ to = "closestarting" => pc[c] = "closeensure"
  BY DEF StartLoop, Go, Waits
<1>2. \A d \in Callers : pc'[d] = IF d = c THEN to ELSE pc[d]
  BY <1>0, <1>1 DEF RunnerTypeOK
<1>3. pc[c] \in {"ensure", "closeensure"} /\ lock = c
  BY <1>0, <1>1 DEF RunnerTypeOK, Waits
<1>4. RunnerTypeOK'
  <2>1. pc' \in [Callers -> Pcs]
    BY <1>0, <1>1 DEF RunnerTypeOK, Pcs, Waits
  <2>2. \A d \in Callers : lock' = d <=> pc'[d] \notin {"idle", "run", "close"}
    BY <1>0, <1>2, <1>3 DEF RunnerTypeOK, Waits
  <2>3. thread' \in 0 .. MaxLoops
        /\ threads' \in [Loops -> {"none", "spawned", "assigned", "running", "stopping", "dead"}]
    BY <1>0 DEF RunnerTypeOK
  <2> QED
    BY <1>0, <2>1, <2>2, <2>3 DEF RunnerTypeOK
<1>5. CloserInv'
  <2>1. ~closed
    BY <1>0, <1>1 DEF CloserInv, Waits
  <2>2. \A d \in Callers : pc'[d] \in Closes => pc[d] \in Closes
    BY <1>1, <1>2 DEF Closes, Waits
  <2>3. on[c] = 0
    BY <1>0, <1>3 DEF CloserInv, Awaits
  <2>4. \A d \in Callers : pc'[d] = "joining" => pc[d] = "joining"
    BY <1>2 DEF Waits
  <2> QED
    BY <1>0, <1>2, <2>1, <2>2, <2>3, <2>4 DEF CloserInv
<1>6. ~late' => ThreadInv'
  <2> SUFFICES ASSUME ~late PROVE ThreadInv'
    BY <1>0
  <2>1. ThreadInv
    BY <1>0
  <2>2. threads[1] = "none"
    <3>1. threads[1] \in {"none", "spawned"}
      BY <1>0, <2>1 DEF ThreadInv
    <3>2. \A d \in Callers : pc[d] \notin Waits
      BY <1>0, <1>3 DEF RunnerTypeOK, Waits
    <3> QED
      BY <2>1, <3>1, <3>2 DEF ThreadInv
  <2>3. thread' = 1 /\ threads'[1] = "spawned" /\ \A l \in Loops : l # 1 => threads'[l] = threads[l]
    BY <1>0, <2>1, <2>2 DEF ThreadInv, RunnerTypeOK
  <2>4. pc'[c] \in Waits
    BY <1>2
  <2>5. \A d \in Callers : pc'[d] # "closeresult" /\ on[d] = 0
    BY <1>2, <2>1, <2>2 DEF ThreadInv, Waits
  <2> QED
    BY <1>0, <2>1, <2>2, <2>3, <2>4, <2>5 DEF ThreadInv
<1> QED
  BY <1>4, <1>5, <1>6 DEF RunnerInv

LEMMA StepLoopIsReady ==
  ASSUME RunnerInv, NEW c \in Callers, LoopIsReady(c)
  PROVE  RunnerInv'
<1>1. ~closed
  BY DEF RunnerInv, CloserInv, LoopIsReady, Waits
<1>2. ~late => threads[1] = "running"
  BY <1>1 DEF RunnerInv, ThreadInv, LoopIsReady
<1>3. CASE pc[c] = "starting"
  BY <1>1, <1>2, <1>3, Submitted DEF LoopIsReady, Awaits, Waits
<1>4. CASE pc[c] = "closestarting"
  BY <1>1, <1>2, <1>4, Submitted DEF LoopIsReady, Awaits, Waits
<1> QED
  BY <1>3, <1>4 DEF LoopIsReady

LEMMA StepStartTimesOut ==
  ASSUME RunnerInv, NEW c \in Callers, StartTimesOut(c)
  PROVE  RunnerInv'
<1> USE RunnerAssumption DEF RunnerInv, StartTimesOut, Release, Go, runner, work, ends, Loops
<1>1. RunnerTypeOK'
  BY DEF RunnerTypeOK, Pcs
<1>2. CloserInv'
  BY DEF CloserInv, RunnerTypeOK, Closes, Awaits, Waits
<1>3. ~late' => ThreadInv'
  BY DEF ThreadInv, CloserInv, RunnerTypeOK, Closes, Awaits, Waits
<1> QED
  BY <1>1, <1>2, <1>3

LEMMA StepReturn ==
  ASSUME RunnerInv, NEW c \in Callers, Return(c)
  PROVE  RunnerInv'
<1> USE RunnerAssumption DEF RunnerInv, Return, Release, Go, runner, work, ends, Loops
<1>1. RunnerTypeOK'
  BY DEF RunnerTypeOK, Pcs
<1>2. CloserInv'
  BY DEF CloserInv, RunnerTypeOK, Closes, Awaits, Waits
<1>3. ~late' => ThreadInv'
  BY DEF ThreadInv, CloserInv, RunnerTypeOK, Closes, Awaits, Waits
<1> QED
  BY <1>1, <1>2, <1>3

LEMMA StepInterrupted ==
  ASSUME RunnerInv, NEW c \in Callers, Interrupted(c)
  PROVE  RunnerInv'
<1> USE RunnerAssumption DEF RunnerInv, Interrupted, Release, Go, runner, ends, Loops
<1>1. RunnerTypeOK'
  BY DEF RunnerTypeOK, Pcs
<1>2. CloserInv'
  BY DEF CloserInv, RunnerTypeOK, Closes, Awaits, Waits
<1>3. ~late' => ThreadInv'
  <2> SUFFICES ASSUME ~late PROVE ThreadInv'
    OBVIOUS
  <2>1. threads[1] = "running" /\ loop = 1 /\ thread = 1
    BY DEF ThreadInv
  <2>2. \A d \in Callers : pc'[d] \in Waits \/ pc'[d] = "closeresult" => pc'[d] = pc[d]
    BY DEF RunnerTypeOK, Waits
  <2>3. \A l \in Loops : l # 1 => orphans'[l] = orphans[l]
    <3>1. on[c] = 1
      BY DEF ThreadInv, RunnerTypeOK
    <3> QED
      BY <3>1 DEF RunnerTypeOK
  <2> QED
    BY <2>1, <2>2, <2>3 DEF ThreadInv
<1> QED
  BY <1>1, <1>2, <1>3

LEMMA StepStop ==
  ASSUME RunnerInv, NEW c \in Callers, Stop(c)
  PROVE  RunnerInv'
<1> USE RunnerAssumption DEF Loops
<1>0. /\ RunnerTypeOK /\ CloserInv /\ (~late => ThreadInv)
      /\ pc[c] = "closeresult" /\ closed' = TRUE
      /\ pc' = [pc EXCEPT ![c] = "joining"] /\ on' = [on EXCEPT ![c] = 0]
      /\ threads' = [threads EXCEPT ![target] = "stopping"]
      /\ orphans' = IF on[c] = 0 THEN orphans ELSE [orphans EXCEPT ![on[c]] = @ + 1]
      /\ late' = late /\ loop' = loop /\ ready' = ready /\ thread' = thread /\ lock' = lock
      /\ closeEnds' = closeEnds /\ target' = target /\ runs' = runs /\ closing' = closing
  BY DEF RunnerInv, Stop, Go, ends
<1>1. \A d \in Callers : /\ pc'[d] = IF d = c THEN "joining" ELSE pc[d]
                         /\ on'[d] = IF d = c THEN 0 ELSE on[d]
  BY <1>0 DEF RunnerTypeOK
<1>2. lock = c
  BY <1>0 DEF RunnerTypeOK
<1>3. \A d \in Callers : d # c => pc[d] \in {"idle", "run"} /\ on[d] = 0
  <2>1. \A d \in Callers : d # c => pc[d] \in {"idle", "run", "close"}
    BY <1>0, <1>2 DEF RunnerTypeOK
  <2>2. \A d \in Callers : d # c => pc[d] # "close"
    BY <1>0 DEF CloserInv, Closes
  <2> QED
    BY <1>0, <2>1, <2>2 DEF CloserInv, Awaits
<1>4. RunnerTypeOK'
  <2>1. pc' \in [Callers -> Pcs] /\ on' \in [Callers -> 0 .. MaxLoops]
    BY <1>0 DEF RunnerTypeOK, Pcs
  <2>2. \A d \in Callers : lock' = d <=> pc'[d] \notin {"idle", "run", "close"}
    BY <1>0, <1>1, <1>2 DEF RunnerTypeOK
  <2>3. threads' \in [Loops -> {"none", "spawned", "assigned", "running", "stopping", "dead"}]
    BY <1>0 DEF RunnerTypeOK
  <2>4. orphans' \in [Loops -> Nat]
    <3>1. orphans \in [Loops -> Nat]
      BY <1>0 DEF RunnerTypeOK
    <3>2. CASE on[c] # 0
      <4>1. orphans' = [orphans EXCEPT ![on[c]] = orphans[on[c]] + 1]
        BY <1>0, <3>2
      <4>2. on[c] \in Loops
        BY <1>0, <3>2 DEF RunnerTypeOK
      <4>3. orphans[on[c]] + 1 \in Nat
        BY <3>1, <4>2
      <4> HIDE DEF Loops
      <4> QED
        BY <3>1, <4>1, <4>2, <4>3
    <3> QED
      BY <1>0, <3>1, <3>2
  <2> QED
    BY <1>0, <2>1, <2>2, <2>3, <2>4 DEF RunnerTypeOK
<1>5. CloserInv'
  <2>1. \A d \in Callers : pc'[d] \in Closes => d = c
    BY <1>1, <1>3 DEF Closes
  <2>2. closing
    BY <1>0 DEF CloserInv, Closes
  <2>3. \A d \in Callers : on'[d] = 0
    BY <1>1, <1>3
  <2>4. \A d \in Callers : pc'[d] \notin Waits \cup Awaits \cup {"close", "closeensure"}
    BY <1>1, <1>3 DEF Waits, Awaits
  <2> QED
    BY <1>0, <2>1, <2>2, <2>3, <2>4 DEF CloserInv
<1>6. ~late' => ThreadInv'
  <2> SUFFICES ASSUME ~late PROVE ThreadInv'
    BY <1>0
  <2>1. ThreadInv /\ target = 1 /\ threads[1] = "running"
    BY <1>0 DEF ThreadInv
  <2>2. threads'[1] = "stopping" /\ \A l \in Loops : l # 1 => threads'[l] = threads[l]
    BY <1>0, <2>1 DEF RunnerTypeOK
  <2>3. \A l \in Loops : l # 1 => orphans'[l] = orphans[l]
    <3>1. on[c] \in {0, 1}
      BY <1>0, <2>1 DEF ThreadInv, RunnerTypeOK
    <3> QED
      BY <1>0, <3>1 DEF RunnerTypeOK
  <2>4. \A d \in Callers : on'[d] = 0 /\ pc'[d] \notin Waits /\ pc'[d] # "closeresult"
    BY <1>1, <1>3 DEF Waits
  <2>5. closeEnds # "joined"
    BY <2>1 DEF ThreadInv
  <2> QED
    BY <1>0, <2>1, <2>2, <2>3, <2>4, <2>5 DEF ThreadInv
<1> QED
  BY <1>4, <1>5, <1>6 DEF RunnerInv

LEMMA StepJoined ==
  ASSUME RunnerInv, NEW c \in Callers, Joined(c)
  PROVE  RunnerInv'
<1> USE RunnerAssumption DEF RunnerInv, Joined, Release, Go, runner, work, ends, Loops
<1>1. RunnerTypeOK'
  BY DEF RunnerTypeOK, Pcs
<1>2. CloserInv'
  BY DEF CloserInv, RunnerTypeOK, Closes, Awaits, Waits
<1>3. ~late' => ThreadInv'
  BY DEF ThreadInv, CloserInv, RunnerTypeOK, Closes, Awaits, Waits
<1> QED
  BY <1>1, <1>2, <1>3

LEMMA StepJoinTimesOut ==
  ASSUME RunnerInv, NEW c \in Callers, JoinTimesOut(c)
  PROVE  RunnerInv'
<1> USE RunnerAssumption DEF RunnerInv, JoinTimesOut, Release, Go, runner, work, ends, Loops
<1>1. RunnerTypeOK'
  BY DEF RunnerTypeOK, Pcs
<1>2. CloserInv'
  BY DEF CloserInv, RunnerTypeOK, Closes, Awaits, Waits
<1>3. ~late' => ThreadInv'
  BY DEF ThreadInv, CloserInv, RunnerTypeOK, Closes, Awaits, Waits
<1> QED
  BY <1>1, <1>2, <1>3

LEMMA StepAssign ==
  ASSUME RunnerInv, NEW l \in Loops, Assign(l)
  PROVE  RunnerInv'
<1> USE RunnerAssumption DEF RunnerInv, Assign, Go, runner, work, ends, Loops
<1>1. RunnerTypeOK'
  BY DEF RunnerTypeOK, Pcs
<1>2. CloserInv'
  BY DEF CloserInv, RunnerTypeOK, Closes, Awaits, Waits
<1>3. ~late' => ThreadInv'
  BY DEF ThreadInv, CloserInv, RunnerTypeOK, Closes, Awaits, Waits
<1> QED
  BY <1>1, <1>2, <1>3

LEMMA StepSetReady ==
  ASSUME RunnerInv, NEW l \in Loops, SetReady(l)
  PROVE  RunnerInv'
<1> USE RunnerAssumption DEF RunnerInv, SetReady, Go, runner, work, ends, Loops
<1>1. RunnerTypeOK'
  BY DEF RunnerTypeOK, Pcs
<1>2. CloserInv'
  BY DEF CloserInv, RunnerTypeOK, Closes, Awaits, Waits
<1>3. ~late' => ThreadInv'
  BY DEF ThreadInv, CloserInv, RunnerTypeOK, Closes, Awaits, Waits
<1> QED
  BY <1>1, <1>2, <1>3

LEMMA StepCoroutineEnds ==
  ASSUME RunnerInv, NEW l \in Loops, CoroutineEnds(l)
  PROVE  RunnerInv'
<1> USE RunnerAssumption DEF RunnerInv, CoroutineEnds, Go, runner, work, ends, Loops
<1>1. RunnerTypeOK'
  BY DEF RunnerTypeOK, Pcs
<1>2. CloserInv'
  BY DEF CloserInv, RunnerTypeOK, Closes, Awaits, Waits
<1>3. ~late' => ThreadInv'
  BY DEF ThreadInv, CloserInv, RunnerTypeOK, Closes, Awaits, Waits
<1> QED
  BY <1>1, <1>2, <1>3

LEMMA StepOrphanEnds ==
  ASSUME RunnerInv, NEW l \in Loops, OrphanEnds(l)
  PROVE  RunnerInv'
<1> USE RunnerAssumption DEF RunnerInv, OrphanEnds, Go, runner, work, ends, Loops
<1>1. RunnerTypeOK'
  BY DEF RunnerTypeOK, Pcs
<1>2. CloserInv'
  BY DEF CloserInv, RunnerTypeOK, Closes, Awaits, Waits
<1>3. ~late' => ThreadInv'
  BY DEF ThreadInv, CloserInv, RunnerTypeOK, Closes, Awaits, Waits
<1> QED
  BY <1>1, <1>2, <1>3

LEMMA StepLoopEnds ==
  ASSUME RunnerInv, NEW l \in Loops, LoopEnds(l)
  PROVE  RunnerInv'
<1> USE RunnerAssumption DEF RunnerInv, LoopEnds, Go, runner, work, ends, Loops
<1>1. RunnerTypeOK'
  BY DEF RunnerTypeOK, Pcs
<1>2. CloserInv'
  BY DEF CloserInv, RunnerTypeOK, Closes, Awaits, Waits
<1>3. ~late' => ThreadInv'
  BY DEF ThreadInv, CloserInv, RunnerTypeOK, Closes, Awaits, Waits
<1> QED
  BY <1>1, <1>2, <1>3

-----------------------------------------------------------------------------
(* The invariant is inductive, for any callers and any number of threads.       *)
THEOREM RunnerInvariance == RunnerSpec => []RunnerInv
<1>1. ASSUME RunnerInv, [RunnerNext]_runnerVars
      PROVE  RunnerInv'
  <2>1. ASSUME NEW c \in Callers, Run(c) \/ Close(c) \/ Interrupted(c) \/ CallerStep(c)
        PROVE  RunnerInv'
    BY <1>1, <2>1, StepRun, StepClose, StepInterrupted, StepAcquire, StepRefused,
       StepUseLoop, StepStartLoop, StepLoopIsReady, StepStartTimesOut, StepReturn,
       StepStop, StepJoined, StepJoinTimesOut DEF CallerStep
  <2>2. ASSUME NEW l \in Loops, LoopStep(l)
        PROVE  RunnerInv'
    BY <1>1, <2>2, StepAssign, StepSetReady, StepCoroutineEnds, StepOrphanEnds,
       StepLoopEnds
    DEF LoopStep
  <2>3. CASE UNCHANGED runnerVars
    BY <1>1, <2>3 DEF RunnerInv, RunnerTypeOK, CloserInv, ThreadInv, runnerVars, runner,
       work, ends
  <2> QED
    BY <1>1, <2>1, <2>2, <2>3 DEF RunnerNext
<1> QED
  BY <1>1, RunnerStarts, PTL DEF RunnerSpec

(* However callers are interrupted, time out and close, their coroutines run    *)
(* one at a time on the one loop (SyncRunner.run, _start_loop_locked).          *)
THEOREM CallsRunOneAtATime == RunnerSpec => []OneAtATime
<1>1. ASSUME RunnerInv PROVE OneAtATime
  <2> USE <1>1, RunnerAssumption DEF RunnerInv, Loops
  <2> DEFINE Busy == {c \in Callers : on[c] # 0}
  <2>1. OneLoop
    <3> SUFFICES ASSUME ~late
                 PROVE  /\ Cardinality(Alive) <= 1
                        /\ \A c \in Callers : on[c] # 0 => Alive = {on[c]}
      BY DEF OneLoop
    <3>1. Alive \subseteq {1}
      BY DEF Alive, ThreadInv
    <3>2. Cardinality(Alive) <= 1
      <4>1. Alive = {} \/ Alive = {1}
        BY <3>1
      <4>2. Cardinality({}) = 0 /\ Cardinality({1}) = 1
        BY FS_EmptySet, FS_Singleton
      <4> HIDE DEF RunnerInv
      <4> QED
        BY <4>1, <4>2
    <3>3. ASSUME NEW c \in Callers, on[c] # 0 PROVE Alive = {on[c]}
      <4>1. threads[1] = "running"
        BY <3>3 DEF ThreadInv
      <4>2. on[c] = 1
        BY <3>3 DEF ThreadInv, RunnerTypeOK
      <4> QED
        BY <3>1, <4>1, <4>2 DEF Alive
    <3> QED
      BY <3>2, <3>3
  <2>2. Serialized
    <3>1. \A c, d \in Busy : c = d
      BY DEF CloserInv, Awaits, RunnerTypeOK
    <3>2. CASE Busy = {}
      BY <3>2, FS_EmptySet DEF Serialized
    <3>3. CASE Busy # {}
      <4>1. PICK c \in Callers : Busy = {c}
        BY <3>1, <3>3
      <4>2. Cardinality({c}) = 1
        BY FS_Singleton
      <4> QED
        BY <4>1, <4>2 DEF Serialized
    <3> QED
      BY <3>2, <3>3
  <2> QED
    BY <2>1, <2>2 DEF OneAtATime
<1> QED
  BY <1>1, RunnerInvariance, PTL

(* Once close() has returned no loop and no coroutine is left, as long as no    *)
(* start was given up (SyncRunner.close, _run_loop).                            *)
THEOREM CloseLeavesNothing == RunnerSpec => []ClosedIsQuiet
<1>1. ASSUME RunnerInv PROVE ClosedIsQuiet
  <2> SUFFICES ASSUME closeEnds = "joined", ~late
               PROVE  /\ Alive = {}
                      /\ \A c \in Callers : on[c] = 0
                      /\ \A l \in Loops : orphans[l] = 0
    BY DEF ClosedIsQuiet
  <2> QED
    BY <1>1 DEF RunnerInv, ThreadInv, Alive, Loops
<1> QED
  BY <1>1, RunnerInvariance, PTL
=============================================================================
