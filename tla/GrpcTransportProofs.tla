------------------------ MODULE GrpcTransportProofs -------------------------
(* Proofs about GrpcTransport: the heartbeat that is one RPC per job, for any   *)
(* set of jobs and any timings; calls, for jobs with any fields and for every   *)
(* error of the catalog; listings, of any length and by any steps; and          *)
(* workflows over both transports, for any jobs and names.                      *)
EXTENDS GrpcTransport, FiniteSetTheorems, TLAPS

(* The most jobs a heartbeat may name, and the time k RPCs may take.            *)
Width == Cardinality(Jobs)
Beats(k) == k * RpcLatency

Waiting == {pending[i] : i \in DOMAIN pending}
Beating == loop \in {"sent", "served"}

HeartbeatTypes ==
    /\ running \in Seq(Jobs)
    /\ \A i, k \in DOMAIN running : running[i] = running[k] => i = k
    /\ Len(running) = Cardinality(Executing)
    /\ localLease \in [Jobs -> 0 .. Visibility] /\ serverLease \in [Jobs -> 0 .. Visibility]
    /\ loop \in {"off", "rest", "sent", "served"}
    /\ beatTimer \in 0 .. LongestRest /\ beatBackoff \in 1 .. MaxBeatBackoff
    /\ rpcAge \in 0 .. RpcLatency
    /\ pending \in Seq(Jobs \cup {Idle})
    /\ snapshot \subseteq Jobs /\ renewed \subseteq snapshot /\ missed \subseteq Executing
    /\ directed \subseteq Directions /\ answer \in Directions \cup {"none", "error"}
    /\ workerState \in Directions

(* What is left of a heartbeat: every job it names is renewed or has its turn,  *)
(* and no other.                                                                *)
TurnInv ==
    Beating =>
      /\ Len(pending) >= 1
      /\ Jobs # {} => Len(pending) <= Width
      /\ snapshot \subseteq renewed \cup Waiting /\ Waiting \subseteq snapshot \cup {Idle}
      /\ loop = "served" =>
           /\ answer # "none"
           /\ answer # "error" => pending[1] \in renewed \cup {Idle}

(* The server's lease of a job that was renewed in this heartbeat is as old as  *)
(* the RPCs since; the worker's is at most the RPCs of one heartbeat longer.    *)
AgeInv ==
    loop # "off" => \A j \in Executing :
      /\ localLease[j] <= serverLease[j] + Beats(Width)
      /\ Beating /\ j \in renewed =>
           serverLease[j] + Beats(Width - Len(pending)) + rpcAge >= Visibility

(* A lease lasts until its turn: through the rest and a whole heartbeat, until  *)
(* the RPC in the queue, or, for a job that began after the heartbeat, until    *)
(* the next one.                                                                *)
Sufficient == Visibility > LongestRest + (2 * Width + 1) * RpcLatency

TurnComes ==
    Sufficient => \A j \in Executing \ missed :
      /\ loop = "rest" => serverLease[j] > beatTimer + Beats(Width)
      /\ Beating /\ j \notin renewed =>
           /\ \A p \in DOMAIN pending : pending[p] = j => serverLease[j] + rpcAge > Beats(p)
           /\ j \notin Waiting =>
                serverLease[j] + Beats(Width - Len(pending)) + rpcAge + RpcLatency >= Visibility

(* The inductive invariant of the heartbeat.                                    *)
HeartbeatInv == HeartbeatTypes /\ TurnInv /\ AgeInv /\ TurnComes

-----------------------------------------------------------------------------
(* Lemmas on the timings and on the registry                                    *)

LEMMA BeatsFacts ==
    /\ Width \in Nat /\ RpcLatency \in Nat
    /\ \A k \in Nat : Beats(k) \in Nat /\ Beats(k + 1) = Beats(k) + RpcLatency
    /\ \A a, b \in Nat : a <= b => Beats(a) <= Beats(b)
    /\ Beats(0) = 0 /\ Beats(1) = RpcLatency
    /\ (2 * Width + 1) * RpcLatency = Beats(Width) + Beats(Width) + RpcLatency
<1>1. Width \in Nat /\ RpcLatency \in Nat
  BY HeartbeatAssumption, FS_CardinalityType DEF Width
<1>2. ASSUME NEW k \in Nat
      PROVE  Beats(k) \in Nat /\ Beats(k + 1) = Beats(k) + RpcLatency
  BY <1>1 DEF Beats
<1>3. ASSUME NEW a \in Nat, NEW b \in Nat, a <= b
      PROVE  Beats(a) <= Beats(b)
  <2>1. PICK d \in Nat : b = a + d
    BY <1>3
  <2>2. b * RpcLatency = a * RpcLatency + d * RpcLatency
    BY <1>1, <2>1
  <2>3. a * RpcLatency \in Nat /\ d * RpcLatency \in Nat
    BY <1>1
  <2> QED BY <2>2, <2>3 DEF Beats
<1>4. Beats(0) = 0 /\ Beats(1) = RpcLatency
  BY <1>1 DEF Beats
<1>5. (2 * Width + 1) * RpcLatency = Beats(Width) + Beats(Width) + RpcLatency
  BY <1>1 DEF Beats
<1> QED BY <1>1, <1>2, <1>3, <1>4, <1>5

LEMMA TimingFacts ==
    /\ Visibility \in Nat /\ Interval \in Nat /\ MaxBeatBackoff \in Nat
    /\ Visibility >= 1 /\ Interval >= 1 /\ MaxBeatBackoff >= 1
    /\ RpcLatency \in Nat /\ RpcLatency < Visibility
    /\ LongestRest \in Nat /\ Interval <= LongestRest /\ MaxBeatBackoff <= LongestRest
    /\ Idle \notin Jobs /\ IsFiniteSet(Jobs)
BY HeartbeatAssumption DEF LongestRest

(* What a sequence of distinct jobs is after a job is added or taken out.       *)
LEMMA Registered ==
    ASSUME NEW s \in Seq(Jobs), NEW j \in Jobs,
           \A i, k \in DOMAIN s : s[i] = s[k] => i = k,
           \A i \in DOMAIN s : s[i] # j
    PROVE  LET new == Append(s, j)
           IN /\ new \in Seq(Jobs) /\ Len(new) = Len(s) + 1
              /\ \A i, k \in DOMAIN new : new[i] = new[k] => i = k
              /\ {new[i] : i \in DOMAIN new} = {s[i] : i \in DOMAIN s} \cup {j}
<1> DEFINE new == Append(s, j)
<1>1. /\ new \in Seq(Jobs) /\ Len(s) \in Nat /\ Len(new) = Len(s) + 1
      /\ DOMAIN s = 1 .. Len(s) /\ DOMAIN new = 1 .. (Len(s) + 1)
      /\ \A i \in DOMAIN s : new[i] = s[i]
      /\ new[Len(s) + 1] = j
  OBVIOUS
<1> HIDE DEF new
<1>2. \A i, k \in DOMAIN new : new[i] = new[k] => i = k
  BY <1>1
<1>3. {new[i] : i \in DOMAIN new} = {s[i] : i \in DOMAIN s} \cup {j}
  BY <1>1
<1> QED BY <1>1, <1>2, <1>3 DEF new

LEMMA Unregistered ==
    ASSUME NEW s \in Seq(Jobs), NEW n \in DOMAIN s,
           \A i, k \in DOMAIN s : s[i] = s[k] => i = k
    PROVE  /\ RemoveAt(s, n) \in Seq(Jobs) /\ Len(RemoveAt(s, n)) = Len(s) - 1
           /\ \A i, k \in DOMAIN RemoveAt(s, n) :
                 RemoveAt(s, n)[i] = RemoveAt(s, n)[k] => i = k
           /\ {RemoveAt(s, n)[i] : i \in DOMAIN RemoveAt(s, n)}
                = {s[i] : i \in DOMAIN s} \ {s[n]}
<1> DEFINE new == RemoveAt(s, n)
           before == SubSeq(s, 1, n - 1)
           after == SubSeq(s, n + 1, Len(s))
<1>1. /\ Len(s) \in Nat /\ DOMAIN s = 1 .. Len(s) /\ n \in Nat /\ n >= 1 /\ n <= Len(s)
  OBVIOUS
<1>2. /\ before \in Seq(Jobs) /\ Len(before) = n - 1
      /\ \A i \in 1 .. (n - 1) : before[i] = s[i]
  BY <1>1
<1>3. /\ after \in Seq(Jobs) /\ Len(after) = Len(s) - n
      /\ \A i \in 1 .. (Len(s) - n) : after[i] = s[n + i]
  BY <1>1
<1>4. new = before \o after
  BY DEF RemoveAt
<1> HIDE DEF before, after
<1>5. /\ before \o after \in Seq(Jobs) /\ Len(before \o after) = Len(s) - 1
      /\ DOMAIN (before \o after) = 1 .. (Len(s) - 1)
      /\ \A i \in 1 .. (Len(s) - 1) :
            /\ i < n => (before \o after)[i] = before[i]
            /\ i >= n => (before \o after)[i] = after[i - (n - 1)]
  <2>1. /\ before \o after \in Seq(Jobs)
        /\ Len(before \o after) = Len(before) + Len(after)
        /\ \A i \in 1 .. (Len(before) + Len(after)) :
              (before \o after)[i] =
                IF i <= Len(before) THEN before[i] ELSE after[i - Len(before)]
    BY <1>2, <1>3
  <2>2. Len(before) + Len(after) = Len(s) - 1
    BY <1>1, <1>2, <1>3
  <2>3. DOMAIN (before \o after) = 1 .. (Len(s) - 1)
    BY <2>1, <2>2
  <2>4. ASSUME NEW i \in 1 .. (Len(s) - 1)
        PROVE  /\ i < n => (before \o after)[i] = before[i]
               /\ i >= n => (before \o after)[i] = after[i - (n - 1)]
    <3>1. (i <= Len(before)) <=> i < n
      BY <1>1, <1>2
    <3>2. ~(i < n) <=> i >= n
      BY <1>1
    <3> QED BY <1>2, <2>1, <2>2, <3>1, <3>2
  <2> QED BY <2>1, <2>2, <2>3, <2>4
<1> HIDE DEF new
<1>6. /\ new \in Seq(Jobs) /\ Len(new) = Len(s) - 1 /\ DOMAIN new = 1 .. (Len(s) - 1)
      /\ \A i \in DOMAIN new : new[i] = IF i < n THEN s[i] ELSE s[i + 1]
  <2>1. ASSUME NEW i \in 1 .. (Len(s) - 1), i >= n
        PROVE  after[i - (n - 1)] = s[i + 1]
    <3>1. i - (n - 1) \in 1 .. (Len(s) - n) /\ n + (i - (n - 1)) = i + 1
      BY <1>1, <2>1
    <3> QED BY <1>3, <3>1
  <2>2. ASSUME NEW i \in 1 .. (Len(s) - 1)
        PROVE  new[i] = IF i < n THEN s[i] ELSE s[i + 1]
    <3>1. CASE i < n
      <4>1. i \in 1 .. (n - 1)
        BY <1>1, <3>1
      <4> QED BY <1>2, <1>4, <1>5, <3>1, <4>1
    <3>2. CASE i >= n
      <4>1. ~(i < n)
        BY <1>1, <3>2
      <4> QED BY <1>4, <1>5, <2>1, <3>2, <4>1
    <3> QED BY <1>1, <3>1, <3>2
  <2> QED BY <1>4, <1>5, <2>2
<1>7. \A i, k \in DOMAIN new : new[i] = new[k] => i = k
  BY <1>1, <1>6
<1>8. {new[i] : i \in DOMAIN new} = {s[i] : i \in DOMAIN s} \ {s[n]}
  <2>1. ASSUME NEW i \in DOMAIN new
        PROVE  new[i] # s[n] /\ \E k \in DOMAIN s : new[i] = s[k]
    BY <1>1, <1>6
  <2>2. ASSUME NEW k \in DOMAIN s, s[k] # s[n]
        PROVE  \E i \in DOMAIN new : new[i] = s[k]
    <3>1. CASE k < n
      <4>1. k \in DOMAIN new /\ new[k] = s[k]
        BY <1>1, <1>6, <3>1
      <4> QED BY <4>1
    <3>2. CASE k > n
      <4>1. k - 1 \in DOMAIN new /\ new[k - 1] = s[k]
        BY <1>1, <1>6, <3>2
      <4> QED BY <4>1
    <3> QED BY <1>1, <2>2, <3>1, <3>2
  <2> QED BY <2>1, <2>2
<1> QED BY <1>6, <1>7, <1>8 DEF new

-----------------------------------------------------------------------------
(* The heartbeat's invariant, action by action                                  *)

LEMMA HeartbeatStarts ==
    ASSUME NEW state \in {"rest", "off"}, HeartbeatStart(state)
    PROVE  HeartbeatInv
<1>1. Executing = {}
  BY DEF HeartbeatStart, Executing
<1>2. Cardinality({}) = 0
  BY FS_EmptySet
<1>3. HeartbeatTypes
  <2>1. running \in Seq(Jobs) /\ Len(running) = 0
    BY DEF HeartbeatStart
  <2>2. \A i, k \in DOMAIN running : running[i] = running[k] => i = k
    BY DEF HeartbeatStart
  <2>3. 0 \in 0 .. Visibility /\ 0 \in 0 .. LongestRest /\ 0 \in 0 .. RpcLatency
        /\ 1 \in 1 .. MaxBeatBackoff
    BY TimingFacts
  <2>4. pending \in Seq(Jobs \cup {Idle})
    BY DEF HeartbeatStart
  <2> QED BY <1>1, <1>2, <2>1, <2>2, <2>3, <2>4 DEF HeartbeatStart, HeartbeatTypes, Directions
<1>4. ~Beating
  BY DEF HeartbeatStart, Beating
<1> QED BY <1>1, <1>3, <1>4 DEF HeartbeatInv, TurnInv, AgeInv, TurnComes

(* The bound a lease is compared with grows with every RPC that is answered.    *)
LEMMA Turns ==
    ASSUME NEW k \in Nat, k >= 1, k <= Width
    PROVE  /\ Beats(Width - k) \in Nat /\ Beats(k) \in Nat /\ Beats(Width) \in Nat
           /\ Beats(Width - k) + RpcLatency <= Beats(Width)
           /\ Beats(k) <= Beats(Width) /\ RpcLatency <= Beats(Width)
<1>1. Width - k \in Nat /\ (Width - k) + 1 \in Nat /\ (Width - k) + 1 <= Width
  BY BeatsFacts
<1>2. Beats((Width - k) + 1) = Beats(Width - k) + RpcLatency
  BY <1>1, BeatsFacts
<1>3. 1 \in Nat /\ 1 <= Width
  BY BeatsFacts
<1> QED BY <1>1, <1>2, <1>3, BeatsFacts

LEMMA JobsAreMany ==
    ASSUME NEW j \in Jobs
    PROVE  Width \in Nat /\ Width >= 1
<1>1. {j} \subseteq Jobs /\ Cardinality({j}) = 1
  BY FS_Singleton
<1> QED BY <1>1, FS_Subset, FS_CardinalityType, TimingFacts, BeatsFacts DEF Width

LEMMA SufficientMeans ==
    Sufficient => Visibility > LongestRest + Beats(Width) + Beats(Width) + RpcLatency
BY BeatsFacts, TimingFacts DEF Sufficient

LEMMA BeginJobKeeps ==
    ASSUME HeartbeatInv, NEW j \in Jobs, BeginJob(j)
    PROVE  HeartbeatInv'
<1>1. PICK lag \in 0 .. (IF loop # "rest" /\ j \in renewed THEN rpcAge ELSE RpcLatency) :
          serverLease' = [serverLease EXCEPT ![j] = Visibility - lag]
  BY DEF BeginJob
<1>2. /\ loop # "off" /\ j \notin Executing
      /\ running' = Append(running, j)
      /\ localLease' = [localLease EXCEPT ![j] = Visibility]
      /\ missed' = missed \ {j}
      /\ rpcAge' = rpcAge /\ pending' = pending /\ snapshot' = snapshot
      /\ directed' = directed /\ answer' = answer /\ renewed' = renewed
      /\ loop' = loop /\ beatTimer' = beatTimer /\ beatBackoff' = beatBackoff
      /\ workerState' = workerState
  BY DEF BeginJob, call
<1>3. HeartbeatTypes /\ TurnInv /\ AgeInv /\ TurnComes
  BY DEF HeartbeatInv
<1>4. lag \in Nat /\ lag <= RpcLatency /\ Visibility - lag \in 0 .. Visibility
      /\ (loop # "rest" /\ j \in renewed => lag <= rpcAge)
  <2>1. rpcAge \in Nat /\ rpcAge <= RpcLatency
    BY <1>3, TimingFacts DEF HeartbeatTypes
  <2>2. lag \in Nat /\ lag <= RpcLatency
    BY <2>1, TimingFacts
  <2>3. Visibility - lag \in 0 .. Visibility
    BY <2>2, TimingFacts
  <2>4. loop # "rest" /\ j \in renewed => lag <= rpcAge
    BY <2>1
  <2> QED BY <2>2, <2>3, <2>4
<1>5. /\ running' \in Seq(Jobs) /\ Len(running') = Len(running) + 1
      /\ \A i, k \in DOMAIN running' : running'[i] = running'[k] => i = k
      /\ Executing' = Executing \cup {j}
  <2>1. /\ running \in Seq(Jobs)
        /\ \A i, k \in DOMAIN running : running[i] = running[k] => i = k
        /\ \A i \in DOMAIN running : running[i] # j
    BY <1>2, <1>3 DEF HeartbeatTypes, Executing
  <2> QED BY <1>2, <2>1, Registered DEF Executing
<1>6. /\ serverLease' \in [Jobs -> 0 .. Visibility] /\ serverLease'[j] = Visibility - lag
      /\ localLease' \in [Jobs -> 0 .. Visibility] /\ localLease'[j] = Visibility
      /\ \A i \in Jobs : i # j => serverLease'[i] = serverLease[i] /\ localLease'[i] = localLease[i]
  <2>1. Visibility \in 0 .. Visibility
    BY TimingFacts
  <2> QED BY <1>1, <1>2, <1>3, <1>4, <2>1 DEF HeartbeatTypes
<1>7. Executing \subseteq Jobs
  BY <1>3 DEF HeartbeatTypes, Executing
<1>8. HeartbeatTypes'
  <2>1. Len(running') = Cardinality(Executing')
    <3>1. IsFiniteSet(Executing)
      BY <1>7, FS_Subset, TimingFacts
    <3>2. Cardinality(Executing \cup {j}) = Cardinality(Executing) + 1
      BY <1>2, <3>1, FS_AddElement
    <3> QED BY <1>3, <1>5, <3>2 DEF HeartbeatTypes
  <2>2. missed' \subseteq Executing'
    BY <1>2, <1>3, <1>5 DEF HeartbeatTypes
  <2> QED BY <1>2, <1>3, <1>5, <1>6, <2>1, <2>2 DEF HeartbeatTypes
<1>9. TurnInv'
  BY <1>2, <1>3 DEF TurnInv, Beating, Waiting
<1>10. Width \in Nat /\ Width >= 1 /\ RpcLatency <= Beats(Width) /\ Beats(Width) \in Nat
  BY JobsAreMany, Turns, BeatsFacts
<1>11. Beating => /\ Len(pending) \in Nat /\ Len(pending) >= 1 /\ Len(pending) <= Width
                  /\ Beats(Width - Len(pending)) \in Nat
  BY <1>3, Turns DEF TurnInv, HeartbeatTypes
<1>12. rpcAge \in Nat /\ rpcAge <= RpcLatency /\ beatTimer \in Nat /\ beatTimer <= LongestRest
  BY <1>3, TimingFacts DEF HeartbeatTypes
<1>13. AgeInv'
  <2>1. ASSUME NEW i \in Executing, i # j
        PROVE  /\ localLease'[i] <= serverLease'[i] + Beats(Width)
               /\ Beating /\ i \in renewed =>
                    serverLease'[i] + Beats(Width - Len(pending)) + rpcAge >= Visibility
    BY <1>2, <1>3, <1>6, <1>7, <2>1 DEF AgeInv
  <2>2. /\ localLease'[j] <= serverLease'[j] + Beats(Width)
        /\ Beating /\ j \in renewed =>
             serverLease'[j] + Beats(Width - Len(pending)) + rpcAge >= Visibility
    <3>1. localLease'[j] <= serverLease'[j] + Beats(Width)
      BY <1>4, <1>6, <1>10, TimingFacts
    <3>2. ASSUME Beating, j \in renewed
          PROVE  serverLease'[j] + Beats(Width - Len(pending)) + rpcAge >= Visibility
      <4>1. lag <= rpcAge
        BY <1>4, <3>2 DEF Beating
      <4> QED BY <1>4, <1>6, <1>11, <1>12, <3>2, <4>1, TimingFacts
    <3> QED BY <3>1, <3>2
  <2> QED BY <1>2, <1>5, <2>1, <2>2 DEF AgeInv, Beating
<1>14. TurnComes'
  <2> SUFFICES ASSUME Sufficient, NEW i \in Executing', i \notin missed'
               PROVE  /\ loop = "rest" => serverLease'[i] > beatTimer + Beats(Width)
                      /\ Beating /\ i \notin renewed =>
                           /\ \A p \in DOMAIN pending :
                                 pending[p] = i => serverLease'[i] + rpcAge > Beats(p)
                           /\ i \notin Waiting =>
                                serverLease'[i] + Beats(Width - Len(pending)) + rpcAge
                                  + RpcLatency >= Visibility
    BY <1>2 DEF TurnComes, Sufficient, Beating, Waiting
  <2>1. CASE i # j
    <3>1. i \in Executing /\ i \notin missed /\ serverLease'[i] = serverLease[i]
      BY <1>2, <1>5, <1>6, <1>7, <2>1
    <3> QED BY <1>3, <3>1 DEF TurnComes
  <2>2. CASE i = j
    <3>1. serverLease'[i] = Visibility - lag
      BY <1>6, <2>2
    <3>2. Visibility > LongestRest + Beats(Width) + Beats(Width) + RpcLatency
      BY SufficientMeans
    <3>3. serverLease'[i] > LongestRest + Beats(Width) + Beats(Width)
      BY <1>4, <1>10, <3>1, <3>2, TimingFacts
    <3>4. loop = "rest" => serverLease'[i] > beatTimer + Beats(Width)
      BY <1>10, <1>12, <3>3, <1>6, <2>2, TimingFacts
    <3>5. ASSUME Beating, NEW p \in DOMAIN pending
          PROVE  serverLease'[i] + rpcAge > Beats(p)
      <4>1. p \in Nat /\ p >= 1 /\ p <= Width
        <5>1. pending \in Seq(Jobs \cup {Idle})
          BY <1>3 DEF HeartbeatTypes
        <5>2. p \in 1 .. Len(pending)
          BY <5>1
        <5> QED BY <1>10, <1>11, <3>5, <5>2
      <4>2. Beats(p) \in Nat /\ Beats(p) <= Beats(Width)
        BY <4>1, Turns
      <4> QED BY <1>6, <1>10, <1>12, <2>2, <3>3, <4>2, TimingFacts
    <3>6. Beating => serverLease'[i] + Beats(Width - Len(pending)) + rpcAge + RpcLatency >= Visibility
      BY <1>4, <1>11, <1>12, <3>1, TimingFacts
    <3> QED BY <3>4, <3>5, <3>6
  <2> QED BY <2>1, <2>2
<1> QED BY <1>8, <1>9, <1>13, <1>14 DEF HeartbeatInv

LEMMA EndJobKeeps ==
    ASSUME HeartbeatInv, NEW j \in Jobs, EndJob(j)
    PROVE  HeartbeatInv'
<1>1. PICK n \in DOMAIN running :
        /\ running[n] = j
        /\ running' = RemoveAt(running, n)
  BY DEF EndJob
<1>2. /\ loop # "off" /\ j \in Executing
      /\ localLease' = [localLease EXCEPT ![j] = 0]
      /\ serverLease' = [serverLease EXCEPT ![j] = 0]
      /\ missed' = missed \ {j}
      /\ rpcAge' = rpcAge /\ pending' = pending /\ snapshot' = snapshot
      /\ directed' = directed /\ answer' = answer /\ renewed' = renewed
      /\ loop' = loop /\ beatTimer' = beatTimer /\ beatBackoff' = beatBackoff
      /\ workerState' = workerState
  BY DEF EndJob, call
<1>3. HeartbeatTypes /\ TurnInv /\ AgeInv /\ TurnComes
  BY DEF HeartbeatInv
<1>4. /\ running' \in Seq(Jobs) /\ Len(running') = Len(running) - 1
      /\ \A i, k \in DOMAIN running' : running'[i] = running'[k] => i = k
      /\ Executing' = Executing \ {j}
  <2>1. /\ running \in Seq(Jobs)
        /\ \A i, k \in DOMAIN running : running[i] = running[k] => i = k
    BY <1>3 DEF HeartbeatTypes
  <2> DEFINE left == RemoveAt(running, n)
  <2>2. /\ left \in Seq(Jobs) /\ Len(left) = Len(running) - 1
        /\ \A i, k \in DOMAIN left : left[i] = left[k] => i = k
        /\ {left[i] : i \in DOMAIN left} = {running[i] : i \in DOMAIN running} \ {running[n]}
    BY <1>1, <2>1, Unregistered
  <2>3. running' = left /\ running[n] = j
    BY <1>1
  <2> HIDE DEF left
  <2>4. /\ running' \in Seq(Jobs) /\ Len(running') = Len(running) - 1
        /\ \A i, k \in DOMAIN running' : running'[i] = running'[k] => i = k
    BY <2>2, <2>3
  <2>5. Executing' = Executing \ {j}
    <3>1. Executing' = {running'[i] : i \in DOMAIN running'}
      BY DEF Executing
    <3> QED BY <2>2, <2>3, <3>1 DEF Executing
  <2> QED BY <2>4, <2>5
<1>5. /\ serverLease' \in [Jobs -> 0 .. Visibility] /\ localLease' \in [Jobs -> 0 .. Visibility]
      /\ \A i \in Jobs : i # j => serverLease'[i] = serverLease[i] /\ localLease'[i] = localLease[i]
  <2>1. 0 \in 0 .. Visibility
    BY TimingFacts
  <2> QED BY <1>2, <1>3, <2>1 DEF HeartbeatTypes
<1>6. Executing \subseteq Jobs
  BY <1>3 DEF HeartbeatTypes, Executing
<1>7. HeartbeatTypes'
  <2>1. Len(running') = Cardinality(Executing')
    <3>1. IsFiniteSet(Executing)
      BY <1>6, FS_Subset, TimingFacts
    <3>2. Cardinality(Executing \ {j}) = Cardinality(Executing) - 1
      BY <1>2, <3>1, FS_RemoveElement
    <3> QED BY <1>3, <1>4, <3>2 DEF HeartbeatTypes
  <2>2. missed' \subseteq Executing'
    BY <1>2, <1>3, <1>4 DEF HeartbeatTypes
  <2> QED BY <1>2, <1>3, <1>4, <1>5, <2>1, <2>2 DEF HeartbeatTypes
<1>8. TurnInv'
  BY <1>2, <1>3 DEF TurnInv, Beating, Waiting
<1>9. AgeInv'
  BY <1>2, <1>3, <1>4, <1>5, <1>6 DEF AgeInv, Beating
<1>10. TurnComes'
  BY <1>2, <1>3, <1>4, <1>5, <1>6 DEF TurnComes, Beating, Waiting, Sufficient
<1> QED BY <1>7, <1>8, <1>9, <1>10 DEF HeartbeatInv

LEMMA StartHeartbeatKeeps ==
    ASSUME HeartbeatInv, StartHeartbeat
    PROVE  HeartbeatInv'
<1>1. /\ loop = "rest" /\ beatTimer = 0 /\ loop' = "sent" /\ rpcAge' = 0
      /\ pending' = IF running = << >> THEN <<Idle>> ELSE running
      /\ snapshot' = Executing /\ directed' = {} /\ renewed' = {} /\ answer' = "none"
      /\ running' = running /\ localLease' = localLease /\ serverLease' = serverLease
      /\ beatTimer' = beatTimer /\ beatBackoff' = beatBackoff /\ missed' = missed
      /\ workerState' = workerState
  BY DEF StartHeartbeat, HeartbeatRequests, leases
<1>2. HeartbeatTypes /\ TurnInv /\ AgeInv /\ TurnComes
  BY DEF HeartbeatInv
<1>3. Executing \subseteq Jobs /\ Executing' = Executing
  BY <1>1, <1>2 DEF HeartbeatTypes, Executing
<1>4. running \in Seq(Jobs) /\ Len(running) \in Nat
  BY <1>2 DEF HeartbeatTypes
<1>5. pending' \in Seq(Jobs \cup {Idle}) /\ Len(pending') >= 1
  <2>1. CASE running = << >>
    BY <1>1, <2>1
  <2>2. CASE running # << >>
    BY <1>1, <1>4, <2>2
  <2> QED BY <2>1, <2>2
<1>6. Jobs # {} => Len(pending') <= Width
  <2>1. CASE running = << >>
    <3>1. Len(pending') = 1
      BY <1>1, <2>1
    <3> QED BY <3>1, JobsAreMany
  <2>2. CASE running # << >>
    <3>1. Len(running) = Cardinality(Executing)
      BY <1>2 DEF HeartbeatTypes
    <3>2. Cardinality(Executing) <= Width
      BY <1>3, FS_Subset, TimingFacts DEF Width
    <3> QED BY <1>1, <2>2, <3>1, <3>2
  <2> QED BY <2>1, <2>2
<1>7. Executing \subseteq Waiting' /\ Waiting' \subseteq Executing \cup {Idle}
  <2>1. CASE running = << >>
    BY <1>1, <2>1 DEF Executing, Waiting
  <2>2. CASE running # << >>
    BY <1>1, <2>2 DEF Executing, Waiting
  <2> QED BY <2>1, <2>2
<1>8. HeartbeatTypes'
  BY <1>1, <1>2, <1>3, <1>5, TimingFacts DEF HeartbeatTypes
<1>9. TurnInv'
  BY <1>1, <1>5, <1>6, <1>7 DEF TurnInv, Beating
<1>10. AgeInv'
  BY <1>1, <1>2, <1>3 DEF AgeInv, Beating
<1>11. TurnComes'
  <2> SUFFICES ASSUME Sufficient, NEW i \in Executing, i \notin missed,
                      NEW p \in DOMAIN pending'
               PROVE  serverLease[i] + 0 > Beats(p)
    BY <1>1, <1>3, <1>7 DEF TurnComes, Sufficient, Beating, Waiting
  <2>1. serverLease[i] > 0 + Beats(Width) /\ serverLease[i] \in Nat
    BY <1>1, <1>2, <1>3, TimingFacts DEF TurnComes, HeartbeatTypes
  <2>2. p \in Nat /\ p >= 1 /\ p <= Width
    <3>1. p \in 1 .. Len(pending')
      BY <1>5
    <3>2. Len(pending') <= Width /\ Len(pending') \in Nat
      BY <1>3, <1>5, <1>6
    <3>3. Width \in Nat
      BY BeatsFacts
    <3> QED BY <3>1, <3>2, <3>3
  <2> QED BY <2>1, <2>2, Turns
<1> QED BY <1>8, <1>9, <1>10, <1>11 DEF HeartbeatInv

(* Who the RPC in flight is for.                                                *)
LEMMA InFlight ==
    ASSUME HeartbeatInv, Beating
    PROVE  /\ pending \in Seq(Jobs \cup {Idle}) /\ Len(pending) \in Nat /\ Len(pending) >= 1
           /\ Head(pending) = pending[1] /\ 1 \in DOMAIN pending
           /\ pending[1] \in Waiting /\ pending[1] \in snapshot \cup {Idle}
           /\ snapshot \subseteq renewed \cup Waiting
<1>1. /\ pending \in Seq(Jobs \cup {Idle}) /\ Len(pending) >= 1
      /\ snapshot \subseteq renewed \cup Waiting /\ Waiting \subseteq snapshot \cup {Idle}
  BY DEF HeartbeatInv, HeartbeatTypes, TurnInv
<1>2. Head(pending) = pending[1] /\ 1 \in DOMAIN pending /\ Len(pending) \in Nat
  BY <1>1
<1>3. pending[1] \in Waiting
  BY <1>2 DEF Waiting
<1> QED BY <1>1, <1>2, <1>3

LEMMA ServeHeartbeatKeeps ==
    ASSUME HeartbeatInv, ServeHeartbeat
    PROVE  HeartbeatInv'
<1> DEFINE head == pending[1]
<1>1. /\ loop = "sent" /\ loop' = "served"
      /\ running' = running /\ localLease' = localLease
      /\ beatTimer' = beatTimer /\ beatBackoff' = beatBackoff /\ rpcAge' = rpcAge
      /\ pending' = pending /\ snapshot' = snapshot /\ directed' = directed
      /\ missed' = missed /\ workerState' = workerState
  BY DEF ServeHeartbeat
<1>2. HeartbeatTypes /\ TurnInv /\ AgeInv /\ TurnComes
  BY DEF HeartbeatInv
<1>3. Beating /\ Beating' /\ Executing' = Executing /\ Waiting' = Waiting
      /\ Executing \subseteq Jobs
  BY <1>1, <1>2 DEF Beating, Executing, Waiting, HeartbeatTypes
<1>4. Head(pending) = head /\ head \in snapshot \cup {Idle} /\ snapshot \subseteq Jobs
  BY <1>2, <1>3, InFlight DEF HeartbeatTypes
<1> HIDE DEF head
<1>5. \/ /\ serverLease' = serverLease /\ renewed' = renewed
         /\ \/ answer' \in Directions /\ head = Idle
            \/ answer' = "error"
      \/ /\ head \in snapshot /\ answer' \in Directions
         /\ serverLease' = [serverLease EXCEPT ![head] = Visibility]
         /\ renewed' = renewed \cup {head}
  BY <1>4 DEF ServeHeartbeat
<1>6. /\ serverLease' \in [Jobs -> 0 .. Visibility]
      /\ renewed' \subseteq snapshot /\ renewed \subseteq renewed'
      /\ answer' \in Directions \cup {"error"}
      /\ answer' # "error" => head \in renewed' \cup {Idle}
      /\ \A i \in Jobs : \/ serverLease'[i] = serverLease[i] /\ (i \in renewed' => i \in renewed)
                         \/ serverLease'[i] = Visibility /\ i \in renewed'
  <2>1. Visibility \in 0 .. Visibility /\ serverLease \in [Jobs -> 0 .. Visibility]
        /\ renewed \subseteq snapshot
    BY <1>2, TimingFacts DEF HeartbeatTypes
  <2>2. CASE serverLease' = serverLease /\ renewed' = renewed
    BY <1>5, <2>1, <2>2, <1>4
  <2>3. CASE /\ head \in snapshot /\ answer' \in Directions
             /\ serverLease' = [serverLease EXCEPT ![head] = Visibility]
             /\ renewed' = renewed \cup {head}
    BY <1>4, <2>1, <2>3
  <2> QED BY <1>5, <2>2, <2>3
<1>7. HeartbeatTypes'
  BY <1>1, <1>2, <1>3, <1>6 DEF HeartbeatTypes
<1>8. TurnInv'
  <2>1. answer' # "none"
    BY <1>6 DEF Directions
  <2> QED BY <1>1, <1>2, <1>3, <1>6, <2>1 DEF TurnInv, head
<1>9. AgeInv'
  <2> SUFFICES ASSUME NEW i \in Executing
               PROVE  /\ localLease[i] <= serverLease'[i] + Beats(Width)
                      /\ i \in renewed' =>
                           serverLease'[i] + Beats(Width - Len(pending)) + rpcAge >= Visibility
    BY <1>1, <1>3 DEF AgeInv
  <2>1. /\ Beats(Width) \in Nat /\ Beats(Width - Len(pending)) \in Nat /\ rpcAge \in Nat
        /\ localLease[i] <= Visibility /\ localLease[i] \in Nat /\ Visibility \in Nat
    <3>1. Len(pending) \in Nat /\ Len(pending) >= 1 /\ Len(pending) <= Width
      BY <1>2, <1>3, InFlight DEF TurnInv
    <3>2. rpcAge \in Nat
      BY <1>2, TimingFacts DEF HeartbeatTypes
    <3>3. localLease[i] \in 0 .. Visibility /\ Visibility \in Nat
      BY <1>2, <1>3, TimingFacts DEF HeartbeatTypes
    <3> QED BY <3>1, <3>2, <3>3, Turns
  <2>2. CASE serverLease'[i] = serverLease[i] /\ (i \in renewed' => i \in renewed)
    BY <1>1, <1>2, <1>3, <2>2 DEF AgeInv
  <2>3. CASE serverLease'[i] = Visibility
    BY <2>1, <2>3
  <2> QED BY <1>3, <1>6, <2>2, <2>3
<1>10. TurnComes'
  <2> SUFFICES ASSUME Sufficient, NEW i \in Executing \ missed, i \notin renewed'
               PROVE  /\ \A p \in DOMAIN pending :
                            pending[p] = i => serverLease'[i] + rpcAge > Beats(p)
                      /\ i \notin Waiting =>
                           serverLease'[i] + Beats(Width - Len(pending)) + rpcAge
                             + RpcLatency >= Visibility
    BY <1>1, <1>3 DEF TurnComes, Sufficient
  <2>1. serverLease'[i] = serverLease[i] /\ i \notin renewed
    BY <1>3, <1>6
  <2> QED BY <1>2, <1>3, <2>1 DEF TurnComes
<1> QED BY <1>7, <1>8, <1>9, <1>10 DEF HeartbeatInv

LEMMA NextRpcKeeps ==
    ASSUME HeartbeatInv, NextRpc
    PROVE  HeartbeatInv'
<1>1. /\ loop = "served" /\ answer # "error" /\ Len(pending) > 1
      /\ loop' = "sent" /\ rpcAge' = 0 /\ pending' = Tail(pending)
      /\ directed' = directed \cup {answer} /\ answer' = "none"
      /\ running' = running /\ localLease' = localLease /\ serverLease' = serverLease
      /\ beatTimer' = beatTimer /\ beatBackoff' = beatBackoff /\ snapshot' = snapshot
      /\ renewed' = renewed /\ missed' = missed /\ workerState' = workerState
  BY DEF NextRpc, leases
<1>2. HeartbeatTypes /\ TurnInv /\ AgeInv /\ TurnComes
  BY DEF HeartbeatInv
<1>3. Beating /\ Beating' /\ Executing' = Executing /\ Executing \subseteq Jobs
  BY <1>1, <1>2 DEF Beating, Executing, HeartbeatTypes
<1>4. /\ answer \in Directions /\ pending[1] \in renewed \cup {Idle}
      /\ snapshot \subseteq Jobs /\ Idle \notin Jobs
  BY <1>1, <1>2, <1>3, TimingFacts DEF HeartbeatTypes, TurnInv
<1>5. /\ pending \in Seq(Jobs \cup {Idle}) /\ Len(pending) \in Nat
      /\ pending' \in Seq(Jobs \cup {Idle})
      /\ Len(pending') = Len(pending) - 1 /\ Len(pending') \in Nat /\ Len(pending') >= 1
      /\ DOMAIN pending = 1 .. Len(pending) /\ DOMAIN pending' = 1 .. (Len(pending) - 1)
      /\ \A p \in DOMAIN pending' : pending'[p] = pending[p + 1]
  <2>1. pending \in Seq(Jobs \cup {Idle}) /\ Len(pending) > 1
    BY <1>1, <1>2 DEF HeartbeatTypes
  <2>2. /\ Tail(pending) \in Seq(Jobs \cup {Idle}) /\ Len(Tail(pending)) = Len(pending) - 1
        /\ \A p \in 1 .. (Len(pending) - 1) : Tail(pending)[p] = pending[p + 1]
    BY <2>1
  <2> QED BY <1>1, <2>1, <2>2
<1>6. Waiting \subseteq Waiting' \cup {pending[1]} /\ Waiting' \subseteq Waiting
  <2>1. ASSUME NEW p \in DOMAIN pending
        PROVE  pending[p] = pending[1] \/ \E q \in DOMAIN pending' : pending[p] = pending'[q]
    <3>1. CASE p = 1
      BY <3>1
    <3>2. CASE p # 1
      <4>1. p - 1 \in DOMAIN pending' /\ pending'[p - 1] = pending[p]
        BY <1>5, <3>2
      <4> QED BY <4>1
    <3> QED BY <3>1, <3>2
  <2>2. ASSUME NEW p \in DOMAIN pending'
        PROVE  p + 1 \in DOMAIN pending /\ pending'[p] = pending[p + 1]
    BY <1>5
  <2> QED BY <2>1, <2>2 DEF Waiting
<1>7. HeartbeatTypes'
  <2>1. 0 \in 0 .. RpcLatency
    BY TimingFacts
  <2> QED BY <1>1, <1>2, <1>3, <1>4, <1>5, <2>1 DEF HeartbeatTypes
<1>8. TurnInv'
  <2>1. Jobs # {} => Len(pending') <= Width
    <3>1. Jobs # {} => Len(pending) <= Width
      BY <1>2, <1>3 DEF TurnInv
    <3>2. Width \in Nat
      BY BeatsFacts
    <3> QED BY <1>5, <3>1, <3>2
  <2>2. snapshot \subseteq renewed \cup Waiting' /\ Waiting' \subseteq snapshot \cup {Idle}
    BY <1>2, <1>3, <1>4, <1>6 DEF TurnInv
  <2> QED BY <1>1, <1>5, <2>1, <2>2 DEF TurnInv
<1>9. ASSUME NEW i \in Executing
      PROVE  /\ Beats(Width - Len(pending)) \in Nat
             /\ Beats(Width - Len(pending')) = Beats(Width - Len(pending)) + RpcLatency
             /\ serverLease[i] \in Nat /\ rpcAge \in Nat /\ rpcAge <= RpcLatency
             /\ RpcLatency \in Nat /\ Visibility \in Nat
  <2>1. Len(pending) <= Width /\ Width \in Nat
    BY <1>2, <1>3, BeatsFacts DEF TurnInv
  <2>2. Width - Len(pending) \in Nat /\ Width - Len(pending') = (Width - Len(pending)) + 1
    BY <1>5, <2>1
  <2>3. serverLease[i] \in Nat /\ rpcAge \in Nat /\ rpcAge <= RpcLatency
    BY <1>2, <1>3, TimingFacts DEF HeartbeatTypes
  <2>4. Beats(Width - Len(pending)) \in Nat
        /\ Beats((Width - Len(pending)) + 1) = Beats(Width - Len(pending)) + RpcLatency
    BY <2>2, BeatsFacts
  <2> QED BY <2>2, <2>3, <2>4, TimingFacts
<1>10. AgeInv'
  <2> SUFFICES ASSUME NEW i \in Executing
               PROVE  /\ localLease[i] <= serverLease[i] + Beats(Width)
                      /\ i \in renewed =>
                           serverLease[i] + Beats(Width - Len(pending')) + 0 >= Visibility
    BY <1>1, <1>3 DEF AgeInv
  <2>1. /\ localLease[i] <= serverLease[i] + Beats(Width)
        /\ i \in renewed =>
             serverLease[i] + Beats(Width - Len(pending)) + rpcAge >= Visibility
    BY <1>1, <1>2, <1>3 DEF AgeInv
  <2> QED BY <1>9, <2>1
<1>11. TurnComes'
  <2> SUFFICES ASSUME Sufficient, NEW i \in Executing \ missed, i \notin renewed
               PROVE  /\ \A p \in DOMAIN pending' :
                            pending'[p] = i => serverLease[i] + 0 > Beats(p)
                      /\ i \notin Waiting' =>
                           serverLease[i] + Beats(Width - Len(pending')) + 0
                             + RpcLatency >= Visibility
    BY <1>1, <1>3 DEF TurnComes, Sufficient
  <2>1. /\ \A p \in DOMAIN pending : pending[p] = i => serverLease[i] + rpcAge > Beats(p)
        /\ i \notin Waiting =>
             serverLease[i] + Beats(Width - Len(pending)) + rpcAge + RpcLatency >= Visibility
    BY <1>1, <1>2, <1>3 DEF TurnComes
  <2>2. ASSUME NEW p \in DOMAIN pending', pending'[p] = i
        PROVE  serverLease[i] + 0 > Beats(p)
    <3>1. p \in Nat /\ p + 1 \in DOMAIN pending /\ pending[p + 1] = i
      BY <1>5, <2>2
    <3>2. serverLease[i] + rpcAge > Beats(p + 1)
      BY <2>1, <3>1
    <3>3. Beats(p) \in Nat /\ Beats(p + 1) = Beats(p) + RpcLatency
      BY <3>1, BeatsFacts
    <3> QED BY <1>9, <3>2, <3>3
  <2>3. ASSUME i \notin Waiting'
        PROVE  serverLease[i] + Beats(Width - Len(pending')) + 0 + RpcLatency >= Visibility
    <3>1. i \notin Waiting
      BY <1>3, <1>4, <1>6, <2>3
    <3>2. serverLease[i] + Beats(Width - Len(pending)) + rpcAge + RpcLatency >= Visibility
      BY <2>1, <3>1
    <3> QED BY <1>9, <3>2
  <2> QED BY <2>2, <2>3
<1> QED BY <1>7, <1>8, <1>10, <1>11 DEF HeartbeatInv

(* When the last RPC has answered, the server has renewed all that the          *)
(* heartbeat named.                                                             *)
LEMMA AllAreRenewed ==
    ASSUME HeartbeatInv, loop = "served", answer # "error", Len(pending) = 1
    PROVE  /\ snapshot \subseteq renewed /\ Waiting = {pending[1]}
           /\ pending[1] \in renewed \cup {Idle} /\ answer \in Directions
<1>1. Beating
  BY DEF Beating
<1>2. /\ pending[1] \in renewed \cup {Idle} /\ answer \in Directions
      /\ snapshot \subseteq Jobs /\ Idle \notin Jobs
  BY <1>1, TimingFacts DEF HeartbeatInv, HeartbeatTypes, TurnInv
<1>3. Waiting = {pending[1]}
  <2>1. DOMAIN pending = {1}
    BY <1>1, InFlight
  <2> QED BY <2>1 DEF Waiting
<1> QED BY <1>1, <1>2, <1>3, InFlight

LEMMA HeartbeatSucceedsKeeps ==
    ASSUME HeartbeatInv, HeartbeatSucceeds
    PROVE  HeartbeatInv'
<1>1. /\ loop = "served" /\ answer # "error" /\ Len(pending) = 1
      /\ localLease' = [j \in Jobs |-> IF j \in snapshot \cap Executing THEN Visibility
                                       ELSE localLease[j]]
      /\ workerState' = AggregateHeartbeatStates(directed \cup {answer})
      /\ loop' = IF workerState' = "terminate" THEN "off" ELSE "rest"
      /\ beatTimer' = Interval /\ beatBackoff' = 1 /\ pending' = << >>
      /\ running' = running /\ serverLease' = serverLease /\ rpcAge' = rpcAge
      /\ snapshot' = snapshot /\ directed' = directed /\ answer' = answer
      /\ renewed' = renewed /\ missed' = missed
  BY DEF HeartbeatSucceeds, ExtendLeases
<1>2. HeartbeatTypes /\ TurnInv /\ AgeInv /\ TurnComes
  BY DEF HeartbeatInv
<1>3. Beating /\ ~Beating' /\ Executing' = Executing /\ Executing \subseteq Jobs
  BY <1>1, <1>2 DEF Beating, Executing, HeartbeatTypes
<1>4. HeartbeatTypes'
  <2>1. workerState' \in Directions
    BY <1>1 DEF AggregateHeartbeatStates, Directions
  <2>2. /\ Visibility \in 0 .. Visibility /\ Interval \in 0 .. LongestRest
        /\ 1 \in 1 .. MaxBeatBackoff
    BY TimingFacts
  <2>3. localLease' \in [Jobs -> 0 .. Visibility]
    BY <1>1, <1>2, <2>2 DEF HeartbeatTypes
  <2>4. pending' \in Seq(Jobs \cup {Idle})
    BY <1>1
  <2> QED BY <1>1, <1>2, <1>3, <2>1, <2>2, <2>3, <2>4 DEF HeartbeatTypes
<1>5. ASSUME NEW i \in Executing
      PROVE  /\ i \in renewed => serverLease[i] + Beats(Width) >= Visibility
             /\ Sufficient /\ i \notin missed => serverLease[i] > Interval + Beats(Width)
  <2>1. /\ Beats(Width - 1) \in Nat /\ Beats(Width) \in Nat
        /\ Beats(Width - 1) + RpcLatency <= Beats(Width)
    BY <1>3, JobsAreMany, Turns
  <2>2. /\ serverLease[i] \in Nat /\ rpcAge \in Nat /\ rpcAge <= RpcLatency
        /\ RpcLatency \in Nat /\ Visibility \in Nat /\ LongestRest \in Nat
        /\ Interval \in Nat /\ Interval <= LongestRest
    BY <1>2, <1>3, TimingFacts DEF HeartbeatTypes
  <2>3. i \in renewed => serverLease[i] + Beats(Width - 1) + rpcAge >= Visibility
    BY <1>1, <1>2, <1>3 DEF AgeInv
  <2>4. i \in renewed => serverLease[i] + Beats(Width) >= Visibility
    BY <2>1, <2>2, <2>3
  <2>5. ASSUME Sufficient, i \notin missed
        PROVE  serverLease[i] > Interval + Beats(Width)
    <3>1. Visibility > LongestRest + Beats(Width) + Beats(Width) + RpcLatency
      BY <2>5, SufficientMeans
    <3>2. CASE i \in renewed
      BY <2>1, <2>2, <2>4, <3>1, <3>2
    <3>3. CASE i \notin renewed
      <4>1. i \notin Waiting
        BY <1>1, <1>3, <3>3, AllAreRenewed, TimingFacts
      <4>2. serverLease[i] + Beats(Width - 1) + rpcAge + RpcLatency >= Visibility
        BY <1>1, <1>2, <1>3, <2>5, <3>3, <4>1 DEF TurnComes
      <4> QED BY <2>1, <2>2, <3>1, <4>2
    <3> QED BY <3>2, <3>3
  <2> QED BY <2>4, <2>5
<1>6. TurnInv'
  BY <1>3 DEF TurnInv
<1>7. AgeInv'
  <2> SUFFICES ASSUME NEW i \in Executing
               PROVE  localLease'[i] <= serverLease[i] + Beats(Width)
    BY <1>1, <1>3 DEF AgeInv
  <2>1. CASE i \in snapshot
    <3>1. localLease'[i] = Visibility /\ i \in renewed
      BY <1>1, <1>3, <2>1, AllAreRenewed
    <3>2. serverLease[i] + Beats(Width) >= Visibility
      BY <1>5, <3>1
    <3>3. serverLease[i] \in Nat /\ Beats(Width) \in Nat /\ Visibility \in Nat
      BY <1>2, <1>3, BeatsFacts, TimingFacts DEF HeartbeatTypes
    <3> QED BY <3>1, <3>2, <3>3
  <2>2. CASE i \notin snapshot
    <3>1. localLease'[i] = localLease[i]
      BY <1>1, <1>3, <2>2
    <3>2. localLease[i] <= serverLease[i] + Beats(Width)
      BY <1>1, <1>2 DEF AgeInv
    <3> QED BY <3>1, <3>2
  <2> QED BY <2>1, <2>2
<1>8. TurnComes'
  BY <1>1, <1>3, <1>5 DEF TurnComes, Sufficient
<1> QED BY <1>4, <1>6, <1>7, <1>8 DEF HeartbeatInv

LEMMA HeartbeatFailsKeeps ==
    ASSUME HeartbeatInv, HeartbeatFails
    PROVE  HeartbeatInv'
<1>1. /\ loop \in {"sent", "served"} /\ loop' = "rest" /\ pending' = << >>
      /\ missed' = Executing
      /\ running' = running /\ localLease' = localLease /\ serverLease' = serverLease
      /\ rpcAge' = rpcAge /\ snapshot' = snapshot /\ directed' = directed
      /\ answer' = answer /\ renewed' = renewed /\ workerState' = workerState
  BY DEF HeartbeatFails, leases
<1>2. HeartbeatTypes /\ TurnInv /\ AgeInv /\ TurnComes
  BY DEF HeartbeatInv
<1>3. ~Beating' /\ Executing' = Executing
  BY <1>1 DEF Beating, Executing
<1>4. beatTimer' \in 0 .. LongestRest /\ beatBackoff' \in 1 .. MaxBeatBackoff
  <2>1. beatBackoff \in 1 .. MaxBeatBackoff
    BY <1>2 DEF HeartbeatTypes
  <2>2. CASE /\ beatTimer' = beatBackoff
             /\ beatBackoff' = IF 2 * beatBackoff < MaxBeatBackoff THEN 2 * beatBackoff
                               ELSE MaxBeatBackoff
    BY <2>1, <2>2, TimingFacts
  <2>3. CASE beatTimer' = Interval /\ beatBackoff' = beatBackoff
    BY <2>1, <2>3, TimingFacts
  <2> QED BY <2>2, <2>3 DEF HeartbeatFails, RestAfterFailure
<1>5. HeartbeatTypes'
  <2>1. pending' \in Seq(Jobs \cup {Idle})
    BY <1>1
  <2> QED BY <1>1, <1>2, <1>3, <1>4, <2>1 DEF HeartbeatTypes
<1>6. TurnInv'
  BY <1>3 DEF TurnInv
<1>7. AgeInv'
  BY <1>1, <1>2, <1>3 DEF AgeInv
<1>8. TurnComes'
  BY <1>1, <1>3 DEF TurnComes
<1> QED BY <1>5, <1>6, <1>7, <1>8 DEF HeartbeatInv

LEMMA TickHeartbeatKeeps ==
    ASSUME HeartbeatInv, TickHeartbeat
    PROVE  HeartbeatInv'
<1>1. /\ \/ loop = "rest" /\ beatTimer > 0
         \/ loop \in {"sent", "served"} /\ rpcAge < RpcLatency
      /\ localLease' = [j \in Jobs |-> Less(localLease[j])]
      /\ serverLease' = [j \in Jobs |-> Less(serverLease[j])]
      /\ beatTimer' = Less(beatTimer)
      /\ rpcAge' = IF loop = "rest" THEN 0 ELSE rpcAge + 1
      /\ running' = running /\ loop' = loop /\ beatBackoff' = beatBackoff
      /\ pending' = pending /\ snapshot' = snapshot /\ directed' = directed
      /\ answer' = answer /\ renewed' = renewed /\ missed' = missed
      /\ workerState' = workerState
  BY DEF TickHeartbeat
<1>2. HeartbeatTypes /\ TurnInv /\ AgeInv /\ TurnComes
  BY DEF HeartbeatInv
<1>3. /\ Beating' = Beating /\ Executing' = Executing /\ Waiting' = Waiting
      /\ Executing \subseteq Jobs
  BY <1>1, <1>2 DEF Beating, Executing, Waiting, HeartbeatTypes
<1>4. \A n \in Nat : Less(n) \in Nat /\ Less(n) <= n /\ n <= Less(n) + 1 /\ (n > 0 => Less(n) = n - 1)
  BY DEF Less
<1>5. /\ rpcAge \in Nat /\ beatTimer \in Nat /\ beatTimer <= LongestRest
      /\ rpcAge' \in 0 .. RpcLatency /\ (Beating => rpcAge' = rpcAge + 1)
  <2>1. rpcAge \in Nat /\ beatTimer \in Nat /\ beatTimer <= LongestRest
    BY <1>2, TimingFacts DEF HeartbeatTypes
  <2> QED BY <1>1, <2>1, TimingFacts DEF Beating
<1>6. HeartbeatTypes'
  <2>1. \A n \in 0 .. Visibility : Less(n) \in 0 .. Visibility
    BY TimingFacts DEF Less
  <2>2. localLease' \in [Jobs -> 0 .. Visibility] /\ serverLease' \in [Jobs -> 0 .. Visibility]
    BY <1>1, <1>2, <2>1 DEF HeartbeatTypes
  <2>3. beatTimer' \in 0 .. LongestRest
    BY <1>1, <1>4, <1>5, TimingFacts
  <2> QED BY <1>1, <1>2, <1>3, <1>5, <2>2, <2>3 DEF HeartbeatTypes
<1>7. TurnInv'
  BY <1>1, <1>2, <1>3 DEF TurnInv
<1>8. ASSUME NEW i \in Executing
      PROVE  /\ serverLease[i] \in Nat /\ serverLease'[i] \in Nat
             /\ serverLease[i] <= serverLease'[i] + 1
             /\ serverLease[i] > 0 => serverLease'[i] = serverLease[i] - 1
             /\ localLease[i] \in Nat /\ localLease'[i] \in Nat
             /\ localLease[i] > 0 => localLease'[i] = localLease[i] - 1
             /\ localLease[i] = 0 => localLease'[i] = 0
  <2>1. serverLease[i] \in Nat /\ localLease[i] \in Nat
    BY <1>2, <1>3, TimingFacts DEF HeartbeatTypes
  <2>2. serverLease'[i] = Less(serverLease[i]) /\ localLease'[i] = Less(localLease[i])
    BY <1>1, <1>3
  <2>3. localLease[i] = 0 => localLease'[i] = 0
    BY <2>2 DEF Less
  <2> QED BY <1>4, <2>1, <2>2, <2>3
<1>9. Beats(Width) \in Nat /\ Visibility \in Nat /\ RpcLatency \in Nat
  BY BeatsFacts, TimingFacts
<1>10. ASSUME NEW i \in Executing, Beating
       PROVE  Beats(Width - Len(pending)) \in Nat
  <2>1. Len(pending) \in Nat /\ Len(pending) >= 1 /\ Len(pending) <= Width
    BY <1>2, <1>3, <1>10, InFlight DEF TurnInv
  <2> QED BY <2>1, Turns
<1>11. AgeInv'
  <2> SUFFICES ASSUME loop # "off", NEW i \in Executing
               PROVE  /\ localLease'[i] <= serverLease'[i] + Beats(Width)
                      /\ Beating /\ i \in renewed =>
                           serverLease'[i] + Beats(Width - Len(pending)) + rpcAge' >= Visibility
    BY <1>1, <1>3 DEF AgeInv
  <2>1. localLease[i] <= serverLease[i] + Beats(Width)
    BY <1>2 DEF AgeInv
  <2>2. localLease'[i] <= serverLease'[i] + Beats(Width)
    <3>1. CASE localLease[i] = 0
      BY <1>8, <1>9, <3>1
    <3>2. CASE localLease[i] > 0
      BY <1>8, <1>9, <2>1, <3>2
    <3> QED BY <1>8, <3>1, <3>2
  <2>3. ASSUME Beating, i \in renewed
        PROVE  serverLease'[i] + Beats(Width - Len(pending)) + rpcAge' >= Visibility
    <3>1. serverLease[i] + Beats(Width - Len(pending)) + rpcAge >= Visibility
      BY <1>2, <2>3 DEF AgeInv
    <3> QED BY <1>5, <1>8, <1>9, <1>10, <2>3, <3>1
  <2> QED BY <2>2, <2>3
<1>12. TurnComes'
  <2> SUFFICES ASSUME Sufficient, NEW i \in Executing \ missed
               PROVE  /\ loop = "rest" => serverLease'[i] > beatTimer' + Beats(Width)
                      /\ Beating /\ i \notin renewed =>
                           /\ \A p \in DOMAIN pending :
                                 pending[p] = i => serverLease'[i] + rpcAge' > Beats(p)
                           /\ i \notin Waiting =>
                                serverLease'[i] + Beats(Width - Len(pending)) + rpcAge'
                                  + RpcLatency >= Visibility
    BY <1>1, <1>3 DEF TurnComes, Sufficient
  <2>1. ASSUME loop = "rest"
        PROVE  serverLease'[i] > beatTimer' + Beats(Width)
    <3>1. serverLease[i] > beatTimer + Beats(Width)
      BY <1>2, <2>1 DEF TurnComes
    <3>2. beatTimer > 0 /\ beatTimer' = beatTimer - 1
      BY <1>1, <1>4, <1>5, <2>1
    <3> QED BY <1>5, <1>8, <1>9, <3>1, <3>2
  <2>2. ASSUME Beating, i \notin renewed, NEW p \in DOMAIN pending, pending[p] = i
        PROVE  serverLease'[i] + rpcAge' > Beats(p)
    <3>1. serverLease[i] + rpcAge > Beats(p)
      BY <1>2, <2>2 DEF TurnComes
    <3>2. Beats(p) \in Nat
      <4>1. p \in Nat
        BY <1>2 DEF HeartbeatTypes
      <4> QED BY <4>1, BeatsFacts
    <3> QED BY <1>5, <1>8, <2>2, <3>1, <3>2
  <2>3. ASSUME Beating, i \notin renewed, i \notin Waiting
        PROVE  serverLease'[i] + Beats(Width - Len(pending)) + rpcAge' + RpcLatency >= Visibility
    <3>1. serverLease[i] + Beats(Width - Len(pending)) + rpcAge + RpcLatency >= Visibility
      BY <1>2, <2>3 DEF TurnComes
    <3> QED BY <1>5, <1>8, <1>9, <1>10, <2>3, <3>1
  <2> QED BY <2>1, <2>2, <2>3
<1> QED BY <1>6, <1>7, <1>11, <1>12 DEF HeartbeatInv

LEMMA HeartbeatStays ==
    ASSUME HeartbeatInv, UNCHANGED heartbeatVars
    PROVE  HeartbeatInv'
<1>1. /\ running' = running /\ localLease' = localLease /\ serverLease' = serverLease
      /\ loop' = loop /\ beatTimer' = beatTimer /\ beatBackoff' = beatBackoff
      /\ rpcAge' = rpcAge /\ pending' = pending /\ snapshot' = snapshot
      /\ directed' = directed /\ answer' = answer /\ renewed' = renewed
      /\ missed' = missed /\ workerState' = workerState
  BY DEF heartbeatVars
<1>2. Executing' = Executing /\ Waiting' = Waiting /\ Beating' = Beating
  BY <1>1 DEF Executing, Waiting, Beating
<1>3. HeartbeatTypes'
  BY <1>1, <1>2 DEF HeartbeatInv, HeartbeatTypes
<1>4. TurnInv'
  BY <1>1, <1>2 DEF HeartbeatInv, TurnInv
<1>5. AgeInv'
  BY <1>1, <1>2 DEF HeartbeatInv, AgeInv
<1>6. TurnComes'
  BY <1>1, <1>2 DEF HeartbeatInv, TurnComes, Sufficient
<1> QED BY <1>3, <1>4, <1>5, <1>6 DEF HeartbeatInv

LEMMA HeartbeatKeeps ==
    ASSUME HeartbeatInv, HeartbeatNext
    PROVE  HeartbeatInv'
<1>1. ASSUME NEW j \in Jobs, BeginJob(j)  PROVE HeartbeatInv'
  BY <1>1, BeginJobKeeps
<1>2. ASSUME NEW j \in Jobs, EndJob(j)  PROVE HeartbeatInv'
  BY <1>2, EndJobKeeps
<1>3. CASE StartHeartbeat
  BY <1>3, StartHeartbeatKeeps
<1>4. CASE ServeHeartbeat
  BY <1>4, ServeHeartbeatKeeps
<1>5. CASE NextRpc
  BY <1>5, NextRpcKeeps
<1>6. CASE HeartbeatSucceeds
  BY <1>6, HeartbeatSucceedsKeeps
<1>7. CASE HeartbeatFails
  BY <1>7, HeartbeatFailsKeeps
<1>8. CASE TickHeartbeat
  BY <1>8, TickHeartbeatKeeps
<1> QED BY <1>1, <1>2, <1>3, <1>4, <1>5, <1>6, <1>7, <1>8 DEF HeartbeatNext

-----------------------------------------------------------------------------
(* The theorems                                                                 *)

LEMMA HeartbeatAtInit ==
    ASSUME Init
    PROVE  HeartbeatInv
<1>1. HeartbeatStart("rest") \/ HeartbeatStart("off")
  BY DEF Init, HeartbeatInit, NoHeartbeat
<1> QED BY <1>1, HeartbeatStarts

(* What the heartbeats keep, whoever uses the transport.                        *)
THEOREM HeartbeatInvariance == Spec => []HeartbeatInv
<1>1. ASSUME HeartbeatInv, [Next]_vars
      PROVE  HeartbeatInv'
  <2>1. CASE HeartbeatNext
    BY <1>1, <2>1, HeartbeatKeeps
  <2>2. CASE UNCHANGED heartbeatVars
    BY <1>1, <2>2, HeartbeatStays
  <2> QED BY <1>1, <2>1, <2>2 DEF Next, vars
<1> QED BY <1>1, HeartbeatAtInit, PTL DEF Spec

(* The worker's lease of a job outlives the server's by no more than the RPCs   *)
(* of one heartbeat take: it is extended when all have answered, and a failure  *)
(* extends none (worker_lease.py, runtime._heartbeat_loop).                     *)
THEOREM OvershootIsBounded == Spec => []OvershootBounded
<1>1. ASSUME HeartbeatInv
      PROVE  OvershootBounded
  <2>1. HeartbeatTypes /\ AgeInv
    BY <1>1 DEF HeartbeatInv
  <2>2. {pending[i] : i \in DOMAIN pending} \subseteq Jobs \cup {Idle}
    BY <2>1 DEF HeartbeatTypes
  <2>3. HeartbeatTypeOK
    BY <2>1, <2>2 DEF HeartbeatTypes, HeartbeatTypeOK, Executing
  <2>4. loop # "off" => \A j \in Executing :
           localLease[j] <= serverLease[j] + Cardinality(Jobs) * RpcLatency
    BY <2>1 DEF AgeInv, Beats, Width
  <2> QED BY <2>3, <2>4 DEF OvershootBounded
<1> QED BY <1>1, HeartbeatInvariance, PTL

(* With a visibility timeout longer than the loop's longest rest and two        *)
(* heartbeats and an RPC, no job of the worker loses its lease at the server    *)
(* while it waits for its RPC behind those of the others.                       *)
THEOREM LeasesAreKept == Spec => []LeasesKept
<1>1. ASSUME HeartbeatInv
      PROVE  LeasesKept
  <2> SUFFICES ASSUME loop # "off", Sufficient, NEW j \in Executing \ missed
               PROVE  serverLease[j] > 0
    BY DEF LeasesKept, Sufficient, Width
  <2>1. HeartbeatTypes /\ TurnInv /\ AgeInv /\ TurnComes
    BY <1>1 DEF HeartbeatInv
  <2>2. j \in Jobs
    BY <2>1 DEF HeartbeatTypes, Executing
  <2>3. /\ serverLease[j] \in Nat /\ beatTimer \in Nat /\ rpcAge \in Nat
        /\ rpcAge <= RpcLatency /\ RpcLatency \in Nat /\ Visibility \in Nat
        /\ LongestRest \in Nat /\ LongestRest >= 1
    BY <2>1, <2>2, TimingFacts DEF HeartbeatTypes
  <2>4. Visibility > LongestRest + Beats(Width) + Beats(Width) + RpcLatency
    BY SufficientMeans
  <2>5. Beats(Width) \in Nat
    BY BeatsFacts
  <2>6. CASE loop = "rest"
    <3>1. serverLease[j] > beatTimer + Beats(Width)
      BY <2>1, <2>6 DEF TurnComes
    <3> QED BY <2>3, <2>5, <3>1
  <2>7. CASE Beating
    <3>1. Len(pending) \in Nat /\ Len(pending) >= 1 /\ Len(pending) <= Width
      BY <1>1, <2>1, <2>2, <2>7, InFlight DEF TurnInv
    <3>2. /\ Beats(Width - Len(pending)) \in Nat
          /\ Beats(Width - Len(pending)) + RpcLatency <= Beats(Width)
      BY <3>1, Turns
    <3>3. CASE j \in renewed
      <4>1. serverLease[j] + Beats(Width - Len(pending)) + rpcAge >= Visibility
        BY <2>1, <2>7, <3>3 DEF AgeInv
      <4> QED BY <2>3, <2>4, <2>5, <3>2, <4>1
    <3>4. CASE j \notin renewed /\ j \notin Waiting
      <4>1. serverLease[j] + Beats(Width - Len(pending)) + rpcAge + RpcLatency >= Visibility
        BY <2>1, <2>7, <3>4 DEF TurnComes
      <4> QED BY <2>3, <2>4, <2>5, <3>2, <4>1
    <3>5. CASE j \notin renewed /\ j \in Waiting
      <4>1. PICK p \in DOMAIN pending : pending[p] = j
        BY <3>5 DEF Waiting
      <4>2. serverLease[j] + rpcAge > Beats(p)
        BY <2>1, <2>7, <3>5, <4>1 DEF TurnComes
      <4>3. p \in Nat /\ 1 \in Nat /\ 1 <= p
        BY <2>1 DEF HeartbeatTypes
      <4>4. Beats(p) \in Nat /\ RpcLatency <= Beats(p)
        BY <4>3, BeatsFacts
      <4> QED BY <2>3, <4>2, <4>4
    <3> QED BY <3>3, <3>4, <3>5
  <2> QED BY <2>1, <2>6, <2>7 DEF HeartbeatTypes, Beating
<1> QED BY <1>1, HeartbeatInvariance, PTL

(* The worker extends a lease only when the server renewed it in the same       *)
(* heartbeat, and obeys the strongest directive that one of the RPCs answered   *)
(* (ExecutionRegistry.extend_leases, aggregate_heartbeat_states).               *)
THEOREM HeartbeatsAreHonest == Spec => HeartbeatHonest
<1> DEFINE Extends == \A j \in Executing : localLease'[j] > localLease[j] => j \in renewed
           Obeys ==
             workerState' # workerState =>
               /\ \A d \in directed \cup {answer} :
                     d = "terminate" => workerState' = "terminate"
               /\ "quiet" \in directed \cup {answer} => workerState' # "running"
               /\ workerState' \in directed \cup {answer}
<1>1. ASSUME HeartbeatInv, [Next]_vars
      PROVE  [Extends /\ Obeys]_heartbeatVars
  <2>1. /\ Executing \subseteq Jobs /\ directed \subseteq Directions
        /\ localLease \in [Jobs -> 0 .. Visibility] /\ Visibility \in Nat
    BY <1>1, TimingFacts DEF HeartbeatInv, HeartbeatTypes, Executing
  <2>2. \A j \in Executing : localLease[j] \in Nat /\ ~(localLease[j] > localLease[j])
    BY <2>1
  <2>3. ASSUME NEW j \in Jobs, BeginJob(j)
        PROVE  Extends /\ Obeys
    <3>1. /\ j \notin Executing /\ workerState' = workerState
          /\ localLease' = [localLease EXCEPT ![j] = Visibility]
      BY <2>3 DEF BeginJob
    <3> QED BY <2>1, <2>2, <3>1
  <2>4. ASSUME NEW j \in Jobs, EndJob(j)
        PROVE  Extends /\ Obeys
    <3>1. workerState' = workerState /\ localLease' = [localLease EXCEPT ![j] = 0]
      BY <2>4 DEF EndJob
    <3> QED BY <2>1, <2>2, <3>1
  <2>5. CASE HeartbeatSucceeds
    <3>1. /\ loop = "served" /\ answer # "error" /\ Len(pending) = 1
          /\ localLease' = [j \in Jobs |-> IF j \in snapshot \cap Executing THEN Visibility
                                           ELSE localLease[j]]
          /\ workerState' = AggregateHeartbeatStates(directed \cup {answer})
      BY <2>5 DEF HeartbeatSucceeds, ExtendLeases
    <3>2. snapshot \subseteq renewed /\ answer \in Directions
      BY <1>1, <3>1, AllAreRenewed
    <3>3. Extends
      BY <2>1, <2>2, <3>1, <3>2
    <3>4. Obeys
      <4> DEFINE answered == directed \cup {answer}
      <4>1. answered \subseteq {"running", "quiet", "terminate"} /\ answer \in answered
        BY <2>1, <3>2 DEF Directions
      <4>2. workerState' = AggregateHeartbeatStates(answered)
        BY <3>1
      <4> HIDE DEF answered
      <4>3. CASE "terminate" \in answered
        BY <4>2, <4>3 DEF AggregateHeartbeatStates, answered
      <4>4. CASE "terminate" \notin answered /\ "quiet" \in answered
        BY <4>2, <4>4 DEF AggregateHeartbeatStates, answered
      <4>5. CASE "terminate" \notin answered /\ "quiet" \notin answered
        <5>1. answer = "running" /\ workerState' = "running"
          BY <4>1, <4>2, <4>5 DEF AggregateHeartbeatStates
        <5> QED BY <4>5, <5>1 DEF answered
      <4> QED BY <4>3, <4>4, <4>5
    <3> QED BY <3>3, <3>4
  <2>6. CASE TickHeartbeat
    <3>1. workerState' = workerState /\ localLease' = [j \in Jobs |-> Less(localLease[j])]
      BY <2>6 DEF TickHeartbeat
    <3>2. \A n \in Nat : ~(Less(n) > n)
      BY DEF Less
    <3> QED BY <2>1, <2>2, <3>1, <3>2
  <2>7. CASE StartHeartbeat \/ ServeHeartbeat \/ NextRpc \/ HeartbeatFails
    <3>1. localLease' = localLease /\ workerState' = workerState
      BY <2>7 DEF StartHeartbeat, ServeHeartbeat, NextRpc, HeartbeatFails, leases
    <3> QED BY <2>2, <3>1
  <2>8. CASE HeartbeatNext
    BY <2>3, <2>4, <2>5, <2>6, <2>7, <2>8 DEF HeartbeatNext
  <2>9. HeartbeatNext \/ UNCHANGED heartbeatVars
    BY <1>1 DEF Next, vars
  <2> QED BY <2>8, <2>9
<1> QED BY <1>1, HeartbeatInvariance, PTL DEF Spec, HeartbeatHonest

-----------------------------------------------------------------------------
(* Calls                                                                        *)

(* What is sent, what the server answers and what the caller makes of it.       *)
SentBy(ask) ==
    IF ask.op = "info" THEN Stored(ask.fields)
    ELSE IF ask.via = "http" THEN ToDict(ask.fields)
    ELSE OverProtobuf(ProjectEnqueue(ToDict(ask.fields)))
ServedTo(ask) ==
    [f \in JobFields |-> IF f \in DOMAIN SentBy(ask) THEN SentBy(ask)[f] ELSE "absent"]
GotBy(ask) ==
    IF ask.via = "http" THEN FromDict(ServedTo(ask))
    ELSE FromDict(ProjectJob(OverProtobuf(ServedTo(ask))))

IsCall(ask) ==
    /\ ask.op \in {"push", "info"} /\ ask.via \in {"http", "grpc"} /\ ask.fields \in Envelopes
    /\ ask.op = "push" => ~HasEmptyPolicy(ask.fields)
Carried(ask) == ask.op = "push" /\ ask.via = "grpc" => ~Refused(ToDict(ask.fields))

ErrorAnswer(w) ==
    /\ w.kind = "error" /\ w.answer \in Answers /\ w.structured \in BOOLEAN
    /\ w.code \in ServerCodes(w.answer.row)

(* A call's stages are those of one job or one error on its way.                *)
CallInv ==
    /\ stage \in {"idle", "calling", "serving", "answered", "done"}
    /\ stage # "idle" => IsCall(asked)
    /\ stage \in {"serving", "answered"} => Carried(asked)
    /\ stage \in {"idle", "calling"} => wire = Nothing
    /\ stage # "done" => outcome = Nothing
    /\ stage = "serving" => wire = [kind |-> "request", fields |-> SentBy(asked)]
    /\ stage = "answered" =>
         wire = [kind |-> "job", fields |-> ServedTo(asked)] \/ ErrorAnswer(wire)
    /\ stage = "done" =>
         \/ outcome = [kind |-> "refused"] /\ wire = Nothing
         \/ /\ outcome = [kind |-> "job", job |-> GotBy(asked)]
            /\ Carried(asked) /\ wire.kind = "job"
         \/ /\ ErrorAnswer(wire)
            /\ outcome = [kind |-> "error",
                          exception |-> IF asked.via = "http"
                                        THEN MapErrorResponse(wire.answer.row.status, wire.answer)
                                        ELSE MapGrpcError(wire.code, wire.answer, wire.structured)]

(* The values of a field, and what a client reads where a zero was not sent.    *)
LEMMA FieldValues ==
    ASSUME NEW e \in Envelopes, NEW f \in AllFields
    PROVE  /\ e[f] \in ValuesOf(f) /\ e[f] # "absent"
           /\ e[f] = "value_shaped" => f = "args"
           /\ f = "queue" => e[f] \in {"default", "other"}
           /\ f \in {"retry", "unique"} => e[f] \in {"none", "zero", "other"}
           /\ e[f] = "default" => f \notin OmittedWhenFalsy \ {"unique.key", "unique.states"}
<1>1. e[f] \in ValuesOf(f)
  BY EnvelopesAssumption
<1>2. \A v \in ValuesOf(f) : 
        /\ v # "absent" /\ (v = "value_shaped" => f = "args")
        /\ f = "queue" => v \in {"default", "other"}
        /\ f \in {"retry", "unique"} => v \in {"none", "zero", "other"}
        /\ v = "default" => f \notin OmittedWhenFalsy \ {"unique.key", "unique.states"}
  BY DEF ValuesOf, AllFields, RequestFields, JobFields, RetryFields, UniqueFields, OmittedWhenFalsy
<1> QED BY <1>1, <1>2

LEMMA ZeroRead ==
    ASSUME NEW f \in JobFields, "zero" \in ValuesOf(f)
    PROVE  /\ f \in OmittedWhenFalsy =>
                \/ SdkDefault(f) = "zero"
                \/ f \in {"delay_until", "expires_at", "unique.period"} /\ SdkDefault(f) = "none"
                \/ f \in {"unique.key", "unique.states"}
           /\ f \in NoPresence =>
                \/ SdkDefault(f) = "zero" \/ f \in ZeroIsLost
                \/ f \in {"args", "priority", "attempt", "meta", "tags"}
                \/ f \in {"unique.key", "unique.states"}
BY DEF ValuesOf, SdkDefault, RequestFields, JobFields, RetryFields, UniqueFields, OmittedWhenFalsy,
       NoPresence, ZeroIsLost

LEMMA FieldNames ==
    /\ JobFields \subseteq AllFields /\ RequestFields \subseteq AllFields
    /\ {"retry", "unique"} \subseteq JobFields \cap RequestFields
    /\ "max_attempts" \notin RequestFields /\ "retry" \notin NoPresence /\ "unique" \notin NoPresence
    /\ \A f \in JobFields : /\ f # "retry" \/ ~InRetry(f)
                            /\ ~InRetry(f) \/ ~InUnique(f)
    /\ \A f \in JobFields : f \in {"unique.key", "unique.states"} => InUnique(f)
    /\ ~InRetry("retry") /\ ~InUnique("retry") /\ ~InRetry("unique") /\ ~InUnique("unique")
    /\ ~InRetry("queue") /\ ~InUnique("queue") /\ SdkDefault("queue") = "default"
    /\ "schema" \in RequestFields
BY DEF AllFields, RequestFields, JobFields, RetryFields, UniqueFields, NoPresence, InRetry,
       InUnique, SdkDefault, ValuesOf

(* A field whose policy is there, and says something.                           *)
PolicyThere(d, f) ==
    /\ f \in {"retry"} \cup RetryFields => ~Lacking(d, "retry", RetryFields)
    /\ f \in {"unique"} \cup UniqueFields => ~Lacking(d, "unique", UniqueFields)
Filled == {"args", "priority", "attempt", "meta", "tags"}

(* What a client makes of a field of an answer, over either transport.          *)
LEMMA ReadOverHttp ==
    ASSUME NEW d, NEW f \in JobFields
    PROVE  FromDict(d)[f] = IF ~PolicyThere(d, f) THEN "none"
                            ELSE IF d[f] = "absent" THEN SdkDefault(f) ELSE d[f]
BY DEF FromDict, Decoded, PolicyThere

LEMMA ProjectedIs ==
    ASSUME NEW d, NEW f \in JobFields
    PROVE  /\ d[f] # "absent" => ProjectJob(d)[f] = Unwrapped(d[f]) /\ ProjectJob(d)[f] # "absent"
           /\ d[f] = "absent" =>
                ProjectJob(d)[f] =
                  IF \/ f \in Filled
                     \/ f \in {"unique.key", "unique.states"} /\ d["unique"] # "absent"
                  THEN "zero" ELSE "absent"
BY DEF ProjectJob, Filled, Unwrapped

(* Over gRPC a unique policy is never empty, a retry policy may be.             *)
LEMMA ProjectedPolicies ==
    ASSUME NEW d, NEW f \in JobFields
    PROVE  PolicyThere(ProjectJob(d), f) <=>
             /\ f \in {"retry"} \cup RetryFields => ~Lacking(d, "retry", RetryFields)
             /\ f \in {"unique"} \cup UniqueFields => d["unique"] # "absent"
<1> DEFINE p == ProjectJob(d)
<1>1. \A g \in {"retry"} \cup RetryFields :
        g \in JobFields /\ g \notin Filled /\ g \notin {"unique.key", "unique.states"}
  BY DEF JobFields, RequestFields, RetryFields, UniqueFields, Filled
<1>2. \A g \in {"retry"} \cup RetryFields : p[g] = "absent" <=> d[g] = "absent"
  BY <1>1, ProjectedIs
<1>3. {"unique", "unique.key"} \subseteq JobFields /\ "unique.key" \in UniqueFields /\ "unique" \notin Filled
  BY DEF JobFields, RequestFields, UniqueFields, Filled
<1>4. p["unique"] = "absent" <=> d["unique"] = "absent"
  BY <1>3, ProjectedIs
<1>5. d["unique"] # "absent" => p["unique.key"] # "absent"
  BY <1>3, ProjectedIs
<1> HIDE DEF p
<1>6. Lacking(p, "retry", RetryFields) <=> Lacking(d, "retry", RetryFields)
  BY <1>2 DEF Lacking
<1>7. Lacking(p, "unique", UniqueFields) <=> d["unique"] = "absent"
  BY <1>3, <1>4, <1>5 DEF Lacking
<1> QED BY <1>6, <1>7 DEF PolicyThere, p

LEMMA ReadOverGrpc ==
    ASSUME NEW d, NEW f \in JobFields, PolicyThere(ProjectJob(d), f)
    PROVE  FromDict(ProjectJob(d))[f] =
             IF d[f] # "absent" THEN Unwrapped(d[f])
             ELSE IF f \in Filled \/ f \in {"unique.key", "unique.states"} THEN "zero"
             ELSE SdkDefault(f)
<1>1. FromDict(ProjectJob(d))[f] = IF ProjectJob(d)[f] = "absent" THEN SdkDefault(f) ELSE ProjectJob(d)[f]
  BY ReadOverHttp
<1>2. f \in {"unique.key", "unique.states"} => d["unique"] # "absent"
  <2>1. {"unique.key", "unique.states"} \subseteq UniqueFields
    BY DEF UniqueFields
  <2> QED BY <2>1, ProjectedPolicies
<1> QED BY <1>1, <1>2, ProjectedIs

(* What protobuf messages leave of the fields that were sent.                   *)
LEMMA SentOverProtobuf ==
    ASSUME NEW d, NEW f \in DOMAIN d
    PROVE  /\ OverProtobuf(d)[f] = IF d[f] = "zero" /\ f \in NoPresence THEN "absent" ELSE d[f]
           /\ DOMAIN OverProtobuf(d) = DOMAIN d
BY DEF OverProtobuf

(* What to_dict leaves of a field that was set.                                 *)
LEMMA ToDictOf ==
    ASSUME NEW e \in Envelopes, ~HasEmptyPolicy(e), NEW f \in RequestFields, e[f] # "none",
           InRetry(f) => e["retry"] # "none", InUnique(f) => e["unique"] # "none"
    PROVE  /\ ToDict(e)[f] = IF \/ e[f] = "zero" /\ f \in OmittedWhenFalsy
                                \/ f = "queue" /\ e[f] = "default"
                             THEN "absent" ELSE e[f]
           /\ f \in {"retry"} \cup RetryFields =>
                ToDict(e)["retry"] = "other" /\ ToDict(e)["retry.initial_interval"] \notin {"absent", "zero"}
           /\ f \in {"unique"} \cup UniqueFields =>
                ToDict(e)["unique"] = "other" /\ ToDict(e)["unique.on_conflict"] # "absent"
<1>1. ToDict(e)[f] = IF \/ e[f] = "zero" /\ f \in OmittedWhenFalsy
                        \/ f = "queue" /\ e[f] = "default"
                     THEN "absent" ELSE e[f]
  BY DEF ToDict
<1>2. \A g \in {"retry", "unique"} :
         e[g] \in {"none", "other"} /\ ToDict(e)[g] = IF e[g] = "none" THEN "absent" ELSE e[g]
  <2>1. \A g \in {"retry", "unique"} : e[g] \in {"none", "other"}
    BY FieldNames, FieldValues DEF HasEmptyPolicy
  <2>2. \A g \in {"retry", "unique"} :
           /\ g \in RequestFields /\ ~InRetry(g) /\ ~InUnique(g) /\ g # "queue" /\ e[g] # "zero"
    BY <2>1, FieldNames
  <2> QED BY <2>1, <2>2 DEF ToDict
<1>3. \A g \in {"retry.initial_interval", "unique.on_conflict"} :
         /\ g \in RequestFields /\ g \in AllFields /\ g # "queue" /\ g \notin OmittedWhenFalsy
         /\ ValuesOf(g) = {"default", "other", "invalid"}
  BY DEF RequestFields, AllFields, JobFields, RetryFields, UniqueFields, OmittedWhenFalsy, ValuesOf
<1>4. \A g \in {"retry.initial_interval", "unique.on_conflict"} : e[g] \in {"default", "other", "invalid"}
  BY <1>3, FieldValues
<1>5. ASSUME f \in {"retry"} \cup RetryFields
      PROVE  ToDict(e)["retry"] = "other" /\ ToDict(e)["retry.initial_interval"] \notin {"absent", "zero"}
  <2>1. e["retry"] = "other"
    BY <1>2, <1>5 DEF InRetry
  <2>2. ~InUnique("retry.initial_interval")
    BY DEF InUnique, UniqueFields
  <2> QED BY <1>2, <1>3, <1>4, <2>1, <2>2 DEF ToDict
<1>6. ASSUME f \in {"unique"} \cup UniqueFields
      PROVE  ToDict(e)["unique"] = "other" /\ ToDict(e)["unique.on_conflict"] # "absent"
  <2>1. e["unique"] = "other"
    BY <1>2, <1>6 DEF InUnique
  <2>2. ~InRetry("unique.on_conflict")
    BY DEF InRetry, RetryFields
  <2> QED BY <1>2, <1>3, <1>4, <2>1, <2>2 DEF ToDict
<1> QED BY <1>1, <1>5, <1>6

(* What JobKept allows of a field.                                              *)
Excused(f, got) == Meant(f) \in {"absent", got} \/ Altered(f, got)

LEMMA StoredIsRead ==
    ASSUME IsCall(asked), asked.op = "info", NEW f \in JobFields
    PROVE  Excused(f, GotBy(asked)[f])
<1> DEFINE e == asked.fields
           j == ServedTo(asked)
           v == e[f]
<1> SUFFICES ASSUME Meant(f) # "absent" PROVE Excused(f, GotBy(asked)[f])
  BY DEF Excused
<1>1. e \in Envelopes /\ asked.via \in {"http", "grpc"}
  BY DEF IsCall
<1>2. j = Stored(e) /\ DOMAIN j = JobFields /\ \A g \in JobFields : Meant(g) = j[g]
  BY DEF ServedTo, SentBy, Stored, Meant
<1>3. /\ Meant(f) = v /\ v # "none" /\ j[f] = v
      /\ InRetry(f) => e["retry"] = "other"
      /\ InUnique(f) => e["unique"] = "other"
  BY <1>2 DEF Stored
<1>4. \A g \in {"retry", "unique"} :
         /\ e[g] \in {"none", "zero", "other"}
         /\ j[g] = IF e[g] = "none" THEN "absent" ELSE e[g]
  <2>1. \A g \in {"retry", "unique"} : e[g] \in {"none", "zero", "other"}
    BY <1>1, FieldNames, FieldValues
  <2> QED BY <1>2, <2>1, FieldNames DEF Stored
<1>5. v \in ValuesOf(f) /\ v # "absent"
  BY <1>1, FieldNames, FieldValues
<1>6. /\ f \in {"retry"} \cup RetryFields => j["retry"] # "absent"
      /\ f \in {"unique"} \cup UniqueFields => j["unique"] # "absent"
  BY <1>3, <1>4, <1>5 DEF InRetry, InUnique
<1>7. RetryFields \cup UniqueFields \subseteq JobFields
  BY DEF RequestFields, JobFields, RetryFields, UniqueFields
<1> HIDE DEF e, j
<1>8. CASE asked.via = "http"
  <2>1. GotBy(asked)[f] = FromDict(j)[f]
    BY <1>8 DEF GotBy, j
  <2>2. CASE PolicyThere(j, f)
    <3>1. FromDict(j)[f] = v
      BY <1>3, <1>5, <2>2, ReadOverHttp
    <3> QED BY <1>3, <2>1, <3>1 DEF Excused
  <2>3. CASE ~PolicyThere(j, f)
    <3>1. FromDict(j)[f] = "none"
      BY <2>3, ReadOverHttp
    <3>2. \/ f \in {"retry"} \cup RetryFields /\ \A g \in RetryFields : j[g] = "absent"
          \/ f \in {"unique"} \cup UniqueFields /\ \A g \in UniqueFields : j[g] = "absent"
      BY <1>6, <2>3 DEF PolicyThere, Lacking
    <3>3. CASE f \in {"retry"} \cup RetryFields /\ \A g \in RetryFields : j[g] = "absent"
      BY <1>2, <1>7, <2>1, <3>1, <3>3 DEF Excused, Altered, Says
    <3>4. CASE f \in {"unique"} \cup UniqueFields /\ \A g \in UniqueFields : j[g] = "absent"
      <4>1. f = "unique"
        BY <1>3, <1>5, <3>4
      <4> QED BY <1>2, <1>7, <2>1, <3>1, <3>4, <4>1 DEF Excused, Altered, Says
    <3> QED BY <3>2, <3>3, <3>4
  <2> QED BY <2>2, <2>3
<1>9. CASE asked.via = "grpc"
  <2> DEFINE o == OverProtobuf(j)
  <2>1. \A g \in JobFields : o[g] = IF j[g] = "zero" /\ g \in NoPresence THEN "absent" ELSE j[g]
    BY <1>2, SentOverProtobuf
  <2>2. o["retry"] = j["retry"] /\ o["unique"] = j["unique"]
    BY <2>1, FieldNames
  <2> HIDE DEF o
  <2>3. GotBy(asked)[f] = FromDict(ProjectJob(o))[f]
    BY <1>9 DEF GotBy, o, j
  <2>4. CASE PolicyThere(ProjectJob(o), f)
    <3>1. FromDict(ProjectJob(o))[f] =
               IF o[f] # "absent" THEN Unwrapped(o[f])
               ELSE IF f \in Filled \/ f \in {"unique.key", "unique.states"} THEN "zero"
               ELSE SdkDefault(f)
      BY <2>4, ReadOverGrpc
    <3>2. v = "zero" /\ f \in NoPresence =>
            SdkDefault(f) = "zero" \/ f \in ZeroIsLost \/ f \in Filled \/ f \in {"unique.key", "unique.states"}
      BY <1>5, ZeroRead DEF Filled
    <3>3. o[f] = IF v = "zero" /\ f \in NoPresence THEN "absent" ELSE v
      BY <1>3, <2>1
    <3>4. CASE o[f] # "absent"
      BY <1>3, <1>9, <2>3, <3>1, <3>3, <3>4 DEF Excused, Altered, Unwrapped
    <3>5. CASE o[f] = "absent"
      BY <1>3, <1>5, <1>9, <2>3, <3>1, <3>2, <3>3, <3>5 DEF Excused, Altered
    <3> QED BY <3>4, <3>5
  <2>5. CASE ~PolicyThere(ProjectJob(o), f)
    <3>1. FromDict(ProjectJob(o))[f] = "none"
      BY <2>5, ReadOverHttp
    <3>2. f \in {"retry"} \cup RetryFields /\ \A g \in RetryFields : o[g] = "absent"
      BY <1>6, <2>2, <2>5, ProjectedPolicies DEF Lacking
    <3>3. \A g \in RetryFields : Meant(g) \in {"absent", "zero"}
      BY <1>2, <1>7, <2>1, <3>2
    <3> QED BY <1>9, <2>3, <3>1, <3>2, <3>3 DEF Excused, Altered, Says
  <2> QED BY <2>4, <2>5
<1> QED BY <1>1, <1>8, <1>9

LEMMA RequestIsRead ==
    ASSUME IsCall(asked), asked.op = "push", NEW f \in JobFields
    PROVE  Excused(f, GotBy(asked)[f])
<1> DEFINE e == asked.fields
           body == ToDict(e)
           j == ServedTo(asked)
           v == e[f]
           left == (v = "zero" /\ f \in OmittedWhenFalsy) \/ (f = "queue" /\ v = "default")
<1> SUFFICES ASSUME Meant(f) # "absent" PROVE Excused(f, GotBy(asked)[f])
  BY DEF Excused
<1>1. e \in Envelopes /\ ~HasEmptyPolicy(e) /\ asked.via \in {"http", "grpc"}
  BY DEF IsCall
<1>2. /\ f \in RequestFields /\ Meant(f) = v /\ v # "none"
      /\ InRetry(f) => e["retry"] # "none"
      /\ InUnique(f) => e["unique"] # "none"
  BY DEF Meant
<1>3. /\ body[f] = IF left THEN "absent" ELSE v
      /\ f \in {"retry"} \cup RetryFields =>
           body["retry"] = "other" /\ body["retry.initial_interval"] \notin {"absent", "zero"}
      /\ f \in {"unique"} \cup UniqueFields =>
           body["unique"] = "other" /\ body["unique.on_conflict"] # "absent"
  BY <1>1, <1>2, ToDictOf
<1>4. v \in ValuesOf(f) /\ v # "absent"
  BY <1>1, FieldNames, FieldValues
<1>5. DOMAIN body = RequestFields
  BY DEF ToDict
<1>6. v = "zero" /\ f \in OmittedWhenFalsy =>
          \/ SdkDefault(f) = "zero"
          \/ f \in {"delay_until", "expires_at", "unique.period"} /\ SdkDefault(f) = "none"
          \/ f \in {"unique.key", "unique.states"}
  BY <1>4, ZeroRead
<1>9. /\ "retry.initial_interval" \in RetryFields \cap RequestFields \cap JobFields
      /\ "retry.initial_interval" \notin NoPresence
      /\ "unique.on_conflict" \in UniqueFields \cap RequestFields \cap JobFields
      /\ {"retry", "unique"} \subseteq RequestFields \cap JobFields
  BY DEF RequestFields, JobFields, RetryFields, UniqueFields, NoPresence
<1> HIDE DEF e, body, left
<1>7. CASE asked.via = "http"
  <2>1. \A g \in JobFields : g \in RequestFields => j[g] = body[g]
    BY <1>5, <1>7 DEF ServedTo, SentBy, e, body
  <2>2. j[f] = body[f] /\ PolicyThere(j, f)
    BY <1>2, <1>3, <1>9, <2>1 DEF PolicyThere, Lacking
  <2> HIDE DEF j
  <2>3. FromDict(j)[f] = IF left THEN SdkDefault(f) ELSE v
    BY <1>3, <1>4, <2>2, ReadOverHttp
  <2>4. GotBy(asked)[f] = FromDict(j)[f]
    BY <1>7 DEF GotBy, j
  <2>5. CASE left /\ v = "zero" /\ f \in {"unique.key", "unique.states"}
    <3>1. SdkDefault(f) = "default"
      BY <2>5 DEF SdkDefault, ValuesOf
    <3> QED BY <1>2, <2>3, <2>4, <2>5, <3>1 DEF Excused, Altered
  <2> QED BY <1>2, <1>6, <2>3, <2>4, <2>5, FieldNames DEF Excused, Altered, left
<1>8. CASE asked.via = "grpc"
  <2> DEFINE sent == OverProtobuf(ProjectEnqueue(body))
             o == OverProtobuf(j)
  <2>1. \A g \in RequestFields :
          /\ g \in DOMAIN ProjectEnqueue(body)
          /\ ProjectEnqueue(body)[g] = body[g]
    BY FieldNames DEF ProjectEnqueue
  <2>2. \A g \in RequestFields :
          /\ g \in DOMAIN sent
          /\ sent[g] = IF body[g] = "zero" /\ g \in NoPresence THEN "absent" ELSE body[g]
    BY <2>1, SentOverProtobuf
  <2>3. SentBy(asked) = sent
    BY <1>8 DEF SentBy, e, body
  <2> HIDE DEF sent
  <2>4. DOMAIN j = JobFields /\ \A g \in JobFields : g \in RequestFields => j[g] = sent[g]
    BY <2>2, <2>3 DEF ServedTo
  <2> HIDE DEF j
  <2>5. \A g \in JobFields : g \in RequestFields => o[g] = sent[g]
    BY <2>2, <2>4, SentOverProtobuf
  <2> HIDE DEF o
  <2>6. o[f] = IF left \/ (v = "zero" /\ f \in NoPresence) THEN "absent" ELSE v
    BY <1>2, <1>3, <2>2, <2>5
  <2>7. /\ \A g \in {"retry", "unique"} : body[g] = "other" => o[g] = "other"
        /\ body["retry.initial_interval"] # "zero" =>
              o["retry.initial_interval"] = body["retry.initial_interval"]
    BY <1>9, <2>2, <2>5
  <2>8. PolicyThere(ProjectJob(o), f)
    BY <1>3, <1>9, <2>7, ProjectedPolicies DEF Lacking
  <2>9. FromDict(ProjectJob(o))[f] =
             IF o[f] # "absent" THEN Unwrapped(o[f])
             ELSE IF f \in Filled \/ f \in {"unique.key", "unique.states"} THEN "zero"
             ELSE SdkDefault(f)
    BY <2>8, ReadOverGrpc
  <2>10. GotBy(asked)[f] = FromDict(ProjectJob(o))[f]
    BY <1>8 DEF GotBy, o, j
  <2>11. v = "zero" /\ f \in NoPresence =>
           SdkDefault(f) = "zero" \/ f \in ZeroIsLost \/ f \in Filled \/ f \in {"unique.key", "unique.states"}
    BY <1>4, ZeroRead DEF Filled
  <2>12. left /\ f \notin Filled /\ f \notin {"unique.key", "unique.states"} =>
           SdkDefault(f) = v \/ (v = "zero" /\ f \in {"delay_until", "expires_at", "unique.period"}
                                 /\ SdkDefault(f) = "none")
    BY <1>6, FieldNames DEF left
  <2>13. left /\ (f \in Filled \/ f \in {"unique.key", "unique.states"}) => v = "zero"
    BY DEF left, Filled
  <2>14. CASE o[f] # "absent"
    BY <1>2, <1>8, <2>6, <2>9, <2>10, <2>14 DEF Excused, Altered, Unwrapped
  <2>15. CASE o[f] = "absent"
    BY <1>2, <1>4, <1>8, <2>6, <2>9, <2>10, <2>11, <2>12, <2>13, <2>15 DEF Excused, Altered
  <2> QED BY <2>14, <2>15
<1> QED BY <1>1, <1>7, <1>8

(* The catalog's statuses tell what may be tried again, but for 422 and 409.    *)
CatalogRow(x) ==
    /\ x.status \in {0, 400, 401, 403, 404, 409, 413, 422, 429, 500, 503, 504}
    /\ x.retryable = TRUE \/ x.retryable = FALSE
    /\ x.status \in {429, 500, 503, 504} => x.retryable
    /\ x.status \in {401, 403, 404} => ~x.retryable

LEMMA CatalogStatuses == \A r \in AllErrorCodes : CatalogRow(r) /\ r.retryable \in BOOLEAN
<1>1. \A r \in ClientErrors : CatalogRow(r)
  BY DEF ClientErrors, Rows, CatalogRow
<1>2. \A r \in ServerErrors : CatalogRow(r)
  BY DEF ServerErrors, Rows, CatalogRow
<1>3. \A r \in LifecycleErrors : CatalogRow(r)
  BY DEF LifecycleErrors, Rows, CatalogRow
<1>4. \A r \in WorkflowErrors : CatalogRow(r)
  BY DEF WorkflowErrors, Rows, CatalogRow
<1>5. \A r \in AccessErrors \cup RateErrors \cup ExtensionErrors : CatalogRow(r)
  BY DEF AccessErrors, RateErrors, ExtensionErrors, Rows, CatalogRow
<1>6. \A r \in AllErrorCodes : CatalogRow(r)
  BY <1>1, <1>2, <1>3, <1>4, <1>5 DEF AllErrorCodes
<1>7. \A r : CatalogRow(r) => r.retryable \in BOOLEAN
  BY DEF CatalogRow
<1> QED BY <1>6, <1>7

(* What an answer becomes, whatever the status it came under.                   *)
Advised(a, x) ==
    /\ a.retryable = "yes" => x.retryable = TRUE
    /\ a.retryable = "no" => x.retryable = FALSE
    /\ a.retryable = "unsaid" /\ ~Found(a) => x.retryable = FALSE
    /\ a.retryable = "unsaid" /\ Found(a) => x.retryable = a.row.retryable
Delivered == {"OJSAPIError", "DuplicateJobError", "JobNotFoundError", "QueuePausedError",
              "RateLimitedError"}


(* The class and the wait of an exception: of the canonical code and the status. *)
ClassOf(name, status) ==
    CASE name = "DUPLICATE_JOB" -> "DuplicateJobError"
      [] name = "NOT_FOUND" -> "JobNotFoundError"
      [] name = "QUEUE_PAUSED" -> "QueuePausedError"
      [] OTHER -> IF name = "RATE_LIMITED" \/ status = 429 THEN "RateLimitedError" ELSE "OJSAPIError"

LEMMA MappedIs ==
    ASSUME NEW a, NEW status, a.retryable \in {"yes", "no", "unsaid"}, a.row.retryable \in BOOLEAN
    PROVE  LET x == MapErrorResponse(status, a)
           IN /\ x.class = ClassOf(Canonical(a), status) /\ x.class \in Delivered
              /\ x.retryAfter = IF x.class = "RateLimitedError" THEN RetryAfter(a.wait) ELSE "none"
              /\ Advised(a, x)
              /\ x \in Exceptions
<1> DEFINE says == CASE a.retryable = "yes" -> TRUE
                     [] a.retryable = "no" -> FALSE
                     [] OTHER -> Found(a) /\ a.row.retryable
           x == MapErrorResponse(status, a)
           wait == RetryAfter(a.wait)
           name == Canonical(a)
<1>1. /\ x.class = ClassOf(name, status) /\ x.class \in Delivered
      /\ x.retryAfter = (IF x.class = "RateLimitedError" THEN wait ELSE "none")
      /\ x.retryable = says
      /\ x = Raised(x.class, says, x.retryAfter)
  <2> HIDE DEF says, wait, name
  <2>1. x = CASE name = "DUPLICATE_JOB" -> Raised("DuplicateJobError", says, "none")
              [] name = "NOT_FOUND" -> Raised("JobNotFoundError", says, "none")
              [] name = "QUEUE_PAUSED" -> Raised("QueuePausedError", says, "none")
              [] OTHER -> IF name = "RATE_LIMITED" \/ status = 429
                          THEN Raised("RateLimitedError", says, wait)
                          ELSE Raised("OJSAPIError", says, "none")
    BY DEF MapErrorResponse, says, wait, name
  <2> HIDE DEF x
  <2>2. CASE name = "DUPLICATE_JOB"
    <3>1. x = Raised("DuplicateJobError", says, "none")
      BY <2>1, <2>2
    <3> QED BY <2>2, <3>1 DEF Raised, ClassOf, Delivered
  <2>3. CASE name = "NOT_FOUND"
    <3>1. x = Raised("JobNotFoundError", says, "none")
      BY <2>1, <2>3
    <3> QED BY <2>3, <3>1 DEF Raised, ClassOf, Delivered
  <2>4. CASE name = "QUEUE_PAUSED"
    <3>1. x = Raised("QueuePausedError", says, "none")
      BY <2>1, <2>4
    <3> QED BY <2>4, <3>1 DEF Raised, ClassOf, Delivered
  <2>5. CASE name \notin {"DUPLICATE_JOB", "NOT_FOUND", "QUEUE_PAUSED"}
    <3>1. CASE name = "RATE_LIMITED" \/ status = 429
      <4>1. x = Raised("RateLimitedError", says, wait)
        BY <2>1, <2>5, <3>1
      <4> QED BY <2>5, <3>1, <4>1 DEF Raised, ClassOf, Delivered
    <3>2. CASE ~(name = "RATE_LIMITED" \/ status = 429)
      <4>1. x = Raised("OJSAPIError", says, "none")
        BY <2>1, <2>5, <3>2
      <4> QED BY <2>5, <3>2, <4>1 DEF Raised, ClassOf, Delivered
    <3> QED BY <3>1, <3>2
  <2> QED BY <2>2, <2>3, <2>4, <2>5
<1>2. says = TRUE \/ says = FALSE
  OBVIOUS
<1>3. Advised(a, x)
  <2>1. CASE a.retryable = "yes"
    BY <1>1, <2>1 DEF Advised
  <2>2. CASE a.retryable = "no"
    BY <1>1, <2>2 DEF Advised
  <2>3. CASE a.retryable = "unsaid" /\ ~Found(a)
    BY <1>1, <2>3 DEF Advised
  <2>4. CASE a.retryable = "unsaid" /\ Found(a)
    <3>1. says = a.row.retryable
      BY <2>4
    <3> HIDE DEF says, x
    <3> QED BY <1>1, <2>4, <3>1 DEF Advised
  <2> QED BY <2>1, <2>2, <2>3, <2>4
<1>4. x \in Exceptions
  <2>1. x.class \in Delivered /\ x.retryAfter \in {"none", "zero", "seconds"}
    <3>1. wait \in {"none", "zero", "seconds"}
      BY DEF RetryAfter
    <3> HIDE DEF wait, says, x, name
    <3> QED BY <1>1, <3>1
  <2> HIDE DEF says, x
  <2>2. says \in BOOLEAN
    BY <1>2
  <2>3. \A c \in Delivered, t \in {"none", "zero", "seconds"} : \A b \in BOOLEAN : Raised(c, b, t) \in Exceptions
    BY DEF Raised, Exceptions, Delivered
  <2> QED BY <1>1, <2>1, <2>2, <2>3
<1> HIDE DEF x, says
<1> QED BY <1>1, <1>3, <1>4 DEF x

(* What a gRPC status says by itself.                                           *)
Doubtful == {"UNKNOWN", "FAILED_PRECONDITION", "INVALID_ARGUMENT", "ALREADY_EXISTS"}

LEMMA PlainIs ==
    ASSUME NEW code
    PROVE  /\ PlainError(code) \in Exceptions
           /\ RetryableDelivery(PlainError(code)) <=>
                code \in {"UNAVAILABLE", "DEADLINE_EXCEEDED", "RESOURCE_EXHAUSTED", "INTERNAL"}
<1> DEFINE says == code \in {"UNAVAILABLE", "DEADLINE_EXCEEDED", "RESOURCE_EXHAUSTED", "INTERNAL"}
           x == PlainError(code)
<1>1. PICK c \in Delivered \cup {"OJSConnectionError", "OJSTimeoutError"} :
         /\ x = Raised(c, says, "none")
         /\ c = "OJSConnectionError" => code = "UNAVAILABLE"
         /\ c = "OJSTimeoutError" => code = "DEADLINE_EXCEEDED"
  BY DEF PlainError, Delivered
<1>2. says \in BOOLEAN
  OBVIOUS
<1>3. \A b \in BOOLEAN : Raised(c, b, "none") \in Exceptions
  BY DEF Raised, Exceptions, Delivered
<1>4. x.class = c /\ x.retryable = says
  BY <1>1 DEF Raised
<1> HIDE DEF x
<1>5. RetryableDelivery(x) <=> says
  BY <1>1, <1>4 DEF RetryableDelivery, Delivered
<1> HIDE DEF says
<1>6. x \in Exceptions
  BY <1>1, <1>2, <1>3
<1> QED BY <1>5, <1>6 DEF x, says

LEMMA StatusesAgree ==
    ASSUME NEW r \in AllErrorCodes, r.status > 0, NEW code \in ServerCodes(r)
    PROVE  /\ r.status = 429 <=> HttpStatus(code) = 429
           /\ code \notin Doubtful => (RetryableDelivery(PlainError(code)) <=> r.retryable)
           /\ code \in Doubtful => ~RetryableDelivery(PlainError(code))
<1>1. CatalogRow(r)
  BY CatalogStatuses
<1>2. /\ r.status = 400 => code = "INVALID_ARGUMENT"
      /\ r.status = 404 => code = "NOT_FOUND"
      /\ r.status = 429 => code = "RESOURCE_EXHAUSTED"
      /\ r.status = 503 => code = "UNAVAILABLE"
      /\ r.status = 504 => code = "DEADLINE_EXCEEDED"
      /\ r.status = 500 => code \in {"INTERNAL", "UNKNOWN"}
      /\ r.status = 401 => code = "UNAUTHENTICATED"
      /\ r.status = 403 => code = "PERMISSION_DENIED"
      /\ r.status \notin {400, 401, 403, 404, 429, 500, 503, 504}
           => code \in {"INVALID_ARGUMENT", "ALREADY_EXISTS", "FAILED_PRECONDITION"}
  <2> DEFINE s == r.status
  <2>1. code \in CASE s = 400 -> {"INVALID_ARGUMENT"}
                   [] s = 404 -> {"NOT_FOUND"}
                   [] s = 429 -> {"RESOURCE_EXHAUSTED"}
                   [] s = 503 -> {"UNAVAILABLE"}
                   [] s = 504 -> {"DEADLINE_EXCEEDED"}
                   [] s = 500 -> {"INTERNAL", "UNKNOWN"}
                   [] s = 401 -> {"UNAUTHENTICATED"}
                   [] s = 403 -> {"PERMISSION_DENIED"}
                   [] OTHER -> {"INVALID_ARGUMENT", "ALREADY_EXISTS", "FAILED_PRECONDITION"}
    BY DEF ServerCodes
  <2>2. s \in {0, 400, 401, 403, 404, 409, 413, 422, 429, 500, 503, 504}
    BY <1>1 DEF CatalogRow
  <2> HIDE DEF s
  <2>3. s = 400 => code = "INVALID_ARGUMENT"
    BY <2>1
  <2>4. s = 404 => code = "NOT_FOUND"
    BY <2>1
  <2>5. s = 429 => code = "RESOURCE_EXHAUSTED"
    BY <2>1
  <2>6. s = 503 => code = "UNAVAILABLE"
    BY <2>1
  <2>7. s = 504 => code = "DEADLINE_EXCEEDED"
    BY <2>1
  <2>8. s = 500 => code \in {"INTERNAL", "UNKNOWN"}
    BY <2>1
  <2>9. s = 401 => code = "UNAUTHENTICATED"
    BY <2>1
  <2>10. s = 403 => code = "PERMISSION_DENIED"
    BY <2>1
  <2>11. s \notin {400, 401, 403, 404, 429, 500, 503, 504}
           => code \in {"INVALID_ARGUMENT", "ALREADY_EXISTS", "FAILED_PRECONDITION"}
    BY <2>1
  <2> QED BY <2>3, <2>4, <2>5, <2>6, <2>7, <2>8, <2>9, <2>10, <2>11 DEF s
<1>3. HttpStatus(code) = 429 <=> code = "RESOURCE_EXHAUSTED"
  BY DEF HttpStatus
<1>4. \/ code \in {"UNAVAILABLE", "DEADLINE_EXCEEDED", "RESOURCE_EXHAUSTED", "INTERNAL"}
         /\ code \notin Doubtful /\ r.retryable
      \/ code \notin {"UNAVAILABLE", "DEADLINE_EXCEEDED", "RESOURCE_EXHAUSTED", "INTERNAL"}
         /\ (code \in Doubtful \/ ~r.retryable)
  BY <1>1, <1>2 DEF CatalogRow, Doubtful
<1>5. RetryableDelivery(PlainError(code)) <=>
         code \in {"UNAVAILABLE", "DEADLINE_EXCEEDED", "RESOURCE_EXHAUSTED", "INTERNAL"}
  BY PlainIs
<1> QED BY <1>2, <1>3, <1>4, <1>5

(* The same answer over HTTP and, under a status that fits it, over gRPC.       *)
LEMMA AnswersAgree ==
    ASSUME NEW a \in Answers, NEW code \in ServerCodes(a.row), NEW structured \in BOOLEAN
    PROVE  LET http == MapErrorResponse(a.row.status, a)
               grpc == MapGrpcError(code, a, structured)
           IN /\ http \in Exceptions /\ grpc \in Exceptions
              /\ structured =>
                   /\ grpc.class = http.class
                   /\ grpc.retryAfter = http.retryAfter
                   /\ a.retryable # "unsaid" => grpc.retryable = http.retryable
              /\ ~structured /\ a.retryable = "unsaid" /\ Found(a) =>
                   \/ RetryableDelivery(grpc) = RetryableDelivery(http)
                   \/ code \in Doubtful /\ ~RetryableDelivery(grpc)
<1> DEFINE told == [a EXCEPT !.retryable = IF @ = "yes" THEN "yes" ELSE "no",
                             !.wait = IF @ = "seconds" THEN "seconds" ELSE IF @ = "past" THEN "past"
                                      ELSE "unsaid"]
           http == MapErrorResponse(a.row.status, a)
           grpc == MapGrpcError(code, a, structured)
<1>1. /\ a.row \in AllErrorCodes /\ a.row.status > 0 /\ a.retryable \in {"yes", "no", "unsaid"}
      /\ a.wait \in {"unsaid", "garbled", "infinite", "past", "seconds"}
  BY DEF Answers
<1>2. /\ told.row = a.row /\ told.spelling = a.spelling
      /\ told.retryable = (IF a.retryable = "yes" THEN "yes" ELSE "no")
      /\ told.wait = (IF a.wait = "seconds" THEN "seconds"
                      ELSE IF a.wait = "past" THEN "past" ELSE "unsaid")
  BY DEF Answers
<1>3. Canonical(told) = Canonical(a)
  BY <1>2 DEF Found, Canonical
<1>4. RetryAfter(told.wait) = RetryAfter(a.wait)
  BY <1>1, <1>2 DEF RetryAfter
<1>5. a.row.retryable \in BOOLEAN
  BY <1>1, CatalogStatuses
<1>6. /\ http.class = ClassOf(Canonical(a), a.row.status) /\ http.class \in Delivered
      /\ http.retryAfter = IF http.class = "RateLimitedError" THEN RetryAfter(a.wait) ELSE "none"
      /\ Advised(a, http)
      /\ http \in Exceptions
  BY <1>1, <1>5, MappedIs
<1> HIDE DEF told, http
<1>7. CASE structured
  <2>1. grpc = MapErrorResponse(HttpStatus(code), told)
    BY <1>7 DEF MapGrpcError, StructuredError, told
  <2>2. a.row.status = 429 <=> HttpStatus(code) = 429
    BY <1>1, StatusesAgree
  <2>3. /\ grpc.class = ClassOf(Canonical(told), HttpStatus(code))
        /\ grpc.retryAfter = IF grpc.class = "RateLimitedError" THEN RetryAfter(told.wait) ELSE "none"
        /\ Advised(told, grpc)
        /\ grpc \in Exceptions
    <3>1. told.retryable \in {"yes", "no", "unsaid"} /\ told.row.retryable \in BOOLEAN
      BY <1>1, <1>2, <1>5
    <3> HIDE DEF grpc
    <3> QED BY <2>1, <3>1, MappedIs
  <2> HIDE DEF grpc
  <2>4. ClassOf(Canonical(told), HttpStatus(code)) = ClassOf(Canonical(a), a.row.status)
    BY <1>3, <2>2 DEF ClassOf
  <2>5. grpc.class = http.class /\ grpc.retryAfter = http.retryAfter
    BY <1>4, <1>6, <2>3, <2>4
  <2>6. a.retryable # "unsaid" => grpc.retryable = http.retryable
    <3>1. CASE a.retryable = "yes"
      BY <1>2, <1>6, <2>3, <3>1 DEF Advised
    <3>2. CASE a.retryable = "no"
      BY <1>2, <1>6, <2>3, <3>2 DEF Advised
    <3> QED BY <1>1, <3>1, <3>2
  <2> QED BY <1>6, <1>7, <2>3, <2>5, <2>6 DEF grpc, http
<1>8. CASE ~structured
  <2>1. grpc = PlainError(code)
    BY <1>8 DEF MapGrpcError
  <2>2. grpc \in Exceptions
    BY <2>1, PlainIs
  <2> HIDE DEF grpc
  <2>3. ASSUME a.retryable = "unsaid", Found(a)
        PROVE  \/ RetryableDelivery(grpc) = RetryableDelivery(http)
               \/ code \in Doubtful /\ ~RetryableDelivery(grpc)
    <3>1. http.retryable = a.row.retryable
      BY <1>6, <2>3 DEF Advised
    <3>2. RetryableDelivery(http) <=> a.row.retryable
      BY <1>6, <3>1 DEF RetryableDelivery, Delivered
    <3>3. /\ code \notin Doubtful => (RetryableDelivery(grpc) <=> a.row.retryable)
          /\ code \in Doubtful => ~RetryableDelivery(grpc)
      BY <1>1, <2>1, StatusesAgree
    <3>4. RetryableDelivery(grpc) \in BOOLEAN /\ RetryableDelivery(http) \in BOOLEAN
      <4>1. \A x : RetryableDelivery(x) <=>
                     (x.class \in {"OJSConnectionError", "OJSTimeoutError"} \/ x.retryable)
        BY DEF RetryableDelivery
      <4> QED BY <1>6, <2>2 DEF RetryableDelivery, Exceptions
    <3> QED BY <3>2, <3>3, <3>4
  <2> QED BY <1>6, <1>8, <2>2, <2>3 DEF grpc, http
<1> QED BY <1>7, <1>8

-----------------------------------------------------------------------------

(* Every call begins there, or there is none.                                   *)
LEMMA CallInvStarts == CallInit \/ NoCall => CallInv
BY DEF CallInit, NoCall, CallInv, IsCall, Nothing

(* What each step makes of an answer: the same words as the model's.            *)
LEMMA CallInvKept == CallInv /\ [CallNext]_callVars => CallInv'
<1> SUFFICES ASSUME CallInv, [CallNext]_callVars PROVE CallInv'
  OBVIOUS
<1>1. CASE Call
  <2>1. stage = "calling" /\ IsCall(asked) /\ wire = Nothing /\ outcome = Nothing /\ asked' = asked
    BY <1>1 DEF Call, CallInv
  <2>2. CASE ~Carried(asked)
    <3>1. asked.op = "push" /\ asked.via = "grpc" /\ Refused(ToDict(asked.fields))
      BY <2>2 DEF Carried
    <3>2. stage' = "done" /\ outcome' = [kind |-> "refused"] /\ wire' = wire
      BY <1>1, <3>1 DEF Call
    <3> QED BY <2>1, <3>2 DEF CallInv, IsCall
  <2>3. CASE Carried(asked)
    <3>1. ~(asked.op = "push" /\ asked.via = "grpc" /\ Refused(ToDict(asked.fields)))
      BY <2>3 DEF Carried
    <3>2. /\ stage' = "serving" /\ outcome' = outcome
          /\ wire' = [kind |-> "request", fields |-> SentBy(asked)]
      BY <1>1, <3>1 DEF Call, SentBy
    <3> QED BY <2>1, <2>3, <3>2 DEF CallInv, IsCall, Carried
  <2> QED BY <2>2, <2>3
<1>2. CASE ServeJob
  <2>1. /\ stage = "serving" /\ IsCall(asked) /\ Carried(asked) /\ outcome = Nothing
        /\ wire = [kind |-> "request", fields |-> SentBy(asked)]
        /\ asked' = asked /\ outcome' = outcome /\ stage' = "answered"
    BY <1>2 DEF ServeJob, CallInv
  <2>2. wire.fields = SentBy(asked)
    BY <2>1
  <2>3. wire' = [kind |-> "job", fields |-> ServedTo(asked)]
    BY <1>2, <2>2 DEF ServeJob, ServedTo
  <2> QED BY <2>1, <2>3 DEF CallInv, IsCall, Carried
<1>3. CASE ServeError
  <2>1. /\ stage = "serving" /\ IsCall(asked) /\ Carried(asked) /\ outcome = Nothing
        /\ asked' = asked /\ outcome' = outcome /\ stage' = "answered"
    BY <1>3 DEF ServeError, CallInv
  <2>2. ErrorAnswer(wire')
    BY <1>3 DEF ServeError, ErrorAnswer
  <2> QED BY <2>1, <2>2 DEF CallInv, IsCall, Carried, ErrorAnswer
<1>4. CASE ReturnJob
  <2>1. /\ stage = "answered" /\ IsCall(asked) /\ Carried(asked) /\ wire.kind = "job"
        /\ asked' = asked /\ wire' = wire /\ stage' = "done"
    BY <1>4 DEF ReturnJob, CallInv
  <2>2. wire = [kind |-> "job", fields |-> ServedTo(asked)]
    BY <2>1 DEF CallInv, ErrorAnswer
  <2>3. wire.fields = ServedTo(asked)
    BY <2>2
  <2>4. outcome' = [kind |-> "job", job |-> GotBy(asked)]
    BY <1>4, <2>3 DEF ReturnJob, GotBy
  <2> QED BY <2>1, <2>4 DEF CallInv, IsCall, Carried
<1>5. CASE RaiseError
  <2>1. /\ stage = "answered" /\ IsCall(asked) /\ wire.kind = "error"
        /\ asked' = asked /\ wire' = wire /\ stage' = "done"
    BY <1>5 DEF RaiseError, CallInv
  <2>2. ErrorAnswer(wire)
    BY <2>1 DEF CallInv
  <2>3. outcome' = [kind |-> "error",
                    exception |-> IF asked.via = "http"
                                  THEN MapErrorResponse(wire.answer.row.status, wire.answer)
                                  ELSE MapGrpcError(wire.code, wire.answer, wire.structured)]
    BY <1>5 DEF RaiseError
  <2> QED BY <2>1, <2>2, <2>3 DEF CallInv, IsCall, Carried, ErrorAnswer
<1>6. CASE UNCHANGED callVars
  BY <1>6 DEF callVars, CallInv, IsCall, Carried, ErrorAnswer
<1> QED BY <1>1, <1>2, <1>3, <1>4, <1>5, <1>6 DEF CallNext

LEMMA CallInvTypes == CallInv => CallTypeOK
<1> SUFFICES ASSUME CallInv PROVE CallTypeOK
  OBVIOUS
<1>1. stage \in {"idle", "calling", "serving", "answered", "done"}
  BY DEF CallInv
<1>2. wire.kind \in {"nothing", "request", "job", "error"}
  BY DEF CallInv, Nothing, ErrorAnswer
<1>3. outcome.kind \in {"nothing", "refused", "job", "error"}
  BY DEF CallInv, Nothing
<1>4. ASSUME outcome.kind = "error" PROVE outcome.exception \in Exceptions
  <2>1. stage = "done" /\ ErrorAnswer(wire)
        /\ outcome.exception = IF asked.via = "http"
                               THEN MapErrorResponse(wire.answer.row.status, wire.answer)
                               ELSE MapGrpcError(wire.code, wire.answer, wire.structured)
    BY <1>4 DEF CallInv, Nothing
  <2>2. /\ MapErrorResponse(wire.answer.row.status, wire.answer) \in Exceptions
        /\ MapGrpcError(wire.code, wire.answer, wire.structured) \in Exceptions
    BY <2>1, AnswersAgree DEF ErrorAnswer
  <2> QED BY <2>1, <2>2
<1>5. ASSUME outcome.kind = "job" PROVE DOMAIN outcome.job = JobFields
  <2>1. outcome.job = GotBy(asked)
    BY <1>5 DEF CallInv, Nothing
  <2> QED BY <2>1 DEF GotBy, FromDict
<1> QED BY <1>1, <1>2, <1>3, <1>4, <1>5 DEF CallTypeOK

LEMMA CallInvKeepsJobs == CallInv => JobKept
<1> SUFFICES ASSUME CallInv, outcome.kind = "job"
             PROVE  /\ \A f \in JobFields : Excused(f, outcome.job[f])
                    /\ asked.op = "push" /\ asked.via = "grpc" =>
                          asked.fields["schema"] \in {"none", "zero"}
  BY CallInvTypes DEF JobKept, Excused
<1>1. stage = "done" /\ IsCall(asked) /\ Carried(asked) /\ outcome.job = GotBy(asked)
  BY DEF CallInv, Nothing
<1>2. ASSUME NEW f \in JobFields PROVE Excused(f, outcome.job[f])
  BY <1>1, StoredIsRead, RequestIsRead DEF IsCall
<1>3. ASSUME asked.op = "push", asked.via = "grpc"
      PROVE  asked.fields["schema"] \in {"none", "zero"}
  <2>1. ToDict(asked.fields)["schema"] = "absent"
    BY <1>1, <1>3 DEF Carried, Refused
  <2>2. /\ asked.fields["schema"] # "absent"
        /\ "schema" \in RequestFields /\ ~InRetry("schema") /\ ~InUnique("schema")
    BY <1>1, FieldNames, FieldValues
       DEF IsCall, InRetry, InUnique, RetryFields, UniqueFields
  <2> QED BY <2>1, <2>2 DEF ToDict
<1> QED BY <1>2, <1>3

LEMMA CallInvAgrees == CallInv => ErrorsAgree
<1> SUFFICES ASSUME CallInv, outcome.kind = "error", asked.via = "grpc" PROVE ErrorsAgree
  BY DEF ErrorsAgree
<1>1. ErrorAnswer(wire) /\ outcome.exception = MapGrpcError(wire.code, wire.answer, wire.structured)
  BY DEF CallInv, Nothing
<1>2. wire.answer \in Answers /\ wire.code \in ServerCodes(wire.answer.row) /\ wire.structured \in BOOLEAN
  BY <1>1 DEF ErrorAnswer
<1> QED BY <1>1, <1>2, AnswersAgree DEF ErrorsAgree, Doubtful

-----------------------------------------------------------------------------

(* A call is where its stage says, with what the envelope and the answer make   *)
(* of it, whatever the fields hold (GrpcTransport, HTTPTransport).              *)
THEOREM CallInvariance == Spec => []CallInv
<1>1. Init => CallInv
  BY CallInvStarts DEF Init
<1>2. CallInv /\ [Next]_vars => CallInv'
  <2>1. [Next]_vars => [CallNext]_callVars
    BY DEF Next, vars
  <2> QED BY <2>1, CallInvKept
<1> QED BY <1>1, <1>2, PTL DEF Spec

(* Every job enqueued or read over either transport is the one that was meant,  *)
(* whatever all its fields hold together (to_dict, project_enqueue, project_job, *)
(* _from_proto_job, from_dict).                                                 *)
THEOREM JobsAreKept == Spec => []JobKept
<1> QED BY CallInvariance, CallInvKeepsJobs, PTL

(* Every error answer becomes over gRPC the exception it is over HTTP, for each *)
(* row of the catalog (map_error_response, map_grpc_error).                     *)
THEOREM ErrorsAreAgreed == Spec => []ErrorsAgree
<1> QED BY CallInvariance, CallInvAgrees, PTL

-----------------------------------------------------------------------------
(* Listings                                                                     *)

(* What is collected is a segment of the list that ends at a place: nothing     *)
(* that stayed is left out of it, and in a list that has not changed it starts  *)
(* where the offset says.                                                       *)
Skipping == listing.offset - remainingSkip
Reaches(place) ==
    /\ \A n \in DOMAIN collected : collected[n] <= place
    /\ Len(collected) > 0 => remainingSkip = 0
    /\ listing.op # "queues" => Len(collected) <= listing.limit
    /\ \A i \in stable :
          /\ i <= place
          /\ listing.op = "queues" \/ \E n \in DOMAIN collected : collected[n] < i
          => \E n \in DOMAIN collected : collected[n] = i
    /\ changes = 0 /\ listing.op # "queues" =>
          LET list == InOrder(items)
              passed == Skipping + Len(collected)
          IN /\ passed <= Len(list)
             /\ \A k \in DOMAIN list : list[k] <= place <=> k <= passed
             /\ \A n \in DOMAIN collected : collected[n] = list[listing.offset + n]

(* What was asked for is asked of the server, and the offset has not run over.  *)
Asked ==
    /\ pageState \in {"idle", "rejected"} => collected = << >>
    /\ pageState = "paging" =>
         /\ listing.limit >= 1 /\ listing.offset >= 0 /\ remainingSkip \in 0 .. listing.offset
         /\ listing.op = "queues" => listing.offset = 0
Sorted == \A i, j \in DOMAIN collected : i < j => collected[i] < collected[j]
(* A listing under way has got to its cursor, and to no later one.              *)
OnTheWay ==
    pageState = "paging" =>
      /\ Reaches(cursor)
      /\ \A c \in seenCursors : c <= cursor
      /\ listing.op # "queues" => Len(collected) < listing.limit
(* A listing that is over is what PageHonest says of it.                        *)
Listed ==
    pageState = "done" =>
      /\ \A i \in stable, j, k \in DOMAIN collected :
            collected[j] < i /\ i < collected[k] => \E n \in DOMAIN collected : collected[n] = i
      /\ listing.op = "queues" => \A i \in stable : \E n \in DOMAIN collected : collected[n] = i
      /\ changes = 0 /\ listing.op # "queues" =>
            collected = SliceOffsetPage(InOrder(items), listing.limit, listing.offset)

(* The inductive invariant of the listings.                                     *)
PagingInv ==
    /\ PagingTypeOK /\ Asked
    /\ listing.honest => pageState # "raised" /\ Sorted /\ OnTheWay /\ Listed

LEMMA IdsAreNumbers == \A i \in Ids : i \in Nat /\ 1 <= i
BY PagingAssumption DEF Ids

LEMMA ItemsAreFinite ==
    ASSUME NEW S \in SUBSET Ids
    PROVE  IsFiniteSet(S) /\ Cardinality(S) \in Nat
<1>1. IsFiniteSet(Ids)
  BY PagingAssumption, FS_Interval DEF Ids
<1> QED BY <1>1, FS_Subset, FS_CardinalityType

(* Any set of items can be put in order: each goes to the place that tells how  *)
(* many are not after it.                                                       *)
LEMMA OrderExists ==
    ASSUME NEW S \in SUBSET Ids
    PROVE  \E s \in [1 .. Cardinality(S) -> S] :
              \A a, b \in DOMAIN s : a < b => s[a] < s[b]
<1> DEFINE n == Cardinality(S)
           UpTo(i) == {j \in S : j <= i}
           rank == [i \in S |-> Cardinality(UpTo(i))]
<1>1. IsFiniteSet(S) /\ n \in Nat /\ IsFiniteSet(1 .. n) /\ Cardinality(1 .. n) = n
  BY ItemsAreFinite, FS_Interval
<1>2. \A i \in S : i \in Nat
  BY IdsAreNumbers
<1>3. ASSUME NEW i \in S PROVE rank[i] \in 1 .. n
  <2>1. UpTo(i) \in SUBSET S /\ i \in UpTo(i)
    BY <1>2
  <2>2. IsFiniteSet(UpTo(i)) /\ Cardinality(UpTo(i)) <= n /\ Cardinality(UpTo(i)) \in Nat
    BY <1>1, <2>1, FS_Subset, FS_CardinalityType
  <2>3. Cardinality(UpTo(i)) # 0
    BY <2>1, <2>2, FS_EmptySet
  <2> QED BY <1>1, <2>2, <2>3
<1>4. ASSUME NEW i \in S, NEW j \in S, i < j PROVE rank[i] < rank[j]
  <2>1. UpTo(i) \in SUBSET UpTo(j) /\ j \in UpTo(j) /\ j \notin UpTo(i)
    BY <1>2, <1>4
  <2>2. UpTo(j) \in SUBSET S /\ IsFiniteSet(UpTo(j))
    BY <1>1, FS_Subset
  <2>3. /\ Cardinality(UpTo(i)) <= Cardinality(UpTo(j))
        /\ Cardinality(UpTo(i)) # Cardinality(UpTo(j))
    BY <2>1, <2>2, FS_Subset
  <2>4. rank[i] \in Nat /\ rank[j] \in Nat
    BY <1>3
  <2> QED BY <2>3, <2>4
<1>5. rank \in Injection(S, 1 .. n)
  <2>1. rank \in [S -> 1 .. n]
    BY <1>3
  <2>2. ASSUME NEW i \in S, NEW j \in S, rank[i] = rank[j] PROVE i = j
    <3>1. rank[i] \in Nat /\ rank[j] \in Nat
      BY <1>3
    <3>2. ~(i < j) /\ ~(j < i)
      BY <1>4, <2>2, <3>1
    <3> QED BY <1>2, <3>2
  <2> HIDE DEF rank
  <2> QED BY <2>1, <2>2 DEF Injection, IsInjective
<1> HIDE DEF rank
<1>6. rank \in Surjection(S, 1 .. n)
  BY <1>1, <1>5, FS_Injection
<1>7. \A k \in 1 .. n : \E i \in S : rank[i] = k
  BY <1>6 DEF Surjection
<1> DEFINE s == [k \in 1 .. n |-> CHOOSE i \in S : rank[i] = k]
<1>8. \A k \in 1 .. n : s[k] \in S /\ rank[s[k]] = k
  BY <1>7
<1>9. ASSUME NEW a \in 1 .. n, NEW b \in 1 .. n, a < b PROVE s[a] < s[b]
  <2>1. s[a] # s[b] /\ ~(s[b] < s[a])
    BY <1>1, <1>4, <1>8, <1>9
  <2> QED BY <1>2, <1>8, <2>1
<1> QED BY <1>8, <1>9

(* What it is to be the items of a set, in order.                               *)
InOrderOf(s, S) ==
    /\ s \in Seq(S)
    /\ \A a, b \in DOMAIN s : a < b => s[a] < s[b]
    /\ \A i \in S : \E k \in DOMAIN s : s[k] = i

(* InOrder lists all of a set of items.                                         *)
LEMMA InOrderLists ==
    ASSUME NEW S \in SUBSET Ids
    PROVE  InOrderOf(InOrder(S), S)
<1> DEFINE n == Cardinality(S)
           s == InOrder(S)
<1>1. s \in [1 .. n -> S] /\ \A a, b \in DOMAIN s : a < b => s[a] < s[b]
  BY OrderExists DEF InOrder
<1> HIDE DEF s
<1>2. IsFiniteSet(S) /\ n \in Nat /\ IsFiniteSet(1 .. n) /\ Cardinality(1 .. n) = n
  BY ItemsAreFinite, FS_Interval
<1>3. s \in Injection(1 .. n, S)
  <2>1. ASSUME NEW a \in 1 .. n, NEW b \in 1 .. n, s[a] = s[b] PROVE a = b
    <3>1. s[a] \in Nat
      BY <1>1, IdsAreNumbers
    <3>2. ~(a < b) /\ ~(b < a)
      BY <1>1, <2>1, <3>1
    <3> QED BY <1>2, <3>2
  <2> QED BY <1>1, <2>1 DEF Injection, IsInjective
<1>4. s \in Surjection(1 .. n, S)
  BY <1>2, <1>3, FS_Injection
<1>5. \A i \in S : \E k \in DOMAIN s : s[k] = i
  BY <1>1, <1>4 DEF Surjection
<1>6. s \in Seq(S)
  BY <1>1, <1>2
<1> QED BY <1>1, <1>5, <1>6 DEF s, InOrderOf

(* The place of an item in the order is the number of those not after it.       *)
LEMMA PlaceIsRank ==
    ASSUME NEW S \in SUBSET Ids, NEW s, InOrderOf(s, S), NEW k \in DOMAIN s
    PROVE  Cardinality({j \in S : j <= s[k]}) = k
<1> DEFINE UpTo == {j \in S : j <= s[k]}
           front == [a \in 1 .. k |-> s[a]]
<1>1. /\ s \in Seq(S)
      /\ \A a, b \in DOMAIN s : a < b => s[a] < s[b]
      /\ \A i \in S : \E a \in DOMAIN s : s[a] = i
  BY DEF InOrderOf
<1>2. \A a \in DOMAIN s : s[a] \in S /\ s[a] \in Nat
  BY <1>1, IdsAreNumbers
<1>3. k \in Nat /\ 1 .. k \subseteq DOMAIN s /\ \A a \in DOMAIN s : a \in Nat
  BY <1>1
<1>4. ASSUME NEW a \in DOMAIN s
      PROVE  s[a] <= s[k] <=> a <= k
  <2>1. a < k => s[a] < s[k]
    BY <1>1
  <2>2. k < a => s[k] < s[a]
    BY <1>1
  <2> QED BY <1>2, <1>3, <2>1, <2>2
<1>5. front \in Bijection(1 .. k, UpTo)
  <2>1. \A a \in 1 .. k : s[a] \in UpTo
    BY <1>2, <1>3, <1>4
  <2>2. ASSUME NEW a \in 1 .. k, NEW b \in 1 .. k, s[a] = s[b]
        PROVE  a = b
    <3>1. a < b => s[a] < s[b]
      BY <1>1, <1>3
    <3>2. b < a => s[b] < s[a]
      BY <1>1, <1>3
    <3>3. s[a] \in Nat
      BY <1>2, <1>3
    <3> QED BY <1>3, <2>2, <3>1, <3>2, <3>3
  <2>3. \A i \in UpTo : \E a \in 1 .. k : s[a] = i
    BY <1>1, <1>3, <1>4
  <2> QED BY <2>1, <2>2, <2>3 DEF Bijection, Injection, IsInjective, Surjection
<1>6. IsFiniteSet(1 .. k) /\ Cardinality(1 .. k) = k
  BY <1>3, FS_Interval
<1>7. ExistsBijection(1 .. k, UpTo)
  BY <1>5 DEF ExistsBijection
<1> QED BY <1>6, <1>7, FS_Bijection

(* There is one order.                                                          *)
LEMMA OrderIsOne ==
    ASSUME NEW S \in SUBSET Ids, NEW s, NEW t, InOrderOf(s, S), InOrderOf(t, S)
    PROVE  s = t
<1>1. s \in Seq(S) /\ t \in Seq(S)
  BY DEF InOrderOf
<1>2. ASSUME NEW u, NEW v, InOrderOf(u, S), InOrderOf(v, S), NEW k \in DOMAIN u
      PROVE  k \in DOMAIN v /\ u[k] = v[k]
  <2>1. u[k] \in S
    BY <1>2 DEF InOrderOf
  <2>2. PICK a \in DOMAIN v : v[a] = u[k]
    BY <1>2, <2>1 DEF InOrderOf
  <2>3. Cardinality({j \in S : j <= u[k]}) = k
    BY <1>2, PlaceIsRank
  <2>4. Cardinality({j \in S : j <= v[a]}) = a
    BY <1>2, PlaceIsRank
  <2> QED BY <2>2, <2>3, <2>4
<1>3. DOMAIN s = DOMAIN t /\ \A k \in DOMAIN s : s[k] = t[k]
  BY <1>2
<1> QED BY <1>1, <1>3

(* What follows a place of the order is the order of the items that follow.     *)
LEMMA OrderFrom ==
    ASSUME NEW S \in SUBSET Ids, NEW c \in Nat, NEW p \in Nat, p <= Len(InOrder(S)),
           \A k \in DOMAIN InOrder(S) : InOrder(S)[k] <= c <=> k <= p
    PROVE  InOrder({i \in S : i > c}) = [k \in 1 .. Len(InOrder(S)) - p |-> InOrder(S)[p + k]]
<1> DEFINE list == InOrder(S)
           rest == {i \in S : ~(i <= c)}
           tail == [k \in 1 .. Len(list) - p |-> list[p + k]]
<1>1. /\ list \in Seq(S) /\ Len(list) \in Nat /\ DOMAIN list = 1 .. Len(list)
      /\ \A a, b \in DOMAIN list : a < b => list[a] < list[b]
      /\ \A i \in S : \E k \in DOMAIN list : list[k] = i
  BY InOrderLists DEF InOrderOf
<1>2. \A k \in DOMAIN list : list[k] <= c <=> k <= p
  OBVIOUS
<1> HIDE DEF list
<1>3. \A k \in 1 .. Len(list) - p : p + k \in DOMAIN list /\ ~(p + k <= p)
  BY <1>1
<1>4. \A k \in 1 .. Len(list) - p : list[p + k] \in rest
  BY <1>1, <1>2, <1>3
<1>5. tail \in Seq(rest) /\ DOMAIN tail = 1 .. Len(list) - p
  BY <1>1, <1>4
<1>6. \A a, b \in DOMAIN tail : a < b => tail[a] < tail[b]
  BY <1>1, <1>3, <1>5
<1>7. ASSUME NEW i \in rest
      PROVE  \E k \in DOMAIN tail : tail[k] = i
  <2>1. PICK k \in DOMAIN list : list[k] = i
    BY <1>1
  <2>2. ~(k <= p)
    BY <1>2, <2>1
  <2>3. k - p \in 1 .. Len(list) - p /\ p + (k - p) = k
    BY <1>1, <2>2
  <2> QED BY <1>5, <2>1, <2>3
<1>8. InOrderOf(tail, rest)
  BY <1>5, <1>6, <1>7 DEF InOrderOf
<1>9. rest \in SUBSET Ids
  OBVIOUS
<1>10. tail = InOrder(rest)
  BY <1>8, <1>9, InOrderLists, OrderIsOne
<1>11. {i \in S : i > c} = rest
  BY IdsAreNumbers
<1> QED BY <1>10, <1>11 DEF list

-----------------------------------------------------------------------------
Following == InOrder({i \in items : i > cursor})

LEMMA PagingTypes ==
    ASSUME PagingInv, listing.honest, pageState = "paging", listing.op # "cron"
    PROVE  /\ remainingSkip \in Nat /\ Len(collected) \in Nat /\ cursor \in Nat
           /\ collected \in Seq(Ids) /\ DOMAIN collected = 1 .. Len(collected)
           /\ items \in SUBSET Ids /\ stable \in SUBSET items
           /\ listing.offset \in Nat /\ listing.limit \in Nat
           /\ Wanted \in Nat /\ Wanted >= 1
           /\ Requested = remainingSkip + Wanted
           /\ listing.op # "queues" => Wanted = listing.limit - Len(collected)
           /\ listing.op = "queues" => remainingSkip = 0
           /\ listing.op \in {"dead_letter", "queues"}
<1>1. PagingTypeOK /\ Asked /\ OnTheWay
  BY DEF PagingInv
<1>2. MaxId \in Nat /\ MaxId >= 1 /\ MaxLimit \in Nat
  BY PagingAssumption
<1>3. /\ remainingSkip \in 0 .. listing.offset /\ listing.limit >= 1 /\ listing.offset >= 0
      /\ listing.op = "queues" => listing.offset = 0
  BY <1>1 DEF Asked
<1>4. listing.op \in {"dead_letter", "queues", "cron"}
  BY <1>1 DEF PagingTypeOK, Listings
<1>5. listing.limit \in Int /\ listing.offset \in Int
  <2>1. /\ listing.limit \in 0 .. MaxLimit \cup {MaxLimit, MaxId}
        /\ listing.offset \in -1 .. MaxLimit \cup {0, 1}
    BY <1>1 DEF PagingTypeOK, Listings
  <2> QED BY <1>2, <2>1
<1>6. collected \in Seq(Ids) /\ cursor \in Nat /\ items \in SUBSET Ids /\ stable \in SUBSET items
  BY <1>1, <1>2 DEF PagingTypeOK
<1>7. listing.op # "queues" => Len(collected) < listing.limit
  BY <1>1 DEF OnTheWay
<1>8. Len(collected) \in Nat /\ DOMAIN collected = 1 .. Len(collected)
  BY <1>6
<1>9. Wanted \in Nat /\ Wanted >= 1
  BY <1>2, <1>5, <1>7, <1>8 DEF Wanted
<1> QED BY <1>3, <1>4, <1>5, <1>6, <1>8, <1>9 DEF Wanted, Requested

(* An honest page is the first of the items that follow the cursor.             *)
LEMMA PageIs ==
    ASSUME PagingInv, listing.honest, pageState = "paging", listing.op # "cron",
           NEW page \in HonestPages, HonestPage(page)
    PROVE  \E k \in Nat :
             /\ k <= Len(Following) /\ k <= Requested
             /\ k = 0 => Len(Following) = 0
             /\ page.items = SubSeq(Following, 1, k)
             /\ page.next # 0 => k # 0 /\ page.next = Following[k]
             /\ k # 0 /\ page.next = 0 => \A i \in items : i <= Following[k]
<1>1. {i \in items : i > cursor} \in SUBSET Ids
  BY PagingTypes
<1>2. InOrderOf(Following, {i \in items : i > cursor})
  BY <1>1, InOrderLists DEF Following
<1>3. Following \in Seq({i \in items : i > cursor})
  BY <1>2 DEF InOrderOf
<1>4. Len(Following) \in Nat /\ Requested \in Nat
  BY <1>3, PagingTypes
<1>5. PICK k \in (IF Following = << >> THEN {0}
                  ELSE 1 .. (IF Requested < Len(Following) THEN Requested ELSE Len(Following))),
           said \in BOOLEAN :
        page = [items |-> SubSeq(Following, 1, k),
                next |-> IF k = 0 THEN 0 ELSE IF said THEN Following[k] ELSE 0]
  BY DEF HonestPages, Following
<1>6. k \in Nat /\ k <= Len(Following) /\ k <= Requested /\ (k = 0 => Len(Following) = 0)
  BY <1>3, <1>4, <1>5
<1>7. page.items = SubSeq(Following, 1, k) /\ (page.next # 0 => k # 0 /\ page.next = Following[k])
  BY <1>5
<1>8. ASSUME k # 0, page.next = 0
      PROVE  \A i \in items : i <= Following[k]
  <2>1. Len(page.items) = k /\ page.items[k] = Following[k]
    BY <1>3, <1>4, <1>6, <1>7, <1>8
  <2> QED BY <1>6, <1>8, <2>1 DEF HonestPage
<1> QED BY <1>6, <1>7, <1>8

(* What a turn of the loop does with k items that follow the cursor, of which   *)
(* the offset takes the first.                                                  *)
Appends(k, skip) ==
    /\ k <= Len(Following) /\ (k = 0 => Len(Following) = 0)
    /\ skip <= k /\ skip <= remainingSkip /\ (skip = k \/ skip = remainingSkip)
    /\ k - skip <= Wanted
    /\ remainingSkip' = remainingSkip - skip
    /\ collected' = collected \o SubSeq(Following, skip + 1, k)
    /\ UNCHANGED <<listing, items, stable, changes>>

LEMMA PartOfPart ==
    ASSUME NEW T, NEW s \in Seq(T), NEW k \in Nat, k <= Len(s), NEW skip \in Nat, skip <= k
    PROVE  /\ Len(SubSeq(s, 1, k)) = k
           /\ SubSeq(SubSeq(s, 1, k), skip + 1, k) = SubSeq(s, skip + 1, k)
           /\ Len(SubSeq(s, skip + 1, k)) = k - skip /\ SubSeq(s, skip + 1, k) \in Seq(T)
           /\ \A m \in 1 .. k - skip : SubSeq(s, skip + 1, k)[m] = s[skip + m]
           /\ SubSeq(SubSeq(s, skip + 1, k), 1, k - skip) = SubSeq(s, skip + 1, k)
<1> DEFINE front == SubSeq(s, 1, k)
           back == SubSeq(s, skip + 1, k)
<1>1. Len(s) \in Nat
  OBVIOUS
<1>2. front \in Seq(T) /\ Len(front) = k /\ \A m \in 1 .. k : front[m] = s[m]
  BY <1>1
<1>3. /\ back \in Seq(T) /\ Len(back) = k - skip
      /\ \A m \in 1 .. k - skip : back[m] = s[skip + m]
  <2>1. \A m \in 1 .. k - skip : skip + m \in 1 .. Len(s) /\ (skip + 1) + m - 1 = skip + m
    BY <1>1
  <2>2. 1 + k - (skip + 1) = k - skip /\ k - skip \in Nat
    OBVIOUS
  <2> QED BY <1>1, <2>1, <2>2
<1> HIDE DEF front, back
<1>4. SubSeq(front, skip + 1, k) = back
  <2>1. \A m \in 1 .. k - skip : skip + m \in 1 .. k /\ (skip + 1) + m - 1 = skip + m
    OBVIOUS
  <2>2. /\ SubSeq(front, skip + 1, k) \in Seq(T)
        /\ Len(SubSeq(front, skip + 1, k)) = k - skip
        /\ \A m \in 1 .. k - skip : SubSeq(front, skip + 1, k)[m] = front[skip + m]
    BY <1>2, <2>1
  <2>3. \A m \in 1 .. k - skip : SubSeq(front, skip + 1, k)[m] = back[m]
    BY <1>2, <1>3, <2>1, <2>2
  <2> QED BY <1>3, <2>2, <2>3
<1>5. SubSeq(back, 1, k - skip) = back
  BY <1>3
<1> QED BY <1>2, <1>3, <1>4, <1>5 DEF front, back

LEMMA TurnIs ==
    ASSUME PagingInv, listing.honest, pageState = "paging", listing.op # "cron", NextPage
    PROVE  \E k, skip \in Nat :
             /\ Appends(k, skip)
             /\ LET full == listing.op # "queues" /\ k - skip >= Wanted
                IN \E next :
                     /\ next # 0 => k # 0 /\ next = Following[k]
                     /\ k # 0 /\ next = 0 => \A i \in items : i <= Following[k]
                     /\ \/ (full \/ next = 0) /\ pageState' = "done"
                           /\ cursor' = cursor /\ seenCursors' = seenCursors
                        \/ ~full /\ next # 0 /\ next \in seenCursors
                        \/ /\ ~full /\ next # 0 /\ cursor' = next
                           /\ seenCursors' = seenCursors \cup {next} /\ pageState' = pageState
<1> DEFINE kept(page) == SubSeq(page.items, Skipped(page.items) + 1, Len(page.items))
           isFull(page) == listing.op # "queues" /\ Len(kept(page)) >= Wanted
<1>1. PICK page \in HonestPages :
        /\ HonestPage(page)
        /\ remainingSkip' = remainingSkip - Skipped(page.items)
        /\ collected' = collected \o (IF isFull(page) THEN SubSeq(kept(page), 1, Wanted)
                                     ELSE kept(page))
        /\ \/ (isFull(page) \/ page.next = 0) /\ pageState' = "done"
              /\ cursor' = cursor /\ seenCursors' = seenCursors
           \/ ~isFull(page) /\ page.next # 0 /\ page.next \in seenCursors
           \/ /\ ~isFull(page) /\ page.next # 0 /\ cursor' = page.next
              /\ seenCursors' = seenCursors \cup {page.next} /\ pageState' = pageState
  BY DEF NextPage, Repeated
<1>2. PICK k \in Nat :
        /\ k <= Len(Following) /\ k <= Requested
        /\ k = 0 => Len(Following) = 0
        /\ page.items = SubSeq(Following, 1, k)
        /\ page.next # 0 => k # 0 /\ page.next = Following[k]
        /\ k # 0 /\ page.next = 0 => \A i \in items : i <= Following[k]
  BY <1>1, PageIs
<1>3. /\ remainingSkip \in Nat /\ Wanted \in Nat /\ Requested = remainingSkip + Wanted
      /\ items \in SUBSET Ids
  BY PagingTypes
<1>4. Following \in Seq(Ids)
  <2>1. {i \in items : i > cursor} \in SUBSET Ids
    BY <1>3
  <2>2. InOrderOf(Following, {i \in items : i > cursor})
    BY <2>1, InOrderLists DEF Following
  <2> QED BY <2>1, <2>2 DEF InOrderOf
<1>5. PICK skip \in Nat :
        /\ skip = Skipped(page.items) /\ skip <= k /\ skip <= remainingSkip
        /\ skip = k \/ skip = remainingSkip
  <2>1. Len(page.items) = k
    BY <1>2, <1>4, PartOfPart
  <2> QED BY <1>2, <1>3, <2>1 DEF Skipped
<1>6. /\ kept(page) = SubSeq(Following, skip + 1, k) /\ Len(kept(page)) = k - skip
      /\ SubSeq(kept(page), 1, k - skip) = kept(page)
  <2>1. k <= Len(Following) /\ skip <= k
    BY <1>2, <1>5
  <2>2. /\ Len(SubSeq(Following, 1, k)) = k
        /\ SubSeq(SubSeq(Following, 1, k), skip + 1, k) = SubSeq(Following, skip + 1, k)
        /\ Len(SubSeq(Following, skip + 1, k)) = k - skip
        /\ SubSeq(SubSeq(Following, skip + 1, k), 1, k - skip) = SubSeq(Following, skip + 1, k)
    BY <1>4, <2>1, PartOfPart
  <2>3. kept(page) = SubSeq(Following, skip + 1, k)
    BY <1>2, <1>5, <2>2
  <2> HIDE DEF kept
  <2> QED BY <2>2, <2>3
<1>7. k - skip <= Wanted
  BY <1>2, <1>3, <1>5
<1>8. collected' = collected \o SubSeq(Following, skip + 1, k)
  <2> HIDE DEF kept
  <2>1. isFull(page) => Wanted = k - skip
    BY <1>3, <1>6, <1>7
  <2> QED BY <1>1, <1>6, <2>1
<1>9. Appends(k, skip)
  <2>1. UNCHANGED <<listing, items, stable, changes>>
    BY DEF NextPage
  <2> HIDE DEF kept, isFull
  <2> QED BY <1>1, <1>2, <1>5, <1>7, <1>8, <2>1 DEF Appends
<1>10. isFull(page) <=> (listing.op # "queues" /\ k - skip >= Wanted)
  BY <1>6
<1> HIDE DEF kept, isFull
<1> QED BY <1>1, <1>2, <1>5, <1>9, <1>10

(* A turn of the loop takes the listing to the last item of the page, or leaves *)
(* it where it is if nothing follows.                                           *)
Place(k) == IF k = 0 THEN cursor ELSE Following[k]

LEMMA TurnReaches ==
    ASSUME PagingInv, listing.honest, pageState = "paging", listing.op # "cron",
           NEW k \in Nat, NEW skip \in Nat, Appends(k, skip)
    PROVE  /\ collected' \in Seq(Ids) /\ remainingSkip' \in 0 .. remainingSkip /\ Sorted'
           /\ Len(collected') = Len(collected) + (k - skip)
           /\ \E place \in Nat :
                /\ place = Place(k) /\ Reaches(place)'
                /\ k # 0 => cursor < place /\ place \in Ids
                /\ k = 0 => \A i \in items : i <= place
<1> DEFINE after == Following
           rest == {i \in items : i > cursor}
           had == Len(collected)
<1>1. /\ remainingSkip \in Nat /\ had \in Nat /\ cursor \in Nat /\ collected \in Seq(Ids)
      /\ DOMAIN collected = 1 .. had /\ items \in SUBSET Ids /\ stable \in SUBSET items
      /\ listing.offset \in Nat /\ listing.limit \in Nat /\ Wanted \in Nat
      /\ listing.op # "queues" => Wanted = listing.limit - had
      /\ listing.op = "queues" => remainingSkip = 0
  BY PagingTypes
<1>2. rest \in SUBSET Ids
  BY <1>1
<1>3. InOrderOf(after, rest)
  BY <1>2, InOrderLists DEF Following
<1>4. /\ after \in Seq(rest)
      /\ \A a, b \in DOMAIN after : a < b => after[a] < after[b]
      /\ \A i \in rest : \E m \in DOMAIN after : after[m] = i
  BY <1>3 DEF InOrderOf
<1>5. Sorted /\ Reaches(cursor)
  BY DEF PagingInv, OnTheWay
<1>6. /\ k <= Len(after) /\ (k = 0 => Len(after) = 0) /\ k - skip <= Wanted
      /\ collected' = collected \o SubSeq(after, skip + 1, k)
  BY DEF Appends
<1> HIDE DEF after
<1>7. Len(after) \in Nat /\ DOMAIN after = 1 .. Len(after)
      /\ \A m \in 1 .. Len(after) : after[m] \in rest
  BY <1>4
<1>8. k <= Len(after) /\ (k = 0 => Len(after) = 0)
  BY <1>6
<1>9. skip <= k /\ skip <= remainingSkip /\ (skip = k \/ skip = remainingSkip)
  BY DEF Appends
<1>10. k - skip \in Nat
  BY <1>9
<1> DEFINE kept == SubSeq(after, skip + 1, k)
<1>11. /\ Len(kept) = k - skip /\ kept \in Seq(rest)
       /\ \A m \in 1 .. k - skip : kept[m] = after[skip + m]
  BY <1>4, <1>8, <1>9, PartOfPart
<1> HIDE DEF kept
<1>12. k - skip <= Wanted
  BY <1>6
<1>14. kept \in Seq(Ids) /\ collected' = collected \o kept
  BY <1>2, <1>6, <1>11 DEF kept
<1> HIDE DEF had
<1>15. /\ collected' \in Seq(Ids) /\ Len(collected') = had + (k - skip)
       /\ DOMAIN collected' = 1 .. had + (k - skip)
       /\ \A n \in 1 .. had : collected'[n] = collected[n]
       /\ \A n \in had + 1 .. had + (k - skip) : collected'[n] = kept[n - had]
  BY <1>1, <1>10, <1>11, <1>14 DEF had
<1>16. \A n \in had + 1 .. had + (k - skip) :
          collected'[n] = after[(skip + n) - had] /\ (skip + n) - had \in skip + 1 .. k
  <2> SUFFICES ASSUME NEW n \in had + 1 .. had + (k - skip)
               PROVE  collected'[n] = after[(skip + n) - had] /\ (skip + n) - had \in skip + 1 .. k
    OBVIOUS
  <2>1. n - had \in 1 .. k - skip /\ skip + (n - had) = (skip + n) - had
    BY <1>1, <1>9
  <2>2. (skip + n) - had \in skip + 1 .. k
    BY <1>1, <1>9
  <2> QED BY <1>11, <1>15, <2>1, <2>2
<1>17. remainingSkip' = remainingSkip - skip /\ remainingSkip' \in 0 .. remainingSkip
  BY <1>1, <1>9 DEF Appends
<1>19. \A i \in rest : i \in Nat /\ i > cursor /\ i \in items
  BY <1>2, IdsAreNumbers
<1>20. \A n \in 1 .. had : collected'[n] \in Nat /\ collected'[n] <= cursor
  <2>1. \A n \in 1 .. had : collected[n] \in Ids /\ collected[n] <= cursor
    BY <1>1, <1>5 DEF Reaches
  <2> QED BY <1>15, <2>1, IdsAreNumbers
<1>21. \A n \in had + 1 .. had + (k - skip) :
          collected'[n] \in Nat /\ collected'[n] > cursor /\ k # 0 /\ collected'[n] <= after[k]
  <2> SUFFICES ASSUME NEW n \in had + 1 .. had + (k - skip)
               PROVE  /\ collected'[n] \in Nat /\ collected'[n] > cursor
                      /\ k # 0 /\ collected'[n] <= after[k]
    OBVIOUS
  <2> DEFINE m == (skip + n) - had
  <2>1. collected'[n] = after[m] /\ m \in skip + 1 .. k
    BY <1>16
  <2> HIDE DEF m
  <2>2. m \in 1 .. Len(after) /\ k \in 1 .. Len(after) /\ k # 0 /\ m <= k
    BY <1>8, <1>7, <1>9, <2>1
  <2>3. m < k => after[m] < after[k]
    BY <1>4, <1>7, <2>2
  <2>4. after[m] \in Nat /\ after[k] \in Nat /\ after[m] > cursor
    BY <1>7, <1>19, <2>2
  <2> QED BY <2>1, <2>2, <2>3, <2>4
<1>22. Sorted'
  <2> SUFFICES ASSUME NEW a \in 1 .. had + (k - skip), NEW b \in 1 .. had + (k - skip), a < b
               PROVE  collected'[a] < collected'[b]
    BY <1>15 DEF Sorted
  <2>1. CASE b <= had
    <3>1. a \in 1 .. had /\ b \in 1 .. had
      BY <1>1, <2>1
    <3> QED BY <1>1, <1>5, <1>15, <3>1 DEF Sorted
  <2>2. CASE a <= had /\ ~(b <= had)
    <3>1. a \in 1 .. had /\ b \in had + 1 .. had + (k - skip)
      BY <1>1, <1>9, <2>2
    <3> QED BY <1>1, <1>20, <1>21, <3>1
  <2>3. CASE ~(a <= had)
    <3>1. a \in had + 1 .. had + (k - skip) /\ b \in had + 1 .. had + (k - skip)
      BY <1>1, <1>9, <2>3
    <3>2. /\ (skip + a) - had \in 1 .. Len(after) /\ (skip + b) - had \in 1 .. Len(after)
          /\ (skip + a) - had < (skip + b) - had
      BY <1>1, <1>8, <1>7, <1>9, <3>1
    <3>3. after[(skip + a) - had] < after[(skip + b) - had]
      BY <1>4, <1>7, <3>2
    <3> QED BY <1>16, <3>1, <3>3
  <2> QED BY <2>1, <2>2, <2>3
<1>23. PICK place \in Nat : place = IF k = 0 THEN cursor ELSE after[k]
  <2>1. k # 0 => k \in 1 .. Len(after)
    BY <1>8, <1>7
  <2> QED BY <1>1, <1>7, <1>19, <2>1
<1>24. cursor <= place /\ (k # 0 => cursor < place /\ place \in rest)
  <2>1. k # 0 => k \in 1 .. Len(after)
    BY <1>8, <1>7
  <2> QED BY <1>1, <1>7, <1>19, <1>23, <2>1
<1>26. ASSUME k = 0
       PROVE  \A i \in items : i <= place
  <2>1. ~ \E i \in rest : TRUE
    BY <1>4, <1>8, <1>7, <1>26
  <2>2. \A i \in items : i \in Nat /\ ~(i > cursor)
    BY <1>1, <2>1, IdsAreNumbers
  <2> QED BY <1>1, <1>23, <1>26, <2>2
<1>27. \A n \in DOMAIN collected' : collected'[n] <= place
  <2> SUFFICES ASSUME NEW n \in 1 .. had + (k - skip) PROVE collected'[n] <= place
    BY <1>15
  <2>1. CASE n \in 1 .. had
    BY <1>1, <1>20, <1>24, <2>1
  <2>2. CASE n \in had + 1 .. had + (k - skip)
    BY <1>21, <1>23, <2>2
  <2> QED BY <1>1, <1>9, <2>1, <2>2
<1>28. Len(collected') > 0 => remainingSkip' = 0
  <2>1. had > 0 => remainingSkip = 0
    BY <1>5 DEF Reaches, had
  <2> QED BY <1>1, <1>9, <1>15, <1>17, <2>1
<1>29. listing.op # "queues" => Len(collected') <= listing.limit
  BY <1>1, <1>12, <1>15
<1>30. ASSUME NEW i \in stable, i <= place,
              listing.op = "queues" \/ \E n \in DOMAIN collected' : collected'[n] < i
       PROVE  \E n \in DOMAIN collected' : collected'[n] = i
  <2>1. i \in items /\ i \in Nat
    BY <1>1, IdsAreNumbers
  <2>2. CASE i <= cursor
    <3>1. listing.op = "queues" \/ \E n \in DOMAIN collected : collected[n] < i
      <4> SUFFICES ASSUME NEW n \in 1 .. had + (k - skip), collected'[n] < i
                   PROVE  \E m \in DOMAIN collected : collected[m] < i
        BY <1>15, <1>30
      <4>1. ~(n \in had + 1 .. had + (k - skip))
        BY <1>1, <1>21, <2>1, <2>2
      <4>2. n \in 1 .. had
        BY <1>1, <1>9, <4>1
      <4> QED BY <1>1, <1>15, <4>2
    <3>2. PICK n \in DOMAIN collected : collected[n] = i
      BY <1>5, <2>2, <3>1 DEF Reaches
    <3>3. n \in 1 .. had /\ n \in DOMAIN collected'
      BY <1>1, <1>9, <1>15
    <3> QED BY <1>15, <3>2, <3>3
  <2>3. CASE ~(i <= cursor)
    <3>1. i \in rest /\ k # 0
      BY <1>1, <1>23, <1>30, <2>1, <2>3
    <3>2. PICK m \in 1 .. Len(after) : after[m] = i
      BY <1>4, <1>7, <3>1
    <3>3. k \in 1 .. Len(after) /\ ~(k < m)
      <4>1. k \in 1 .. Len(after)
        BY <1>8, <1>7, <3>1
      <4>2. k < m => after[k] < i
        BY <1>4, <1>7, <3>2, <4>1
      <4> QED BY <1>23, <1>30, <2>1, <3>1, <4>1, <4>2
    <3>4. ~(m <= skip)
      <4> SUFFICES ASSUME m <= skip PROVE FALSE
        OBVIOUS
      <4>1. remainingSkip > 0
        BY <1>1, <1>9
      <4>2. listing.op # "queues" /\ had = 0
        BY <1>1, <1>5, <4>1 DEF Reaches, had
      <4>3. PICK n \in 1 .. had + (k - skip) : collected'[n] < i
        BY <1>15, <1>30, <4>2
      <4>4. n \in had + 1 .. had + (k - skip)
        BY <1>1, <1>9, <4>2
      <4>5. PICK q \in skip + 1 .. k : collected'[n] = after[q]
        BY <1>16, <4>4
      <4>6. q \in 1 .. Len(after) /\ m < q
        BY <1>8, <1>7, <1>9, <4>5
      <4>7. after[m] < after[q]
        BY <1>4, <1>7, <4>6
      <4>8. after[q] \in Nat
        BY <1>7, <1>19, <4>6
      <4> QED BY <2>1, <3>2, <4>3, <4>5, <4>7, <4>8
    <3>5. had + (m - skip) \in had + 1 .. had + (k - skip)
      BY <1>1, <1>9, <3>2, <3>3, <3>4
    <3>6. (skip + (had + (m - skip))) - had = m /\ had + (m - skip) \in 1 .. had + (k - skip)
      BY <1>1, <1>9, <3>2, <3>5
    <3>7. collected'[had + (m - skip)] = i
      BY <1>16, <3>2, <3>5, <3>6
    <3> QED BY <1>15, <3>6, <3>7
  <2> QED BY <2>2, <2>3
<1>31. ASSUME changes = 0, listing.op # "queues"
       PROVE  LET list == InOrder(items)
                  passed == (listing.offset - remainingSkip') + Len(collected')
              IN /\ passed <= Len(list)
                 /\ \A n \in DOMAIN list : list[n] <= place <=> n <= passed
                 /\ \A n \in DOMAIN collected' : collected'[n] = list[listing.offset + n]
  <2> DEFINE list == InOrder(items)
             before == (listing.offset - remainingSkip) + had
  <2>1. /\ before <= Len(list)
        /\ \A n \in DOMAIN list : list[n] <= cursor <=> n <= before
        /\ \A n \in DOMAIN collected : collected[n] = list[listing.offset + n]
    BY <1>5, <1>31 DEF Reaches, Skipping, had
  <2>2. before \in Nat
    <3>1. remainingSkip <= listing.offset
      BY <1>1 DEF PagingInv, Asked
    <3> QED BY <1>1, <3>1
  <2>3. /\ list \in Seq(items)
        /\ \A a, b \in DOMAIN list : a < b => list[a] < list[b]
    BY <1>1, InOrderLists DEF InOrderOf
  <2>4. after = [m \in 1 .. Len(list) - before |-> list[before + m]]
    BY <1>1, <2>1, <2>2, OrderFrom DEF after, Following
  <2> HIDE DEF list
  <2>5. /\ Len(list) \in Nat /\ DOMAIN list = 1 .. Len(list)
        /\ \A n \in DOMAIN list : list[n] \in Nat
    BY <1>1, <2>3, IdsAreNumbers
  <2>6. Len(after) = Len(list) - before
    BY <1>7, <2>2, <2>4, <2>5, <2>1
  <2>7. (listing.offset - remainingSkip') + Len(collected') = before + k
    BY <1>1, <1>9, <1>15, <1>17
  <2> HIDE DEF before
  <2>8. before + k <= Len(list)
    <3>1. k <= Len(list) - before /\ Len(list) \in Nat
      BY <1>8, <2>5, <2>6
    <3> QED BY <2>2, <3>1
  <2>9. \A n \in DOMAIN list : list[n] <= place <=> n <= before + k
    <3>1. CASE k = 0
      BY <1>23, <2>1, <2>2, <2>5, <3>1
    <3>2. CASE k # 0
      <4>1. place = list[before + k] /\ before + k \in DOMAIN list
        <5>1. k \in 1 .. Len(list) - before /\ before + k \in 1 .. Len(list)
          BY <2>2, <2>5, <2>8, <3>2
        <5> QED BY <1>23, <2>4, <2>5, <3>2, <5>1
      <4> SUFFICES ASSUME NEW n \in DOMAIN list
                   PROVE  list[n] <= list[before + k] <=> n <= before + k
        BY <4>1
      <4>2. n < before + k => list[n] < list[before + k]
        BY <2>3, <4>1
      <4>3. before + k < n => list[before + k] < list[n]
        BY <2>3, <4>1
      <4>4. n \in Nat /\ before + k \in Nat /\ list[n] \in Nat /\ list[before + k] \in Nat
        BY <2>2, <2>5, <4>1
      <4> HIDE DEF before
      <4> QED BY <4>2, <4>3, <4>4
    <3> QED BY <3>1, <3>2
  <2>10. ASSUME NEW n \in 1 .. had + (k - skip)
         PROVE  collected'[n] = list[listing.offset + n]
    <3>1. CASE n \in 1 .. had
      BY <1>1, <1>15, <2>1, <3>1
    <3>2. CASE n \in had + 1 .. had + (k - skip)
      <4>1. PICK m \in skip + 1 .. k : m = (skip + n) - had /\ collected'[n] = after[m]
        BY <1>16, <3>2
      <4>2. m \in 1 .. Len(list) - before
        <5>1. m \in 1 .. Len(after)
          BY <1>8, <1>7, <1>9, <4>1
        <5> QED BY <2>6, <5>1
      <4>3. skip = remainingSkip
        BY <1>9, <4>1
      <4>4. before + m = listing.offset + n
        BY <1>1, <1>9, <4>1, <4>3 DEF before
      <4> QED BY <2>4, <4>1, <4>2, <4>4
    <3> QED BY <1>1, <1>9, <3>1, <3>2
  <2> QED BY <1>15, <2>7, <2>8, <2>9, <2>10 DEF list
<1>32. Reaches(place)'
  <2>1. listing' = listing /\ items' = items /\ stable' = stable /\ changes' = changes
    BY DEF Appends
  <2> QED BY <1>27, <1>28, <1>29, <1>30, <1>31, <2>1 DEF Reaches, Skipping
<1> QED BY <1>2, <1>15, <1>17, <1>22, <1>23, <1>24, <1>26, <1>32 DEF after, had, Place

LEMMA NextPageTyped ==
    ASSUME PagingInv, NextPage, ~listing.honest
    PROVE  /\ collected' \in Seq(Ids) /\ remainingSkip' \in 0 .. listing.offset
           /\ cursor' \in 0 .. MaxId /\ seenCursors' \subseteq Ids
           /\ pageState' \in {"paging", "done", "raised"}
<1> DEFINE kept(page) == SubSeq(page.items, Skipped(page.items) + 1, Len(page.items))
           isFull(page) == listing.op # "queues" /\ Len(kept(page)) >= Wanted
<1>1. /\ PagingTypeOK /\ pageState = "paging"
      /\ listing.limit >= 1 /\ listing.offset >= 0 /\ remainingSkip \in 0 .. listing.offset
  BY DEF PagingInv, Asked, NextPage
<1>2. MaxId \in Nat /\ 1 \in Ids /\ MaxLimit \in Nat
  BY PagingAssumption DEF Ids
<1>3. /\ collected \in Seq(Ids) /\ cursor \in 0 .. MaxId /\ seenCursors \subseteq Ids
  BY <1>1 DEF PagingTypeOK
<1>4. listing.limit \in Int /\ listing.offset \in Nat
  <2>1. /\ listing.limit \in 0 .. MaxLimit \cup {MaxLimit, MaxId}
        /\ listing.offset \in -1 .. MaxLimit \cup {0, 1}
    BY <1>1 DEF PagingTypeOK, Listings
  <2> QED BY <1>1, <1>2, <2>1
<1>5. Wanted \in Int
  BY <1>2, <1>3, <1>4 DEF Wanted
<1>6. PICK page \in FaultyPages :
        /\ remainingSkip' = remainingSkip - Skipped(page.items)
        /\ collected' = collected \o (IF isFull(page) THEN SubSeq(kept(page), 1, Wanted)
                                     ELSE kept(page))
        /\ \/ cursor' = cursor /\ seenCursors' = seenCursors /\ pageState' = "done"
           \/ cursor' = cursor /\ seenCursors' = seenCursors /\ pageState' = "raised"
           \/ /\ page.next # 0 /\ cursor' = page.next
              /\ seenCursors' = seenCursors \cup {page.next} /\ pageState' = pageState
  BY DEF NextPage
<1>7. page.items \in Seq(Ids) /\ Len(page.items) \in Nat /\ page.next \in 0 .. MaxId
  <2>1. (page.items = << >> \/ page.items = <<1>>) /\ page.next \in 0 .. MaxId
    BY <1>6 DEF FaultyPages
  <2>2. << >> \in Seq(Ids) /\ <<1>> \in Seq(Ids)
    BY <1>2
  <2>3. page.items \in Seq(Ids)
    BY <2>1, <2>2
  <2> QED BY <2>1, <2>3
<1>8. PICK skip \in Nat :
        skip = Skipped(page.items) /\ skip <= Len(page.items) /\ skip <= remainingSkip
  BY <1>1, <1>4, <1>7 DEF Skipped
<1>9. kept(page) \in Seq(Ids)
  <2>1. kept(page) = SubSeq(page.items, skip + 1, Len(page.items))
    BY <1>8
  <2>2. \A s \in Seq(Ids) : \A n \in Nat : n <= Len(s) => SubSeq(s, n + 1, Len(s)) \in Seq(Ids)
    OBVIOUS
  <2> QED BY <1>7, <1>8, <2>1, <2>2
<1> HIDE DEF kept
<1>10. isFull(page) => SubSeq(kept(page), 1, Wanted) \in Seq(Ids)
  <2>1. \A s \in Seq(Ids) : \A n \in Int : n <= Len(s) => SubSeq(s, 1, n) \in Seq(Ids)
    OBVIOUS
  <2> QED BY <1>5, <1>9, <2>1
<1> HIDE DEF isFull
<1>11. collected' \in Seq(Ids)
  <2>1. \A s, t \in Seq(Ids) : s \o t \in Seq(Ids)
    OBVIOUS
  <2> QED BY <1>3, <1>6, <1>9, <1>10, <2>1
<1>12. remainingSkip' \in 0 .. listing.offset
  BY <1>1, <1>4, <1>6, <1>8
<1>13. /\ cursor' \in 0 .. MaxId /\ seenCursors' \subseteq Ids
       /\ pageState' \in {"paging", "done", "raised"}
  <2>1. page.next # 0 => page.next \in Ids
    BY <1>2, <1>7 DEF Ids
  <2> HIDE DEF isFull
  <2>2. CASE cursor' = cursor /\ seenCursors' = seenCursors
    BY <1>1, <1>3, <1>6, <2>2
  <2>3. CASE /\ page.next # 0 /\ cursor' = page.next
             /\ seenCursors' = seenCursors \cup {page.next} /\ pageState' = pageState
    BY <1>1, <1>3, <1>7, <2>1, <2>3
  <2> QED BY <1>6, <2>2, <2>3
<1> QED BY <1>11, <1>12, <1>13

LEMMA SkipIsSmall ==
    ASSUME PagingTypeOK, pageState = "paging", Asked, NEW n \in 0 .. listing.offset
    PROVE  n \in -1 .. MaxLimit
<1>1. listing.offset \in -1 .. MaxLimit \cup {0, 1} /\ listing.offset >= 0
  BY DEF PagingTypeOK, Listings, Asked
<1> QED BY <1>1, PagingAssumption

(* The page a listing ends with, from where it got to.                          *)
LEMMA ListedFrom ==
    ASSUME PagingInv, listing.honest, pageState = "paging", listing.op # "cron",
           NEW k \in Nat, NEW skip \in Nat, Appends(k, skip), pageState' = "done",
           NEW place \in Nat, Reaches(place)', Len(collected') = Len(collected) + (k - skip),
           collected' \in Seq(Ids),
           \/ listing.op # "queues" /\ k - skip >= Wanted
           \/ \A i \in items : i <= place
    PROVE  Listed'
<1>1. /\ remainingSkip \in Nat /\ Len(collected) \in Nat /\ items \in SUBSET Ids
      /\ stable \in SUBSET items /\ listing.offset \in Nat /\ listing.limit \in Nat
      /\ listing.op # "queues" => Wanted = listing.limit - Len(collected)
      /\ Wanted \in Nat /\ Wanted >= 1
  BY PagingTypes
<1>2. /\ listing' = listing /\ items' = items /\ stable' = stable /\ changes' = changes
      /\ skip <= k /\ skip <= remainingSkip /\ k - skip <= Wanted
      /\ remainingSkip' = remainingSkip - skip
  BY DEF Appends
<1>3. /\ \A n \in DOMAIN collected' : collected'[n] <= place
      /\ Len(collected') > 0 => remainingSkip' = 0
      /\ \A i \in stable :
            /\ i <= place
            /\ listing.op = "queues" \/ \E n \in DOMAIN collected' : collected'[n] < i
            => \E n \in DOMAIN collected' : collected'[n] = i
  BY <1>2 DEF Reaches
<1>4. \A n \in DOMAIN collected' : collected'[n] \in Nat
  BY IdsAreNumbers
<1>5. \A i \in stable, j, m \in DOMAIN collected' :
         collected'[j] < i /\ i < collected'[m] => \E n \in DOMAIN collected' : collected'[n] = i
  <2> SUFFICES ASSUME NEW i \in stable, NEW j \in DOMAIN collected', NEW m \in DOMAIN collected',
                      collected'[j] < i, i < collected'[m]
               PROVE  \E n \in DOMAIN collected' : collected'[n] = i
    OBVIOUS
  <2>1. i \in Nat
    BY <1>1, IdsAreNumbers
  <2>2. i <= place
    BY <1>3, <1>4, <2>1
  <2> QED BY <1>3, <2>2
<1>6. listing.op = "queues" => \A i \in stable : \E n \in DOMAIN collected' : collected'[n] = i
  BY <1>1, <1>3
<1>8. listing.op # "queues" => listing.limit >= 1
  BY DEF PagingInv, Asked
<1>9. remainingSkip <= listing.offset
  BY <1>1 DEF PagingInv, Asked
<1>7. ASSUME changes = 0, listing.op # "queues"
      PROVE  collected' = SliceOffsetPage(InOrder(items), listing.limit, listing.offset)
  <2> DEFINE list == InOrder(items)
             passed == (listing.offset - remainingSkip') + Len(collected')
             last == IF listing.offset + listing.limit < Len(list)
                     THEN listing.offset + listing.limit ELSE Len(list)
             slice == SubSeq(list, listing.offset + 1, last)
  <2>1. /\ passed <= Len(list)
        /\ \A n \in DOMAIN list : list[n] <= place <=> n <= passed
        /\ \A n \in DOMAIN collected' : collected'[n] = list[listing.offset + n]
    BY <1>2, <1>7 DEF Reaches, Skipping
  <2>2. list \in Seq(items)
    BY <1>1, InOrderLists DEF InOrderOf
  <2> HIDE DEF list
  <2>3. /\ Len(list) \in Nat /\ DOMAIN list = 1 .. Len(list)
        /\ \A n \in 1 .. Len(list) : list[n] \in items
    BY <2>2
  <2>4. Len(collected') \in Nat /\ DOMAIN collected' = 1 .. Len(collected')
    OBVIOUS
  <2>5. Len(collected') <= listing.limit
    BY <1>1, <1>2, <1>7
  <2>7. passed \in Nat
    BY <1>1, <1>2, <1>9, <2>4
  <2>6. \/ Len(collected') = listing.limit
        \/ passed = Len(list)
    <3>1. CASE k - skip >= Wanted
      BY <1>1, <1>2, <1>7, <3>1
    <3>2. CASE \A i \in items : i <= place
      <4>1. \A n \in 1 .. Len(list) : n <= passed
        BY <2>1, <2>3, <3>2
      <4>3. passed <= Len(list)
        BY <2>1
      <4>2. Len(list) # 0 => Len(list) <= passed
        BY <2>3, <4>1
      <4> HIDE DEF passed
      <4>4. Len(list) \in Nat
        BY <2>3
      <4> QED BY <2>7, <4>2, <4>3, <4>4
    <3> QED BY <1>7, <1>8, <3>1, <3>2
  <2>8. CASE Len(collected') = 0
    <3>1. last <= listing.offset /\ last \in Nat
      BY <1>1, <1>2, <1>7, <1>8, <1>9, <2>3, <2>6, <2>8
    <3>2. slice = << >>
      BY <1>1, <2>2, <2>3, <3>1
    <3>3. collected' = << >>
      BY <2>8
    <3> QED BY <3>2, <3>3 DEF SliceOffsetPage, list
  <2>9. CASE Len(collected') # 0
    <3>1. passed = listing.offset + Len(collected')
      BY <1>1, <1>3, <2>4, <2>9
    <3>2. last = listing.offset + Len(collected') /\ last <= Len(list)
      BY <1>1, <2>1, <2>3, <2>4, <2>5, <2>6, <3>1
    <3> HIDE DEF last
    <3>3. /\ slice \in Seq(items) /\ Len(slice) = Len(collected')
          /\ \A n \in 1 .. Len(collected') : slice[n] = list[listing.offset + n]
      <4>1. /\ slice \in Seq(items) /\ Len(slice) = last - listing.offset
            /\ \A n \in 1 .. last - listing.offset : slice[n] = list[listing.offset + n]
        <5>1. /\ last \in Nat /\ listing.offset \in Nat
              /\ listing.offset <= last /\ last <= Len(list)
          BY <1>1, <2>4, <3>2
        <5>2. ASSUME NEW o \in Nat, NEW e \in Nat, o <= e, e <= Len(list)
              PROVE  /\ SubSeq(list, o + 1, e) \in Seq(items)
                     /\ Len(SubSeq(list, o + 1, e)) = e - o
                     /\ \A n \in 1 .. e - o : SubSeq(list, o + 1, e)[n] = list[o + n]
          BY <2>2, <5>2, PartOfPart
        <5> QED BY <5>1, <5>2
      <4>2. last - listing.offset = Len(collected')
        BY <1>1, <2>4, <3>2
      <4> QED BY <4>1, <4>2
    <3> HIDE DEF slice
    <3>4. slice = collected'
      <4>1. \A n \in 1 .. Len(collected') : slice[n] = collected'[n]
        BY <2>1, <2>4, <3>3
      <4> QED BY <3>3, <4>1
    <3> QED BY <3>4 DEF SliceOffsetPage, list, slice, last
  <2> QED BY <2>8, <2>9
<1> QED BY <1>2, <1>5, <1>6, <1>7 DEF Listed

LEMMA NextPageKeeps ==
    ASSUME PagingInv, NextPage
    PROVE  PagingInv'
<1>1. /\ PagingTypeOK /\ Asked /\ pageState = "paging" /\ listing.op # "cron"
      /\ listing' = listing /\ items' = items /\ stable' = stable /\ changes' = changes
  BY DEF PagingInv, NextPage
<1>2. ASSUME collected' \in Seq(Ids), remainingSkip' \in 0 .. listing.offset,
             cursor' \in 0 .. MaxId, seenCursors' \subseteq Ids,
             pageState' \in {"paging", "done", "raised"}
      PROVE  PagingTypeOK' /\ Asked'
  <2>1. remainingSkip' \in -1 .. MaxLimit
    BY <1>1, <1>2, SkipIsSmall
  <2>2. /\ listing' \in Listings /\ items' \subseteq Ids /\ stable' \subseteq items'
        /\ changes' \in 0 .. MaxChanges
    BY <1>1 DEF PagingTypeOK
  <2>3. pageState' \in {"idle", "paging", "done", "rejected", "raised"}
    BY <1>2
  <2>4. PagingTypeOK'
    BY <1>2, <2>1, <2>2, <2>3 DEF PagingTypeOK
  <2>5. Asked'
    BY <1>1, <1>2 DEF Asked
  <2> QED BY <2>4, <2>5
<1>3. CASE ~listing.honest
  BY <1>1, <1>2, <1>3, NextPageTyped DEF PagingInv
<1>4. CASE listing.honest
  <2> DEFINE isFull(n) == listing.op # "queues" /\ n >= Wanted
             Ends(k, n, next) ==
               /\ next # 0 => k # 0 /\ next = Following[k]
               /\ k # 0 /\ next = 0 => \A i \in items : i <= Following[k]
               /\ \/ (isFull(n) \/ next = 0) /\ pageState' = "done"
                     /\ cursor' = cursor /\ seenCursors' = seenCursors
                  \/ ~isFull(n) /\ next # 0 /\ next \in seenCursors
                  \/ /\ ~isFull(n) /\ next # 0 /\ cursor' = next
                     /\ seenCursors' = seenCursors \cup {next} /\ pageState' = pageState
  <2>0. PICK k \in Nat, skip \in Nat : Appends(k, skip) /\ \E next : Ends(k, k - skip, next)
    BY <1>1, <1>4, TurnIs
  <2>1. PICK next : Appends(k, skip) /\ Ends(k, k - skip, next)
    BY <2>0
  <2>2. /\ collected' \in Seq(Ids) /\ remainingSkip' \in 0 .. remainingSkip /\ Sorted'
        /\ Len(collected') = Len(collected) + (k - skip)
    BY <1>1, <1>4, <2>1, TurnReaches
  <2>3. PICK place \in Nat :
          /\ place = Place(k) /\ Reaches(place)'
          /\ k # 0 => cursor < place /\ place \in Ids
          /\ k = 0 => \A i \in items : i <= place
    BY <1>1, <1>4, <2>1, TurnReaches
  <2>4. remainingSkip' \in 0 .. listing.offset
    <3>1. remainingSkip \in 0 .. listing.offset /\ listing.offset \in Nat
      BY <1>1, <1>4, PagingTypes DEF Asked
    <3> QED BY <2>2, <3>1
  <2>5. /\ cursor \in 0 .. MaxId /\ cursor \in Nat /\ seenCursors \subseteq Ids
        /\ \A c \in seenCursors : c <= cursor
    BY <1>1, <1>4, PagingAssumption DEF PagingInv, PagingTypeOK, OnTheWay
  <2>6. k # 0 => place = Following[k]
    BY <2>3 DEF Place
  <2>7. CASE /\ (listing.op # "queues" /\ k - skip >= Wanted) \/ next = 0
             /\ pageState' = "done" /\ cursor' = cursor /\ seenCursors' = seenCursors
    <3>1. (listing.op # "queues" /\ k - skip >= Wanted) \/ \A i \in items : i <= place
      BY <2>1, <2>3, <2>6, <2>7
    <3>2. Listed'
      BY <1>1, <1>4, <2>1, <2>2, <2>3, <2>7, <3>1, ListedFrom
    <3>3. PagingTypeOK' /\ Asked'
      BY <1>2, <2>2, <2>4, <2>5, <2>7
    <3>4. OnTheWay'
      BY <2>7 DEF OnTheWay
    <3> QED BY <2>2, <2>7, <3>2, <3>3, <3>4 DEF PagingInv
  <2>8. ~(next # 0 /\ next \in seenCursors)
    <3> SUFFICES ASSUME next # 0, next \in seenCursors PROVE FALSE
      OBVIOUS
    <3>1. next = place /\ cursor < place
      BY <2>1, <2>3, <2>6
    <3>2. next <= cursor
      BY <2>5
    <3> QED BY <2>5, <3>1, <3>2
  <2>9. CASE /\ ~(listing.op # "queues" /\ k - skip >= Wanted) /\ next # 0 /\ cursor' = next
             /\ seenCursors' = seenCursors \cup {next} /\ pageState' = pageState
    <3>1. cursor' = place /\ place \in Ids /\ cursor < place
      BY <2>1, <2>3, <2>6, <2>9
    <3>2. PagingTypeOK' /\ Asked'
      <4>1. cursor' \in 0 .. MaxId
        BY <3>1, PagingAssumption DEF Ids
      <4>2. seenCursors' \subseteq Ids
        BY <2>5, <2>9, <3>1
      <4>3. pageState' \in {"paging", "done", "raised"}
        BY <1>1, <2>9
      <4> QED BY <1>2, <2>2, <2>4, <4>1, <4>2, <4>3
    <3>3. \A c \in seenCursors' : c <= place
      <4>1. \A c \in seenCursors : c \in Nat
        BY <2>5, IdsAreNumbers
      <4> QED BY <2>5, <2>9, <3>1, <4>1
    <3>4. Reaches(cursor)'
      BY <2>3, <3>1 DEF Reaches
    <3>5. listing.op # "queues" => Len(collected') < listing.limit
      <4>1. /\ Wanted \in Nat /\ Len(collected) \in Nat /\ listing.limit \in Nat
            /\ listing.op # "queues" => Wanted = listing.limit - Len(collected)
        BY <1>1, <1>4, PagingTypes
      <4>2. skip <= k
        BY <2>1 DEF Appends
      <4> QED BY <2>2, <2>9, <4>1, <4>2
    <3>6. OnTheWay'
      BY <1>1, <3>1, <3>3, <3>4, <3>5 DEF OnTheWay
    <3>7. pageState' = "paging" /\ Listed'
      BY <1>1, <2>9 DEF Listed
    <3> QED BY <2>2, <3>2, <3>6, <3>7 DEF PagingInv
  <2> QED BY <2>1, <2>7, <2>8, <2>9
<1> QED BY <1>3, <1>4

LEMMA SlicePageKeeps ==
    ASSUME PagingInv, SlicePage
    PROVE  PagingInv'
<1> DEFINE list == InOrder(items)
           limit == listing.limit
           offset == listing.offset
           last == IF offset + limit < Len(list) THEN offset + limit ELSE Len(list)
           slice == SubSeq(list, offset + 1, last)
<1>1. /\ PagingTypeOK /\ Asked /\ pageState = "paging" /\ listing.op = "cron"
      /\ listing' = listing /\ items' = items /\ stable' = stable /\ changes' = changes
      /\ remainingSkip' = remainingSkip /\ cursor' = cursor /\ seenCursors' = seenCursors
      /\ collected' = slice /\ pageState' = "done"
  BY DEF PagingInv, SlicePage, SliceOffsetPage
<1>2. items \in SUBSET Ids /\ stable \subseteq items
  BY <1>1 DEF PagingTypeOK
<1>3. offset \in Nat /\ limit \in Nat
  <2>1. /\ listing.limit \in 0 .. MaxLimit \cup {MaxLimit, MaxId}
        /\ listing.offset \in -1 .. MaxLimit \cup {0, 1}
    BY <1>1 DEF PagingTypeOK, Listings
  <2>2. MaxId \in Nat /\ MaxLimit \in Nat
    BY PagingAssumption
  <2> QED BY <1>1, <2>1, <2>2 DEF Asked
<1> HIDE DEF limit, offset
<1>4. /\ list \in Seq(items)
      /\ \A a, b \in DOMAIN list : a < b => list[a] < list[b]
      /\ \A i \in items : \E m \in DOMAIN list : list[m] = i
  BY <1>2, InOrderLists DEF InOrderOf
<1> HIDE DEF list
<1>5. Len(list) \in Nat /\ DOMAIN list = 1 .. Len(list)
  BY <1>4
<1>6. last \in Nat /\ last <= Len(list)
  BY <1>3, <1>5
<1> HIDE DEF last
<1>7. /\ slice \in Seq(Ids) /\ DOMAIN slice \subseteq 1 .. Len(list)
      /\ \A n \in DOMAIN slice : slice[n] = list[offset + n] /\ offset + n \in 1 .. Len(list)
      /\ \A m \in 1 .. Len(list) : m > offset /\ m <= last => m - offset \in DOMAIN slice
      /\ \A n \in DOMAIN slice : n \in Nat /\ offset + n <= last
  <2>1. CASE offset <= last
    <3>1. /\ slice \in Seq(items) /\ Len(slice) = last - offset
          /\ \A n \in 1 .. last - offset : slice[n] = list[offset + n]
      BY <1>3, <1>4, <1>6, <2>1, PartOfPart
    <3> HIDE DEF slice
    <3>2. DOMAIN slice = 1 .. last - offset /\ slice \in Seq(Ids)
      BY <1>2, <3>1
    <3>3. last - offset \in Nat /\ last - offset <= Len(list)
      BY <1>3, <1>5, <1>6, <2>1
    <3> QED BY <1>3, <1>5, <1>6, <2>1, <3>1, <3>2, <3>3
  <2>2. CASE last < offset
    <3>1. slice = << >>
      BY <1>3, <1>4, <1>6, <2>2
    <3> HIDE DEF slice
    <3>2. DOMAIN slice = {} /\ slice \in Seq(Ids)
      BY <3>1
    <3>3. \A m \in 1 .. Len(list) : ~(m > offset /\ m <= last)
      BY <1>3, <1>5, <1>6, <2>2
    <3> QED BY <3>2, <3>3
  <2> QED BY <1>3, <1>6, <2>1, <2>2
<1> HIDE DEF slice
<1>8. \A a, b \in DOMAIN slice : a < b => slice[a] < slice[b]
  BY <1>3, <1>4, <1>5, <1>7
<1>9. ASSUME NEW i \in stable, NEW j \in DOMAIN slice, NEW m \in DOMAIN slice,
             slice[j] < i, i < slice[m]
      PROVE  \E n \in DOMAIN slice : slice[n] = i
  <2>1. PICK p \in 1 .. Len(list) : list[p] = i
    BY <1>2, <1>4, <1>5
  <2>2. /\ list[offset + j] < list[p] /\ list[p] < list[offset + m]
        /\ offset + j \in 1 .. Len(list) /\ offset + m \in 1 .. Len(list)
    BY <1>7, <1>9, <2>1
  <2>3. \A x \in 1 .. Len(list) : list[x] \in Nat
    BY <1>2, <1>4, <1>5, IdsAreNumbers
  <2>4. ~(p <= offset + j) /\ ~(offset + m <= p)
    <3>1. p < offset + j => list[p] < list[offset + j]
      BY <1>4, <1>5, <2>2
    <3>2. offset + m < p => list[offset + m] < list[p]
      BY <1>4, <1>5, <2>2
    <3>3. list[p] \in Nat /\ list[offset + j] \in Nat /\ list[offset + m] \in Nat
      BY <2>2, <2>3
    <3>4. p # offset + j /\ p # offset + m
      BY <2>2, <3>3
    <3>5. p \in Nat /\ offset + j \in Nat /\ offset + m \in Nat
      BY <1>5, <2>2
    <3> QED BY <2>2, <3>1, <3>2, <3>3, <3>4, <3>5
  <2>5. p > offset /\ p <= last
    BY <1>3, <1>5, <1>6, <1>7, <2>4
  <2>6. p - offset \in DOMAIN slice /\ offset + (p - offset) = p
    BY <1>3, <1>5, <1>7, <2>5
  <2> QED BY <1>7, <2>1, <2>6
<1>10. slice = SliceOffsetPage(list, listing.limit, listing.offset)
  BY DEF slice, last, limit, offset, SliceOffsetPage
<1>11. PagingTypeOK' /\ Asked'
  <2>1. /\ listing' \in Listings /\ items' \subseteq Ids /\ stable' \subseteq items'
        /\ changes' \in 0 .. MaxChanges /\ remainingSkip' \in -1 .. MaxLimit
        /\ cursor' \in 0 .. MaxId /\ seenCursors' \subseteq Ids
    BY <1>1 DEF PagingTypeOK
  <2>2. collected' \in Seq(Ids)
    BY <1>1, <1>7
  <2> QED BY <1>1, <2>1, <2>2 DEF PagingTypeOK, Asked
<1>12. Sorted'
  BY <1>1, <1>8 DEF Sorted
<1>13. Listed' /\ OnTheWay'
  BY <1>1, <1>9, <1>10 DEF Listed, OnTheWay, list
<1> QED BY <1>1, <1>11, <1>12, <1>13 DEF PagingInv

LEMMA ListChangesKeeps ==
    ASSUME PagingInv, ListChanges
    PROVE  PagingInv'
<1>1. /\ PagingTypeOK /\ Asked /\ pageState = "paging" /\ listing.honest
      /\ Sorted /\ OnTheWay /\ changes' = changes + 1 /\ changes < MaxChanges
      /\ listing' = listing /\ remainingSkip' = remainingSkip /\ collected' = collected
      /\ cursor' = cursor /\ seenCursors' = seenCursors /\ pageState' = pageState
  BY DEF PagingInv, ListChanges
<1>2. /\ items' \subseteq Ids /\ stable' \subseteq items' /\ stable' \subseteq stable
  BY <1>1 DEF PagingTypeOK, ListChanges
<1>3. changes' \in 0 .. MaxChanges /\ changes' # 0
  BY <1>1, PagingAssumption DEF PagingTypeOK
<1>4. PagingTypeOK'
  <2>1. /\ listing' \in Listings /\ remainingSkip' \in -1 .. MaxLimit /\ collected' \in Seq(Ids)
        /\ cursor' \in 0 .. MaxId /\ seenCursors' \subseteq Ids
    BY <1>1 DEF PagingTypeOK
  <2> QED BY <1>1, <1>2, <1>3, <2>1 DEF PagingTypeOK
<1>5. Asked' /\ Sorted' /\ Listed'
  BY <1>1 DEF Asked, Sorted, Listed
<1>6. Reaches(cursor)'
  BY <1>1, <1>2, <1>3 DEF Reaches, OnTheWay
<1>7. OnTheWay'
  BY <1>1, <1>6 DEF OnTheWay
<1> QED BY <1>1, <1>4, <1>5, <1>7 DEF PagingInv

LEMMA PagingStays ==
    ASSUME PagingInv, UNCHANGED pagingVars
    PROVE  PagingInv'
<1>1. /\ listing' = listing /\ items' = items /\ stable' = stable /\ changes' = changes
      /\ remainingSkip' = remainingSkip /\ collected' = collected /\ cursor' = cursor
      /\ seenCursors' = seenCursors /\ pageState' = pageState
  BY DEF pagingVars
<1>2. PagingTypeOK => PagingTypeOK'
  BY <1>1 DEF PagingTypeOK
<1>3. (Asked => Asked') /\ (Sorted => Sorted') /\ (Listed => Listed')
  BY <1>1 DEF Asked, Sorted, Listed
<1>4. Reaches(cursor) => Reaches(cursor)'
  BY <1>1 DEF Reaches, Skipping
<1>5. OnTheWay => OnTheWay'
  BY <1>1, <1>4 DEF OnTheWay
<1> QED BY <1>1, <1>2, <1>3, <1>5 DEF PagingInv

(* A listing begins before the first item. *)
LEMMA ListingBegins ==
    ASSUME NEW state \in {"idle", "paging", "rejected"}, PagingStart(state),
           listing \in Listings, items \subseteq Ids,
           state = "paging" => ~Rejected(listing)
    PROVE  PagingInv
<1>1. /\ stable = items /\ changes = 0 /\ remainingSkip = listing.offset
      /\ collected = << >> /\ cursor = 0 /\ seenCursors = {} /\ pageState = state
  BY DEF PagingStart
<1>2. MaxId \in Nat /\ MaxId >= 1 /\ MaxLimit \in Nat /\ MaxLimit >= 1 /\ MaxChanges \in Nat
  BY PagingAssumption
<1>3. /\ listing.limit \in Int /\ listing.offset \in -1 .. MaxLimit
      /\ listing.op = "queues" => listing.offset = 0
  <2>1. /\ listing.limit \in 0 .. MaxLimit \cup {MaxLimit, MaxId}
        /\ listing.offset \in -1 .. MaxLimit \cup {0, 1}
        /\ listing.op = "queues" => listing.offset = 0
    BY DEF Listings
  <2> QED BY <1>2, <2>1
<1>4. PagingTypeOK
  <2>1. remainingSkip \in -1 .. MaxLimit /\ cursor \in 0 .. MaxId /\ changes \in 0 .. MaxChanges
    BY <1>1, <1>2, <1>3
  <2>2. collected \in Seq(Ids)
    BY <1>1
  <2>3. pageState \in {"idle", "paging", "done", "rejected", "raised"}
    BY <1>1
  <2> QED BY <1>1, <2>1, <2>2, <2>3 DEF PagingTypeOK
<1>5. Asked
  BY <1>1, <1>3 DEF Asked, Rejected
<1>6. /\ Sorted /\ Listed /\ pageState # "raised"
  BY <1>1 DEF Sorted, Listed
<1>7. ASSUME pageState = "paging"
      PROVE  Reaches(cursor) /\ (listing.op # "queues" => Len(collected) < listing.limit)
  <2>1. listing.limit >= 1 /\ listing.offset >= 0 /\ Len(collected) = 0
    BY <1>1, <1>5, <1>7 DEF Asked
  <2>2. \A i \in items : ~(i <= cursor)
    BY <1>1, IdsAreNumbers
  <2>3. /\ InOrder(items) \in Seq(items) /\ Len(InOrder(items)) \in Nat
        /\ DOMAIN InOrder(items) = 1 .. Len(InOrder(items))
    <3>1. InOrder(items) \in Seq(items)
      BY InOrderLists DEF InOrderOf
    <3> HIDE DEF InOrder
    <3> QED BY <3>1
  <2>4. Skipping + Len(collected) = 0
    BY <1>1, <1>3, <2>1 DEF Skipping
  <2>5. \A k \in DOMAIN InOrder(items) : InOrder(items)[k] <= cursor <=> k <= 0
    BY <2>2, <2>3
  <2>6. DOMAIN collected = {}
    BY <1>1
  <2> QED BY <1>1, <1>3, <2>1, <2>2, <2>3, <2>4, <2>5, <2>6 DEF Reaches
<1>8. OnTheWay
  BY <1>1, <1>7 DEF OnTheWay
<1> QED BY <1>4, <1>5, <1>6, <1>8 DEF PagingInv

LEMMA PagingAtInit ==
    ASSUME Init
    PROVE  PagingInv
<1>1. CASE NoListing
  <2>1. listing = [op |-> "queues", limit |-> MaxId, offset |-> 0, honest |-> TRUE]
    BY <1>1 DEF NoListing
  <2>2. listing \in Listings
    BY <2>1 DEF Listings
  <2>3. items \subseteq Ids /\ PagingStart("idle")
    BY <1>1 DEF NoListing
  <2> QED BY <2>2, <2>3, ListingBegins
<1>2. CASE PagingInit
  <2>1. listing \in Listings /\ items \subseteq Ids
    BY <1>2 DEF PagingInit
  <2>2. CASE Rejected(listing)
    <3>1. PagingStart("rejected")
      BY <1>2, <2>2 DEF PagingInit
    <3> QED BY <2>1, <3>1, ListingBegins
  <2>3. CASE ~Rejected(listing)
    <3>1. PagingStart("paging")
      BY <1>2, <2>3 DEF PagingInit
    <3> QED BY <2>1, <2>3, <3>1, ListingBegins
  <2> QED BY <2>2, <2>3
<1> QED BY <1>1, <1>2 DEF Init

(* What a listing keeps, whatever the list, the page asked for and the changes. *)
THEOREM PagingInvariance == Spec => []PagingInv
<1>1. ASSUME PagingInv, [Next]_vars
      PROVE  PagingInv'
  <2>1. CASE NextPage
    BY <1>1, <2>1, NextPageKeeps
  <2>2. CASE SlicePage
    BY <1>1, <2>2, SlicePageKeeps
  <2>3. CASE ListChanges
    BY <1>1, <2>3, ListChangesKeeps
  <2>4. CASE UNCHANGED pagingVars
    BY <1>1, <2>4, PagingStays
  <2> QED BY <1>1, <2>1, <2>2, <2>3, <2>4 DEF Next, PagingNext, vars
<1> QED BY <1>1, PagingAtInit, PTL DEF Spec

(* A listing an honest server answered is one a single answer could have given, *)
(* however the list changed between its pages (collect_offset_page,             *)
(* slice_offset_page, list_queues).                                             *)
THEOREM PagesAreHonest == Spec => []PageHonest
<1>1. ASSUME PagingInv
      PROVE  PageHonest
  <2>1. PagingTypeOK /\ Asked
    BY <1>1 DEF PagingInv
  <2> SUFFICES ASSUME listing.honest
               PROVE  /\ pageState # "raised" /\ Sorted /\ Listed
                      /\ \A i \in stable, j, k \in DOMAIN collected :
                            collected[j] < i /\ i < collected[k] =>
                            \E n \in DOMAIN collected : collected[n] = i
    BY <2>1 DEF PageHonest, Sorted, Listed
  <2>2. pageState # "raised" /\ Sorted /\ OnTheWay /\ Listed
    BY <1>1 DEF PagingInv
  <2>3. ASSUME NEW i \in stable, NEW j \in DOMAIN collected, NEW k \in DOMAIN collected,
               collected[j] < i, i < collected[k]
        PROVE  \E n \in DOMAIN collected : collected[n] = i
    <3>1. CASE pageState = "paging"
      <4>1. collected[k] <= cursor /\ (i <= cursor => \E n \in DOMAIN collected : collected[n] = i)
        BY <2>2, <2>3, <3>1 DEF OnTheWay, Reaches
      <4>2. i \in Nat /\ cursor \in Nat /\ collected[k] \in Nat
        BY <2>1, IdsAreNumbers, PagingAssumption DEF PagingTypeOK
      <4> QED BY <2>3, <4>1, <4>2
    <3>2. CASE pageState = "done"
      BY <2>2, <2>3, <3>2 DEF Listed
    <3>3. CASE pageState \in {"idle", "rejected"}
      BY <2>1, <3>3 DEF Asked
    <3> QED BY <2>1, <2>2, <3>1, <3>2, <3>3 DEF PagingTypeOK
  <2> QED BY <2>2, <2>3
<1> QED BY <1>1, PagingInvariance, PTL

-----------------------------------------------------------------------------
(* Workflows                                                                    *)

Size == Len(flow.jobs)
CallbackId(c) == <<0, c>>
Promised == JobIds(Size) \cup {CallbackId(c) : c \in flow.callbacks}

(* A step is what the builder made of a job or of a callback, whatever the      *)
(* transport adds to its options.                                               *)
JobStep(step, i) ==
    /\ step.id = Id(i) /\ step.callback_type = "none"
    /\ step.depends_on = IF flow.shape = "chain" /\ i > 0 THEN {Id(i - 1)} ELSE {}
    /\ step.schema <=> flow.jobs[i + 1] = "schema"
    /\ flow.via = "grpc" =>
          step.queue = IF flow.jobs[i + 1] = "own_queue" THEN "own" ELSE flow.default
CallbackStep(step, c) ==
    step.id = CallbackId(c) /\ step.callback_type = c /\ step.depends_on = JobIds(Size)

DagInv ==
    /\ {step.id : step \in dag} = Promised
    /\ \A step \in dag : \/ \E i \in 0 .. Size - 1 : JobStep(step, i)
                         \/ \E c \in flow.callbacks : CallbackStep(step, c)

(* A step that has begun was ready, and still is.                               *)
BegunWhenReady == \A step \in dag : Begun(step.id) => Ready(step)

FlowInv ==
    /\ Size \in Nat /\ flow.callbacks \subseteq Callbacks
    /\ flow.shape # "batch" => flow.callbacks = {}
    /\ flow.shape \in {"chain", "group", "batch"} /\ flow.via \in {"http", "grpc"}
    /\ \A i \in 1 .. Size : flow.jobs[i] \in Requests
    /\ flowStage \in {"idle", "building", "running", "refused", "read"}
    /\ flowStage \notin {"running", "read"} => steps = << >>
    /\ flowStage \in {"running", "read"} =>
         /\ DagInv /\ BegunWhenReady
         /\ steps \in [Promised -> StepStates \cup {"novel"}]
    /\ flowStage = "read" => ShownAsServed

LEMMA NamesOfSteps ==
    /\ \A i : Id(i)[2] = "step" /\ Id(i)[1] = i /\ Id(i)[2] \notin Callbacks
    /\ \A c : CallbackId(c)[2] = c
    /\ \A i, c : c \in Callbacks => Id(i) # CallbackId(c)
    /\ \A i, k : Id(i) = Id(k) => i = k
BY DEF Id, CallbackId, Callbacks

(* What the builders make of a workflow's jobs and callbacks.                   *)
LEMMA Built ==
    ASSUME Size \in Nat, flow.callbacks \subseteq Callbacks,
           flow.shape # "batch" => flow.callbacks = {},
           flow.shape \in {"chain", "group", "batch"}
    PROVE  LET before(i) == IF flow.shape = "chain" /\ i > 0 THEN {Id(i - 1)} ELSE {}
           IN Build(flow) =
                {ProjectStep(Id(i), flow.jobs[i + 1], before(i)) : i \in 0 .. Size - 1}
                \cup {ProjectStep(CallbackId(c), "plain", JobIds(Size)) : c \in flow.callbacks}
<1>1. CASE flow.shape = "chain"
  BY <1>1 DEF Build, BuildChain, Size
<1>2. CASE flow.shape = "group"
  BY <1>2 DEF Build, BuildGroup, Size
<1>3. CASE flow.shape = "batch"
  BY <1>3 DEF Build, BuildBatch, BuildGroup, Size, CallbackId
<1> QED BY <1>1, <1>2, <1>3

LEMMA CreateWorkflowKeeps ==
    ASSUME FlowInv, CreateWorkflow
    PROVE  FlowInv'
<1> DEFINE before(i) == IF flow.shape = "chain" /\ i > 0 THEN {Id(i - 1)} ELSE {}
           ofJob(i) == ProjectStep(Id(i), flow.jobs[i + 1], before(i))
           ofCallback(c) == ProjectStep(CallbackId(c), "plain", JobIds(Size))
           sent(step) == [step EXCEPT !.queue = IF @ = "unset" THEN flow.default ELSE @]
           definition == Build(flow)
<1>1. /\ Size \in Nat /\ flow.callbacks \subseteq Callbacks
      /\ flow.shape # "batch" => flow.callbacks = {}
      /\ flow.shape \in {"chain", "group", "batch"} /\ flow.via \in {"http", "grpc"}
      /\ \A i \in 1 .. Size : flow.jobs[i] \in Requests
  BY DEF FlowInv
<1>2. flowStage = "building" /\ flow' = flow /\ Size' = Size /\ Promised' = Promised
  BY DEF CreateWorkflow, Size, Promised
<1>3. definition = {ofJob(i) : i \in 0 .. Size - 1} \cup {ofCallback(c) : c \in flow.callbacks}
  BY <1>1, Built
<1> HIDE DEF definition
<1>4. CASE flowStage' = "refused" /\ UNCHANGED <<dag, steps, shown>>
  BY <1>1, <1>2, <1>4 DEF FlowInv
<1>5. CASE /\ dag' = IF flow.via = "http" THEN definition
                     ELSE ProjectWorkflow(definition, flow.default)
           /\ steps' = [id \in {step.id : step \in dag'} |-> "waiting"]
           /\ flowStage' = "running"
  <2>1. ASSUME NEW i \in 0 .. Size - 1
        PROVE  /\ flow.via = "http" => JobStep(ofJob(i), i)
               /\ flow.via = "grpc" => JobStep(sent(ofJob(i)), i)
               /\ ofJob(i).id = Id(i) /\ sent(ofJob(i)).id = Id(i)
    <3>1. /\ ofJob(i).id = Id(i) /\ ofJob(i).depends_on = before(i)
          /\ ofJob(i).schema = (flow.jobs[i + 1] = "schema")
          /\ ofJob(i).callback_type = "none"
      BY NamesOfSteps DEF ProjectStep
    <3>2. /\ sent(ofJob(i)).id = Id(i) /\ sent(ofJob(i)).depends_on = before(i)
          /\ sent(ofJob(i)).schema = (flow.jobs[i + 1] = "schema")
          /\ sent(ofJob(i)).callback_type = "none"
          /\ sent(ofJob(i)).queue = IF flow.jobs[i + 1] = "own_queue" THEN "own"
                                    ELSE flow.default
      <4> DEFINE id == Id(i)
                 request == flow.jobs[i + 1]
                 earlier == before(i)
                 made == ProjectStep(id, request, earlier)
      <4> HIDE DEF id, request, earlier
      <4>1. /\ sent(made).id = id /\ sent(made).depends_on = earlier
            /\ sent(made).schema = (request = "schema")
            /\ sent(made).callback_type = IF id[2] \in Callbacks THEN id[2] ELSE "none"
            /\ sent(made).queue = IF request = "own_queue" THEN "own" ELSE flow.default
        BY DEF ProjectStep
      <4>2. Id(i)[2] \notin Callbacks
        BY NamesOfSteps
      <4>3. ofJob(i) = made
        BY DEF id, request, earlier
      <4> HIDE DEF sent, made, ofJob, before
      <4> QED BY <4>1, <4>2, <4>3 DEF id, request, earlier
    <3> HIDE DEF ofJob, sent
    <3>3. flow.via = "http" => JobStep(ofJob(i), i)
      BY <3>1 DEF JobStep
    <3>4. flow.via = "grpc" => JobStep(sent(ofJob(i)), i)
      BY <3>2 DEF JobStep
    <3> QED BY <3>1, <3>2, <3>3, <3>4
  <2>2. ASSUME NEW c \in flow.callbacks
        PROVE  CallbackStep(ofCallback(c), c) /\ CallbackStep(sent(ofCallback(c)), c)
    <3>1. /\ ofCallback(c).id = CallbackId(c) /\ ofCallback(c).depends_on = JobIds(Size)
          /\ ofCallback(c).callback_type = c
      BY <1>1, NamesOfSteps DEF ProjectStep
    <3>2. /\ sent(ofCallback(c)).id = CallbackId(c)
          /\ sent(ofCallback(c)).depends_on = JobIds(Size)
          /\ sent(ofCallback(c)).callback_type = c
      BY <1>1, NamesOfSteps DEF ProjectStep
    <3> HIDE DEF ofCallback, sent
    <3> QED BY <3>1, <3>2 DEF CallbackStep
  <2> HIDE DEF ofJob, ofCallback, sent
  <2>3. ASSUME flow.via = "http"
        PROVE  /\ {step.id : step \in dag'} = Promised
               /\ \A step \in dag' : \/ \E i \in 0 .. Size - 1 : JobStep(step, i)
                                     \/ \E c \in flow.callbacks : CallbackStep(step, c)
    <3>1. dag' = {ofJob(i) : i \in 0 .. Size - 1} \cup {ofCallback(c) : c \in flow.callbacks}
      BY <1>3, <1>5, <2>3
    <3>2. {step.id : step \in dag'} = Promised
      BY <2>1, <2>2, <3>1 DEF Promised, JobIds, CallbackStep
    <3>3. \A step \in dag' : \/ \E i \in 0 .. Size - 1 : JobStep(step, i)
                             \/ \E c \in flow.callbacks : CallbackStep(step, c)
      <4> SUFFICES ASSUME NEW step \in dag'
                   PROVE  \/ \E i \in 0 .. Size - 1 : JobStep(step, i)
                          \/ \E c \in flow.callbacks : CallbackStep(step, c)
        OBVIOUS
      <4>1. CASE \E i \in 0 .. Size - 1 : step = ofJob(i)
        <5>1. PICK i \in 0 .. Size - 1 : step = ofJob(i)
          BY <4>1
        <5>2. JobStep(step, i)
          BY <2>1, <2>3, <5>1
        <5> QED BY <5>2
      <4>2. CASE \E c \in flow.callbacks : step = ofCallback(c)
        <5>1. PICK c \in flow.callbacks : step = ofCallback(c)
          BY <4>2
        <5>2. CallbackStep(step, c)
          BY <2>2, <5>1
        <5> QED BY <5>2
      <4> QED BY <3>1, <4>1, <4>2
    <3> QED BY <3>2, <3>3
  <2>4. ASSUME flow.via = "grpc"
        PROVE  /\ {step.id : step \in dag'} = Promised
               /\ \A step \in dag' : \/ \E i \in 0 .. Size - 1 : JobStep(step, i)
                                     \/ \E c \in flow.callbacks : CallbackStep(step, c)
    <3>1. dag' = {sent(step) : step \in definition}
      BY <1>5, <2>4 DEF ProjectWorkflow, sent
    <3>2. dag' = {sent(ofJob(i)) : i \in 0 .. Size - 1}
                 \cup {sent(ofCallback(c)) : c \in flow.callbacks}
      BY <1>3, <3>1
    <3>3. {step.id : step \in dag'} = Promised
      BY <2>1, <2>2, <3>2 DEF Promised, JobIds, CallbackStep
    <3>4. \A step \in dag' : \/ \E i \in 0 .. Size - 1 : JobStep(step, i)
                             \/ \E c \in flow.callbacks : CallbackStep(step, c)
      <4> SUFFICES ASSUME NEW step \in dag'
                   PROVE  \/ \E i \in 0 .. Size - 1 : JobStep(step, i)
                          \/ \E c \in flow.callbacks : CallbackStep(step, c)
        OBVIOUS
      <4>1. CASE \E i \in 0 .. Size - 1 : step = sent(ofJob(i))
        <5>1. PICK i \in 0 .. Size - 1 : step = sent(ofJob(i))
          BY <4>1
        <5>2. JobStep(step, i)
          BY <2>1, <2>4, <5>1
        <5> QED BY <5>2
      <4>2. CASE \E c \in flow.callbacks : step = sent(ofCallback(c))
        <5>1. PICK c \in flow.callbacks : step = sent(ofCallback(c))
          BY <4>2
        <5>2. CallbackStep(step, c)
          BY <2>2, <5>1
        <5> QED BY <5>2
      <4> QED BY <3>2, <4>1, <4>2
    <3> QED BY <3>3, <3>4
  <2>5. DagInv'
    <3>1. flow.via = "http" \/ flow.via = "grpc"
      BY <1>1
    <3>2. /\ {step.id : step \in dag'} = Promised
          /\ \A step \in dag' : \/ \E i \in 0 .. Size - 1 : JobStep(step, i)
                                \/ \E c \in flow.callbacks : CallbackStep(step, c)
      BY <2>3, <2>4, <3>1
    <3> QED BY <1>2, <3>2 DEF DagInv, JobStep, CallbackStep
  <2>6. steps' \in [Promised -> StepStates \cup {"novel"}]
    <3>1. steps' = [id \in Promised |-> "waiting"]
      BY <1>2, <1>5, <2>5 DEF DagInv
    <3> QED BY <3>1 DEF StepStates
  <2>7. BegunWhenReady'
    <3>1. \A step \in dag' : steps'[step.id] = "waiting"
      BY <1>5
    <3> QED BY <3>1 DEF BegunWhenReady, Begun
  <2> QED BY <1>1, <1>2, <1>5, <2>5, <2>6, <2>7 DEF FlowInv
<1> QED BY <1>2, <1>4, <1>5 DEF CreateWorkflow, definition

(* What a step waits for is a step of the workflow.                             *)
LEMMA DependsOnSteps ==
    ASSUME FlowInv, flowStage \in {"running", "read"}, NEW step \in dag
    PROVE  step.id \in Promised /\ step.depends_on \subseteq Promised
<1>1. DagInv /\ Size \in Nat
  BY DEF FlowInv
<1>2. step.id \in Promised
  BY <1>1 DEF DagInv
<1>3. CASE \E i \in 0 .. Size - 1 : JobStep(step, i)
  <2>1. PICK i \in 0 .. Size - 1 : JobStep(step, i)
    BY <1>3
  <2>2. i > 0 => i - 1 \in 0 .. Size - 1
    BY <1>1
  <2> QED BY <1>2, <2>1, <2>2 DEF JobStep, Promised, JobIds
<1>4. CASE \E c \in flow.callbacks : CallbackStep(step, c)
  BY <1>2, <1>4 DEF CallbackStep, Promised
<1> QED BY <1>1, <1>3, <1>4 DEF DagInv

(* Two steps of the same name are the same in all the server goes by.           *)
LEMMA StepsHaveIds ==
    ASSUME DagInv, flow.callbacks \subseteq Callbacks,
           NEW a \in dag, NEW b \in dag, a.id = b.id
    PROVE  a.depends_on = b.depends_on /\ a.callback_type = b.callback_type
<1>1. /\ \/ \E i \in 0 .. Size - 1 : JobStep(a, i)
         \/ \E c \in flow.callbacks : CallbackStep(a, c)
      /\ \/ \E i \in 0 .. Size - 1 : JobStep(b, i)
         \/ \E c \in flow.callbacks : CallbackStep(b, c)
  BY DEF DagInv
<1>2. ASSUME NEW i, NEW k, JobStep(a, i), JobStep(b, k)
      PROVE  a.depends_on = b.depends_on /\ a.callback_type = b.callback_type
  <2>1. i = k
    <3>1. Id(i) = Id(k)
      BY <1>2 DEF JobStep
    <3>2. Id(i)[1] = Id(k)[1]
      BY <3>1
    <3> QED BY <3>2, NamesOfSteps
  <2> QED BY <1>2, <2>1 DEF JobStep
<1>3. ASSUME NEW i, NEW c \in flow.callbacks
      PROVE  /\ ~(JobStep(a, i) /\ CallbackStep(b, c))
             /\ ~(JobStep(b, i) /\ CallbackStep(a, c))
  BY NamesOfSteps DEF JobStep, CallbackStep
<1>4. ASSUME NEW c, NEW d, CallbackStep(a, c), CallbackStep(b, d)
      PROVE  a.depends_on = b.depends_on /\ a.callback_type = b.callback_type
  <2>1. c = d
    <3>1. CallbackId(c)[2] = CallbackId(d)[2]
      BY <1>4 DEF CallbackStep
    <3> QED BY <3>1, NamesOfSteps
  <2> QED BY <1>4, <2>1 DEF CallbackStep
<1> QED BY <1>1, <1>2, <1>3, <1>4

(* The name of a step says which it is.                                         *)
LEMMA JobStepIs ==
    ASSUME flow.callbacks \subseteq Callbacks, NEW step, NEW i, step.id = Id(i),
           \/ \E k \in 0 .. Size - 1 : JobStep(step, k)
           \/ \E c \in flow.callbacks : CallbackStep(step, c)
    PROVE  JobStep(step, i)
<1>1. ~ \E c \in flow.callbacks : CallbackStep(step, c)
  BY NamesOfSteps DEF CallbackStep
<1>2. PICK k \in 0 .. Size - 1 : JobStep(step, k)
  BY <1>1
<1>3. Id(i) = Id(k)
  BY <1>2 DEF JobStep
<1>4. Id(i)[1] = Id(k)[1]
  BY <1>3
<1>5. i = k
  BY <1>4, NamesOfSteps
<1> QED BY <1>2, <1>5

LEMMA CallbackStepIs ==
    ASSUME NEW step, NEW c \in Callbacks, step.id = CallbackId(c),
           \/ \E k \in 0 .. Size - 1 : JobStep(step, k)
           \/ \E d \in flow.callbacks : CallbackStep(step, d)
    PROVE  CallbackStep(step, c)
<1>1. ~ \E k \in 0 .. Size - 1 : JobStep(step, k)
  BY NamesOfSteps DEF JobStep
<1>2. PICK d \in flow.callbacks : CallbackStep(step, d)
  BY <1>1
<1>3. CallbackId(c)[2] = CallbackId(d)[2]
  BY <1>2 DEF CallbackStep
<1>4. c = d
  BY <1>3, NamesOfSteps
<1> QED BY <1>2, <1>4

(* The states of the steps are kept or go on, and none that has ended goes on.  *)
LEMMA ProgressKeeps ==
    ASSUME FlowInv, flowStage \in {"running", "read"}, flow' = flow, dag' = dag,
           steps' \in [Promised -> StepStates \cup {"novel"}],
           \A id \in Promised : steps[id] \in Ended => steps'[id] = steps[id],
           \A step \in dag : Begun(step.id)' => Begun(step.id) \/ Ready(step)
    PROVE  DagInv' /\ BegunWhenReady' /\ Promised' = Promised
<1>1. DagInv /\ BegunWhenReady
  BY DEF FlowInv
<1>2. Size' = Size /\ Promised' = Promised
  BY DEF Size, Promised
<1>3. DagInv'
  BY <1>1, <1>2 DEF DagInv, JobStep, CallbackStep
<1>4. ASSUME NEW step \in dag, Begun(step.id)'
      PROVE  Ready(step)'
  <2>1. Ready(step)
    BY <1>1, <1>4 DEF BegunWhenReady
  <2>2. \A id \in step.depends_on : steps[id] \in Ended => steps'[id] = steps[id]
    BY DependsOnSteps
  <2>3. \A id \in step.depends_on : steps[id] \in Ended
    BY <2>1 DEF Ready, Ended
  <2>4. {steps'[id] : id \in step.depends_on} = {steps[id] : id \in step.depends_on}
    BY <2>2, <2>3
  <2> QED BY <2>1, <2>4 DEF Ready
<1>5. BegunWhenReady'
  BY <1>4 DEF BegunWhenReady, Begun, Ready
<1> QED BY <1>2, <1>3, <1>5

LEMMA ServeStepKeeps ==
    ASSUME FlowInv, ServeStep
    PROVE  FlowInv'
<1>1. /\ flowStage = "running" /\ flow' = flow /\ dag' = dag /\ shown' = shown
      /\ flowStage' = flowStage
  BY DEF ServeStep
<1>2. PICK step \in dag :
        \E next \in (CASE steps[step.id] = "waiting" -> {"pending"}
                       [] steps[step.id] = "pending" -> {"active", "novel"}
                       [] steps[step.id] = "active" -> {"completed", "failed"}
                       [] OTHER -> {}) :
           /\ steps[step.id] = "waiting" => Ready(step)
           /\ steps' = [steps EXCEPT ![step.id] = next]
  BY DEF ServeStep
<1>3. PICK next :
        /\ \/ steps[step.id] = "waiting" /\ next = "pending"
           \/ steps[step.id] = "pending" /\ next \in {"active", "novel"}
           \/ steps[step.id] = "active" /\ next \in {"completed", "failed"}
        /\ steps[step.id] = "waiting" => Ready(step)
        /\ steps' = [steps EXCEPT ![step.id] = next]
  BY <1>2
<1>4. step.id \in Promised /\ steps \in [Promised -> StepStates \cup {"novel"}]
  BY <1>1, DependsOnSteps DEF FlowInv
<1>5. steps' \in [Promised -> StepStates \cup {"novel"}]
  BY <1>3, <1>4 DEF StepStates
<1>6. \A id \in Promised : steps[id] \in Ended => steps'[id] = steps[id]
  BY <1>3, <1>4 DEF Ended
<1>7. \A other \in dag : Begun(other.id)' => Begun(other.id) \/ Ready(other)
  <2> SUFFICES ASSUME NEW other \in dag, Begun(other.id)', ~Begun(other.id)
               PROVE  Ready(other)
    OBVIOUS
  <2>1. other.id = step.id /\ steps[step.id] = "waiting"
    BY <1>1, <1>3, <1>4, DependsOnSteps DEF Begun
  <2>2. Ready(step)
    BY <1>3, <2>1
  <2>3. other.depends_on = step.depends_on /\ other.callback_type = step.callback_type
    BY <1>1, <2>1, StepsHaveIds DEF FlowInv
  <2> QED BY <2>2, <2>3 DEF Ready
<1>8. DagInv' /\ BegunWhenReady' /\ Promised' = Promised
  BY <1>1, <1>5, <1>6, <1>7, ProgressKeeps
<1> QED BY <1>1, <1>5, <1>8 DEF FlowInv, Size

LEMMA ReadKeeps ==
    ASSUME FlowInv, GetWorkflow \/ CancelWorkflow
    PROVE  FlowInv'
<1>1. /\ flowStage = "running" /\ flow' = flow /\ dag' = dag /\ flowStage' = "read"
      /\ shown' = Shown(flow.via, steps')
  BY DEF GetWorkflow, CancelWorkflow, Shown
<1>2. steps \in [Promised -> StepStates \cup {"novel"}]
  BY <1>1 DEF FlowInv
<1>3. /\ steps' \in [Promised -> StepStates \cup {"novel"}]
      /\ \A id \in Promised :
           \/ steps'[id] = steps[id]
           \/ steps'[id] = "cancelled" /\ steps[id] \notin Ended
  <2>1. CASE GetWorkflow
    BY <1>2, <2>1 DEF GetWorkflow
  <2>2. CASE CancelWorkflow
    BY <1>2, <2>2 DEF CancelWorkflow, StepStates
  <2> QED BY <2>1, <2>2
<1>4. \A step \in dag : Begun(step.id)' => Begun(step.id) \/ Ready(step)
  BY <1>1, <1>3, DependsOnSteps DEF Begun
<1>5. DagInv' /\ BegunWhenReady' /\ Promised' = Promised
  BY <1>1, <1>3, <1>4, ProgressKeeps
<1>6. ShownAsServed'
  <2> SUFFICES ASSUME NEW step \in dag
               PROVE  /\ shown'[step].depends_on = step.depends_on
                      /\ \/ shown'[step].state = steps'[step.id]
                         \/ /\ flow.via = "grpc" /\ steps'[step.id] = "novel"
                            /\ shown'[step].state = "pending"
    BY <1>1 DEF ShownAsServed
  <2>1. shown'[step] = [depends_on |-> step.depends_on,
                        state |-> ReadStep(flow.via, steps'[step.id])]
    BY <1>1 DEF Shown
  <2>2. steps'[step.id] \in StepStates \cup {"novel"}
    BY <1>1, <1>3, DependsOnSteps
  <2> QED BY <2>1, <2>2 DEF ReadStep
<1> QED BY <1>1, <1>3, <1>5, <1>6 DEF FlowInv, Size

LEMMA FlowStays ==
    ASSUME FlowInv, UNCHANGED flowVars
    PROVE  FlowInv'
<1>1. flow' = flow /\ dag' = dag /\ steps' = steps /\ shown' = shown /\ flowStage' = flowStage
  BY DEF flowVars
<1>2. Size' = Size /\ Promised' = Promised
  BY <1>1 DEF Size, Promised
<1>3. DagInv => DagInv'
  BY <1>1, <1>2 DEF DagInv, JobStep, CallbackStep
<1>4. BegunWhenReady => BegunWhenReady'
  BY <1>1 DEF BegunWhenReady, Begun, Ready
<1>5. ShownAsServed => ShownAsServed'
  BY <1>1 DEF ShownAsServed
<1> QED BY <1>1, <1>2, <1>3, <1>4, <1>5 DEF FlowInv

LEMMA FlowAtInit ==
    ASSUME Init
    PROVE  FlowInv
<1>1. CASE NoWorkflow
  BY <1>1 DEF NoWorkflow, FlowInv, Size, Callbacks
<1>2. CASE WorkflowInit
  <2>1. /\ flow \in Flows /\ (flow.shape # "batch" => flow.callbacks = {})
        /\ steps = << >> /\ flowStage = "building"
    BY <1>2 DEF WorkflowInit
  <2>2. PICK n \in 0 .. MaxJobs : flow.jobs \in [1 .. n -> Requests]
    BY <2>1 DEF Flows, JobLists
  <2>3. n \in Nat
    BY WorkflowAssumption
  <2>4. flow.jobs \in Seq(Requests)
    BY <2>2, <2>3
  <2> QED BY <2>1, <2>4 DEF FlowInv, Size, Flows
<1> QED BY <1>1, <1>2 DEF Init

(* What the workflow calls keep, whatever the workflow.                         *)
THEOREM WorkflowInvariance == Spec => []FlowInv
<1>1. ASSUME FlowInv, [Next]_vars
      PROVE  FlowInv'
  <2>1. CASE CreateWorkflow
    BY <1>1, <2>1, CreateWorkflowKeeps
  <2>2. CASE ServeStep
    BY <1>1, <2>2, ServeStepKeeps
  <2>3. CASE GetWorkflow \/ CancelWorkflow
    BY <1>1, <2>3, ReadKeeps
  <2>4. CASE UNCHANGED flowVars
    BY <1>1, <2>4, FlowStays
  <2> QED BY <1>1, <2>1, <2>2, <2>3, <2>4 DEF Next, WorkflowNext, vars
<1> QED BY <1>1, FlowAtInit, PTL DEF Spec

(* The server runs what chain, group or batch promises, over either transport,  *)
(* and a client reads what it runs (workflow/, workflow_projection.py,          *)
(* create_workflow, get_workflow and cancel_workflow).                          *)
THEOREM WorkflowIsKept == Spec => []WorkflowKept
<1>1. ASSUME FlowInv
      PROVE  WorkflowKept
  <2>1. WorkflowTypeOK
    <3>1. flowStage \in {"running", "read"} => DOMAIN steps = {step.id : step \in dag}
      BY <1>1 DEF FlowInv, DagInv
    <3>2. \A id \in DOMAIN steps : steps[id] \in StepStates \cup {"novel"}
      BY <1>1 DEF FlowInv
    <3> QED BY <1>1, <3>1, <3>2 DEF FlowInv, WorkflowTypeOK
  <2>2. ASSUME flowStage \in {"running", "read"}
        PROVE  LET n == Len(flow.jobs)
                   ended == {steps[id] : id \in JobIds(n)}
               IN /\ DOMAIN steps = JobIds(n) \cup {<<0, c>> : c \in flow.callbacks}
                  /\ flow.shape = "chain" =>
                        \A i \in 1 .. n - 1 : Begun(Id(i)) => steps[Id(i - 1)] = "completed"
                  /\ flow.shape # "chain" =>
                        \A step \in dag : step.id \in JobIds(n) => Ready(step)
                  /\ \A c \in flow.callbacks : Begun(<<0, c>>) =>
                        /\ ended \subseteq Ended
                        /\ c = "on_success" => ended \subseteq {"completed"}
                        /\ c = "on_failure" => "failed" \in ended
                  /\ \A step \in dag : step.id[2] \in Callbacks => step.callback_type = step.id[2]
                  /\ \A step \in dag, i \in 0 .. n - 1 : step.id = Id(i) =>
                        /\ step.schema <=> flow.jobs[i + 1] = "schema"
                        /\ flow.via = "grpc" =>
                              step.queue = IF flow.jobs[i + 1] = "own_queue" THEN "own"
                                           ELSE flow.default
    <3> DEFINE ended == {steps[id] : id \in JobIds(Size)}
    <3>1. /\ DagInv /\ BegunWhenReady /\ DOMAIN steps = Promised
          /\ Size \in Nat /\ flow.callbacks \subseteq Callbacks
      BY <1>1, <2>2 DEF FlowInv
    <3>2. \A step \in dag : \/ \E i \in 0 .. Size - 1 : JobStep(step, i)
                            \/ \E c \in flow.callbacks : CallbackStep(step, c)
      BY <3>1 DEF DagInv
    <3>3. ASSUME NEW i \in 0 .. Size - 1
          PROVE  \E step \in dag : JobStep(step, i)
      <4>1. Id(i) \in Promised
        BY DEF Promised, JobIds
      <4>2. PICK step \in dag : step.id = Id(i)
        BY <3>1, <4>1 DEF DagInv
      <4> QED BY <3>1, <3>2, <4>2, JobStepIs
    <3>4. ASSUME NEW c \in flow.callbacks
          PROVE  \E step \in dag : CallbackStep(step, c)
      <4>1. CallbackId(c) \in Promised
        BY DEF Promised
      <4>2. PICK step \in dag : step.id = CallbackId(c)
        BY <3>1, <4>1 DEF DagInv
      <4> QED BY <3>1, <3>2, <4>2, CallbackStepIs
    <3>5. DOMAIN steps = JobIds(Size) \cup {<<0, c>> : c \in flow.callbacks}
      BY <3>1 DEF Promised, CallbackId
    <3>6. ASSUME flow.shape = "chain", NEW i \in 1 .. Size - 1, Begun(Id(i))
          PROVE  steps[Id(i - 1)] = "completed"
      <4>1. i \in 0 .. Size - 1 /\ i > 0
        BY <3>1
      <4>2. PICK step \in dag : JobStep(step, i)
        BY <3>3, <4>1
      <4>3. /\ step.id = Id(i) /\ step.callback_type = "none"
            /\ step.depends_on = {Id(i - 1)}
        BY <3>6, <4>1, <4>2 DEF JobStep
      <4>4. Ready(step)
        BY <3>1, <3>6, <4>3 DEF BegunWhenReady
      <4> QED BY <4>3, <4>4 DEF Ready
    <3>7. ASSUME flow.shape # "chain", NEW step \in dag, step.id \in JobIds(Size)
          PROVE  Ready(step)
      <4>1. PICK i \in 0 .. Size - 1 : step.id = Id(i)
        BY <3>7 DEF JobIds
      <4>2. JobStep(step, i)
        BY <3>1, <3>2, <4>1, JobStepIs
      <4>3. step.depends_on = {} /\ step.callback_type = "none"
        BY <3>7, <4>2 DEF JobStep
      <4> QED BY <4>3 DEF Ready
    <3>8. ASSUME NEW c \in flow.callbacks, Begun(<<0, c>>)
          PROVE  /\ ended \subseteq Ended
                 /\ c = "on_success" => ended \subseteq {"completed"}
                 /\ c = "on_failure" => "failed" \in ended
      <4>1. PICK step \in dag : CallbackStep(step, c)
        BY <3>4
      <4>2. /\ step.id = <<0, c>> /\ step.callback_type = c /\ step.depends_on = JobIds(Size)
        BY <4>1 DEF CallbackStep, CallbackId
      <4>3. Ready(step)
        BY <3>1, <3>8, <4>2 DEF BegunWhenReady
      <4>4. c \in Callbacks
        BY <3>1
      <4> QED BY <4>2, <4>3, <4>4 DEF Ready, Ended, Callbacks
    <3>9. ASSUME NEW step \in dag, step.id[2] \in Callbacks
          PROVE  step.callback_type = step.id[2]
      BY <3>2, <3>9, NamesOfSteps DEF JobStep, CallbackStep
    <3>10. ASSUME NEW step \in dag, NEW i \in 0 .. Size - 1, step.id = Id(i)
           PROVE  /\ step.schema <=> flow.jobs[i + 1] = "schema"
                  /\ flow.via = "grpc" =>
                        step.queue = IF flow.jobs[i + 1] = "own_queue" THEN "own"
                                     ELSE flow.default
      BY <3>1, <3>2, <3>10, JobStepIs DEF JobStep
    <3> QED BY <3>5, <3>6, <3>7, <3>8, <3>9, <3>10 DEF Size
  <2>3. flowStage = "read" => ShownAsServed
    BY <1>1 DEF FlowInv
  <2> QED BY <2>1, <2>2, <2>3 DEF WorkflowKept
<1> QED BY <1>1, WorkflowInvariance, PTL
=============================================================================
