-------------------------- MODULE ExecutionProofs --------------------------
(* Proofs about one execution of a job. DurableContext, for every handler and   *)
(* number of attempts: what is replayed is what was recorded, a checkpoint is   *)
(* neither lost nor done again, and a sequential handler is never refused its   *)
(* own log. ExecutionChain, for every chain of layers and number of retries: a  *)
(* cancellation prevails, a success is kept, observers agree with the report,   *)
(* and the handler sees plain arguments.                                        *)
EXTENDS DurableContext, ExecutionChain, FiniteSetTheorems, TLAPS

Entries == [effect : Effects, by : Attempts]
Immediate(e) == Kind[e] # "call"

(* The effects of the handler up to effect t of step s, and those an attempt    *)
(* has started.                                                                 *)
DoneAt(s, t) ==
    {e \in Effects : \E i \in DOMAIN handler : \E j \in DOMAIN handler[i] :
        e = handler[i][j] /\ (i < s \/ (i = s /\ j <= t))}
done == [n \in Attempts |-> DoneAt(step[n], started[n])]

Types ==
    /\ handler \in Handlers /\ overlap \in BOOLEAN
    /\ mode \in [Attempts -> {"none", "run", "completed", "over", "mismatch"}]
    /\ entries \in [Attempts -> Seq(Entries)]
    /\ cursor \in [Attempts -> Nat]
    /\ replaying \in [Attempts -> BOOLEAN]
    /\ step \in [Attempts -> 1 .. (Len(handler) + 1)]
    /\ started \in [Attempts -> Nat]
    /\ inflight \in [Attempts -> SUBSET Effects]
    /\ caught \in [Attempts -> SUBSET Effects]
    /\ store \in Seq(Entries)
    /\ acked \in BOOLEAN

(* A log has an effect of the handler once, and the values that are recorded at *)
(* once in the order of the handler, none of them left out: before such an      *)
(* entry are those of all such effects that come before it.                     *)
LogOK(log) ==
    /\ \A a \in DOMAIN log :
         \E i \in DOMAIN handler : \E j \in DOMAIN handler[i] :
           log[a].effect = handler[i][j]
    /\ \A a, b \in DOMAIN log : log[a].effect = log[b].effect => a = b
    /\ \A a \in DOMAIN log :
         \A i \in DOMAIN handler : \A j \in DOMAIN handler[i] :
           log[a].effect = handler[i][j] /\ Immediate(handler[i][j]) =>
             \A k \in DOMAIN handler : \A l \in DOMAIN handler[k] :
               Immediate(handler[k][l]) /\ (k < i \/ (k = i /\ l < j)) =>
                 \E b \in DOMAIN log : b < a /\ log[b].effect = handler[k][l]

(* Of a sequential handler it is a prefix, unless an attempt whose entries it   *)
(* may have went on past a side effect that raised.                             *)
Follows(log) ==
    \A a \in DOMAIN log : a \in DOMAIN handler /\ log[a].effect = handler[a][1]

Clean(n) == \A k \in 1 .. n : caught[k] = {}

LogsInv ==
    /\ LogOK(store) /\ \A n \in Attempts : LogOK(entries[n])
    /\ Sequential /\ Clean(MaxAttempts) => Follows(store)
    /\ Sequential => \A n \in Attempts : Clean(n) => Follows(entries[n])

(* What an attempt has started it has replayed, while there is something to     *)
(* replay, and after that recorded, has in flight or has seen raise.            *)
ReplayInv(n) ==
    /\ cursor[n] <= Len(entries[n])
    /\ replaying[n] =>
         /\ cursor[n] < Len(entries[n]) /\ inflight[n] = {} /\ caught[n] = {}
         /\ done[n] = {entries[n][a].effect : a \in 1 .. cursor[n]}
    /\ ~replaying[n] =>
         /\ done[n] = EffectsOf(entries[n]) \cup inflight[n] \cup caught[n]
         /\ EffectsOf(entries[n]) \cap inflight[n] = {}
    /\ \A e \in inflight[n] \cup caught[n] : ~Immediate(e)

(* Where it is in the handler. *)
ProgramInv(n) ==
    /\ step[n] <= Len(handler) => started[n] <= Len(handler[step[n]])
    /\ step[n] > Len(handler) => started[n] = 0

(* An attempt that does not run knows nothing. *)
Blank(n) ==
    /\ entries[n] = <<>> /\ cursor[n] = 0 /\ ~replaying[n]
    /\ step[n] = 1 /\ started[n] = 0 /\ inflight[n] = {}

Running(n) == mode[n] \in {"run", "completed"}

(* The place of a sequential attempt in the handler is its place in the log, as *)
(* long as no side effect has raised in it.                                     *)
PlaceInv(n) ==
    Sequential /\ caught[n] = {} =>
      /\ replaying[n] => cursor[n] = (step[n] - 1) + started[n]
      /\ ~replaying[n] /\ inflight[n] = {} => Len(entries[n]) = (step[n] - 1) + started[n]
      /\ inflight[n] # {} =>
           /\ started[n] = 1 /\ Len(entries[n]) = step[n] - 1
           /\ step[n] \in DOMAIN handler /\ inflight[n] = {handler[step[n]][1]}

attemptOK ==
    [n \in Attempts |->
      /\ ~Running(n) => Blank(n)
      /\ Running(n) => ReplayInv(n) /\ ProgramInv(n) /\ PlaceInv(n)
      /\ mode[n] = "none" => caught[n] = {}
      /\ Sequential /\ mode[n] = "mismatch" => \E k \in 1 .. (n - 1) : caught[k] # {}]
AttemptInv == \A n \in Attempts : attemptOK[n]

(* Without overlap one attempt runs at a time, and what is checkpointed is the  *)
(* beginning of what it knows.                                                  *)
OrderInv ==
    /\ \A n, k \in Attempts : k < n /\ mode[n] # "none" => mode[k] # "none"
    /\ ~overlap => \A n, k \in Attempts : Running(n) /\ Running(k) => n = k
    /\ ~overlap => \A n \in Attempts : Running(n) =>
         /\ Len(store) <= Len(entries[n])
         /\ \A a \in DOMAIN store : store[a] = entries[n][a]

(* The inductive invariant. *)
IInv == Types /\ LogsInv /\ AttemptInv /\ OrderInv

-----------------------------------------------------------------------------
(* The place of an effect in the handler *)

(* The handler's steps are sequences of effects, and an effect is in one place  *)
(* of it.                                                                       *)
LEMMA HandlerFacts ==
    ASSUME handler \in Handlers
    PROVE  /\ handler \in Seq(Seq(Effects))
           /\ \A i \in DOMAIN handler :
                 /\ i \in Nat /\ i >= 1 /\ i <= Len(handler)
                 /\ handler[i] \in Seq(Effects)
                 /\ \A j \in DOMAIN handler[i] :
                       /\ j \in Nat /\ j >= 1 /\ j <= Len(handler[i])
                       /\ handler[i][j] \in Effects
           /\ \A i, k \in DOMAIN handler :
                 \A j \in DOMAIN handler[i], l \in DOMAIN handler[k] :
                   handler[i][j] = handler[k][l] => i = k /\ j = l
<1>1. handler \in Seq(Seq(Effects))
  BY HandlerAssumption
<1>2. \A i \in DOMAIN handler :
        i \in Nat /\ i >= 1 /\ i <= Len(handler) /\ handler[i] \in Seq(Effects)
  BY <1>1
<1>3. ASSUME NEW i \in DOMAIN handler, NEW j \in DOMAIN handler[i]
      PROVE  j \in Nat /\ j >= 1 /\ j <= Len(handler[i]) /\ handler[i][j] \in Effects
  <2>1. handler[i] \in Seq(Effects)
    BY <1>2
  <2> QED BY <2>1
<1>4. \A i, k \in DOMAIN handler :
        \A j \in DOMAIN handler[i], l \in DOMAIN handler[k] :
          handler[i][j] = handler[k][l] => i = k /\ j = l
  BY EffectsAreDistinct
<1> QED BY <1>1, <1>2, <1>3, <1>4

(* The next effect of an attempt is at its place in the handler and not among   *)
(* those it has started; starting it adds it to them.                           *)
LEMMA NextIsNew ==
    ASSUME Types, NEW n \in Attempts, HasNext(n)
    PROVE  /\ step[n] \in DOMAIN handler /\ started[n] + 1 \in DOMAIN handler[step[n]]
           /\ NextEffect(n) \in Effects
           /\ NextEffect(n) \notin DoneAt(step[n], started[n])
           /\ DoneAt(step[n], started[n] + 1)
                = DoneAt(step[n], started[n]) \cup {NextEffect(n)}
<1> DEFINE s == step[n]
           t == started[n]
<1>1. handler \in Handlers
  BY DEF Types
<1>2. s \in Nat /\ s >= 1 /\ t \in Nat
  BY HandlerFacts, <1>1 DEF Types
<1>3. s \in DOMAIN handler /\ handler[s] \in Seq(Effects)
  BY HandlerFacts, <1>1, <1>2 DEF HasNext
<1>4. t + 1 \in DOMAIN handler[s]
  BY <1>2, <1>3 DEF HasNext
<1>5. NextEffect(n) = handler[s][t + 1]
  BY DEF NextEffect
<1>6. handler[s][t + 1] \in Effects
  BY HandlerFacts, <1>1, <1>3, <1>4
<1>7. handler[s][t + 1] \notin DoneAt(s, t)
  <2> SUFFICES ASSUME NEW i \in DOMAIN handler, NEW j \in DOMAIN handler[i],
                      handler[s][t + 1] = handler[i][j],
                      i < s \/ (i = s /\ j <= t)
               PROVE  FALSE
    BY DEF DoneAt
  <2>1. i = s /\ j = t + 1
    BY HandlerFacts, <1>1, <1>3, <1>4
  <2> QED BY <2>1, <1>2
<1>8. ASSUME NEW e
      PROVE  e \in DoneAt(s, t + 1) <=> e \in DoneAt(s, t) \cup {handler[s][t + 1]}
  <2>1. ASSUME NEW i \in DOMAIN handler, NEW j \in DOMAIN handler[i]
        PROVE  (i < s \/ (i = s /\ j <= t + 1))
                 <=> (i < s \/ (i = s /\ j <= t)) \/ (i = s /\ j = t + 1)
    <3>1. i \in Nat /\ j \in Nat
      BY HandlerFacts, <1>1
    <3> QED BY <3>1, <1>2
  <2> QED BY <2>1, <1>3, <1>4, <1>6 DEF DoneAt
<1>9. DoneAt(s, t + 1) = DoneAt(s, t) \cup {handler[s][t + 1]}
  BY <1>8
<1> HIDE DEF s, t
<1> QED BY <1>3, <1>4, <1>5, <1>6, <1>7, <1>9 DEF s, t

(* The beginning of a step is the end of the one before it.                     *)
LEMMA StepBoundary ==
    ASSUME handler \in Handlers, NEW s \in DOMAIN handler
    PROVE  DoneAt(s + 1, 0) = DoneAt(s, Len(handler[s]))
<1>1. s \in Nat
  BY HandlerFacts
<1>2. ASSUME NEW i \in DOMAIN handler, NEW j \in DOMAIN handler[i]
      PROVE  (i < s + 1 \/ (i = s + 1 /\ j <= 0))
               <=> (i < s \/ (i = s /\ j <= Len(handler[s])))
  <2>1. i \in Nat /\ j \in Nat /\ j >= 1 /\ j <= Len(handler[i])
    BY HandlerFacts
  <2> QED BY <2>1, <1>1
<1> QED BY <1>2 DEF DoneAt

(* An attempt that has not begun has started nothing.                           *)
LEMMA NothingAtFirst ==
    ASSUME handler \in Handlers
    PROVE  DoneAt(1, 0) = {}
<1>1. ASSUME NEW i \in DOMAIN handler, NEW j \in DOMAIN handler[i]
      PROVE  ~(i < 1 \/ (i = 1 /\ j <= 0))
  <2>1. i \in Nat /\ i >= 1 /\ j \in Nat /\ j >= 1
    BY HandlerFacts
  <2> QED BY <2>1
<1> QED BY <1>1 DEF DoneAt

-----------------------------------------------------------------------------
(* Logs *)

(* What appending an entry does to a log and to the effects it names.           *)
LEMMA Appended ==
    ASSUME NEW log \in Seq(Entries), NEW x \in Entries
    PROVE  /\ Append(log, x) \in Seq(Entries)
           /\ Len(log) \in Nat /\ Len(Append(log, x)) = Len(log) + 1
           /\ \A a \in DOMAIN log : a \in DOMAIN Append(log, x) /\ Append(log, x)[a] = log[a]
           /\ \A a \in DOMAIN log : a \in Nat /\ a >= 1 /\ a <= Len(log)
           /\ Len(log) + 1 \in DOMAIN Append(log, x) /\ Append(log, x)[Len(log) + 1] = x
           /\ \A a \in DOMAIN Append(log, x) : a \in DOMAIN log \/ a = Len(log) + 1
           /\ EffectsOf(Append(log, x)) = EffectsOf(log) \cup {x.effect}
<1>1. /\ Append(log, x) \in Seq(Entries)
      /\ Len(log) \in Nat /\ Len(Append(log, x)) = Len(log) + 1
      /\ \A a \in DOMAIN log : a \in DOMAIN Append(log, x) /\ Append(log, x)[a] = log[a]
      /\ \A a \in DOMAIN log : a \in Nat /\ a >= 1 /\ a <= Len(log)
      /\ Len(log) + 1 \in DOMAIN Append(log, x) /\ Append(log, x)[Len(log) + 1] = x
      /\ \A a \in DOMAIN Append(log, x) : a \in DOMAIN log \/ a = Len(log) + 1
  OBVIOUS
<1>2. EffectsOf(Append(log, x)) = EffectsOf(log) \cup {x.effect}
  BY <1>1 DEF EffectsOf, Range
<1> QED BY <1>1, <1>2

(* An entry of a log is of an effect and of an attempt.                         *)
LEMMA EntryFacts ==
    ASSUME NEW log \in Seq(Entries), NEW a \in DOMAIN log
    PROVE  /\ a \in Nat /\ a >= 1 /\ a <= Len(log)
           /\ log[a] \in Entries /\ log[a].effect \in Effects
           /\ log[a].effect \in EffectsOf(log)
<1>1. a \in Nat /\ a >= 1 /\ a <= Len(log) /\ log[a] \in Entries
  OBVIOUS
<1>2. log[a].effect \in Effects
  BY <1>1 DEF Entries
<1>3. log[a].effect \in EffectsOf(log)
  BY DEF EffectsOf, Range
<1> QED BY <1>1, <1>2, <1>3

(* A log stays in order when an effect it does not have is added after all the  *)
(* immediate ones that come before it.                                          *)
LEMMA LogGrows ==
    ASSUME handler \in Handlers, NEW log \in Seq(Entries), LogOK(log),
           NEW x \in Entries, x.effect \notin EffectsOf(log),
           NEW s \in DOMAIN handler, NEW t \in DOMAIN handler[s],
           x.effect = handler[s][t],
           Immediate(x.effect) =>
             \A k \in DOMAIN handler : \A l \in DOMAIN handler[k] :
               Immediate(handler[k][l]) /\ (k < s \/ (k = s /\ l < t)) =>
                 handler[k][l] \in EffectsOf(log)
    PROVE  LogOK(Append(log, x))
<1> DEFINE new == Append(log, x)
<1>1. /\ Len(log) \in Nat
      /\ \A a \in DOMAIN log : a \in DOMAIN new /\ new[a] = log[a]
      /\ \A a \in DOMAIN log : a \in Nat /\ a >= 1 /\ a <= Len(log)
      /\ new[Len(log) + 1] = x
      /\ \A a \in DOMAIN new : a \in DOMAIN log \/ a = Len(log) + 1
  BY Appended
<1>2. \A e \in EffectsOf(log) : \E b \in DOMAIN log : log[b].effect = e
  BY DEF EffectsOf, Range
<1>3. \A b \in DOMAIN log : log[b].effect \in EffectsOf(log)
  BY EntryFacts
<1> HIDE DEF new
<1>4. \A a \in DOMAIN new : \E i \in DOMAIN handler : \E j \in DOMAIN handler[i] :
        new[a].effect = handler[i][j]
  BY <1>1 DEF LogOK
<1>5. \A a, b \in DOMAIN new : new[a].effect = new[b].effect => a = b
  BY <1>1, <1>3 DEF LogOK
<1>6. ASSUME NEW a \in DOMAIN new, NEW i \in DOMAIN handler, NEW j \in DOMAIN handler[i],
             new[a].effect = handler[i][j], Immediate(handler[i][j]),
             NEW k \in DOMAIN handler, NEW l \in DOMAIN handler[k],
             Immediate(handler[k][l]), k < i \/ (k = i /\ l < j)
      PROVE  \E b \in DOMAIN new : b < a /\ new[b].effect = handler[k][l]
  <2>1. CASE a \in DOMAIN log
    <3>1. log[a].effect = handler[i][j]
      BY <1>1, <1>6, <2>1
    <3>2. \E b \in DOMAIN log : b < a /\ log[b].effect = handler[k][l]
      BY <3>1, <2>1, <1>6 DEF LogOK
    <3> QED BY <3>2, <1>1
  <2>2. CASE a = Len(log) + 1
    <3>1. i = s /\ j = t
      BY HandlerFacts, <1>1, <1>6, <2>2
    <3>2. handler[k][l] \in EffectsOf(log)
      BY <3>1, <1>6
    <3>3. PICK b \in DOMAIN log : log[b].effect = handler[k][l]
      BY <3>2, <1>2
    <3>4. b \in DOMAIN new /\ b < a /\ new[b].effect = handler[k][l]
      BY <3>3, <1>1, <2>2
    <3> QED BY <3>4
  <2> QED BY <2>1, <2>2, <1>1
<1>7. LogOK(new)
  BY <1>4, <1>5, <1>6 DEF LogOK
<1> QED BY <1>7 DEF new

(* A recorded value is replayed to the effect it was recorded for: by the key   *)
(* if it is a call's, and by the order of the log if it is not.                 *)
LEMMA Faithful ==
    ASSUME Types, NEW n \in Attempts, LogOK(entries[n]), ReplayInv(n),
           HasNext(n), replaying[n], Matches(Candidate(n), NextEffect(n))
    PROVE  Candidate(n).effect = NextEffect(n)
<1> DEFINE log == entries[n]
           c == cursor[n] + 1
           s == step[n]
           t == started[n] + 1
           early == {log[a].effect : a \in 1 .. cursor[n]}
<1>1. handler \in Handlers /\ log \in Seq(Entries) /\ cursor[n] \in Nat /\ started[n] \in Nat
  BY DEF Types
<1>2. c \in DOMAIN log /\ c \in Nat
  BY <1>1 DEF ReplayInv
<1>3. Candidate(n) = log[c] /\ NextEffect(n) = handler[s][t]
  BY DEF Candidate, NextEffect
<1>4. s \in DOMAIN handler /\ t \in DOMAIN handler[s] /\ handler[s][t] \notin DoneAt(s, started[n])
  BY NextIsNew, <1>3
<1>5. DoneAt(s, started[n]) = early
  BY DEF ReplayInv, done
<1>6. SUFFICES ASSUME Immediate(handler[s][t])
               PROVE  log[c].effect = handler[s][t]
  BY <1>3 DEF Matches, Immediate
<1>7. Immediate(log[c].effect)
  BY <1>3, <1>6 DEF Matches, Immediate
<1>8. PICK i \in DOMAIN handler : \E j \in DOMAIN handler[i] : log[c].effect = handler[i][j]
  BY <1>2 DEF LogOK
<1>9. PICK j \in DOMAIN handler[i] : log[c].effect = handler[i][j]
  BY <1>8
<1>10. /\ i \in Nat /\ j \in Nat /\ s \in Nat /\ t \in Nat
       /\ handler[i][j] \in Effects
  BY HandlerFacts, <1>1, <1>4
<1>11. CASE i < s \/ (i = s /\ j < t)
  <2>1. j < t => j <= started[n]
    BY <1>1, <1>10
  <2>2. handler[i][j] \in DoneAt(s, started[n])
    BY <1>10, <1>11, <2>1 DEF DoneAt
  <2>3. PICK a \in 1 .. cursor[n] : log[a].effect = log[c].effect
    BY <2>2, <1>5, <1>9
  <2>4. a \in DOMAIN log /\ a # c
    BY <1>1, <1>2
  <2> QED BY <2>3, <2>4, <1>2 DEF LogOK
<1>12. CASE s < i \/ (s = i /\ t < j)
  <2>1. \E b \in DOMAIN log : b < c /\ log[b].effect = handler[s][t]
    BY <1>2, <1>4, <1>6, <1>7, <1>9, <1>12 DEF LogOK
  <2>2. PICK b \in DOMAIN log : b < c /\ log[b].effect = handler[s][t]
    BY <2>1
  <2>3. b \in 1 .. cursor[n]
    BY <2>2, <1>1, EntryFacts
  <2> QED BY <2>2, <2>3, <1>4, <1>5
<1>13. (i = s /\ j = t) \/ i < s \/ (i = s /\ j < t) \/ s < i \/ (s = i /\ t < j)
  BY <1>10
<1> QED BY <1>9, <1>11, <1>12, <1>13

-----------------------------------------------------------------------------
(* The invariant at the beginning, and its frame: what a step of one attempt    *)
(* leaves alone                                                                 *)

LEMMA EmptyLog == LogOK(<<>>) /\ Follows(<<>>)
BY DEF LogOK, Follows

LEMMA InitIInv == DurableInit => IInv
<1> SUFFICES ASSUME DurableInit PROVE IInv
  OBVIOUS
<1>1. handler \in Handlers /\ handler \in Seq(Seq(Effects))
  BY HandlerFacts DEF DurableInit
<1>2. Types
  <2>1. Len(handler) \in Nat
    BY <1>1
  <2>2. <<>> \in Seq(Entries)
    OBVIOUS
  <2>3. /\ mode \in [Attempts -> {"none", "run", "completed", "over", "mismatch"}]
        /\ acked \in BOOLEAN /\ overlap \in BOOLEAN
    BY DEF DurableInit
  <2>4. entries \in [Attempts -> Seq(Entries)] /\ store \in Seq(Entries)
    BY <2>2 DEF DurableInit
  <2>5. /\ cursor \in [Attempts -> Nat] /\ replaying \in [Attempts -> BOOLEAN]
        /\ step \in [Attempts -> 1 .. (Len(handler) + 1)]
        /\ started \in [Attempts -> Nat] /\ inflight \in [Attempts -> SUBSET Effects]
        /\ caught \in [Attempts -> SUBSET Effects]
    BY <2>1 DEF DurableInit
  <2> QED BY <1>1, <2>3, <2>4, <2>5 DEF Types
<1>3. LogsInv
  BY EmptyLog DEF DurableInit, LogsInv
<1>4. AttemptInv
  BY DEF DurableInit, AttemptInv, attemptOK, Running, Blank
<1>5. OrderInv
  BY DEF DurableInit, OrderInv, Running
<1> QED BY <1>2, <1>3, <1>4, <1>5 DEF IInv

LEMMA DoneAfter ==
    ASSUME UNCHANGED handler
    PROVE  done' = [k \in Attempts |-> DoneAt(step'[k], started'[k])]
BY DEF done, DoneAt

LEMMA LogsFrame ==
    ASSUME IInv, UNCHANGED handler, NEW n \in Attempts,
           \A k \in Attempts : k # n => entries'[k] = entries[k],
           \A k \in Attempts : caught[k] \subseteq caught'[k],
           LogOK(entries'[n]), Sequential /\ Clean(n) => Follows(entries'[n]),
           LogOK(store'), Sequential /\ Clean(MaxAttempts) => Follows(store')
    PROVE  LogsInv'
<1>1. \A k \in Attempts : LogOK(entries'[k])
  BY DEF IInv, LogsInv
<1>2. Sequential => \A k \in Attempts : Clean(k) => Follows(entries'[k])
  BY DEF IInv, LogsInv
<1>c. \A k \in Attempts : Clean(k)' => Clean(k)
  BY HandlerAssumption DEF Clean, Attempts
<1>m. Clean(MaxAttempts)' => Clean(MaxAttempts)
  BY DEF Clean, Attempts
<1>3. Sequential' <=> Sequential
  BY DEF Sequential
<1>4. LogOK(store)' /\ \A k \in Attempts : LogOK(entries[k])'
  BY <1>1 DEF LogOK
<1>5. /\ Sequential /\ Clean(MaxAttempts)' => Follows(store)'
      /\ Sequential => \A k \in Attempts : Clean(k)' => Follows(entries[k])'
  BY <1>2, <1>c, <1>m DEF Follows
<1> QED BY <1>3, <1>4, <1>5 DEF LogsInv

LEMMA AttemptFrame ==
    ASSUME IInv, UNCHANGED handler, NEW n \in Attempts,
           \A k \in Attempts : k # n =>
             /\ mode'[k] = mode[k] /\ entries'[k] = entries[k] /\ cursor'[k] = cursor[k]
             /\ replaying'[k] = replaying[k] /\ step'[k] = step[k]
             /\ started'[k] = started[k] /\ inflight'[k] = inflight[k]
             /\ caught'[k] = caught[k],
           caught[n] \subseteq caught'[n],
           attemptOK'[n]
    PROVE  AttemptInv'
<1> SUFFICES ASSUME NEW k \in Attempts, k # n
             PROVE  attemptOK'[k]
  BY DEF AttemptInv
<1>1. attemptOK[k]
  BY DEF IInv, AttemptInv
<1>2. done'[k] = done[k]
  BY DoneAfter DEF done
<1>3. /\ Running(k)' <=> Running(k)
      /\ Blank(k)' <=> Blank(k)
  BY DEF Running, Blank
<1>4. ReplayInv(k)' <=> ReplayInv(k)
  BY <1>2 DEF ReplayInv, EffectsOf, Range
<1>5. ProgramInv(k)' <=> ProgramInv(k)
  BY DEF ProgramInv
<1>6. Sequential' <=> Sequential
  BY DEF Sequential
<1>7. PlaceInv(k)' <=> PlaceInv(k)
  BY <1>6 DEF PlaceInv
<1>8. (\E j \in 1 .. (k - 1) : caught[j] # {}) => (\E j \in 1 .. (k - 1) : caught'[j] # {})
  <2> SUFFICES ASSUME NEW j \in 1 .. (k - 1), caught[j] # {} PROVE caught'[j] # {}
    OBVIOUS
  <2>1. j \in Attempts
    BY HandlerAssumption DEF Attempts
  <2> QED BY <2>1
<1> QED BY <1>1, <1>3, <1>4, <1>5, <1>6, <1>7, <1>8 DEF attemptOK

-----------------------------------------------------------------------------
(* Every step keeps the invariant: an attempt begins and ends                   *)

LEMMA BeginKeeps ==
    ASSUME IInv, UNCHANGED job, NEW n \in Attempts, Begin(n)
    PROVE  IInv'
<1>1. /\ mode[n] = "none" /\ ~acked
      /\ \A k \in 1 .. (n - 1) : mode[k] # "none" /\ (overlap \/ mode[k] \notin {"run", "completed"})
      /\ mode' = [mode EXCEPT ![n] = "run"]
      /\ entries' = [entries EXCEPT ![n] = store]
      /\ replaying' = [replaying EXCEPT ![n] = (store # <<>>)]
      /\ cursor' = cursor /\ step' = step /\ started' = started /\ inflight' = inflight
      /\ caught' = caught
      /\ store' = store /\ acked' = acked /\ handler' = handler /\ overlap' = overlap
  BY DEF Begin, Delivered, BeginWith, program, backend, job
<1>2. Types /\ LogsInv /\ attemptOK[n] /\ OrderInv
  BY DEF IInv, AttemptInv
<1>3. /\ mode'[n] = "run" /\ entries'[n] = store /\ replaying'[n] = (store # <<>>)
      /\ store \in Seq(Entries)
  BY <1>1, <1>2 DEF Types
<1>4. /\ cursor[n] = 0 /\ step[n] = 1 /\ started[n] = 0 /\ inflight[n] = {} /\ caught[n] = {}
  BY <1>1, <1>2 DEF attemptOK, Running, Blank
<1>5. Types'
  BY <1>1, <1>2 DEF Types
<1>c. ASSUME Clean(n) PROVE Clean(MaxAttempts)
  <2> SUFFICES ASSUME NEW k \in Attempts PROVE caught[k] = {}
    BY DEF Clean, Attempts
  <2>1. CASE k <= n
    BY <1>c, <2>1 DEF Clean, Attempts
  <2>2. CASE k > n
    <3>1. mode[k] = "none"
      BY <1>1, <1>2, <2>2 DEF OrderInv
    <3> QED BY <3>1 DEF IInv, AttemptInv, attemptOK
  <2> QED BY <2>1, <2>2, HandlerAssumption DEF Attempts
<1>6. LogsInv'
  BY LogsFrame, <1>1, <1>2, <1>3, <1>c DEF LogsInv, Types
<1>7. AttemptInv'
  <2>1. done'[n] = {}
    BY DoneAfter, NothingAtFirst, <1>1, <1>2, <1>4 DEF Types
  <2>2. Len(store) \in Nat /\ (store # <<>> => Len(store) > 0) /\ (store = <<>> => Len(store) = 0)
    BY <1>3
  <2>3. store = <<>> => EffectsOf(store) = {}
    BY DEF EffectsOf, Range
  <2>4. {entries'[n][a].effect : a \in 1 .. cursor'[n]} = {}
    BY <1>1, <1>4
  <2>5. ReplayInv(n)'
    <3>1. CASE store # <<>>
      <4>1. /\ replaying'[n] /\ cursor'[n] = 0 /\ inflight'[n] = {} /\ caught'[n] = {}
            /\ Len(entries'[n]) > 0
        BY <1>1, <1>3, <1>4, <2>2, <3>1
      <4> QED BY <2>1, <2>4, <4>1 DEF ReplayInv
    <3>2. CASE store = <<>>
      <4>1. /\ ~replaying'[n] /\ cursor'[n] = 0 /\ inflight'[n] = {} /\ Len(entries'[n]) = 0
            /\ EffectsOf(entries'[n]) = {} /\ caught'[n] = {}
        BY <1>1, <1>3, <1>4, <2>2, <2>3, <3>2
      <4> QED BY <2>1, <4>1 DEF ReplayInv, EffectsOf, Range
    <3> QED BY <3>1, <3>2
  <2>6. handler \in Seq(Seq(Effects)) /\ Len(handler) \in Nat
    BY HandlerFacts, <1>2 DEF Types
  <2>7. ProgramInv(n)'
    <3>1. 1 <= Len(handler) => Len(handler[1]) \in Nat
      BY <2>6
    <3> QED BY <1>1, <1>4, <2>6, <3>1 DEF ProgramInv
  <2>8. PlaceInv(n)'
    <3>1. /\ cursor'[n] = 0 /\ step'[n] = 1 /\ started'[n] = 0 /\ inflight'[n] = {}
          /\ ~replaying'[n] => Len(entries'[n]) = 0
      BY <1>1, <1>3, <1>4, <2>2
    <3> QED BY <3>1 DEF PlaceInv
  <2>9. attemptOK'[n]
    BY <1>3, <2>5, <2>7, <2>8 DEF attemptOK, Running
  <2> QED BY AttemptFrame, <1>1, <1>2, <2>9 DEF Types
<1>8. OrderInv'
  <2>1. ASSUME NEW j \in Attempts, NEW k \in Attempts, k < j, mode'[j] # "none"
        PROVE  mode'[k] # "none"
    BY <1>1, <1>2, <2>1 DEF OrderInv, Types, Attempts
  <2>2. ASSUME ~overlap, NEW k \in Attempts, k # n
        PROVE  ~Running(k)
    BY <1>1, <1>2, <2>2 DEF OrderInv, Running, Attempts
  <2>3. \A k \in Attempts : k # n => (Running(k)' <=> Running(k))
    BY <1>1, <1>2 DEF Running, Types
  <2> QED BY <1>1, <1>3, <2>1, <2>2, <2>3 DEF OrderInv
<1> QED BY <1>5, <1>6, <1>7, <1>8 DEF IInv

LEMMA BeginFailsKeeps ==
    ASSUME IInv, UNCHANGED job, NEW n \in Attempts, BeginFails(n)
    PROVE  IInv'
<1>1. /\ mode[n] = "none"
      /\ \A k \in 1 .. (n - 1) : mode[k] # "none"
      /\ mode' = [mode EXCEPT ![n] = "over"]
      /\ entries' = entries /\ replaying' = replaying
      /\ cursor' = cursor /\ step' = step /\ started' = started /\ inflight' = inflight
      /\ caught' = caught
      /\ store' = store /\ acked' = acked /\ handler' = handler /\ overlap' = overlap
  BY DEF BeginFails, Delivered, context, program, backend, job
<1>2. Types /\ LogsInv /\ attemptOK[n] /\ OrderInv
  BY DEF IInv, AttemptInv
<1>3. Types'
  BY <1>1, <1>2 DEF Types
<1>4. LogsInv'
  BY LogsFrame, <1>1, <1>2 DEF LogsInv
<1>5. AttemptInv'
  <2>1. mode'[n] = "over" /\ Blank(n)
    BY <1>1, <1>2 DEF attemptOK, Running, Types
  <2>2. attemptOK'[n]
    BY <1>1, <2>1 DEF attemptOK, Running, Blank
  <2> QED BY AttemptFrame, <1>1, <1>2, <2>2 DEF Types
<1>6. OrderInv'
  <2>1. ASSUME NEW j \in Attempts, NEW k \in Attempts, k < j, mode'[j] # "none"
        PROVE  mode'[k] # "none"
    BY <1>1, <1>2, <2>1 DEF OrderInv, Types, Attempts
  <2>2. \A k \in Attempts : Running(k)' => Running(k)
    BY <1>1, <1>2 DEF Running, Types
  <2> QED BY <1>1, <1>2, <2>1, <2>2 DEF OrderInv
<1> QED BY <1>3, <1>4, <1>5, <1>6 DEF IInv

(* The end of an attempt, however it comes.                                     *)
LEMMA EndKeeps ==
    ASSUME IInv, UNCHANGED job, NEW n \in Attempts, Running(n),
           NEW m \in {"over", "mismatch"}, Sequential /\ m = "mismatch" => \E k \in 1 .. (n - 1) : caught[k] # {},
           EndAs(n, m), store' = store, acked' \in BOOLEAN
    PROVE  IInv'
<1>1. /\ mode' = [mode EXCEPT ![n] = m]
      /\ entries' = [entries EXCEPT ![n] = <<>>]
      /\ cursor' = [cursor EXCEPT ![n] = 0]
      /\ replaying' = [replaying EXCEPT ![n] = FALSE]
      /\ step' = [step EXCEPT ![n] = 1]
      /\ started' = [started EXCEPT ![n] = 0]
      /\ inflight' = [inflight EXCEPT ![n] = {}]
      /\ caught' = caught /\ handler' = handler /\ overlap' = overlap
  BY DEF EndAs, job
<1>2. Types /\ LogsInv /\ attemptOK[n] /\ OrderInv
  BY DEF IInv, AttemptInv
<1>3. Types'
  <2>1. Len(handler) \in Nat
    BY HandlerFacts, <1>2 DEF Types
  <2>2. <<>> \in Seq(Entries)
    OBVIOUS
  <2>3. mode' \in [Attempts -> {"none", "run", "completed", "over", "mismatch"}]
    BY <1>1, <1>2 DEF Types
  <2>4. entries' \in [Attempts -> Seq(Entries)]
    BY <1>1, <1>2, <2>2 DEF Types
  <2>5. /\ cursor' \in [Attempts -> Nat] /\ replaying' \in [Attempts -> BOOLEAN]
        /\ step' \in [Attempts -> 1 .. (Len(handler) + 1)]
        /\ started' \in [Attempts -> Nat] /\ inflight' \in [Attempts -> SUBSET Effects]
        /\ caught' \in [Attempts -> SUBSET Effects]
    BY <1>1, <1>2, <2>1 DEF Types
  <2> QED BY <1>1, <1>2, <2>3, <2>4, <2>5 DEF Types
<1>4. /\ mode'[n] = m /\ entries'[n] = <<>> /\ cursor'[n] = 0 /\ replaying'[n] = FALSE
      /\ step'[n] = 1 /\ started'[n] = 0 /\ inflight'[n] = {}
  BY <1>1, <1>2 DEF Types
<1>5. LogsInv'
  BY LogsFrame, EmptyLog, <1>1, <1>2, <1>4 DEF LogsInv, Types
<1>6. AttemptInv'
  <2>1. Sequential' <=> Sequential
    BY <1>1 DEF Sequential
  <2>2. Blank(n)' /\ ~Running(n)'
    BY <1>4 DEF Blank, Running
  <2>3. attemptOK'[n]
    BY <1>1, <1>4, <2>1, <2>2 DEF attemptOK
  <2> QED BY AttemptFrame, <1>1, <1>2, <2>3 DEF Types
<1>7. OrderInv'
  <2>1. ASSUME NEW k \in Attempts
        PROVE  /\ mode'[k] # "none" <=> mode[k] # "none"
               /\ Running(k)' => Running(k) /\ entries'[k] = entries[k]
    BY <1>1, <1>2 DEF Running, Types
  <2> QED BY <1>1, <1>2, <2>1 DEF OrderInv
<1> QED BY <1>3, <1>5, <1>6, <1>7 DEF IInv

-----------------------------------------------------------------------------
(* now, random and side_effect *)

(* Starting the next effect: what has been started, and where the attempt is.   *)
LEMMA Advance ==
    ASSUME Types, UNCHANGED handler, NEW n \in Attempts, HasNext(n),
           started' = [started EXCEPT ![n] = @ + 1], step' = step
    PROVE  /\ done'[n] = done[n] \cup {NextEffect(n)}
           /\ NextEffect(n) \in Effects /\ NextEffect(n) \notin done[n]
           /\ started'[n] = started[n] + 1 /\ started' \in [Attempts -> Nat]
           /\ ProgramInv(n)'
           /\ Sequential => started[n] = 0 /\ Len(handler[step[n]]) = 1
<1>1. step[n] \in DOMAIN handler /\ started[n] + 1 \in DOMAIN handler[step[n]]
  BY NextIsNew
<1>2. /\ step[n] \in Nat /\ step[n] <= Len(handler) /\ started[n] + 1 <= Len(handler[step[n]])
      /\ Len(handler) \in Nat
  BY HandlerFacts, <1>1 DEF Types
<1>3. started'[n] = started[n] + 1 /\ started' \in [Attempts -> Nat] /\ started[n] \in Nat
  BY DEF Types
<1>4. done'[n] = done[n] \cup {NextEffect(n)}
  BY DoneAfter, NextIsNew, <1>3 DEF done
<1>5. NextEffect(n) \in Effects /\ NextEffect(n) \notin done[n]
  BY NextIsNew DEF done
<1>6. ProgramInv(n)'
  BY <1>2, <1>3 DEF ProgramInv
<1>7. Sequential => started[n] = 0 /\ Len(handler[step[n]]) = 1
  BY <1>1, <1>2, <1>3 DEF Sequential
<1> QED BY <1>3, <1>4, <1>5, <1>6, <1>7

LEMMA ReplayKeeps ==
    ASSUME IInv, UNCHANGED job, NEW n \in Attempts, Replay(n)
    PROVE  IInv'
<1>1. /\ mode[n] = "run" /\ HasNext(n) /\ replaying[n] /\ cursor[n] < Len(entries[n])
      /\ Matches(Candidate(n), NextEffect(n))
      /\ started' = [started EXCEPT ![n] = @ + 1]
      /\ cursor' = [cursor EXCEPT ![n] = @ + 1]
      /\ replaying' = [replaying EXCEPT ![n] = cursor[n] + 1 < Len(entries[n])]
      /\ mode' = mode /\ entries' = entries /\ step' = step /\ inflight' = inflight
      /\ caught' = caught
      /\ store' = store /\ acked' = acked /\ handler' = handler /\ overlap' = overlap
  BY DEF Replay, Replays, backend, job
<1>2. Types /\ LogsInv /\ attemptOK[n] /\ OrderInv
  BY DEF IInv, AttemptInv
<1>3. Running(n) /\ ReplayInv(n) /\ ProgramInv(n) /\ PlaceInv(n)
  BY <1>1, <1>2 DEF attemptOK, Running
<1>4. /\ done'[n] = done[n] \cup {NextEffect(n)}
      /\ started'[n] = started[n] + 1 /\ started' \in [Attempts -> Nat]
      /\ ProgramInv(n)'
      /\ Sequential => started[n] = 0 /\ Len(handler[step[n]]) = 1
  BY Advance, <1>1, <1>2
<1>5. Candidate(n).effect = NextEffect(n)
  BY Faithful, <1>1, <1>2, <1>3 DEF LogsInv
<1>6. /\ cursor'[n] = cursor[n] + 1 /\ cursor[n] \in Nat /\ cursor' \in [Attempts -> Nat]
      /\ replaying'[n] <=> cursor[n] + 1 < Len(entries[n])
      /\ replaying' \in [Attempts -> BOOLEAN]
      /\ entries[n] \in Seq(Entries) /\ Len(entries[n]) \in Nat
  <2>1. /\ cursor'[n] = cursor[n] + 1 /\ cursor[n] \in Nat /\ cursor' \in [Attempts -> Nat]
        /\ entries[n] \in Seq(Entries) /\ Len(entries[n]) \in Nat
    BY <1>1, <1>2 DEF Types
  <2>2. (cursor[n] + 1 < Len(entries[n])) \in BOOLEAN
    OBVIOUS
  <2>3. replaying'[n] = (cursor[n] + 1 < Len(entries[n])) /\ replaying' \in [Attempts -> BOOLEAN]
    BY <1>1, <1>2, <2>2, Zenon DEF Types
  <2> QED BY <2>1, <2>3
<1>7. Types'
  BY <1>1, <1>2, <1>4, <1>6 DEF Types
<1>8. LogsInv'
  BY LogsFrame, <1>1, <1>2 DEF LogsInv
<1>9. AttemptInv'
  <2> DEFINE early == {entries[n][a].effect : a \in 1 .. cursor[n]}
             next == {entries[n][a].effect : a \in 1 .. (cursor[n] + 1)}
  <2>1. done[n] = early /\ inflight[n] = {} /\ caught[n] = {}
    BY <1>1, <1>3 DEF ReplayInv
  <2>2. next = early \cup {entries[n][cursor[n] + 1].effect}
    BY <1>6
  <2>3. done'[n] = next
    BY <1>4, <1>5, <2>1, <2>2 DEF Candidate
  <2>4. cursor[n] + 1 = Len(entries[n]) => next = EffectsOf(entries[n])
    BY <1>6 DEF EffectsOf, Range
  <2>5. ~replaying'[n] => cursor[n] + 1 = Len(entries[n])
    BY <1>1, <1>6
  <2>6. ReplayInv(n)'
    <3>1. /\ cursor'[n] <= Len(entries'[n])
          /\ replaying'[n] => cursor'[n] < Len(entries'[n])
          /\ inflight'[n] = {} /\ caught'[n] = {}
      BY <1>1, <1>6, <2>1
    <3>2. done'[n] = {entries'[n][a].effect : a \in 1 .. cursor'[n]}
      BY <1>1, <1>6, <2>3
    <3>3. ~replaying'[n] => done'[n] = EffectsOf(entries[n])
      BY <2>3, <2>4, <2>5
    <3>4. EffectsOf(entries[n])' = EffectsOf(entries[n])
      BY <1>1 DEF EffectsOf, Range
    <3> QED BY <3>1, <3>2, <3>3, <3>4 DEF ReplayInv
  <2>7. Sequential' <=> Sequential
    BY <1>1 DEF Sequential
  <2>8. PlaceInv(n)'
    <3>1. step[n] \in Nat /\ started[n] \in Nat
      BY HandlerFacts, <1>2 DEF Types
    <3> QED BY <1>1, <1>3, <1>4, <1>6, <2>1, <2>5, <2>7, <3>1 DEF PlaceInv
  <2>9. attemptOK'[n]
    BY <1>1, <1>4, <2>6, <2>8 DEF attemptOK, Running
  <2> QED BY AttemptFrame, <1>1, <1>2, <2>9 DEF Types
<1>10. OrderInv'
  BY <1>1, <1>2 DEF OrderInv, Running
<1> QED BY <1>7, <1>8, <1>9, <1>10 DEF IInv

(* Recording an entry: a log that has what the attempt knew and the new entry.  *)
LEMMA AppendKeepsOrder ==
    ASSUME IInv, UNCHANGED job, NEW n \in Attempts, mode[n] = "run", NEW x \in Entries,
           entries' = [entries EXCEPT ![n] = Append(@, x)], mode' = mode, store' = store
    PROVE  OrderInv'
<1>1. Types /\ OrderInv /\ handler' = handler /\ overlap' = overlap
  BY DEF IInv, job
<1>2. \A k \in Attempts : Running(k)' <=> Running(k)
  BY DEF Running
<1>3. ASSUME NEW k \in Attempts, Running(k), ~overlap
      PROVE  /\ Len(store) <= Len(entries'[k])
             /\ \A a \in DOMAIN store : store[a] = entries'[k][a]
  <2>1. /\ Len(store) <= Len(entries[k]) /\ \A a \in DOMAIN store : store[a] = entries[k][a]
        /\ entries[k] \in Seq(Entries) /\ store \in Seq(Entries)
    BY <1>1, <1>3 DEF OrderInv, Types
  <2>2. k = n
    BY <1>1, <1>3 DEF OrderInv, Running
  <2>3. entries'[k] = Append(entries[k], x)
    BY <1>1, <2>2 DEF Types
  <2> QED BY <2>1, <2>3
<1> QED BY <1>1, <1>2, <1>3 DEF OrderInv

(* Of a sequential handler the entry appended has to be the one that follows.   *)
LEMMA FollowsGrows ==
    ASSUME NEW log \in Seq(Entries), Follows(log), NEW x \in Entries,
           Len(log) + 1 \in DOMAIN handler, x.effect = handler[Len(log) + 1][1]
    PROVE  Follows(Append(log, x))
<1> DEFINE new == Append(log, x)
<1>1. /\ \A a \in DOMAIN log : new[a] = log[a]
      /\ new[Len(log) + 1] = x
      /\ \A a \in DOMAIN new : a \in DOMAIN log \/ a = Len(log) + 1
  BY Appended
<1> HIDE DEF new
<1>2. Follows(new)
  BY <1>1 DEF Follows
<1> QED BY <1>2 DEF new

LEMMA RecordValueKeeps ==
    ASSUME IInv, UNCHANGED job, NEW n \in Attempts, RecordValue(n)
    PROVE  IInv'
<1> DEFINE x == Entry(NextEffect(n), n)
           log == entries[n]
<1>1. /\ mode[n] = "run" /\ HasNext(n) /\ ~Replays(n) /\ Immediate(NextEffect(n))
      /\ entries' = [entries EXCEPT ![n] = Append(@, x)]
      /\ replaying' = [replaying EXCEPT ![n] = FALSE]
      /\ started' = [started EXCEPT ![n] = @ + 1]
      /\ mode' = mode /\ cursor' = cursor /\ step' = step /\ inflight' = inflight
      /\ caught' = caught
      /\ store' = store /\ acked' = acked /\ handler' = handler /\ overlap' = overlap
  BY DEF RecordValue, Immediate, backend, job
<1>2. Types /\ LogsInv /\ attemptOK[n] /\ OrderInv
  BY DEF IInv, AttemptInv
<1>3. Running(n) /\ ReplayInv(n) /\ ProgramInv(n) /\ PlaceInv(n)
  BY <1>1, <1>2 DEF attemptOK, Running
<1>4. ~replaying[n]
  BY <1>1, <1>3 DEF ReplayInv, Replays
<1>5. /\ done'[n] = done[n] \cup {NextEffect(n)}
      /\ NextEffect(n) \in Effects /\ NextEffect(n) \notin done[n]
      /\ started'[n] = started[n] + 1 /\ started' \in [Attempts -> Nat]
      /\ ProgramInv(n)'
      /\ Sequential => started[n] = 0 /\ Len(handler[step[n]]) = 1
  BY Advance, <1>1, <1>2
<1>6. /\ done[n] = EffectsOf(log) \cup inflight[n] \cup caught[n]
      /\ EffectsOf(log) \cap inflight[n] = {} /\ \A e \in inflight[n] \cup caught[n] : ~Immediate(e)
      /\ cursor[n] <= Len(log)
  BY <1>3, <1>4 DEF ReplayInv
<1>7. x \in Entries /\ x.effect = NextEffect(n)
  BY <1>5 DEF Entry, Entries
<1>8. /\ log \in Seq(Entries) /\ entries'[n] = Append(log, x) /\ replaying'[n] = FALSE
      /\ entries' \in [Attempts -> Seq(Entries)] /\ cursor[n] \in Nat
  BY <1>1, <1>2, <1>7 DEF Types
<1>9. /\ Len(log) \in Nat /\ Len(entries'[n]) = Len(log) + 1
      /\ EffectsOf(entries'[n]) = EffectsOf(log) \cup {NextEffect(n)}
  BY Appended, <1>7, <1>8
<1>10. /\ step[n] \in DOMAIN handler /\ started[n] + 1 \in DOMAIN handler[step[n]]
       /\ step[n] \in Nat /\ started[n] \in Nat
       /\ NextEffect(n) = handler[step[n]][started[n] + 1]
  BY NextIsNew, HandlerFacts, <1>1, <1>2 DEF Types, NextEffect
<1> HIDE DEF x, log
<1>11. LogOK(entries'[n])
  <2>1. ASSUME NEW k \in DOMAIN handler, NEW l \in DOMAIN handler[k], Immediate(handler[k][l]),
               k < step[n] \/ (k = step[n] /\ l < started[n] + 1)
        PROVE  handler[k][l] \in EffectsOf(log)
    <3>1. l \in Nat /\ handler[k][l] \in Effects
      BY HandlerFacts, <1>2 DEF Types
    <3>2. l < started[n] + 1 => l <= started[n]
      BY <1>10, <3>1
    <3>3. handler[k][l] \in done[n]
      BY <2>1, <3>1, <3>2 DEF done, DoneAt
    <3> QED BY <1>6, <2>1, <3>3
  <2>2. LogOK(log) /\ handler \in Handlers
    BY <1>2 DEF LogsInv, Types, log
  <2>3. x.effect \notin EffectsOf(log)
    BY <1>5, <1>6, <1>7
  <2> QED BY LogGrows, <1>7, <1>8, <1>10, <2>1, <2>2, <2>3
<1>12. Sequential /\ caught[n] = {} =>
         /\ inflight[n] = {} /\ Len(log) + 1 = step[n]
         /\ (Follows(log) => Follows(entries'[n]))
  <2> SUFFICES ASSUME Sequential, caught[n] = {}
               PROVE  /\ inflight[n] = {} /\ Len(log) + 1 = step[n]
                      /\ (Follows(log) => Follows(entries'[n]))
    OBVIOUS
  <2>1. inflight[n] = {}
    BY <1>3, <1>5, <1>10 DEF PlaceInv
  <2>2. Len(log) = (step[n] - 1) + started[n]
    BY <1>3, <1>4, <2>1 DEF PlaceInv, log
  <2>3. started[n] = 0 /\ Len(log) + 1 = step[n]
    BY <1>5, <1>10, <2>2
  <2>5. x.effect = handler[Len(log) + 1][1]
    BY <1>7, <1>10, <2>3
  <2> QED BY FollowsGrows, <1>7, <1>8, <1>10, <2>1, <2>3, <2>5
<1>13. Types'
  BY <1>1, <1>2, <1>5, <1>8 DEF Types
<1>14. LogsInv'
  <2>1. Clean(n) => caught[n] = {}
    BY HandlerAssumption DEF Clean, Attempts
  <2>2. Sequential /\ Clean(n) => Follows(entries'[n])
    BY <1>2, <1>12, <2>1 DEF LogsInv, log
  <2> QED BY LogsFrame, <1>1, <1>2, <1>11, <2>2 DEF LogsInv, Types
<1>15. AttemptInv'
  <2>1. ReplayInv(n)'
    <3>1. /\ cursor'[n] <= Len(entries'[n]) /\ ~replaying'[n]
          /\ done'[n] = EffectsOf(entries'[n]) \cup inflight'[n] \cup caught'[n]
          /\ EffectsOf(entries'[n]) \cap inflight'[n] = {}
          /\ \A e \in inflight'[n] \cup caught'[n] : ~Immediate(e)
      BY <1>1, <1>5, <1>6, <1>8, <1>9
    <3>2. EffectsOf(entries[n])' = EffectsOf(entries'[n])
      BY DEF EffectsOf, Range
    <3>3. \A e \in inflight'[n] \cup caught'[n] : ~Immediate(e)'
      BY <3>1 DEF Immediate
    <3> QED BY <3>1, <3>2, <3>3 DEF ReplayInv
  <2>2. Sequential' <=> Sequential
    BY <1>1 DEF Sequential
  <2>3. PlaceInv(n)'
    BY <1>1, <1>5, <1>8, <1>9, <1>10, <1>12, <2>2 DEF PlaceInv
  <2>4. attemptOK'[n]
    BY <1>1, <1>5, <2>1, <2>3 DEF attemptOK, Running
  <2> QED BY AttemptFrame, <1>1, <1>2, <2>4 DEF Types
<1>16. OrderInv'
  BY AppendKeepsOrder, <1>1, <1>7
<1> QED BY <1>13, <1>14, <1>15, <1>16 DEF IInv

LEMMA CallKeeps ==
    ASSUME IInv, UNCHANGED job, NEW n \in Attempts, Call(n)
    PROVE  IInv'
<1> DEFINE log == entries[n]
<1>1. /\ mode[n] = "run" /\ HasNext(n) /\ ~Replays(n) /\ ~Immediate(NextEffect(n))
      /\ inflight' = [inflight EXCEPT ![n] = @ \cup {NextEffect(n)}]
      /\ replaying' = [replaying EXCEPT ![n] = FALSE]
      /\ started' = [started EXCEPT ![n] = @ + 1]
      /\ mode' = mode /\ cursor' = cursor /\ step' = step /\ entries' = entries
      /\ caught' = caught
      /\ store' = store /\ acked' = acked /\ handler' = handler /\ overlap' = overlap
  BY DEF Call, Immediate, backend, job
<1>2. Types /\ LogsInv /\ attemptOK[n] /\ OrderInv
  BY DEF IInv, AttemptInv
<1>3. Running(n) /\ ReplayInv(n) /\ ProgramInv(n) /\ PlaceInv(n)
  BY <1>1, <1>2 DEF attemptOK, Running
<1>4. ~replaying[n]
  BY <1>1, <1>3 DEF ReplayInv, Replays
<1>5. /\ done'[n] = done[n] \cup {NextEffect(n)}
      /\ NextEffect(n) \in Effects /\ NextEffect(n) \notin done[n]
      /\ started'[n] = started[n] + 1 /\ started' \in [Attempts -> Nat]
      /\ ProgramInv(n)'
      /\ Sequential => started[n] = 0 /\ Len(handler[step[n]]) = 1
  BY Advance, <1>1, <1>2
<1>6. /\ done[n] = EffectsOf(log) \cup inflight[n] \cup caught[n]
      /\ EffectsOf(log) \cap inflight[n] = {} /\ \A e \in inflight[n] \cup caught[n] : ~Immediate(e)
      /\ cursor[n] <= Len(log)
  BY <1>3, <1>4 DEF ReplayInv
<1>7. /\ replaying'[n] = FALSE /\ inflight'[n] = inflight[n] \cup {NextEffect(n)}
      /\ inflight' \in [Attempts -> SUBSET Effects]
  BY <1>1, <1>2, <1>5 DEF Types
<1>8. /\ step[n] \in DOMAIN handler /\ step[n] \in Nat /\ started[n] \in Nat
      /\ NextEffect(n) = handler[step[n]][started[n] + 1]
  BY NextIsNew, HandlerFacts, <1>1, <1>2 DEF Types, NextEffect
<1>9. Types'
  BY <1>1, <1>2, <1>5, <1>7 DEF Types
<1>10. LogsInv'
  BY LogsFrame, <1>1, <1>2 DEF LogsInv
<1>11. AttemptInv'
  <2>1. ReplayInv(n)'
    <3>1. /\ cursor'[n] <= Len(entries'[n]) /\ ~replaying'[n]
          /\ done'[n] = EffectsOf(log) \cup inflight'[n] \cup caught'[n]
          /\ EffectsOf(log) \cap inflight'[n] = {}
          /\ \A e \in inflight'[n] \cup caught'[n] : ~Immediate(e)
      BY <1>1, <1>5, <1>6, <1>7
    <3>2. EffectsOf(entries[n])' = EffectsOf(log)
      BY <1>1 DEF EffectsOf, Range
    <3>3. \A e \in inflight'[n] \cup caught'[n] : ~Immediate(e)'
      BY <3>1 DEF Immediate
    <3> QED BY <3>1, <3>2, <3>3 DEF ReplayInv
  <2>2. Sequential' <=> Sequential
    BY <1>1 DEF Sequential
  <2>3. PlaceInv(n)'
    <3> SUFFICES ASSUME Sequential, caught[n] = {}
                 PROVE  /\ started'[n] = 1 /\ Len(entries'[n]) = step'[n] - 1
                        /\ step'[n] \in DOMAIN handler'
                        /\ inflight'[n] = {handler'[step'[n]][1]}
      BY <1>1, <1>7, <2>2 DEF PlaceInv
    <3>1. inflight[n] = {}
      BY <1>3, <1>5, <1>8 DEF PlaceInv
    <3>2. Len(log) = (step[n] - 1) + started[n]
      BY <1>3, <1>4, <3>1 DEF PlaceInv
    <3> QED BY <1>1, <1>5, <1>7, <1>8, <3>1, <3>2
  <2>4. attemptOK'[n]
    BY <1>1, <1>5, <2>1, <2>3 DEF attemptOK, Running
  <2> QED BY AttemptFrame, <1>1, <1>2, <2>4 DEF Types
<1>12. OrderInv'
  BY <1>1, <1>2 DEF OrderInv, Running
<1> QED BY <1>9, <1>10, <1>11, <1>12 DEF IInv

LEMMA CallReturnsKeeps ==
    ASSUME IInv, UNCHANGED job, NEW n \in Attempts, NEW e \in Effects, CallReturns(n, e)
    PROVE  IInv'
<1> DEFINE x == Entry(e, n)
           log == entries[n]
<1>1. /\ mode[n] = "run" /\ e \in inflight[n]
      /\ entries' = [entries EXCEPT ![n] = Append(@, x)]
      /\ inflight' = [inflight EXCEPT ![n] = @ \ {e}]
      /\ mode' = mode /\ cursor' = cursor /\ step' = step /\ replaying' = replaying
      /\ started' = started /\ caught' = caught
      /\ store' = store /\ acked' = acked /\ handler' = handler /\ overlap' = overlap
  BY DEF CallReturns, backend, job
<1>2. Types /\ LogsInv /\ attemptOK[n] /\ OrderInv
  BY DEF IInv, AttemptInv
<1>3. Running(n) /\ ReplayInv(n) /\ ProgramInv(n) /\ PlaceInv(n)
  BY <1>1, <1>2 DEF attemptOK, Running
<1>4. ~replaying[n]
  BY <1>1, <1>3 DEF ReplayInv
<1>5. done'[n] = done[n]
  BY DoneAfter, <1>1 DEF done
<1>6. /\ done[n] = EffectsOf(log) \cup inflight[n] \cup caught[n]
      /\ EffectsOf(log) \cap inflight[n] = {} /\ \A f \in inflight[n] \cup caught[n] : ~Immediate(f)
      /\ cursor[n] <= Len(log)
  BY <1>3, <1>4 DEF ReplayInv
<1>7. x \in Entries /\ x.effect = e
  BY DEF Entry, Entries
<1>8. /\ log \in Seq(Entries) /\ entries'[n] = Append(log, x)
      /\ entries' \in [Attempts -> Seq(Entries)] /\ cursor[n] \in Nat
      /\ inflight'[n] = inflight[n] \ {e} /\ inflight' \in [Attempts -> SUBSET Effects]
  BY <1>1, <1>2, <1>7 DEF Types
<1>9. /\ Len(log) \in Nat /\ Len(entries'[n]) = Len(log) + 1
      /\ EffectsOf(entries'[n]) = EffectsOf(log) \cup {e}
  BY Appended, <1>7, <1>8
<1>10. \E s \in DOMAIN handler : \E t \in DOMAIN handler[s] : e = handler[s][t]
  BY <1>1, <1>6 DEF done, DoneAt
<1> HIDE DEF x, log
<1>11. LogOK(entries'[n])
  <2>1. PICK s \in DOMAIN handler : \E t \in DOMAIN handler[s] : e = handler[s][t]
    BY <1>10
  <2>2. PICK t \in DOMAIN handler[s] : e = handler[s][t]
    BY <2>1
  <2>3. LogOK(log) /\ handler \in Handlers
    BY <1>2 DEF LogsInv, Types, log
  <2>4. e \notin EffectsOf(log) /\ ~Immediate(e)
    BY <1>1, <1>6
  <2> QED BY LogGrows, <1>7, <1>8, <2>2, <2>3, <2>4
<1>12. Sequential /\ caught[n] = {} =>
         /\ inflight'[n] = {} /\ Len(log) + 1 = step[n] /\ started[n] = 1
         /\ (Follows(log) => Follows(entries'[n]))
  <2> SUFFICES ASSUME Sequential, caught[n] = {}
               PROVE  /\ inflight'[n] = {} /\ Len(log) + 1 = step[n] /\ started[n] = 1
                      /\ (Follows(log) => Follows(entries'[n]))
    OBVIOUS
  <2>1. /\ started[n] = 1 /\ Len(log) = step[n] - 1
        /\ step[n] \in DOMAIN handler /\ inflight[n] = {handler[step[n]][1]}
    BY <1>1, <1>3 DEF PlaceInv, log
  <2>2. Len(log) + 1 = step[n]
    BY <1>9, <2>1, HandlerFacts, <1>2 DEF Types
  <2>4. e = handler[step[n]][1]
    BY <1>1, <2>1
  <2>5. Follows(log) => Follows(entries'[n])
    BY FollowsGrows, <1>7, <1>8, <2>1, <2>2, <2>4
  <2> QED BY <1>8, <2>1, <2>2, <2>4, <2>5
<1>13. Types'
  BY <1>1, <1>2, <1>8 DEF Types
<1>14. LogsInv'
  <2>1. Clean(n) => caught[n] = {}
    BY HandlerAssumption DEF Clean, Attempts
  <2>2. Sequential /\ Clean(n) => Follows(entries'[n])
    BY <1>2, <1>12, <2>1 DEF LogsInv, log
  <2> QED BY LogsFrame, <1>1, <1>2, <1>11, <2>2 DEF LogsInv, Types
<1>15. AttemptInv'
  <2>1. ReplayInv(n)'
    <3>1. /\ cursor'[n] <= Len(entries'[n]) /\ ~replaying'[n]
          /\ done'[n] = EffectsOf(entries'[n]) \cup inflight'[n] \cup caught'[n]
          /\ EffectsOf(entries'[n]) \cap inflight'[n] = {}
          /\ \A f \in inflight'[n] \cup caught'[n] : ~Immediate(f)
      BY <1>1, <1>4, <1>5, <1>6, <1>8, <1>9
    <3>2. EffectsOf(entries[n])' = EffectsOf(entries'[n])
      BY DEF EffectsOf, Range
    <3>3. \A f \in inflight'[n] \cup caught'[n] : ~Immediate(f)'
      BY <3>1 DEF Immediate
    <3> QED BY <3>1, <3>2, <3>3 DEF ReplayInv
  <2>2. Sequential' <=> Sequential
    BY <1>1 DEF Sequential
  <2>3. step[n] \in Nat
    BY HandlerFacts, <1>2 DEF Types
  <2>4. PlaceInv(n)'
    BY <1>1, <1>4, <1>9, <1>12, <2>2, <2>3 DEF PlaceInv
  <2>5. ProgramInv(n)'
    BY <1>1, <1>3 DEF ProgramInv
  <2>6. attemptOK'[n]
    BY <1>1, <2>1, <2>4, <2>5 DEF attemptOK, Running
  <2> QED BY AttemptFrame, <1>1, <1>2, <2>6 DEF Types
<1>16. OrderInv'
  BY AppendKeepsOrder, <1>1, <1>7
<1> QED BY <1>13, <1>14, <1>15, <1>16 DEF IInv

LEMMA CallRaisesKeeps ==
    ASSUME IInv, UNCHANGED job, NEW n \in Attempts, NEW e \in Effects, CallRaises(n, e)
    PROVE  IInv'
<1>1. /\ mode[n] = "run" /\ e \in inflight[n]
      /\ inflight' = [inflight EXCEPT ![n] = @ \ {e}]
      /\ caught' = [caught EXCEPT ![n] = @ \cup {e}]
      /\ mode' = mode /\ entries' = entries /\ cursor' = cursor /\ step' = step
      /\ replaying' = replaying /\ started' = started
      /\ store' = store /\ acked' = acked /\ handler' = handler /\ overlap' = overlap
  BY DEF CallRaises, context, backend, job
<1>2. Types /\ LogsInv /\ attemptOK[n] /\ OrderInv
  BY DEF IInv, AttemptInv
<1>3. Running(n) /\ ReplayInv(n) /\ ProgramInv(n)
  BY <1>1, <1>2 DEF attemptOK, Running
<1>4. ~replaying[n]
  BY <1>1, <1>3 DEF ReplayInv
<1>5. done'[n] = done[n]
  BY DoneAfter, <1>1 DEF done
<1>6. /\ inflight'[n] = inflight[n] \ {e} /\ caught'[n] = caught[n] \cup {e}
      /\ inflight' \in [Attempts -> SUBSET Effects] /\ caught' \in [Attempts -> SUBSET Effects]
  BY <1>1, <1>2 DEF Types
<1>7. \A k \in Attempts :
        /\ caught[k] \subseteq caught'[k]
        /\ k # n => inflight'[k] = inflight[k] /\ caught'[k] = caught[k]
  BY <1>1, <1>2 DEF Types
<1>8. Types'
  BY <1>1, <1>2, <1>6 DEF Types
<1>9. LogsInv'
  BY LogsFrame, <1>1, <1>2, <1>7 DEF LogsInv
<1>10. AttemptInv'
  <2>1. ReplayInv(n)'
    <3>1. /\ cursor[n] <= Len(entries[n])
          /\ done[n] = EffectsOf(entries[n]) \cup inflight[n] \cup caught[n]
          /\ EffectsOf(entries[n]) \cap inflight[n] = {}
          /\ \A f \in inflight[n] \cup caught[n] : ~Immediate(f)
      BY <1>3, <1>4 DEF ReplayInv
    <3>2. /\ inflight'[n] \cup caught'[n] = inflight[n] \cup caught[n]
          /\ inflight'[n] \subseteq inflight[n]
      BY <1>1, <1>6
    <3>3. /\ done'[n] = EffectsOf(entries[n]) \cup inflight'[n] \cup caught'[n]
          /\ EffectsOf(entries[n]) \cap inflight'[n] = {}
          /\ \A f \in inflight'[n] \cup caught'[n] : ~Immediate(f)
      BY <1>5, <3>1, <3>2
    <3>4. EffectsOf(entries[n])' = EffectsOf(entries[n])
      BY <1>1 DEF EffectsOf, Range
    <3>5. \A f \in inflight'[n] \cup caught'[n] : ~Immediate(f)'
      BY <3>3 DEF Immediate
    <3> QED BY <1>1, <1>4, <3>1, <3>3, <3>4, <3>5 DEF ReplayInv
  <2>2. ProgramInv(n)' /\ Running(n)'
    BY <1>1, <1>3 DEF ProgramInv, Running
  <2>3. caught'[n] # {}
    BY <1>6
  <2>4. attemptOK'[n]
    BY <1>1, <2>1, <2>2, <2>3 DEF attemptOK, PlaceInv
  <2> QED BY AttemptFrame, <1>1, <1>2, <1>7, <2>4 DEF Types
<1>11. OrderInv'
  BY <1>1, <1>2 DEF OrderInv, Running
<1> QED BY <1>8, <1>9, <1>10, <1>11 DEF IInv

-----------------------------------------------------------------------------
(* checkpoint, complete and the end of the handler                              *)

LEMMA NextStepKeeps ==
    ASSUME IInv, UNCHANGED job, NEW n \in Attempts, NextStep(n)
    PROVE  IInv'
<1>1. /\ mode[n] = "run" /\ started[n] > 0 /\ ~HasNext(n) /\ Awaited(n)
      /\ step' = [step EXCEPT ![n] = @ + 1] /\ started' = [started EXCEPT ![n] = 0]
      /\ mode' = mode /\ entries' = entries /\ cursor' = cursor /\ replaying' = replaying
      /\ inflight' = inflight /\ caught' = caught
      /\ store' = store /\ acked' = acked /\ handler' = handler /\ overlap' = overlap
  BY DEF NextStep, BetweenSteps, context, backend, job
<1>2. Types /\ LogsInv /\ attemptOK[n] /\ OrderInv
  BY DEF IInv, AttemptInv
<1>3. Running(n) /\ ReplayInv(n) /\ ProgramInv(n) /\ PlaceInv(n)
  BY <1>1, <1>2 DEF attemptOK, Running
<1>4. handler \in Handlers /\ handler \in Seq(Seq(Effects)) /\ Len(handler) \in Nat
  BY HandlerFacts, <1>2 DEF Types
<1>5. step[n] \in 1 .. (Len(handler) + 1) /\ started[n] \in Nat
  BY <1>2 DEF Types
<1>6. step[n] \in DOMAIN handler /\ step[n] <= Len(handler)
  BY <1>1, <1>3, <1>4, <1>5 DEF ProgramInv
<1>7. started[n] = Len(handler[step[n]])
  <2>1. Len(handler[step[n]]) \in Nat
    BY <1>4, <1>6
  <2> QED BY <1>1, <1>3, <1>5, <1>6, <2>1 DEF ProgramInv, HasNext
<1>8. /\ step'[n] = step[n] + 1 /\ started'[n] = 0
      /\ step' \in [Attempts -> 1 .. (Len(handler) + 1)] /\ started' \in [Attempts -> Nat]
  BY <1>1, <1>2, <1>4, <1>5, <1>6 DEF Types
<1>9. done'[n] = done[n]
  BY DoneAfter, StepBoundary, <1>1, <1>4, <1>6, <1>7, <1>8 DEF done
<1>10. Types'
  BY <1>1, <1>2, <1>8 DEF Types
<1>11. LogsInv'
  BY LogsFrame, <1>1, <1>2 DEF LogsInv
<1>12. AttemptInv'
  <2>1. ReplayInv(n)'
    <3>1. EffectsOf(entries[n])' = EffectsOf(entries[n])
      BY <1>1 DEF EffectsOf, Range
    <3> QED BY <1>1, <1>3, <1>9, <3>1 DEF ReplayInv
  <2>2. ProgramInv(n)'
    <3>1. step[n] + 1 <= Len(handler) => Len(handler[step[n] + 1]) \in Nat
      BY <1>4, <1>5
    <3> QED BY <1>1, <1>4, <1>8, <3>1 DEF ProgramInv
  <2>3. Sequential' <=> Sequential
    BY <1>1 DEF Sequential
  <2>4. Sequential => started[n] = 1
    BY <1>6, <1>7 DEF Sequential
  <2>n. Sequential /\ caught[n] = {} => inflight[n] = {}
    <3> SUFFICES ASSUME Sequential, caught[n] = {}, inflight[n] # {} PROVE FALSE
      OBVIOUS
    <3>1. inflight[n] = {handler[step[n]][1]}
      BY <1>3 DEF PlaceInv
    <3>2. 1 \in DOMAIN handler[step[n]]
      BY <1>4, <1>5, <1>6, <1>7, <2>4
    <3>3. handler[step[n]][1] \in Range(handler[step[n]])
      BY <3>2 DEF Range
    <3> QED BY <1>1, <3>1, <3>3 DEF Awaited
  <2>5. PlaceInv(n)'
    BY <1>1, <1>3, <1>5, <1>8, <2>3, <2>4, <2>n DEF PlaceInv
  <2>6. attemptOK'[n]
    BY <1>1, <2>1, <2>2, <2>5 DEF attemptOK, Running
  <2> QED BY AttemptFrame, <1>1, <1>2, <2>6 DEF Types
<1>13. OrderInv'
  BY <1>1, <1>2 DEF OrderInv, Running
<1> QED BY <1>10, <1>11, <1>12, <1>13 DEF IInv

(* The variables a step of the backend leaves alone, and what they say.         *)
LEMMA SameAttempts ==
    ASSUME IInv, UNCHANGED job, NEW n \in Attempts, UNCHANGED <<context, program>>,
           mode[n] = "run", mode' = [mode EXCEPT ![n] = mode'[n]],
           mode'[n] \in {"run", "completed"}
    PROVE  AttemptInv'
<1>1. /\ entries' = entries /\ cursor' = cursor /\ replaying' = replaying
      /\ step' = step /\ started' = started /\ inflight' = inflight /\ handler' = handler
      /\ caught' = caught
  BY DEF context, program, job
<1>2. Types /\ attemptOK[n]
  BY DEF IInv, AttemptInv
<1>3. ReplayInv(n) /\ ProgramInv(n) /\ PlaceInv(n)
  BY <1>2 DEF attemptOK, Running
<1>4. done'[n] = done[n]
  BY DoneAfter, <1>1 DEF done
<1>5. ReplayInv(n)' /\ ProgramInv(n)' /\ PlaceInv(n)'
  <2>1. EffectsOf(entries[n])' = EffectsOf(entries[n])
    BY <1>1 DEF EffectsOf, Range
  <2>2. Sequential' <=> Sequential
    BY <1>1 DEF Sequential
  <2> QED BY <1>1, <1>3, <1>4, <2>1, <2>2 DEF ReplayInv, ProgramInv, PlaceInv
<1>6. attemptOK'[n]
  BY <1>5 DEF attemptOK, Running
<1> QED BY AttemptFrame, <1>1, <1>2, <1>6 DEF Types

LEMMA CheckpointKeeps ==
    ASSUME IInv, UNCHANGED job, NEW n \in Attempts, Checkpoint(n)
    PROVE  IInv'
<1>1. /\ mode[n] = "run" /\ store' = entries[n] /\ mode' = mode
      /\ UNCHANGED <<context, program>>
      /\ entries' = entries /\ cursor' = cursor /\ replaying' = replaying
      /\ step' = step /\ started' = started /\ inflight' = inflight
      /\ caught' = caught
      /\ acked' = acked /\ handler' = handler /\ overlap' = overlap
  BY DEF Checkpoint, BetweenSteps, context, program, job
<1>2. Types /\ LogsInv /\ OrderInv
  BY DEF IInv
<1>3. Types'
  BY <1>1, <1>2 DEF Types
<1>4. LogsInv'
  <2>1. Clean(MaxAttempts) => Clean(n)
    BY HandlerAssumption DEF Clean, Attempts
  <2> QED BY LogsFrame, <1>1, <1>2, <2>1 DEF LogsInv
<1>5. AttemptInv'
  <2>1. mode' = [mode EXCEPT ![n] = mode'[n]] /\ mode'[n] \in {"run", "completed"}
    BY <1>1, <1>2 DEF Types
  <2> QED BY SameAttempts, <1>1, <2>1
<1>6. OrderInv'
  <2>1. Len(entries[n]) \in Nat
    BY <1>2 DEF Types
  <2>2. ~overlap => \A k \in Attempts : Running(k) => k = n
    BY <1>1, <1>2 DEF OrderInv, Running
  <2> QED BY <1>1, <1>2, <2>1, <2>2 DEF OrderInv, Running
<1> QED BY <1>3, <1>4, <1>5, <1>6 DEF IInv

LEMMA CompleteKeeps ==
    ASSUME IInv, UNCHANGED job, NEW n \in Attempts, Complete(n)
    PROVE  IInv'
<1>1. /\ mode[n] = "run" /\ store' = <<>> /\ mode' = [mode EXCEPT ![n] = "completed"]
      /\ UNCHANGED <<context, program>>
      /\ entries' = entries /\ cursor' = cursor /\ replaying' = replaying
      /\ step' = step /\ started' = started /\ inflight' = inflight
      /\ caught' = caught
      /\ acked' = acked /\ handler' = handler /\ overlap' = overlap
  BY DEF Complete, context, program, job
<1>2. Types /\ LogsInv /\ OrderInv
  BY DEF IInv
<1>3. mode'[n] = "completed"
  BY <1>1, <1>2 DEF Types
<1>4. Types'
  <2>1. <<>> \in Seq(Entries)
    OBVIOUS
  <2> QED BY <1>1, <1>2, <2>1 DEF Types
<1>5. LogsInv'
  BY LogsFrame, EmptyLog, <1>1, <1>2 DEF LogsInv
<1>6. AttemptInv'
  BY SameAttempts, <1>1, <1>3
<1>7. OrderInv'
  <2>1. ASSUME NEW k \in Attempts
        PROVE  /\ mode'[k] # "none" <=> mode[k] # "none"
               /\ Running(k)' <=> Running(k)
               /\ entries[k] \in Seq(Entries) /\ Len(entries[k]) \in Nat
    BY <1>1, <1>2 DEF Running, Types
  <2> QED BY <1>1, <1>2, <2>1 DEF OrderInv
<1> QED BY <1>4, <1>5, <1>6, <1>7 DEF IInv

-----------------------------------------------------------------------------
(* A sequential attempt finds at the cursor the entry of its next effect, if no *)
(* attempt before it went on past a side effect that raised.                    *)
LEMMA NoMismatch ==
    ASSUME IInv, NEW n \in Attempts, ReplayMismatch(n)
    PROVE  Sequential => \E k \in 1 .. (n - 1) : caught[k] # {}
<1> SUFFICES ASSUME Sequential, \A k \in 1 .. (n - 1) : caught[k] = {} PROVE FALSE
  OBVIOUS
<1> DEFINE log == entries[n]
<1>1. /\ mode[n] = "run" /\ HasNext(n) /\ replaying[n] /\ cursor[n] < Len(log)
      /\ ~Matches(Candidate(n), NextEffect(n))
  BY DEF ReplayMismatch, Replays
<1>2. Types /\ LogsInv /\ attemptOK[n]
  BY DEF IInv, AttemptInv
<1>c. caught[n] = {} /\ Clean(n)
  <2>1. caught[n] = {}
    BY <1>1, <1>2 DEF attemptOK, Running, ReplayInv
  <2> QED BY <2>1, HandlerAssumption DEF Clean, Attempts
<1>3. PlaceInv(n)
  BY <1>1, <1>2 DEF attemptOK, Running
<1>4. /\ step[n] \in DOMAIN handler /\ started[n] + 1 \in DOMAIN handler[step[n]]
      /\ handler \in Handlers /\ started[n] \in Nat
  BY NextIsNew, <1>1, <1>2 DEF Types
<1>5. step[n] \in Nat /\ started[n] + 1 <= Len(handler[step[n]])
  BY HandlerFacts, <1>4
<1>6. Len(handler[step[n]]) = 1
  BY <1>4 DEF Sequential
<1>7. started[n] = 0
  BY <1>4, <1>5, <1>6
<1>8. cursor[n] + 1 = step[n]
  BY <1>1, <1>3, <1>5, <1>7, <1>c DEF PlaceInv
<1>9. cursor[n] + 1 \in DOMAIN log
  BY <1>1, <1>2 DEF Types
<1>10. log[cursor[n] + 1].effect = handler[step[n]][1]
  BY <1>2, <1>8, <1>9, <1>c DEF LogsInv, Follows
<1>11. Candidate(n).effect = NextEffect(n)
  BY <1>7, <1>10 DEF Candidate, NextEffect
<1> QED BY <1>1, <1>11 DEF Matches

(* Every step keeps the invariant.                                              *)
LEMMA StepIInv == IInv /\ [DurableNext]_durableVars => IInv'
<1> SUFFICES ASSUME IInv, [DurableNext]_durableVars
             PROVE  IInv'
  OBVIOUS
<1>1. CASE UNCHANGED durableVars
  <2>1. /\ mode' = mode /\ entries' = entries /\ cursor' = cursor /\ replaying' = replaying
        /\ step' = step /\ started' = started /\ inflight' = inflight
        /\ caught' = caught
        /\ store' = store /\ acked' = acked /\ handler' = handler /\ overlap' = overlap
    BY <1>1 DEF durableVars, job, context, program, backend
  <2>2. Types' /\ OrderInv'
    BY <2>1 DEF IInv, Types, OrderInv, Running
  <2>3. LogsInv'
    BY <2>1 DEF IInv, LogsInv, LogOK, Follows, Sequential, Immediate, Clean
  <2>4. done' = done
    BY <2>1 DEF done, DoneAt
  <2>5. attemptOK' = attemptOK
    BY <2>1, <2>4 DEF attemptOK, ReplayInv, ProgramInv, PlaceInv, Blank, Running,
                      Sequential, EffectsOf, Range, Immediate
  <2>6. AttemptInv'
    BY <2>5 DEF IInv, AttemptInv
  <2> QED BY <2>2, <2>3, <2>6 DEF IInv
<1>2. CASE DurableNext
  <2>1. PICK n \in Attempts : AttemptStep(n) /\ UNCHANGED job
    BY <1>2 DEF DurableNext
  <2>2. CASE Begin(n)
    BY BeginKeeps, <2>1, <2>2
  <2>3. CASE BeginFails(n)
    BY BeginFailsKeeps, <2>1, <2>3
  <2>4. CASE Crash(n)
    <3>1. Running(n) /\ EndAs(n, "over") /\ store' = store /\ acked' = acked
      BY <2>4 DEF Crash, Running, backend
    <3>2. acked' \in BOOLEAN
      BY <3>1 DEF IInv, Types
    <3> QED BY EndKeeps, <2>1, <3>1, <3>2
  <2>5. CASE Replay(n)
    BY ReplayKeeps, <2>1, <2>5
  <2>6. CASE ReplayMismatch(n)
    <3>1. Running(n) /\ EndAs(n, "mismatch") /\ store' = store /\ acked' = acked
      BY <2>6 DEF ReplayMismatch, Running, backend
    <3>2. acked' \in BOOLEAN
      BY <3>1 DEF IInv, Types
    <3>3. Sequential => \E k \in 1 .. (n - 1) : caught[k] # {}
      BY NoMismatch, <2>6
    <3> QED BY EndKeeps, <2>1, <3>1, <3>2, <3>3
  <2>7. CASE RecordValue(n)
    BY RecordValueKeeps, <2>1, <2>7
  <2>8. CASE Call(n)
    BY CallKeeps, <2>1, <2>8
  <2>9. CASE \E e \in Effects : CallReturns(n, e) \/ CallRaises(n, e)
    BY CallReturnsKeeps, CallRaisesKeeps, <2>1, <2>9
  <2>10. CASE NextStep(n)
    BY NextStepKeeps, <2>1, <2>10
  <2>11. CASE Checkpoint(n)
    BY CheckpointKeeps, <2>1, <2>11
  <2>12. CASE Complete(n)
    BY CompleteKeeps, <2>1, <2>12
  <2>13. CASE Ack(n)
    <3>1. Running(n) /\ EndAs(n, "over") /\ store' = store /\ acked' = TRUE
      BY <2>13 DEF Ack, Running
    <3> QED BY EndKeeps, <2>1, <3>1
  <2> QED BY <2>1, <2>2, <2>3, <2>4, <2>5, <2>6, <2>7, <2>8, <2>9, <2>10, <2>11, <2>12,
             <2>13 DEF AttemptStep
<1> QED BY <1>1, <1>2

(* In every state the logs are in the order of the handler, what an attempt has *)
(* started it has replayed, recorded, in flight or seen raise, and what is      *)
(* checkpointed is the beginning of what the one attempt that runs knows.       *)
THEOREM DurableInvariance == DurableSpec => []IInv
BY InitIInv, StepIInv, PTL DEF DurableSpec

-----------------------------------------------------------------------------
(* What it is for *)

(* A handler that awaits each effect before the next is not refused its own log *)
(* over any number of attempts, crashes, checkpoints and overlaps, before one   *)
(* of them went on past a side effect that raised.                              *)
THEOREM SequentialIsAccepted == DurableSpec => []SequentialAccepted
<1>1. IInv => SequentialAccepted
  <2> SUFFICES ASSUME IInv PROVE SequentialAccepted
    OBVIOUS
  <2>1. Types /\ LogsInv /\ AttemptInv
    BY DEF IInv
  <2>2. ASSUME NEW n \in Attempts
        PROVE  /\ \A i \in DOMAIN entries[n] :
                     entries[n][i] \in [effect : Effects, by : Attempts]
               /\ \A i, j \in DOMAIN entries[n] :
                     entries[n][i].effect = entries[n][j].effect => i = j
               /\ cursor[n] \in 0 .. Len(entries[n])
    <3>1. entries[n] \in Seq(Entries) /\ LogOK(entries[n]) /\ attemptOK[n] /\ cursor[n] \in Nat
      BY <2>1 DEF Types, LogsInv, AttemptInv
    <3>2. \A i \in DOMAIN entries[n] : entries[n][i] \in Entries
      BY <3>1
    <3>3. \A i, j \in DOMAIN entries[n] :
            entries[n][i].effect = entries[n][j].effect => i = j
      BY <3>1 DEF LogOK
    <3>4. cursor[n] \in 0 .. Len(entries[n])
      BY <3>1 DEF attemptOK, Blank, ReplayInv
    <3> QED BY <3>2, <3>3, <3>4 DEF Entries
  <2>3. DurableTypeOK
    BY <2>1, <2>2 DEF Types, DurableTypeOK
  <2>4. Sequential => \A n \in Attempts :
          mode[n] = "mismatch" => \E k \in 1 .. (n - 1) : caught[k] # {}
    BY <2>1 DEF AttemptInv, attemptOK
  <2> QED BY <2>3, <2>4 DEF SequentialAccepted
<1> QED BY DurableInvariance, <1>1, PTL

(* No effect is given the value another effect recorded.                        *)
THEOREM ReplayIsFaithful == DurableSpec => ReplayFaithful
<1>1. ASSUME IInv, [DurableNext]_durableVars
      PROVE  [\A n \in Attempts :
                cursor'[n] > cursor[n] => Candidate(n).effect = NextEffect(n)]_durableVars
  <2> SUFFICES ASSUME DurableNext, NEW m \in Attempts, cursor'[m] > cursor[m]
               PROVE  Candidate(m).effect = NextEffect(m)
    BY <1>1
  <2>1. Types /\ LogsInv /\ attemptOK[m] /\ cursor[m] \in Nat
    BY <1>1 DEF IInv, AttemptInv, Types
  <2>2. PICK n \in Attempts : AttemptStep(n)
    BY DEF DurableNext
  <2>3. CASE Replay(n)
    <3>1. n = m
      BY <2>1, <2>3 DEF Replay, Types
    <3>2. /\ mode[m] = "run" /\ HasNext(m) /\ replaying[m]
          /\ Matches(Candidate(m), NextEffect(m))
      BY <2>3, <3>1 DEF Replay, Replays
    <3>3. ReplayInv(m)
      BY <2>1, <3>2 DEF attemptOK, Running
    <3> QED BY Faithful, <2>1, <3>2, <3>3 DEF LogsInv
  <2>4. CASE ~Replay(n)
    <3>1. CASE cursor' = cursor
      BY <2>1, <3>1
    <3>2. CASE \E r \in {"over", "mismatch"} : EndAs(n, r)
      BY <2>1, <3>2 DEF EndAs, Types
    <3> QED BY <2>2, <2>4, <3>1, <3>2
          DEF AttemptStep, Begin, BeginFails, Crash, ReplayMismatch, RecordValue, Call,
              CallReturns, CallRaises, NextStep, Checkpoint, Complete, Ack, context, program, backend
  <2> QED BY <2>3, <2>4
<1> QED BY DurableInvariance, <1>1, PTL DEF DurableSpec, ReplayFaithful

(* A log that begins with another one, in the terms of SubSeq.                  *)
LEMMA Beginning ==
    ASSUME NEW log \in Seq(Entries), NEW old \in Seq(Entries), Len(old) <= Len(log),
           \A a \in DOMAIN old : old[a] = log[a]
    PROVE  SubSeq(log, 1, Len(old)) = old
<1> DEFINE new == SubSeq(log, 1, Len(old))
<1>1. Len(old) \in Nat /\ Len(log) \in Nat
  OBVIOUS
<1>2. new \in Seq(Entries) /\ Len(new) = Len(old)
  BY <1>1
<1>3. \A a \in 1 .. Len(old) : new[a] = old[a]
  BY <1>1
<1> HIDE DEF new
<1>4. new = old
  BY <1>2, <1>3
<1> QED BY <1>4 DEF new

(* What a checkpoint holds is neither lost nor done again: the attempt that     *)
(* writes the next one, or starts a call, knows all of it.                      *)
THEOREM CheckpointIsKept == DurableSpec => CheckpointKept
<1>1. ASSUME IInv, [DurableNext]_durableVars
      PROVE  [\/ overlap
              \/ Len(store') >= Len(store) /\ SubSeq(store', 1, Len(store)) = store
              \/ store' = <<>> /\ \E n \in Attempts : step[n] > Len(handler)]_durableVars
  <2> SUFFICES ASSUME DurableNext, ~overlap
               PROVE  \/ Len(store') >= Len(store) /\ SubSeq(store', 1, Len(store)) = store
                      \/ store' = <<>> /\ \E n \in Attempts : step[n] > Len(handler)
    BY <1>1
  <2>1. Types /\ OrderInv /\ store \in Seq(Entries) /\ Len(store) \in Nat
    BY <1>1 DEF IInv, Types
  <2>2. PICK n \in Attempts : AttemptStep(n)
    BY DEF DurableNext
  <2>3. CASE store' = store
    BY Beginning, <2>1, <2>3
  <2>4. CASE Checkpoint(n)
    <3>1. Running(n) /\ store' = entries[n] /\ entries[n] \in Seq(Entries)
      BY <2>1, <2>4 DEF Checkpoint, BetweenSteps, Running, Types
    <3>2. Len(store) <= Len(entries[n]) /\ \A a \in DOMAIN store : store[a] = entries[n][a]
      BY <2>1, <3>1 DEF OrderInv
    <3>3. Len(entries[n]) \in Nat
      BY <3>1
    <3> QED BY Beginning, <2>1, <3>1, <3>2, <3>3
  <2>5. CASE Complete(n)
    BY <2>5 DEF Complete
  <2> QED BY <2>2, <2>3, <2>4, <2>5
        DEF AttemptStep, Begin, BeginFails, Crash, Replay, ReplayMismatch, RecordValue, Call,
            CallReturns, CallRaises, NextStep, Ack, backend
<1>2. ASSUME IInv, [DurableNext]_durableVars
      PROVE  [~overlap => \A n \in Attempts :
                (inflight'[n] \ inflight[n]) \cap EffectsOf(store) = {}]_durableVars
  <2> SUFFICES ASSUME DurableNext, ~overlap, NEW m \in Attempts,
                      NEW e \in inflight'[m], e \notin inflight[m], e \in EffectsOf(store)
               PROVE  FALSE
    BY <1>2
  <2>1. Types /\ OrderInv /\ attemptOK[m]
    BY <1>2 DEF IInv, AttemptInv
  <2>2. PICK n \in Attempts : AttemptStep(n)
    BY DEF DurableNext
  <2>3. CASE Call(n)
    <3>1. /\ n = m /\ mode[m] = "run" /\ HasNext(m) /\ ~Replays(m) /\ e = NextEffect(m)
      BY <2>1, <2>3 DEF Call, Types
    <3>2. ReplayInv(m) /\ Running(m)
      BY <2>1, <3>1 DEF attemptOK, Running
    <3>3. done[m] = EffectsOf(entries[m]) \cup inflight[m] \cup caught[m]
      BY <3>1, <3>2 DEF ReplayInv, Replays
    <3>4. e \notin EffectsOf(entries[m])
      BY NextIsNew, <2>1, <3>1, <3>3 DEF done
    <3>5. Len(store) <= Len(entries[m]) /\ \A a \in DOMAIN store : store[a] = entries[m][a]
      BY <2>1, <3>2 DEF OrderInv
    <3>6. store \in Seq(Entries) /\ entries[m] \in Seq(Entries)
      BY <2>1 DEF Types
    <3>7. PICK a \in DOMAIN store : store[a].effect = e
      BY DEF EffectsOf, Range
    <3>8. a \in DOMAIN entries[m] /\ entries[m][a].effect = e
      BY <3>5, <3>6, <3>7
    <3> QED BY <3>4, <3>8 DEF EffectsOf, Range
  <2>4. CASE \E f \in Effects : CallReturns(n, f) \/ CallRaises(n, f)
    <3>1. PICK f \in Effects : inflight' = [inflight EXCEPT ![n] = @ \ {f}]
      BY <2>4 DEF CallReturns, CallRaises
    <3>2. inflight'[m] \subseteq inflight[m]
      BY <2>1, <3>1 DEF Types
    <3> QED BY <3>2
  <2>5. CASE \E r \in {"over", "mismatch"} : EndAs(n, r)
    BY <2>1, <2>5 DEF EndAs, Types
  <2>6. CASE inflight' = inflight
    BY <2>6
  <2> QED BY <2>2, <2>3, <2>4, <2>5, <2>6
        DEF AttemptStep, Begin, BeginFails, Crash, Replay, ReplayMismatch, RecordValue,
            NextStep, Checkpoint, Complete, Ack, program
<1>3. DurableSpec => CheckpointGrows
  BY DurableInvariance, <1>1, PTL DEF DurableSpec, CheckpointGrows
<1>4. DurableSpec => CheckpointedNotRepeated
  BY DurableInvariance, <1>2, PTL DEF DurableSpec, CheckpointedNotRepeated
<1> QED BY <1>3, <1>4, PTL DEF CheckpointKept

-----------------------------------------------------------------------------
(* ExecutionChain *)

(* A layer is on the stack of calls when it was entered and has not been left.  *)
OnStack(i) == \/ phase \in {"down", "handler"} /\ i < at
              \/ phase \in {"up", "sleep"} /\ i <= at
Expired(n) == {i \in Layers : i < n /\ timer[i] = "expired"}

(* Task.cancelling() counts the worker's cancellations and those of the expired *)
(* timeouts on the stack; a timeout remembers no more than those of the         *)
(* timeouts around it, unless the handler went on after one of the worker's;    *)
(* and a retry that sleeps has attempts left.                                   *)
TimerInv ==
    /\ \A i \in Layers : timer[i] # "off" => OnStack(i) /\ chain[i] = "timeout"
    /\ cancelling = cancels + Cardinality(Expired(Len(chain) + 1))
    /\ \A i \in Layers : timer[i] # "off" =>
         \/ "worker" \in swallowed
         \/ base[i] <= Cardinality(Expired(i))
    /\ phase = "sleep" => at \in Layers /\ attempt[at] < MaxRetries
    /\ phase = "handler" => at = Len(chain) + 1
    /\ phase = "down" => at > 0

(* A cancellation by the worker is on its way to the task, or has ended it.     *)
CancelInv ==
    cancels > 0 /\ "worker" \notin swallowed =>
      \/ phase \in {"handler", "sleep"} /\ pending
      \/ phase \in {"up", "done"} /\ result = "cancelled"

(* A success goes all the way up, unless the recorder of an observer below the  *)
(* current layer failed, or one did and a retry around it went on.              *)
SuccessInv ==
    lastRun = "value" =>
      \/ \E kind \in Loud : Encloses("retry", kind)
      \/ /\ phase \in {"up", "done"}
         /\ \/ result = "value"
            \/ result = "recorder" /\ \E s \in Layers : chain[s] \in Loud /\ at < s

(* Decryption that was passed has opened the last seal; a seal is open only     *)
(* below a decryption, or after a retry around one went on.                     *)
SealInv ==
    /\ phase = "enqueue" => depth = seals /\ result = "value"
    /\ seals <= 1 => \A i \in Layers : chain[i] = "decrypt" /\ OnStack(i) => depth = 0
    /\ depth # seals =>
         \E i \in Layers :
           /\ chain[i] = "decrypt"
           /\ phase \in {"down", "handler"} => i < at \/ Encloses("retry", "decrypt")
    /\ seals <= 1 /\ result = "decrypt" /\ key =>
         /\ first = "string"
         /\ Encloses("retry", "decrypt") \/ Encloses("decrypt", "decrypt")

(* An outermost observer is entered once, and has recorded nothing before; while *)
(* it is on the stack it has recorded the start, or missed it if that is         *)
(* allowed; and after it what came up, which nothing outside it changes, unless  *)
(* its recorder failed.                                                         *)
ObserverInv ==
    \A i \in Layers : Outermost(i) =>
      /\ phase = "enqueue" \/ (phase = "down" /\ at <= i) => counted[i] = "none"
      /\ OnStack(i) => counted[i] = "started" \/ (counted[i] = "none" /\ chain[i] = "metrics")
      /\ phase = "done" \/ (phase = "up" /\ at < i) =>
           /\ counted[i] \in {"none", "started", Record(result, "started")}
           /\ counted[i] = "started" =>
                chain[i] = "metrics" \/ result \in {"cancelled", "recorder"}

ExecutionInv == ChainTypeOK /\ TimerInv /\ CancelInv /\ SuccessInv /\ SealInv /\ ObserverInv

-----------------------------------------------------------------------------
LEMMA ChainIsASequence ==
  ASSUME ChainTypeOK
  PROVE  /\ chain \in Seq(Kinds) /\ Len(chain) \in Nat
         /\ Layers = 1 .. Len(chain)
         /\ MaxRetries \in Nat /\ MaxCancels \in Nat /\ MaxSeals \in Nat
<1>1. chain \in Seq(Kinds)
  BY ChainAssumption DEF ChainTypeOK
<1> QED
  BY <1>1, ChainAssumption DEF Layers

(* The chain is the worker's, and stays what it is. *)
LEMMA ChainIsFixed ==
  ASSUME [ChainNext]_chainVars
  PROVE  chain' = chain /\ first' = first /\ key' = key /\ Layers' = Layers
  BY DEF ChainNext, chainVars, setting, Seal, Start, Synchronous, EnterRetry,
     EnterTimeout,
     EnterObserver, EnterDecrypt, EnterHandler, LeaveRetry, LeaveTimeout, LeaveMetrics,
     LeaveLogging, LeaveDecrypt, Finish, SleepEnds, SleepCancelled, HandlerCancelled,
     HandlerEnds, WorkerCancels, TimerFires, Quiet, Layers

(* On the way back an observer records what comes up or, if its recorder fails  *)
(* on anything but a cancellation, that failure or nothing; only an observer    *)
(* that lets its recorder's exceptions through changes what goes on up.         *)
LEMMA ObserverLeaves ==
  ASSUME ChainTypeOK, LeaveMetrics \/ LeaveLogging
  PROVE  /\ phase = "up" /\ at \in Layers /\ at \in 1 .. Len(chain)
         /\ chain[at] \in Observers
         /\ phase' = "up" /\ at' = at - 1
         /\ UNCHANGED <<chain, first, key, seals, depth, attempt, timer, base, cancelling,
                        pending, cancels, swallowed, lastRun>>
         /\ \/ counted' = [counted EXCEPT ![at] = Record(result, @)] /\ result' = result
            \/ /\ counted' = counted /\ result # "cancelled"
               /\ IF chain[at] \in Loud THEN result' = "recorder"
                                       ELSE result' = result /\ chain[at] = "metrics"
            \/ /\ counted' = [counted EXCEPT ![at] = "failed"] /\ chain[at] \in Loud
               /\ result = "value" /\ result' = "recorder"
<1>1. CASE LeaveMetrics
  BY <1>1, ChainIsASequence
  DEF LeaveMetrics, Leaves, Recorded, Outer, Raise, Quiet, setting, Observers, Loud
<1>2. CASE LeaveLogging
  BY <1>2, ChainIsASequence
  DEF LeaveLogging, Leaves, Recorded, Outer, Raise, Quiet, setting, Observers, Loud
<1> QED
  BY <1>1, <1>2

(* The same on the way down.                                                    *)
LEMMA ObserverEnters ==
  ASSUME ChainTypeOK, EnterObserver
  PROVE  /\ phase = "down" /\ at \in Layers /\ at \in 1 .. Len(chain)
         /\ chain[at] \in Observers
         /\ UNCHANGED <<chain, first, key, seals, depth, attempt, timer, base, cancelling,
                        pending, cancels, swallowed, lastRun>>
         /\ \/ /\ counted' = [counted EXCEPT ![at] = "started"] /\ result' = result
               /\ phase' = "down" /\ at' = at + 1
            \/ /\ counted' = counted /\ chain[at] = "metrics" /\ result' = result
               /\ phase' = "down" /\ at' = at + 1
            \/ /\ counted' = counted /\ chain[at] \in Loud /\ result' = "recorder"
               /\ phase' = "up" /\ at' = at - 1
  BY ChainIsASequence
  DEF EnterObserver, Enters, Deeper, Raise, Quiet, setting, Observers, Loud

LEMMA ExpiredIsFinite ==
  ASSUME ChainTypeOK, NEW n
  PROVE  IsFiniteSet(Expired(n)) /\ Cardinality(Expired(n)) \in Nat
<1>1. IsFiniteSet(Layers)
  BY ChainIsASequence, FS_Interval
<1>2. Expired(n) \subseteq Layers
  BY DEF Expired
<1> QED
  BY <1>1, <1>2, FS_Subset, FS_CardinalityType

LEMMA ChainStarts == ChainInit => ExecutionInv
<1> SUFFICES ASSUME ChainInit PROVE ExecutionInv
  OBVIOUS
<1>1. ChainTypeOK
  <2>1. /\ chain \in Chains /\ first \in {"string", "other", "empty"} /\ key \in BOOLEAN
        /\ MaxRetries \in Nat /\ MaxCancels \in Nat /\ MaxSeals \in Nat /\ Len(chain) \in Nat
    BY ChainAssumption DEF ChainInit
  <2>2. /\ attempt \in [Layers -> 0 .. MaxRetries]
        /\ timer \in [Layers -> {"off", "running", "expired"}]
        /\ base \in [Layers -> Nat]
        /\ counted \in [Layers -> {"none", "started", "completed", "failed"}]
    BY <2>1 DEF ChainInit
  <2>3. /\ seals = 0 /\ depth = 0 /\ phase = "enqueue" /\ at = 0 /\ cancelling = 0
        /\ pending = FALSE /\ result = "value" /\ cancels = 0 /\ swallowed = {}
        /\ lastRun = "none"
    BY DEF ChainInit
  <2>4. seals \in 0 .. MaxSeals /\ depth \in 0 .. seals /\ at \in 0 .. Len(chain) + 1
    BY <2>1, <2>3
  <2>5. swallowed \subseteq {"timer", "worker"} /\ pending \in BOOLEAN
    BY <2>3
  <2>6. cancels \in 0 .. MaxCancels /\ cancelling \in Nat
    BY <2>1, <2>3
  <2> QED
    BY <2>1, <2>2, <2>3, <2>4, <2>5, <2>6 DEF ChainTypeOK
<1>2. TimerInv
  <2>1. \A i \in Layers : timer[i] = "off"
    BY DEF ChainInit
  <2>2. Expired(Len(chain) + 1) = {}
    BY <2>1 DEF Expired
  <2>3. cancelling = 0 /\ cancels = 0 /\ phase = "enqueue"
    BY DEF ChainInit
  <2>4. Cardinality(Expired(Len(chain) + 1)) = 0
    BY <2>2, FS_EmptySet
  <2> QED
    BY <2>1, <2>3, <2>4 DEF TimerInv
<1>3. CancelInv /\ SuccessInv
  BY DEF ChainInit, CancelInv, SuccessInv
<1>4. SealInv
  BY DEF ChainInit, SealInv, OnStack
<1>5. ObserverInv
  BY DEF ChainInit, ObserverInv, OnStack
<1> QED
  BY <1>1, <1>2, <1>3, <1>4, <1>5 DEF ExecutionInv

(* Other cancellations than its own are outstanding when a timeout expired      *)
(* within an execution that the worker cancelled.                               *)
LEMMA TimeoutIsOutnumbered ==
  ASSUME ChainTypeOK, TimerInv, at \in Layers, timer[at] = "expired"
  PROVE  /\ cancelling - 1 \in Nat
         /\ "worker" \in swallowed \/ cancelling - 1 >= cancels + base[at]
<1> DEFINE inside == Expired(at)
           all == Expired(Len(chain) + 1)
<1>1. IsFiniteSet(inside) /\ Cardinality(inside) \in Nat
      /\ IsFiniteSet(all) /\ Cardinality(all) \in Nat
  BY ExpiredIsFinite
<1>2. inside \cup {at} \subseteq all /\ at \notin inside
  BY ChainIsASequence DEF Expired
<1>3. Cardinality(inside \cup {at}) = Cardinality(inside) + 1
  BY <1>1, <1>2, FS_AddElement
<1>4. Cardinality(inside) + 1 <= Cardinality(all)
  BY <1>1, <1>2, <1>3, FS_Subset
<1>5. cancelling = cancels + Cardinality(all)
      /\ ("worker" \in swallowed \/ base[at] <= Cardinality(inside))
  BY DEF TimerInv
<1>6. cancels \in Nat /\ base[at] \in Nat
  BY ChainIsASequence DEF ChainTypeOK
<1> HIDE DEF inside, all
<1> QED
  BY <1>1, <1>4, <1>5, <1>6


LEMMA CancelsKept ==
  ASSUME ExecutionInv, [ChainNext]_chainVars
  PROVE  CancelInv'
<1>0. /\ ChainTypeOK /\ TimerInv /\ CancelInv
      /\ chain' = chain /\ Layers' = Layers
  BY ChainIsFixed DEF ExecutionInv
<1>1. CASE Seal
  BY <1>0, <1>1 DEF Seal, setting, layers, CancelInv, ChainTypeOK, Exceptions
<1>2. CASE Start
  BY <1>0, <1>2 DEF Start, setting, layers, CancelInv, ChainTypeOK, Exceptions
<1>3. CASE EnterRetry
  BY <1>0, <1>3
  DEF EnterRetry, Enters, Deeper, Quiet, setting, CancelInv, ChainTypeOK, Exceptions
<1>4. CASE EnterTimeout
  BY <1>0, <1>4
  DEF EnterTimeout, Enters, Deeper, Quiet, setting, CancelInv, ChainTypeOK, Exceptions
<1>5. CASE EnterObserver
  BY <1>0, <1>5, ObserverEnters DEF CancelInv
<1>6. CASE EnterDecrypt
  BY <1>0, <1>6
  DEF EnterDecrypt, Enters, Deeper, Raise, Quiet, setting, layers, CancelInv,
      ChainTypeOK, Exceptions
<1>7. CASE EnterHandler
  BY <1>0, <1>7 DEF EnterHandler, setting, layers, CancelInv, ChainTypeOK, Exceptions
<1>8. CASE LeaveRetry
  BY <1>0, <1>8
  DEF LeaveRetry, Leaves, Outer, Quiet, setting, layers, CancelInv, ChainTypeOK,
      Exceptions
<1>9. CASE LeaveTimeout
  <2> SUFFICES ASSUME cancels > 0, "worker" \notin swallowed, result = "cancelled"
               PROVE  result' = "cancelled"
    BY <1>0, <1>9 DEF LeaveTimeout, Leaves, Outer, CancelInv
  <2>1. CASE timer[at] = "expired"
    <3>1. cancelling - 1 >= cancels + base[at]
      BY <1>0, <2>1, <1>9, TimeoutIsOutnumbered DEF LeaveTimeout, Leaves
    <3>2. cancels \in Nat /\ base[at] \in Nat /\ cancelling \in Nat
      BY <1>0, <1>9, ChainIsASequence DEF LeaveTimeout, Leaves, ChainTypeOK
    <3>3. ~(cancelling - 1 <= base[at])
      BY <3>1, <3>2
    <3> QED
      BY <2>1, <3>3, <1>9 DEF LeaveTimeout
  <2>2. CASE timer[at] # "expired"
    BY <2>2, <1>9 DEF LeaveTimeout
  <2> QED
    BY <2>1, <2>2
<1>10. CASE LeaveMetrics \/ LeaveLogging
  <2>1. result = "cancelled" => result' = "cancelled"
    BY <1>0, <1>10, ObserverLeaves DEF Record
  <2> QED
    BY <1>0, <2>1, <1>10, ObserverLeaves DEF CancelInv
<1>11. CASE LeaveDecrypt
  BY <1>0, <1>11
  DEF LeaveDecrypt, Leaves, Outer, Quiet, setting, layers, CancelInv, ChainTypeOK,
      Exceptions
<1>12. CASE Finish
  BY <1>0, <1>12 DEF Finish, setting, layers, CancelInv, ChainTypeOK, Exceptions
<1>13. CASE SleepEnds
  BY <1>0, <1>13
  DEF SleepEnds, Deeper, Raise, Quiet, setting, CancelInv, ChainTypeOK, Exceptions
<1>14. CASE SleepCancelled
  BY <1>0, <1>14
  DEF SleepCancelled, Raise, setting, layers, CancelInv, ChainTypeOK, Exceptions
<1>15. CASE HandlerCancelled
  BY <1>0, <1>15
  DEF HandlerCancelled, Raise, setting, layers, CancelInv, ChainTypeOK, Exceptions
<1>16. CASE HandlerEnds
  BY <1>0, <1>16
  DEF HandlerEnds, Raise, setting, layers, CancelInv, ChainTypeOK, Exceptions
<1>17. CASE WorkerCancels
  BY <1>0, <1>17
  DEF WorkerCancels, Suspended, setting, layers, CancelInv, ChainTypeOK, Exceptions
<1>18. ASSUME NEW i \in Layers, TimerFires(i)
      PROVE  CancelInv'
  BY <1>0, <1>18 DEF TimerFires, Suspended, setting, CancelInv, ChainTypeOK, Exceptions
<1>19. CASE UNCHANGED chainVars
  BY <1>0, <1>19 DEF chainVars, setting, layers, CancelInv, ChainTypeOK, Exceptions
<1> QED
  BY <1>1, <1>2, <1>3, <1>4, <1>5, <1>6, <1>7, <1>8, <1>9, <1>10, <1>11, <1>12, <1>13,
     <1>14, <1>15, <1>16, <1>17, <1>18, <1>19
  DEF ChainNext, Synchronous

LEMMA SuccessKept ==
  ASSUME ExecutionInv, [ChainNext]_chainVars
  PROVE  SuccessInv'
<1>0. /\ ChainTypeOK /\ TimerInv /\ SuccessInv
      /\ chain' = chain /\ Layers' = Layers
  BY ChainIsFixed DEF ExecutionInv
<1>1. CASE Seal
  BY <1>0, <1>1 DEF Seal, setting, layers, SuccessInv, ChainTypeOK, Encloses
<1>2. CASE Start
  BY <1>0, <1>2 DEF Start, setting, layers, SuccessInv, ChainTypeOK, Encloses
<1>3. CASE EnterRetry
  BY <1>0, <1>3
  DEF EnterRetry, Enters, Deeper, Quiet, setting, SuccessInv, ChainTypeOK, Encloses
<1>4. CASE EnterTimeout
  BY <1>0, <1>4
  DEF EnterTimeout, Enters, Deeper, Quiet, setting, SuccessInv, ChainTypeOK, Encloses
<1>5. CASE EnterObserver
  BY <1>0, <1>5, ObserverEnters DEF SuccessInv, Encloses
<1>6. CASE EnterDecrypt
  BY <1>0, <1>6
  DEF EnterDecrypt, Enters, Deeper, Raise, Quiet, setting, layers, SuccessInv,
      ChainTypeOK, Encloses
<1>7. CASE EnterHandler
  BY <1>0, <1>7 DEF EnterHandler, setting, layers, SuccessInv, ChainTypeOK, Encloses
<1>8. CASE LeaveRetry
  <2>0. phase = "up" /\ at \in Layers /\ chain[at] = "retry" /\ UNCHANGED <<lastRun, result>>
    BY <1>8 DEF LeaveRetry, Leaves, Quiet
  <2> SUFFICES ASSUME lastRun = "value", ~ \E kind \in Loud : Encloses("retry", kind)
               PROVE  phase' \in {"up", "done"} /\ result' = "value"
    BY <1>0, <2>0 DEF SuccessInv, Encloses
  <2>1. result = "value"
    BY <1>0, <2>0 DEF SuccessInv, Encloses
  <2> QED
    BY <2>0, <2>1, <1>8 DEF LeaveRetry, Outer, Exceptions
<1>9. CASE LeaveTimeout
  BY <1>0, <1>9
  DEF LeaveTimeout, Leaves, Outer, setting, SuccessInv, ChainTypeOK, Encloses
<1>10. CASE LeaveMetrics \/ LeaveLogging
  <2> SUFFICES ASSUME lastRun = "value", ~ \E kind \in Loud : Encloses("retry", kind)
               PROVE  \/ result' = "value"
                      \/ result' = "recorder" /\ \E s \in Layers : chain[s] \in Loud /\ at' < s
    BY <1>0, <1>10, ObserverLeaves DEF SuccessInv, Encloses
  <2>1. phase' = "up" /\ at' = at - 1 /\ at \in Layers /\ at \in Nat
    BY <1>0, <1>10, ObserverLeaves
  <2>2. CASE result' = result
    BY <1>0, <2>1, <2>2, ChainIsASequence DEF SuccessInv
  <2>3. CASE result' = "recorder" /\ chain[at] \in Loud
    BY <2>1, <2>3
  <2> QED
    BY <1>0, <2>2, <2>3, <1>10, ObserverLeaves
<1>11. CASE LeaveDecrypt
  BY <1>0, <1>11
  DEF LeaveDecrypt, Leaves, Outer, Quiet, setting, layers, SuccessInv, ChainTypeOK,
      Encloses
<1>12. CASE Finish
  BY <1>0, <1>12 DEF Finish, setting, layers, SuccessInv, ChainTypeOK, Encloses
<1>13. CASE SleepEnds
  BY <1>0, <1>13
  DEF SleepEnds, Deeper, Raise, Quiet, setting, SuccessInv, ChainTypeOK, Encloses
<1>14. CASE SleepCancelled
  BY <1>0, <1>14
  DEF SleepCancelled, Raise, setting, layers, SuccessInv, ChainTypeOK, Encloses
<1>15. CASE HandlerCancelled
  BY <1>0, <1>15
  DEF HandlerCancelled, Raise, setting, layers, SuccessInv, ChainTypeOK, Encloses
<1>16. CASE HandlerEnds
  BY <1>0, <1>16
  DEF HandlerEnds, Raise, setting, layers, SuccessInv, ChainTypeOK, Encloses
<1>17. CASE WorkerCancels
  BY <1>0, <1>17
  DEF WorkerCancels, Suspended, setting, layers, SuccessInv, ChainTypeOK, Encloses
<1>18. ASSUME NEW i \in Layers, TimerFires(i)
      PROVE  SuccessInv'
  BY <1>0, <1>18 DEF TimerFires, Suspended, setting, SuccessInv, ChainTypeOK, Encloses
<1>19. CASE UNCHANGED chainVars
  BY <1>0, <1>19 DEF chainVars, setting, layers, SuccessInv, ChainTypeOK, Encloses
<1> QED
  BY <1>1, <1>2, <1>3, <1>4, <1>5, <1>6, <1>7, <1>8, <1>9, <1>10, <1>11, <1>12, <1>13,
     <1>14, <1>15, <1>16, <1>17, <1>18, <1>19
  DEF ChainNext, Synchronous

LEMMA SealsKept ==
  ASSUME ExecutionInv, [ChainNext]_chainVars
  PROVE  SealInv'
<1>0. /\ ChainTypeOK /\ TimerInv /\ SealInv
      /\ chain' = chain /\ Layers' = Layers /\ first' = first /\ key' = key
      /\ Layers = 1 .. Len(chain) /\ Len(chain) \in Nat
  BY ChainIsFixed, ChainIsASequence DEF ExecutionInv
<1>1. CASE Seal
  BY <1>0, <1>1
  DEF Seal, setting, layers, SealInv, TimerInv, ChainTypeOK, OnStack, Encloses
<1>2. CASE Start
  BY <1>0, <1>2
  DEF Start, setting, layers, SealInv, TimerInv, ChainTypeOK, OnStack, Encloses
<1>3. CASE EnterRetry
  BY <1>0, <1>3
  DEF EnterRetry, Enters, Deeper, Quiet, setting, SealInv, TimerInv, ChainTypeOK,
      OnStack, Encloses
<1>4. CASE EnterTimeout
  BY <1>0, <1>4
  DEF EnterTimeout, Enters, Deeper, Quiet, setting, SealInv, TimerInv, ChainTypeOK,
      OnStack, Encloses
<1>5. CASE EnterObserver
  <2>1. chain[at] # "decrypt"
    BY <1>0, <1>5, ObserverEnters DEF Observers
  <2> QED
    BY <1>0, <2>1, <1>5, ObserverEnters DEF SealInv, OnStack, Encloses
<1>6. CASE EnterDecrypt
  <2>0. /\ phase = "down" /\ at \in Layers /\ chain[at] = "decrypt"
        /\ depth \in 0 .. seals /\ seals \in Nat /\ seals' = seals
    BY <1>0, <1>6, ChainIsASequence DEF EnterDecrypt, Enters, Quiet, ChainTypeOK
  <2>1. CASE depth' = depth /\ phase' = "down" /\ at' = at + 1 /\ result' = result
             /\ ~LooksEncrypted
    BY <1>0, <2>0, <2>1 DEF SealInv, OnStack, Encloses, LooksEncrypted
  <2>2. CASE depth' = depth - 1 /\ phase' = "down" /\ at' = at + 1 /\ result' = result
             /\ depth = seals /\ seals > 0
    BY <1>0, <2>0, <2>2 DEF SealInv, OnStack, Encloses
  <2>3. CASE depth' = depth /\ phase' = "up" /\ at' = at - 1 /\ LooksEncrypted
             /\ ~(key /\ depth = seals)
    BY <1>0, <2>0, <2>3 DEF SealInv, OnStack, Encloses, LooksEncrypted
  <2> QED
    BY <1>0, <2>0, <2>1, <2>2, <2>3, <1>6
    DEF EnterDecrypt, Deeper, Raise, LooksEncrypted
<1>7. CASE EnterHandler
  BY <1>0, <1>7
  DEF EnterHandler, setting, layers, SealInv, TimerInv, ChainTypeOK, OnStack, Encloses
<1>8. CASE LeaveRetry
  BY <1>0, <1>8
  DEF LeaveRetry, Leaves, Outer, Quiet, setting, layers, SealInv, TimerInv, ChainTypeOK,
      OnStack, Encloses
<1>9. CASE LeaveTimeout
  BY <1>0, <1>9
  DEF LeaveTimeout, Leaves, Outer, setting, SealInv, TimerInv, ChainTypeOK, OnStack,
      Encloses
<1>10. CASE LeaveMetrics \/ LeaveLogging
  <2>1. result' \in {result, "recorder"}
    BY <1>0, <1>10, ObserverLeaves
  <2> QED
    BY <1>0, <2>1, <1>10, ObserverLeaves DEF SealInv, OnStack, Encloses
<1>11. CASE LeaveDecrypt
  BY <1>0, <1>11
  DEF LeaveDecrypt, Leaves, Outer, Quiet, setting, layers, SealInv, TimerInv,
      ChainTypeOK, OnStack, Encloses
<1>12. CASE Finish
  BY <1>0, <1>12
  DEF Finish, setting, layers, SealInv, TimerInv, ChainTypeOK, OnStack, Encloses
<1>13. CASE SleepEnds
  BY <1>0, <1>13
  DEF SleepEnds, Deeper, Raise, Quiet, setting, SealInv, TimerInv, ChainTypeOK, OnStack,
      Encloses
<1>14. CASE SleepCancelled
  BY <1>0, <1>14
  DEF SleepCancelled, Raise, setting, layers, SealInv, TimerInv, ChainTypeOK, OnStack,
      Encloses
<1>15. CASE HandlerCancelled
  BY <1>0, <1>15
  DEF HandlerCancelled, Raise, setting, layers, SealInv, TimerInv, ChainTypeOK, OnStack,
      Encloses
<1>16. CASE HandlerEnds
  BY <1>0, <1>16
  DEF HandlerEnds, Raise, setting, layers, SealInv, TimerInv, ChainTypeOK, OnStack,
      Encloses
<1>17. CASE WorkerCancels
  BY <1>0, <1>17
  DEF WorkerCancels, Suspended, setting, layers, SealInv, TimerInv, ChainTypeOK,
      OnStack, Encloses
<1>18. ASSUME NEW i \in Layers, TimerFires(i)
      PROVE  SealInv'
  BY <1>0, <1>18
  DEF TimerFires, Suspended, setting, SealInv, TimerInv, ChainTypeOK, OnStack, Encloses
<1>19. CASE UNCHANGED chainVars
  BY <1>0, <1>19
  DEF chainVars, setting, layers, SealInv, TimerInv, ChainTypeOK, OnStack, Encloses
<1> QED
  BY <1>1, <1>2, <1>3, <1>4, <1>5, <1>6, <1>7, <1>8, <1>9, <1>10, <1>11, <1>12, <1>13,
     <1>14, <1>15, <1>16, <1>17, <1>18, <1>19
  DEF ChainNext, Synchronous

LEMMA ObserversKept ==
  ASSUME ExecutionInv, [ChainNext]_chainVars
  PROVE  ObserverInv'
<1>0. /\ ChainTypeOK /\ TimerInv /\ ObserverInv
      /\ chain' = chain /\ Layers' = Layers /\ first' = first /\ key' = key
      /\ Layers = 1 .. Len(chain) /\ Len(chain) \in Nat
  BY ChainIsFixed, ChainIsASequence DEF ExecutionInv
<1>1. CASE Seal
  BY <1>0, <1>1 DEF Seal, setting, layers, ObserverInv, TimerInv, ChainTypeOK, Outermost,
      OnStack, Observers
<1>2. CASE Start
  BY <1>0, <1>2
  DEF Start, setting, layers, ObserverInv, TimerInv, ChainTypeOK, Outermost,
      OnStack, Observers
<1>3. CASE EnterRetry
  BY <1>0, <1>3
  DEF EnterRetry, Enters, Deeper, Quiet, setting, ObserverInv, TimerInv, ChainTypeOK,
      Outermost, OnStack, Observers
<1>4. CASE EnterTimeout
  BY <1>0, <1>4
  DEF EnterTimeout, Enters, Deeper, Quiet, setting, ObserverInv, TimerInv, ChainTypeOK,
      Outermost, OnStack, Observers
<1>5. CASE EnterObserver
  <2> SUFFICES ASSUME NEW i \in Layers, Outermost(i)
               PROVE  /\ phase' = "down" /\ at' <= i => counted'[i] = "none"
                      /\ OnStack(i)' => \/ counted'[i] = "started"
                                        \/ counted'[i] = "none" /\ chain[i] = "metrics"
                      /\ phase' = "up" /\ at' < i => counted'[i] = "none"
    BY <1>0, <1>5, ObserverEnters DEF ObserverInv, Outermost
  <2>0. /\ phase = "down" /\ at \in Layers /\ at \in Nat /\ i \in Nat
        /\ counted \in [Layers -> {"none", "started", "completed", "failed"}]
    BY <1>0, <1>5, ObserverEnters DEF ChainTypeOK
  <2>1. CASE i < at
    <3>1. /\ counted'[i] = counted[i]
          /\ \/ phase' = "down" /\ at' = at + 1
             \/ phase' = "up" /\ at' = at - 1
      BY <1>0, <2>0, <2>1, <1>5, ObserverEnters
    <3>2. counted[i] = "started" \/ (counted[i] = "none" /\ chain[i] = "metrics")
      BY <1>0, <2>0, <2>1 DEF ObserverInv, OnStack
    <3>3. ~(phase' = "down" /\ at' <= i) /\ ~(phase' = "up" /\ at' < i)
      BY <2>0, <2>1, <3>1
    <3> QED
      BY <3>1, <3>2, <3>3
  <2>2. CASE at < i
    <3>1. counted'[i] = counted[i] /\ at' \in {at - 1, at + 1}
      BY <1>0, <2>0, <2>2, <1>5, ObserverEnters
    <3>2. counted[i] = "none"
      BY <1>0, <2>0, <2>2 DEF ObserverInv
    <3>3. ~OnStack(i)'
      BY <1>0, <2>0, <2>2, <1>5, ObserverEnters DEF OnStack
    <3> QED
      BY <3>1, <3>2, <3>3
  <2>3. CASE at = i
    <3>1. counted[i] = "none"
      BY <1>0, <2>0, <2>3 DEF ObserverInv
    <3> QED
      BY <1>0, <2>0, <2>3, <3>1, <1>5, ObserverEnters DEF OnStack
  <2>4. i < at \/ at < i \/ at = i
    BY <2>0
  <2> QED
    BY <2>1, <2>2, <2>3, <2>4, Zenon
<1>6. CASE EnterDecrypt
  <2>1. /\ phase = "down" /\ at \in Layers /\ at \in Nat /\ counted' = counted
        /\ chain[at] \notin Observers
        /\ \/ phase' = "down" /\ at' = at + 1
           \/ phase' = "up" /\ at' = at - 1
    BY <1>0, <1>6 DEF EnterDecrypt, Enters, Deeper, Raise, layers, Observers
  <2>2. \A i \in Layers : Outermost(i) => i \in Nat /\ (i < at \/ at < i)
    BY <1>0, <2>1 DEF Outermost
  <2> QED
    BY <1>0, <2>1, <2>2 DEF ObserverInv, Outermost, OnStack
<1>7. CASE EnterHandler
  BY <1>0, <1>7
  DEF EnterHandler, setting, layers, ObserverInv, TimerInv, ChainTypeOK, Outermost,
      OnStack, Observers
<1>8. CASE LeaveRetry
  BY <1>0, <1>8
  DEF LeaveRetry, Leaves, Outer, Quiet, setting, layers, ObserverInv, TimerInv,
      ChainTypeOK, Outermost, OnStack, Observers
<1>9. CASE LeaveTimeout
  BY <1>0, <1>9
  DEF LeaveTimeout, Leaves, Outer, setting, ObserverInv, TimerInv, ChainTypeOK,
      Outermost, OnStack, Observers
<1>10. CASE LeaveMetrics \/ LeaveLogging
  <2> SUFFICES ASSUME NEW i \in Layers, Outermost(i)
               PROVE  /\ OnStack(i)' => \/ counted'[i] = "started"
                                        \/ counted'[i] = "none" /\ chain[i] = "metrics"
                      /\ at' < i =>
                           /\ counted'[i] \in {"none", "started", Record(result', "started")}
                           /\ counted'[i] = "started" =>
                                chain[i] = "metrics" \/ result' \in {"cancelled", "recorder"}
    BY <1>0, <1>10, ObserverLeaves DEF ObserverInv, Outermost
  <2>0. /\ phase = "up" /\ phase' = "up" /\ at \in Layers /\ at' = at - 1 /\ i \in Nat
        /\ at \in Nat /\ chain[at] \in Observers 
        /\ counted \in [Layers -> {"none", "started", "completed", "failed"}]
    BY <1>0, <1>10, ObserverLeaves DEF ChainTypeOK
  <2>1. CASE i < at
    BY <1>0, <2>0, <2>1, <1>10, ObserverLeaves DEF ObserverInv, OnStack
  <2>2. CASE at < i
    <3>1. result' = result
      BY <1>0, <2>0, <2>2, <1>10, ObserverLeaves DEF Outermost, Loud, Observers
    <3> QED
      BY <1>0, <2>0, <2>2, <3>1, <1>10, ObserverLeaves DEF ObserverInv, OnStack
  <2>3. CASE at = i
    <3>1. counted[i] = "started" \/ (counted[i] = "none" /\ chain[i] = "metrics")
      BY <1>0, <2>0, <2>3 DEF ObserverInv, OnStack
    <3>2. result \in Exceptions \cup {"value", "cancelled"}
      BY <1>0 DEF ChainTypeOK
    <3>3. CASE counted'[i] = Record(result, counted[i]) /\ result' = result
      BY <1>0, <2>0, <2>3, <3>1, <3>2, <3>3 DEF Record, OnStack, Exceptions
    <3>4. CASE counted'[i] = counted[i] /\ chain[i] = "metrics" /\ result' = result
      BY <1>0, <2>0, <2>3, <3>1, <3>4 DEF OnStack
    <3>5. CASE counted'[i] = counted[i] /\ result' = "recorder"
      BY <1>0, <2>0, <2>3, <3>1, <3>5 DEF OnStack
    <3>6. CASE counted'[i] = "failed" /\ result' = "recorder"
      BY <1>0, <2>0, <2>3, <3>6 DEF Record, OnStack, Exceptions
    <3> QED
      BY <1>0, <2>0, <2>3, <3>3, <3>4, <3>5, <3>6, <1>10, ObserverLeaves
  <2> QED
    BY <1>0, <2>0, <2>1, <2>2, <2>3
<1>11. CASE LeaveDecrypt
  BY <1>0, <1>11
  DEF LeaveDecrypt, Leaves, Outer, Quiet, setting, layers, ObserverInv, TimerInv,
      ChainTypeOK, Outermost, OnStack, Observers
<1>12. CASE Finish
  BY <1>0, <1>12
  DEF Finish, setting, layers, ObserverInv, TimerInv, ChainTypeOK, Outermost,
      OnStack, Observers
<1>13. CASE SleepEnds
  BY <1>0, <1>13
  DEF SleepEnds, Deeper, Raise, Quiet, setting, ObserverInv, TimerInv, ChainTypeOK,
      Outermost, OnStack, Observers
<1>14. CASE SleepCancelled
  BY <1>0, <1>14
  DEF SleepCancelled, Raise, setting, layers, ObserverInv, TimerInv, ChainTypeOK,
      Outermost, OnStack, Observers
<1>15. CASE HandlerCancelled
  <2>1. /\ phase = "handler" /\ at = Len(chain) + 1 /\ counted' = counted
        /\ \/ phase' = "up" /\ at' = Len(chain)
           \/ phase' = phase /\ at' = at
    BY <1>0, <1>15 DEF HandlerCancelled, Raise, layers, TimerInv
  <2>2. \A i \in Layers : OnStack(i) /\ ~(phase' = "up" /\ at' < i)
    BY <1>0, <2>1 DEF OnStack
  <2> QED
    BY <1>0, <2>1, <2>2 DEF ObserverInv, Outermost
<1>16. CASE HandlerEnds
  <2>1. /\ phase = "handler" /\ at = Len(chain) + 1 /\ counted' = counted
        /\ phase' = "up" /\ at' = Len(chain)
    BY <1>0, <1>16 DEF HandlerEnds, Raise, layers, TimerInv
  <2>2. \A i \in Layers : OnStack(i) /\ ~(at' < i)
    BY <1>0, <2>1 DEF OnStack
  <2> QED
    BY <1>0, <2>1, <2>2 DEF ObserverInv, Outermost
<1>17. CASE WorkerCancels
  BY <1>0, <1>17
  DEF WorkerCancels, Suspended, setting, layers, ObserverInv, TimerInv, ChainTypeOK,
      Outermost, OnStack, Observers
<1>18. ASSUME NEW i \in Layers, TimerFires(i)
      PROVE  ObserverInv'
  BY <1>0, <1>18
  DEF TimerFires, Suspended, setting, ObserverInv, TimerInv, ChainTypeOK, Outermost,
      OnStack, Observers
<1>19. CASE UNCHANGED chainVars
  BY <1>0, <1>19
  DEF chainVars, setting, layers, ObserverInv, TimerInv, ChainTypeOK, Outermost,
      OnStack, Observers
<1> QED
  BY <1>1, <1>2, <1>3, <1>4, <1>5, <1>6, <1>7, <1>8, <1>9, <1>10, <1>11, <1>12, <1>13,
     <1>14, <1>15, <1>16, <1>17, <1>18, <1>19
  DEF ChainNext, Synchronous

LEMMA ChainTypesKept ==
  ASSUME ExecutionInv, [ChainNext]_chainVars
  PROVE  ChainTypeOK'
<1>0. /\ ChainTypeOK /\ TimerInv
      /\ chain' = chain /\ Layers' = Layers /\ first' = first /\ key' = key
      /\ Layers = 1 .. Len(chain) /\ Len(chain) \in Nat
      /\ MaxRetries \in Nat /\ MaxCancels \in Nat /\ MaxSeals \in Nat
  BY ChainIsFixed, ChainIsASequence DEF ExecutionInv
<1>1. CASE Seal
  <2>1. seals' \in 0 .. MaxSeals /\ depth' \in 0 .. seals'
    BY <1>0, <1>1 DEF Seal, setting, layers, ChainTypeOK, TimerInv, Exceptions
  <2> QED
    BY <1>0, <2>1, <1>1 DEF Seal, setting, layers, ChainTypeOK
<1>2. CASE Start
  BY <1>0, <1>2 DEF Start, setting, layers, TimerInv, ChainTypeOK, Exceptions
<1>3. CASE EnterRetry
  <2>1. /\ at' \in 0 .. Len(chain) + 1 /\ phase' \in {"down", "up", "handler"}
        /\ result' \in Exceptions \cup {"value", "cancelled"}
        /\ attempt' \in [Layers -> 0 .. MaxRetries]
    BY <1>0, <1>3
    DEF EnterRetry, Enters, Deeper, Quiet, setting, ChainTypeOK, TimerInv, Exceptions
  <2> QED
    BY <1>0, <2>1, <1>3 DEF EnterRetry, Enters, Deeper, Quiet, setting, ChainTypeOK
<1>4. CASE EnterTimeout
  BY <1>0, <1>4
  DEF EnterTimeout, Enters, Deeper, Quiet, setting, TimerInv, ChainTypeOK, Exceptions
<1>5. CASE EnterObserver
  <2>1. counted' \in [Layers -> {"none", "started", "completed", "failed"}]
    BY <1>0, <1>5, ObserverEnters DEF ChainTypeOK
  <2>2. /\ phase' \in {"down", "up"} /\ at' \in 0 .. Len(chain) + 1
        /\ result' \in Exceptions \cup {"value", "cancelled"}
    BY <1>0, <1>5, ObserverEnters DEF ChainTypeOK, Exceptions
  <2> QED
    BY <1>0, <2>1, <2>2, <1>5, ObserverEnters DEF ChainTypeOK
<1>6. CASE EnterDecrypt
  <2>0. phase = "down" /\ at \in Layers
    BY <1>0, <1>6 DEF EnterDecrypt, Enters
  <2>1. CASE Deeper /\ depth' \in {depth, depth - 1}
             /\ (depth' # depth => depth = seals /\ seals > 0)
    BY <1>0, <2>0, <2>1, <1>6
    DEF EnterDecrypt, Quiet, setting, layers, Deeper, ChainTypeOK
  <2>2. CASE Raise("decrypt") /\ depth' = depth
    BY <1>0, <2>0, <2>2, <1>6
    DEF EnterDecrypt, Quiet, setting, layers, Raise, ChainTypeOK, Exceptions
  <2> QED
    BY <2>1, <2>2, <1>6 DEF EnterDecrypt, LooksEncrypted
<1>7. CASE EnterHandler
  BY <1>0, <1>7 DEF EnterHandler, setting, layers, TimerInv, ChainTypeOK, Exceptions
<1>8. CASE LeaveRetry
  BY <1>0, <1>8
  DEF LeaveRetry, Leaves, Outer, Quiet, setting, layers, TimerInv, ChainTypeOK,
      Exceptions
<1>9. CASE LeaveTimeout
  <2>1. /\ at' \in 0 .. Len(chain) + 1 /\ phase' \in {"down", "up", "handler"}
        /\ result' \in Exceptions \cup {"value", "cancelled"}
        /\ timer' \in [Layers -> {"off", "running", "expired"}] /\ cancelling' \in Nat
    BY <1>0, <1>9, TimeoutIsOutnumbered
    DEF LeaveTimeout, Leaves, Outer, setting, ChainTypeOK, TimerInv, Exceptions
  <2> QED
    BY <1>0, <2>1, <1>9 DEF LeaveTimeout, Leaves, Outer, setting, ChainTypeOK
<1>10. CASE LeaveMetrics \/ LeaveLogging
  <2>1. \A last \in {"none", "started", "completed", "failed"} :
          Record(result, last) \in {"none", "started", "completed", "failed"}
    BY DEF Record
  <2>2. counted' \in [Layers -> {"none", "started", "completed", "failed"}]
    BY <1>0, <2>1, <1>10, ObserverLeaves DEF ChainTypeOK
  <2>3. result' \in Exceptions \cup {"value", "cancelled"}
    BY <1>0, <1>10, ObserverLeaves DEF ChainTypeOK, Exceptions
  <2>4. phase' = "up" /\ at' \in 0 .. Len(chain) + 1
    BY <1>0, <1>10, ObserverLeaves
  <2> QED
    BY <1>0, <2>2, <2>3, <2>4, <1>10, ObserverLeaves DEF ChainTypeOK
<1>11. CASE LeaveDecrypt
  BY <1>0, <1>11
  DEF LeaveDecrypt, Leaves, Outer, Quiet, setting, layers, TimerInv, ChainTypeOK,
      Exceptions
<1>12. CASE Finish
  BY <1>0, <1>12 DEF Finish, setting, layers, TimerInv, ChainTypeOK, Exceptions
<1>13. CASE SleepEnds
  <2>1. /\ at' \in 0 .. Len(chain) + 1 /\ phase' \in {"down", "up", "handler"}
        /\ result' \in Exceptions \cup {"value", "cancelled"}
        /\ attempt' \in [Layers -> 0 .. MaxRetries]
    BY <1>0, <1>13
    DEF SleepEnds, Deeper, Raise, Quiet, setting, ChainTypeOK, TimerInv, Exceptions
  <2> QED
    BY <1>0, <2>1, <1>13 DEF SleepEnds, Deeper, Raise, Quiet, setting, ChainTypeOK
<1>14. CASE SleepCancelled
  <2>1. /\ at' \in 0 .. Len(chain) + 1 /\ phase' \in {"down", "up", "handler"}
        /\ result' \in Exceptions \cup {"value", "cancelled"}
        /\ pending' = FALSE
    BY <1>0, <1>14
    DEF SleepCancelled, Raise, setting, layers, ChainTypeOK, TimerInv, Exceptions
  <2> QED
    BY <1>0, <2>1, <1>14 DEF SleepCancelled, Raise, setting, layers, ChainTypeOK
<1>15. CASE HandlerCancelled
  <2>0. at = Len(chain) + 1 /\ phase = "handler" /\ pending' = FALSE
        /\ UNCHANGED <<setting, seals, depth, layers, cancelling, cancels>>
    BY <1>0, <1>15 DEF HandlerCancelled, TimerInv
  <2>1. CASE Raise("cancelled") /\ lastRun' = "cancelled" /\ swallowed' = swallowed
    <3>1. /\ phase' = "up" /\ at' = Len(chain)
          /\ result' = "cancelled" /\ lastRun' = "cancelled" /\ swallowed' = swallowed
          /\ UNCHANGED <<seals, depth, attempt, timer, base, counted, cancelling, cancels>>
      BY <1>0, <2>0, <2>1 DEF layers, Raise
    <3>2. at' \in 0 .. Len(chain') + 1
      BY <1>0, <3>1
    <3>3. /\ result' \in Exceptions \cup {"value", "cancelled"}
          /\ lastRun' \in {"none", "value", "error", "cancelled"} /\ pending' \in BOOLEAN
      BY <2>0, <3>1
    <3>4. /\ attempt' \in [Layers' -> 0 .. MaxRetries]
          /\ timer' \in [Layers' -> {"off", "running", "expired"}]
          /\ base' \in [Layers' -> Nat] /\ cancelling' \in Nat
          /\ counted' \in [Layers' -> {"none", "started", "completed", "failed"}]
          /\ seals' \in 0 .. MaxSeals /\ depth' \in 0 .. seals'
      BY <1>0, <3>1 DEF ChainTypeOK
    <3>5. /\ phase' = "up" /\ cancels' \in 0 .. MaxCancels
          /\ swallowed' \subseteq {"timer", "worker"}
          /\ chain' \in Chains /\ first' \in {"string", "other", "empty"} /\ key' \in BOOLEAN
      BY <1>0, <3>1 DEF ChainTypeOK
    <3> QED
      BY <3>2, <3>3, <3>4, <3>5 DEF ChainTypeOK
  <2>2. CASE swallowed' \subseteq swallowed \cup {"timer", "worker"}
             /\ UNCHANGED <<phase, at, result, lastRun>>
    BY <1>0, <2>0, <2>2 DEF setting, layers, ChainTypeOK
  <2> QED
    BY <2>1, <2>2, <1>15 DEF HandlerCancelled
<1>16. CASE HandlerEnds
  BY <1>0, <1>16
  DEF HandlerEnds, Raise, setting, layers, TimerInv, ChainTypeOK, Exceptions
<1>17. CASE WorkerCancels
  <2>1. cancels' \in 0 .. MaxCancels /\ cancelling' \in Nat /\ pending' \in BOOLEAN
    BY <1>0, <1>17
    DEF WorkerCancels, Suspended, setting, layers, ChainTypeOK, TimerInv, Exceptions
  <2> QED
    BY <1>0, <2>1, <1>17 DEF WorkerCancels, Suspended, setting, layers, ChainTypeOK
<1>18. ASSUME NEW i \in Layers, TimerFires(i)
      PROVE  ChainTypeOK'
  BY <1>0, <1>18 DEF TimerFires, Suspended, setting, TimerInv, ChainTypeOK, Exceptions
<1>19. CASE UNCHANGED chainVars
  BY <1>0, <1>19 DEF chainVars, setting, layers, TimerInv, ChainTypeOK, Exceptions
<1> QED
  BY <1>1, <1>2, <1>3, <1>4, <1>5, <1>6, <1>7, <1>8, <1>9, <1>10, <1>11, <1>12, <1>13,
     <1>14, <1>15, <1>16, <1>17, <1>18, <1>19
  DEF ChainNext, Synchronous

(* A step that leaves the timers alone keeps the account of cancellations.      *)
LEMMA TimersUntouched ==
  ASSUME ChainTypeOK, TimerInv, chain' = chain, Layers' = Layers, UNCHANGED <<timer, base>>,
         \/ UNCHANGED <<cancelling, cancels>>
         \/ cancelling' = cancelling + 1 /\ cancels' = cancels + 1,
         swallowed \subseteq swallowed',
         \A i \in Layers : OnStack(i) /\ chain[i] = "timeout" => OnStack(i)',
         phase' = "sleep" => at' \in Layers /\ attempt'[at'] < MaxRetries,
         phase' = "handler" => at' = Len(chain) + 1,
         phase' = "down" => at' > 0
  PROVE  TimerInv'
<1>1. /\ \A i \in Layers : Expired(i)' = Expired(i)
      /\ Expired(Len(chain) + 1)' = Expired(Len(chain) + 1)
  BY DEF Expired
<1>2. cancelling' = cancels' + Cardinality(Expired(Len(chain) + 1)')
  <2>1. PICK e \in Nat : e = Cardinality(Expired(Len(chain) + 1))
    BY ExpiredIsFinite
  <2>2. cancelling = cancels + e
    BY <2>1 DEF TimerInv
  <2>3. cancelling \in Nat /\ cancels \in Nat
    BY ChainIsASequence DEF ChainTypeOK
  <2>4. cancelling' = cancels' + e
    BY <2>2, <2>3
  <2> QED
    BY <1>1, <2>1, <2>4
<1>3. \A i \in Layers' : timer'[i] # "off" =>
        "worker" \in swallowed' \/ base'[i] <= Cardinality(Expired(i)')
  BY <1>1 DEF TimerInv
<1>4. \A i \in Layers' : timer'[i] # "off" => OnStack(i)' /\ chain'[i] = "timeout"
  BY DEF TimerInv
<1> QED
  BY <1>2, <1>3, <1>4 DEF TimerInv

LEMMA TimersKept ==
  ASSUME ExecutionInv, [ChainNext]_chainVars
  PROVE  TimerInv'
<1>0. /\ ChainTypeOK /\ TimerInv /\ CancelInv
      /\ chain' = chain /\ Layers' = Layers
      /\ Layers = 1 .. Len(chain) /\ Len(chain) \in Nat /\ at \in Nat
      /\ cancelling \in Nat /\ cancels \in Nat
  BY ChainIsFixed, ChainIsASequence DEF ExecutionInv, ChainTypeOK
<1>1. CASE Seal
  <2>1. /\ UNCHANGED <<timer, base>>
        /\ \/ UNCHANGED <<cancelling, cancels>>
           \/ cancelling' = cancelling + 1 /\ cancels' = cancels + 1
        /\ swallowed \subseteq swallowed'
    BY <1>0, <1>1 DEF Seal, setting, layers
  <2>2. /\ \A i \in Layers : OnStack(i) /\ chain[i] = "timeout" => OnStack(i)'
        /\ phase' = "sleep" => at' \in Layers /\ attempt'[at'] < MaxRetries
        /\ phase' = "handler" => at' = Len(chain) + 1
        /\ phase' = "down" => at' > 0
    BY <1>0, <1>1 DEF Seal, setting, layers, TimerInv, OnStack, ChainTypeOK
  <2> QED
    BY <1>0, <2>1, <2>2, TimersUntouched
<1>2. CASE Start
  <2>1. /\ UNCHANGED <<timer, base>>
        /\ \/ UNCHANGED <<cancelling, cancels>>
           \/ cancelling' = cancelling + 1 /\ cancels' = cancels + 1
        /\ swallowed \subseteq swallowed'
    BY <1>0, <1>2 DEF Start, setting, layers
  <2>2. /\ \A i \in Layers : OnStack(i) /\ chain[i] = "timeout" => OnStack(i)'
        /\ phase' = "sleep" => at' \in Layers /\ attempt'[at'] < MaxRetries
        /\ phase' = "handler" => at' = Len(chain) + 1
        /\ phase' = "down" => at' > 0
    BY <1>0, <1>2 DEF Start, setting, layers, TimerInv, OnStack, ChainTypeOK
  <2> QED
    BY <1>0, <2>1, <2>2, TimersUntouched
<1>3. CASE EnterRetry
  <2>1. /\ UNCHANGED <<timer, base>>
        /\ \/ UNCHANGED <<cancelling, cancels>>
           \/ cancelling' = cancelling + 1 /\ cancels' = cancels + 1
        /\ swallowed \subseteq swallowed'
    BY <1>0, <1>3 DEF EnterRetry, Enters, Deeper, Quiet, setting, layers
  <2>2. /\ \A i \in Layers : OnStack(i) /\ chain[i] = "timeout" => OnStack(i)'
        /\ phase' = "sleep" => at' \in Layers /\ attempt'[at'] < MaxRetries
        /\ phase' = "handler" => at' = Len(chain) + 1
        /\ phase' = "down" => at' > 0
    BY <1>0, <1>3
    DEF EnterRetry, Enters, Deeper, Quiet, setting, layers, TimerInv, OnStack,
        ChainTypeOK
  <2> QED
    BY <1>0, <2>1, <2>2, TimersUntouched
<1>4. CASE EnterTimeout
  <2>0. /\ phase = "down" /\ at \in Layers /\ chain[at] = "timeout" /\ timer[at] = "off"
        /\ timer' = [timer EXCEPT ![at] = "running"] /\ base' = [base EXCEPT ![at] = cancelling]
        /\ phase' = "down" /\ at' = at + 1 /\ UNCHANGED <<cancelling, cancels, swallowed>>
    BY <1>0, <1>4 DEF EnterTimeout, Enters, Deeper, Quiet, TimerInv, OnStack
  <2>1. /\ \A i \in Layers : Expired(i)' = Expired(i)
        /\ Expired(Len(chain) + 1)' = Expired(Len(chain) + 1)
    BY <1>0, <2>0 DEF Expired, ChainTypeOK
  <2>2. Expired(at) = Expired(Len(chain) + 1)
    BY <1>0, <2>0 DEF Expired, TimerInv, OnStack
  <2>3. "worker" \in swallowed \/ cancelling = Cardinality(Expired(at))
    <3>1. PICK e \in Nat : e = Cardinality(Expired(at))
      BY <1>0, ExpiredIsFinite
    <3>2. cancelling = cancels + e
      BY <1>0, <2>2, <3>1 DEF TimerInv
    <3>3. "worker" \in swallowed \/ cancels = 0
      BY <1>0, <2>0 DEF CancelInv
    <3> QED
      BY <1>0, <3>1, <3>2, <3>3
  <2>4. \A i \in Layers : timer'[i] # "off" =>
           "worker" \in swallowed \/ base'[i] <= Cardinality(Expired(i))
    <3>1. ASSUME NEW i \in Layers, i # at, timer'[i] # "off"
          PROVE  "worker" \in swallowed \/ base'[i] <= Cardinality(Expired(i))
      BY <1>0, <2>0, <3>1 DEF TimerInv, ChainTypeOK
    <3>2. "worker" \in swallowed \/ base'[at] <= Cardinality(Expired(at))
      BY <1>0, <2>0, <2>3 DEF ChainTypeOK
    <3> QED
      BY <3>1, <3>2
  <2>5. \A i \in Layers : timer'[i] # "off" => OnStack(i)' /\ chain[i] = "timeout"
    BY <1>0, <2>0 DEF TimerInv, OnStack, ChainTypeOK
  <2>6. cancelling' = cancels' + Cardinality(Expired(Len(chain) + 1)')
    BY <1>0, <2>0, <2>1 DEF TimerInv
  <2>7. phase' = "down" /\ at' > 0
    BY <1>0, <2>0
  <2> QED
    BY <1>0, <2>0, <2>1, <2>4, <2>5, <2>6, <2>7 DEF TimerInv
<1>5. CASE EnterObserver
  <2>1. /\ UNCHANGED <<timer, base>>
        /\ \/ UNCHANGED <<cancelling, cancels>>
           \/ cancelling' = cancelling + 1 /\ cancels' = cancels + 1
        /\ swallowed \subseteq swallowed'
    BY <1>0, <1>5 DEF EnterObserver, Enters, Deeper, Raise, Quiet, setting, layers
  <2>2. /\ \A i \in Layers : OnStack(i) /\ chain[i] = "timeout" => OnStack(i)'
        /\ phase' = "sleep" => at' \in Layers /\ attempt'[at'] < MaxRetries
        /\ phase' = "handler" => at' = Len(chain) + 1
        /\ phase' = "down" => at' > 0
    BY <1>0, <1>5
    DEF EnterObserver, Enters, Deeper, Raise, Quiet, setting, layers, TimerInv, OnStack,
        ChainTypeOK
  <2> QED
    BY <1>0, <2>1, <2>2, TimersUntouched
<1>6. CASE EnterDecrypt
  <2>1. /\ UNCHANGED <<timer, base>>
        /\ \/ UNCHANGED <<cancelling, cancels>>
           \/ cancelling' = cancelling + 1 /\ cancels' = cancels + 1
        /\ swallowed \subseteq swallowed'
    BY <1>0, <1>6 DEF EnterDecrypt, Enters, Deeper, Raise, Quiet, setting, layers
  <2>2. /\ \A i \in Layers : OnStack(i) /\ chain[i] = "timeout" => OnStack(i)'
        /\ phase' = "sleep" => at' \in Layers /\ attempt'[at'] < MaxRetries
        /\ phase' = "handler" => at' = Len(chain) + 1
        /\ phase' = "down" => at' > 0
    BY <1>0, <1>6
    DEF EnterDecrypt, Enters, Deeper, Raise, Quiet, setting, layers, TimerInv, OnStack,
        ChainTypeOK
  <2> QED
    BY <1>0, <2>1, <2>2, TimersUntouched
<1>7. CASE EnterHandler
  <2>1. /\ UNCHANGED <<timer, base>>
        /\ \/ UNCHANGED <<cancelling, cancels>>
           \/ cancelling' = cancelling + 1 /\ cancels' = cancels + 1
        /\ swallowed \subseteq swallowed'
    BY <1>0, <1>7 DEF EnterHandler, setting, layers
  <2>2. /\ \A i \in Layers : OnStack(i) /\ chain[i] = "timeout" => OnStack(i)'
        /\ phase' = "sleep" => at' \in Layers /\ attempt'[at'] < MaxRetries
        /\ phase' = "handler" => at' = Len(chain) + 1
        /\ phase' = "down" => at' > 0
    BY <1>0, <1>7 DEF EnterHandler, setting, layers, TimerInv, OnStack, ChainTypeOK
  <2> QED
    BY <1>0, <2>1, <2>2, TimersUntouched
<1>8. CASE LeaveRetry
  <2>1. /\ UNCHANGED <<timer, base>>
        /\ \/ UNCHANGED <<cancelling, cancels>>
           \/ cancelling' = cancelling + 1 /\ cancels' = cancels + 1
        /\ swallowed \subseteq swallowed'
    BY <1>0, <1>8 DEF LeaveRetry, Leaves, Outer, Quiet, setting, layers
  <2>2. /\ \A i \in Layers : OnStack(i) /\ chain[i] = "timeout" => OnStack(i)'
        /\ phase' = "sleep" => at' \in Layers /\ attempt'[at'] < MaxRetries
        /\ phase' = "handler" => at' = Len(chain) + 1
        /\ phase' = "down" => at' > 0
    BY <1>0, <1>8
    DEF LeaveRetry, Leaves, Outer, Quiet, setting, layers, TimerInv, OnStack,
        ChainTypeOK
  <2> QED
    BY <1>0, <2>1, <2>2, TimersUntouched
<1>9. CASE LeaveTimeout
  <2>0. /\ phase = "up" /\ at \in Layers /\ chain[at] = "timeout"
        /\ timer' = [timer EXCEPT ![at] = "off"]
        /\ cancelling' = IF timer[at] = "expired" THEN cancelling - 1 ELSE cancelling
        /\ phase' = "up" /\ at' = at - 1 /\ UNCHANGED <<base, cancels, swallowed>>
    BY <1>0, <1>9 DEF LeaveTimeout, Leaves, Outer
  <2> DEFINE all == Expired(Len(chain) + 1)
  <2>1. Expired(Len(chain) + 1)' = all \ {at}
    BY <1>0, <2>0 DEF Expired, ChainTypeOK
  <2>2. cancelling' = cancels' + Cardinality(all \ {at})
    <3>1. PICK e \in Nat : e = Cardinality(all)
      BY <1>0, ExpiredIsFinite
    <3>2. cancelling = cancels + e
      BY <1>0, <3>1 DEF TimerInv
    <3>3. at \in all <=> timer[at] = "expired"
      BY <1>0, <2>0 DEF Expired
    <3>4. IsFiniteSet(all)
      BY <1>0, ExpiredIsFinite
    <3>5. Cardinality(all \ {at}) = IF at \in all THEN e - 1 ELSE e
      BY <3>1, <3>4, FS_RemoveElement
    <3> HIDE DEF all
    <3> QED
      BY <1>0, <2>0, <3>1, <3>2, <3>3, <3>5
  <2>3. \A i \in Layers : timer'[i] # "off" => i < at /\ timer[i] # "off"
    BY <1>0, <2>0 DEF TimerInv, OnStack, ChainTypeOK
  <2>4. \A i \in Layers : i < at => Expired(i)' = Expired(i)
    BY <1>0, <2>0 DEF Expired, ChainTypeOK
  <2>5. \A i \in Layers : timer'[i] # "off" =>
           "worker" \in swallowed \/ base[i] <= Cardinality(Expired(i)')
    BY <1>0, <2>3, <2>4 DEF TimerInv
  <2>6. \A i \in Layers : timer'[i] # "off" => OnStack(i)' /\ chain[i] = "timeout"
    BY <1>0, <2>0, <2>3 DEF TimerInv, OnStack
  <2> HIDE DEF all
  <2> QED
    BY <1>0, <2>0, <2>1, <2>2, <2>5, <2>6 DEF TimerInv
<1>10. CASE LeaveMetrics \/ LeaveLogging
  <2>1. /\ UNCHANGED <<timer, base, cancelling, cancels, swallowed, attempt>>
        /\ phase = "up" /\ at \in Layers /\ chain[at] # "timeout"
        /\ phase' = "up" /\ at' = at - 1
    BY <1>0, <1>10, ObserverLeaves DEF Observers
  <2>2. \A i \in Layers : OnStack(i) /\ chain[i] = "timeout" => OnStack(i)'
    BY <1>0, <2>1 DEF OnStack
  <2> QED
    BY <1>0, <2>1, <2>2, TimersUntouched
<1>11. CASE LeaveDecrypt
  <2>1. /\ UNCHANGED <<timer, base>>
        /\ \/ UNCHANGED <<cancelling, cancels>>
           \/ cancelling' = cancelling + 1 /\ cancels' = cancels + 1
        /\ swallowed \subseteq swallowed'
    BY <1>0, <1>11 DEF LeaveDecrypt, Leaves, Outer, Quiet, setting, layers
  <2>2. /\ \A i \in Layers : OnStack(i) /\ chain[i] = "timeout" => OnStack(i)'
        /\ phase' = "sleep" => at' \in Layers /\ attempt'[at'] < MaxRetries
        /\ phase' = "handler" => at' = Len(chain) + 1
        /\ phase' = "down" => at' > 0
    BY <1>0, <1>11
    DEF LeaveDecrypt, Leaves, Outer, Quiet, setting, layers, TimerInv, OnStack,
        ChainTypeOK
  <2> QED
    BY <1>0, <2>1, <2>2, TimersUntouched
<1>12. CASE Finish
  <2>1. /\ UNCHANGED <<timer, base>>
        /\ \/ UNCHANGED <<cancelling, cancels>>
           \/ cancelling' = cancelling + 1 /\ cancels' = cancels + 1
        /\ swallowed \subseteq swallowed'
    BY <1>0, <1>12 DEF Finish, setting, layers
  <2>2. /\ \A i \in Layers : OnStack(i) /\ chain[i] = "timeout" => OnStack(i)'
        /\ phase' = "sleep" => at' \in Layers /\ attempt'[at'] < MaxRetries
        /\ phase' = "handler" => at' = Len(chain) + 1
        /\ phase' = "down" => at' > 0
    BY <1>0, <1>12 DEF Finish, setting, layers, TimerInv, OnStack, ChainTypeOK
  <2> QED
    BY <1>0, <2>1, <2>2, TimersUntouched
<1>13. CASE SleepEnds
  <2>1. /\ UNCHANGED <<timer, base>>
        /\ \/ UNCHANGED <<cancelling, cancels>>
           \/ cancelling' = cancelling + 1 /\ cancels' = cancels + 1
        /\ swallowed \subseteq swallowed'
    BY <1>0, <1>13 DEF SleepEnds, Deeper, Raise, Quiet, setting, layers
  <2>2. /\ \A i \in Layers : OnStack(i) /\ chain[i] = "timeout" => OnStack(i)'
        /\ phase' = "sleep" => at' \in Layers /\ attempt'[at'] < MaxRetries
        /\ phase' = "handler" => at' = Len(chain) + 1
        /\ phase' = "down" => at' > 0
    BY <1>0, <1>13
    DEF SleepEnds, Deeper, Raise, Quiet, setting, layers, TimerInv, OnStack, ChainTypeOK
  <2> QED
    BY <1>0, <2>1, <2>2, TimersUntouched
<1>14. CASE SleepCancelled
  <2>1. /\ UNCHANGED <<timer, base>>
        /\ \/ UNCHANGED <<cancelling, cancels>>
           \/ cancelling' = cancelling + 1 /\ cancels' = cancels + 1
        /\ swallowed \subseteq swallowed'
    BY <1>0, <1>14 DEF SleepCancelled, Raise, setting, layers
  <2>2. /\ \A i \in Layers : OnStack(i) /\ chain[i] = "timeout" => OnStack(i)'
        /\ phase' = "sleep" => at' \in Layers /\ attempt'[at'] < MaxRetries
        /\ phase' = "handler" => at' = Len(chain) + 1
        /\ phase' = "down" => at' > 0
    BY <1>0, <1>14
    DEF SleepCancelled, Raise, setting, layers, TimerInv, OnStack, ChainTypeOK
  <2> QED
    BY <1>0, <2>1, <2>2, TimersUntouched
<1>15. CASE HandlerCancelled
  <2>1. /\ UNCHANGED <<timer, base>>
        /\ \/ UNCHANGED <<cancelling, cancels>>
           \/ cancelling' = cancelling + 1 /\ cancels' = cancels + 1
        /\ swallowed \subseteq swallowed'
    BY <1>0, <1>15 DEF HandlerCancelled, Raise, setting, layers
  <2>2. /\ \A i \in Layers : OnStack(i) /\ chain[i] = "timeout" => OnStack(i)'
        /\ phase' = "sleep" => at' \in Layers /\ attempt'[at'] < MaxRetries
        /\ phase' = "handler" => at' = Len(chain) + 1
        /\ phase' = "down" => at' > 0
    BY <1>0, <1>15
    DEF HandlerCancelled, Raise, setting, layers, TimerInv, OnStack, ChainTypeOK
  <2> QED
    BY <1>0, <2>1, <2>2, TimersUntouched
<1>16. CASE HandlerEnds
  <2>1. /\ UNCHANGED <<timer, base>>
        /\ \/ UNCHANGED <<cancelling, cancels>>
           \/ cancelling' = cancelling + 1 /\ cancels' = cancels + 1
        /\ swallowed \subseteq swallowed'
    BY <1>0, <1>16 DEF HandlerEnds, Raise, setting, layers
  <2>2. /\ \A i \in Layers : OnStack(i) /\ chain[i] = "timeout" => OnStack(i)'
        /\ phase' = "sleep" => at' \in Layers /\ attempt'[at'] < MaxRetries
        /\ phase' = "handler" => at' = Len(chain) + 1
        /\ phase' = "down" => at' > 0
    BY <1>0, <1>16
    DEF HandlerEnds, Raise, setting, layers, TimerInv, OnStack, ChainTypeOK
  <2> QED
    BY <1>0, <2>1, <2>2, TimersUntouched
<1>17. CASE WorkerCancels
  <2>1. /\ UNCHANGED <<timer, base>>
        /\ \/ UNCHANGED <<cancelling, cancels>>
           \/ cancelling' = cancelling + 1 /\ cancels' = cancels + 1
        /\ swallowed \subseteq swallowed'
    BY <1>0, <1>17 DEF WorkerCancels, Suspended, setting, layers
  <2>2. /\ \A i \in Layers : OnStack(i) /\ chain[i] = "timeout" => OnStack(i)'
        /\ phase' = "sleep" => at' \in Layers /\ attempt'[at'] < MaxRetries
        /\ phase' = "handler" => at' = Len(chain) + 1
        /\ phase' = "down" => at' > 0
    BY <1>0, <1>17
    DEF WorkerCancels, Suspended, setting, layers, TimerInv, OnStack, ChainTypeOK
  <2> QED
    BY <1>0, <2>1, <2>2, TimersUntouched
<1>18. ASSUME NEW i \in Layers, TimerFires(i)
      PROVE  TimerInv'
  <2>0. /\ phase \in {"handler", "sleep"} /\ timer[i] = "running"
        /\ timer' = [timer EXCEPT ![i] = "expired"] /\ cancelling' = cancelling + 1
        /\ UNCHANGED <<phase, at, attempt, base, cancels, swallowed>>
    BY <1>0, <1>18 DEF TimerFires, Suspended
  <2> DEFINE all == Expired(Len(chain) + 1)
  <2>1. \A j \in Layers : Expired(j)' = IF i < j THEN Expired(j) \cup {i} ELSE Expired(j)
    BY <1>0, <2>0, <1>18 DEF Expired, ChainTypeOK
  <2>2. Expired(Len(chain) + 1)' = all \cup {i} /\ i \notin all
    BY <1>0, <2>0, <1>18 DEF Expired, ChainTypeOK
  <2>3. cancelling' = cancels' + Cardinality(all \cup {i})
    <3>1. PICK e \in Nat : e = Cardinality(all)
      BY <1>0, ExpiredIsFinite
    <3>2. cancelling = cancels + e
      BY <1>0, <3>1 DEF TimerInv
    <3>3. IsFiniteSet(all)
      BY <1>0, ExpiredIsFinite
    <3>4. Cardinality(all \cup {i}) = e + 1
      BY <2>2, <3>1, <3>3, FS_AddElement
    <3> HIDE DEF all
    <3> QED
      BY <1>0, <2>0, <3>1, <3>2, <3>4
  <2>4. ASSUME NEW j \in Layers, timer'[j] # "off"
        PROVE  "worker" \in swallowed \/ base[j] <= Cardinality(Expired(j)')
    <3>1. timer[j] # "off"
      BY <1>0, <2>0, <2>4 DEF ChainTypeOK
    <3>2. "worker" \in swallowed \/ base[j] <= Cardinality(Expired(j))
      BY <1>0, <3>1 DEF TimerInv
    <3>3. PICK e \in Nat : e = Cardinality(Expired(j))
      BY <1>0, ExpiredIsFinite
    <3>4. Cardinality(Expired(j)') >= e
      <4>1. IsFiniteSet(Expired(j)) /\ IsFiniteSet(Expired(j) \cup {i})
        BY <1>0, ExpiredIsFinite, FS_AddElement
      <4>2. Cardinality(Expired(j) \cup {i}) \in {e, e + 1}
        BY <3>3, <4>1, FS_AddElement
      <4>3. CASE i < j
        <5>1. Expired(j)' = Expired(j) \cup {i}
          BY <2>1, <4>3
        <5>2. Cardinality(Expired(j)') \in {e, e + 1}
          BY <4>2, <5>1
        <5> QED
          BY <3>3, <5>2
      <4>4. CASE ~(i < j)
        BY <2>1, <3>3, <4>4
      <4> QED
        BY <4>3, <4>4
    <3>5. Cardinality(Expired(j)') \in Nat
      BY <1>0, <2>1, <3>3, ExpiredIsFinite, FS_AddElement, FS_CardinalityType
    <3>6. base[j] \in Nat
      BY <1>0 DEF ChainTypeOK
    <3> QED
      BY <3>2, <3>3, <3>4, <3>5, <3>6
  <2>5. \A j \in Layers : timer'[j] # "off" => OnStack(j)' /\ chain[j] = "timeout"
    BY <1>0, <2>0 DEF TimerInv, OnStack, ChainTypeOK
  <2>6. /\ phase = "sleep" => at \in Layers /\ attempt[at] < MaxRetries
        /\ phase = "handler" => at = Len(chain) + 1
    BY <1>0 DEF TimerInv
  <2> HIDE DEF all
  <2> QED
    BY <1>0, <2>0, <2>2, <2>3, <2>4, <2>5, <2>6 DEF TimerInv
<1>19. CASE UNCHANGED chainVars
  <2>1. \A i \in Layers : OnStack(i)' = OnStack(i)
    BY <1>0, <1>19 DEF chainVars, OnStack
  <2> QED
    BY <1>0, <2>1, <1>19, TimersUntouched DEF chainVars, layers, TimerInv
<1> QED
  BY <1>1, <1>2, <1>3, <1>4, <1>5, <1>6, <1>7, <1>8, <1>9, <1>10, <1>11, <1>12, <1>13,
     <1>14, <1>15, <1>16, <1>17, <1>18, <1>19
  DEF ChainNext, Synchronous

-----------------------------------------------------------------------------
(* The invariant is inductive, for any chain of layers.                         *)
THEOREM ExecutionInvariance == ChainSpec => []ExecutionInv
<1>1. ASSUME ExecutionInv, [ChainNext]_chainVars
      PROVE  ExecutionInv'
  BY <1>1, ChainTypesKept, TimersKept, CancelsKept, SuccessKept, SealsKept,
     ObserversKept
  DEF ExecutionInv
<1> QED
  BY <1>1, ChainStarts, PTL DEF ChainSpec

(* Behind the decryption middleware the handler gets plain arguments, and a key *)
(* that fits is refused only to a job that was opened before and looks          *)
(* encrypted still (_decrypt_mw).                                               *)
THEOREM PlaintextReachesHandlers == ChainSpec => []HandlerSeesPlaintext
<1>1. ASSUME ExecutionInv PROVE HandlerSeesPlaintext
  <2>1. ChainTypeOK /\ SealInv /\ TimerInv
    BY <1>1 DEF ExecutionInv
  <2>2. ASSUME seals <= 1, phase = "handler", NEW i \in Layers, chain[i] = "decrypt"
        PROVE  depth = 0
    BY <2>1, <2>2, ChainIsASequence DEF SealInv, TimerInv, OnStack
  <2> QED
    BY <2>1, <2>2 DEF HandlerSeesPlaintext, SealInv
<1> QED
  BY <1>1, ExecutionInvariance, PTL

(* The outermost observers do not contradict what is reported to the backend,   *)
(* and miss the end only if their recorder failed (metrics_middleware,          *)
(* logging_middleware, opentelemetry_middleware).                               *)
THEOREM OutcomesAreCounted == ChainSpec => []OutcomeCounted
<1>1. ASSUME ExecutionInv PROVE OutcomeCounted
  <2> SUFFICES ASSUME NEW i \in Layers, phase = "done", Outermost(i)
               PROVE  /\ counted[i] = "completed" => Outcome = "ack"
                      /\ counted[i] = "failed" => Outcome = "handler_error"
                      /\ counted[i] = "started" =>
                           chain[i] = "metrics" \/ result \in {"cancelled", "recorder"}
    BY DEF OutcomeCounted
  <2>1. /\ counted[i] \in {"none", "started", Record(result, "started")}
        /\ counted[i] = "started" =>
             chain[i] = "metrics" \/ result \in {"cancelled", "recorder"}
    BY <1>1 DEF ExecutionInv, ObserverInv
  <2>2. result \in Exceptions \cup {"value", "cancelled"}
    BY <1>1 DEF ExecutionInv, ChainTypeOK
  <2> QED
    BY <2>1, <2>2 DEF Record, Outcome, Exceptions
<1> QED
  BY <1>1, ExecutionInvariance, PTL

(* A cancellation by the worker ends the execution and is reported as such,     *)
(* whatever timeouts expire around it (timeout.py, ExecutionRetry.run).         *)
THEOREM CancellationPrevails == ChainSpec => CancelPrevails
<1> DEFINE Ends == cancels > 0 /\ "worker" \notin swallowed =>
                     /\ ~HandlerStarts
                     /\ phase' = "done" => Outcome = "cancelled"
<1>1. ASSUME ExecutionInv, [ChainNext]_chainVars
      PROVE  [Ends]_chainVars
  <2> SUFFICES ASSUME cancels > 0, "worker" \notin swallowed, ~UNCHANGED chainVars
               PROVE  ~HandlerStarts /\ (phase' = "done" => Outcome = "cancelled")
    OBVIOUS
  <2>1. \/ phase \in {"handler", "sleep"}
        \/ phase \in {"up", "done"} /\ result = "cancelled"
    BY <1>1 DEF ExecutionInv, CancelInv
  <2>2. /\ phase' = "handler" => phase \in {"down", "handler"}
        /\ phase' = "done" => phase \in {"up", "done"}
    BY <1>1 DEF ChainNext, Seal, Start, Synchronous, EnterRetry, EnterTimeout,
       EnterObserver, EnterDecrypt, EnterHandler, LeaveRetry, LeaveTimeout, LeaveMetrics,
       LeaveLogging, LeaveDecrypt, Finish, SleepEnds, SleepCancelled, HandlerCancelled,
       HandlerEnds, WorkerCancels, TimerFires, Quiet, Enters, Leaves, Deeper, Raise, Outer,
       Recorded
  <2> QED
    BY <2>1, <2>2 DEF HandlerStarts, Outcome
<1> QED
  BY <1>1, ExecutionInvariance, PTL DEF ChainSpec, CancelPrevails

(* A handler that succeeded is neither started again nor reported as failed,    *)
(* unless an observer other than metrics with fail_open is in the chain         *)
(* (_record_metric, the try of the OpenTelemetry and the logging middleware).   *)
THEOREM SuccessesAreKept == ChainSpec => SuccessIsKept
<1> DEFINE again == \E kind \in Loud : Encloses("retry", kind)
           Kept == lastRun = "value" =>
                     /\ HandlerStarts => again
                     /\ phase' = "done" =>
                          \/ Outcome = "ack"
                          \/ again
                          \/ result = "recorder" /\ \E i \in Layers : chain[i] \in Loud
<1>1. ASSUME ExecutionInv, [ChainNext]_chainVars
      PROVE  [Kept]_chainVars
  <2> SUFFICES ASSUME lastRun = "value", ~again, ~UNCHANGED chainVars
               PROVE  /\ ~HandlerStarts
                      /\ phase' = "done" =>
                           \/ Outcome = "ack"
                           \/ result = "recorder" /\ \E i \in Layers : chain[i] \in Loud
    OBVIOUS
  <2>1. /\ phase \in {"up", "done"}
        /\ \/ result = "value"
           \/ result = "recorder" /\ \E s \in Layers : chain[s] \in Loud
    BY <1>1 DEF ExecutionInv, SuccessInv
  <2>2. phase' = "handler" => phase \in {"down", "handler"}
    BY <1>1 DEF ChainNext, Seal, Start, Synchronous, EnterRetry, EnterTimeout,
       EnterObserver, EnterDecrypt, EnterHandler, LeaveRetry, LeaveTimeout, LeaveMetrics,
       LeaveLogging, LeaveDecrypt, Finish, SleepEnds, SleepCancelled, HandlerCancelled,
       HandlerEnds, WorkerCancels, TimerFires, Quiet, Enters, Leaves, Deeper, Raise, Outer,
       Recorded
  <2> QED
    BY <2>1, <2>2 DEF HandlerStarts, Outcome
<1> QED
  BY <1>1, ExecutionInvariance, PTL DEF ChainSpec, SuccessIsKept
=============================================================================
