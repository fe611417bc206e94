-------------------------- MODULE SSESessionProofs --------------------------
(* Proofs that no event is lost at a reconnection and that ids are sticky, *)
(* for every history and every reconnection policy.                        *)
EXTENDS SSESession, TLAPS

\* A block without an id leaves the id in force as it was.
LEMMA UnnamedKeeps ==
  ASSUME NEW id \in Nat, NEW i \in Nat \ {0}, InForce(id, i - 1),
         history[i].id = "none"
  PROVE  InForce(id, i)
  <1>1. \A n \in 1..i : Unnamed(n, i - 1) => Unnamed(n, i)
    BY DEF Unnamed
  <1>2. Unnamed(i + 1, i)
    BY DEF Unnamed
  <1> QED BY <1>1, <1>2 DEF InForce

\* A block with an id puts it, or the empty one, in force.
LEMMA NamedTakes ==
  ASSUME NEW i \in Nat \ {0}, history[i].id # "none"
  PROVE  /\ history[i].id = "set" => InForce(i, i)
         /\ history[i].id = "reset" => InForce(0, i)
  BY DEF InForce, Unnamed

\* The id a session resumes from is in force at its own block.
LEMMA ResumeIsInForce ==
  ASSUME SessionTypeOK, lastId > 0 => history[lastId].id = "set"
  PROVE  InForce(lastId, lastId)
  BY SessionAssumption DEF SessionTypeOK, InForce, Unnamed

\* Steps of the session that read nothing from the stream keep the invariant.
LEMMA IdleKeepsIInv ==
  ASSUME IInv, UNCHANGED <<options, lastId, parser, output>>, subscription' # "open",
         subscription' \in {"connect", "sleep", "done", "raised"},
         reconnects' \in 0..(IF reconnect THEN MaxReconnects ELSE 0)
  PROVE  IInv'
  BY DEF IInv, SessionTypeOK, NoGap, IdIsSticky, CoverageInv, BufferInv, InForce, Unnamed,
         options, parser, output

\* Nor does losing or finishing a connection disturb it (_can_reconnect).
LEMMA RetryKeepsIInv ==
  ASSUME IInv, NEW ending \in {"done", "raised"}, RetryOr(ending)
  PROVE  IInv'
  <1>1. reconnects' \in 0..(IF reconnect THEN MaxReconnects ELSE 0)
    BY SessionAssumption DEF RetryOr, IInv, SessionTypeOK
  <1>2. subscription' \in {"sleep", "done", "raised"}
    BY DEF RetryOr
  <1> QED BY <1>1, <1>2, IdleKeepsIInv DEF RetryOr

\* A subscription starts in the invariant.
LEMMA InitIInv == SessionInit => IInv
  BY SessionAssumption
  DEF SessionInit, IInv, SessionTypeOK, NoGap, IdIsSticky, CoverageInv, BufferInv

\* Every line fed and every step of the session preserves it.
LEMMA StepIInv == IInv /\ [SessionNext]_sessionVars => IInv'
  <1> SUFFICES ASSUME IInv, [SessionNext]_sessionVars PROVE IInv'
    OBVIOUS
  <1> USE SessionAssumption DEF IInv
  <1>0. CASE UNCHANGED options /\ (FeedId \/ FeedData \/ Yield \/ Discard)
    <2> /\ pos \in 1..Length /\ history[pos] \in Blocks
        /\ subscription = "open" /\ subscription' = "open"
      BY <1>0 DEF SessionTypeOK, FeedId, FeedData, Yield, Discard, Sending, session
    <2> history' = history /\ reconnect' = reconnect /\ raising' = raising
      BY <1>0 DEF options
    <2>1. CASE FeedId
      <3>1. SessionTypeOK'
        BY <2>1 DEF SessionTypeOK, FeedId, session, output
      <3>2. NoGap' /\ IdIsSticky' /\ CoverageInv'
        BY <2>1 DEF NoGap, IdIsSticky, CoverageInv, FeedId, session, output, InForce,
                    Unnamed
      <3>3. history[pos].id # "none" /\ read' = read \cup {"id"} /\ pos' = pos
        BY <2>1 DEF FeedId, Fields
      <3>4. InForce(buffer', pos)
        BY <2>1, <3>3, NamedTakes DEF FeedId, Blocks
      <3>5. BufferInv'
        BY <2>1, <3>3, <3>4
        DEF BufferInv, FeedId, Fields, session, InForce, Unnamed
      <3> QED BY <3>1, <3>2, <3>5
    <2>2. CASE FeedData
      <3>1. SessionTypeOK'
        BY <2>2 DEF SessionTypeOK, FeedData, session, output
      <3>2. NoGap' /\ IdIsSticky' /\ CoverageInv'
        BY <2>2 DEF NoGap, IdIsSticky, CoverageInv, FeedData, session, output, InForce,
                    Unnamed
      <3>3. BufferInv'
        BY <2>2 DEF BufferInv, FeedData, session, InForce, Unnamed
      <3> QED BY <3>1, <3>2, <3>3
    <2>3. ASSUME read = Fields(history[pos]) PROVE InForce(buffer, pos)
      <3>1. CASE "id" \in read
        BY <3>1 DEF BufferInv
      <3>2. CASE "id" \notin read
        <4>1. history[pos].id = "none"
          BY <2>3, <3>2 DEF Fields
        <4>2. InForce(buffer, pos - 1) /\ buffer \in Nat
          BY <3>2 DEF BufferInv, SessionTypeOK
        <4> QED BY <4>1, <4>2, UnnamedKeeps
      <3> QED BY <3>1, <3>2
    <2>4. CASE Yield
      <3>1. /\ InForce(buffer, pos) /\ lastId' = buffer /\ buffer' = buffer
            /\ pos' = pos + 1 /\ read' = {} /\ latest' = pos
            /\ delivered' = delivered \cup {pos}
        BY <2>3, <2>4 DEF Yield, NextBlock
      <3>2. SessionTypeOK'
        BY <2>4, <3>1 DEF SessionTypeOK, Yield, NextBlock
      <3>3. \A j \in 1..pos : history[j].data # "none" => j \in delivered'
        BY <3>1 DEF CoverageInv, SessionTypeOK
      <3>4. NoGap'
        BY <3>1, <3>3 DEF NoGap, SessionTypeOK
      <3>5. IdIsSticky'
        BY <3>1 DEF IdIsSticky, InForce, Unnamed
      <3>6. buffer > 0 => buffer \in 1..pos /\ history[buffer].id = "set"
        BY <3>1 DEF InForce
      <3>7. CoverageInv'
        BY <3>1, <3>3, <3>6 DEF CoverageInv, SessionTypeOK
      <3>8. BufferInv'
        BY <3>1, <3>6 DEF BufferInv, InForce, Unnamed
      <3> QED BY <3>2, <3>4, <3>5, <3>7, <3>8
    <2>5. CASE Discard
      <3>1. /\ InForce(buffer, pos) /\ lastId' = lastId /\ buffer' = buffer
            /\ pos' = pos + 1 /\ read' = {} /\ latest' = latest
            /\ delivered' = delivered /\ history[pos].data = "none"
        BY <2>3, <2>5 DEF Discard, NextBlock, session, Fields
      <3>2. SessionTypeOK'
        BY <2>5, <3>1 DEF SessionTypeOK, Discard, NextBlock, session
      <3>3. NoGap' /\ IdIsSticky'
        BY <3>1 DEF NoGap, IdIsSticky, InForce, Unnamed
      <3>4. CoverageInv'
        BY <3>1 DEF CoverageInv, SessionTypeOK
      <3>5. BufferInv'
        BY <3>1 DEF BufferInv, InForce, Unnamed
      <3> QED BY <3>2, <3>3, <3>4, <3>5
    <2> QED BY <1>0, <2>1, <2>2, <2>4, <2>5
  <1>1. CASE Open
    <2>1. /\ subscription' = "open" /\ pos' = lastId + 1 /\ read' = {} /\ buffer' = lastId
          /\ UNCHANGED <<options, reconnects, lastId, output>>
      BY <1>1 DEF Open
    <2>2. SessionTypeOK'
      BY <2>1 DEF SessionTypeOK, options, output
    <2>3. NoGap' /\ IdIsSticky' /\ CoverageInv'
      BY <2>1 DEF NoGap, IdIsSticky, CoverageInv, SessionTypeOK, options, output, InForce,
                  Unnamed
    <2>4. InForce(lastId, lastId)
      BY ResumeIsInForce DEF BufferInv
    <2>5. BufferInv'
      BY <2>1, <2>4 DEF BufferInv, SessionTypeOK, options, InForce, Unnamed
    <2> QED BY <2>2, <2>3, <2>5
  <1>2. CASE OpenRefused \/ Reconnect \/ Cancelled \/ Malformed
    <2>1. /\ UNCHANGED <<options, reconnects, lastId, parser, output>>
          /\ subscription' \in {"connect", "done", "raised"}
      BY <1>2 DEF OpenRefused, Reconnect, Cancelled, Malformed
    <2>2. reconnects' \in 0..(IF reconnect THEN MaxReconnects ELSE 0)
      BY <2>1 DEF SessionTypeOK
    <2> QED BY <2>1, <2>2, IdleKeepsIInv
  <1>3. CASE ConnectionLost \/ EndOfStream
    BY <1>3, RetryKeepsIInv DEF ConnectionLost, EndOfStream
  <1>4. CASE UNCHANGED sessionVars
    BY <1>4 DEF sessionVars, options, session, parser, output, SessionTypeOK, NoGap, IdIsSticky,
                CoverageInv, BufferInv, InForce, Unnamed
  <1>5. FeedId \/ FeedData \/ Yield \/ Discard => UNCHANGED options
    BY DEF FeedId, FeedData, Yield, Discard
  <1> QED BY <1>0, <1>1, <1>2, <1>3, <1>4, <1>5 DEF SessionNext, Connecting, Feeding

\* The inductive invariant of a subscription holds in every reachable state.
THEOREM SessionInvariance == SessionSpec => []IInv
  BY InitIInv, StepIInv, PTL DEF SessionSpec

\* Types, and never more reconnections than the policy allows
\* (subscription_session.py, _can_reconnect).
THEOREM SessionTypes == SessionSpec => []SessionTypeOK
  <1>1. IInv => SessionTypeOK
    BY DEF IInv
  <1> QED BY <1>1, SessionInvariance, PTL

\* No event is lost at a reconnection, wherever a connection is cut and whatever
\* the blocks before it hold (subscription_session.py, events).
THEOREM NoEventIsLost == SessionSpec => []NoGap
  <1>1. IInv => NoGap
    BY DEF IInv
  <1> QED BY <1>1, SessionInvariance, PTL

\* Every event carries the id the processing model defines over the history
\* (frame_parser.py, feed and _dispatch).
THEOREM IdsAreSticky == SessionSpec => []IdIsSticky
  <1>1. IInv => IdIsSticky
    BY DEF IInv
  <1> QED BY <1>1, SessionInvariance, PTL

\* A consumer gets the server's events, all of them and under their own ids
\* (subscription_session.py, events; frame_parser.py, feed).
THEOREM EventsArriveAsSent == SessionSpec => []EventsAsSent
  <1>1. IInv => EventsAsSent
    BY DEF IInv, EventsAsSent
  <1> QED BY <1>1, SessionInvariance, PTL
=============================================================================
