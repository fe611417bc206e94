----------------------------- MODULE SSESession -----------------------------
(***************************************************************************)
(* A Server-Sent Events subscription (ojs.sse): the frame parser of one    *)
(* connection and the session that reconnects, against a server that       *)
(* holds a history of blocks and replays what follows the Last-Event-ID it *)
(* is sent.  A connection can end between any two lines.                   *)
(*                                                                         *)
(* A block's id, when it sets one, is its position in the history; 0 is    *)
(* the empty id.                                                           *)
(***************************************************************************)
EXTENDS Naturals, Sequences

CONSTANTS
    Length,         \* bound: blocks in the server's history
    MaxReconnects   \* max_reconnects

ASSUME SessionAssumption == Length \in Nat /\ MaxReconnects \in Nat

VARIABLES
    history,     \* the server's blocks
    reconnect,   \* the session's reconnect option
    raising,     \* malformed_data = "raise"
    subscription, \* events(): "connect", "open", "sleep", or ended "done"/"raised"
    reconnects,  \* its count of reconnections
    lastId,      \* its last_event_id
    pos,         \* block the server is sending
    read,        \* fields of it the parser has been fed
    buffer,      \* SSEFrameParser._last_event_id
    delivered,   \* positions of the events yielded
    latest       \* position of the last event yielded

session == <<subscription, reconnects, lastId>>
parser  == <<pos, read, buffer>>
output  == <<delivered, latest>>
options == <<history, reconnect, raising>>
sessionVars    == <<options, session, parser, output>>

Blocks == [id : {"none", "set", "reset"}, data : {"none", "event", "malformed"}]

Fields(b) == (IF b.id = "none" THEN {} ELSE {"id"})
             \cup (IF b.data = "none" THEN {} ELSE {"data"})

SessionInit ==
    /\ history \in [1..Length -> Blocks]
    /\ reconnect \in BOOLEAN /\ raising \in BOOLEAN
    /\ subscription = "connect" /\ reconnects = 0 /\ lastId = 0
    /\ pos = 1 /\ read = {} /\ buffer = 0
    /\ delivered = {} /\ latest = 0

-----------------------------------------------------------------------------
(* SubscriptionSession.events *)

\* The stream opens, with Last-Event-ID when it is not empty: the server replays
\* the blocks after that one, and a fresh parser is seeded with the id.
Open ==
    /\ subscription = "connect"
    /\ subscription' = "open"
    /\ pos' = lastId + 1 /\ read' = {} /\ buffer' = lastId
    /\ UNCHANGED <<options, reconnects, lastId, output>>

\* 204 ends the subscription whatever the policy; an error status is raised.
OpenRefused ==
    /\ subscription = "connect"
    /\ subscription' \in {"done", "raised"}
    /\ UNCHANGED <<options, reconnects, lastId, parser, output>>

\* (mutant) a delivered event gives the session its attempts back.
RetryOrForgiving(ending) ==
    /\ IF reconnect /\ (reconnects < MaxReconnects \/ latest > 0)
       THEN subscription' = "sleep" /\ reconnects' = IF latest > 0 THEN 1 ELSE reconnects + 1
       ELSE subscription' = ending /\ UNCHANGED reconnects
    /\ UNCHANGED <<options, lastId, parser, output>>

\* A reconnection if the policy has one left, otherwise the end.
RetryOr(ending) ==
    /\ IF reconnect /\ reconnects < MaxReconnects
       THEN subscription' = "sleep" /\ reconnects' = reconnects + 1
       ELSE subscription' = ending /\ UNCHANGED reconnects
    /\ UNCHANGED <<options, lastId, parser, output>>

\* A connection error or timeout, while connecting or between two lines.
ConnectionLost == subscription \in {"connect", "open"} /\ RetryOr("raised")

\* (mutant) the session takes over the id of a frame cut off by the end of file.
EndOfStreamKeepsId ==
    /\ subscription = "open"
    /\ IF reconnect /\ reconnects < MaxReconnects
       THEN subscription' = "sleep" /\ reconnects' = reconnects + 1
       ELSE subscription' = "done" /\ UNCHANGED reconnects
    /\ lastId' = buffer
    /\ UNCHANGED <<options, parser, output>>

\* The server ends the stream; finish() discards a frame cut off by it.
EndOfStream == subscription = "open" /\ RetryOr("done")

Reconnect ==
    /\ subscription = "sleep"
    /\ subscription' = "connect"
    /\ UNCHANGED <<options, reconnects, lastId, parser, output>>

\* The consumer cancels, or closes the generator.
Cancelled ==
    /\ subscription \in {"connect", "open", "sleep"}
    /\ subscription' = "done"
    /\ UNCHANGED <<options, reconnects, lastId, parser, output>>

-----------------------------------------------------------------------------
(* SSEFrameParser.feed, one line at a time *)

Sending == subscription = "open" /\ pos <= Length

FeedId ==
    /\ Sending /\ "id" \in Fields(history[pos]) \ read
    /\ buffer' = IF history[pos].id = "set" THEN pos ELSE 0
    /\ read' = read \cup {"id"}
    /\ UNCHANGED <<options, session, pos, output>>

FeedData ==
    /\ Sending /\ "data" \in Fields(history[pos]) \ read
    /\ read' = read \cup {"data"}
    /\ UNCHANGED <<options, session, pos, buffer, output>>

NextBlock == pos' = pos + 1 /\ read' = {}

\* The blank line of a block with data: the event takes the buffer's id, the
\* session takes the event's, and the consumer gets it.
Yield ==
    /\ Sending /\ read = Fields(history[pos]) /\ "data" \in read
    /\ raising => history[pos].data = "event"
    /\ lastId' = buffer
    /\ delivered' = delivered \cup {pos} /\ latest' = pos
    /\ NextBlock
    /\ UNCHANGED <<options, subscription, reconnects, buffer>>

\* The blank line of a block without data dispatches nothing.
Discard ==
    /\ Sending /\ read = Fields(history[pos]) /\ "data" \notin read
    /\ NextBlock
    /\ UNCHANGED <<options, session, buffer, delivered, latest>>

\* SSEDataError, under the strict policy.
Malformed ==
    /\ Sending /\ read = Fields(history[pos])
    /\ raising /\ history[pos].data = "malformed"
    /\ subscription' = "raised"
    /\ UNCHANGED <<options, reconnects, lastId, parser, output>>

-----------------------------------------------------------------------------
Connecting == Open \/ OpenRefused \/ ConnectionLost \/ EndOfStream \/ Reconnect
Feeding    == FeedId \/ FeedData \/ Yield \/ Discard \/ Malformed

SessionNext == Connecting \/ Cancelled \/ Feeding

SessionSpec == SessionInit /\ [][SessionNext]_sessionVars

\* The session's own steps: a request is answered, and the delay ends.
SessionFairness ==
    WF_sessionVars(Open \/ OpenRefused \/ ConnectionLost) /\ WF_sessionVars(Reconnect)

-----------------------------------------------------------------------------
(* Properties *)

Ended == subscription \in {"done", "raised"}

\* No block from i on to j has an id field.
Unnamed(i, j) == \A k \in i..j : history[k].id = "none"

\* The id in force after block i, as the processing model defines it over the
\* whole history: that of the last block up to it that has an id field.
InForce(id, i) ==
    \/ id \in 1..i /\ history[id].id = "set" /\ Unnamed(id + 1, i)
    \/ /\ id = 0
       /\ \/ Unnamed(1, i)
          \/ \E r \in 1..i : history[r].id = "reset" /\ Unnamed(r + 1, i)

\* Every variable keeps its type, and the session never reconnects more often
\* than its policy allows.
SessionTypeOK ==
    /\ history \in [1..Length -> Blocks] /\ reconnect \in BOOLEAN /\ raising \in BOOLEAN
    /\ subscription \in {"connect", "open", "sleep", "done", "raised"}
    /\ reconnects \in 0..(IF reconnect THEN MaxReconnects ELSE 0)
    /\ lastId \in 0..Length /\ buffer \in 0..Length /\ pos \in 1..(Length + 1)
    /\ read \subseteq {"id", "data"}
    /\ delivered \subseteq 1..Length /\ latest \in 0..Length

\* No event is lost at a reconnection: when an event has been yielded, so has
\* every event before it, wherever the connections were cut
\* (subscription_session.py 121-155, frame_parser.py 77-87).
NoGap ==
    \A i \in delivered : \A j \in 1..i :
        history[j].data # "none" => j \in delivered

\* The incremental parsers of all connections together compute the id of the
\* processing model over the whole history: inherited when absent, reset when
\* empty, across cut frames and reconnections (frame_parser.py 54-75,
\* subscription_session.py 127-137).
IdIsSticky == latest > 0 => InForce(lastId, latest)

\* A consumer gets the server's events, none left out at a reconnection and each
\* under the id the server gave it (subscription_session.py 121-155,
\* frame_parser.py 54-87).
EventsAsSent == NoGap /\ IdIsSticky

\* A subscription does not flap for ever: it stays open or ends
\* (subscription_session.py 138-158).
SubscriptionSettles == <>[](subscription = "open" \/ Ended)

-----------------------------------------------------------------------------
(* The inductive invariant behind NoGap and IdIsSticky *)

\* What the current connection has been through, and what a next one would skip,
\* has been yielded.
CoverageInv ==
    /\ subscription = "open" =>
          \A j \in 1..(pos - 1) : history[j].data # "none" => j \in delivered
    /\ \A j \in 1..lastId : history[j].data # "none" => j \in delivered

\* The buffer holds the id in force at the line the parser has reached, and the
\* session's id is one it can resume from.
BufferInv ==
    /\ subscription = "open" =>
          InForce(buffer, IF "id" \in read THEN pos ELSE pos - 1)
    /\ subscription = "open" /\ read # {} => pos <= Length /\ read \subseteq Fields(history[pos])
    /\ lastId > 0 => history[lastId].id = "set"

\* The invariant the proofs carry from line to line (frame_parser.py 54-106,
\* subscription_session.py 121-155).
IInv == SessionTypeOK /\ NoGap /\ IdIsSticky /\ CoverageInv /\ BufferInv
=============================================================================
