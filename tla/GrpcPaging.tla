----------------------------- MODULE GrpcPaging -----------------------------
(* Listings over gRPC: collect_offset_page and slice_offset_page (paging.py),   *)
(* which give offset pages from cursors, and the loop of list_queues. The list  *)
(* may change between two pages; a faulty server answers with any cursor.       *)
EXTENDS Integers, FiniteSets, Sequences

CONSTANTS
    MaxId,       \* items are numbered in the order the server lists them
    MaxLimit,    \* bound: limits and offsets asked for
    MaxChanges   \* bound: items added or removed during one listing

ASSUME PagingAssumption == MaxId \in Nat \ {0} /\ MaxLimit \in Nat \ {0} /\ MaxChanges \in Nat

VARIABLES
    listing,       \* the call: operation, limit, offset, and whether the server is honest
    items,         \* the server's list
    stable,        \* items that have been in it since the call began
    changes,       \* changes made to it since then
    remainingSkip, \* remaining_skip
    collected,     \* collected, or queues
    cursor,        \* cursor, 0 for none
    seenCursors,   \* seen_cursors
    pageState      \* "idle", "paging", "done", "rejected" or "raised"

pagingVars == <<listing, items, stable, changes, remainingSkip, collected, cursor,
                seenCursors, pageState>>

Ids == 1 .. MaxId
InOrder(S) == CHOOSE s \in [1 .. Cardinality(S) -> S] :
    \A a, b \in DOMAIN s : a < b => s[a] < s[b]

Listings ==
    [op : {"dead_letter", "cron"}, limit : 0 .. MaxLimit, offset : -1 .. MaxLimit,
     honest : {TRUE}]
    \cup [op : {"dead_letter"}, limit : {MaxLimit}, offset : {1}, honest : {FALSE}]
    \cup [op : {"queues"}, limit : {MaxId}, offset : {0}, honest : BOOLEAN]

(* collect_offset_page and slice_offset_page reject the same limits and offsets. *)
Rejected(l) == l.limit < 1 \/ l.offset < 0

PagingTypeOK ==
    /\ listing \in Listings /\ items \subseteq Ids /\ stable \subseteq items
    /\ changes \in 0 .. MaxChanges /\ remainingSkip \in -1 .. MaxLimit
    /\ collected \in Seq(Ids) /\ cursor \in 0 .. MaxId /\ seenCursors \subseteq Ids
    /\ pageState \in {"idle", "paging", "done", "rejected", "raised"}

PagingStart(state) ==
    /\ stable = items /\ changes = 0 /\ remainingSkip = listing.offset
    /\ collected = << >> /\ cursor = 0 /\ seenCursors = {}
    /\ pageState = state

PagingInit ==
    /\ listing \in Listings
    /\ items \in IF listing.honest THEN SUBSET Ids ELSE {Ids}
    /\ PagingStart(IF Rejected(listing) THEN "rejected" ELSE "paging")

NoListing ==
    /\ listing = [op |-> "queues", limit |-> MaxId, offset |-> 0, honest |-> TRUE]
    /\ items = {}
    /\ PagingStart("idle")

(* limit and skip both count against what is asked of the server; list_queues   *)
(* takes whatever page comes.                                                   *)
Wanted ==
    IF listing.op = "queues" THEN MaxId ELSE listing.limit - Len(collected)
Requested == remainingSkip + Wanted

(* An honest server answers with the items that follow the cursor, at most as   *)
(* many as asked and at least one if there is one, and with a cursor while more *)
(* follow, or until it finds that none does.                                    *)
HonestPages ==
    LET after == InOrder({i \in items : i > cursor})
    IN {[items |-> SubSeq(after, 1, k),
         next |-> IF k = 0 THEN 0 ELSE IF said THEN after[k] ELSE 0] :
           k \in (IF after = << >> THEN {0}
                  ELSE 1 .. (IF Requested < Len(after) THEN Requested ELSE Len(after))),
           said \in BOOLEAN}
HonestPage(page) ==
    /\ page \in HonestPages
    /\ (page.next = 0 /\ Len(page.items) > 0) =>
          \A i \in items : i <= page.items[Len(page.items)]

(* A faulty one sends the same item again, or nothing, and any cursor. *)
FaultyPages == [items : {<< >>, <<1>>}, next : 0 .. MaxId]

\* (mutant) The whole offset is taken off every page.
SkippedWhole(page) == IF listing.offset < Len(page) THEN listing.offset ELSE Len(page)

Skipped(page) == IF remainingSkip < Len(page) THEN remainingSkip ELSE Len(page)

\* (mutant) The cursors are not remembered.
NeverRepeated(next) == FALSE

Repeated(next) == next \in seenCursors

(* One turn of the loop: what is left of the offset comes off the page, what is *)
(* wanted is kept, and the next cursor is followed unless it was followed once. *)
NextPage ==
    /\ pageState = "paging" /\ listing.op # "cron"
    /\ \E page \in IF listing.honest THEN HonestPages ELSE FaultyPages :
          /\ listing.honest => HonestPage(page)
          /\ LET kept == SubSeq(page.items, Skipped(page.items) + 1, Len(page.items))
                 full == listing.op # "queues" /\ Len(kept) >= Wanted
             IN /\ remainingSkip' = remainingSkip - Skipped(page.items)
                /\ collected' = collected \o (IF full THEN SubSeq(kept, 1, Wanted) ELSE kept)
                /\ \/ /\ full \/ page.next = 0
                      /\ pageState' = "done"
                      /\ UNCHANGED <<cursor, seenCursors>>
                   \/ /\ ~full /\ page.next # 0 /\ Repeated(page.next)
                      /\ pageState' = "raised"
                      /\ UNCHANGED <<cursor, seenCursors>>
                   \/ /\ ~full /\ page.next # 0 /\ ~Repeated(page.next)
                      /\ cursor' = page.next
                      /\ seenCursors' = seenCursors \cup {page.next}
                      /\ UNCHANGED pageState
    /\ UNCHANGED <<listing, items, stable, changes>>

(* slice_offset_page, over the one answer of ListCron. *)
SliceOffsetPage(seq, limit, offset) ==
    SubSeq(seq, offset + 1, IF offset + limit < Len(seq) THEN offset + limit ELSE Len(seq))

SlicePage ==
    /\ pageState = "paging" /\ listing.op = "cron"
    /\ collected' = SliceOffsetPage(InOrder(items), listing.limit, listing.offset)
    /\ pageState' = "done"
    /\ UNCHANGED <<listing, items, stable, changes, remainingSkip, cursor, seenCursors>>

(* Other clients add and remove items between two pages. *)
ListChanges ==
    /\ pageState = "paging" /\ listing.honest /\ listing.op # "cron"
    /\ changes < MaxChanges
    /\ changes' = changes + 1
    /\ \E i \in Ids :
          \/ i \in items /\ items' = items \ {i} /\ stable' = stable \ {i}
          \/ i \notin items /\ items' = items \cup {i} /\ UNCHANGED stable
    /\ UNCHANGED <<listing, remainingSkip, collected, cursor, seenCursors, pageState>>

PagingNext == NextPage \/ SlicePage \/ ListChanges

-----------------------------------------------------------------------------

(* A listing an honest server answered is one a single answer could have given: *)
(* no item twice or out of order, none that was there all along left out        *)
(* between two that are listed, all of them for list_queues; and of a list that *)
(* did not change, exactly the page slice_offset_page would cut. Such a server  *)
(* is never taken for a faulty one.                                             *)
PageHonest ==
    /\ PagingTypeOK
    /\ listing.honest =>
         /\ pageState # "raised"
         /\ \A i, j \in DOMAIN collected : i < j => collected[i] < collected[j]
         /\ \A i \in stable, j, k \in DOMAIN collected :
               collected[j] < i /\ i < collected[k] =>
               \E n \in DOMAIN collected : collected[n] = i
         /\ pageState = "done" =>
               /\ listing.op = "queues" => \A i \in stable : 
                      \E n \in DOMAIN collected : collected[n] = i
               /\ changes = 0 /\ listing.op # "queues" =>
                     collected = SliceOffsetPage(InOrder(items), listing.limit, listing.offset)

(* Whatever cursors the server answers with, a listing ends.                    *)
PagingEnds == pageState = "paging" ~> pageState # "paging"
=============================================================================
