------------------------------ MODULE EventLog ------------------------------
(***************************************************************************)
(* The log of blocks that the API server keeps, written by the handlers of *)
(* POST /blocklist and read page by page by the Events page of the         *)
(* dashboard.  internal/api: AddEvent, handleAddBlocklist, handleEvents;   *)
(* web/src/pages/Events.tsx: the pager.                                    *)
(* Block has succeeded before a handler appears here; decisions of the     *)
(* analyzer reach AddEvent the same way, from outside the package.         *)
(***************************************************************************)
EXTENDS Integers, Sequences, FiniteSets

CONSTANTS
    Handlers,       \* requests that block an address
    Reasons,        \* reasons of blocks
    AnyReason,      \* the empty filter
    Filters,        \* what the page's menu offers
    Loads,          \* bound of the model: the page's requests under way
    Queries,        \* what any client may ask
    LogCap,         \* a thousand events
    PageLimit,      \* fifteen events to a page
    DefaultLimit,   \* fifty
    IntBits,        \* an int has that many bits: 64
    MaxEvents       \* bound of the model: blocks

ASSUME EventLogAssumption ==
    /\ AnyReason \notin Reasons /\ Filters \subseteq Reasons \cup {AnyReason}
    /\ AnyReason \in Filters
    /\ LogCap \in Nat \ {0} /\ PageLimit \in Nat \ {0} /\ DefaultLimit \in Nat \ {0}
    /\ IntBits \in Nat \ {0} /\ MaxEvents \in Nat
    /\ \A n \in {LogCap + PageLimit, DefaultLimit} : n < 2^(IntBits - 1)
    /\ \A q \in Queries :
         /\ q.since \in Nat \cup {-1}
         /\ \A n \in {q.limit, q.offset} :
              n = << >> \/ \E k \in -2^(IntBits - 1)..2^(IntBits - 1) - 1 : n = <<k>>

VARIABLES
    stamped,            \* handler -> the event it has stamped but not logged
    locking,            \* handlers waiting in eventsMu.Lock
    blocks,             \* how many blocks were stamped
    events,             \* s.events
    holders,            \* readers that hold eventsMu.RLock
    loads,              \* the page's requests
    filter, offset,     \* the page's state, which its effect depends on
    total, loading, error,
    shown,              \* the <<filter, offset>> of the events on display
    seen,               \* history: events shown since the walk began
    wanted,             \* history: events in the log when it began
    leapt               \* history: the walk left a page before it was shown

logVars == <<stamped, locking, blocks, events, holders, loads, filter, offset,
          total, loading, error, shown, seen, wanted, leapt>>

server == <<stamped, locking, blocks, events>>
page   == <<filter, offset, total, loading, error, shown, seen, wanted, leapt>>

None    == [id |-> 0, reason |-> AnyReason]
NoReply == [shown |-> {}, total |-> 0, matching |-> {}]
Free    == [at |-> "free", active |-> FALSE, asked |-> << >>, reply |-> NoReply]
Ask     == [at |-> "asked", active |-> TRUE, asked |-> <<filter, offset>>, reply |-> NoReply]

LogInit ==
    /\ stamped = [h \in Handlers |-> None] /\ locking = {}
    /\ blocks = 0 /\ events = << >> /\ holders = {}
    /\ filter = AnyReason /\ offset = 0 /\ total = 0
    /\ \E l \in Loads : loads = [k \in Loads |-> IF k = l THEN Ask ELSE Free]
    /\ loading = TRUE /\ error = FALSE /\ shown = << >>
    /\ seen = {} /\ wanted = {} /\ leapt = FALSE

-----------------------------------------------------------------------------
(* handleAddBlocklist: the clock is read, then AddEvent asks for the lock. *)
(* The broadcast that follows is the hub's matter (WSHub).  Events are     *)
(* numbered in the order of their stamps.                                  *)
Stamp(h, reason) ==
    /\ stamped[h] = None /\ blocks < MaxEvents
    /\ blocks' = blocks + 1
    /\ stamped' = [stamped EXCEPT ![h] = [id |-> blocks + 1, reason |-> reason]]
    /\ UNCHANGED <<locking, events, holders, loads, page>>

Lock(h) ==
    /\ stamped[h] # None /\ h \notin locking
    /\ locking' = locking \cup {h}
    /\ UNCHANGED <<stamped, blocks, events, holders, loads, page>>

Appended(ev) ==
    Append(IF Len(events) >= LogCap THEN Tail(events) ELSE events, ev)

AddEvent(h) ==
    /\ h \in locking /\ holders = {}
    /\ locking' = locking \ {h}
    /\ events' = Appended(stamped[h])
    /\ stamped' = [stamped EXCEPT ![h] = None]
    /\ UNCHANGED <<blocks, holders, loads, page>>

-----------------------------------------------------------------------------
(* handleEvents as a function of the query.  A parameter that Atoi cannot  *)
(* read is << >>; since is the first stamp wanted, 0 if there is no such   *)
(* parameter, -1 if it is unreadable.  500 is what the recovery middleware *)
(* makes of the panic of a slice expression.                               *)
int(n) == ((n + 2^(IntBits - 1)) % 2^IntBits) - 2^(IntBits - 1)

Limit(q)  == IF q.limit # << >> /\ q.limit[1] > 0 THEN q.limit[1] ELSE DefaultLimit
Offset(q) == IF q.offset # << >> /\ q.offset[1] >= 0 THEN q.offset[1] ELSE 0

Matches(q, ev) == q.reason \in {AnyReason, ev.reason} /\ ev.id >= q.since
Filtered_Bug(q) == SelectSeq(events, LAMBDA ev : Matches(q, ev))    \* oldest first

(* The loop over the log, from its newest event down: what has been found  *)
(* when n events have been looked at.                                      *)
Filtered(q) ==
    LET filtered[n \in 0..Len(events)] ==
            IF n = 0 THEN << >>
            ELSE LET ev == events[Len(events) + 1 - n]
                 IN  IF Matches(q, ev) THEN Append(filtered[n - 1], ev) ELSE filtered[n - 1]
    IN  filtered[Len(events)]

Start_Bug(q) == Offset(q)       \* not cut to the number of events
Start(q)  == IF Offset(q) > Len(Filtered(q)) THEN Len(Filtered(q)) ELSE Offset(q)
End(q) ==
    LET end == int(Start(q) + Limit(q))
    IN  IF end > Len(Filtered(q)) THEN Len(Filtered(q)) ELSE end

Reply(status, found, n) == [status |-> status, events |-> found, total |-> n]
handleEvents(q) ==
    CASE q.since = -1       -> Reply(400, << >>, 0)
      [] q.since # -1 /\ End(q) < Start(q) -> Reply(500, << >>, 0)
      [] OTHER -> Reply(200, SubSeq(Filtered(q), Start(q) + 1, End(q)), Len(Filtered(q)))

(* The read lock is held from the first line to the answer's last byte; a  *)
(* handler that waits for the lock keeps new readers out.                  *)
RLock(r) == locking = {} /\ r \notin holders /\ holders' = holders \cup {r}

RUnlock_Bug(r) == r \in holders /\ UNCHANGED holders    \* not deferred
RUnlock(r) == r \in holders /\ holders' = holders \ {r}

-----------------------------------------------------------------------------
Ids(s) == {s[i].id : i \in DOMAIN s}

PageQuery(asked) ==
    [limit |-> <<PageLimit>>, offset |-> <<asked[2]>>, reason |-> asked[1], since |-> 0]

(* The interval loads every thirty seconds, whether or not the last load   *)
(* has been answered.                                                      *)
Interval(l) ==
    /\ loads[l] = Free
    /\ loads' = [loads EXCEPT ![l] = Ask]
    /\ loading' = TRUE /\ error' = FALSE
    /\ UNCHANGED <<server, holders, filter, offset, total, shown, seen, wanted, leapt>>

Serve(l) ==
    LET q == PageQuery(loads[l].asked) IN
    /\ loads[l].at = "asked"
    /\ RLock(l)
    /\ loads' = [loads EXCEPT ![l].at = "served", ![l].reply =
                    [shown |-> Ids(handleEvents(q).events), total |-> handleEvents(q).total,
                     matching |-> IF q.offset = <<0>> THEN Ids(Filtered(q)) ELSE {}]]
    /\ UNCHANGED <<server, page>>

(* Written, or given up when the server's write timeout of thirty seconds  *)
(* has passed, or panicked: the unlock is deferred.                        *)
Respond(l) == RUnlock(l) /\ UNCHANGED <<server, loads, page>>

Applies_Bug(l) == TRUE          \* the effect has no cleanup
Applies(l) == loads[l].active

(* The answer is back.  A walk begins with an answer for offset 0.         *)
Apply(l) ==
    LET asked == loads[l].asked  reply == loads[l].reply IN
    /\ loads[l].at = "served" /\ l \notin holders
    /\ loads' = [loads EXCEPT ![l] = Free]
    /\ IF Applies(l)
         THEN /\ total' = reply.total /\ loading' = FALSE /\ shown' = asked
              /\ IF asked[2] = 0
                   THEN seen' = reply.shown /\ wanted' = reply.matching /\ leapt' = FALSE
                   ELSE seen' = seen \cup reply.shown /\ UNCHANGED <<wanted, leapt>>
         ELSE UNCHANGED <<total, loading, shown, seen, wanted, leapt>>
    /\ UNCHANGED <<server, holders, filter, offset, error>>

(* The request fails on its way, or its answer is lost or is an error.     *)
Fail(l) ==
    /\ loads[l].at # "free" /\ l \notin holders
    /\ loads' = [loads EXCEPT ![l] = Free]
    /\ IF Applies(l) THEN loading' = FALSE /\ error' = TRUE ELSE UNCHANGED <<loading, error>>
    /\ UNCHANGED <<server, holders, filter, offset, total, shown, seen, wanted, leapt>>

(* The effect runs again when filter, offset or refreshTrigger changes:    *)
(* its cleanup clears active for every load it has begun.                  *)
Effect(f, o) ==
    \E l \in Loads :
        /\ loads[l] = Free
        /\ filter' = f /\ offset' = o
        /\ loads' = [k \in Loads |-> IF k = l THEN [Ask EXCEPT !.asked = <<f, o>>]
                                     ELSE [loads[k] EXCEPT !.active = FALSE]]
        /\ loading' = TRUE /\ error' = FALSE
        /\ leapt' = (leapt \/ shown # <<filter, offset>>)
        /\ UNCHANGED <<server, holders, total, shown, seen, wanted>>

(* The buttons are disabled while loading, the menu of reasons is not.     *)
NextPage == ~loading /\ offset + PageLimit < total /\ Effect(filter, offset + PageLimit)
PrevPage == ~loading /\ offset >= PageLimit /\ Effect(filter, offset - PageLimit)
Refresh  == ~loading /\ Effect(filter, offset)

Select(f) == f # filter /\ Effect(f, 0)

LogNext ==
    \/ \E h \in Handlers : AddEvent(h) \/ Lock(h) \/ \E reason \in Reasons : Stamp(h, reason)
    \/ \E l \in Loads : Interval(l) \/ Serve(l) \/ Respond(l) \/ Apply(l) \/ Fail(l)
    \/ NextPage \/ PrevPage \/ Refresh \/ \E f \in Filters : Select(f)

LogSpec == LogInit /\ [][LogNext]_logVars

(* Handlers are scheduled, and the write timeout ends every answer.        *)
FairLogSpec ==
    /\ LogSpec
    /\ \A h \in Handlers : WF_logVars(Lock(h)) /\ WF_logVars(AddEvent(h))
    /\ \A l \in Loads : WF_logVars(Respond(l))

-----------------------------------------------------------------------------
Event == [id : 1..blocks, reason : Reasons]

Load ==
    [at : {"free", "asked", "served"}, active : BOOLEAN, asked : {<< >>} \cup (Filters \X Nat),
     reply : [shown : SUBSET (1..blocks), total : 0..LogCap, matching : SUBSET (1..blocks)]]

LogTypeOK ==
    /\ blocks \in 0..MaxEvents
    /\ stamped \in [Handlers -> Event \cup {None}] /\ locking \subseteq Handlers
    /\ events \in Seq(Event) /\ Len(events) <= LogCap
    /\ holders \subseteq Loads /\ loads \in [Loads -> Load]
    /\ filter \in Filters /\ offset \in Nat /\ total \in 0..LogCap
    /\ loading \in BOOLEAN /\ error \in BOOLEAN /\ leapt \in BOOLEAN
    /\ shown \in {<< >>} \cup (Filters \X Nat)
    /\ seen \subseteq 1..blocks /\ wanted \subseteq 1..blocks

(* Paging forward to the end, each page shown before it is left, shows     *)
(* every matching event that was there when the walk began and has not     *)
(* left the log since, however many are added, and however the answers of  *)
(* overlapping loads overtake each other, meanwhile.                       *)
AtEnd == ~loading /\ ~leapt /\ shown = <<filter, offset>> /\ offset + PageLimit >= total

WalkMissesNothing == AtEnd => wanted \cap Ids(events) \subseteq seen

(* What is on display, unless the page says that it is loading or has      *)
(* failed, answers the filter and the page that are selected, whatever     *)
(* loads of earlier selections come back late.                             *)
ShownIsAsked == loading \/ error \/ shown = <<filter, offset>>

(* To every query the log answers the page it asks for: of the matching    *)
(* events the newest but offset, at most limit of them, in the order       *)
(* newest first.  Only an unreadable since and an overflow of offset plus  *)
(* limit are answered otherwise.                                           *)
Newer(q, i) == Cardinality({j \in DOMAIN events : j > i /\ Matches(q, events[j])})

AnswerIsThePage ==
    \A q \in Queries :
        LET answer == handleEvents(q)
            wants  == {i \in DOMAIN events : Matches(q, events[i])
                          /\ Newer(q, i) \in Offset(q)..(Offset(q) + Limit(q) - 1)}
        IN  CASE answer.status = 200 ->
                     /\ Len(answer.events) = Cardinality(wants)
                     /\ \A i \in wants : answer.events[Newer(q, i) - Offset(q) + 1] = events[i]
              [] answer.status = 400 -> q.since = -1
              [] answer.status = 500 -> Offset(q) + Limit(q) >= 2^(IntBits - 1)

(* A block that was made is logged in the end, although readers hold the   *)
(* lock for as long as their peers take to read.                           *)
BlocksAreLogged == \A h \in Handlers : stamped[h] # None ~> stamped[h] = None

(* Two handlers log events of the order they took the lock in, not of the  *)
(* order of their stamps; the listing is "Newest first" (handlers.go:155). *)
NewestFirst == \A i, j \in DOMAIN events : i < j => events[i].id < events[j].id

(* GET /events "Returns recent block events (paginated)"                   *)
(* (technical.md:1953): every readable query is answered with a page.      *)
ReadableIsAnswered == \A q \in Queries : q.since # -1 => handleEvents(q).status = 200
=============================================================================
