---------------------------- MODULE RateLimiter ----------------------------
(***************************************************************************)
(* The rate limiter as the analyzer drives it: one goroutine, events in    *)
(* the order the collector reads them.  Each CPU has a perf buffer of its  *)
(* own, so an event may be stamped earlier than one that was read before   *)
(* it.  Addresses are independent; every event carries the second it was   *)
(* stamped in.                                                             *)
(***************************************************************************)
EXTENDS RateWindow, Sources

CONSTANTS
    MaxLateness,    \* how many seconds behind the newest event one may come
    MaxSlot,        \* bound of the model: seconds
    MaxRecords      \* bound of the model: events

ASSUME LimiterAssumption ==
    MaxLateness \in Nat /\ MaxSlot \in Nat /\ MaxRecords \in Nat

VARIABLES
    entries,    \* entries: address -> windowEntry
    seen,       \* history: events recorded, by address and second
    newest,     \* history: the newest second any event was stamped in
    late,       \* history: addresses of which an event came after a newer one
    verdict     \* what the last Record answered, and for what

rateVars == <<entries, seen, newest, late, verdict>>

RateInit ==
    /\ entries = [ip \in {} |-> NewEntry]
    /\ seen = [ip \in Ips |-> [s \in 0..MaxSlot |-> 0]]
    /\ newest = 0 /\ late = {}
    /\ verdict = [ip |-> "none", slot |-> 0, exceeded |-> FALSE]

(* entries.LoadOrStore *)
EntryOf(ip) == IF ip \in DOMAIN entries THEN entries[ip] ELSE NewEntry

Record(ip, slot) ==
    LET e == Recorded(EntryOf(ip), slot) IN
    /\ SumFunction([i \in Ips |-> SumFunction(seen[i])]) < MaxRecords
    /\ slot >= newest - MaxLateness
    /\ entries' = [i \in DOMAIN entries \cup {ip} |-> IF i = ip THEN e ELSE entries[i]]
    /\ seen' = [seen EXCEPT ![ip][slot] = @ + 1]
    /\ newest' = IF slot > newest THEN slot ELSE newest
    /\ late' = IF \E later \in slot + 1..MaxSlot : seen[ip][later] > 0 THEN late \cup {ip} ELSE late
    /\ verdict' = [ip |-> ip, slot |-> slot, exceeded |-> Exceeded(e)]

RateNext == \E ip \in Ips, slot \in 0..MaxSlot : Record(ip, slot)

RateSpec == RateInit /\ [][RateNext]_rateVars

-----------------------------------------------------------------------------
RateTypeOK ==
    /\ DOMAIN entries \subseteq Ips
    /\ \A ip \in DOMAIN entries :
          entries[ip] \in [buckets : [0..WindowSize - 1 -> Nat], lastSlot : 0..newest]
    /\ seen \in [Ips -> [0..MaxSlot -> Nat]]
    /\ newest \in 0..MaxSlot /\ late \subseteq Ips
    /\ verdict \in [ip : Ips \cup {"none"}, slot : 0..MaxSlot, exceeded : BOOLEAN]

(* The events of ip stamped in the seconds S.                              *)
CountIn(ip, S) == SumFunctionOnSet(seen[ip], S \cap 0..MaxSlot)

Answered == verdict.ip \in Ips

(* As long as an address's events come in order, whatever those of others  *)
(* do, the answer is that of a sliding window: exceeded if and only if     *)
(* more events than PPS times the window were stamped in the last          *)
(* WindowSeconds seconds.                                                  *)
ExceededIsExact ==
    Answered /\ verdict.ip \notin late =>
        (verdict.exceeded <=>
            CountIn(verdict.ip, verdict.slot - WindowSize + 1..verdict.slot) > PPS * WindowSize)

(* The half of it that is lost when events come late (technical.md:1742):  *)
(* no flood is missed; when more events than the limit allows were stamped *)
(* in the last WindowSeconds seconds, Record says so.                      *)
NoMissedFlood ==
    Answered /\ CountIn(verdict.ip, verdict.slot - WindowSize + 1..verdict.slot) > PPS * WindowSize
        => verdict.exceeded

(* Events that come late never raise a false alarm: what Record counts has *)
(* been stamped no longer than a window before this event.                 *)
NoFalseAlarm ==
    Answered /\ verdict.exceeded =>
        CountIn(verdict.ip, verdict.slot - WindowSize + 1..newest) > PPS * WindowSize
=============================================================================
