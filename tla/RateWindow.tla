----------------------------- MODULE RateWindow -----------------------------
(***************************************************************************)
(* internal/analyzer/ratelimiter.go: the circular buckets that count one   *)
(* address's events per second, and what Record does to them.              *)
(***************************************************************************)
EXTENDS Integers, Functions

CONSTANTS
    WindowSeconds,  \* cfg.WindowSeconds, before NewRateLimiter mends it
    PPS             \* cfg.PPS

ASSUME RateAssumption == WindowSeconds \in Int /\ PPS \in Nat

(* NewRateLimiter *)
WindowSize == IF WindowSeconds <= 0 THEN 1 ELSE WindowSeconds

Index(slot) == slot % WindowSize

NewEntry == [buckets |-> [i \in 0..WindowSize - 1 |-> 0], lastSlot |-> 0]

(* The buckets that slot's arrival finds stale.  When slot is older than   *)
(* lastSlot the loop of the code runs zero times: nothing is stale.        *)
Stale_Bug(e, slot) == {Index(s) : s \in e.lastSlot + 1..slot - 1}
Stale(e, slot) ==
    IF slot - e.lastSlot >= WindowSize THEN 0..WindowSize - 1
                                ELSE {Index(s) : s \in e.lastSlot + 1..slot}

(* Record: stale buckets are cleared, lastSlot follows the event whichever *)
(* way it goes, the event's bucket counts it.                              *)
Recorded(e, slot) ==
    LET cleared == [i \in 0..WindowSize - 1 |-> IF i \in Stale(e, slot) THEN 0 ELSE e.buckets[i]]
    IN  [buckets  |-> [cleared EXCEPT ![Index(slot)] = @ + 1],
         lastSlot |-> slot]

Total(e) == SumFunction(e.buckets)

(* pps > PPS, with pps the total over the window's seconds.                *)
Exceeded(e) == Total(e) > PPS * WindowSize
=============================================================================
