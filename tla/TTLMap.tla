------------------------------- MODULE TTLMap -------------------------------
(***************************************************************************)
(* internal/maputils: a map whose entries expire.  Set, Get and the sweep  *)
(* hold the lock for their whole body, so each is an operator on the store *)
(* and the clock.  Get never renews an entry.                              *)
(***************************************************************************)
EXTENDS Naturals, Functions

EmptyMap == [k \in {} |-> 0]

Set(m, k, v, ttl, now) ==
    [x \in DOMAIN m \cup {k} |->
        IF x = k THEN [value |-> v, expiration |-> now + ttl] ELSE m[x]]

(* Get's second result: the key is there and has not expired.              *)
Has_Bug(m, k, now) == k \in DOMAIN m
Has(m, k, now) == k \in DOMAIN m /\ now <= m[k].expiration

(* What startCleanup leaves at a tick.                                     *)
Swept(m, now) == Restrict(m, {k \in DOMAIN m : now <= m[k].expiration})
=============================================================================
