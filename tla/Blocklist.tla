----------------------------- MODULE Blocklist -----------------------------
(***************************************************************************)
(* What the blocker promises its callers and the packets: one list of      *)
(* addresses, changed one address at a time, and a kernel that drops what  *)
(* is listed.  The kernel changes in the same step as the list or not at   *)
(* all, and then somebody was told: the address is unsure until a later    *)
(* call for it succeeds.  Blocker implements this (Blocker!Promise).       *)
(***************************************************************************)
CONSTANTS
    Addresses,
    Enforceable     \* addresses for which there is a kernel map

VARIABLES
    listed,         \* addresses a caller sees as blocked
    active,         \* the ones whose time has not run out
    dropped,        \* addresses whose packets the kernel drops
    unsure          \* addresses whose last call ended in the kernel's error

vars == <<listed, active, dropped, unsure>>

Init == listed = {} /\ active = {} /\ dropped = {} /\ unsure = {}

(* The kernel's part of a call: done, or refused with an error.            *)
Kernel(a, done) ==
    IF a \in Enforceable
      THEN \/ dropped' = done /\ unsure' = unsure \ {a}
           \/ unsure' = unsure \cup {a} /\ UNCHANGED dropped
      ELSE UNCHANGED dropped /\ unsure' = unsure \ {a}

(* A block is made only where none is active; it is active at once.        *)
Block(a) ==
    /\ a \notin active
    /\ listed' = listed \cup {a} /\ active' = active \cup {a}
    /\ Kernel(a, dropped \cup {a})

(* A block is taken back, by a caller or because its time ran out.         *)
Unblock(a) ==
    /\ a \in listed
    /\ listed' = listed \ {a} /\ active' = active \ {a}
    /\ Kernel(a, dropped \ {a})

(* The time of some blocks runs out; they stay listed and dropped.         *)
Lapse ==
    /\ active' \subseteq active
    /\ UNCHANGED <<listed, dropped, unsure>>

Next == Lapse \/ \E a \in Addresses : Block(a) \/ Unblock(a)

Spec == Init /\ [][Next]_vars

(* The promise in one line: list and kernel agree on every address of      *)
(* which the callers have not been told otherwise.                         *)
Agreement == \A a \in Enforceable \ unsure : a \in listed <=> a \in dropped
=============================================================================
