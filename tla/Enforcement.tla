---------------------------- MODULE Enforcement ----------------------------
(***************************************************************************)
(* What the Blocker writes against what the XDP program looks up: the      *)
(* agent's names for addresses meet the bytes of packets.                  *)
(***************************************************************************)
EXTENDS Blocker

(* A packet from a blocked source is dropped, whichever frame carries it,  *)
(* unless the last Block of the address returned an error.                 *)
BlockedIsDropped ==
    \A s \in Source :
        NameOf(s) \in DOMAIN blocked \ putFailed /\ Mirrored(NameOf(s)) => Drops(bpf, s)

(* A packet is dropped only if its source is in the table, or an Unblock   *)
(* of it returned an error: blocking one address never drops another.      *)
DroppedIsBlocked ==
    \A s \in Source : Drops(bpf, s) => NameOf(s) \in DOMAIN blocked \cup delFailed
=============================================================================
