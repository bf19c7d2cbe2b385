--------------------------- MODULE MCEnforcement ---------------------------
(* Small instances of Enforcement for TLC: an address whose bytes read the *)
(* same backwards, and two that are each other's reversal.                 *)
EXTENDS Enforcement

OneV4    == {<<1, 2, 3, 4>>}
MirrorV4 == {<<1, 2, 3, 4>>, <<4, 3, 2, 1>>}
=============================================================================
