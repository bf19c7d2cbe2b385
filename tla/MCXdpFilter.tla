--------------------------- MODULE MCXdpFilter ---------------------------
(* Small instances of XdpFilter for TLC. *)
EXTENDS XdpFilter, TLC

Symmetry == Permutations(CPUs) \cup Permutations(Sources)
=============================================================================
