---------------------------- MODULE MCPortScan ----------------------------
(* Small instances of PortScan for TLC. *)
EXTENDS PortScan, TLC

Symmetry == Permutations(Ports) \cup Permutations(Ips)
=============================================================================
