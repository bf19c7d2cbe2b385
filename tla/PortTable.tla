------------------------------ MODULE PortTable ------------------------------
(***************************************************************************)
(* internal/analyzer/portscan.go: the destination ports of one address,    *)
(* each with the stamp of its last hit, and what Record does to them.      *)
(***************************************************************************)
EXTENDS Integers, FiniteSets, Functions

CONSTANTS
    Ports,          \* destination ports; 0 stands for none
    ScanWindow,     \* cfg.Window
    DistinctPorts,  \* cfg.DistinctPorts
    EntryTTL        \* lifetime of an address's table, five minutes

ASSUME PortAssumption ==
    ScanWindow \in Nat /\ DistinctPorts \in Nat /\ EntryTTL \in Nat

NoPorts == [p \in {} |-> 0]

(* The hit is noted, then every port last hit before the cutoff goes.      *)
Noted_Bug(ports, p, ts) == [x \in DOMAIN ports \cup {p} |-> IF x = p THEN ts ELSE ports[x]]
Noted(ports, p, ts) ==
    LET hit == [x \in DOMAIN ports \cup {p} |-> IF x = p THEN ts ELSE ports[x]]
    IN  Restrict(hit, {x \in DOMAIN hit : hit[x] >= ts - ScanWindow})

IsScan_Bug(ports) == Cardinality(DOMAIN ports) > DistinctPorts
IsScan(ports) == Cardinality(DOMAIN ports) >= DistinctPorts
=============================================================================
