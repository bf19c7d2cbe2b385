------------------------------ MODULE PortScan ------------------------------
(***************************************************************************)
(* The port-scan detector as the analyzer drives it: a TTLMap of port      *)
(* tables.  Entries expire by the wall clock; ports are pruned by the      *)
(* events' own stamps, which lie behind it (events wait in perf buffers    *)
(* and in a channel) and need not come in order.  One goroutine calls      *)
(* Record, the TTLMap's sweep runs beside it.                              *)
(***************************************************************************)
EXTENDS PortTable, Sources, Clock, TTLMap

CONSTANT
    MaxDelay        \* how far behind the clock an event may be stamped

ASSUME PortScanAssumption ==
    /\ MaxDelay \in Nat /\ MaxTime \in Nat
    /\ IsFiniteSet(Ports)       \* sixteen bits

VARIABLES
    tables,     \* entries, the TTLMap: address -> (port -> stamp of its last hit)
    hits,       \* history: every <<ip, port, stamp>> recorded
    lateHits,   \* history: addresses of which an event came after a newer one
    report      \* what the last Record answered, and for what

scanVars == <<now, tables, hits, lateHits, report>>

-----------------------------------------------------------------------------
ScanInit ==
    /\ now = 0
    /\ tables = EmptyMap
    /\ hits = {} /\ lateHits = {}
    /\ report = [ip |-> "none", ts |-> 0, scan |-> FALSE]

(* Get, Set if it found nothing, then the update under the entry's lock.   *)
(* A sweep between them acts as one after them: Get's answer stands.       *)
ScanRecord(ip, p, ts) ==
    LET found == Has(tables, ip, now)
        ports == Noted(IF found THEN tables[ip].value ELSE NoPorts, p, ts)
    IN  /\ ts <= now /\ now <= ts + MaxDelay
        /\ tables' = IF found THEN [tables EXCEPT ![ip].value = ports]
                               ELSE Set(tables, ip, ports, EntryTTL, now)
        /\ hits' = hits \cup {<<ip, p, ts>>}
        /\ lateHits' = IF \E h \in hits : h[1] = ip /\ h[3] > ts THEN lateHits \cup {ip} ELSE lateHits
        /\ report' = [ip |-> ip, ts |-> ts, scan |-> IsScan(ports)]
        /\ UNCHANGED now

ScanSweep ==
    /\ tables' = Swept(tables, now)
    /\ UNCHANGED <<now, hits, lateHits, report>>

ScanTick ==
    /\ now < MaxTime
    /\ now' = now + 1
    /\ UNCHANGED <<tables, hits, lateHits, report>>

(* Record ignores port 0.                                                  *)
ScanNext ==
    \/ ScanTick \/ ScanSweep
    \/ \E ip \in Ips, p \in Ports \ {0}, ts \in 0..MaxTime : ScanRecord(ip, p, ts)

ScanSpec == ScanInit /\ [][ScanNext]_scanVars

-----------------------------------------------------------------------------
ScanTypeOK ==
    /\ now \in 0..MaxTime
    /\ DOMAIN tables \subseteq Ips
    /\ \A ip \in DOMAIN tables :
         /\ tables[ip].expiration \in EntryTTL..now + EntryTTL
         /\ DOMAIN tables[ip].value \subseteq Ports
         /\ \A p \in DOMAIN tables[ip].value : tables[ip].value[p] \in 0..now
    /\ lateHits \subseteq Ips
    /\ hits \subseteq Ips \X Ports \X (0..now)
    /\ report \in [ip : Ips \cup {"none"}, ts : 0..now, scan : BOOLEAN]

(* The ports ip was hit on with a stamp from the window that ends at last. *)
PortsHit(ip, first, last) ==
    {p \in Ports : \E t \in first..last : <<ip, p, t>> \in hits}

From(ts) == IF ts > ScanWindow THEN ts - ScanWindow ELSE 0

(* A port scan is reported only of an address that has hit DistinctPorts   *)
(* ports not longer than the window before the event, however late events  *)
(* come and whenever entries expire.                                       *)
NoFalseScan ==
    report.scan => Cardinality(PortsHit(report.ip, From(report.ts), now)) >= DistinctPorts

(* DistinctPorts ports within the window trigger detection (technical.md:  *)
(* 1746).                                                                  *)
ScanIsSeen ==
    report.ip \in Ips
    /\ Cardinality(PortsHit(report.ip, From(report.ts), report.ts)) >= DistinctPorts
        => report.scan

(* As much of that as the code keeps, for an address whose events come in  *)
(* order: hits count from the moment the entry was made, which Get does    *)
(* not renew.                                                              *)
ScanIsSeenWhileKept ==
    report.ip \in DOMAIN tables \ lateHits =>
        LET made  == tables[report.ip].expiration - EntryTTL
            first == IF From(report.ts) > made THEN From(report.ts) ELSE made
        IN  Cardinality(PortsHit(report.ip, first, report.ts)) >= DistinctPorts
                => report.scan
=============================================================================
