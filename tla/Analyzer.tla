------------------------------ MODULE Analyzer ------------------------------
(***************************************************************************)
(* internal/analyzer/analyzer.go: one goroutine takes events from a        *)
(* channel, asks the detectors about each and sends decisions without      *)
(* waiting.  An address decided on is left alone for DecidedTTL: the mark  *)
(* is set before the decision is sent.  The event channel is fed by the    *)
(* collector; the reader of the decisions is outside the package.          *)
(***************************************************************************)
EXTENDS RateWindow, PortTable, Sources, Clock, TTLMap, Sequences

CONSTANTS
    PrivateIps,     \* private, loopback and link-local addresses
    InCap, OutCap,  \* capacities of the two channels
    DecidedTTL,     \* thirty seconds
    MaxEvents       \* bound of the model: events

ASSUME AnalyzerAssumption ==
    /\ PrivateIps \subseteq Ips
    /\ InCap \in Nat \ {0} /\ OutCap \in Nat
    /\ DecidedTTL \in Nat
    /\ MaxEvents \in Nat /\ MaxTime \in Nat

VARIABLES
    cancelled,  \* the context
    returned,   \* Run has returned
    in, out,    \* the channels
    inClosed,   \* the event channel is closed
    rates,      \* rl.entries: address -> windowEntry
    scans,      \* ps.entries: a TTLMap of port tables
    decided,    \* recentlyDecided: a TTLMap
    arrived,    \* history: how many events the collector has sent
    lastMade,   \* history: when the address was last decided on
    emitted     \* history: addresses whose latest decision was sent

vars == <<now, cancelled, inClosed, returned, in, out, rates, scans, decided,
          arrived, lastMade, emitted>>

detectors == <<rates, scans, decided>>
ending    == <<cancelled, inClosed, returned>>
history   == <<lastMade, emitted>>

-----------------------------------------------------------------------------
Init ==
    /\ now = 0
    /\ cancelled = FALSE /\ inClosed = FALSE /\ returned = FALSE
    /\ in = << >> /\ out = << >>
    /\ rates = EmptyMap /\ scans = EmptyMap /\ decided = EmptyMap
    /\ arrived = 0
    /\ lastMade = EmptyMap
    /\ emitted = {}

(* The collector sends an event, blocking while the channel is full.  It   *)
(* is stamped with the time.                                               *)
Arrive(ip, p) ==
    /\ ~inClosed /\ arrived < MaxEvents
    /\ Len(in) < InCap
    /\ in' = Append(in, [ip |-> ip, port |-> p, ts |-> now])
    /\ arrived' = arrived + 1
    /\ UNCHANGED <<now, ending, out, detectors, history>>

(* Whoever reads the decisions takes one.                                  *)
Consume ==
    /\ out # << >>
    /\ out' = Tail(out)
    /\ UNCHANGED <<now, ending, in, detectors, arrived, history>>

-----------------------------------------------------------------------------
Upd(f, k, v) == [x \in DOMAIN f \cup {k} |-> IF x = k THEN v ELSE f[x]]

Emit_Bug(ip, reason) ==         \* emit waits for room
    /\ Len(out) < OutCap
    /\ out' = Append(out, [ip |-> ip, reason |-> reason])
    /\ emitted' = emitted \cup {ip}

(* emit: the decision is dropped when the channel is full.                 *)
Emit(ip, reason) ==
    IF Len(out) < OutCap
      THEN /\ out' = Append(out, [ip |-> ip, reason |-> reason])
           /\ emitted' = emitted \cup {ip}
      ELSE /\ out' = out
           /\ emitted' = emitted \ {ip}

Decide_Bug(ip, reason) ==       \* the mark is left out
    /\ lastMade' = Upd(lastMade, ip, now)
    /\ Emit(ip, reason)
    /\ UNCHANGED decided

Decide(ip, reason) ==
    /\ decided' = Set(decided, ip, TRUE, DecidedTTL, now)
    /\ lastMade' = Upd(lastMade, ip, now)
    /\ Emit(ip, reason)

Undecided == UNCHANGED <<decided, out, history>>

(* ps.Record, and what the port table is after it; port 0 is ignored.      *)
PortsAfter(ev) ==
    Noted(IF Has(scans, ev.ip, now) THEN scans[ev.ip].value ELSE NoPorts, ev.port, ev.ts)

ScansAfter(ev) ==
    IF Has(scans, ev.ip, now) THEN [scans EXCEPT ![ev.ip].value = PortsAfter(ev)]
                              ELSE Set(scans, ev.ip, PortsAfter(ev), EntryTTL, now)

RateAfter(ev) ==
    Recorded(IF ev.ip \in DOMAIN rates THEN rates[ev.ip] ELSE NewEntry, ev.ts)

Spared(ip) == ip \in PrivateIps \/ Has(decided, ip, now)

(* evaluate, on the event at the head of the channel: either it is spared, *)
(* or the rate limiter has the first word and the port scan the second.    *)
Evaluate ==
    LET ev == Head(in) IN
    /\ ~returned /\ in # << >>
    /\ in' = Tail(in)
    /\ IF Spared(ev.ip) THEN Undecided /\ UNCHANGED <<rates, scans>>
       ELSE /\ rates' = Upd(rates, ev.ip, RateAfter(ev))
            /\ IF Exceeded(RateAfter(ev))
                 THEN Decide(ev.ip, "rate") /\ UNCHANGED scans
               ELSE IF ev.port = 0 THEN Undecided /\ UNCHANGED scans
               ELSE /\ scans' = ScansAfter(ev)
                    /\ IF IsScan(PortsAfter(ev)) THEN Decide(ev.ip, "portscan") ELSE Undecided
    /\ UNCHANGED <<now, ending, arrived>>

Cancel ==
    /\ ~cancelled
    /\ cancelled' = TRUE
    /\ UNCHANGED <<now, inClosed, returned, in, out, detectors, arrived, history>>

CloseIn ==
    /\ ~inClosed
    /\ inClosed' = TRUE
    /\ UNCHANGED <<now, cancelled, returned, in, out, detectors, arrived, history>>

(* select takes ctx.Done, also when events are waiting, or finds the       *)
(* channel closed and empty.                                               *)
Return ==
    /\ ~returned
    /\ cancelled \/ (inClosed /\ in = << >>)
    /\ returned' = TRUE
    /\ UNCHANGED <<now, cancelled, inClosed, in, out, detectors, arrived, history>>

(* The TTLMaps' cleanup goroutines.                                        *)
Sweep ==
    /\ \/ decided' = Swept(decided, now) /\ UNCHANGED scans
       \/ scans' = Swept(scans, now) /\ UNCHANGED decided
    /\ UNCHANGED <<now, ending, in, out, rates, arrived, history>>

Tick ==
    /\ now < MaxTime
    /\ now' = now + 1
    /\ UNCHANGED <<ending, in, out, detectors, arrived, history>>

Next ==
    \/ \E ip \in Ips, p \in Ports : Arrive(ip, p)
    \/ Evaluate \/ Consume \/ Cancel \/ CloseIn \/ Return \/ Sweep \/ Tick

Spec == Init /\ [][Next]_vars

(* The goroutine is scheduled.  Nothing is asked of the collector, of the  *)
(* reader of the decisions or of the cleanup.                              *)
FairSpec == Spec /\ WF_vars(Evaluate)

-----------------------------------------------------------------------------
Public == Ips \ PrivateIps

(* Private, loopback and link-local addresses are never decided on and take*)
(* no room in the detectors.                                               *)
TypeOK ==
    /\ now \in 0..MaxTime /\ {cancelled, inClosed, returned} \subseteq BOOLEAN
    /\ in \in Seq([ip : Ips, port : Ports, ts : 0..now]) /\ Len(in) <= InCap
    /\ out \in Seq([ip : Public, reason : {"rate", "portscan"}]) /\ Len(out) <= OutCap
    /\ DOMAIN rates \subseteq Public /\ DOMAIN scans \subseteq Public /\ DOMAIN decided \subseteq Public
    /\ DOMAIN lastMade \subseteq Public /\ emitted \subseteq DOMAIN lastMade

(* An address is decided on at most once per DecidedTTL, whatever the      *)
(* detectors see and whenever the cleanup runs.                            *)
DecisionsAreSpaced ==
    [][\A ip \in DOMAIN lastMade :
          lastMade'[ip] # lastMade[ip] => now > lastMade[ip] + DecidedTTL]_vars

(* A mark in recentlyDecided stands for a decision that was made, at most  *)
(* DecidedTTL ago, and an address without one has no decision younger than *)
(* that: expiry and cleanup agree.                                         *)
MarksFollowDecisions ==
    \A ip \in Ips :
        Has(decided, ip, now) <=> (ip \in DOMAIN lastMade /\ now <= lastMade[ip] + DecidedTTL)

(* Addresses are passed over only to prevent duplicate emissions (comment, *)
(* analyzer.go:61): the one decision they had was sent.                    *)
SuppressesOnlyDuplicates ==
    \A ip \in Ips : Has(decided, ip, now) => ip \in emitted

(* The analysis never waits for whoever reads the decisions: with a reader *)
(* that may stop for good and a full channel, the events keep being taken, *)
(* until the context is cancelled.                                         *)
AnalysisNeverStalls == [](in # << >> => <>(in = << >> \/ cancelled))
=============================================================================
