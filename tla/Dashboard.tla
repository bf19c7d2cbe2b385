----------------------------- MODULE Dashboard -----------------------------
(***************************************************************************)
(* The dashboard's copy of the blocklist: web/src/store/index.ts, fed by   *)
(* the WebSocket and by the loads of the Blocklist page                    *)
(* (web/src/pages/Blocklist.tsx).  Unblocking is not broadcast; a load     *)
(* replaces the copy by the list as it was when the server answered, and   *)
(* loads may overlap and arrive in any order.                              *)
(***************************************************************************)
EXTENDS Naturals, Sequences, FiniteSetsExt

CONSTANTS
    Ips,
    Undefined,      \* JavaScript's undefined
    Loads,          \* bound of the model: loads in flight at once
    WireCap,        \* bound of the model: messages in flight
    MaxChanges      \* bound of the model: changes of table, page or token

ASSUME DashboardAssumption ==
    /\ IsFiniteSet(Ips) /\ IsFiniteSet(Loads)
    /\ WireCap \in Nat \ {0} /\ MaxChanges \in Nat

VARIABLES
    table,          \* what blocker.List answers
    changes,        \* how often the table or the page has changed
    wire,           \* the socket: messages not yet handled
    mounted,        \* the Blocklist page is shown
    loads,          \* requests: status, the list answered, the closure's active;
                    \* at is history: what changes was when it was answered
    effectAt,       \* history: what changes was when the effect last ran
    blockedIPs,     \* the store: how often it has each address
    activeBlocks    \* the store's counter

vars == <<table, changes, wire, mounted, loads, effectAt, blockedIPs, activeBlocks>>

store == <<blockedIPs, activeBlocks>>

NoLoad == [status |-> "none", list |-> {}, at |-> 0, active |-> FALSE]
Asked  == [status |-> "asked", list |-> {}, at |-> 0, active |-> TRUE]

Init ==
    /\ table \in SUBSET Ips /\ changes = 0
    /\ wire = << >>
    /\ mounted = FALSE /\ effectAt = 0
    /\ loads = [l \in Loads |-> NoLoad]
    /\ blockedIPs = [ip \in Ips |-> 0]
    /\ activeBlocks = 0

-----------------------------------------------------------------------------
Changing == changes < MaxChanges /\ changes' = changes + 1

(* The server.  A full hub or a closed socket loses the message.  In a     *)
(* block event, after is history: the size of the table with the block.    *)
Push(m) == Len(wire) < WireCap /\ wire' = Append(wire, m)

Block(ip) ==
    /\ Changing /\ ip \notin table
    /\ table' = table \cup {ip}
    /\ Push([type |-> "block_event", ip |-> ip, after |-> Cardinality(table')]) \/ UNCHANGED wire
    /\ UNCHANGED <<mounted, loads, effectAt, store>>

Unblock(ip) ==
    /\ Changing /\ ip \in table
    /\ table' = table \ {ip}
    /\ UNCHANGED <<wire, mounted, loads, effectAt, store>>

(* json:"active_blocks,omitempty": zero is left out of the message, and    *)
(* msg.active_blocks of a message without it is undefined.                 *)
Encoded(n) == IF n = 0 THEN Undefined ELSE n

Stats ==
    /\ Push([type |-> "stats_update", active_blocks |-> Encoded(Cardinality(table))])
    /\ UNCHANGED <<table, changes, mounted, loads, effectAt, store>>

-----------------------------------------------------------------------------
Length(list) == SumFunctionOnSet(list, Ips)

updateStats_Bug(m) ==           \* msg.active_blocks ?? state.activeBlocks
    /\ activeBlocks' = IF m.active_blocks = Undefined THEN activeBlocks ELSE m.active_blocks
    /\ UNCHANGED blockedIPs

updateStats(m) == activeBlocks' = m.active_blocks /\ UNCHANGED blockedIPs

(* The event goes to the front, any other entry of the address goes away.  *)
addBlockEvent(m) ==
    /\ blockedIPs' = [blockedIPs EXCEPT ![m.ip] = 1]
    /\ activeBlocks' = Length(blockedIPs')

setBlockedIPs(list) ==
    /\ blockedIPs' = [ip \in Ips |-> IF ip \in list THEN 1 ELSE 0]
    /\ activeBlocks' = Length(blockedIPs')

OnMessage ==
    /\ wire # << >>
    /\ wire' = Tail(wire)
    /\ IF Head(wire).type = "stats_update" THEN updateStats(Head(wire)) ELSE addBlockEvent(Head(wire))
    /\ UNCHANGED <<table, changes, mounted, loads, effectAt>>

(* The effect: its cleanup deactivates the loads before, it loads at once. *)
Deactivated == [l \in Loads |-> [loads[l] EXCEPT !.active = FALSE]]

Effect ==
    \E l \in Loads :
        /\ loads[l].status = "none"
        /\ loads' = [Deactivated EXCEPT ![l] = Asked]
        /\ effectAt' = changes'

Mount ==
    /\ Changing /\ ~mounted /\ mounted' = TRUE
    /\ Effect
    /\ UNCHANGED <<table, wire, store>>

Unmount ==
    /\ Changing /\ mounted /\ mounted' = FALSE
    /\ loads' = Deactivated
    /\ UNCHANGED <<table, wire, effectAt, store>>

(* refreshTrigger, after an add or a remove made on the page.              *)
Refresh ==
    /\ Changing /\ mounted
    /\ Effect
    /\ UNCHANGED <<table, wire, mounted, store>>

Interval_Bug == FALSE           \* no setInterval

(* Every thirty seconds.                                                   *)
Interval ==
    /\ mounted
    /\ \E l \in Loads : loads[l].status = "none" /\ loads' = [loads EXCEPT ![l] = Asked]
    /\ UNCHANGED <<table, changes, wire, mounted, effectAt, store>>

(* handleListBlocklist.                                                    *)
Answer(l) ==
    /\ loads[l].status = "asked"
    /\ loads' = [loads EXCEPT ![l].status = "answered", ![l].list = table, ![l].at = changes]
    /\ UNCHANGED <<table, changes, wire, mounted, effectAt, store>>

Apply_Bug(l) ==                 \* active is not looked at
    /\ loads[l].status = "answered"
    /\ setBlockedIPs(loads[l].list)
    /\ loads' = [loads EXCEPT ![l] = NoLoad]
    /\ UNCHANGED <<table, changes, wire, mounted, effectAt>>

Apply(l) ==
    /\ loads[l].status = "answered"
    /\ IF loads[l].active THEN setBlockedIPs(loads[l].list) ELSE UNCHANGED store
    /\ loads' = [loads EXCEPT ![l] = NoLoad]
    /\ UNCHANGED <<table, changes, wire, mounted, effectAt>>

(* The request fails: only a message is shown.                             *)
LoadFails(l) ==
    /\ loads[l].status = "asked"
    /\ loads' = [loads EXCEPT ![l] = NoLoad]
    /\ UNCHANGED <<table, changes, wire, mounted, effectAt, store>>

Next ==
    \/ \E ip \in Ips : Block(ip) \/ Unblock(ip)
    \/ Stats \/ OnMessage
    \/ Mount \/ Unmount \/ Refresh \/ Interval
    \/ \E l \in Loads : Answer(l) \/ Apply(l) \/ LoadFails(l)

Spec == Init /\ [][Next]_vars

(* Messages are handled, the interval fires, and a load asked again and    *)
(* again is answered; nobody has to change anything.                       *)
FairSpec ==
    /\ Spec
    /\ WF_vars(OnMessage) /\ WF_vars(Interval)
    /\ \A l \in Loads : SF_vars(Answer(l)) /\ WF_vars(Apply(l))

-----------------------------------------------------------------------------
Message ==
    [type : {"block_event"}, ip : Ips, after : 0..Cardinality(Ips)]
        \cup [type : {"stats_update"}, active_blocks : 0..Cardinality(Ips) \cup {Undefined}]

(* The copy never has an address twice, and the counter never exceeds what *)
(* the table could hold.                                                   *)
TypeOK ==
    /\ table \subseteq Ips /\ changes \in 0..MaxChanges
    /\ wire \in Seq(Message) /\ Len(wire) <= WireCap
    /\ mounted \in BOOLEAN /\ effectAt \in 0..changes
    /\ loads \in [Loads -> [status : {"none", "asked", "answered"},
                            list : SUBSET Ips, at : 0..changes, active : BOOLEAN]]
    /\ blockedIPs \in [Ips -> 0..1] /\ activeBlocks \in 0..Cardinality(Ips) \cup {Undefined}

(* After an add or a remove made on the page it reloads, and no answer     *)
(* from before ever replaces the copy again, whenever it arrives.          *)
ReloadShowsOwnChange ==
    [][\A l \in Loads :
          loads[l].status = "answered" /\ loads'[l] = NoLoad /\ blockedIPs' # blockedIPs
              => loads[l].at >= effectAt]_vars

(* Whatever was lost, late or out of order: once the table stays as it is  *)
(* and the page stays open, the copy becomes the table and stays so.       *)
CopyConverges ==
    (<>[]mounted) => <>[](\A ip \in Ips : blockedIPs[ip] = IF ip \in table THEN 1 ELSE 0)

(* "Active Blocked IPs" are those in the kernel's map (Dashboard.tsx:34-36, *)
(* store/index.ts:114): a block event sets the counter to the size the     *)
(* table had with that block.                                              *)
CountFollowsTheTable ==
    [][OnMessage /\ Head(wire).type = "block_event"
          => activeBlocks' = Head(wire).after]_vars

(* The counter is a number, as the store declares it (store/index.ts:34)   *)
(* and the message it comes from (store/index.ts:16).                      *)
CounterIsANumber == activeBlocks # Undefined
=============================================================================
