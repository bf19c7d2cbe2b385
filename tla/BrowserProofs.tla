---------------------------- MODULE BrowserProofs ----------------------------
(***************************************************************************)
(* The hook keeps one socket at a time, and an answer from before the      *)
(* page's own change never replaces the copy: for any number of sockets,   *)
(* loads and addresses, and whatever the token, the connections and the    *)
(* answers do.                                                             *)
(***************************************************************************)
EXTENDS Browser, SumTheorems, FiniteSetTheorems, SequenceTheorems, TLAPS

(* The only socket that is alive, and the only closures that would retry,  *)
(* are those in wsRef; a timer waits only when there are none.             *)
HookInv ==
    /\ DOMAIN state = Sockets
    /\ Hook!Live \subseteq {wsRef} /\ live \subseteq {wsRef}
    /\ timer => Hook!Live = {} /\ live = {}

(* A load is a record of its four fields, and an answer that will still be *)
(* applied is not older than the effect that asked for it.                 *)
LoadsAreFresh ==
    /\ changes \in Nat /\ effectAt \in 0..changes
    /\ DOMAIN loads = Loads
    /\ \A l \in Loads :
         /\ DOMAIN loads[l] = {"status", "list", "at", "active"}
         /\ loads[l].status = "answered" /\ loads[l].active => loads[l].at >= effectAt

-----------------------------------------------------------------------------
(* The hook's part.                                                        *)
LEMMA HookStart == Hook!Init => HookInv
<1> SUFFICES ASSUME Hook!Init PROVE HookInv  OBVIOUS
<1>1. PICK s \in Sockets :
        /\ state = [x \in Sockets |-> IF x = s THEN "connecting" ELSE "none"]
        /\ live = {s} /\ wsRef = s /\ timer = FALSE
  BY DEF Hook!Init
<1>2. Hook!Live \subseteq {s}  BY <1>1 DEF Hook!Live
<1>3. QED  BY <1>1, <1>2 DEF HookInv

(* A new socket is the only one, if those before it are gone.              *)
LEMMA ConnectStep ==
    ASSUME NEW s \in Sockets, NEW old, NEW others,
           DOMAIN old = Sockets, Hook!Connect(s, old, others), others = {},
           \A x \in Sockets : old[x] \notin {"connecting", "open"},
           timer' = FALSE
    PROVE  HookInv'
<1>1. /\ state' = [old EXCEPT ![s] = "connecting"] /\ live' = {s} /\ wsRef' = s
  BY DEF Hook!Connect
<1>2. DOMAIN state' = Sockets /\ \A x \in Sockets : x # s => state'[x] = old[x]
  BY <1>1
<1>3. Hook!Live' \subseteq {s}  BY <1>2 DEF Hook!Live
<1>4. QED  BY <1>1, <1>2, <1>3 DEF HookInv

LEMMA HookStep == HookInv /\ Hook!Next => HookInv'
<1> SUFFICES ASSUME HookInv, Hook!Next PROVE HookInv'  OBVIOUS
<1>1. CASE Hook!Retry
  <2>1. timer' = FALSE /\ Hook!Live = {} /\ live = {}  BY <1>1 DEF Hook!Retry, HookInv
  <2>2. PICK s \in Sockets : Hook!Connect(s, state, live)  BY <1>1 DEF Hook!Retry
  <2>3. \A x \in Sockets : state[x] \notin {"connecting", "open"}  BY <2>1 DEF Hook!Live
  <2>4. QED  BY <2>1, <2>2, <2>3, ConnectStep DEF HookInv
<1>2. CASE Hook!Rerun
  <2>1. timer' = FALSE  BY <1>2 DEF Hook!Rerun
  <2>2. PICK s \in Sockets : Hook!Connect(s, Hook!Closing, {})  BY <1>2 DEF Hook!Rerun
  <2>3. DOMAIN Hook!Closing = Sockets  BY DEF Hook!Closing, HookInv
  <2>4. \A x \in Sockets : Hook!Closing[x] \notin {"connecting", "open"}
    BY BrowserAssumption DEF Hook!Closing, HookInv, Hook!Live
  <2>5. QED  BY <2>1, <2>2, <2>3, <2>4, ConnectStep
<1>3. ASSUME NEW s \in Sockets, Hook!OnOpen(s) PROVE HookInv'
  <2>1. /\ state[s] = "connecting" /\ state' = [state EXCEPT ![s] = "open"]
        /\ UNCHANGED <<live, wsRef, timer>>
    BY <1>3 DEF Hook!OnOpen
  <2>2. Hook!Live' = Hook!Live  BY <2>1 DEF Hook!Live, HookInv
  <2>3. QED  BY <2>1, <2>2 DEF HookInv
<1>4. ASSUME NEW s \in Sockets, Hook!OnClose(s) PROVE HookInv'
  <2>1. /\ state' = [state EXCEPT ![s] = "none"]
        /\ live' = live \ {s}
        /\ wsRef' = (IF wsRef = s THEN NoSocket ELSE wsRef)
        /\ timer' = (timer \/ s \in live)
    BY <1>4 DEF Hook!OnClose, Hook!Retries
  <2>2. DOMAIN state' = Sockets /\ Hook!Live' = Hook!Live \ {s}
    BY <2>1 DEF Hook!Live, HookInv
  <2>3. Hook!Live' \subseteq {wsRef'} /\ live' \subseteq {wsRef'}
    BY <2>1, <2>2 DEF HookInv
  <2>4. ASSUME timer' PROVE Hook!Live' = {} /\ live' = {}
    BY <2>1, <2>2, <2>4 DEF HookInv
  <2>5. QED  BY <2>2, <2>3, <2>4 DEF HookInv
<1>5. QED  BY <1>1, <1>2, <1>3, <1>4 DEF Hook!Next

(* Every step of the browser is one of the hook, or leaves the hook alone. *)
LEMMA HookSteps == [BrowserNext]_all => [Hook!Next]_hook
BY DEF BrowserNext, Step, Socket, TokenChanges, Hook!Next, all

-----------------------------------------------------------------------------
(* The page's part.                                                        *)
LEMMA PageStart == Init => LoadsAreFresh
<1> SUFFICES ASSUME Init PROVE LoadsAreFresh  OBVIOUS
<1>1. \A l \in Loads : loads[l] = NoLoad  BY DEF Init
<1>2. DOMAIN NoLoad = {"status", "list", "at", "active"} /\ NoLoad.status = "none"
  BY DEF NoLoad
<1>3. QED  BY <1>1, <1>2 DEF Init, LoadsAreFresh

(* The effect makes every load before its own inactive.                    *)
LEMMA EffectStep ==
    ASSUME LoadsAreFresh, Changing, Effect
    PROVE  LoadsAreFresh'
<1>1. changes' \in Nat /\ effectAt' = changes'
  BY DEF Changing, Effect, LoadsAreFresh
<1>2. PICK k \in Loads : loads' = [Deactivated EXCEPT ![k] = Asked]  BY DEF Effect
<1>3. DOMAIN Deactivated = Loads  BY DEF Deactivated
<1>4. DOMAIN Asked = {"status", "list", "at", "active"} /\ Asked.status = "asked"
  BY DEF Asked
<1>5. ASSUME NEW l \in Loads
      PROVE  /\ DOMAIN Deactivated[l] = {"status", "list", "at", "active"}
             /\ ~Deactivated[l].active
  <2>1. Deactivated[l] = [loads[l] EXCEPT !.active = FALSE]  BY DEF Deactivated
  <2>2. DOMAIN loads[l] = {"status", "list", "at", "active"}  BY DEF LoadsAreFresh
  <2>3. QED  BY <2>1, <2>2
<1>6. ASSUME NEW l \in Loads
      PROVE  /\ DOMAIN loads'[l] = {"status", "list", "at", "active"}
             /\ ~(loads'[l].status = "answered" /\ loads'[l].active)
  <2>1. CASE l = k  BY <1>2, <1>3, <1>4, <2>1
  <2>2. CASE l # k  BY <1>2, <1>3, <1>5, <2>2
  <2>3. QED  BY <2>1, <2>2
<1>7. DOMAIN loads' = Loads  BY <1>2, <1>3
<1>8. changes' \in Nat /\ effectAt' \in 0..changes'  BY <1>1
<1>9. QED  BY <1>6, <1>7, <1>8 DEF LoadsAreFresh

(* A load that is asked for, or is no longer there, is no answer.          *)
LEMMA OneLoadStep ==
    ASSUME LoadsAreFresh, NEW k \in Loads, NEW load \in {NoLoad, Asked},
           loads' = [loads EXCEPT ![k] = load], UNCHANGED <<changes, effectAt>>
    PROVE  LoadsAreFresh'
<1>1. DOMAIN load = {"status", "list", "at", "active"} /\ load.status # "answered"
  BY DEF NoLoad, Asked
<1>2. \A l \in Loads : loads'[l] = IF l = k THEN load ELSE loads[l]
  BY DEF LoadsAreFresh
<1>3. QED  BY <1>1, <1>2 DEF LoadsAreFresh

LEMMA AnswerStep == ASSUME LoadsAreFresh, NEW k \in Loads, Answer(k) PROVE LoadsAreFresh'
<1>1. /\ loads' = [loads EXCEPT ![k].status = "answered", ![k].list = table, ![k].at = changes]
      /\ UNCHANGED <<changes, effectAt>>
  BY DEF Answer
<1>2. DOMAIN loads[k] = {"status", "list", "at", "active"}  BY DEF LoadsAreFresh
<1>3. /\ DOMAIN loads'[k] = {"status", "list", "at", "active"} /\ loads'[k].at = changes
      /\ DOMAIN loads' = Loads /\ \A l \in Loads : l # k => loads'[l] = loads[l]
  BY <1>1, <1>2 DEF LoadsAreFresh
<1>4. changes >= effectAt  BY DEF LoadsAreFresh
<1>5. QED  BY <1>1, <1>3, <1>4 DEF LoadsAreFresh

LEMMA PageStep == LoadsAreFresh /\ Next => LoadsAreFresh'
<1> SUFFICES ASSUME LoadsAreFresh, Next PROVE LoadsAreFresh'  OBVIOUS
<1>1. ASSUME UNCHANGED <<loads, effectAt>>, changes' = changes \/ Changing
      PROVE  LoadsAreFresh'
  <2>1. changes' \in Nat /\ effectAt \in 0..changes'
    BY <1>1 DEF LoadsAreFresh, Changing
  <2>2. QED  BY <1>1, <2>1 DEF LoadsAreFresh
<1>2. CASE (\E ip \in Ips : Block(ip) \/ Unblock(ip)) \/ Stats \/ OnMessage
  BY <1>1, <1>2 DEF Block, Unblock, Stats, OnMessage
<1>3. CASE Mount \/ Refresh
  BY <1>3, EffectStep DEF Mount, Refresh
<1>4. CASE Unmount
  <2>1. loads' = Deactivated /\ Changing /\ effectAt' = effectAt  BY <1>4 DEF Unmount
  <2>2. ASSUME NEW l \in Loads
        PROVE  /\ DOMAIN loads'[l] = {"status", "list", "at", "active"}
               /\ ~loads'[l].active
    <3>1. loads'[l] = [loads[l] EXCEPT !.active = FALSE]  BY <2>1 DEF Deactivated
    <3>2. DOMAIN loads[l] = {"status", "list", "at", "active"}  BY DEF LoadsAreFresh
    <3>3. QED  BY <3>1, <3>2
  <2>3. DOMAIN loads' = Loads  BY <2>1 DEF Deactivated
  <2>4. changes' \in Nat /\ effectAt' \in 0..changes'
    BY <2>1 DEF LoadsAreFresh, Changing
  <2>5. QED  BY <2>2, <2>3, <2>4 DEF LoadsAreFresh
<1>5. CASE Interval
  BY <1>5, OneLoadStep DEF Interval
<1>6. ASSUME NEW l \in Loads, Apply(l) \/ LoadFails(l) PROVE LoadsAreFresh'
  BY <1>6, OneLoadStep DEF Apply, LoadFails
<1>7. QED  BY <1>2, <1>3, <1>4, <1>5, <1>6, AnswerStep DEF Next

LEMMA BrowserStep ==
    HookInv /\ LoadsAreFresh /\ [BrowserNext]_all => HookInv' /\ LoadsAreFresh'
<1> SUFFICES ASSUME HookInv, LoadsAreFresh, [BrowserNext]_all
             PROVE  HookInv' /\ LoadsAreFresh'
  OBVIOUS
<1>1. HookInv'
  <2>1. CASE Hook!Next  BY <2>1, HookStep
  <2>2. CASE UNCHANGED hook  BY <2>2 DEF hook, HookInv, Hook!Live
  <2>3. QED  BY <2>1, <2>2, HookSteps
<1>2. LoadsAreFresh'
  <2>1. CASE UNCHANGED <<changes, loads, effectAt>>  BY <2>1 DEF LoadsAreFresh
  <2>2. CASE Next  BY <2>2, PageStep
  <2>3. CASE TokenChanges
    <3>1. CASE mounted  BY <2>3, <3>1, EffectStep DEF TokenChanges
    <3>2. CASE ~mounted
      <4>1. UNCHANGED <<effectAt, loads>> /\ Changing  BY <2>3, <3>2 DEF TokenChanges
      <4>2. changes' \in Nat /\ effectAt \in 0..changes'
        BY <4>1 DEF LoadsAreFresh, Changing
      <4>3. QED  BY <4>1, <4>2 DEF LoadsAreFresh
    <3>3. QED  BY <3>1, <3>2
  <2>4. QED
    BY <2>1, <2>2, <2>3 DEF BrowserNext, Step, Socket, app, all, vars
<1>3. QED  BY <1>1, <1>2

LEMMA Invariance == BrowserSpec => [](HookInv /\ LoadsAreFresh)
<1>1. BrowserInit => HookInv /\ LoadsAreFresh  BY HookStart, PageStart DEF BrowserInit
<1>2. QED  BY <1>1, BrowserStep, PTL DEF BrowserSpec

-----------------------------------------------------------------------------
(* The types of the page and the store.  What the counter may hold is what *)
(* a copy without doubles can count, or what a message says.               *)
Requests == [status : {"none", "asked", "answered"},
             list : SUBSET Ips, at : 0..changes, active : BOOLEAN]

Counter == 0..Cardinality(Ips) \cup {Undefined}

LEMMA TableSize == ASSUME NEW S \in SUBSET Ips PROVE Cardinality(S) \in 0..Cardinality(Ips)
<1>1. IsFiniteSet(Ips)  BY DashboardAssumption
<1>2. /\ Cardinality(S) <= Cardinality(Ips) /\ Cardinality(Ips) \in Nat
      /\ IsFiniteSet(S)
  BY <1>1, FS_Subset, FS_CardinalityType
<1>3. Cardinality(S) \in Nat  BY <1>2, FS_CardinalityType
<1>4. QED  BY <1>2, <1>3

LEMMA CopySize == ASSUME NEW f \in [Ips -> 0..1] PROVE Length(f) \in 0..Cardinality(Ips)
<1>1. IsFiniteSet(Ips) /\ \A ip \in Ips : f[ip] \in 0..1  BY DashboardAssumption
<1>2. QED  BY <1>1, SumOfBits DEF Length

LEMMA PageTypesStart == Init => TypeOK
<1> SUFFICES ASSUME Init PROVE TypeOK  OBVIOUS
<1>1. NoLoad \in [status : {"none", "asked", "answered"},
                  list : SUBSET Ips, at : 0..0, active : BOOLEAN]
  BY DEF NoLoad
<1>2. 0 \in 0..Cardinality(Ips)  BY TableSize, FS_EmptySet
<1>3. wire \in Seq(Message) /\ Len(wire) <= WireCap  BY DashboardAssumption DEF Init
<1>4. loads \in [Loads -> [status : {"none", "asked", "answered"},
                           list : SUBSET Ips, at : 0..changes, active : BOOLEAN]]
  BY <1>1 DEF Init
<1>5. blockedIPs \in [Ips -> 0..1] /\ activeBlocks \in 0..Cardinality(Ips)
  BY <1>2 DEF Init
<1>6. changes \in 0..MaxChanges /\ effectAt \in 0..changes
  BY DashboardAssumption DEF Init
<1>7. QED  BY <1>3, <1>4, <1>5, <1>6 DEF Init, TypeOK

(* Requests stay requests when the table or the page changes.              *)
LEMMA LoadsStay ==
    ASSUME TypeOK, loads' = loads \/ loads' = Deactivated,
           changes' = changes \/ Changing
    PROVE  /\ loads' \in [Loads -> Requests'] /\ changes' \in 0..MaxChanges
           /\ changes <= changes' /\ changes \in Nat /\ effectAt \in 0..changes'
<1>1. /\ changes \in 0..MaxChanges /\ MaxChanges \in Nat /\ effectAt \in 0..changes
      /\ loads \in [Loads -> Requests]
  BY DashboardAssumption DEF TypeOK, Requests
<1>2. changes' \in 0..MaxChanges /\ changes <= changes'  BY <1>1 DEF Changing
<1>3. 0..changes \subseteq 0..changes'  BY <1>1, <1>2
<1>4. \A r \in Requests : r \in Requests' /\ [r EXCEPT !.active = FALSE] \in Requests'
  BY <1>3 DEF Requests
<1>5. loads' \in [Loads -> Requests']
  <2>1. CASE loads' = loads  BY <1>1, <1>4, <2>1
  <2>2. CASE loads' = Deactivated  BY <1>1, <1>4, <2>2 DEF Deactivated
  <2>3. QED  BY <2>1, <2>2
<1>6. QED  BY <1>1, <1>2, <1>3, <1>5

LEMMA EffectTypes ==
    ASSUME TypeOK, Changing, Effect
    PROVE  /\ loads' \in [Loads -> Requests'] /\ changes' \in 0..MaxChanges
           /\ effectAt' \in 0..changes'
<1>1. PICK l \in Loads : loads' = [Deactivated EXCEPT ![l] = Asked]  BY DEF Effect
<1>2. /\ changes \in 0..MaxChanges /\ MaxChanges \in Nat /\ changes' = changes + 1
      /\ changes < MaxChanges /\ effectAt' = changes' /\ loads \in [Loads -> Requests]
  BY DashboardAssumption DEF TypeOK, Requests, Changing, Effect
<1>3. 0..changes \subseteq 0..changes' /\ 0 \in 0..changes'  BY <1>2
<1>4. \A r \in Requests : [r EXCEPT !.active = FALSE] \in Requests'  BY <1>3 DEF Requests
<1>5. Deactivated \in [Loads -> Requests']  BY <1>2, <1>4 DEF Deactivated
<1>6. Asked \in Requests'  BY <1>3 DEF Asked, Requests
<1>7. QED  BY <1>1, <1>2, <1>5, <1>6

LEMMA MessageSent ==
    ASSUME TypeOK, NEW m \in Message, Push(m) \/ UNCHANGED wire
    PROVE  wire' \in Seq(Message) /\ Len(wire') <= WireCap
<1>1. /\ wire \in Seq(Message) /\ Len(wire) <= WireCap /\ Len(wire) \in Nat
      /\ WireCap \in Nat
  BY DashboardAssumption, LenProperties DEF TypeOK
<1>2. CASE Push(m)
  <2>1. wire' = Append(wire, m) /\ Len(wire) < WireCap  BY <1>2 DEF Push
  <2>2. wire' \in Seq(Message) /\ Len(wire') = Len(wire) + 1  BY <1>1, <2>1, AppendProperties
  <2>3. QED  BY <1>1, <2>1, <2>2
<1>3. QED  BY <1>1, <1>2

(* A list set, and an event added, leave each address at most once.        *)
LEMMA ListSet ==
    ASSUME TypeOK, NEW list \in SUBSET Ips, setBlockedIPs(list)
    PROVE  blockedIPs' \in [Ips -> 0..1] /\ activeBlocks' \in Counter
<1>1. blockedIPs' \in [Ips -> 0..1]  BY DEF setBlockedIPs
<1>2. QED  BY <1>1, CopySize DEF setBlockedIPs, Counter

LEMMA MessageHandled ==
    ASSUME TypeOK, OnMessage
    PROVE  /\ wire' \in Seq(Message) /\ Len(wire') <= WireCap
           /\ blockedIPs' \in [Ips -> 0..1] /\ activeBlocks' \in Counter
<1> DEFINE m == Head(wire)
<1>1. /\ wire \in Seq(Message) /\ Len(wire) <= WireCap /\ wire # << >>
      /\ WireCap \in Nat /\ wire' = Tail(wire)
      /\ blockedIPs \in [Ips -> 0..1] /\ activeBlocks \in Counter
  BY DashboardAssumption DEF TypeOK, OnMessage, Counter
<1>2. /\ m \in Message /\ wire' \in Seq(Message)
      /\ Len(wire') = Len(wire) - 1 /\ Len(wire) \in Nat
  BY <1>1, HeadTailProperties, LenProperties
<1>3. Len(wire') <= WireCap  BY <1>1, <1>2
<1>4. CASE m.type = "stats_update"
  <2>1. m.active_blocks \in Counter  BY <1>2, <1>4 DEF Message, Counter
  <2>2. updateStats(m)  BY <1>4 DEF OnMessage
  <2>3. QED  BY <1>1, <1>2, <1>3, <2>1, <2>2 DEF updateStats
<1>5. CASE m.type # "stats_update"
  <2>1. m.ip \in Ips  BY <1>2, <1>5 DEF Message
  <2>2. addBlockEvent(m)  BY <1>5 DEF OnMessage
  <2>3. blockedIPs' \in [Ips -> 0..1]  BY <1>1, <2>1, <2>2 DEF addBlockEvent
  <2>4. activeBlocks' \in Counter  BY <2>2, <2>3, CopySize DEF addBlockEvent, Counter
  <2>5. QED  BY <1>2, <1>3, <2>3, <2>4
<1>6. QED  BY <1>4, <1>5

(* One conjunct of the types at a time, for the steps below.               *)
LEMMA TypesAre ==
    TypeOK' <=>
        /\ table' \subseteq Ips /\ changes' \in 0..MaxChanges
        /\ wire' \in Seq(Message) /\ Len(wire') <= WireCap
        /\ mounted' \in BOOLEAN /\ effectAt' \in 0..changes'
        /\ loads' \in [Loads -> Requests']
        /\ blockedIPs' \in [Ips -> 0..1] /\ activeBlocks' \in Counter
BY DEF TypeOK, Message, Requests, Counter

LEMMA PageTypesStep == TypeOK /\ Next => TypeOK'
<1> SUFFICES ASSUME TypeOK, Next PROVE TypeOK'  OBVIOUS
<1>1. /\ table \subseteq Ips /\ changes \in 0..MaxChanges
      /\ wire \in Seq(Message) /\ Len(wire) <= WireCap
      /\ mounted \in BOOLEAN /\ effectAt \in 0..changes
      /\ loads \in [Loads -> Requests]
      /\ blockedIPs \in [Ips -> 0..1] /\ activeBlocks \in Counter
  BY DEF TypeOK, Requests, Counter
<1>2. ASSUME NEW ip \in Ips, Block(ip) PROVE TypeOK'
  <2>1. /\ Changing /\ table' = table \cup {ip}
        /\ UNCHANGED <<mounted, loads, effectAt, blockedIPs, activeBlocks>>
    BY <1>2 DEF Block, store
  <2>2. table' \in SUBSET Ips  BY <1>1, <2>1
  <2> DEFINE m == [type |-> "block_event", ip |-> ip, after |-> Cardinality(table')]
  <2>3. m \in Message  BY <2>2, TableSize DEF Message
  <2>4. Push(m) \/ UNCHANGED wire  BY <1>2 DEF Block
  <2>5. wire' \in Seq(Message) /\ Len(wire') <= WireCap
    <3> HIDE DEF m
    <3>1. QED  BY <2>3, <2>4, MessageSent
  <2>6. QED  BY <1>1, <2>1, <2>2, <2>5, LoadsStay, TypesAre
<1>3. ASSUME NEW ip \in Ips, Unblock(ip) PROVE TypeOK'
  BY <1>1, <1>3, LoadsStay, TypesAre DEF Unblock, store
<1>4. CASE Stats
  <2> DEFINE m == [type |-> "stats_update", active_blocks |-> Encoded(Cardinality(table))]
  <2>1. Cardinality(table) \in 0..Cardinality(Ips)  BY <1>1, TableSize
  <2>2. m \in Message  BY <2>1 DEF Message, Encoded
  <2>3. Push(m) /\ UNCHANGED <<table, changes, mounted, loads, effectAt, blockedIPs, activeBlocks>>
    BY <1>4 DEF Stats, store
  <2>4. wire' \in Seq(Message) /\ Len(wire') <= WireCap
    <3> HIDE DEF m
    <3>1. QED  BY <2>2, <2>3, MessageSent
  <2>5. QED  BY <1>1, <2>3, <2>4, LoadsStay, TypesAre
<1>5. CASE OnMessage
  BY <1>1, <1>5, MessageHandled, LoadsStay, TypesAre DEF OnMessage
<1>6. CASE Mount \/ Refresh
  BY <1>1, <1>6, EffectTypes, TypesAre DEF Mount, Refresh, store
<1>7. CASE Unmount
  BY <1>1, <1>7, LoadsStay, TypesAre DEF Unmount, store
<1>8. ASSUME NEW l \in Loads, NEW r \in Requests, loads' = [loads EXCEPT ![l] = r],
             UNCHANGED <<table, changes, wire, mounted, effectAt>>,
             blockedIPs' \in [Ips -> 0..1] /\ activeBlocks' \in Counter
      PROVE  TypeOK'
  <2>1. loads' \in [Loads -> Requests']  BY <1>1, <1>8 DEF Requests
  <2>2. QED  BY <1>1, <1>8, <2>1, TypesAre
<1>9. NoLoad \in Requests /\ Asked \in Requests
  <2>1. 0 \in 0..changes  BY <1>1, DashboardAssumption
  <2>2. QED  BY <2>1 DEF NoLoad, Asked, Requests
<1>10. CASE Interval
  BY <1>1, <1>8, <1>9, <1>10 DEF Interval, store
<1>11. ASSUME NEW l \in Loads, Answer(l) PROVE TypeOK'
  <2> DEFINE r == [loads[l] EXCEPT !.status = "answered", !.list = table, !.at = changes]
  <2>1. changes \in 0..changes  BY <1>1, DashboardAssumption
  <2>2. r \in Requests  BY <1>1, <2>1 DEF Requests
  <2>3. loads' = [loads EXCEPT ![l] = r]  BY <1>11 DEF Answer
  <2>4. UNCHANGED <<table, changes, wire, mounted, effectAt, blockedIPs, activeBlocks>>
    BY <1>11 DEF Answer, store
  <2> HIDE DEF r
  <2>5. QED  BY <1>1, <1>8, <2>2, <2>3, <2>4
<1>12. ASSUME NEW l \in Loads, Apply(l) PROVE TypeOK'
  <2>1. loads[l].list \in SUBSET Ips  BY <1>1 DEF Requests
  <2>2. blockedIPs' \in [Ips -> 0..1] /\ activeBlocks' \in Counter
    BY <1>1, <1>12, <2>1, ListSet DEF Apply, store
  <2>3. QED  BY <1>8, <1>9, <1>12, <2>2 DEF Apply
<1>13. ASSUME NEW l \in Loads, LoadFails(l) PROVE TypeOK'
  BY <1>1, <1>8, <1>9, <1>13 DEF LoadFails, store
<1>14. QED
  BY <1>2, <1>3, <1>4, <1>5, <1>6, <1>7, <1>10, <1>11, <1>12, <1>13 DEF Next

(* The hook touches the wire only to empty it, a new token does so and     *)
(* makes the page load again.                                              *)
LEMMA BrowserTypesStep == TypeOK /\ [BrowserNext]_all => TypeOK'
<1> SUFFICES ASSUME TypeOK, [BrowserNext]_all PROVE TypeOK'  OBVIOUS
<1>1. /\ table \subseteq Ips /\ changes \in 0..MaxChanges
      /\ wire \in Seq(Message) /\ Len(wire) <= WireCap
      /\ mounted \in BOOLEAN /\ effectAt \in 0..changes
      /\ loads \in [Loads -> Requests]
      /\ blockedIPs \in [Ips -> 0..1] /\ activeBlocks \in Counter
  BY DEF TypeOK, Requests, Counter
<1>2. ASSUME Kept PROVE wire' \in Seq(Message) /\ Len(wire') <= WireCap
  BY <1>1, <1>2, DashboardAssumption DEF Kept
<1>3. CASE Step(Next)  BY <1>3, PageTypesStep DEF Step
<1>4. CASE Socket
  BY <1>1, <1>2, <1>4, LoadsStay, TypesAre DEF Socket, app, store
<1>5. CASE TokenChanges
  <2>1. CASE mounted
    BY <1>1, <1>2, <1>5, <2>1, EffectTypes, TypesAre DEF TokenChanges, store
  <2>2. CASE ~mounted
    BY <1>1, <1>2, <1>5, <2>2, LoadsStay, TypesAre DEF TokenChanges, store
  <2>3. QED  BY <2>1, <2>2
<1>6. CASE UNCHANGED all
  BY <1>1, <1>6, LoadsStay, TypesAre DEF all, vars
<1>7. QED  BY <1>3, <1>4, <1>5, <1>6 DEF BrowserNext

(* The copy never has an address twice, and the counter is never more than *)
(* the addresses there are, whatever messages and loads come in whatever   *)
(* order, from sockets old and new: it is a count, or undefined.           *)
THEOREM BrowserTypes == BrowserSpec => []TypeOK
<1>1. BrowserInit => TypeOK  BY PageTypesStart DEF BrowserInit
<1>2. QED  BY <1>1, BrowserTypesStep, PTL DEF BrowserSpec

-----------------------------------------------------------------------------
(* The browser runs the hook as it is written: what the page does meanwhile*)
(* is nothing to it, and no step of the page is hidden in one of the hook. *)
THEOREM BrowserRunsTheHook == BrowserSpec => Hook!Spec
<1>1. BrowserInit => Hook!Init  BY DEF BrowserInit
<1>2. Hook!Spec <=> Hook!Init /\ [][Hook!Next]_hook  BY DEF Hook!Spec, Hook!vars, hook
<1>3. QED  BY <1>1, <1>2, HookSteps, PTL DEF BrowserSpec

(* However the token changes and connections fail, there is one socket at  *)
(* most, none while a retry waits, and only its closures would retry.      *)
THEOREM OneSocketAtATime == BrowserSpec => []OneSocket
<1>1. HookInv => OneSocket  BY DEF OneSocket, Hook!OneSocket, HookInv
<1>2. QED  BY <1>1, Invariance, PTL

(* After an add or a remove made on the page, no answer from before it     *)
(* replaces the copy, whenever it arrives.                                 *)
THEOREM NoAnswerFromBefore == BrowserSpec => ReloadShowsOwnChange
<1>1. LoadsAreFresh /\ [BrowserNext]_all =>
         [\A l \in Loads :
             loads[l].status = "answered" /\ loads'[l] = NoLoad /\ blockedIPs' # blockedIPs
                 => loads[l].at >= effectAt]_vars
  <2> SUFFICES ASSUME LoadsAreFresh, [BrowserNext]_all, NEW l \in Loads,
                      loads[l].status = "answered", loads'[l] = NoLoad,
                      blockedIPs' # blockedIPs
               PROVE  loads[l].at >= effectAt
    OBVIOUS
  <2>1. NoLoad.status = "none"  BY DEF NoLoad
  <2>2. loads'[l] # loads[l]  BY <2>1
  <2>3. PICK k \in Loads : Apply(k)
    BY <2>2 DEF BrowserNext, Step, Next, Block, Unblock, Stats, OnMessage, Mount, Unmount,
       Refresh, Interval, Answer, LoadFails, Socket, TokenChanges, store, app, all, vars
  <2>4. loads' = [loads EXCEPT ![k] = NoLoad]  BY <2>3 DEF Apply
  <2>5. k = l  BY <2>2, <2>4
  <2>6. loads[l].active  BY <2>3, <2>5 DEF Apply, store
  <2>7. QED  BY <2>6 DEF LoadsAreFresh
<1>2. QED  BY <1>1, Invariance, PTL DEF BrowserSpec, ReloadShowsOwnChange
=============================================================================
