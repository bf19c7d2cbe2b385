---------------------------- MODULE ServerProofs ----------------------------
(***************************************************************************)
(* The hub never panics, alone or behind the server's handler, and nobody  *)
(* passes the middleware without the token: for every set of connections,  *)
(* all capacities of the channels, and all requests and configurations.    *)
(* The event log answers every query with its page, and a walk through its *)
(* pages misses nothing: for every log, page and number of requests.       *)
(***************************************************************************)
EXTENDS Server, EventLog, SumTheorems, FiniteSetTheorems, SequenceTheorems, TLAPS

(* A connection is handed to the hub once: it is in the register channel   *)
(* once, and not any more when it is in the map or its channel is closed.  *)
OnceRegistered ==
    /\ \A i \in DOMAIN register : handler[register[i]] = "returned"
    /\ \A i, j \in DOMAIN register : register[i] = register[j] => i = j
    /\ \A i \in DOMAIN register : register[i] \notin clients /\ ~closed[register[i]]

(* Only clients that came that way are in the map or have been closed, and *)
(* those in the map are open for sending.                                  *)
MapIsOpen ==
    /\ \A c \in clients : handler[c] = "returned" /\ ~closed[c]
    /\ \A c \in Conns : closed[c] => handler[c] = "returned"

(* Nobody serves a connection that has not been made.                      *)
Unserved == \A c \in Conns : conn[c] = "none" => handler[c] = "none"

HubInv == TypeOK /\ OnceRegistered /\ MapIsOpen /\ Unserved /\ NoPanic

-----------------------------------------------------------------------------
(* Receiving from a channel, and sending to one.                           *)
LEMMA TailEffect ==
    ASSUME NEW S, NEW q \in Seq(S), q # << >>
    PROVE  /\ Head(q) \in S /\ Tail(q) \in Seq(S) /\ Len(Tail(q)) = Len(q) - 1
           /\ Len(q) \in Nat \ {0} /\ 1 \in DOMAIN q /\ Head(q) = q[1]
           /\ \A i \in DOMAIN Tail(q) : i + 1 \in DOMAIN q /\ Tail(q)[i] = q[i + 1]
OBVIOUS

LEMMA AppendEffect ==
    ASSUME NEW S, NEW q \in Seq(S), NEW e \in S
    PROVE  /\ Append(q, e) \in Seq(S) /\ Len(Append(q, e)) = Len(q) + 1 /\ Len(q) \in Nat
           /\ \A i \in DOMAIN Append(q, e) :
                 \/ i \in DOMAIN q /\ Append(q, e)[i] = q[i]
                 \/ i = Len(q) + 1 /\ i \notin DOMAIN q /\ Append(q, e)[i] = e
OBVIOUS

(* The hub starts with nothing registered and nothing closed.              *)
LEMMA HubInit == Init => HubInv
<1> SUFFICES ASSUME Init PROVE HubInv  OBVIOUS
<1>1. /\ register \in Seq(Conns) /\ Len(register) = 0
      /\ unregister \in Seq(Conns) /\ Len(unregister) = 0
      /\ broadcast \in Seq(SUBSET Conns) /\ Len(broadcast) = 0
      /\ DOMAIN register = {}
  BY DEF Init
<1>2. TypeOK
  <2>1. RegisterCap \in Nat /\ UnregisterCap \in Nat /\ BroadcastCap \in Nat
        /\ SendCap \in Nat /\ MaxKickers \in Nat
    BY HubAssumption
  <2>2. /\ conn \in [Conns -> {"none", "open", "closed", "refused"}]
        /\ handler \in [Conns -> {"none", "upgraded", "returned"}]
        /\ reader \in [Conns -> {"none", "reading", "leaving", "closing", "gone"}]
        /\ writer \in [Conns -> {"none", "running", "gone"}]
    BY DEF Init
  <2>3. /\ queue \in [Conns -> 0..SendCap] /\ closed \in [Conns -> BOOLEAN]
        /\ kickers \in [Conns -> 0..MaxKickers]
    BY <2>1 DEF Init
  <2>4. running \in BOOLEAN /\ clients \subseteq Conns /\ panicked \in BOOLEAN
    BY DEF Init
  <2>5. QED  BY <1>1, <2>1, <2>2, <2>3, <2>4 DEF TypeOK
<1>3. OnceRegistered  BY <1>1 DEF OnceRegistered
<1>4. MapIsOpen /\ Unserved /\ NoPanic  BY DEF Init, MapIsOpen, Unserved, NoPanic
<1>5. QED  BY <1>2, <1>3, <1>4 DEF HubInv

(* Every step of the hub keeps the types.                                  *)
LEMMA HubTypeStep ==
    ASSUME TypeOK, Serving \/ (\E c \in Conns : \E h \in BOOLEAN : Upgrade(c, h))
    PROVE  TypeOK'
<1> USE HubAssumption
<1>1. ASSUME NEW c \in Conns, NEW h \in BOOLEAN, Upgrade(c, h) PROVE TypeOK'
  <2>1. /\ conn' \in [Conns -> {"none", "open", "closed", "refused"}]
        /\ handler' \in [Conns -> {"none", "upgraded", "returned"}]
    BY <1>1 DEF Upgrade, TypeOK
  <2>2. QED  BY <1>1, <2>1 DEF Upgrade, channels, sends, TypeOK
<1>2. ASSUME NEW c \in Conns, Join(c) PROVE TypeOK'
  <2>1. register' \in Seq(Conns) /\ Len(register') <= RegisterCap
    BY <1>2, AppendEffect DEF Join, TypeOK
  <2>2. QED  BY <1>2, <2>1 DEF Join, sends, TypeOK
<1>3. ASSUME NEW c \in Conns, PeerLeaves(c) PROVE TypeOK'
  BY <1>3 DEF PeerLeaves, channels, goroutines, sends, TypeOK
<1>4. ASSUME NEW c \in Conns, ReadFails(c) PROVE TypeOK'
  BY <1>4 DEF ReadFails, channels, sends, TypeOK
<1>5. ASSUME NEW c \in Conns, ReaderUnregisters(c) PROVE TypeOK'
  <2>1. unregister' \in Seq(Conns) /\ Len(unregister') <= UnregisterCap
    BY <1>5, AppendEffect DEF ReaderUnregisters, TypeOK
  <2>2. QED  BY <1>5, <2>1 DEF ReaderUnregisters, sends, TypeOK
<1>6. ASSUME NEW c \in Conns, ReaderCloses(c) PROVE TypeOK'
  BY <1>6 DEF ReaderCloses, channels, sends, TypeOK
<1>7. ASSUME NEW c \in Conns, WriterTakes(c) PROVE TypeOK'
  <2>1. queue' \in [Conns -> 0..SendCap]
    BY <1>7 DEF WriterTakes, TypeOK
  <2>2. /\ conn' \in [Conns -> {"none", "open", "closed", "refused"}]
        /\ writer' \in [Conns -> {"none", "running", "gone"}]
    BY <1>7 DEF WriterTakes, WriterReturns, TypeOK
  <2>3. QED  BY <1>7, <2>1, <2>2 DEF WriterTakes, channels, TypeOK
<1>8. ASSUME NEW c \in Conns, WriterEnds(c) PROVE TypeOK'
  BY <1>8 DEF WriterEnds, WriterReturns, channels, sends, TypeOK
<1>9. ASSUME NEW c \in Conns, KickerCloses(c) PROVE TypeOK'
  BY <1>9 DEF KickerCloses, channels, goroutines, sends, TypeOK
<1>10. ASSUME NEW c \in Conns, KickerUnregisters(c) PROVE TypeOK'
  <2>1. unregister' \in Seq(Conns) /\ Len(unregister') <= UnregisterCap
    BY <1>10, AppendEffect DEF KickerUnregisters, TypeOK
  <2>2. kickers' \in [Conns -> 0..MaxKickers]
    BY <1>10 DEF KickerUnregisters, TypeOK
  <2>3. QED  BY <1>10, <2>1, <2>2 DEF KickerUnregisters, sends, TypeOK
<1>11. CASE Broadcast
  <2> DEFINE m == {c \in Conns : conn[c] = "open"}
  <2>1. m \in SUBSET Conns /\ broadcast' = Append(broadcast, m)  BY <1>11 DEF Broadcast
  <2> HIDE DEF m
  <2>2. broadcast' \in Seq(SUBSET Conns) /\ Len(broadcast') <= BroadcastCap
    BY <1>11, <2>1, AppendEffect DEF Broadcast, TypeOK
  <2>3. QED  BY <1>11, <2>2 DEF Broadcast, goroutines, sends, TypeOK
<1>12. CASE HubRegisters
  <2>1. /\ register' \in Seq(Conns) /\ Len(register') <= RegisterCap
        /\ Head(register) \in Conns
    BY <1>12, TailEffect DEF HubRegisters, TypeOK
  <2>2. QED  BY <1>12, <2>1 DEF HubRegisters, goroutines, sends, TypeOK
<1>13. CASE HubUnregisters
  <2>1. unregister' \in Seq(Conns) /\ Len(unregister') <= UnregisterCap
    BY <1>13, TailEffect DEF HubUnregisters, TypeOK
  <2>2. closed' \in [Conns -> BOOLEAN] /\ panicked' \in BOOLEAN
    BY <1>13 DEF HubUnregisters, TypeOK
  <2>3. QED  BY <1>13, <2>1, <2>2 DEF HubUnregisters, goroutines, TypeOK
<1>14. CASE HubBroadcasts
  <2>1. broadcast' \in Seq(SUBSET Conns) /\ Len(broadcast') <= BroadcastCap
    BY <1>14, TailEffect DEF HubBroadcasts, TypeOK
  <2>2. queue' \in [Conns -> 0..SendCap]
    BY <1>14, SMTT(30) DEF HubBroadcasts, Full, TypeOK
  <2>3. kickers' \in [Conns -> 0..MaxKickers]
    BY <1>14 DEF HubBroadcasts, Full, Kicked, TypeOK
  <2>4. panicked' \in BOOLEAN  BY <1>14 DEF HubBroadcasts, TypeOK
  <2>5. QED  BY <1>14, <2>1, <2>2, <2>3, <2>4 DEF HubBroadcasts, TypeOK
<1>15. CASE HubStops
  BY <1>15 DEF HubStops, channels, goroutines, sends, TypeOK
<1>16. QED
  BY <1>1, <1>2, <1>3, <1>4, <1>5, <1>6, <1>7, <1>8, <1>9, <1>10, <1>11, <1>12, <1>13,
     <1>14, <1>15 DEF Serving, Read, Write, Kick, Hub

(* Every step of the hub keeps registration to once, and closes a channel  *)
(* only when it takes the client out of the map.                           *)
LEMMA HubStep ==
    ASSUME HubInv, Serving \/ (\E c \in Conns : \E h \in BOOLEAN : Upgrade(c, h))
    PROVE  HubInv'
<1>a. TypeOK /\ OnceRegistered /\ MapIsOpen /\ Unserved /\ NoPanic  BY DEF HubInv
<1>b. TypeOK'  BY <1>a, HubTypeStep
<1>c. Unserved'
  <2>1. \A c \in Conns : conn'[c] = "none" => conn[c] = "none" /\ handler'[c] = handler[c]
    <3> SUFFICES ASSUME NEW d \in Conns
                 PROVE  conn'[d] = "none" => conn[d] = "none" /\ handler'[d] = handler[d]
      OBVIOUS
    <3>1. ASSUME NEW c \in Conns, NEW h \in BOOLEAN, Upgrade(c, h)
          PROVE  conn'[d] = "none" => conn[d] = "none" /\ handler'[d] = handler[d]
      BY <3>1, <1>a DEF Upgrade, TypeOK
    <3>2. CASE UNCHANGED <<conn, handler>>  BY <3>2
    <3>3. ASSUME NEW c \in Conns, Join(c)
          PROVE  conn'[d] = "none" => conn[d] = "none" /\ handler'[d] = handler[d]
      BY <3>3, <1>a DEF Join, Unserved, TypeOK
    <3>4. ASSUME NEW c \in Conns, handler' = handler,
                 conn' = conn \/ conn' = [conn EXCEPT ![c] = "closed"]
          PROVE  conn'[d] = "none" => conn[d] = "none" /\ handler'[d] = handler[d]
      BY <3>4, <1>a DEF TypeOK
    <3>5. CASE HubStops
      BY <3>5, <1>a DEF HubStops, goroutines, TypeOK
    <3>6. QED
      BY <3>1, <3>2, <3>3, <3>4, <3>5
      DEF Serving, Read, Write, Kick, Hub, PeerLeaves, ReadFails, ReaderUnregisters,
          ReaderCloses, WriterTakes, WriterEnds, WriterReturns, KickerCloses,
          KickerUnregisters, Broadcast, HubRegisters, HubUnregisters, HubBroadcasts,
          goroutines
  <2>2. QED  BY <1>a, <2>1 DEF Unserved
<1> SUFFICES OnceRegistered' /\ MapIsOpen' /\ NoPanic'  BY <1>b, <1>c DEF HubInv
<1>1. CASE UNCHANGED <<clients, register, handler, closed, panicked>>
  BY <1>1, <1>a DEF OnceRegistered, MapIsOpen, NoPanic
<1>2. ASSUME NEW c \in Conns, NEW h \in BOOLEAN, Upgrade(c, h),
             \A d \in Conns : handler[d] = "returned" => handler'[d] = "returned"
      PROVE  OnceRegistered' /\ MapIsOpen' /\ NoPanic'
  <2>1. \A i \in DOMAIN register : register[i] \in Conns  BY <1>a DEF TypeOK
  <2>2. clients \subseteq Conns  BY <1>a DEF TypeOK
  <2>3. QED
    BY <1>2, <1>a, <2>1, <2>2
    DEF Upgrade, channels, sends, OnceRegistered, MapIsOpen, NoPanic
<1>3. ASSUME NEW c \in Conns, Join(c) PROVE OnceRegistered' /\ MapIsOpen' /\ NoPanic'
  <2>1. handler[c] = "upgraded" /\ c \notin clients /\ ~closed[c]
        /\ \A i \in DOMAIN register : register[i] # c
    BY <1>3, <1>a DEF Join, OnceRegistered, MapIsOpen
  <2>2. \A i \in DOMAIN register' :
           \/ i \in DOMAIN register /\ register'[i] = register[i] /\ register[i] \in Conns
           \/ i = Len(register) + 1 /\ i \notin DOMAIN register /\ register'[i] = c
    BY <1>3, <1>a, AppendEffect DEF Join, TypeOK
  <2>3. /\ handler'[c] = "returned"
        /\ \A d \in Conns : handler[d] = "returned" => handler'[d] = "returned"
        /\ UNCHANGED <<clients, closed, panicked>>
    BY <1>3, <1>a DEF Join, sends, TypeOK
  <2>4. OnceRegistered'
    <3>1. \A i \in DOMAIN register' :
             handler'[register'[i]] = "returned" /\ register'[i] \notin clients'
             /\ ~closed'[register'[i]]
      BY <1>a, <2>1, <2>2, <2>3 DEF OnceRegistered
    <3>2. \A i, j \in DOMAIN register' : register'[i] = register'[j] => i = j
      BY <1>a, <2>1, <2>2 DEF OnceRegistered
    <3>3. QED  BY <3>1, <3>2 DEF OnceRegistered
  <2>5. MapIsOpen' /\ NoPanic'
    BY <1>a, <2>3 DEF MapIsOpen, NoPanic, TypeOK
  <2>6. QED  BY <2>4, <2>5
<1>4. CASE HubRegisters
  <2> DEFINE c == Head(register)
  <2>1. /\ register # << >> /\ register' = Tail(register) /\ clients' = clients \cup {c}
        /\ UNCHANGED <<handler, closed, panicked>>
    BY <1>4 DEF HubRegisters, goroutines, sends
  <2>2. /\ c = register[1] /\ 1 \in DOMAIN register
        /\ \A i \in DOMAIN register' :
              i + 1 \in DOMAIN register /\ register'[i] = register[i + 1] /\ i + 1 # 1
              /\ i \in Nat
    BY <1>a, <2>1, TailEffect, SMTT(30) DEF TypeOK
  <2>3. handler[c] = "returned" /\ c \notin clients /\ ~closed[c]
    BY <1>a, <2>2 DEF OnceRegistered
  <2>4. \A i \in DOMAIN register' : register'[i] # c
    BY <1>a, <2>2 DEF OnceRegistered
  <2> HIDE DEF c
  <2>5. OnceRegistered'
    <3>1. \A i \in DOMAIN register' :
             handler'[register'[i]] = "returned" /\ register'[i] \notin clients'
             /\ ~closed'[register'[i]]
      BY <1>a, <2>1, <2>2, <2>4 DEF OnceRegistered
    <3>2. \A i, j \in DOMAIN register' : register'[i] = register'[j] => i = j
      <4> TAKE i, j \in DOMAIN register'
      <4> HAVE register'[i] = register'[j]
      <4>1. i + 1 = j + 1  BY <1>a, <2>2 DEF OnceRegistered
      <4>2. QED  BY <2>2, <4>1
    <3>3. QED  BY <3>1, <3>2 DEF OnceRegistered
  <2>6. MapIsOpen' /\ NoPanic'  BY <1>a, <2>1, <2>3 DEF MapIsOpen, NoPanic
  <2>7. QED  BY <2>5, <2>6
<1>5. CASE HubUnregisters
  <2> DEFINE c == Head(unregister)
  <2>1. /\ clients' = clients \ {c} /\ UNCHANGED <<register, handler>>
        /\ closed' = [closed EXCEPT ![c] = @ \/ c \in clients]
        /\ panicked' = (panicked \/ (c \in clients /\ closed[c]))
    BY <1>5 DEF HubUnregisters, goroutines
  <2>2. c \in Conns  BY <1>5, <1>a, TailEffect DEF HubUnregisters, TypeOK
  <2> HIDE DEF c
  <2>3. \A d \in Conns : closed'[d] => closed[d] \/ (d = c /\ d \in clients)
    BY <1>a, <2>1, <2>2 DEF TypeOK
  <2>4. \A i \in DOMAIN register : register[i] \in Conns  BY <1>a DEF TypeOK
  <2>5. OnceRegistered'  BY <1>a, <2>1, <2>3, <2>4 DEF OnceRegistered
  <2>6. MapIsOpen'  BY <1>a, <2>1, <2>3 DEF MapIsOpen, TypeOK
  <2>7. NoPanic'  BY <1>a, <2>1 DEF MapIsOpen, NoPanic
  <2>8. QED  BY <2>5, <2>6, <2>7
<1>6. CASE HubBroadcasts
  <2>1. panicked' = (panicked \/ \E c \in clients : closed[c])  BY <1>6 DEF HubBroadcasts
  <2>2. NoPanic'  BY <1>a, <2>1 DEF MapIsOpen, NoPanic
  <2>3. UNCHANGED <<clients, register, handler, closed>>  BY <1>6 DEF HubBroadcasts
  <2>4. QED  BY <1>a, <2>2, <2>3 DEF OnceRegistered, MapIsOpen
<1>7. CASE HubStops
  BY <1>7, <1>a DEF HubStops, channels, goroutines, sends, OnceRegistered, MapIsOpen, NoPanic
<1>8. ASSUME NEW c \in Conns, NEW h \in BOOLEAN, Upgrade(c, h)
      PROVE  OnceRegistered' /\ MapIsOpen' /\ NoPanic'
  <2>1. \A d \in Conns : handler[d] = "returned" => handler'[d] = "returned"
    BY <1>8, <1>a DEF Upgrade, Unserved, TypeOK
  <2>2. QED  BY <1>2, <1>8, <2>1
<1>9. QED
  BY <1>1, <1>3, <1>4, <1>5, <1>6, <1>7, <1>8
  DEF Serving, Read, Write, Kick, Hub, PeerLeaves, ReadFails, ReaderUnregisters, ReaderCloses,
      WriterTakes, WriterEnds, WriterReturns, KickerCloses, KickerUnregisters, Broadcast,
      channels, goroutines, sends

(* The step that does nothing, and the hub with its own handler.           *)
LEMMA HubStutter == HubInv /\ UNCHANGED vars => HubInv'
BY DEF HubInv, TypeOK, OnceRegistered, MapIsOpen, Unserved, NoPanic, vars

LEMMA HubNext == HubInv /\ [Next]_vars => HubInv'
<1> SUFFICES ASSUME HubInv, [Next]_vars PROVE HubInv'  OBVIOUS
<1>1. CASE UNCHANGED vars  BY <1>1, HubStutter
<1>2. CASE Next  BY <1>2, HubStep DEF Next
<1>3. QED  BY <1>1, <1>2

(* No channel ever holds more than its capacity, for all of its senders.   *)
THEOREM HubTypes == Spec => []TypeOK
<1>1. HubInv => TypeOK  BY DEF HubInv
<1>2. QED  BY <1>1, HubInit, HubNext, PTL DEF Spec

(* The hub, reached through its own handler as the package's tests do,     *)
(* never sends on a closed channel and never closes one twice, for any     *)
(* number of connections and kickers and all capacities: a connection is   *)
(* registered once, and closed only on its way out of the map.             *)
THEOREM HubNeverPanics == Spec => []NoPanic
<1>1. HubInv => NoPanic  BY DEF HubInv
<1>2. QED  BY <1>1, HubInit, HubNext, PTL DEF Spec

-----------------------------------------------------------------------------
(* What the server knows of a connection that came through its handler:    *)
(* the answer to its request, unless it is a refusal or to OPTIONS, means  *)
(* that the request got past auth.                                         *)
Admitted ==
    \A c \in Chained :
        status[c] \notin {0, 204, 401} => \E r \in {request[c][1]} : auth(cfg, r)

AnswersInv ==
    /\ request = [c \in Conns |-> request[c]] /\ status = [c \in Conns |-> status[c]]
    /\ ValidAPI(cfg)
    /\ Admitted

ServerInv == HubInv /\ AnswersInv

(* The chain answers anything but 204 and 401 only to an admitted request. *)
LEMMA ChainAdmits ==
    ASSUME NEW r, NEW h, Chain(cfg, r, h) \notin {204, 401}
    PROVE  auth(cfg, r)
BY DEF Chain

(* An answered request is remembered with its answer.                      *)
LEMMA AnswerStep ==
    ASSUME AnswersInv, NEW c \in Conns, NEW r, NEW code, Answered(c, r, code),
           code \notin {204, 401} => auth(cfg, r)
    PROVE  AnswersInv'
<1>1. /\ request' = [request EXCEPT ![c] = <<r>>] /\ status' = [status EXCEPT ![c] = code]
      /\ cfg' = cfg
  BY DEF Answered
<1>2. /\ request' = [d \in Conns |-> IF d = c THEN <<r>> ELSE request[d]]
      /\ status' = [d \in Conns |-> IF d = c THEN code ELSE status[d]]
  BY <1>1 DEF AnswersInv
<1>3. Admitted'
  <2> SUFFICES ASSUME NEW d \in Chained, status'[d] \notin {0, 204, 401}
               PROVE  \E q \in {request'[d][1]} : auth(cfg, q)
    BY <1>1 DEF Admitted, auth
  <2>1. d \in Conns  BY ServerAssumption
  <2>2. CASE d = c  BY <1>2, <2>1, <2>2
  <2>3. CASE d # c  BY <1>2, <2>1, <2>3 DEF AnswersInv, Admitted
  <2>4. QED  BY <2>2, <2>3
<1>4. QED  BY <1>1, <1>2, <1>3 DEF AnswersInv, ValidAPI

(* Every step of the server, its own and the hub's, keeps the invariant.   *)
LEMMA ServerStep ==
    ServerInv /\ [ServerNext]_<<vars, serverVars>> => ServerInv'
<1> SUFFICES ASSUME HubInv, AnswersInv, [ServerNext]_<<vars, serverVars>>
             PROVE  HubInv' /\ AnswersInv'
  BY DEF ServerInv
<1>1. ASSUME UNCHANGED serverVars PROVE AnswersInv'
  BY <1>1 DEF serverVars, AnswersInv, Admitted, ValidAPI, auth
<1>2. ASSUME NEW c \in Conns \ Chained, Dial(c) PROVE HubInv' /\ AnswersInv'
  <2>1. HubInv'  BY <1>2, HubStep DEF Dial
  <2>2. /\ status' = [d \in Conns |-> IF d = c THEN 101 ELSE status[d]]
        /\ request' = request /\ cfg' = cfg
    BY <1>2 DEF Dial, AnswersInv
  <2>3. Admitted'  BY <1>2, <2>2, ServerAssumption DEF AnswersInv, Admitted, auth
  <2>4. QED  BY <2>1, <2>2, <2>3 DEF AnswersInv, ValidAPI
<1>3. ASSUME NEW c \in Chained, NEW r \in Requests, AskHub(c, r)
      PROVE  HubInv' /\ AnswersInv'
  <2>1. c \in Conns  BY ServerAssumption
  <2>2. PICK h \in {400, 101, 500} :
           Upgrade(c, h = 101) /\ Answered(c, r, Chain(cfg, r, h))
    BY <1>3 DEF AskHub
  <2>3. HubInv'
    <3>1. CASE h = 101
      <4>1. Upgrade(c, TRUE)  BY <2>2, <3>1 DEF Upgrade
      <4>2. QED  BY <2>1, <4>1, HubStep
    <3>2. CASE h # 101
      <4>1. Upgrade(c, FALSE)  BY <2>2, <3>2 DEF Upgrade
      <4>2. QED  BY <2>1, <4>1, HubStep
    <3>3. QED  BY <3>1, <3>2
  <2>4. AnswersInv'  BY <2>1, <2>2, AnswerStep, ChainAdmits
  <2>5. QED  BY <2>3, <2>4
<1>4. ASSUME NEW c \in Chained, NEW r \in Requests, AskOther(c, r)
      PROVE  HubInv' /\ AnswersInv'
  <2>1. c \in Conns  BY ServerAssumption
  <2>2. PICK h \in {200, Panic} : Answered(c, r, Chain(cfg, r, h))  BY <1>4 DEF AskOther
  <2>3. HubInv'  BY <1>4, <2>1, HubStep DEF AskOther
  <2>4. AnswersInv'  BY <2>1, <2>2, AnswerStep, ChainAdmits
  <2>5. QED  BY <2>3, <2>4
<1>5. CASE Serving /\ UNCHANGED serverVars
  BY <1>1, <1>5, HubStep
<1>6. CASE UNCHANGED <<vars, serverVars>>
  BY <1>1, <1>6, HubStutter
<1>7. QED  BY <1>2, <1>3, <1>4, <1>5, <1>6 DEF ServerNext

LEMMA ServerInvariance == ServerSpec => []ServerInv
<1>1. ServerInit => ServerInv
  BY HubInit, ServerAssumption DEF ServerInit, ServerInv, AnswersInv, Admitted
<1>2. QED  BY <1>1, ServerStep, PTL DEF ServerSpec

(* The hub behind Server.Start's handler never panics either, whatever is  *)
(* asked and whether or not a connection can be upgraded.                  *)
THEOREM ServerNeverPanics == ServerSpec => []NoPanic
<1>1. ServerInv => NoPanic  BY DEF ServerInv, HubInv
<1>2. QED  BY <1>1, ServerInvariance, PTL

(* With authentication on, for every configuration file that Validate      *)
(* accepts and every request, an answer other than a refusal or the one to *)
(* OPTIONS went to someone who showed the token, which is not blank, or    *)
(* asked for an exempt path.                                               *)
THEOREM TokenIsAsked == ServerSpec => []StrangersAreRefused
<1>1. ServerInv => StrangersAreRefused
  <2> SUFFICES ASSUME AnswersInv, NEW c \in Chained, cfg.authEnabled,
                      status[c] \notin {0, 204, 401}
               PROVE  \E r \in {request[c][1]} :
                         Exempt(r) \/ \E t \in {r.bearer, r.query} : ~Blank(t) /\ t = cfg.token
    BY DEF ServerInv, StrangersAreRefused
  <2>1. PICK r \in {request[c][1]} : auth(cfg, r)  BY ZenonT(30) DEF AnswersInv, Admitted
  <2>2. ~Blank(cfg.token)  BY DEF AnswersInv, ValidAPI
  <2>3. Presented(r) \in {r.bearer, r.query}  BY DEF Presented
  <2>4. QED  BY <2>1, <2>2, <2>3 DEF auth
<1>2. QED  BY <1>1, ServerInvariance, PTL

-----------------------------------------------------------------------------
(* THE EVENT LOG.  What the loop of handleEvents finds.                    *)

(* What the loop has found when n events have been looked at, g being what *)
(* it had found before.                                                    *)
Look(g, q, n) ==
    IF n = 0 THEN << >>
    ELSE LET ev == events[Len(events) + 1 - n]
         IN  IF Matches(q, ev) THEN Append(g[n - 1], ev) ELSE g[n - 1]
IsFound(g, q) == g = [n \in 0..Len(events) |-> Look(g, q, n)]
Found(q) == CHOOSE g : IsFound(g, q)

(* The answer is what has been found at the end of the loop.               *)
LEMMA FilteredIsFound == ASSUME NEW q PROVE Filtered(q) = Found(q)[Len(events)]
BY DEF Filtered, Found, IsFound, Look

(* The loop is a function: by induction over the events looked at.         *)
LEMMA FoundIsFound ==
    ASSUME NEW q, NEW E, events \in Seq(E)
    PROVE  \A n \in 0..Len(events) : Found(q)[n] = Look(Found(q), q, n)
<1> DEFINE L == Len(events)
           T == {n \in Nat : \E g : \A k \in 0..L : k <= n => g[k] = Look(g, q, k)}
<1>0. L \in Nat  OBVIOUS
<1> HIDE DEF L
<1>1. 0 \in T
  <2> DEFINE g == [k \in 0..L |-> << >>]
  <2>1. \A k \in 0..L : k <= 0 => g[k] = Look(g, q, k)  BY <1>0 DEF Look
  <2>2. QED  BY <2>1
<1>2. \A n \in T : n + 1 \in T
  <2> TAKE n \in T
  <2>1. PICK g : \A k \in 0..L : k <= n => g[k] = Look(g, q, k)  OBVIOUS
  <2> DEFINE h == [k \in 0..L |-> Look(g, q, k)]
  <2>2. ASSUME NEW k \in 0..L, k <= n + 1 PROVE h[k] = Look(h, q, k)
    <3>1. CASE k = 0  BY <3>1 DEF Look
    <3>2. CASE k # 0
      <4>1. k - 1 \in 0..L /\ k - 1 <= n  BY <1>0, <2>2, <3>2
      <4>2. h[k - 1] = g[k - 1]  BY <2>1, <4>1
      <4>3. h[k] = Look(g, q, k)  OBVIOUS
      <4> HIDE DEF h
      <4>4. QED  BY <3>2, <4>2, <4>3 DEF Look
    <3>3. QED  BY <3>1, <3>2
  <2> HIDE DEF h
  <2>3. n + 1 \in Nat  OBVIOUS
  <2>4. QED  BY <2>2, <2>3
<1>3. L \in T
  <2> HIDE DEF T
  <2>1. T \in SUBSET Nat  BY DEF T
  <2>2. QED  BY <1>0, <1>1, <1>2, <2>1, SetInduction
<1>4. PICK g : \A n \in 0..L : g[n] = Look(g, q, n)  BY <1>0, <1>3
<1> DEFINE G == [n \in 0..L |-> g[n]]
<1>5. \A n \in 0..L : Look(G, q, n) = Look(g, q, n)
  <2> TAKE n \in 0..L
  <2>1. CASE n = 0  BY <2>1 DEF Look
  <2>2. CASE n # 0
    <3>1. n - 1 \in 0..L  BY <1>0, <2>2
    <3>2. G[n - 1] = g[n - 1]  BY <3>1
    <3> HIDE DEF G
    <3>3. QED  BY <3>2 DEF Look
  <2>3. QED  BY <2>1, <2>2
<1>6. G = [n \in 0..L |-> Look(G, q, n)]
  <2>1. \A n \in 0..L : g[n] = Look(G, q, n)  BY <1>4, <1>5
  <2>2. [n \in 0..L |-> g[n]] = [n \in 0..L |-> Look(G, q, n)]
    <3> HIDE DEF G
    <3>1. QED  BY <2>1
  <2>3. QED  BY <2>2
<1>7. IsFound(Found(q), q)
  <2> HIDE DEF G
  <2>1. IsFound(G, q)  BY <1>6 DEF IsFound, L
  <2>2. QED  BY <2>1 DEF Found
<1>8. QED
  <2> DEFINE F == Found(q)
  <2>1. F = [n \in 0..L |-> Look(F, q, n)]  BY <1>7 DEF IsFound, L
  <2> HIDE DEF F
  <2>2. \A n \in 0..L : F[n] = Look(F, q, n)  BY <2>1
  <2>3. QED  BY <2>2 DEF F, L

(* The events of the log that match, and those of the newest n that do.    *)
Matching(q) == {i \in DOMAIN events : Matches(q, events[i])}
Latest(q, n) == {i \in Matching(q) : i > Len(events) - n}

LEMMA LogDomain ==
    ASSUME NEW E, events \in Seq(E)
    PROVE  /\ Len(events) \in Nat /\ DOMAIN events = 1..Len(events)
           /\ \A i \in DOMAIN events : events[i] \in E
OBVIOUS

(* How many newer ones there are is counted among the matching ones.       *)
LEMMA NewerIs ==
    ASSUME NEW q, NEW i PROVE Newer(q, i) = Cardinality({j \in Matching(q) : j > i})
<1>1. {j \in DOMAIN events : j > i /\ Matches(q, events[j])} = {j \in Matching(q) : j > i}
  BY DEF Matching
<1>2. QED  BY <1>1 DEF Newer

LEMMA MatchingFinite ==
    ASSUME NEW q, NEW E, events \in Seq(E)
    PROVE  /\ IsFiniteSet(Matching(q)) /\ Matching(q) \subseteq 1..Len(events)
           /\ Cardinality(Matching(q)) \in 0..Len(events)
           /\ \A t \in SUBSET Matching(q) :
                IsFiniteSet(t) /\ Cardinality(t) \in 0..Cardinality(Matching(q))
           /\ \A i : Newer(q, i) \in Nat
<1>1. Matching(q) \subseteq 1..Len(events) /\ Len(events) \in Nat  BY LogDomain DEF Matching
<1>2. IsFiniteSet(1..Len(events)) /\ Cardinality(1..Len(events)) = Len(events)
  <2> DEFINE L == Len(events)
  <2>1. 1 \in Int /\ L \in Int /\ L >= 0  BY <1>1
  <2> HIDE DEF L
  <2>2. IsFiniteSet(1..L) /\ Cardinality(1..L) = IF 1 > L THEN 0 ELSE L - 1 + 1
    BY <2>1, FS_Interval
  <2>3. Cardinality(1..L) = L  BY <2>1, <2>2
  <2>4. QED  BY <2>2, <2>3 DEF L
<1>3. /\ IsFiniteSet(Matching(q)) /\ Cardinality(Matching(q)) <= Len(events)
      /\ Cardinality(Matching(q)) \in Nat
  <2>1. /\ IsFiniteSet(Matching(q))
        /\ Cardinality(Matching(q)) <= Cardinality(1..Len(events))
    BY <1>1, <1>2, FS_Subset
  <2>2. QED  BY <1>2, <2>1, FS_CardinalityType
<1>4. ASSUME NEW t \in SUBSET Matching(q)
      PROVE  IsFiniteSet(t) /\ Cardinality(t) \in 0..Cardinality(Matching(q))
  <2>1. IsFiniteSet(t) /\ Cardinality(t) <= Cardinality(Matching(q))  BY <1>3, FS_Subset
  <2>2. Cardinality(t) \in Nat  BY <2>1, FS_CardinalityType
  <2>3. QED  BY <1>3, <2>1, <2>2
<1>5. ASSUME NEW i PROVE Newer(q, i) \in Nat
  <2> DEFINE t == {j \in Matching(q) : j > i}
  <2>1. Newer(q, i) = Cardinality(t)  BY NewerIs
  <2>2. t \in SUBSET Matching(q)  OBVIOUS
  <2> HIDE DEF t
  <2>3. QED  BY <1>3, <1>4, <2>1, <2>2
<1>6. QED  BY <1>1, <1>3, <1>4, <1>5

(* Among matching events, the older has more newer ones.                   *)
LEMMA NewerOrder ==
    ASSUME NEW q, NEW E, events \in Seq(E),
           NEW i \in Matching(q), NEW j \in Matching(q), i < j
    PROVE  Newer(q, j) < Newer(q, i)
<1> DEFINE A == {k \in Matching(q) : k > i}
           B == {k \in Matching(q) : k > j}
<1>1. i \in Nat /\ j \in Nat /\ \A k \in Matching(q) : k \in Nat  BY MatchingFinite
<1>2. B \subseteq A /\ j \in A /\ j \notin B
  <2>1. \A k \in Matching(q) : k > j => k > i  BY <1>1
  <2>2. j > i /\ ~(j > j)  BY <1>1
  <2>3. QED  BY <2>1, <2>2
<1>3. A \in SUBSET Matching(q) /\ B \in SUBSET Matching(q)  OBVIOUS
<1>4. IsFiniteSet(A) /\ Cardinality(A) \in Nat /\ Cardinality(B) \in Nat
  <2> HIDE DEF A, B
  <2>1. Cardinality(Matching(q)) \in Nat  BY MatchingFinite
  <2>2. QED  BY <1>3, <2>1, MatchingFinite
<1>5. Newer(q, i) = Cardinality(A) /\ Newer(q, j) = Cardinality(B)  BY NewerIs
<1> HIDE DEF A, B
<1>6. Cardinality(B) <= Cardinality(A) /\ Cardinality(A) # Cardinality(B)
  BY <1>2, <1>4, FS_Subset
<1>7. QED  BY <1>4, <1>5, <1>6

LEMMA NewerOnce ==
    ASSUME NEW q, NEW E, events \in Seq(E),
           NEW i \in Matching(q), NEW j \in Matching(q), Newer(q, i) = Newer(q, j)
    PROVE  i = j
<1>1. i \in Nat /\ j \in Nat /\ Newer(q, i) \in Nat  BY MatchingFinite
<1>2. ~(i < j) /\ ~(j < i)  BY <1>1, NewerOrder
<1>3. QED  BY <1>1, <1>2

(* After n events the loop has found the matching ones of the newest n,    *)
(* each at the place that the number of newer ones gives it.               *)
Finds(q, n, s) ==
    /\ Len(s) = Cardinality(Latest(q, n))
    /\ \A i \in Latest(q, n) : Newer(q, i) + 1 \in 1..Len(s) /\ s[Newer(q, i) + 1] = events[i]
    /\ \A k \in 1..Len(s) : \E i \in Latest(q, n) : Newer(q, i) + 1 = k

LEMMA LoopFinds ==
    ASSUME NEW q, NEW E, events \in Seq(E)
    PROVE  \A n \in 0..Len(events) : Found(q)[n] \in Seq(E) /\ Finds(q, n, Found(q)[n])
<1> DEFINE L == Len(events)
           T == {n \in Nat : n <= L => Found(q)[n] \in Seq(E) /\ Finds(q, n, Found(q)[n])}
<1>1. L \in Nat /\ DOMAIN events = 1..L /\ \A i \in DOMAIN events : events[i] \in E
  BY LogDomain
<1>2. \A n \in 0..L : Found(q)[n] = Look(Found(q), q, n)  BY FoundIsFound
<1>3. 0 \in T
  <2>1. Found(q)[0] = << >>  BY <1>1, <1>2 DEF Look
  <2>2. Latest(q, 0) = {}  BY <1>1, MatchingFinite DEF Latest
  <2>3. Cardinality({}) = 0 /\ Len(<< >>) = 0 /\ 1..0 = {}  BY FS_EmptySet
  <2>4. Finds(q, 0, << >>)  BY <2>2, <2>3 DEF Finds
  <2>5. << >> \in Seq(E)  OBVIOUS
  <2>6. Found(q)[0] \in Seq(E) /\ Finds(q, 0, Found(q)[0])  BY <2>1, <2>4, <2>5
  <2> HIDE DEF L
  <2>7. QED  BY <2>6
<1>4. \A n \in T : n + 1 \in T
  <2> TAKE n \in T
  <2> SUFFICES ASSUME n + 1 <= L
               PROVE  Found(q)[n + 1] \in Seq(E) /\ Finds(q, n + 1, Found(q)[n + 1])
    OBVIOUS
  <2> DEFINE s == Found(q)[n]
             i0 == L - n
             ev == events[i0]
  <2>1. s \in Seq(E) /\ Finds(q, n, s)  BY <1>1
  <2>2. i0 \in DOMAIN events /\ i0 \in Nat /\ ev \in E  BY <1>1
  <2>3. Found(q)[n + 1] = IF Matches(q, ev) THEN Append(s, ev) ELSE s
    <3>1. n + 1 \in 0..L /\ n + 1 # 0 /\ (n + 1) - 1 = n /\ L + 1 - (n + 1) = i0
      <4>1. n \in Nat  OBVIOUS
      <4> HIDE DEF L, T
      <4>2. QED  BY <1>1, <4>1
    <3>2. Found(q)[n + 1] = Look(Found(q), q, n + 1)  BY <1>2, <3>1
    <3>3. QED  BY <3>1, <3>2 DEF Look
  <2>4. CASE ~Matches(q, ev)
    <3>1. Latest(q, n + 1) = Latest(q, n)
      BY <1>1, <2>2, <2>4, MatchingFinite DEF Latest, Matching
    <3>2. QED  BY <2>1, <2>3, <2>4, <3>1 DEF Finds
  <2>5. CASE Matches(q, ev)
    <3>1. /\ Latest(q, n + 1) = Latest(q, n) \cup {i0} /\ i0 \notin Latest(q, n)
          /\ Latest(q, n) = {j \in Matching(q) : j > i0}
      BY <1>1, <2>2, <2>5, MatchingFinite DEF Latest, Matching
    <3>2. IsFiniteSet(Latest(q, n)) /\ Cardinality(Latest(q, n)) \in Nat
      <4>1. Latest(q, n) \in SUBSET Matching(q)  BY DEF Latest
      <4>2. Cardinality(Matching(q)) \in Nat  BY MatchingFinite
      <4>3. QED  BY <4>1, <4>2, MatchingFinite
    <3>3. Cardinality(Latest(q, n + 1)) = Cardinality(Latest(q, n)) + 1
      BY <3>1, <3>2, FS_AddElement
    <3>4. Newer(q, i0) = Len(s)  BY <2>1, <3>1, NewerIs DEF Finds
    <3> DEFINE t == Append(s, ev)
    <3>5. /\ t \in Seq(E) /\ Len(t) = Len(s) + 1 /\ Len(s) \in Nat /\ t[Len(s) + 1] = ev
          /\ \A k \in 1..Len(s) : t[k] = s[k]
      BY <2>1, <2>2
    <3> HIDE DEF t
    <3>6. Len(t) = Cardinality(Latest(q, n + 1))  BY <2>1, <3>3, <3>5 DEF Finds
    <3>7. ASSUME NEW i \in Latest(q, n + 1)
          PROVE  Newer(q, i) + 1 \in 1..Len(t) /\ t[Newer(q, i) + 1] = events[i]
      <4>1. CASE i = i0  BY <3>4, <3>5, <4>1
      <4>2. CASE i \in Latest(q, n)  BY <2>1, <3>5, <4>2 DEF Finds
      <4>3. QED  BY <3>1, <4>1, <4>2
    <3>8. ASSUME NEW k \in 1..Len(t) PROVE \E i \in Latest(q, n + 1) : Newer(q, i) + 1 = k
      <4>1. CASE k = Len(s) + 1  BY <3>1, <3>4, <4>1
      <4>2. CASE k \in 1..Len(s)  BY <2>1, <3>1, <4>2 DEF Finds
      <4>3. QED  BY <3>5, <4>1, <4>2
    <3>9. Finds(q, n + 1, t)  BY <3>6, <3>7, <3>8 DEF Finds
    <3>10. QED  BY <2>3, <2>5, <3>5, <3>9 DEF t
  <2>6. QED  BY <2>4, <2>5
<1>5. T = Nat
  <2> HIDE DEF T
  <2>1. T \in SUBSET Nat  BY DEF T
  <2>2. QED  BY <1>3, <1>4, <2>1, SetInduction
<1>6. QED  BY <1>1, <1>5

(* What handleEvents filters out of the log: the matching events, the      *)
(* newest first.                                                           *)
LEMMA FilteredIs ==
    ASSUME NEW q, NEW E, events \in Seq(E)
    PROVE  /\ Filtered(q) \in Seq(E) /\ Len(Filtered(q)) = Cardinality(Matching(q))
           /\ \A i \in Matching(q) : /\ Newer(q, i) + 1 \in 1..Len(Filtered(q))
                                     /\ Filtered(q)[Newer(q, i) + 1] = events[i]
           /\ \A k \in 1..Len(Filtered(q)) : \E i \in Matching(q) : Newer(q, i) + 1 = k
<1>1. Len(events) \in 0..Len(events)  BY LogDomain
<1>2. Latest(q, Len(events)) = Matching(q)  BY LogDomain, MatchingFinite DEF Latest
<1>3. /\ Found(q)[Len(events)] \in Seq(E)
      /\ Finds(q, Len(events), Found(q)[Len(events)])
  BY <1>1, LoopFinds
<1>4. QED  BY <1>2, <1>3, FilteredIsFound DEF Finds
-----------------------------------------------------------------------------
(* The subsets of 1..n are as many as 2^n, and those of 1..(n + 1) are     *)
(* these, and these with n + 1 put in.                                     *)
LEMMA PowersOfTwo ==
    ASSUME NEW n \in Nat
    PROVE  2^n \in Nat \ {0} /\ 2^(n + 1) = 2 * 2^n
<1>1. ASSUME NEW m \in Nat
      PROVE  IsFiniteSet(SUBSET (1..m)) /\ Cardinality(SUBSET (1..m)) = 2^m
  <2>1. IsFiniteSet(1..m) /\ Cardinality(1..m) = IF 1 > m THEN 0 ELSE m - 1 + 1
    BY FS_Interval
  <2>2. Cardinality(1..m) = m  BY <2>1
  <2>3. QED  BY <2>1, <2>2, FS_SUBSET
<1> DEFINE A == SUBSET (1..n)
           B == {s \cup {n + 1} : s \in A}
<1>2. IsFiniteSet(A) /\ Cardinality(A) = 2^n /\ Cardinality(A) \in Nat
  BY <1>1, FS_CardinalityType
<1>3. SUBSET (1..(n + 1)) = A \cup B
  <2>1. 1..(n + 1) = 1..n \cup {n + 1}  OBVIOUS
  <2>2. ASSUME NEW s \in SUBSET (1..(n + 1)) PROVE s \in A \cup B
    <3>1. CASE n + 1 \in s
      <4>1. s \ {n + 1} \in A /\ s = (s \ {n + 1}) \cup {n + 1}  BY <2>1, <3>1
      <4>2. QED  BY <4>1
    <3>2. CASE n + 1 \notin s  BY <2>1, <3>2
    <3>3. QED  BY <3>1, <3>2
  <2>3. ASSUME NEW s \in A \cup B PROVE s \in SUBSET (1..(n + 1))  BY <2>1
  <2>4. QED  BY <2>2, <2>3
<1>4. \A s \in A : n + 1 \notin s  OBVIOUS
<1>5. A \cap B = {}  BY <1>4
<1>6. IsFiniteSet(B) /\ Cardinality(B) = Cardinality(A)
  <2> DEFINE f == [s \in A |-> s \cup {n + 1}]
  <2>1. f \in [A -> B]  OBVIOUS
  <2>2. \A s, t \in A : f[s] = f[t] => s = t
    <3> TAKE s \in A, t \in A
    <3> HAVE f[s] = f[t]
    <3>1. s \cup {n + 1} = t \cup {n + 1}  OBVIOUS
    <3>2. n + 1 \notin s /\ n + 1 \notin t  BY <1>4
    <3>3. QED  BY <3>1, <3>2
  <2>3. \A b \in B : \E s \in A : f[s] = b  OBVIOUS
  <2> HIDE DEF A, B, f
  <2>4. ExistsBijection(A, B)
    BY <2>1, <2>2, <2>3 DEF ExistsBijection, Bijection, Injection, IsInjective, Surjection
  <2>5. QED  BY <1>2, <2>4, FS_Bijection
<1> HIDE DEF A, B
<1>7. Cardinality(A \cup B) = Cardinality(A) + Cardinality(B) - Cardinality(A \cap B)
  BY <1>2, <1>6, FS_Union
<1>8. Cardinality(A \cup B) = 2 * Cardinality(A)  BY <1>2, <1>5, <1>6, <1>7, FS_EmptySet
<1>9. 2^(n + 1) = 2 * 2^n
  <2>1. n + 1 \in Nat  OBVIOUS
  <2>2. Cardinality(SUBSET (1..(n + 1))) = 2^(n + 1)  BY <1>1, <2>1
  <2>3. QED  BY <1>2, <1>3, <1>8, <2>2
<1>10. 2^n # 0
  <2>1. {} \in A  BY DEF A
  <2>2. QED  BY <1>2, <2>1, FS_EmptySet
<1>11. QED  BY <1>2, <1>9, <1>10

(* The sum of two positive ints is itself or, when it is too large for an  *)
(* int, negative.                                                          *)
LEMMA SumOfInts ==
    ASSUME NEW n \in Nat, n < 2 * 2^(IntBits - 1)
    PROVE  /\ 2^(IntBits - 1) \in Nat \ {0}
           /\ n < 2^(IntBits - 1) => int(n) = n
           /\ n >= 2^(IntBits - 1) => int(n) \in Int /\ int(n) < 0
<1> DEFINE H == 2^(IntBits - 1)
<1>1. IntBits - 1 \in Nat /\ (IntBits - 1) + 1 = IntBits  BY EventLogAssumption
<1>2. H \in Nat \ {0} /\ 2^IntBits = 2 * H  BY <1>1, PowersOfTwo
<1>3. int(n) = ((n + H) % (2 * H)) - H  BY <1>2 DEF int
<1> HIDE DEF H
<1>4. CASE n < H
  <2>1. n + H \in 0..(2 * H - 1)  BY <1>2, <1>4
  <2>2. (n + H) % (2 * H) = n + H  BY <1>2, <2>1
  <2>3. QED  BY <1>2, <1>3, <1>4, <2>2 DEF H
<1>5. CASE n >= H
  <2>1. n - H \in 0..(2 * H - 1)  BY <1>2, <1>5 DEF H
  <2>2. (n + H) % (2 * H) = n - H
    <3>1. n + H = 2 * H + (n - H)  BY <1>2
    <3>2. QED  BY <1>2, <2>1, <3>1
  <2>3. QED  BY <1>2, <1>3, <1>5, <2>2 DEF H
<1>6. QED  BY <1>2, <1>4, <1>5

(* What strconv.Atoi and its defaults can make of a client's query.        *)
Readable(q) ==
    /\ Offset(q) \in Nat /\ Offset(q) < 2^(IntBits - 1)
    /\ Limit(q) \in Nat \ {0} /\ Limit(q) < 2^(IntBits - 1)

LEMMA QueriesAreReadable == ASSUME NEW q \in Queries PROVE Readable(q)
<1> DEFINE H == 2^(IntBits - 1)
<1>1. IntBits - 1 \in Nat  BY EventLogAssumption
<1>2. H \in Nat \ {0} /\ DefaultLimit < H /\ DefaultLimit \in Nat \ {0}
  BY <1>1, PowersOfTwo, EventLogAssumption
<1>3. /\ q.limit = << >> \/ \E k \in -H..H - 1 : q.limit = <<k>>
      /\ q.offset = << >> \/ \E k \in -H..H - 1 : q.offset = <<k>>
  BY EventLogAssumption
<1> HIDE DEF H
<1>4. Limit(q) \in Nat \ {0} /\ Limit(q) < H
  <2>1. CASE q.limit = << >>  BY <1>2, <2>1 DEF Limit
  <2>2. ASSUME NEW k \in -H..H - 1, q.limit = <<k>> PROVE Limit(q) \in Nat \ {0} /\ Limit(q) < H
    <3>1. q.limit[1] = k  BY <2>2
    <3>2. k \in Int /\ k < H  BY <1>2
    <3>3. QED  BY <1>2, <3>1, <3>2 DEF Limit
  <2>3. QED  BY <1>3, <2>1, <2>2
<1>5. Offset(q) \in Nat /\ Offset(q) < H
  <2>1. CASE q.offset = << >>  BY <1>2, <2>1 DEF Offset
  <2>2. ASSUME NEW k \in -H..H - 1, q.offset = <<k>> PROVE Offset(q) \in Nat /\ Offset(q) < H
    <3>1. q.offset[1] = k  BY <2>2
    <3>2. k \in Int /\ k < H  BY <1>2
    <3>3. QED  BY <1>2, <3>1, <3>2 DEF Offset
  <2>3. QED  BY <1>3, <2>1, <2>2
<1>6. QED  BY <1>4, <1>5 DEF Readable, H

(* Where the slice of the answer starts and ends, for a page of l events   *)
(* from o on, and when it panics.                                          *)
Cut(q, o, l, a, b) ==
    /\ a <= o /\ a <= Len(Filtered(q)) /\ a <= b /\ b <= Len(Filtered(q))
    /\ a = o \/ (a = Len(Filtered(q)) /\ o > a)
    /\ b = IF a + l > Len(Filtered(q)) THEN Len(Filtered(q)) ELSE a + l

LEMMA CutOut ==
    ASSUME NEW q, NEW E, events \in Seq(E),
           Offset(q) \in Nat, Limit(q) \in Nat \ {0},
           Start(q) < 2^(IntBits - 1), Limit(q) < 2^(IntBits - 1)
    PROVE  /\ Start(q) \in Nat /\ Start(q) <= Offset(q) /\ Start(q) <= Len(Filtered(q))
           /\ End(q) < Start(q) => Start(q) + Limit(q) >= 2^(IntBits - 1)
           /\ Start(q) + Limit(q) >= 2^(IntBits - 1) => End(q) < Start(q)
           /\ ~(End(q) < Start(q)) =>
                End(q) \in Nat /\ Cut(q, Offset(q), Limit(q), Start(q), End(q))
<1> DEFINE L == Len(Filtered(q))
           H == 2^(IntBits - 1)
           n == Start(q) + Limit(q)
<1>1. L \in Nat /\ H \in Nat \ {0}
  <2>1. Filtered(q) \in Seq(E)  BY FilteredIs
  <2>2. IntBits - 1 \in Nat  BY EventLogAssumption
  <2>3. QED  BY <2>1, <2>2, PowersOfTwo
<1>2. Start(q) = IF Offset(q) > L THEN L ELSE Offset(q)  BY DEF Start
<1>3. End(q) = IF int(n) > L THEN L ELSE int(n)  BY DEF End
<1> HIDE DEF L, H
<1>4. n \in Nat /\ n < 2 * H  BY <1>1, <1>2 DEF H
<1> HIDE DEF n
<1>5. (n < H => int(n) = n) /\ (n >= H => int(n) \in Int /\ int(n) < 0)
  BY <1>4, SumOfInts DEF H
<1>6. Start(q) \in 0..Offset(q) /\ Start(q) <= L
      /\ (Start(q) = Offset(q) \/ (Start(q) = L /\ Offset(q) > Start(q)))
  BY <1>1, <1>2
<1>7. n > Start(q)  BY <1>6 DEF n
<1>8. CASE n < H
  <2>1. End(q) = IF n > L THEN L ELSE n  BY <1>3, <1>5, <1>8
  <2>2. End(q) \in Nat /\ End(q) >= Start(q) /\ End(q) <= L
    BY <1>1, <1>4, <1>6, <1>7, <2>1
  <2>3. Cut(q, Offset(q), Limit(q), Start(q), End(q))
    BY <1>6, <2>1, <2>2 DEF Cut, L, n
  <2>4. ~(End(q) < Start(q)) /\ ~(n >= H)  BY <1>1, <1>4, <1>6, <1>8, <2>2
  <2>5. QED  BY <1>6, <2>2, <2>3, <2>4 DEF L, H, n
<1>9. CASE n >= H
  <2>1. End(q) < Start(q)  BY <1>1, <1>3, <1>5, <1>6, <1>9
  <2>2. QED  BY <1>6, <1>9, <2>1 DEF L, H, n
<1>10. QED  BY <1>1, <1>4, <1>8, <1>9

(* The l events of the page from o on are what is cut out.                 *)
Slice(q, a, b)  == SubSeq(Filtered(q), a + 1, b)
OnPage(q, o, l) == {i \in Matching(q) : Newer(q, i) \in o..(o + l - 1)}
IsPage(q, o, l, s) ==
    /\ Len(s) = Cardinality(OnPage(q, o, l))
    /\ \A i \in OnPage(q, o, l) : /\ Newer(q, i) - o + 1 \in 1..Len(s)
                                  /\ s[Newer(q, i) - o + 1] = events[i]
    /\ \A k \in 1..Len(s) : \E i \in OnPage(q, o, l) : s[k] = events[i]

LEMMA PageIsCutOut ==
    ASSUME NEW q, NEW E, events \in Seq(E), NEW o \in Nat, NEW l \in Nat \ {0},
           NEW a \in Nat, NEW b \in Nat, Cut(q, o, l, a, b)
    PROVE  Slice(q, a, b) \in Seq(E) /\ IsPage(q, o, l, Slice(q, a, b))
<1> DEFINE F == Filtered(q)
           L == Len(F)
           s == Slice(q, a, b)
<1>1. /\ F \in Seq(E) /\ L \in Nat
      /\ \A i \in Matching(q) : /\ Newer(q, i) + 1 \in 1..L
                                /\ F[Newer(q, i) + 1] = events[i]
      /\ \A k \in 1..L : \E i \in Matching(q) : Newer(q, i) + 1 = k
  BY FilteredIs
<1>2. /\ a <= o /\ a <= L /\ a <= b /\ b <= L
      /\ a = o \/ (a = L /\ o > a)
      /\ b = IF a + l > L THEN L ELSE a + l
  BY DEF Cut
<1>3. s \in Seq(E) /\ Len(s) = b - a /\ \A k \in 1..(b - a) : s[k] = F[a + k]
  <2> DEFINE m == a + 1
             t == SubSeq(F, m, b)
  <2>1. m \in Int /\ b \in Int /\ m = a + 1 /\ \A k \in m..b : F[k] \in E  BY <1>1, <1>2
  <2>2. t = s  BY DEF Slice
  <2> HIDE DEF F, L, m
  <2>3. /\ t \in Seq(E) /\ Len(t) = IF m <= b THEN b - m + 1 ELSE 0
        /\ \A k \in 1..(b - m + 1) : t[k] = F[m + k - 1]
    BY <2>1, SubSeqProperties
  <2> HIDE DEF t
  <2>4. Len(t) = b - a  BY <1>2, <2>1, <2>3
  <2>5. \A k \in 1..(b - a) : t[k] = F[a + k]
    <3> TAKE k \in 1..(b - a)
    <3>1. k \in 1..(b - m + 1) /\ m + k - 1 = a + k  BY <1>2, <2>1
    <3>2. QED  BY <2>3, <3>1
  <2>6. QED  BY <2>2, <2>3, <2>4, <2>5
<1> HIDE DEF F, L, s
<1> DEFINE P == OnPage(q, o, l)
<1>5. \A i : Newer(q, i) \in Nat  BY MatchingFinite
<1>6. ASSUME NEW i \in P
      PROVE  a = o /\ Newer(q, i) + 1 \in (a + 1)..b /\ i \in Matching(q)
  <2>1. i \in Matching(q) /\ Newer(q, i) \in Nat /\ Newer(q, i) >= o
        /\ Newer(q, i) <= o + l - 1
    BY <1>5 DEF OnPage
  <2>2. Newer(q, i) + 1 <= L  BY <1>1, <2>1
  <2>3. a = o  BY <1>1, <1>2, <2>1, <2>2
  <2>4. QED  BY <1>1, <1>2, <2>1, <2>2, <2>3
<1>7. ASSUME NEW k \in (a + 1)..b PROVE \E i \in P : Newer(q, i) + 1 = k
  <2>1. k \in 1..L /\ a = o /\ k <= a + l  BY <1>1, <1>2
  <2>2. PICK i \in Matching(q) : Newer(q, i) + 1 = k  BY <1>1, <2>1
  <2>3. Newer(q, i) \in o..(o + l - 1)  BY <1>2, <1>5, <2>1, <2>2
  <2>4. QED  BY <2>2, <2>3 DEF OnPage
<1>8. \A i, j \in P : Newer(q, i) + 1 = Newer(q, j) + 1 => i = j
  <2> TAKE i \in P, j \in P
  <2> HAVE Newer(q, i) + 1 = Newer(q, j) + 1
  <2>1. Newer(q, i) = Newer(q, j)  BY <1>5
  <2>2. QED  BY <1>6, <2>1, NewerOnce
<1>9. Cardinality(P) = b - a
  <2> DEFINE I == (a + 1)..b
             f == [i \in P |-> Newer(q, i) + 1]
  <2>1. IsFiniteSet(I) /\ Cardinality(I) = b - a
    <3> DEFINE m == a + 1
    <3>1. m \in Int /\ b \in Int /\ m = a + 1 /\ I = m..b  BY <1>2
    <3> HIDE DEF m, I
    <3>2. IsFiniteSet(m..b) /\ Cardinality(m..b) = IF m > b THEN 0 ELSE b - m + 1
      BY <3>1, FS_Interval
    <3>3. QED  BY <1>2, <3>1, <3>2
  <2>2. f \in [P -> I]  BY <1>6
  <2>3. \A i, j \in P : f[i] = f[j] => i = j  BY <1>8
  <2>4. \A k \in I : \E i \in P : f[i] = k  BY <1>7
  <2> HIDE DEF P, I, f
  <2>5. f \in Injection(P, I) /\ f \in Surjection(P, I)
    BY <2>2, <2>3, <2>4 DEF Injection, IsInjective, Surjection
  <2>6. QED  BY <2>1, <2>5, FS_Injection
<1>10. ASSUME NEW i \in P
       PROVE  /\ Newer(q, i) - o + 1 \in 1..Len(s)
              /\ s[Newer(q, i) - o + 1] = events[i]
  <2>1. a = o /\ Newer(q, i) + 1 \in (a + 1)..b /\ i \in Matching(q)  BY <1>6
  <2>2. Newer(q, i) - o + 1 \in 1..(b - a)
        /\ a + (Newer(q, i) - o + 1) = Newer(q, i) + 1
    <3>1. Newer(q, i) \in Nat /\ Newer(q, i) + 1 >= a + 1 /\ Newer(q, i) + 1 <= b
      BY <1>2, <1>5, <2>1
    <3> HIDE DEF P
    <3>2. QED  BY <1>2, <2>1, <3>1
  <2>3. s[Newer(q, i) - o + 1] = F[Newer(q, i) + 1]  BY <1>3, <2>2
  <2>4. QED  BY <1>1, <1>3, <2>1, <2>2, <2>3
<1>11. ASSUME NEW k \in 1..Len(s) PROVE \E i \in P : s[k] = events[i]
  <2>1. k \in 1..(b - a)  BY <1>3
  <2>2. a + k \in (a + 1)..b  BY <1>2, <2>1
  <2>3. PICK i \in P : Newer(q, i) + 1 = a + k  BY <1>7, <2>2
  <2>4. s[k] = F[Newer(q, i) + 1]  BY <1>3, <2>1, <2>3
  <2>5. QED  BY <1>1, <1>6, <2>3, <2>4
<1>12. QED  BY <1>3, <1>9, <1>10, <1>11 DEF s, IsPage

(* Every query of a client is answered with its page.                      *)
AnswersFor(q, answer, wants) ==
    \/ answer.status = 400 /\ q.since = -1
    \/ answer.status = 500 /\ Offset(q) + Limit(q) >= 2^(IntBits - 1)
    \/ /\ answer.status = 200
       /\ Len(answer.events) = Cardinality(wants)
       /\ \A i \in wants : answer.events[Newer(q, i) - Offset(q) + 1] = events[i]

LEMMA Answers ==
    ASSUME NEW q \in Queries, NEW E, events \in Seq(E)
    PROVE  AnswersFor(q, handleEvents(q), OnPage(q, Offset(q), Limit(q)))
<1> DEFINE wants == OnPage(q, Offset(q), Limit(q))
           s == Slice(q, Start(q), End(q))
           H == 2^(IntBits - 1)
<1>1. Offset(q) \in Nat /\ Offset(q) < H /\ Limit(q) \in Nat \ {0} /\ Limit(q) < H
  BY QueriesAreReadable DEF Readable
<1>2. H \in Nat
  <2>1. IntBits - 1 \in Nat  BY EventLogAssumption
  <2>2. QED  BY <2>1, PowersOfTwo
<1>3. Start(q) < H
  <2>1. Filtered(q) \in Seq(E)  BY FilteredIs
  <2>2. Len(Filtered(q)) \in Nat  BY <2>1
  <2> HIDE DEF H
  <2>3. QED  BY <1>1, <1>2, <2>2 DEF Start
<1>4. /\ Start(q) \in Nat /\ Start(q) <= Offset(q)
      /\ End(q) < Start(q) => Start(q) + Limit(q) >= H
      /\ ~(End(q) < Start(q)) =>
           End(q) \in Nat /\ Cut(q, Offset(q), Limit(q), Start(q), End(q))
  BY <1>1, <1>3, CutOut
<1>5. CASE q.since = -1
  <2>1. handleEvents(q) = Reply(400, << >>, 0)  BY <1>5 DEF handleEvents
  <2>2. QED  BY <1>5, <2>1 DEF Reply, AnswersFor
<1>6. CASE q.since # -1 /\ End(q) < Start(q)
  <2>1. handleEvents(q) = Reply(500, << >>, 0)  BY <1>6 DEF handleEvents
  <2> HIDE DEF H
  <2>2. Offset(q) + Limit(q) >= H  BY <1>1, <1>2, <1>4, <1>6
  <2>3. QED  BY <2>1, <2>2 DEF Reply, H, AnswersFor
<1>7. CASE q.since # -1 /\ ~(End(q) < Start(q))
  <2>1. handleEvents(q) = Reply(200, s, Len(Filtered(q)))  BY <1>7 DEF handleEvents, Slice
  <2>2. /\ Len(s) = Cardinality(wants)
        /\ \A i \in wants : s[Newer(q, i) - Offset(q) + 1] = events[i]
    <3> DEFINE o == Offset(q)
               l == Limit(q)
               a == Start(q)
               b == End(q)
    <3>1. /\ o \in Nat /\ l \in Nat \ {0} /\ a \in Nat /\ b \in Nat
          /\ Cut(q, o, l, a, b)
      BY <1>1, <1>4, <1>7
    <3>2. s = Slice(q, a, b) /\ events \in Seq(E)  OBVIOUS
    <3> HIDE DEF o, l, a, b, s, wants
    <3>3. IsPage(q, o, l, Slice(q, a, b))  BY <3>1, <3>2, PageIsCutOut
    <3>4. QED  BY <3>2, <3>3 DEF o, l, wants, IsPage
  <2> HIDE DEF s, wants
  <2>3. handleEvents(q).status = 200 /\ handleEvents(q).events = s  BY <2>1 DEF Reply
  <2>4. AnswersFor(q, handleEvents(q), wants)  BY <2>2, <2>3 DEF AnswersFor
  <2>5. QED  BY <2>4 DEF wants
<1>8. QED  BY <1>5, <1>6, <1>7

LEMMA PagesAreAnswered == ASSUME NEW E, events \in Seq(E) PROVE AnswerIsThePage
<1> SUFFICES ASSUME NEW q \in Queries
    PROVE  LET answer == handleEvents(q)
               wants  == {i \in DOMAIN events : Matches(q, events[i])
                             /\ Newer(q, i) \in Offset(q)..(Offset(q) + Limit(q) - 1)}
           IN  CASE answer.status = 200 ->
                     /\ Len(answer.events) = Cardinality(wants)
                     /\ \A i \in wants : answer.events[Newer(q, i) - Offset(q) + 1] = events[i]
              [] answer.status = 400 -> q.since = -1
              [] answer.status = 500 -> Offset(q) + Limit(q) >= 2^(IntBits - 1)
  BY DEF AnswerIsThePage
<1> DEFINE answer == handleEvents(q)
           wants == {i \in DOMAIN events : Matches(q, events[i])
                        /\ Newer(q, i) \in Offset(q)..(Offset(q) + Limit(q) - 1)}
<1>1. wants = OnPage(q, Offset(q), Limit(q))  BY DEF OnPage, Matching
<1>2. AnswersFor(q, answer, wants)  BY <1>1, Answers
<1> HIDE DEF wants, answer
<1>3. CASE answer.status = 400 /\ q.since = -1  BY <1>3 DEF answer
<1>4. CASE answer.status = 500 /\ Offset(q) + Limit(q) >= 2^(IntBits - 1)
  BY <1>4 DEF answer
<1>5. CASE /\ answer.status = 200
           /\ Len(answer.events) = Cardinality(wants)
           /\ \A i \in wants : answer.events[Newer(q, i) - Offset(q) + 1] = events[i]
  BY <1>5 DEF wants, answer
<1>6. QED  BY <1>2, <1>3, <1>4, <1>5 DEF AnswersFor

-----------------------------------------------------------------------------
(* What a selection of the page wants, and how many newer ones there are   *)
(* of an event: the same for all pages of the selection.                   *)
Wants(f, ev) == Matches(PageQuery(<<f, 0>>), ev)
Depth(f, i)  == Newer(PageQuery(<<f, 0>>), i)

LEMMA PageQueryIs ==
    ASSUME NEW f, NEW o \in Nat
    PROVE  LET q == PageQuery(<<f, o>>)
           IN  /\ Limit(q) = PageLimit /\ Offset(q) = o /\ q.since = 0
               /\ q.offset = <<0>> <=> o = 0
               /\ \A i : Newer(q, i) = Depth(f, i)
               /\ \A i : i \in Matching(q) <=> i \in DOMAIN events /\ Wants(f, events[i])
<1> DEFINE q == PageQuery(<<f, o>>)
           p == PageQuery(<<f, 0>>)
<1>1. PageLimit \in Nat /\ PageLimit > 0  BY EventLogAssumption
<1>2. /\ q.limit = <<PageLimit>> /\ q.offset = <<o>> /\ q.reason = f /\ q.since = 0
      /\ p.reason = f /\ p.since = 0
  BY DEF PageQuery
<1> HIDE DEF q, p
<1>3. Limit(q) = PageLimit /\ Offset(q) = o  BY <1>1, <1>2 DEF Limit, Offset
<1>4. \A ev : Matches(q, ev) <=> Matches(p, ev)  BY <1>2 DEF Matches
<1>5. \A i : Newer(q, i) = Newer(p, i)  BY <1>4 DEF Newer
<1>6. \A i : i \in Matching(q) <=> i \in DOMAIN events /\ Matches(p, events[i])
  BY <1>4 DEF Matching
<1>7. q.offset = <<0>> <=> o = 0  BY <1>2
<1>8. QED  BY <1>2, <1>3, <1>5, <1>6, <1>7 DEF q, p, Depth, Wants

(* What the log answers to a request of the page: no answer is cut short   *)
(* by an overflow, since the log is not long.                              *)
Shows(f, o, ids, n) ==
    /\ ids \subseteq Ids(events) /\ n \in 0..LogCap
    /\ \A i \in DOMAIN events : Wants(f, events[i]) =>
         Depth(f, i) < n /\ (Depth(f, i) \in o..(o + PageLimit - 1) => events[i].id \in ids)

LEMMA PageIsShown ==
    ASSUME NEW E, events \in Seq(E), Len(events) <= LogCap, NEW f, NEW o \in Nat
    PROVE  LET q == PageQuery(<<f, o>>)
           IN  /\ Shows(f, o, Ids(handleEvents(q).events), handleEvents(q).total)
               /\ \A k \in Ids(Filtered(q)) :
                    \E i \in DOMAIN events : events[i].id = k /\ Wants(f, events[i])
<1> DEFINE q == PageQuery(<<f, o>>)
           H == 2^(IntBits - 1)
           a == Start(q)
           b == End(q)
           l == PageLimit
<1>1. /\ Limit(q) = l /\ Offset(q) = o /\ q.since = 0 /\ l \in Nat \ {0}
      /\ \A i : Newer(q, i) = Depth(f, i)
      /\ \A i : i \in Matching(q) <=> i \in DOMAIN events /\ Wants(f, events[i])
  BY PageQueryIs, EventLogAssumption
<1> HIDE DEF q
<1>2. H \in Nat /\ LogCap + l < H /\ LogCap \in Nat
  <2>1. IntBits - 1 \in Nat  BY EventLogAssumption
  <2>2. QED  BY <2>1, PowersOfTwo, EventLogAssumption
<1>3. /\ Filtered(q) \in Seq(E) /\ Len(Filtered(q)) \in 0..Len(events)
      /\ \A i \in Matching(q) : /\ Newer(q, i) + 1 \in 1..Len(Filtered(q))
                                /\ Filtered(q)[Newer(q, i) + 1] = events[i]
      /\ \A k \in 1..Len(Filtered(q)) : \E i \in Matching(q) : Newer(q, i) + 1 = k
  <2>1. Cardinality(Matching(q)) \in 0..Len(events)  BY MatchingFinite
  <2>2. QED  BY <2>1, FilteredIs
<1>4. Len(Filtered(q)) \in 0..LogCap  BY <1>2, <1>3, LogDomain
<1> HIDE DEF H
<1>5. a \in Nat /\ a <= LogCap /\ a < H /\ l < H
  BY <1>1, <1>2, <1>4 DEF Start
<1>6. ~(a + l >= H)  BY <1>1, <1>2, <1>5
<1>7. b \in Nat /\ ~(b < a) /\ Cut(q, o, l, a, b)
  BY <1>1, <1>5, <1>6, CutOut DEF H
<1> HIDE DEF a, b, l
<1>8. handleEvents(q) = Reply(200, Slice(q, a, b), Len(Filtered(q)))
  BY <1>1, <1>7 DEF handleEvents, Slice, a, b
<1>9. handleEvents(q).events = Slice(q, a, b) /\ handleEvents(q).total = Len(Filtered(q))
  BY <1>8 DEF Reply
<1>10. Slice(q, a, b) \in Seq(E) /\ IsPage(q, o, l, Slice(q, a, b))
  BY <1>1, <1>5, <1>7, PageIsCutOut
<1>11. \A k \in 1..Len(Filtered(q)) :
          \E i \in Matching(q) : Newer(q, i) + 1 = k /\ Filtered(q)[k] = events[i]
  BY <1>3
<1>12. DOMAIN Filtered(q) = 1..Len(Filtered(q))
       /\ DOMAIN Slice(q, a, b) = 1..Len(Slice(q, a, b))
  BY <1>3, <1>10
<1>13. ASSUME NEW k \in Ids(Filtered(q))
       PROVE  \E i \in DOMAIN events : events[i].id = k /\ Wants(f, events[i])
  <2>1. PICK n \in DOMAIN Filtered(q) : k = Filtered(q)[n].id  BY DEF Ids
  <2>2. PICK i \in Matching(q) : Filtered(q)[n] = events[i]  BY <1>11, <1>12, <2>1
  <2>3. QED  BY <1>1, <2>1, <2>2
<1>14. Ids(Slice(q, a, b)) \subseteq Ids(events)
  <2> SUFFICES ASSUME NEW n \in DOMAIN Slice(q, a, b)
               PROVE  Slice(q, a, b)[n].id \in Ids(events)
    BY DEF Ids
  <2>1. n \in 1..Len(Slice(q, a, b))  BY <1>12
  <2>2. PICK i \in OnPage(q, o, l) : Slice(q, a, b)[n] = events[i]
    BY <1>10, <2>1 DEF IsPage
  <2>3. i \in DOMAIN events  BY <1>1 DEF OnPage
  <2>4. QED  BY <2>2, <2>3 DEF Ids
<1>15. ASSUME NEW i \in DOMAIN events, Wants(f, events[i])
       PROVE  /\ Depth(f, i) < Len(Filtered(q))
              /\ Depth(f, i) \in o..(o + l - 1) => events[i].id \in Ids(Slice(q, a, b))
  <2>1. i \in Matching(q) /\ Newer(q, i) = Depth(f, i)  BY <1>1, <1>15
  <2>2. Depth(f, i) < Len(Filtered(q))
    <3>1. Newer(q, i) + 1 \in 1..Len(Filtered(q)) /\ Newer(q, i) \in Nat
      BY <1>3, <2>1, MatchingFinite
    <3>2. QED  BY <1>4, <2>1, <3>1
  <2>3. ASSUME Depth(f, i) \in o..(o + l - 1) PROVE events[i].id \in Ids(Slice(q, a, b))
    <3>1. i \in OnPage(q, o, l)  BY <2>1, <2>3 DEF OnPage
    <3>2. PICK n \in 1..Len(Slice(q, a, b)) : Slice(q, a, b)[n] = events[i]
      BY <1>10, <3>1 DEF IsPage
    <3>3. QED  BY <1>12, <3>2 DEF Ids
  <2>4. QED  BY <2>2, <2>3
<1>16. Shows(f, o, Ids(handleEvents(q).events), handleEvents(q).total)
  BY <1>4, <1>9, <1>14, <1>15 DEF Shows, l
<1>17. QED  BY <1>13, <1>16 DEF q

(* The log after an event was added: all events but perhaps the oldest     *)
(* have moved by d, which is one place when the log was full.              *)
Shifted(d, ev) ==
    /\ Len(events') = Len(events) + 1 - d
    /\ \A i \in 1..(Len(events) - d) : events'[i] = events[i + d]
    /\ events'[Len(events) + 1 - d] = ev

LEMMA LogShifts ==
    ASSUME NEW E, events \in Seq(E), Len(events) <= LogCap, NEW ev \in E,
           events' = Appended(ev)
    PROVE  /\ events' \in Seq(E) /\ Len(events') <= LogCap
           /\ \E d \in {0, 1} : d <= Len(events) /\ Shifted(d, ev)
<1>1. LogCap \in Nat /\ LogCap > 0 /\ Len(events) \in Nat  BY EventLogAssumption
<1>2. CASE Len(events) >= LogCap
  <2> DEFINE t == Tail(events)
  <2>1. /\ t \in Seq(E) /\ Len(t) = Len(events) - 1
        /\ \A i \in 1..Len(t) : t[i] = events[i + 1]
    BY <1>1, <1>2, HeadTailProperties
  <2>2. events' = Append(t, ev)  BY <1>2 DEF Appended
  <2> HIDE DEF t
  <2>3. /\ events' \in Seq(E) /\ Len(events') = Len(t) + 1 /\ events'[Len(t) + 1] = ev
        /\ \A i \in 1..Len(t) : events'[i] = t[i]
    BY <2>1, <2>2
  <2>4. Shifted(1, ev)  BY <1>1, <2>1, <2>3 DEF Shifted
  <2>5. QED  BY <1>1, <1>2, <2>1, <2>3, <2>4
<1>3. CASE ~(Len(events) >= LogCap)
  <2>1. events' = Append(events, ev)  BY <1>3 DEF Appended
  <2>2. /\ events' \in Seq(E) /\ Len(events') = Len(events) + 1
        /\ events'[Len(events) + 1] = ev
        /\ \A i \in 1..Len(events) : events'[i] = events[i]
    BY <2>1
  <2>3. Shifted(0, ev)  BY <1>1, <2>2 DEF Shifted
  <2>4. QED  BY <1>1, <1>3, <2>2, <2>3
<1>4. QED  BY <1>2, <1>3

(* An event that stays in the log gets no fewer newer ones.                *)
LEMMA DepthGrows ==
    ASSUME NEW E, events \in Seq(E), events' \in Seq(E), NEW ev, NEW d \in {0, 1},
           d <= Len(events), Shifted(d, ev), NEW i \in 1..(Len(events) - d), NEW f
    PROVE  Depth(f, i)' >= Depth(f, i + d) /\ Depth(f, i + d) \in Nat /\ Depth(f, i)' \in Nat
<1> DEFINE q == PageQuery(<<f, 0>>)
           A == {j \in DOMAIN events : j > i + d /\ Matches(q, events[j])}
           B == {j \in DOMAIN events' : j > i /\ Matches(q, events'[j])}
           g == [j \in A |-> j - d]
<1>1. /\ Len(events) \in Nat /\ Len(events') = Len(events) + 1 - d
      /\ DOMAIN events = 1..Len(events) /\ DOMAIN events' = 1..Len(events')
      /\ \A j \in 1..(Len(events) - d) : events'[j] = events[j + d]
  BY DEF Shifted
<1>2. Depth(f, i + d) = Cardinality(A)  BY DEF Depth, Newer
<1>3. Depth(f, i)' = Cardinality(B)  BY DEF Depth, Newer, PageQuery, Matches
<1>4. IsFiniteSet(A) /\ Cardinality(A) \in Nat /\ IsFiniteSet(B) /\ Cardinality(B) \in Nat
  <2>1. IsFiniteSet(1..Len(events)) /\ IsFiniteSet(1..Len(events'))
    BY <1>1, FS_Interval
  <2>2. A \subseteq 1..Len(events) /\ B \subseteq 1..Len(events')  BY <1>1
  <2> HIDE DEF A, B
  <2>3. QED  BY <2>1, <2>2, FS_Subset, FS_CardinalityType
<1>5. \A j \in A : j \in Nat /\ j - d \in B
  <2> TAKE j \in A
  <2>1. j \in 1..Len(events) /\ j > i + d /\ Matches(q, events[j])  BY <1>1
  <2>2. j - d \in 1..(Len(events) - d) /\ (j - d) + d = j  BY <1>1, <2>1
  <2>3. events'[j - d] = events[j] /\ j - d \in 1..Len(events') /\ j - d > i
    BY <1>1, <2>1, <2>2
  <2>4. QED  BY <1>1, <2>1, <2>3
<1>6. g \in [A -> B] /\ \A j, k \in A : g[j] = g[k] => j = k
  <2>1. g \in [A -> B]  BY <1>5
  <2>2. \A j, k \in A : j - d = k - d => j = k  BY <1>5
  <2> HIDE DEF A, B
  <2>3. QED  BY <2>1, <2>2
<1> HIDE DEF A, B, g
<1>7. g \in Injection(A, B)  BY <1>6 DEF Injection, IsInjective
<1>8. Cardinality(A) <= Cardinality(B)  BY <1>4, <1>7, FS_Injection
<1>9. QED  BY <1>2, <1>3, <1>4, <1>8

-----------------------------------------------------------------------------
(* No event is logged twice, and none that has left the log comes back: a  *)
(* handler that waits has an event which nobody has seen.                  *)
LoggedOnce ==
    /\ \A h \in locking : stamped[h] # None
    /\ \A h, k \in Handlers : stamped[h] # None /\ stamped[h].id = stamped[k].id => h = k
    /\ \A i, j \in DOMAIN events : events[i].id = events[j].id => i = j

Unseen(id) ==
    id \notin Ids(events) /\ id \notin wanted /\ \A l \in Loads : id \notin loads[l].reply.matching
NoneReturns == \A h \in Handlers : stamped[h] # None => Unseen(stamped[h].id)

(* A load whose answer will be applied asks for what is selected.          *)
LoadsOfThePage ==
    \A l \in Loads :
        /\ loads[l].at = "free" => loads[l] = Free
        /\ loads[l].at # "free" => loads[l].asked \in Filters \X Nat
        /\ loads[l].active => loads[l].asked = <<filter, offset>>

(* A walk moves on by a page at most from the page that is shown.          *)
StepByStep ==
    leapt \/ offset = 0
          \/ (shown # << >> /\ filter = shown[1] /\ offset <= shown[2] + PageLimit)

(* What the walk has still to show, and what it will have when an answer   *)
(* that is under way is applied, lies ahead of the page: at places from    *)
(* last on, and there are that many.                                       *)
Ahead(ids, f, last, n) ==
    \A i \in DOMAIN events : events[i].id \in ids =>
        Wants(f, events[i]) /\ Depth(f, i) >= last /\ n > last
WalkIsAhead ==
    leapt \/ wanted = {}
          \/ (shown # << >> /\ Ahead(wanted \ seen, shown[1], shown[2] + PageLimit, total))
ReplyIsAhead(reply) ==
    IF offset = 0
      THEN Ahead(reply.matching \ reply.shown, filter, PageLimit, reply.total)
      ELSE leapt \/ Ahead(wanted \ (seen \cup reply.shown), filter, offset + PageLimit,
                          reply.total)
RepliesAreAhead ==
    \A l \in Loads : loads[l].at = "served" /\ loads[l].active => ReplyIsAhead(loads[l].reply)

WalkInv ==
    /\ LogTypeOK /\ LoggedOnce /\ NoneReturns
    /\ LoadsOfThePage /\ StepByStep /\ WalkIsAhead /\ RepliesAreAhead /\ ShownIsAsked

-----------------------------------------------------------------------------
(* Types.                                                                  *)
LEMMA LogTypeInit == LogInit => LogTypeOK
<1> SUFFICES ASSUME LogInit PROVE LogTypeOK  OBVIOUS
<1>1. LogCap \in Nat /\ MaxEvents \in Nat /\ AnyReason \in Filters  BY EventLogAssumption
<1>2. Free \in Load
  <2>1. NoReply \in [shown : SUBSET (1..blocks), total : 0..LogCap, matching : SUBSET (1..blocks)]
    BY <1>1 DEF NoReply
  <2>2. QED  BY <2>1 DEF Free, Load
<1>3. Ask \in Load
  <2>1. NoReply \in [shown : SUBSET (1..blocks), total : 0..LogCap, matching : SUBSET (1..blocks)]
    BY <1>1 DEF NoReply
  <2>2. <<filter, offset>> \in Filters \X Nat  BY <1>1 DEF LogInit
  <2>3. QED  BY <2>1, <2>2 DEF Ask, Load
<1>4. loads \in [Loads -> Load]
  <2>1. PICK l \in Loads : loads = [k \in Loads |-> IF k = l THEN Ask ELSE Free]  BY DEF LogInit
  <2>2. QED  BY <1>2, <1>3, <2>1
<1>5. stamped \in [Handlers -> Event \cup {None}]  BY DEF LogInit
<1>6. events \in Seq(Event) /\ Len(events) <= LogCap  BY <1>1 DEF LogInit
<1>7. /\ blocks \in 0..MaxEvents /\ offset \in Nat /\ total \in 0..LogCap
  <2>1. blocks = 0 /\ offset = 0 /\ total = 0  BY DEF LogInit
  <2>2. QED  BY <1>1, <2>1
<1>8. /\ locking \subseteq Handlers /\ holders \subseteq Loads /\ filter \in Filters
      /\ loading \in BOOLEAN /\ error \in BOOLEAN /\ leapt \in BOOLEAN
  BY <1>1 DEF LogInit
<1>9. /\ shown \in {<< >>} \cup (Filters \X Nat)
      /\ seen \subseteq 1..blocks /\ wanted \subseteq 1..blocks
  BY DEF LogInit
<1>10. QED  BY <1>4, <1>5, <1>6, <1>7, <1>8, <1>9 DEF LogTypeOK

LEMMA EventsTyped ==
    ASSUME LogTypeOK
    PROVE  /\ events \in Seq(Event) /\ Len(events) \in Nat /\ DOMAIN events = 1..Len(events)
           /\ \A i \in DOMAIN events : /\ events[i] \in Event /\ events[i].id \in 1..blocks
                                       /\ events[i].reason \in Reasons
           /\ Ids(events) \subseteq 1..blocks /\ blocks \in Nat
<1>1. events \in Seq(Event) /\ blocks \in 0..MaxEvents /\ MaxEvents \in Nat
  BY EventLogAssumption DEF LogTypeOK
<1>2. /\ Len(events) \in Nat /\ DOMAIN events = 1..Len(events)
      /\ \A i \in DOMAIN events : events[i] \in Event
  BY <1>1, LogDomain
<1>3. \A ev \in Event : ev.id \in 1..blocks /\ ev.reason \in Reasons  BY DEF Event
<1>4. QED  BY <1>1, <1>2, <1>3 DEF Ids

(* The steps of the handlers.                                              *)
LEMMA HandlersKeepTypes ==
    ASSUME LogTypeOK, LoggedOnce, NEW h \in Handlers
    PROVE  /\ Lock(h) \/ AddEvent(h) => LogTypeOK'
           /\ \A reason \in Reasons : Stamp(h, reason) => LogTypeOK'
<1> USE EventLogAssumption
<1>1. ASSUME NEW reason \in Reasons, Stamp(h, reason) PROVE LogTypeOK'
  <2>1. blocks' = blocks + 1 /\ blocks \in Nat /\ blocks' \in 0..MaxEvents /\ 1..blocks \subseteq 1..blocks'
    BY <1>1 DEF Stamp, LogTypeOK
  <2>2. Event \subseteq Event'  BY <2>1 DEF Event
  <2>3. Load \subseteq Load'
    <3> SUFFICES ASSUME NEW x \in Load PROVE x \in Load'  OBVIOUS
    <3>1. /\ x = [at |-> x.at, active |-> x.active, asked |-> x.asked, reply |-> x.reply]
          /\ x.reply = [shown |-> x.reply.shown, total |-> x.reply.total, matching |-> x.reply.matching]
      BY DEF Load
    <3>2. /\ x.at \in {"free", "asked", "served"} /\ x.active \in BOOLEAN
          /\ x.asked \in {<< >>} \cup (Filters \X Nat)
          /\ x.reply.shown \in SUBSET (1..blocks') /\ x.reply.total \in 0..LogCap
          /\ x.reply.matching \in SUBSET (1..blocks')
      BY <2>1 DEF Load
    <3>3. x.reply \in [shown : SUBSET (1..blocks'), total : 0..LogCap, matching : SUBSET (1..blocks')]
      BY <3>1, <3>2
    <3>4. QED  BY <3>1, <3>2, <3>3 DEF Load
  <2>4. [id |-> blocks + 1, reason |-> reason] \in Event'  BY <2>1 DEF Event
  <2>5. stamped' \in [Handlers -> Event' \cup {None}]
    <3>1. stamped' = [stamped EXCEPT ![h] = [id |-> blocks + 1, reason |-> reason]]
      BY <1>1 DEF Stamp
    <3>2. stamped \in [Handlers -> Event' \cup {None}]  BY <2>2 DEF LogTypeOK
    <3>3. QED  BY <2>4, <3>1, <3>2
  <2>6. events' \in Seq(Event')
    <3>1. events \in Seq(Event)  BY DEF LogTypeOK
    <3>2. events \in Seq(Event')  BY <2>2, <3>1, SeqMonotonic
    <3>3. QED  BY <1>1, <3>2 DEF Stamp
  <2>7. loads' \in [Loads -> Load']  BY <1>1, <2>3 DEF Stamp, LogTypeOK
  <2>8. None' = None  BY DEF None
  <2>9. QED  BY <1>1, <2>1, <2>5, <2>6, <2>7, <2>8 DEF Stamp, page, LogTypeOK
<1>2. ASSUME Lock(h) PROVE LogTypeOK'
  BY <1>2 DEF Lock, page, LogTypeOK, Event, Load, None
<1>3. ASSUME AddEvent(h) PROVE LogTypeOK'
  <2>1. stamped[h] \in Event  BY <1>3 DEF AddEvent, LoggedOnce, LogTypeOK
  <2>2. events' = Appended(stamped[h])  BY <1>3 DEF AddEvent
  <2>3. events \in Seq(Event) /\ Len(events) <= LogCap  BY DEF LogTypeOK
  <2>4. events' \in Seq(Event) /\ Len(events') <= LogCap  BY <2>1, <2>2, <2>3, LogShifts
  <2>5. Event' = Event /\ Load' = Load /\ None' = None  BY <1>3 DEF AddEvent, Event, Load, None
  <2>6. stamped' \in [Handlers -> Event \cup {None}]  BY <1>3 DEF AddEvent, LogTypeOK
  <2>7. QED  BY <1>3, <2>4, <2>5, <2>6 DEF AddEvent, page, LogTypeOK
<1>4. QED  BY <1>1, <1>2, <1>3

LEMMA LoadsTyped ==
    ASSUME LogTypeOK
    PROVE  /\ Ask \in Load /\ Free \in Load
           /\ \A f \in Filters, o \in Nat : [Ask EXCEPT !.asked = <<f, o>>] \in Load
           /\ \A l \in Loads :
                /\ loads[l] \in Load /\ loads[l].at \in {"free", "asked", "served"}
                /\ loads[l].active \in BOOLEAN /\ loads[l].asked \in {<< >>} \cup (Filters \X Nat)
                /\ loads[l].reply.shown \subseteq 1..blocks /\ loads[l].reply.total \in 0..LogCap
                /\ loads[l].reply.matching \subseteq 1..blocks
                /\ [loads[l] EXCEPT !.active = FALSE] \in Load
<1> DEFINE R == [shown : SUBSET (1..blocks), total : 0..LogCap, matching : SUBSET (1..blocks)]
<1>1. LogCap \in Nat  BY EventLogAssumption
<1>2. NoReply \in R  BY <1>1 DEF NoReply
<1>3. <<filter, offset>> \in Filters \X Nat  BY DEF LogTypeOK
<1>4. Load = [at : {"free", "asked", "served"}, active : BOOLEAN,
              asked : {<< >>} \cup (Filters \X Nat), reply : R]
  BY DEF Load
<1>5. \A x \in R : x.shown \subseteq 1..blocks /\ x.total \in 0..LogCap
                   /\ x.matching \subseteq 1..blocks
  OBVIOUS
<1>6. \A l \in Loads : loads[l] \in Load  BY DEF LogTypeOK
<1> HIDE DEF R
<1>7. Ask \in Load /\ Free \in Load  BY <1>2, <1>3, <1>4 DEF Ask, Free
<1>8. ASSUME NEW f \in Filters, NEW o \in Nat PROVE [Ask EXCEPT !.asked = <<f, o>>] \in Load
  BY <1>4, <1>7
<1>9. ASSUME NEW l \in Loads
      PROVE /\ loads[l].at \in {"free", "asked", "served"} /\ loads[l].active \in BOOLEAN
            /\ loads[l].asked \in {<< >>} \cup (Filters \X Nat) /\ loads[l].reply \in R
            /\ [loads[l] EXCEPT !.active = FALSE] \in Load
  <2>1. loads[l] \in Load  BY <1>6
  <2>2. QED  BY <1>4, <2>1
<1>10. QED  BY <1>5, <1>6, <1>7, <1>8, <1>9

(* The steps of the page.                                                  *)
LEMMA PageKeepsTypes ==
    ASSUME LogTypeOK, LoadsOfThePage, NEW l \in Loads,
           Interval(l) \/ Serve(l) \/ Respond(l) \/ Apply(l) \/ Fail(l)
    PROVE  LogTypeOK'
<1> USE EventLogAssumption
<1>1. ASSUME UNCHANGED server PROVE Event' = Event /\ Load' = Load /\ None' = None
  BY <1>1 DEF server, Event, Load, None
<1>2. ASSUME Interval(l) PROVE LogTypeOK'
  <2>1. loads' \in [Loads -> Load]  BY <1>2, LoadsTyped DEF Interval, LogTypeOK
  <2>2. QED  BY <1>1, <1>2, <2>1 DEF Interval, server, LogTypeOK
<1>3. ASSUME Serve(l) PROVE LogTypeOK'
  <2> DEFINE q == PageQuery(loads[l].asked)
             r == [shown |-> Ids(handleEvents(q).events), total |-> handleEvents(q).total,
                   matching |-> IF q.offset = <<0>> THEN Ids(Filtered(q)) ELSE {}]
  <2>1. loads[l].asked \in Filters \X Nat  BY <1>3 DEF Serve, LoadsOfThePage
  <2>2. PICK f \in Filters, o \in Nat : loads[l].asked = <<f, o>>  BY <2>1
  <2>3. /\ Shows(f, o, Ids(handleEvents(q).events), handleEvents(q).total)
        /\ \A k \in Ids(Filtered(q)) : \E i \in DOMAIN events : events[i].id = k
    <3>1. events \in Seq(Event) /\ Len(events) <= LogCap  BY DEF LogTypeOK
    <3>2. QED  BY <2>2, <3>1, PageIsShown
  <2> HIDE DEF q
  <2>4. /\ Ids(handleEvents(q).events) \subseteq 1..blocks /\ Ids(Filtered(q)) \subseteq 1..blocks
        /\ handleEvents(q).total \in 0..LogCap
    BY <2>3, EventsTyped DEF Shows, Ids
  <2>5. r \in [shown : SUBSET (1..blocks), total : 0..LogCap, matching : SUBSET (1..blocks)]
    BY <2>4
  <2>6. loads' = [loads EXCEPT ![l].at = "served", ![l].reply = r]  BY <1>3 DEF Serve, q
  <2> HIDE DEF r
  <2>7. loads' \in [Loads -> Load]
    <3>1. loads[l] \in Load /\ loads \in [Loads -> Load]  BY DEF LogTypeOK
    <3>2. loads' = [loads EXCEPT ![l] = [[loads[l] EXCEPT !.at = "served"] EXCEPT !.reply = r]]
      BY <2>6, <3>1
    <3>3. [[loads[l] EXCEPT !.at = "served"] EXCEPT !.reply = r] \in Load
      BY <2>5, <3>1 DEF Load
    <3>4. QED  BY <3>1, <3>2, <3>3
  <2>8. holders' \subseteq Loads  BY <1>3 DEF Serve, RLock, LogTypeOK
  <2>9. QED  BY <1>1, <1>3, <2>7, <2>8 DEF Serve, server, page, LogTypeOK
<1>4. ASSUME Respond(l) PROVE LogTypeOK'
  BY <1>1, <1>4 DEF Respond, RUnlock, server, page, LogTypeOK
<1>5. ASSUME Apply(l) PROVE LogTypeOK'
  <2>1. loads' \in [Loads -> Load]  BY <1>5, LoadsTyped DEF Apply, LogTypeOK
  <2>2. /\ total' \in 0..LogCap /\ loading' \in BOOLEAN /\ leapt' \in BOOLEAN
        /\ shown' \in {<< >>} \cup (Filters \X Nat)
        /\ seen' \subseteq 1..blocks /\ wanted' \subseteq 1..blocks
    BY <1>5, LoadsTyped DEF Apply, LogTypeOK
  <2>3. QED  BY <1>1, <1>5, <2>1, <2>2 DEF Apply, server, LogTypeOK
<1>6. ASSUME Fail(l) PROVE LogTypeOK'
  <2>1. loads' \in [Loads -> Load]  BY <1>6, LoadsTyped DEF Fail, LogTypeOK
  <2>2. loading' \in BOOLEAN /\ error' \in BOOLEAN  BY <1>6 DEF Fail, LogTypeOK
  <2>3. QED  BY <1>1, <1>6, <2>1, <2>2 DEF Fail, server, LogTypeOK
<1>7. QED  BY <1>2, <1>3, <1>4, <1>5, <1>6

LEMMA EffectKeepsTypes ==
    ASSUME LogTypeOK, NEW f \in Filters, NEW o \in Nat, Effect(f, o) PROVE LogTypeOK'
<1>1. Event' = Event /\ Load' = Load /\ None' = None
  BY DEF Effect, server, Event, Load, None
<1>2. PICK l \in Loads :
         /\ filter' = f /\ offset' = o
         /\ loads' = [k \in Loads |-> IF k = l THEN [Ask EXCEPT !.asked = <<f, o>>]
                                      ELSE [loads[k] EXCEPT !.active = FALSE]]
         /\ loading' = TRUE /\ error' = FALSE
         /\ leapt' = (leapt \/ shown # <<filter, offset>>)
         /\ UNCHANGED <<server, holders, total, shown, seen, wanted>>
  BY DEF Effect
<1>3. loads' \in [Loads -> Load]  BY <1>2, LoadsTyped
<1>4. leapt' \in BOOLEAN  BY <1>2 DEF LogTypeOK
<1>5. QED  BY <1>1, <1>2, <1>3, <1>4 DEF server, LogTypeOK

(* What is selected next.                                                  *)
LEMMA Selections ==
    ASSUME LogTypeOK, NextPage \/ PrevPage \/ Refresh \/ \E f \in Filters : Select(f)
    PROVE  \E f \in Filters, o \in Nat :
              Effect(f, o) /\ (o = 0 \/ (f = filter /\ o <= offset + PageLimit))
<1>1. filter \in Filters /\ offset \in Nat /\ PageLimit \in Nat
  BY EventLogAssumption DEF LogTypeOK
<1>2. CASE NextPage
  <2>1. offset + PageLimit \in Nat  BY <1>1
  <2>2. QED  BY <1>1, <1>2, <2>1 DEF NextPage
<1>3. CASE PrevPage
  <2>1. offset - PageLimit \in Nat /\ offset - PageLimit <= offset + PageLimit
    BY <1>1, <1>3 DEF PrevPage
  <2>2. QED  BY <1>1, <1>3, <2>1 DEF PrevPage
<1>4. CASE Refresh
  <2>1. offset <= offset + PageLimit  BY <1>1
  <2>2. QED  BY <1>1, <1>4, <2>1 DEF Refresh
<1>5. CASE \E f \in Filters : Select(f)  BY <1>5 DEF Select
<1>6. QED  BY <1>2, <1>3, <1>4, <1>5

-----------------------------------------------------------------------------
LEMMA AheadSame ==
    ASSUME UNCHANGED events, NEW ids, NEW f, NEW last, NEW n
    PROVE  Ahead(ids, f, last, n)' <=> Ahead(ids, f, last, n)
<1>1. \A i : Depth(f, i)' = Depth(f, i)
  BY DEF Depth, Newer, PageQuery, Matches
<1>2. QED  BY <1>1 DEF Ahead, Wants, PageQuery, Matches

LEMMA AheadGrows ==
    ASSUME LogTypeOK, NEW ev \in Event, events' = Appended(ev),
           NEW ids, ev.id \notin ids, NEW f, NEW last \in Nat, NEW n, Ahead(ids, f, last, n)
    PROVE  Ahead(ids, f, last, n)'
<1>1. events \in Seq(Event) /\ Len(events) <= LogCap  BY DEF LogTypeOK
<1>2. /\ events' \in Seq(Event)
      /\ \E d \in {0, 1} : d <= Len(events) /\ Shifted(d, ev)
  BY <1>1, LogShifts
<1>3. PICK d \in {0, 1} : d <= Len(events) /\ Shifted(d, ev)  BY <1>2
<1>4. /\ Len(events) \in Nat /\ DOMAIN events = 1..Len(events)
      /\ DOMAIN events' = 1..Len(events')
  BY <1>1, <1>2
<1> SUFFICES ASSUME NEW i \in DOMAIN events', events'[i].id \in ids
             PROVE  Wants(f, events'[i]) /\ Depth(f, i)' >= last /\ n > last
  BY DEF Ahead, Wants, PageQuery, Matches
<1>5. i \in 1..(Len(events) - d) /\ events'[i] = events[i + d] /\ i + d \in DOMAIN events
  BY <1>3, <1>4 DEF Shifted
<1>6. Wants(f, events[i + d]) /\ Depth(f, i + d) >= last /\ n > last
  BY <1>5 DEF Ahead
<1>7. Depth(f, i)' >= Depth(f, i + d) /\ Depth(f, i + d) \in Nat /\ Depth(f, i)' \in Nat
  BY <1>1, <1>2, <1>3, <1>5, DepthGrows
<1>8. QED  BY <1>5, <1>6, <1>7

LEMMA ReplySame ==
    ASSUME UNCHANGED <<events, filter, offset, wanted, seen, leapt>>, NEW reply
    PROVE  ReplyIsAhead(reply)' <=> ReplyIsAhead(reply)
BY AheadSame DEF ReplyIsAhead

(* Nothing that the page has still to show is lost while the page and its  *)
(* loads do not change.                                                    *)
Walking == /\ LoadsOfThePage /\ StepByStep /\ WalkIsAhead /\ RepliesAreAhead /\ ShownIsAsked

LEMMA WalkStays ==
    ASSUME Walking, UNCHANGED <<events, loads, page>>
    PROVE  Walking'
<1>1. LoadsOfThePage' /\ StepByStep' /\ ShownIsAsked'
  BY DEF Walking, page, LoadsOfThePage, StepByStep, ShownIsAsked, Free, NoReply
<1>2. WalkIsAhead'  BY AheadSame DEF Walking, page, WalkIsAhead
<1>3. RepliesAreAhead'  BY ReplySame DEF Walking, page, RepliesAreAhead
<1>4. QED  BY <1>1, <1>2, <1>3 DEF Walking

LEMMA StampStep ==
    ASSUME WalkInv, NEW h \in Handlers, NEW reason \in Reasons, Stamp(h, reason)
    PROVE  WalkInv'
<1> DEFINE ev == [id |-> blocks + 1, reason |-> reason]
<1>1. LogTypeOK'  BY HandlersKeepTypes DEF WalkInv
<1>2. /\ stamped' = [stamped EXCEPT ![h] = ev] /\ stamped[h] = None
      /\ UNCHANGED <<locking, events, holders, loads, page>>
  BY DEF Stamp
<1>3. /\ Ids(events) \subseteq 1..blocks /\ blocks \in Nat
      /\ wanted \subseteq 1..blocks /\ \A l \in Loads : loads[l].reply.matching \subseteq 1..blocks
      /\ stamped \in [Handlers -> Event \cup {None}]
  BY EventsTyped, LoadsTyped DEF WalkInv, LogTypeOK
<1>4. ev.id = blocks + 1 /\ blocks + 1 \notin 1..blocks /\ None.id = 0 /\ ev # None
  BY <1>3 DEF None
<1>5. \A k \in Handlers : stamped[k].id # ev.id
  <2>1. \A e \in Event : e.id \in 1..blocks  BY DEF Event
  <2>2. QED  BY <1>3, <1>4, <2>1
<1> HIDE DEF ev
<1>6. stamped'[h] = ev /\ \A k \in Handlers : k # h => stamped'[k] = stamped[k]
  BY <1>2, <1>3
<1>7. LoggedOnce'
  <2>1. /\ \A k \in locking : stamped[k] # None
        /\ \A k, m \in Handlers : stamped[k] # None /\ stamped[k].id = stamped[m].id => k = m
        /\ \A i, j \in DOMAIN events : events[i].id = events[j].id => i = j
    BY DEF WalkInv, LoggedOnce
  <2>2. None' = None  BY DEF None
  <2>3. \A k \in locking' : stamped'[k] # None
    BY <1>2, <1>4, <1>6, <2>1 DEF WalkInv, LogTypeOK
  <2>4. \A k, m \in Handlers : stamped'[k] # None /\ stamped'[k].id = stamped'[m].id => k = m
    BY <1>5, <1>6, <2>1
  <2>5. QED  BY <1>2, <2>1, <2>2, <2>3, <2>4 DEF LoggedOnce
<1>8. NoneReturns'
  <2> SUFFICES ASSUME NEW k \in Handlers, stamped'[k] # None PROVE Unseen(stamped'[k].id)
    BY <1>2 DEF NoneReturns, Unseen, Ids, None, page
  <2>1. CASE k = h  BY <1>3, <1>4, <1>6, <2>1 DEF Unseen
  <2>2. CASE k # h  BY <1>6, <2>2 DEF WalkInv, NoneReturns
  <2>3. QED  BY <2>1, <2>2
<1>9. Walking'  BY <1>2, WalkStays DEF WalkInv, Walking
<1>10. QED  BY <1>1, <1>7, <1>8, <1>9 DEF WalkInv, Walking

LEMMA LockStep ==
    ASSUME WalkInv, NEW h \in Handlers, Lock(h) PROVE WalkInv'
<1>1. LogTypeOK'  BY HandlersKeepTypes DEF WalkInv
<1>2. /\ UNCHANGED <<stamped, blocks, events, holders, loads, page>>
      /\ stamped[h] # None /\ locking' = locking \cup {h}
  BY DEF Lock
<1>3. LoggedOnce'  BY <1>2 DEF WalkInv, LoggedOnce, None
<1>4. NoneReturns'  BY <1>2 DEF WalkInv, NoneReturns, Unseen, Ids, None, page
<1>5. Walking'  BY <1>2, WalkStays DEF WalkInv, Walking
<1>6. QED  BY <1>1, <1>3, <1>4, <1>5 DEF WalkInv, Walking

LEMMA AddEventStep ==
    ASSUME WalkInv, NEW h \in Handlers, AddEvent(h) PROVE WalkInv'
<1> DEFINE ev == stamped[h]
<1>1. LogTypeOK'  BY HandlersKeepTypes DEF WalkInv
<1>2. /\ h \in locking /\ locking' = locking \ {h} /\ events' = Appended(ev)
      /\ stamped' = [stamped EXCEPT ![h] = None]
      /\ UNCHANGED <<blocks, holders, loads, page>>
  BY DEF AddEvent
<1>3. stamped \in [Handlers -> Event \cup {None}] /\ locking \subseteq Handlers
      /\ events \in Seq(Event) /\ Len(events) <= LogCap
  BY DEF WalkInv, LogTypeOK
<1>4. ev # None /\ ev \in Event /\ Unseen(ev.id)
  BY <1>2, <1>3 DEF WalkInv, LoggedOnce, NoneReturns
<1> HIDE DEF ev
<1>5. stamped'[h] = None /\ \A k \in Handlers : k # h => stamped'[k] = stamped[k]
  BY <1>2, <1>3
<1>6. PICK d \in {0, 1} : d <= Len(events) /\ Shifted(d, ev)
  BY <1>2, <1>3, <1>4, LogShifts
<1>7. /\ Len(events) \in Nat /\ DOMAIN events = 1..Len(events)
      /\ events' \in Seq(Event) /\ DOMAIN events' = 1..(Len(events) + 1 - d)
      /\ \A i \in DOMAIN events' :
            \/ i \in 1..(Len(events) - d) /\ i + d \in DOMAIN events /\ events'[i] = events[i + d]
            \/ i = Len(events) + 1 - d /\ events'[i] = ev
  <2>1. events' \in Seq(Event)  BY <1>2, <1>3, <1>4, LogShifts
  <2>2. QED  BY <1>3, <1>6, <2>1 DEF Shifted
<1>8. Ids(events') \subseteq Ids(events) \cup {ev.id}  BY <1>7 DEF Ids
<1>9. ev.id \notin Ids(events)  BY <1>4 DEF Unseen
<1>10. LoggedOnce'
  <2>1. /\ \A k \in locking : stamped[k] # None
        /\ \A k, m \in Handlers : stamped[k] # None /\ stamped[k].id = stamped[m].id => k = m
        /\ \A i, j \in DOMAIN events : events[i].id = events[j].id => i = j
    BY DEF WalkInv, LoggedOnce
  <2>2. \A k \in locking' : stamped'[k] # None  BY <1>2, <1>3, <1>5, <2>1
  <2>3. \A k, m \in Handlers : stamped'[k] # None /\ stamped'[k].id = stamped'[m].id => k = m
    <3>1. \A k \in Handlers : stamped[k] # None => stamped[k].id # None.id
      BY <1>3 DEF Event, None
    <3>2. QED  BY <1>5, <2>1, <3>1
  <2>4. ASSUME NEW i \in DOMAIN events', NEW j \in DOMAIN events', events'[i].id = events'[j].id
        PROVE  i = j
    <3>1. \A k \in DOMAIN events : events[k].id # ev.id  BY <1>9 DEF Ids
    <3>2. CASE i \in 1..(Len(events) - d) /\ j \in 1..(Len(events) - d)
               /\ events'[i] = events[i + d] /\ events'[j] = events[j + d]
               /\ i + d \in DOMAIN events /\ j + d \in DOMAIN events
      <4>1. i + d = j + d  BY <2>1, <2>4, <3>2
      <4>2. QED  BY <3>2, <4>1
    <3>3. QED  BY <1>7, <2>4, <3>1, <3>2
  <2>5. None' = None  BY DEF None
  <2>6. QED  BY <2>2, <2>3, <2>4, <2>5 DEF LoggedOnce
<1>11. NoneReturns'
  <2> SUFFICES ASSUME NEW k \in Handlers, stamped'[k] # None
               PROVE  stamped'[k].id \notin Ids(events') /\ Unseen(stamped'[k].id)
    BY <1>2 DEF NoneReturns, Unseen, Ids, None, page
  <2>1. k # h /\ stamped'[k] = stamped[k]  BY <1>5
  <2>2. stamped[k].id # ev.id
    BY <1>2, <1>3, <2>1 DEF WalkInv, LoggedOnce, ev
  <2>3. Unseen(stamped[k].id)  BY <2>1 DEF WalkInv, NoneReturns
  <2>4. QED  BY <1>8, <2>1, <2>2, <2>3 DEF Unseen
<1>12. LoadsOfThePage' /\ StepByStep' /\ ShownIsAsked'
  BY <1>2 DEF WalkInv, page, LoadsOfThePage, StepByStep, ShownIsAsked, Free, NoReply
<1>13. WalkIsAhead'
  <2>1. CASE leapt \/ wanted = {}  BY <1>2, <2>1 DEF page, WalkIsAhead
  <2>2. CASE shown # << >> /\ Ahead(wanted \ seen, shown[1], shown[2] + PageLimit, total)
    <3>1. shown[2] + PageLimit \in Nat
      BY <2>2, EventLogAssumption DEF WalkInv, LogTypeOK
    <3>2. ev.id \notin wanted \ seen  BY <1>4 DEF Unseen
    <3>3. Ahead(wanted \ seen, shown[1], shown[2] + PageLimit, total)'
      BY <1>2, <1>4, <2>2, <3>1, <3>2, AheadGrows DEF WalkInv, page
    <3>4. QED  BY <1>2, <2>2, <3>3 DEF page, WalkIsAhead
  <2>3. QED  BY <2>1, <2>2 DEF WalkInv, WalkIsAhead
<1>14. RepliesAreAhead'
  <2> SUFFICES ASSUME NEW l \in Loads, NEW reply, reply = loads[l].reply, ReplyIsAhead(reply)
               PROVE  ReplyIsAhead(reply)'
    BY <1>2 DEF WalkInv, RepliesAreAhead, page
  <2>1. PageLimit \in Nat /\ offset + PageLimit \in Nat
    BY EventLogAssumption DEF WalkInv, LogTypeOK
  <2>2. ev.id \notin reply.matching /\ ev.id \notin wanted  BY <1>4 DEF Unseen
  <2>3. CASE offset = 0
    <3>1. Ahead(reply.matching \ reply.shown, filter, PageLimit, reply.total)
      BY <2>3 DEF ReplyIsAhead
    <3>2. Ahead(reply.matching \ reply.shown, filter, PageLimit, reply.total)'
      BY <1>2, <1>4, <2>1, <2>2, <3>1, AheadGrows DEF WalkInv, page
    <3>3. QED  BY <1>2, <2>3, <3>2 DEF ReplyIsAhead, page
  <2>4. CASE offset # 0 /\ ~leapt
    <3>1. Ahead(wanted \ (seen \cup reply.shown), filter, offset + PageLimit, reply.total)
      BY <2>4 DEF ReplyIsAhead
    <3>2. Ahead(wanted \ (seen \cup reply.shown), filter, offset + PageLimit, reply.total)'
      BY <1>2, <1>4, <2>1, <2>2, <3>1, AheadGrows DEF WalkInv, page
    <3>3. QED  BY <1>2, <2>4, <3>2 DEF ReplyIsAhead, page
  <2>5. CASE offset # 0 /\ leapt  BY <1>2, <2>5 DEF ReplyIsAhead, page
  <2>6. QED  BY <2>3, <2>4, <2>5
<1>15. QED  BY <1>1, <1>10, <1>11, <1>12, <1>13, <1>14 DEF WalkInv

(* What no handler holds back stays so when only the page moves and takes  *)
(* what it wants from the log and from its loads.                          *)
LEMMA PageLogsNothing ==
    ASSUME LoggedOnce, NoneReturns, UNCHANGED server,
           wanted' \subseteq wanted \cup UNION {loads[l].reply.matching : l \in Loads},
           \A l \in Loads : loads'[l].reply.matching \subseteq
              Ids(events) \cup UNION {loads[k].reply.matching : k \in Loads}
    PROVE  LoggedOnce' /\ NoneReturns'
<1>1. LoggedOnce'  BY DEF server, LoggedOnce, None
<1>2. ASSUME NEW h \in Handlers, stamped[h] # None PROVE Unseen(stamped[h].id)'
  <2>1. Unseen(stamped[h].id)  BY <1>2 DEF NoneReturns
  <2>2. stamped' = stamped /\ events' = events  BY DEF server
  <2>3. QED  BY <2>1, <2>2 DEF Unseen, Ids
<1>3. NoneReturns'  BY <1>2 DEF NoneReturns, server, None
<1>4. QED  BY <1>1, <1>3

LEMMA IntervalStep ==
    ASSUME WalkInv, NEW l \in Loads, Interval(l) PROVE WalkInv'
<1>1. LogTypeOK'  BY PageKeepsTypes DEF WalkInv
<1>2. /\ loads' = [loads EXCEPT ![l] = Ask] /\ loading' = TRUE
      /\ UNCHANGED <<server, holders, filter, offset, total, shown, seen, wanted, leapt>>
      /\ UNCHANGED events /\ loads \in [Loads -> Load]
  BY DEF Interval, WalkInv, LogTypeOK, server
<1>3. /\ Ask.at = "asked" /\ Ask.asked = <<filter, offset>> /\ Ask.reply.matching = {}
      /\ filter \in Filters /\ offset \in Nat
  BY DEF Ask, NoReply, WalkInv, LogTypeOK
<1>4. loads'[l] = Ask /\ \A k \in Loads : k # l => loads'[k] = loads[k]  BY <1>2
<1>5. LoggedOnce' /\ NoneReturns'
  BY <1>2, <1>3, <1>4, PageLogsNothing DEF WalkInv
<1>6. LoadsOfThePage'
  <2>1. Free' = Free  BY DEF Free, NoReply
  <2> SUFFICES ASSUME NEW k \in Loads
               PROVE  /\ loads'[k].at = "free" => loads'[k] = Free
                      /\ loads'[k].at # "free" => loads'[k].asked \in Filters \X Nat
                      /\ loads'[k].active => loads'[k].asked = <<filter, offset>>
    BY <1>2, <2>1 DEF LoadsOfThePage
  <2>2. CASE k = l  BY <1>3, <1>4, <2>2
  <2>3. CASE k # l  BY <1>4, <2>3 DEF WalkInv, LoadsOfThePage
  <2>4. QED  BY <2>2, <2>3
<1>7. StepByStep' /\ ShownIsAsked'  BY <1>2 DEF WalkInv, StepByStep, ShownIsAsked
<1>8. WalkIsAhead'  BY <1>2, AheadSame DEF WalkInv, WalkIsAhead
<1>9. RepliesAreAhead'  BY <1>2, <1>3, <1>4, ReplySame DEF WalkInv, RepliesAreAhead
<1>10. QED  BY <1>1, <1>5, <1>6, <1>7, <1>8, <1>9 DEF WalkInv

LEMMA RespondStep ==
    ASSUME WalkInv, NEW l \in Loads, Respond(l) PROVE WalkInv'
<1>1. LogTypeOK'  BY PageKeepsTypes DEF WalkInv
<1>2. UNCHANGED <<server, events, loads, page>> /\ wanted' = wanted
  BY DEF Respond, server, page
<1>3. LoggedOnce' /\ NoneReturns'  BY <1>2, PageLogsNothing DEF WalkInv
<1>4. Walking'  BY <1>2, WalkStays DEF WalkInv, Walking
<1>5. QED  BY <1>1, <1>3, <1>4 DEF WalkInv, Walking

(* A load fails: at most one less is under way.                            *)
LEMMA FailStep ==
    ASSUME WalkInv, NEW l \in Loads, Fail(l) PROVE WalkInv'
<1>1. LogTypeOK'  BY PageKeepsTypes DEF WalkInv
<1>2. /\ loads' = [loads EXCEPT ![l] = Free] /\ (error' = TRUE \/ UNCHANGED <<loading, error>>)
      /\ UNCHANGED <<server, holders, filter, offset, total, shown, seen, wanted, leapt>>
      /\ UNCHANGED events /\ loads \in [Loads -> Load]
  BY DEF Fail, WalkInv, LogTypeOK, server
<1>3. Free.at = "free" /\ Free.active = FALSE /\ Free.reply.matching = {}
  BY DEF Free, NoReply
<1>4. loads'[l] = Free /\ \A k \in Loads : k # l => loads'[k] = loads[k]  BY <1>2
<1>5. LoggedOnce' /\ NoneReturns'
  BY <1>2, <1>3, <1>4, PageLogsNothing DEF WalkInv
<1>6. Free' = Free  BY DEF Free, NoReply
<1>7. LoadsOfThePage'  BY <1>2, <1>3, <1>4, <1>6 DEF WalkInv, LoadsOfThePage
<1>8. StepByStep' /\ ShownIsAsked'  BY <1>2 DEF WalkInv, StepByStep, ShownIsAsked
<1>9. WalkIsAhead'  BY <1>2, AheadSame DEF WalkInv, WalkIsAhead
<1>10. RepliesAreAhead'  BY <1>2, <1>3, <1>4, ReplySame DEF WalkInv, RepliesAreAhead
<1>11. QED  BY <1>1, <1>5, <1>7, <1>8, <1>9, <1>10 DEF WalkInv

(* Another selection: no answer under way will be applied, and the walk    *)
(* goes on only from a page that was shown.                                *)
LEMMA EffectStep ==
    ASSUME WalkInv, NEW f \in Filters, NEW o \in Nat, Effect(f, o),
           o = 0 \/ (f = filter /\ o <= offset + PageLimit)
    PROVE  WalkInv'
<1>1. LogTypeOK'  BY EffectKeepsTypes DEF WalkInv
<1>2. PICK l \in Loads :
         /\ filter' = f /\ offset' = o /\ loads[l] = Free
         /\ loads' = [k \in Loads |-> IF k = l THEN [Ask EXCEPT !.asked = <<f, o>>]
                                      ELSE [loads[k] EXCEPT !.active = FALSE]]
         /\ loading' = TRUE /\ error' = FALSE
         /\ leapt' = (leapt \/ shown # <<filter, offset>>)
         /\ UNCHANGED <<server, holders, total, shown, seen, wanted>>
  BY DEF Effect
<1>3. UNCHANGED events /\ loads \in [Loads -> Load]
  BY <1>2 DEF WalkInv, LogTypeOK, server
<1>4. /\ loads'[l].at = "asked" /\ loads'[l].asked = <<f, o>> /\ loads'[l].reply.matching = {}
  BY <1>2 DEF Ask, NoReply
<1>5. ASSUME NEW k \in Loads, k # l
      PROVE  /\ loads'[k].at = loads[k].at /\ loads'[k].asked = loads[k].asked
             /\ loads'[k].active = FALSE /\ loads'[k].reply = loads[k].reply
             /\ loads[k] = Free => loads'[k] = Free
  <2>1. loads'[k] = [loads[k] EXCEPT !.active = FALSE] /\ loads[k] \in Load
    BY <1>2, <1>3, <1>5
  <2>2. [Free EXCEPT !.active = FALSE] = Free
    <3> DEFINE F == Free
    <3>1. F \in Load /\ F.active = FALSE  BY LoadsTyped DEF WalkInv, Free
    <3> HIDE DEF F
    <3>2. [F EXCEPT !.active = FALSE] = F  BY <3>1 DEF Load
    <3>3. QED  BY <3>2 DEF F
  <2>3. QED  BY <2>1, <2>2 DEF Load
<1>6. LoggedOnce' /\ NoneReturns'
  <2>1. \A k \in Loads : loads'[k].reply.matching \subseteq loads[k].reply.matching
    BY <1>4, <1>5
  <2>2. QED  BY <1>2, <2>1, PageLogsNothing DEF WalkInv
<1>7. LoadsOfThePage'
  <2>1. Free' = Free  BY DEF Free, NoReply
  <2> SUFFICES ASSUME NEW k \in Loads
               PROVE  /\ loads'[k].at = "free" => loads'[k] = Free
                      /\ loads'[k].at # "free" => loads'[k].asked \in Filters \X Nat
                      /\ loads'[k].active => loads'[k].asked = <<f, o>>
    BY <1>2, <2>1 DEF LoadsOfThePage
  <2>2. CASE k = l
    <3>1. loads'[k].at # "free" /\ loads'[k].asked = <<f, o>>  BY <1>4, <2>2
    <3>2. QED  BY <3>1
  <2>3. CASE k # l  BY <1>5, <2>3 DEF WalkInv, LoadsOfThePage
  <2>4. QED  BY <2>2, <2>3
<1>8. ShownIsAsked'  BY <1>2 DEF ShownIsAsked
<1>9. StepByStep'
  <2>1. CASE shown = <<filter, offset>>  BY <1>2, <2>1 DEF StepByStep
  <2>2. CASE shown # <<filter, offset>>  BY <1>2, <2>2 DEF StepByStep
  <2>3. QED  BY <2>1, <2>2
<1>10. WalkIsAhead'  BY <1>2, <1>3, AheadSame DEF WalkInv, WalkIsAhead
<1>11. RepliesAreAhead'  BY <1>4, <1>5 DEF RepliesAreAhead
<1>12. QED  BY <1>1, <1>6, <1>7, <1>8, <1>9, <1>10, <1>11 DEF WalkInv

(* An answer is applied: what it left to show is what the walk leaves.     *)
LEMMA ApplyStep ==
    ASSUME WalkInv, NEW l \in Loads, Apply(l) PROVE WalkInv'
<1>1. LogTypeOK'  BY PageKeepsTypes DEF WalkInv
<1> DEFINE asked == loads[l].asked
           reply == loads[l].reply
<1>2. /\ loads[l].at = "served" /\ loads' = [loads EXCEPT ![l] = Free]
      /\ UNCHANGED <<server, holders, filter, offset, error>>
      /\ UNCHANGED events /\ loads \in [Loads -> Load]
  BY DEF Apply, WalkInv, LogTypeOK, server
<1>3. Free.at = "free" /\ Free.active = FALSE /\ Free.reply.matching = {} /\ Free' = Free
  BY DEF Free, NoReply
<1>4. loads'[l] = Free /\ \A k \in Loads : k # l => loads'[k] = loads[k]  BY <1>2
<1>5. LoadsOfThePage'  BY <1>2, <1>3, <1>4 DEF WalkInv, LoadsOfThePage
<1>6. CASE ~loads[l].active
  <2>1. UNCHANGED <<total, loading, shown, seen, wanted, leapt>>
    BY <1>6 DEF Apply, Applies
  <2>2. LoggedOnce' /\ NoneReturns'
    BY <1>2, <1>3, <1>4, <2>1, PageLogsNothing DEF WalkInv
  <2>3. StepByStep' /\ ShownIsAsked'  BY <1>2, <2>1 DEF WalkInv, StepByStep, ShownIsAsked
  <2>4. WalkIsAhead'  BY <1>2, <2>1, AheadSame DEF WalkInv, WalkIsAhead
  <2>5. RepliesAreAhead'  BY <1>2, <1>3, <1>4, <2>1, ReplySame DEF WalkInv, RepliesAreAhead
  <2>6. QED  BY <1>1, <1>5, <2>2, <2>3, <2>4, <2>5 DEF WalkInv
<1>7. CASE loads[l].active
  <2>1. asked = <<filter, offset>> /\ asked[1] = filter /\ asked[2] = offset
        /\ asked # << >> /\ offset \in Nat /\ PageLimit \in Nat
    <3>1. asked = <<filter, offset>>  BY <1>7 DEF WalkInv, LoadsOfThePage
    <3>2. offset \in Nat /\ PageLimit \in Nat  BY EventLogAssumption DEF WalkInv, LogTypeOK
    <3> HIDE DEF asked
    <3>3. QED  BY <3>1, <3>2
  <2>2. total' = reply.total /\ loading' = FALSE /\ shown' = asked
    BY <1>7 DEF Apply, Applies
  <2>3. ShownIsAsked'  BY <1>2, <2>1, <2>2 DEF ShownIsAsked
  <2>4. StepByStep'  BY <1>2, <2>1, <2>2 DEF StepByStep
  <2>5. CASE offset = 0
    <3>1. seen' = reply.shown /\ wanted' = reply.matching /\ leapt' = FALSE
      BY <1>7, <2>1, <2>5 DEF Apply, Applies
    <3>2. LoggedOnce' /\ NoneReturns'
      BY <1>2, <1>3, <1>4, <3>1, PageLogsNothing DEF WalkInv
    <3>3. Ahead(reply.matching \ reply.shown, filter, PageLimit, reply.total)
      BY <1>2, <1>7, <2>5 DEF WalkInv, RepliesAreAhead, ReplyIsAhead
    <3>4. WalkIsAhead'
      <4>1. 0 + PageLimit = PageLimit  BY <2>1
      <4>2. QED  BY <1>2, <2>1, <2>2, <2>5, <3>1, <3>3, <4>1, AheadSame DEF WalkIsAhead
    <3>5. RepliesAreAhead'
      BY <1>2, <1>3, <1>4, <2>5, AheadSame DEF WalkInv, RepliesAreAhead, ReplyIsAhead
    <3>6. QED  BY <1>1, <1>5, <2>3, <2>4, <3>2, <3>4, <3>5 DEF WalkInv
  <2>6. CASE offset # 0
    <3>1. seen' = seen \cup reply.shown /\ UNCHANGED <<wanted, leapt>>
      BY <1>7, <2>1, <2>6 DEF Apply, Applies
    <3>2. LoggedOnce' /\ NoneReturns'
      BY <1>2, <1>3, <1>4, <3>1, PageLogsNothing DEF WalkInv
    <3>3. leapt \/ Ahead(wanted \ (seen \cup reply.shown), filter, offset + PageLimit, reply.total)
      BY <1>2, <1>7, <2>6 DEF WalkInv, RepliesAreAhead, ReplyIsAhead
    <3>4. WalkIsAhead'
      BY <1>2, <2>1, <2>2, <3>1, <3>3, AheadSame DEF WalkIsAhead
    <3>5. RepliesAreAhead'
      <4> SUFFICES ASSUME NEW k \in Loads, k # l, loads[k].at = "served" /\ loads[k].active, ~leapt
                   PROVE  Ahead(wanted \ ((seen \cup reply.shown) \cup loads[k].reply.shown), filter,
                                offset + PageLimit, loads[k].reply.total)
        BY <1>2, <1>3, <1>4, <2>6, <3>1, AheadSame DEF RepliesAreAhead, ReplyIsAhead
      <4>1. Ahead(wanted \ (seen \cup loads[k].reply.shown), filter, offset + PageLimit,
                  loads[k].reply.total)
        BY <2>6 DEF WalkInv, RepliesAreAhead, ReplyIsAhead
      <4>2. QED  BY <4>1 DEF Ahead
    <3>6. QED  BY <1>1, <1>5, <2>3, <2>4, <3>2, <3>4, <3>5 DEF WalkInv
  <2>7. QED  BY <2>5, <2>6
<1>8. QED  BY <1>6, <1>7

(* The log answers: of what the walk wants, only what was passed or is on  *)
(* the page is not ahead any more.                                         *)
LEMMA ServeStep ==
    ASSUME WalkInv, NEW l \in Loads, Serve(l) PROVE WalkInv'
<1>1. LogTypeOK'  BY PageKeepsTypes DEF WalkInv
<1> DEFINE q == PageQuery(loads[l].asked)
           r == [shown |-> Ids(handleEvents(q).events), total |-> handleEvents(q).total,
                 matching |-> IF q.offset = <<0>> THEN Ids(Filtered(q)) ELSE {}]
<1>2. /\ loads[l].at = "asked" /\ loads' = [loads EXCEPT ![l].at = "served", ![l].reply = r]
      /\ UNCHANGED <<server, page>> /\ UNCHANGED events /\ loads \in [Loads -> Load]
  BY DEF Serve, WalkInv, LogTypeOK, server
<1>3. /\ loads'[l].at = "served" /\ loads'[l].reply = r
      /\ loads'[l].asked = loads[l].asked /\ loads'[l].active = loads[l].active
      /\ \A k \in Loads : k # l => loads'[k] = loads[k]
  <2>1. loads[l] \in Load  BY <1>2
  <2> HIDE DEF r
  <2>2. QED  BY <1>2, <2>1 DEF Load
<1>4. loads[l].asked \in Filters \X Nat  BY <1>2 DEF WalkInv, LoadsOfThePage
<1>5. PICK f \in Filters, o \in Nat : loads[l].asked = <<f, o>>  BY <1>4
<1>6. /\ Shows(f, o, Ids(handleEvents(q).events), handleEvents(q).total)
      /\ \A k \in Ids(Filtered(q)) : \E i \in DOMAIN events : events[i].id = k /\ Wants(f, events[i])
  <2>1. events \in Seq(Event) /\ Len(events) <= LogCap  BY DEF WalkInv, LogTypeOK
  <2>2. QED  BY <1>5, <2>1, PageIsShown
<1>7. q.offset = <<0>> <=> o = 0  BY <1>5, PageQueryIs
<1> HIDE DEF q
<1>8. /\ r.shown = Ids(handleEvents(q).events) /\ r.total = handleEvents(q).total
      /\ r.matching = IF o = 0 THEN Ids(Filtered(q)) ELSE {}
  BY <1>7
<1> HIDE DEF r
<1>9. \A k \in r.matching : \E i \in DOMAIN events : events[i].id = k /\ Wants(f, events[i])
  BY <1>6, <1>8
<1>10. LoggedOnce' /\ NoneReturns'
  <2>1. r.matching \subseteq Ids(events)  BY <1>9 DEF Ids
  <2>2. wanted' = wanted  BY <1>2 DEF page
  <2>3. \A k \in Loads : loads'[k].reply.matching \subseteq
           Ids(events) \cup UNION {loads[m].reply.matching : m \in Loads}
    BY <1>3, <2>1
  <2>4. QED  BY <1>2, <2>2, <2>3, PageLogsNothing DEF WalkInv
<1>11. LoadsOfThePage'
  <2>1. Free' = Free  BY DEF Free, NoReply
  <2> SUFFICES ASSUME NEW k \in Loads
               PROVE  /\ loads'[k].at = "free" => loads'[k] = Free
                      /\ loads'[k].at # "free" => loads'[k].asked \in Filters \X Nat
                      /\ loads'[k].active => loads'[k].asked = <<filter, offset>>
    BY <1>2, <2>1 DEF LoadsOfThePage, page
  <2>2. CASE k = l  BY <1>3, <1>4, <2>2 DEF WalkInv, LoadsOfThePage
  <2>3. CASE k # l  BY <1>3, <2>3 DEF WalkInv, LoadsOfThePage
  <2>4. QED  BY <2>2, <2>3
<1>12. StepByStep' /\ ShownIsAsked'  BY <1>2 DEF WalkInv, page, StepByStep, ShownIsAsked
<1>13. WalkIsAhead'  BY <1>2, AheadSame DEF WalkInv, page, WalkIsAhead
<1>14. RepliesAreAhead'
  <2>1. ASSUME loads[l].active
        PROVE  ReplyIsAhead(r)
    <3>1. f = filter /\ o = offset
      <4>1. <<f, o>> = <<filter, offset>>  BY <1>5, <2>1 DEF WalkInv, LoadsOfThePage
      <4>2. QED  BY <4>1
    <3>2. /\ PageLimit \in Nat \ {0} /\ offset \in Nat
          /\ events \in Seq(Event) /\ \A i : Depth(filter, i) \in Nat
      <4>1. events \in Seq(Event)  BY DEF WalkInv, LogTypeOK
      <4>2. \A i : Depth(filter, i) \in Nat  BY <4>1, MatchingFinite DEF Depth
      <4>3. QED  BY <4>1, <4>2, EventLogAssumption DEF WalkInv, LogTypeOK
    (* An event ahead of the page before is ahead of this one, or on it.   *)
    <3>3. ASSUME NEW i \in DOMAIN events, Wants(filter, events[i]),
                 Depth(filter, i) >= offset, events[i].id \notin r.shown
          PROVE  Depth(filter, i) >= offset + PageLimit /\ r.total > offset + PageLimit
      <4>1. /\ Depth(filter, i) < r.total /\ r.total \in Nat
            /\ Depth(filter, i) \notin offset..(offset + PageLimit - 1)
        BY <1>6, <1>8, <3>1, <3>3 DEF Shows
      <4>2. QED  BY <3>2, <3>3, <4>1
    <3>4. CASE offset = 0
      <4>1. ASSUME NEW i \in DOMAIN events, events[i].id \in r.matching \ r.shown
            PROVE  Wants(filter, events[i]) /\ Depth(filter, i) >= PageLimit /\ r.total > PageLimit
        <5>1. PICK j \in DOMAIN events : events[j].id = events[i].id /\ Wants(f, events[j])
          BY <1>9, <4>1
        <5>2. j = i  BY <5>1 DEF WalkInv, LoggedOnce
        <5>3. Depth(filter, i) >= offset /\ offset + PageLimit = PageLimit
          BY <3>2, <3>4
        <5>4. QED  BY <3>1, <3>3, <4>1, <5>1, <5>2, <5>3
      <4>2. QED  BY <3>4, <4>1 DEF Ahead, ReplyIsAhead
    <3>5. CASE offset # 0 /\ ~leapt
      <4>1. ASSUME NEW i \in DOMAIN events, events[i].id \in wanted \ (seen \cup r.shown)
            PROVE  /\ Wants(filter, events[i]) /\ Depth(filter, i) >= offset + PageLimit
                   /\ r.total > offset + PageLimit
        <5>1. /\ shown # << >> /\ filter = shown[1] /\ offset <= shown[2] + PageLimit
              /\ Ahead(wanted \ seen, shown[1], shown[2] + PageLimit, total)
          BY <3>5, <4>1 DEF WalkInv, StepByStep, WalkIsAhead
        <5>2. shown[2] \in Nat  BY <5>1 DEF WalkInv, LogTypeOK
        <5>3. Wants(filter, events[i]) /\ Depth(filter, i) >= shown[2] + PageLimit
          BY <4>1, <5>1 DEF Ahead
        <5>4. Depth(filter, i) >= offset  BY <3>2, <5>1, <5>2, <5>3
        <5>5. QED  BY <3>3, <4>1, <5>3, <5>4
      <4>2. QED  BY <3>5, <4>1 DEF Ahead, ReplyIsAhead
    <3>6. CASE offset # 0 /\ leapt  BY <3>6 DEF ReplyIsAhead
    <3>7. QED  BY <3>4, <3>5, <3>6
  <2>2. ASSUME NEW k \in Loads, loads'[k].at = "served", loads'[k].active
        PROVE  ReplyIsAhead(loads'[k].reply)
    <3>1. CASE k = l  BY <1>3, <2>1, <2>2, <3>1
    <3>2. CASE k # l  BY <1>3, <2>2, <3>2 DEF WalkInv, RepliesAreAhead
    <3>3. QED  BY <3>1, <3>2
  <2>3. QED  BY <1>2, <2>2, ReplySame DEF RepliesAreAhead, page
<1>15. QED  BY <1>1, <1>10, <1>11, <1>12, <1>13, <1>14 DEF WalkInv

LEMMA WalkStarts == LogInit => WalkInv
<1> SUFFICES ASSUME LogInit PROVE WalkInv  OBVIOUS
<1>1. LogTypeOK  BY LogTypeInit
<1>2. PICK l \in Loads : loads = [k \in Loads |-> IF k = l THEN Ask ELSE Free]  BY DEF LogInit
<1>3. /\ \A h \in Handlers : stamped[h] = None
      /\ locking = {} /\ DOMAIN events = {} /\ offset = 0 /\ wanted = {} /\ loading
  BY DEF LogInit
<1>4. LoggedOnce /\ NoneReturns  BY <1>3 DEF LoggedOnce, NoneReturns
<1>5. \A k \in Loads : /\ loads[k] = Free \/ (loads[k] = Ask /\ loads[k].at = "asked")
                       /\ loads[k].at # "served"
  BY <1>2 DEF Ask, Free
<1>6. LoadsOfThePage
  <2>1. Free.active = FALSE /\ Free.at = "free" /\ Ask.asked = <<filter, offset>>
    BY DEF Free, Ask
  <2>2. <<filter, offset>> \in Filters \X Nat  BY <1>1 DEF LogTypeOK
  <2>3. QED  BY <1>5, <2>1, <2>2 DEF LoadsOfThePage
<1>7. StepByStep /\ WalkIsAhead /\ RepliesAreAhead /\ ShownIsAsked
  BY <1>3, <1>5 DEF StepByStep, WalkIsAhead, RepliesAreAhead, ShownIsAsked
<1>8. QED  BY <1>1, <1>4, <1>6, <1>7 DEF WalkInv

LEMMA WalkStep == WalkInv /\ [LogNext]_logVars => WalkInv'
<1> SUFFICES ASSUME WalkInv, [LogNext]_logVars PROVE WalkInv'  OBVIOUS
<1>1. ASSUME NEW h \in Handlers, AddEvent(h) \/ Lock(h) PROVE WalkInv'
  BY <1>1, AddEventStep, LockStep
<1>2. ASSUME NEW h \in Handlers, NEW reason \in Reasons, Stamp(h, reason) PROVE WalkInv'
  BY <1>2, StampStep
<1>3. ASSUME NEW l \in Loads, Interval(l) \/ Serve(l) \/ Respond(l) \/ Apply(l) \/ Fail(l)
      PROVE  WalkInv'
  BY <1>3, IntervalStep, ServeStep, RespondStep, ApplyStep, FailStep
<1>4. CASE NextPage \/ PrevPage \/ Refresh \/ \E f \in Filters : Select(f)
  BY <1>4, Selections, EffectStep DEF WalkInv
<1>5. CASE UNCHANGED logVars
  <2>1. LogTypeOK'
    BY <1>5 DEF WalkInv, logVars, LogTypeOK, Event, Load, None
  <2>2. LoggedOnce' /\ NoneReturns'
    BY <1>5 DEF WalkInv, logVars, LoggedOnce, NoneReturns, Unseen, Ids, None
  <2>3. Walking'  BY <1>5, WalkStays DEF WalkInv, Walking, logVars, page
  <2>4. QED  BY <2>1, <2>2, <2>3 DEF WalkInv, Walking
<1>6. QED  BY <1>1, <1>2, <1>3, <1>4, <1>5 DEF LogNext

LEMMA WalkInvariance == LogSpec => []WalkInv
BY WalkStarts, WalkStep, PTL DEF LogSpec

(* Types: of the log, of the events that wait, and of the page's requests. *)
THEOREM LogTypes == LogSpec => []LogTypeOK
<1>1. WalkInv => LogTypeOK  BY DEF WalkInv
<1>2. QED  BY <1>1, WalkInvariance, PTL

(* Paging to the end shows everything that matched when the walk began and *)
(* is still in the log, however often handlers log in between.             *)
THEOREM WalkIsComplete == LogSpec => []WalkMissesNothing
<1>1. WalkInv => WalkMissesNothing
  <2> SUFFICES ASSUME WalkInv, AtEnd, NEW i \in DOMAIN events, events[i].id \in wanted \ seen
               PROVE  FALSE
    BY DEF WalkMissesNothing, Ids
  <2>1. shown = <<filter, offset>> /\ ~leapt /\ offset + PageLimit >= total
    BY DEF AtEnd
  <2>2. Ahead(wanted \ seen, shown[1], shown[2] + PageLimit, total)
    BY <2>1 DEF WalkInv, WalkIsAhead
  <2>3. total > offset + PageLimit  BY <2>1, <2>2 DEF Ahead
  <2>4. total \in Nat /\ offset \in Nat /\ PageLimit \in Nat
    BY EventLogAssumption DEF WalkInv, LogTypeOK
  <2>5. QED  BY <2>1, <2>3, <2>4
<1>2. QED  BY <1>1, WalkInvariance, PTL

(* No answer of an earlier selection gets on display.                      *)
THEOREM NoStalePage == LogSpec => []ShownIsAsked
<1>1. WalkInv => ShownIsAsked  BY DEF WalkInv
<1>2. QED  BY <1>1, WalkInvariance, PTL

(* Every query is answered with the page it asks for, in any state of the  *)
(* log, for every width of an int and every limit and offset of it.        *)
THEOREM AnswersArePages == LogSpec => []AnswerIsThePage
<1>1. WalkInv => AnswerIsThePage
  <2> SUFFICES ASSUME WalkInv PROVE AnswerIsThePage  OBVIOUS
  <2>1. events \in Seq(Event)  BY DEF WalkInv, LogTypeOK
  <2>2. QED  BY <2>1, PagesAreAnswered
<1>2. QED  BY <1>1, WalkInvariance, PTL
=============================================================================
