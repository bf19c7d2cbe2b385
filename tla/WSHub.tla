------------------------------- MODULE WSHub -------------------------------
(***************************************************************************)
(* internal/api/ws.go: the hub goroutine, its three channels, and for each *)
(* connection the HTTP handler, a reader, a writer and the goroutines the  *)
(* hub starts to get rid of a client that does not keep up.  A message is  *)
(* the set of connections that were open when it was handed to Broadcast;  *)
(* a client's send channel is the number of messages in it.                *)
(***************************************************************************)
EXTENDS Naturals, Sequences

CONSTANTS
    Conns,                  \* connections; each is made once
    RegisterCap,            \* capacities: 64, 64, 256 and 64 in the code
    UnregisterCap,
    BroadcastCap,
    SendCap,
    MaxKickers              \* bound of the model: goroutines per client

ASSUME HubAssumption ==
    \A n \in {RegisterCap, UnregisterCap, BroadcastCap, SendCap, MaxKickers} : n \in Nat \ {0}

VARIABLES
    running,                \* Run has not returned
    clients,                \* h.clients
    register, unregister,   \* channels of connections
    broadcast,              \* channel of messages
    conn,                   \* "none", "open", "closed" by either side, or "refused"
    handler,                \* ServeHTTP: "none", "upgraded" or "returned"
    reader,                 \* "none", "reading", "leaving", "closing", "gone"
    writer,                 \* "none", "running", "gone"
    queue, closed,          \* client.send: messages in it, and whether it is closed
    kickers,                \* goroutines that close the connection and unregister
    panicked                \* a send on, or close of, a closed channel

vars == <<running, clients, register, unregister, broadcast, conn, handler,
          reader, writer, queue, closed, kickers, panicked>>

channels   == <<register, unregister, broadcast>>
goroutines == <<handler, reader, writer, kickers>>
sends      == <<queue, closed>>

Init ==
    /\ running = TRUE /\ clients = {}
    /\ register = << >> /\ unregister = << >> /\ broadcast = << >>
    /\ conn = [c \in Conns |-> "none"]
    /\ handler = [c \in Conns |-> "none"]
    /\ reader = [c \in Conns |-> "none"]
    /\ writer = [c \in Conns |-> "none"]
    /\ queue = [c \in Conns |-> 0] /\ closed = [c \in Conns |-> FALSE]
    /\ kickers = [c \in Conns |-> 0]
    /\ panicked = FALSE

-----------------------------------------------------------------------------
(* ServeHTTP.  Upgrade takes the connection over from net/http, if it can  *)
(* be hijacked, and answers the peer, who is connected from then on; the   *)
(* hub hears of it afterwards.  If not, the handler is through.            *)
Upgrade(c, hijackable) ==
    /\ conn[c] = "none"
    /\ conn' = [conn EXCEPT ![c] = IF hijackable THEN "open" ELSE "refused"]
    /\ handler' = [handler EXCEPT ![c] = IF hijackable THEN "upgraded" ELSE "returned"]
    /\ UNCHANGED <<running, clients, channels, reader, writer, kickers, sends, panicked>>

Join(c) ==
    /\ handler[c] = "upgraded"
    /\ Len(register) < RegisterCap
    /\ register' = Append(register, c)
    /\ handler' = [handler EXCEPT ![c] = "returned"]
    /\ reader' = [reader EXCEPT ![c] = "reading"]
    /\ writer' = [writer EXCEPT ![c] = "running"]
    /\ UNCHANGED <<running, clients, unregister, broadcast, conn, kickers, sends, panicked>>

PeerLeaves(c) ==
    /\ conn[c] = "open"
    /\ conn' = [conn EXCEPT ![c] = "closed"]
    /\ UNCHANGED <<running, clients, channels, goroutines, sends, panicked>>

(* ReadMessage fails on a closed connection, and on an open one that was   *)
(* silent for a minute.                                                    *)
ReadFails(c) ==
    /\ reader[c] = "reading"
    /\ reader' = [reader EXCEPT ![c] = "leaving"]
    /\ UNCHANGED <<running, clients, channels, conn, handler, writer, kickers, sends, panicked>>

(* The deferred function: unregister first, then close.                    *)
ReaderUnregisters(c) ==
    /\ reader[c] = "leaving"
    /\ Len(unregister) < UnregisterCap
    /\ unregister' = Append(unregister, c)
    /\ reader' = [reader EXCEPT ![c] = "closing"]
    /\ UNCHANGED <<running, clients, register, broadcast, conn, handler, writer, kickers, sends, panicked>>

ReaderCloses(c) ==
    /\ reader[c] = "closing"
    /\ reader' = [reader EXCEPT ![c] = "gone"]
    /\ conn' = [conn EXCEPT ![c] = "closed"]
    /\ UNCHANGED <<running, clients, channels, handler, writer, kickers, sends, panicked>>

WriterReturns(c) ==
    /\ writer' = [writer EXCEPT ![c] = "gone"]
    /\ conn' = [conn EXCEPT ![c] = "closed"]

(* The writer takes a message; writing it fails on a closed connection.    *)
WriterTakes(c) ==
    /\ writer[c] = "running" /\ queue[c] > 0
    /\ queue' = [queue EXCEPT ![c] = @ - 1]
    /\ IF conn[c] = "open" THEN UNCHANGED <<writer, conn>> ELSE WriterReturns(c)
    /\ UNCHANGED <<running, clients, channels, handler, reader, kickers, closed, panicked>>

WriterEnds_Bug(c) ==            \* no pings
    /\ writer[c] = "running" /\ closed[c] /\ queue[c] = 0
    /\ WriterReturns(c)
    /\ UNCHANGED <<running, clients, channels, handler, reader, kickers, sends, panicked>>

(* The send channel is closed and drained, or a ping fails.                *)
WriterEnds(c) ==
    /\ writer[c] = "running"
    /\ (closed[c] /\ queue[c] = 0) \/ conn[c] = "closed"
    /\ WriterReturns(c)
    /\ UNCHANGED <<running, clients, channels, handler, reader, kickers, sends, panicked>>

-----------------------------------------------------------------------------
(* Broadcast drops the message when the channel is full.                   *)
Broadcast ==
    /\ Len(broadcast) < BroadcastCap
    /\ broadcast' = Append(broadcast, {c \in Conns : conn[c] = "open"})
    /\ UNCHANGED <<running, clients, register, unregister, conn, goroutines, sends, panicked>>

(* Run, one action for each case of its select.                            *)
HubRegisters ==
    /\ running /\ register # << >>
    /\ register' = Tail(register)
    /\ clients' = clients \cup {Head(register)}
    /\ UNCHANGED <<running, unregister, broadcast, conn, goroutines, sends, panicked>>

HubUnregisters_Bug ==           \* closes without looking into the map
    LET c == Head(unregister) IN
    /\ running /\ unregister # << >>
    /\ unregister' = Tail(unregister)
    /\ clients' = clients \ {c}
    /\ closed' = [closed EXCEPT ![c] = TRUE]
    /\ panicked' = (panicked \/ closed[c])
    /\ UNCHANGED <<running, register, broadcast, conn, goroutines, queue>>

HubUnregisters ==
    LET c == Head(unregister) IN
    /\ running /\ unregister # << >>
    /\ unregister' = Tail(unregister)
    /\ clients' = clients \ {c}
    /\ closed' = [closed EXCEPT ![c] = @ \/ c \in clients]
    /\ panicked' = (panicked \/ (c \in clients /\ closed[c]))
    /\ UNCHANGED <<running, register, broadcast, conn, goroutines, queue>>

Full == {c \in clients : queue[c] >= SendCap}

Kicked_Bug(c) == 0              \* the slow client is left alone
Kicked(c) == IF c \in Full THEN 1 ELSE 0

(* A client with room gets the message, one without is to be kicked out.   *)
HubBroadcasts ==
    /\ running /\ broadcast # << >>
    /\ \A c \in Full : kickers[c] < MaxKickers
    /\ broadcast' = Tail(broadcast)
    /\ queue' = [c \in Conns |-> queue[c] + (IF c \in clients \ Full THEN 1 ELSE 0)]
    /\ kickers' = [c \in Conns |-> kickers[c] + Kicked(c)]
    /\ panicked' = (panicked \/ \E c \in clients : closed[c])
    /\ UNCHANGED <<running, clients, register, unregister, conn, handler, reader, writer, closed>>

HubStops ==
    /\ running
    /\ running' = FALSE
    /\ conn' = [c \in Conns |-> IF c \in clients THEN "closed" ELSE conn[c]]
    /\ clients' = {}
    /\ UNCHANGED <<channels, goroutines, sends, panicked>>

KickerCloses(c) ==
    /\ kickers[c] > 0 /\ conn[c] # "closed"
    /\ conn' = [conn EXCEPT ![c] = "closed"]
    /\ UNCHANGED <<running, clients, channels, goroutines, sends, panicked>>

KickerUnregisters(c) ==
    /\ kickers[c] > 0 /\ conn[c] = "closed"
    /\ Len(unregister) < UnregisterCap
    /\ unregister' = Append(unregister, c)
    /\ kickers' = [kickers EXCEPT ![c] = @ - 1]
    /\ UNCHANGED <<running, clients, register, broadcast, conn, handler, reader, writer, sends, panicked>>

-----------------------------------------------------------------------------
Read(c)  == ReadFails(c) \/ ReaderUnregisters(c) \/ ReaderCloses(c)
Write(c) == WriterTakes(c) \/ WriterEnds(c)
Kick(c)  == KickerCloses(c) \/ KickerUnregisters(c)
Hub      == HubRegisters \/ HubUnregisters \/ HubBroadcasts \/ HubStops

(* Everything that follows an upgrade.                                     *)
Serving ==
    \/ \E c \in Conns : Join(c) \/ PeerLeaves(c) \/ Read(c) \/ Write(c) \/ Kick(c)
    \/ Broadcast \/ Hub

(* The handler given to net/http as it is, as the package's tests do.      *)
Next == Serving \/ \E c \in Conns : Upgrade(c, TRUE)

Spec == Init /\ [][Next]_vars

(* Goroutines are scheduled and the hub's select takes every case that     *)
(* stays ready; a goroutine blocked on a channel gets its turn when there  *)
(* is room again and again; the statistics ticker broadcasts every two     *)
(* seconds.  Nobody has to connect, leave, or stop the hub.                *)
Fairness ==
    /\ WF_vars(HubRegisters) /\ WF_vars(HubUnregisters) /\ WF_vars(HubBroadcasts)
    /\ WF_vars(Broadcast)
    /\ \A c \in Conns :
         /\ SF_vars(Join(c)) /\ SF_vars(ReaderUnregisters(c)) /\ SF_vars(KickerUnregisters(c))
         /\ WF_vars(conn[c] = "closed" /\ ReadFails(c)) /\ WF_vars(ReaderCloses(c))
         /\ WF_vars(Write(c)) /\ WF_vars(KickerCloses(c))

FairSpec == Spec /\ Fairness

-----------------------------------------------------------------------------
TypeOK ==
    /\ running \in BOOLEAN /\ clients \subseteq Conns
    /\ register \in Seq(Conns) /\ Len(register) <= RegisterCap
    /\ unregister \in Seq(Conns) /\ Len(unregister) <= UnregisterCap
    /\ broadcast \in Seq(SUBSET Conns) /\ Len(broadcast) <= BroadcastCap
    /\ conn \in [Conns -> {"none", "open", "closed", "refused"}]
    /\ handler \in [Conns -> {"none", "upgraded", "returned"}]
    /\ reader \in [Conns -> {"none", "reading", "leaving", "closing", "gone"}]
    /\ writer \in [Conns -> {"none", "running", "gone"}]
    /\ queue \in [Conns -> 0..SendCap] /\ closed \in [Conns -> BOOLEAN]
    /\ kickers \in [Conns -> 0..MaxKickers]
    /\ panicked \in BOOLEAN

(* The hub never sends on a closed channel and never closes one twice,     *)
(* although a client is unregistered by its reader and by any number of    *)
(* kickers, in any order with its registration.                            *)
NoPanic == ~panicked

(* While the hub runs, a connection that is closed, by whomever and        *)
(* whenever, is forgotten: out of the map, with no goroutine left.  Also   *)
(* when its unregistration overtook its registration.                      *)
Released(c) ==
    /\ c \notin clients
    /\ handler[c] = "returned" /\ reader[c] = "gone" /\ writer[c] = "gone"
    /\ kickers[c] = 0

DisconnectedIsReleased ==
    \A c \in Conns : conn[c] = "closed" ~> (~running \/ Released(c))

(* Once the hub has stopped nothing is taken from its channels any more;   *)
(* the goroutines of a closed connection still come to their ends, unless  *)
(* one of the channels is full.                                            *)
StoppedIsReleased ==
    \A c \in Conns :
        ~running /\ conn[c] = "closed" ~>
            \/ Len(register) = RegisterCap \/ Len(unregister) = UnregisterCap
            \/ reader[c] = "gone" /\ writer[c] = "gone" /\ kickers[c] = 0

(* Peers that are connected get what is broadcast (ws_test.go:33-65 dials  *)
(* two, broadcasts at once and expects both to read it): every one that    *)
(* was open then, and still is, is in the map when the message leaves.     *)
ConnectedGetBroadcasts ==
    [][HubBroadcasts => \A c \in Head(broadcast) : conn[c] = "open" => c \in clients]_vars
=============================================================================
