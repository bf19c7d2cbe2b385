------------------------------ MODULE Browser ------------------------------
(***************************************************************************)
(* The dashboard in the browser: the store and the Blocklist page          *)
(* (Dashboard) fed by the socket that the hook keeps (WsClient), which App *)
(* mounts for as long as it runs.  A message reaches the store only over   *)
(* the open socket, and is lost with it.                                   *)
(***************************************************************************)
EXTENDS Dashboard

CONSTANTS
    Sockets,        \* sockets, used again once closed
    NoSocket        \* null

ASSUME BrowserAssumption == NoSocket \notin Sockets


VARIABLES state, live, wsRef, timer, wsConnected

Hook == INSTANCE WsClient WITH mounted <- live

hook == <<state, live, wsRef, timer, wsConnected>>
app  == <<table, changes, mounted, effectAt, loads, store>>
all  == <<vars, hook>>

BrowserInit == Init /\ Hook!Init

Open   == {s \in Sockets : state[s] = "open"}
Online == Open # {}

(* The server and the page; without a socket nothing gets on the wire.     *)
Step(A) == A /\ (wire' # wire => Online) /\ UNCHANGED hook

(* A step of the hook: what the old socket had under way does not come out *)
(* of the new one.                                                         *)
Kept == wire' = IF \E s \in Open : state'[s] = "open" THEN wire ELSE << >>

Socket == (Hook!Retry \/ \E s \in Sockets : Hook!OnOpen(s) \/ Hook!OnClose(s)) /\ Kept /\ UNCHANGED app

(* setToken: the effect of the hook depends on the token, and that of the  *)
(* page as well.                                                           *)
TokenChanges ==
    /\ Hook!Rerun /\ Kept
    /\ Changing
    /\ UNCHANGED <<table, mounted, store>>
    /\ IF mounted THEN Effect ELSE UNCHANGED <<effectAt, loads>>

BrowserNext == Step(Next) \/ Socket \/ TokenChanges

(* As for the parts; and the agent's ticker sends statistics for ever.     *)
(* Nothing makes it accept a connection.                                   *)
BrowserSpec ==
    /\ BrowserInit /\ [][BrowserNext]_all
    /\ WF_all(Step(OnMessage)) /\ WF_all(Step(Stats)) /\ WF_all(Step(Interval))
    /\ \A l \in Loads : SF_all(Step(Answer(l))) /\ WF_all(Step(Apply(l)))
    /\ WF_all(Hook!Retry /\ Socket)
    /\ \A s \in Sockets : WF_all(state[s] = "closing" /\ Hook!OnClose(s) /\ Socket)

-----------------------------------------------------------------------------
(* The properties of the hook (WsClient), beside everything the page does: *)
(* one socket at a time, never none for good; and what is not so, a flag   *)
(* that says offline only when the agent is.                               *)
OneSocket     == Hook!OneSocket
KeepsTrying   == Hook!KeepsTrying
OfflineIsTrue == Hook!OfflineIsTrue

(* While the socket stays open the counter comes to the table's size, and  *)
(* stays there, on every page and whatever events and loads have put into  *)
(* it; an empty table also shows as undefined.                             *)
CounterConverges ==
    <>[]Online => <>[](activeBlocks = Cardinality(table) \/ (table = {} /\ activeBlocks = Undefined))
=============================================================================
