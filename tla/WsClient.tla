------------------------------ MODULE WsClient ------------------------------
(***************************************************************************)
(* web/src/hooks/useWebSocket.ts: the effect that keeps a WebSocket to the *)
(* agent.  It is run again when the token changes; the closures of the run *)
(* before are unmounted then, but their sockets still deliver onclose.     *)
(* The delay before a retry is only a length of time and is left out.      *)
(***************************************************************************)
CONSTANTS
    Sockets,        \* sockets, used again once closed; bounds the model
    NoSocket        \* null

VARIABLES
    state,          \* "none", "connecting", "open" or "closing"
    mounted,        \* sockets whose closures are not isUnmounted
    wsRef,
    timer,          \* timeoutId of the effect's current run is pending
    wsConnected     \* the store's flag: "Connected to Agent" or "Agent Offline"

vars == <<state, mounted, wsRef, timer, wsConnected>>

Init ==
    \E s \in Sockets :
        /\ state = [x \in Sockets |-> IF x = s THEN "connecting" ELSE "none"]
        /\ mounted = {s} /\ wsRef = s
        /\ timer = FALSE /\ wsConnected = FALSE

-----------------------------------------------------------------------------
(* connect: a new socket, in wsRef.                                        *)
Connect(s, old, live) ==
    /\ state[s] = "none"
    /\ state' = [old EXCEPT ![s] = "connecting"]
    /\ mounted' = live \cup {s}
    /\ wsRef' = s

OnOpen(s) ==
    /\ state[s] = "connecting"
    /\ state' = [state EXCEPT ![s] = "open"]
    /\ wsConnected' = TRUE
    /\ UNCHANGED <<mounted, wsRef, timer>>

Retries_Bug(s) == s \in mounted /\ state[s] = "open"   \* a refused socket is not retried
Retries(s) == s \in mounted

(* The connection fails, the agent closes it, or close() is through.  Of   *)
(* an effect that was unmounted nothing is retried.                        *)
OnClose(s) ==
    /\ state[s] # "none"
    /\ state' = [state EXCEPT ![s] = "none"]
    /\ mounted' = mounted \ {s}
    /\ wsRef' = IF wsRef = s THEN NoSocket ELSE wsRef
    /\ timer' = (timer \/ Retries(s))
    /\ wsConnected' = FALSE

Retry ==
    /\ timer
    /\ timer' = FALSE
    /\ \E s \in Sockets : Connect(s, state, mounted)
    /\ UNCHANGED wsConnected

Closing_Bug == state            \* the socket in wsRef is left open

(* ws.close(): of a socket that is closed already nothing is left to do.   *)
Closing == IF wsRef = NoSocket THEN state ELSE [state EXCEPT ![wsRef] = "closing"]

(* The token changes: the cleanup clears the timer and closes the socket   *)
(* in wsRef, then the effect runs anew.                                    *)
Rerun ==
    /\ \E s \in Sockets : Connect(s, Closing, {})
    /\ timer' = FALSE
    /\ UNCHANGED wsConnected

Next == Retry \/ Rerun \/ \E s \in Sockets : OnOpen(s) \/ OnClose(s)

Spec == Init /\ [][Next]_vars

(* Timers fire, and a handshake that was begun comes to an end.  Nothing   *)
(* makes the agent accept a connection.                                    *)
FairSpec ==
    /\ Spec /\ WF_vars(Retry)
    /\ \A s \in Sockets : WF_vars(OnClose(s) /\ state[s] = "closing")

-----------------------------------------------------------------------------
Live == {s \in Sockets : state[s] \in {"connecting", "open"}}

(* However the token changes and connections fail, there is never a second *)
(* socket, which would double every message, and none while a retry waits; *)
(* the only closures that would retry are those of the socket in wsRef.    *)
OneSocket ==
    /\ \A s, t \in Live : s = t
    /\ timer => Live = {}
    /\ mounted \subseteq {wsRef}

(* The hook never gives up: without a socket it makes another one.         *)
KeepsTrying == []<>(Live # {})

(* "Agent Offline" is shown (App.tsx:107) when the agent is offline: not   *)
(* while the only socket there is is open.                                 *)
OfflineIsTrue ==
    (\E s \in Sockets : state[s] = "open" /\ \A x \in Sockets \ {s} : state[x] = "none")
        => wsConnected
=============================================================================
