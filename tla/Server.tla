------------------------------- MODULE Server -------------------------------
(***************************************************************************)
(* The hub as peers reach it: through the handler of Server.Start, with    *)
(* the middleware in between (internal/api/server.go), or as it is (the    *)
(* package's tests).  Each connection brings one request.                  *)
(***************************************************************************)
EXTENDS WSHub, Middleware

CONSTANTS
    Chained,        \* connections that come through Start's handler
    Requests,       \* what they ask
    APIConfigs      \* sections of configuration files

ASSUME ServerAssumption == Chained \subseteq Conns

VARIABLES
    cfg,            \* s.cfg; the file has passed Validate
    request,        \* by connection: what it asked, or nothing yet
    status          \* by connection: how the handler answered, 0 before

serverVars == <<cfg, request, status>>

ServerInit ==
    /\ Init
    /\ cfg \in {c \in APIConfigs : ValidAPI(c)}
    /\ request = [c \in Conns |-> << >>]
    /\ status = [c \in Conns |-> 0]

Answered(c, r, code) ==
    /\ request' = [request EXCEPT ![c] = <<r>>]
    /\ status' = [status EXCEPT ![c] = code]
    /\ UNCHANGED cfg

(* A peer of the hub's own handler.                                        *)
Dial(c) ==
    /\ Upgrade(c, TRUE)
    /\ status' = [status EXCEPT ![c] = 101]
    /\ UNCHANGED <<cfg, request>>

(* A request that gets as far as the hub: Upgrade fails with 500 when it   *)
(* cannot hijack, and with 400 when the request asks for no upgrade.       *)
AskHub(c, r) ==
    LET hijackable == "Hijack" \in WriterBehindChain
        handled == IF ~r.upgrade THEN 400 ELSE IF hijackable THEN 101 ELSE 500
    IN  /\ <<r.method, r.path>> = <<"GET", "/ws">> /\ auth(cfg, r)
        /\ Upgrade(c, handled = 101)
        /\ Answered(c, r, Chain(cfg, r, handled))

(* Any other: what the other handlers do is not this module's matter, they *)
(* answer, or panic.                                                       *)
AskOther(c, r) ==
    /\ <<r.method, r.path>> # <<"GET", "/ws">> \/ ~auth(cfg, r)
    /\ Upgrade(c, FALSE)
    /\ \E handled \in {200, Panic} : Answered(c, r, Chain(cfg, r, handled))

ServerNext ==
    \/ \E c \in Conns \ Chained : Dial(c)
    \/ \E c \in Chained, r \in Requests : AskHub(c, r) \/ AskOther(c, r)
    \/ Serving /\ UNCHANGED serverVars

ServerSpec == ServerInit /\ [][ServerNext]_<<vars, serverVars>> /\ Fairness

-----------------------------------------------------------------------------
(* With authentication configured, whoever gets past it has shown a token, *)
(* in the header or, for a socket, in the URL, except on the two exempt    *)
(* paths; a file that Validate lets pass has no token anyone could show    *)
(* without knowing it.                                                     *)
StrangersAreRefused ==
    \A c \in Chained :
        cfg.authEnabled /\ status[c] \notin {0, 204, 401} =>
            \E r \in {request[c][1]} :
                Exempt(r) \/ \E t \in {r.bearer, r.query} : ~Blank(t) /\ t = cfg.token

(* GET /ws is the "WebSocket upgrade endpoint" (technical.md:1984): a peer *)
(* with the token that asks for an upgrade is connected.                   *)
SocketsAreUpgraded ==
    \A c \in Chained :
        (status[c] # 0 /\ request[c][1].upgrade /\ request[c][1].method = "GET"
            /\ request[c][1].path = "/ws" /\ auth(cfg, request[c][1])) => status[c] = 101
=============================================================================
