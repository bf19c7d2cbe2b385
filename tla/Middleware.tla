----------------------------- MODULE Middleware -----------------------------
(***************************************************************************)
(* internal/api/middleware.go and the handler that Server.Start builds     *)
(* from it: recovery(cors(logging(auth(mux)))).  A request is a record of  *)
(* what the chain looks at:                                                *)
(*    method, path                                                         *)
(*    bearer    the Authorization header without "Bearer ", or ""          *)
(*    query     the token parameter of the URL, or ""                      *)
(*    upgrade   the header "Upgrade: websocket"                            *)
(* An answer is its status.                                                *)
(***************************************************************************)
EXTENDS Config

Exempt(r) == r.path \in {"/api/v1/health", "/metrics"}

Presented(r) ==
    IF r.bearer = "" /\ (r.upgrade \/ r.path = "/ws") THEN r.query ELSE r.bearer

auth(cfg, r) == ~cfg.authEnabled \/ Exempt(r) \/ Presented(r) = cfg.token

(* The mux knows every path with its methods; GET stands for HEAD, too.    *)
Routes == {<<"GET", "/api/v1/blocklist">>, <<"POST", "/api/v1/blocklist">>,
           <<"DELETE", "/api/v1/blocklist/{ip}">>, <<"GET", "/api/v1/stats">>,
           <<"GET", "/api/v1/events">>, <<"GET", "/api/v1/health">>,
           <<"GET", "/ws">>, <<"GET", "/metrics">>}

mux(r, handled) ==
    IF <<r.method, r.path>> \in Routes THEN handled
    ELSE IF \E route \in Routes : route[2] = r.path THEN 405 ELSE 404

(* The whole chain, for what the handler of the request's route would      *)
(* answer; Panic stands for a handler that panics.                         *)
Panic == 0
Chain(cfg, r, handled) ==
    IF r.method = "OPTIONS" THEN 204
    ELSE IF ~auth(cfg, r) THEN 401
    ELSE IF mux(r, handled) = Panic THEN 500 ELSE mux(r, handled)

(* What a handler can do with its http.ResponseWriter beside writing.  The *)
(* responseWriter of logging embeds the interface and adds no method but   *)
(* WriteHeader, so it can do nothing else, and it has no Unwrap.           *)
ServerWriter       == {"Hijack", "Flush"}
responseWriter(w)  == w \cap {"WriteHeader"}
WriterBehindChain  == responseWriter(ServerWriter)
=============================================================================
