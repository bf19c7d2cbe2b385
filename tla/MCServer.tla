------------------------------ MODULE MCServer ------------------------------
(* Requests and configurations for TLC.                                    *)
EXTENDS Server

Req(method, path, bearer, query, upgrade) ==
    [method |-> method, path |-> path, bearer |-> bearer, query |-> query, upgrade |-> upgrade]

SomeRequests ==
    {Req("GET", "/ws", "", "t0ken", TRUE), Req("GET", "/ws", "", "", TRUE),
     Req("GET", "/ws", "t0ken", "", FALSE), Req("POST", "/api/v1/stats", "t0ken", "", FALSE),
     Req("GET", "/api/v1/stats", "", "t0ken", FALSE), Req("GET", "/metrics", "", "", FALSE)}

SomeConfigs ==
    {[listenAddr |-> ":8080", authEnabled |-> a[1], token |-> a[2]]
        : a \in {<<FALSE, "">>, <<TRUE, "">>, <<TRUE, "t0ken">>}}
=============================================================================
