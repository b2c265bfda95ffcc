------------------------------ MODULE MCSession ------------------------------
(* Two pipelined requests drawn from every shape of HTTP request, plus an  *)
(* upgrade and a CONNECT: enough for a request to follow an unread body,   *)
(* a bad query or a "Connection: close". The loop run checks both builds  *)
(* at once; the runs that show a server.cpp fault take server.cpp alone.  *)
EXTENDS Session

MCRequests ==
    [method : {"GET", "POST"}, body : BOOLEAN, route : BOOLEAN,
     query : {"ok", "bad"}, keepAlive : BOOLEAN, kind : {"http"}]
    \cup {[method |-> "GET", body |-> FALSE, route |-> FALSE, query |-> "ok",
           keepAlive |-> TRUE, kind |-> k] : k \in {"upgrade", "connect"}}

MCMaxReqs == 2

MCBuildsCpp  == {"cpp"}
MCBuildsBoth == {"cpp", "cxx"}
=============================================================================
