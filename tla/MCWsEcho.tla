------------------------------ MODULE MCWsEcho ------------------------------
(* Two messages echoed on one connection: a handler may run while the      *)
(* other's write is in flight, or after the read loop has ended.           *)
EXTENDS WsEcho

MCMaxSends  == 2
MCMaxRecv   == 2
MCMaxCloses == 0
=============================================================================
