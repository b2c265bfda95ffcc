--------------------------- MODULE MCWebSocketConn ---------------------------
(* Instantiation of WebSocketConn for TLC: three sends make a message wait *)
(* behind a non-empty queue and let a send arrive while a write is in      *)
(* flight; one close() lets the close race the writer.                     *)
EXTENDS WebSocketConn

MCMaxSends  == 3
MCMaxRecv   == 1
MCMaxCloses == 1
=============================================================================
