------------------------------- MODULE MCProxy -------------------------------
(* Two bytes each way, one of the client's possibly pipelined behind its   *)
(* CONNECT header: enough for a byte to wait in the buffer, a byte to      *)
(* cross the tunnel and a close to follow it.                              *)
EXTENDS Proxy

MCMaxData  == 2
MCMaxEarly == 1
=============================================================================
