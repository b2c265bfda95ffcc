------------------------------- MODULE WsEcho -------------------------------
(***************************************************************************)
(* The example program's WebSocket echo (src/examples/main.cxx) on a      *)
(* connection served by server::handle_websocket (server.cxx), which runs *)
(* httplib::websocket_conn: WebSocketConn composed with the handlers      *)
(* main() installs and with the owners of the websocket_conn object.      *)
(*                                                                         *)
(* handle_websocket holds the connection in a shared_ptr while it awaits   *)
(* run(); every item posted to strand_ holds it too (self captured by the  *)
(* send_message lambda, the process_write_data frame and the close         *)
(* coroutine). The read loop co_spawns message_handler_ detached on the    *)
(* session's executor, a multi-threaded pool, handing it a weak_ptr only.  *)
(* main.cxx's handler locks that weak_ptr and calls send_message through   *)
(* it; its open and close handlers return at once and it never calls      *)
(* close().                                                                *)
(***************************************************************************)
EXTENDS Naturals, Sequences

CONSTANTS MaxSends, MaxRecv, MaxCloses

\* Each echo is one send, so the send bound never cuts an echo short.
ASSUME MaxRecv <= MaxSends

VARIABLES
    run, ws, strand, que, spawned, inflight, wire, started, sent, closes,
    sentAtClose, closeFrame, wireAtClose, recv,
    handlers,   \* message_handler_ coroutines co_spawned and not yet run
    expired     \* a handler called send_message through a null lock()

Conn == INSTANCE WebSocketConn

connVars == <<run, ws, strand, que, spawned, inflight, wire, started, sent,
              closes, sentAtClose, closeFrame, wireAtClose, recv>>
vars == <<connVars, handlers, expired>>

Init ==
    /\ Conn!Init
    /\ handlers = 0
    /\ expired = FALSE

\* The websocket_conn exists while someone owns it: handle_websocket's conn
\* until run() returns, and the self of every posted lambda, suspended
\* writer and close coroutine.
Alive ==
    \/ run # "done"
    \/ strand # <<>>
    \/ inflight # {}
    \/ closeFrame = "pending"

\* The read loop receives a message and co_spawns message_handler_ on the
\* executor with weak_from_this().
ReadMessage ==
    /\ Conn!ReadMessage
    /\ handlers' = handlers + 1
    /\ UNCHANGED expired

\* main.cxx's message handler: auto conn = hdl.lock(); conn->send_message(
\* msg). send_message returns at once on a stream that is not open; with no
\* owner left, lock() is null and the call goes through a null pointer.
EchoHandler ==
    /\ handlers > 0
    /\ handlers' = handlers - 1
    /\ IF Alive
         THEN /\ \/ Conn!PostSend
                 \/ ~Conn!IsOpen /\ UNCHANGED connVars
              /\ UNCHANGED expired
         ELSE /\ expired' = TRUE
              /\ UNCHANGED connVars

\* The connection's own steps; the handlers main() installs make no other
\* call on it.
ConnStep ==
    /\ \/ Conn!Accept \/ Conn!OpenHandlerDone \/ Conn!ReadError
       \/ Conn!CloseHandlerDone \/ Conn!StrandStep
       \/ Conn!WriteComplete \/ Conn!CloseFrameOut \/ Conn!SocketBreak
    /\ UNCHANGED <<handlers, expired>>

Finished ==
    /\ handlers = 0
    /\ Conn!Finished
    /\ UNCHANGED <<handlers, expired>>

Next == ReadMessage \/ EchoHandler \/ ConnStep \/ Finished

Spec == Init /\ [][Next]_vars

-----------------------------------------------------------------------------

=============================================================================
