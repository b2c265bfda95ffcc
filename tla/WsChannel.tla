------------------------------ MODULE WsChannel ------------------------------
(***************************************************************************)
(* What a WebSocket connection promises about its outbound frames (spec    *)
(* 4.5 and 5): frames leave in the order send() and close() were called,   *)
(* the close frame being the close intent's place in that order, and       *)
(* nothing follows the close frame. A failing stream may cut the sequence  *)
(* short, but never reorders it or skips a frame.                          *)
(***************************************************************************)
EXTENDS Naturals, Sequences

CONSTANTS
    Msgs,       \* the messages the application may send
    CloseFrame  \* the close frame, not a message

VARIABLES
    calls,      \* send() and close() calls, in the order they were made
    out         \* frames the peer received, in order

vars == <<calls, out>>

Init ==
    /\ calls = <<>>
    /\ out = <<>>

\* The close frame went out: the connection sends nothing more.
CloseSent == out # <<>> /\ out[Len(out)] = CloseFrame

Send(m) ==
    /\ calls' = Append(calls, m)
    /\ UNCHANGED out

Close ==
    /\ calls' = Append(calls, CloseFrame)
    /\ UNCHANGED out

\* The next frame in call order reaches the peer.
Emit ==
    /\ Len(out) < Len(calls) /\ ~CloseSent
    /\ out' = Append(out, calls[Len(out) + 1])
    /\ UNCHANGED calls

Next == (\E m \in Msgs : Send(m)) \/ Close \/ Emit

Spec == Init /\ [][Next]_vars

=============================================================================
