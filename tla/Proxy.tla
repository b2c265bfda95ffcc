-------------------------------- MODULE Proxy --------------------------------
(***************************************************************************)
(* The CONNECT hand-off of do_session and server::impl::handle_connect     *)
(* (src/lib/server.cpp), with the byte tunnel of proxy_conn::run, which is *)
(* not under src and is modelled from spec 4.6.                            *)
(*                                                                         *)
(* The client's bytes after its CONNECT header are numbered 1, 2, ... as   *)
(* are the upstream's. The header parser's async_read_some may have taken  *)
(* some of the client's first bytes into do_session's flat_buffer along    *)
(* with the header; handle_connect is given the stream and the request,    *)
(* not that buffer.                                                        *)
(***************************************************************************)
EXTENDS Naturals, Sequences

CONSTANTS
    MaxData,    \* bytes each peer sends at most
    MaxEarly    \* bytes a client pipelines behind its CONNECT header

ASSUME MaxEarly <= MaxData

VARIABLES
    hc,         \* where handle_connect is
    target,     \* the request target: "host:port", or no ':' in it
    csent,      \* bytes the client has sent after its CONNECT header
    cbuf,       \* of those, bytes read into do_session's buffer
    cEof,       \* the client shut down its sending side
    usent,      \* bytes the upstream has sent
    uEof,       \* the upstream shut down its sending side
    upRecv,     \* bytes delivered to the upstream, in order
    upEofSeen,  \* the upstream saw end of stream from the tunnel
    cliRecv,    \* what the client received: the 200 (as 0), then upstream bytes
    cliEofSeen, \* the client saw end of stream
    c2u, u2c,   \* the two pumps of proxy_conn
    broken      \* a tunnel read or write failed

vars == <<hc, target, csent, cbuf, cEof, usent, uEof, upRecv, upEofSeen,
          cliRecv, cliEofSeen, c2u, u2c, broken>>

peers == <<csent, cEof, usent, uEof>>

TypeOK ==
    /\ hc \in {"parse", "resolve", "connect", "respond", "tunnel", "done"}
    /\ target \in {"hostport", "nocolon"}
    /\ csent \in 0..MaxData /\ cbuf \in 0..MaxEarly /\ cbuf <= csent
    /\ usent \in 0..MaxData
    /\ {cEof, uEof, upEofSeen, cliEofSeen, broken} \subseteq BOOLEAN
    /\ upRecv \in Seq(1..MaxData)
    /\ cliRecv \in Seq(0..MaxData)
    /\ c2u \in {"idle", "run", "done"} /\ u2c \in {"idle", "run", "done"}

\* do_session read the CONNECT header with async_read_some; the client may
\* have sent bytes right behind it, some of which that read took into the
\* buffer. The header is then released into a request for handle_connect.
Init ==
    /\ hc = "parse"
    /\ target \in {"hostport", "nocolon"}
    /\ csent \in 0..MaxEarly
    /\ cbuf \in 0..csent
    /\ cEof = FALSE /\ usent = 0 /\ uEof = FALSE
    /\ upRecv = <<>> /\ upEofSeen = FALSE
    /\ cliRecv = <<>> /\ cliEofSeen = FALSE
    /\ c2u = "idle" /\ u2c = "idle"
    /\ broken = FALSE

\* The "200 Connection Established" response in the client's stream.
Established == 0

\* handle_connect returns before the tunnel: the stream is destroyed, so the
\* client sees the connection closed, with no response.
GiveUp ==
    /\ hc' = "done" /\ cliEofSeen' = TRUE

(***************************************************************************)
(* handle_connect                                                          *)
(***************************************************************************)

\* target.find(":") == npos: co_return.
ParseTarget ==
    /\ hc = "parse"
    /\ IF target = "nocolon" THEN GiveUp ELSE hc' = "resolve" /\ UNCHANGED cliEofSeen
    /\ UNCHANGED <<target, peers, cbuf, upRecv, upEofSeen, cliRecv, c2u, u2c, broken>>

\* async_resolve(host, port): on error co_return.
Resolve ==
    /\ hc = "resolve"
    /\ \/ hc' = "connect" /\ UNCHANGED cliEofSeen
       \/ GiveUp
    /\ UNCHANGED <<target, peers, cbuf, upRecv, upEofSeen, cliRecv, c2u, u2c, broken>>

ConnectUpstream ==
    /\ hc = "connect"
    /\ \/ hc' = "respond" /\ UNCHANGED <<cliEofSeen, upEofSeen>>
       \/ GiveUp /\ UNCHANGED upEofSeen
    /\ UNCHANGED <<target, peers, cbuf, upRecv, cliRecv, c2u, u2c, broken>>

\* async_write of "200 Connection Established"; on success a proxy_conn
\* takes both streams and run() starts its two pumps. On error co_return,
\* which also closes the upstream socket.
WriteEstablished ==
    /\ hc = "respond"
    /\ \/ /\ hc' = "tunnel" /\ cliRecv' = Append(cliRecv, Established)
          /\ c2u' = "run" /\ u2c' = "run"
          /\ UNCHANGED <<cliEofSeen, upEofSeen>>
       \/ GiveUp /\ upEofSeen' = TRUE /\ UNCHANGED <<cliRecv, c2u, u2c>>
    /\ UNCHANGED <<target, peers, cbuf, upRecv, broken>>

(***************************************************************************)
(* proxy_conn::run (spec 4.6): each pump reads what its source sent and    *)
(* writes it to its destination; on end of stream or error it exits and    *)
(* half-closes the other side; when both have exited the streams close.    *)
(* A read and the write of its data are one step.                          *)
(***************************************************************************)

\* Next client byte the client->upstream pump reads from the socket.
C2UNext == cbuf + Len(upRecv) + 1

\* Fault variant of PumpC2U: the read's error is not checked, so a read at
\* end of stream is forwarded as data.
PumpC2UNoEcCheck ==
    /\ c2u = "run"
    /\ upRecv' = Append(upRecv, C2UNext)
    /\ UNCHANGED <<hc, target, peers, cbuf, upEofSeen, cliRecv, cliEofSeen, c2u, u2c, broken>>

PumpC2U ==
    /\ c2u = "run" /\ C2UNext <= csent
    /\ upRecv' = Append(upRecv, C2UNext)
    /\ UNCHANGED <<hc, target, peers, cbuf, upEofSeen, cliRecv, cliEofSeen, c2u, u2c, broken>>

PumpC2UEof ==
    /\ c2u = "run" /\ cEof /\ C2UNext > csent
    /\ c2u' = "done" /\ upEofSeen' = TRUE
    /\ UNCHANGED <<hc, target, peers, cbuf, upRecv, cliRecv, cliEofSeen, u2c, broken>>

\* Next upstream byte the upstream->client pump reads: one past the upstream
\* bytes the client has received.
U2CNext == Len(SelectSeq(cliRecv, LAMBDA x : x # Established)) + 1

PumpU2C ==
    /\ u2c = "run" /\ U2CNext <= usent
    /\ cliRecv' = Append(cliRecv, U2CNext)
    /\ UNCHANGED <<hc, target, peers, cbuf, upRecv, upEofSeen, cliEofSeen, c2u, u2c, broken>>

PumpU2CEof ==
    /\ u2c = "run" /\ uEof /\ U2CNext > usent
    /\ u2c' = "done" /\ cliEofSeen' = TRUE
    /\ UNCHANGED <<hc, target, peers, cbuf, upRecv, upEofSeen, cliRecv, c2u, broken>>

\* A read or write of either pump fails (reset): the pump exits and
\* half-closes its destination.
PumpFail ==
    /\ \/ c2u = "run" /\ c2u' = "done" /\ upEofSeen' = TRUE /\ UNCHANGED <<u2c, cliEofSeen>>
       \/ u2c = "run" /\ u2c' = "done" /\ cliEofSeen' = TRUE /\ UNCHANGED <<c2u, upEofSeen>>
    /\ broken' = TRUE
    /\ UNCHANGED <<hc, target, peers, cbuf, upRecv, cliRecv>>

\* Both pumps exited: both streams are closed and handle_connect returns.
TunnelClose ==
    /\ hc = "tunnel" /\ c2u = "done" /\ u2c = "done"
    /\ hc' = "done"
    /\ UNCHANGED <<target, peers, cbuf, upRecv, upEofSeen, cliRecv, cliEofSeen, c2u, u2c, broken>>

(***************************************************************************)
(* The peers                                                               *)
(***************************************************************************)

ClientSend ==
    /\ ~cEof /\ ~cliEofSeen /\ csent < MaxData
    /\ csent' = csent + 1
    /\ UNCHANGED <<hc, target, cbuf, cEof, usent, uEof, upRecv, upEofSeen, cliRecv, cliEofSeen, c2u, u2c, broken>>

ClientClose ==
    /\ ~cEof
    /\ cEof' = TRUE
    /\ UNCHANGED <<hc, target, csent, cbuf, usent, uEof, upRecv, upEofSeen, cliRecv, cliEofSeen, c2u, u2c, broken>>

\* The upstream exists once connected; it may speak first.
UpstreamSend ==
    /\ hc \in {"respond", "tunnel"} /\ ~uEof /\ ~upEofSeen /\ usent < MaxData
    /\ usent' = usent + 1
    /\ UNCHANGED <<hc, target, csent, cbuf, cEof, uEof, upRecv, upEofSeen, cliRecv, cliEofSeen, c2u, u2c, broken>>

UpstreamClose ==
    /\ hc \in {"respond", "tunnel"} /\ ~uEof
    /\ uEof' = TRUE
    /\ UNCHANGED <<hc, target, csent, cbuf, cEof, usent, upRecv, upEofSeen, cliRecv, cliEofSeen, c2u, u2c, broken>>

\* The coroutine waits on a read no peer will satisfy, or has returned.
Waiting ==
    /\ hc \in {"tunnel", "done"}
    /\ UNCHANGED vars

HandleConnectStep == ParseTarget \/ Resolve \/ ConnectUpstream \/ WriteEstablished

PumpStep == PumpC2U \/ PumpC2UEof \/ PumpU2C \/ PumpU2CEof \/ TunnelClose

Next ==
    \/ HandleConnectStep \/ PumpStep \/ PumpFail
    \/ ClientSend \/ ClientClose \/ UpstreamSend \/ UpstreamClose
    \/ Waiting

(* The coroutines resume when their I/O completes; the peers and failures  *)
(* carry no fairness.                                                      *)
Spec == Init /\ [][Next]_vars /\ WF_vars(HandleConnectStep) /\ WF_vars(PumpStep)

-----------------------------------------------------------------------------
(***************************************************************************)
(* Properties                                                              *)
(***************************************************************************)

=============================================================================
