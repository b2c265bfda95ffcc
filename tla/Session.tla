------------------------------- MODULE Session -------------------------------
(***************************************************************************)
(* server::impl::do_session and async_create_http_variant_stream          *)
(* (src/lib/server.cpp), built with HTTPLIB_ENABLED_SSL and                *)
(* HTTPLIB_ENABLED_WEBSOCKET, and the older server::do_session of          *)
(* src/lib/server.cxx: one accepted connection, from protocol detection    *)
(* through the keep-alive loop to its end. build says which file's code   *)
(* runs; it is fixed for a behaviour.                                      *)
(*                                                                         *)
(* The client's bytes are a sequence of tokens: a TLS ClientHello for a   *)
(* TLS client, then for each request its header and, when it has one, its *)
(* body. Routing, compression and serialisation are abstracted to the     *)
(* response being written; the WebSocket and CONNECT hand-offs end the    *)
(* session (they are modelled in WebSocketConn and Proxy).                 *)
(***************************************************************************)
EXTENDS Naturals, Sequences, SequencesExt

CONSTANTS
    Requests,   \* the request shapes a client may send
    MaxReqs,    \* bound on the requests a client pipelines
    Builds      \* builds checked: "cpp" (server.cpp), "cxx" (server.cxx)

ASSUME Builds \subseteq {"cpp", "cxx"}

(* A request shape: method, whether its bytes carry a body, whether the   *)
(* router has a handler for its method and target (router_.has_handler),  *)
(* whether its query string parses, its keep_alive(), and whether it asks *)
(* for a WebSocket upgrade or is a CONNECT.                               *)
ASSUME Requests \subseteq [method : {"GET", "POST"}, body : BOOLEAN,
                           route : BOOLEAN, query : {"ok", "bad"},
                           keepAlive : BOOLEAN,
                           kind : {"http", "upgrade", "connect"}]

\* Body bytes that happen to form a well-formed request header: a routed
\* keep-alive GET without body.
Smuggled == [method |-> "GET", body |-> FALSE, route |-> TRUE, query |-> "ok",
             keepAlive |-> TRUE, kind |-> "http"]

\* Tokens of the client's byte stream.
Hello   == [t |-> "hello", i |-> 0]
Hdr(i)  == [t |-> "hdr", i |-> i]
Body(i) == [t |-> "body", i |-> i]

VARIABLES
    build,      \* the build whose do_session runs
    reqs,       \* the requests the client sends (none: it connects and idles)
    tls,        \* the client opens with a TLS ClientHello
    peerCloses, \* after its last token the client closes (else it idles)
    peerReads,  \* the client reads what the server writes
    sentLen,    \* how many tokens of its stream the client sends
    sslConfig,  \* server::impl::ssl_config_ holds a value (set_ssl_config)
    pos,        \* index of the next token the server has not consumed
    pc,         \* where do_session is
    cur,        \* request being handled: its index, 0 for non-request bytes
    parsed,     \* indices of the headers parsed so far (0: non-request bytes)
    responses,  \* indices of the requests answered, in order
    ended       \* why the session ended

vars == <<build, reqs, tls, peerCloses, peerReads, sentLen, sslConfig, pos, pc, cur, parsed,
          responses, ended>>

Stream ==
    (IF tls THEN <<Hello>> ELSE <<>>)
    \o FlattenSeq([i \in 1..Len(reqs) |->
                     <<Hdr(i)>> \o (IF reqs[i].body THEN <<Body(i)>> ELSE <<>>)])

Req(i) == IF i = 0 THEN Smuggled ELSE reqs[i]

NextToken == Stream[pos]
HasData   == pos <= sentLen

Pcs == {"detect", "handshake", "read_header", "dispatch", "read_body", "init",
        "write", "done"}
Ends == {"none", "transport", "tls", "bad_parse", "bad_request", "websocket",
         "connect", "closed", "undefined"}

TypeOK ==
    /\ build \in Builds
    /\ reqs \in Seq(Requests) /\ Len(reqs) \in 0..MaxReqs
    /\ tls \in BOOLEAN /\ peerCloses \in BOOLEAN /\ peerReads \in BOOLEAN
    /\ sentLen \in 0..Len(Stream)
    /\ sslConfig \in BOOLEAN
    /\ pos \in 1..(sentLen + 1)
    /\ pc \in Pcs
    /\ cur \in 0..MaxReqs
    /\ parsed \in Seq(0..MaxReqs)
    /\ responses \in Seq(0..MaxReqs)
    /\ ended \in Ends

\* server.cpp: ssl_config_ is an empty std::optional until the application
\* calls set_ssl_config. server.cxx: the constructor sets it to fixed paths.
SslConfigs == IF build = "cpp" THEN BOOLEAN ELSE {TRUE}

Init ==
    /\ build \in Builds
    /\ reqs \in UNION {[1..k -> Requests] : k \in 0..MaxReqs}
    /\ tls \in BOOLEAN /\ peerCloses \in BOOLEAN /\ peerReads \in BOOLEAN
    /\ sentLen \in 0..Len(Stream)
    /\ sslConfig \in SslConfigs
    /\ pos = 1
    /\ pc = "detect"
    /\ cur = 0
    /\ parsed = <<>>
    /\ responses = <<>>
    /\ ended = "none"

Input == <<build, reqs, tls, peerCloses, peerReads, sentLen, sslConfig>>

End(why) == pc' = "done" /\ ended' = why

\* handle_websocket: a websocket_conn takes the stream, gets the server's
\* handlers and runs to its end (modelled in WebSocketConn); then
\* do_session returns.
HandleWebsocket == End("websocket")

\* make_respone: the response starts as a 404 whose keep_alive is the
\* request's.
RespKeepAlive(r) == r.keepAlive

(***************************************************************************)
(* async_create_http_variant_stream                                        *)
(***************************************************************************)

\* async_detect_ssl under the timeout_ deadline reads the first bytes into
\* buffer without consuming them. A plain stream is used as is, the bytes
\* read staying in buffer for the header parser.
Detect ==
    /\ pc = "detect"
    /\ HasData
    /\ IF tls THEN pc' = "handshake" ELSE pc' = "read_header"
    /\ UNCHANGED <<Input, pos, cur, parsed, responses, ended>>

\* create_ssl_context: a context from ssl_config_'s certificate chain, key
\* and password; any exception (a missing file, a wrong password) is
\* caught and gives nullptr. ssl_config_ is dereferenced without a check:
\* on an empty optional that reads an ssl_config never constructed, which
\* is undefined behaviour, modelled as its outcomes (the process faults,
\* or the garbage strings make the context throw).
CreateSslContext(configured) ==
    IF configured THEN {"ctx", "nullptr"} ELSE {"undefined", "nullptr"}

\* server.cxx: the same function over the ssl_config_ the constructor set.
CreateSslContextCxx == {"ctx", "nullptr"}

\* if (!ssl_ctx) co_return; then the server handshake is fed buffer.data()
\* and buffer.consume(bytes_used) drops the ClientHello; a failed
\* handshake returns.
Handshake ==
    /\ pc = "handshake"
    /\ \E ctx \in IF build = "cpp" THEN CreateSslContext(sslConfig)
                                   ELSE CreateSslContextCxx :
         CASE ctx = "undefined" -> End("undefined") /\ UNCHANGED pos
           [] ctx = "nullptr"   -> End("tls") /\ UNCHANGED pos
           [] OTHER ->
                \/ pos' = pos + 1 /\ pc' = "read_header" /\ UNCHANGED ended
                \/ End("tls") /\ UNCHANGED pos
    /\ UNCHANGED <<Input, cur, parsed, responses>>

(***************************************************************************)
(* The keep-alive loop of do_session                                       *)
(***************************************************************************)

\* Fault variant of ReadHeader: body bytes that parse as a header do not
\* replace the request being handled, so the previous request is routed
\* and answered again.
ReadHeaderStaleCur ==
    /\ pc = "read_header"
    /\ HasData
    /\ pos' = pos + 1
    /\ IF NextToken.t = "hdr"
         THEN /\ cur' = NextToken.i
              /\ parsed' = Append(parsed, NextToken.i)
              /\ pc' = "dispatch" /\ UNCHANGED ended
         ELSE \/ End("bad_parse") /\ UNCHANGED <<cur, parsed>>
              \/ /\ parsed' = Append(parsed, 0)
                 /\ pc' = "dispatch" /\ UNCHANGED <<cur, ended>>
    /\ UNCHANGED <<Input, responses>>

\* The header parser reads under a timeout_ deadline until header_done.
\* A request header is parsed; body bytes left unread are parsed as a
\* header too: they fail to parse (co_return, nothing written) or happen
\* to form a request.
ReadHeader ==
    /\ pc = "read_header"
    /\ HasData
    /\ pos' = pos + 1
    /\ IF NextToken.t = "hdr"
         THEN /\ cur' = NextToken.i
              /\ parsed' = Append(parsed, NextToken.i)
              /\ pc' = "dispatch" /\ UNCHANGED ended
         ELSE \/ End("bad_parse") /\ UNCHANGED <<cur, parsed>>
              \/ /\ cur' = 0 /\ parsed' = Append(parsed, 0)
                 /\ pc' = "dispatch" /\ UNCHANGED ended
    /\ UNCHANGED <<Input, responses>>

\* server.cpp: async_detect_ssl runs under expires_after(timeout_); when
\* no byte comes the client's close or the deadline fails it.
DetectTimeout ==
    /\ pc = "detect"
    /\ ~HasData
    /\ End("transport")
    /\ UNCHANGED <<Input, pos, cur, parsed, responses>>

\* server.cxx: async_detect_ssl on the bare socket with no deadline; only
\* the client's close fails it.
DetectEof ==
    /\ pc = "detect"
    /\ ~HasData /\ peerCloses
    /\ End("transport")
    /\ UNCHANGED <<Input, pos, cur, parsed, responses>>

\* Fault variant of ReadHeaderEnd: the header read has no deadline, so
\* only the client's close ends it.
ReadHeaderEndNoDeadline ==
    /\ pc = "read_header"
    /\ ~HasData /\ peerCloses
    /\ End("transport")
    /\ UNCHANGED <<Input, pos, cur, parsed, responses>>

\* No more header bytes come: the client closed (end of stream), or the
\* deadline (timeout_ in server.cpp, 30 s in server.cxx) cancels the read.
\* Either way the read fails and do_session returns.
ReadHeaderEnd ==
    /\ pc = "read_header"
    /\ ~HasData
    /\ End("transport")
    /\ UNCHANGED <<Input, pos, cur, parsed, responses>>

\* Upgrade and CONNECT hand the stream off and end the session. Otherwise
\* the response starts as a 404 from the header (make_respone). With a
\* handler, GET/HEAD/TRACE/CONNECT take no body and the rest read it;
\* without one, the 404 is written at once and the body is not read.
Dispatch ==
    /\ pc = "dispatch"
    /\ LET r == Req(cur) IN
         CASE r.kind = "upgrade" -> HandleWebsocket
           [] r.kind = "connect" -> End("connect")
           [] r.route /\ r.method = "GET" -> pc' = "init" /\ UNCHANGED ended
           [] r.route -> pc' = "read_body" /\ UNCHANGED ended
           [] OTHER -> pc' = "write" /\ UNCHANGED ended
    /\ UNCHANGED <<Input, pos, cur, parsed, responses>>

\* server.cxx: GET/HEAD/TRACE/CONNECT take no body; every other method
\* reads it (as form data or a string, by Content-Type) before routing,
\* whether or not a handler exists.
DispatchCxx ==
    /\ pc = "dispatch"
    /\ LET r == Req(cur) IN
         CASE r.kind = "upgrade" -> HandleWebsocket
           [] r.kind = "connect" -> End("connect")
           [] r.method = "GET" -> pc' = "init" /\ UNCHANGED ended
           [] OTHER -> pc' = "read_body" /\ UNCHANGED ended
    /\ UNCHANGED <<Input, pos, cur, parsed, responses>>

\* Fault variant of ReadBody: the ec of async_read_some is not checked, so
\* a failed read counts as the body.
ReadBodyNoEcCheck ==
    /\ pc = "read_body"
    /\ IF Req(cur).body THEN pos' = pos + 1 ELSE UNCHANGED pos
    /\ pc' = "init"
    /\ UNCHANGED <<Input, cur, parsed, responses, ended>>

\* The body parser continues from the header parser until is_done(),
\* resetting the deadline on each read.
ReadBody ==
    /\ pc = "read_body"
    /\ IF Req(cur).body
         THEN HasData /\ NextToken = Body(cur) /\ pos' = pos + 1
         ELSE UNCHANGED pos
    /\ pc' = "init"
    /\ UNCHANGED <<Input, cur, parsed, responses, ended>>

\* Split the target on "?" and parse the query; on failure the response is
\* set to 400 and do_session returns without writing it. Otherwise
\* router_.routing fills the response.
InitRequest ==
    /\ pc = "init"
    /\ IF Req(cur).query = "bad"
         THEN End("bad_request")
         ELSE pc' = "write" /\ UNCHANGED ended
    /\ UNCHANGED <<Input, pos, cur, parsed, responses>>

\* Fault variant of InitRequestCxx: the query check of server.cpp, which
\* returns without writing the 400.
InitRequestCxxQueryReturn ==
    /\ pc = "init"
    /\ IF Req(cur).query = "bad"
         THEN End("bad_request")
         ELSE pc' = "write" /\ UNCHANGED ended
    /\ UNCHANGED <<Input, pos, cur, parsed, responses>>

\* The body read fails: the client closed, or stopped sending and the
\* deadline expired; do_session returns.
ReadBodyEnd ==
    /\ pc = "read_body"
    /\ Req(cur).body /\ ~HasData
    /\ End("transport")
    /\ UNCHANGED <<Input, pos, cur, parsed, responses>>

\* server.cxx: the request goes to router_.routing as read; the target is
\* not split, so a malformed query is the handler's business.
InitRequestCxx ==
    /\ pc = "init"
    /\ pc' = "write"
    /\ UNCHANGED <<Input, pos, cur, parsed, responses, ended>>

\* Fault variant of Write: keep-alive decided by req.keep_alive(), where
\* req stays default-constructed (HTTP/1.1, keep-alive) when no handler
\* matched.
WriteReqKeepAlive ==
    /\ pc = "write"
    /\ peerReads
    /\ responses' = Append(responses, cur)
    /\ IF Req(cur).keepAlive \/ ~Req(cur).route
         THEN pc' = "read_header" /\ UNCHANGED ended
         ELSE End("closed")
    /\ UNCHANGED <<Input, pos, cur, parsed>>

\* async_write of the response, which has no deadline (expires_never was
\* the last call); it completes when the client takes the bytes. Then, if
\* !resp.keep_alive(), shutdown_send and return; resp.keep_alive was set
\* from the request header and the router leaves it.
Write ==
    /\ pc = "write"
    /\ peerReads
    /\ responses' = Append(responses, cur)
    /\ IF RespKeepAlive(Req(cur))
         THEN pc' = "read_header" /\ UNCHANGED ended
         ELSE End("closed")
    /\ UNCHANGED <<Input, pos, cur, parsed>>

\* A read, handshake or write fails on the socket (reset, broken pipe).
TransportError ==
    /\ pc \in {"detect", "handshake", "read_header", "read_body", "write"}
    /\ End("transport")
    /\ UNCHANGED <<Input, pos, cur, parsed, responses>>

Finished ==
    /\ pc = "done"
    /\ UNCHANGED vars

CppStep ==
    \/ Detect \/ DetectTimeout \/ Handshake \/ ReadHeader \/ ReadHeaderEnd
    \/ Dispatch \/ ReadBody \/ ReadBodyEnd \/ InitRequest \/ Write

CxxStep ==
    \/ Detect \/ DetectEof \/ Handshake \/ ReadHeader \/ ReadHeaderEnd
    \/ DispatchCxx \/ ReadBody \/ ReadBodyEnd \/ InitRequestCxx \/ Write

SessionStep == IF build = "cpp" THEN CppStep ELSE CxxStep

Next == SessionStep \/ TransportError \/ Finished

(* The coroutine is resumed whenever its awaited operation completes, and *)
(* every read completes: with data, at end of stream, or at its deadline. *)
(* Transport errors carry no fairness.                                     *)
Spec == Init /\ [][Next]_vars /\ WF_vars(SessionStep)

-----------------------------------------------------------------------------
(***************************************************************************)
(* Properties                                                              *)
(***************************************************************************)

ReadStates == {"detect", "handshake", "read_header", "read_body"}

\* Every read the session waits in ends, even against a client that stops
\* sending without closing: each read of the detector, the header parser
\* and the body parser must run under a deadline (spec 5).
ReadsEnd ==
    \A s \in ReadStates : (pc = s) ~> (pc # s)

\* The requests as the connection's client sees them: each header parsed,
\* with whether it asked to close.
AsRead(s) == [k \in 1..Len(s) |-> [id |-> s[k], close |-> ~Req(s[k]).keepAlive]]

Exchange == INSTANCE HttpExchange WITH
    Ids      <- 0..MaxReqs,
    read     <- AsRead(parsed),
    answered <- AsRead(responses),
    open     <- pc # "done"

\* do_session implements the HTTP/1.1 exchange of HttpExchange: it parses
\* one header at a time and answers it before parsing the next, answers
\* exactly the request it parsed last, and writes a response with
\* "Connection: close" as its last act (the keep_alive() test after
\* async_write). Whatever the route, body or query of a request, no step of
\* the keep-alive loop answers a request twice, out of order, or after the
\* connection should have closed.
ImplementsExchange == Exchange!Spec

\* The k-th header the server parses is the client's k-th request: the
\* server never takes the bytes of a body for a request header (RFC 7230
\* 3.3: a body not read must make the server close the connection).
RequestsParsedInOrder ==
    parsed = [i \in 1..Len(parsed) |-> i]

\* Every HTTP request whose header was parsed gets a response, unless the
\* connection failed (spec 7: BadRequest is answered 400).
ParsedRequestsAnswered ==
    (pc = "done" /\ ended \notin {"transport", "websocket", "connect"})
        => \A k \in 1..Len(parsed) : parsed[k] \in ToSet(responses)

\* Whatever a client sends, the session ends or goes on in a defined way.
\* In particular a TLS ClientHello reaching a server that was never given a
\* TLS configuration is turned away (spec 6: TLS is accepted when
\* ssl.cert_file and ssl.key_file are set); detection does not look at
\* ssl_config_ before create_ssl_context dereferences it.
NoUndefinedBehaviour ==
    ended # "undefined"

\* server.cpp's reads all end (ReadsEnd); server.cxx's detector has no
\* deadline (hazard server.cxx:120), so only server.cpp is held to it.
CppReadsEnd == build = "cpp" => ReadsEnd

\* server.cxx answers every request it parses: it has no early return
\* between the header read and the response write, since the router does
\* any query handling (server.cpp's query check returns without a
\* response; see ParsedRequestsAnswered).
CxxParsedRequestsAnswered == build = "cxx" => ParsedRequestsAnswered

\* Every session ends: no coroutine is parked forever on a connection.
SessionEnds ==
    <>(pc = "done")

=============================================================================
