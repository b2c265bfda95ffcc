---------------------------- MODULE WebSocketConn ----------------------------
(***************************************************************************)
(* httplib::websocket_conn (src/include/httplib/websocket_conn.hpp).      *)
(*                                                                         *)
(* Actors:                                                                 *)
(*   - the run() coroutine: handshake, open handler, read loop, close      *)
(*     handler;                                                            *)
(*   - application handlers holding a weak handle, which call             *)
(*     send_message() and close() from any thread;                         *)
(*   - the strand_ executor, which runs the work posted to it one item at  *)
(*     a time in FIFO order: the send_message lambda, the steps of every   *)
(*     process_write_data() coroutine, and the steps of close();           *)
(*   - the socket, which completes async_write operations and may break.   *)
(*                                                                         *)
(* Messages are numbered in the order send_message() posted them; the     *)
(* payload and the text/binary flag are abstracted away.                   *)
(*                                                                         *)
(* beast lets one write hold the stream's write block (wr_block_) at a     *)
(* time. A write started while another holds it is parked in op_wr_; it is *)
(* resumed only by an upcall when the block is released from a read, a    *)
(* close or a ping operation, not when the holding write completes.        *)
(***************************************************************************)
EXTENDS Naturals, Sequences, FiniteSets, SequencesExt

CONSTANTS
    MaxSends,   \* bound on send_message() calls that pass is_open()
    MaxRecv,    \* bound on messages the read loop receives
    MaxCloses   \* bound on close() calls that pass is_open()

ASSUME MaxSends \in Nat /\ MaxRecv \in Nat /\ MaxCloses \in Nat

Msgs    == 1..MaxSends
Writers == 1..MaxSends   \* a process_write_data() is spawned at most once per send

VARIABLES
    run,        \* program counter of run()
    ws,         \* status of the beast websocket stream ws_
    strand,     \* work posted to strand_, FIFO
    que,        \* send_que_
    spawned,    \* process_write_data() coroutines spawned so far
    inflight,   \* async_write operations started and not yet completed
    wire,       \* data frames the peer has received, in order
    started,    \* messages whose async_write was started, in order
    sent,       \* send_message() calls that passed is_open()
    closes,     \* close() calls that passed is_open()
    sentAtClose,\* value of sent when close() was first called
    closeFrame, \* state of the close frame issued by async_close
    wireAtClose,\* wire when the close frame went out
    recv        \* messages delivered to the message handler

vars == <<run, ws, strand, que, spawned, inflight, wire, started, sent,
          closes, sentAtClose, closeFrame, wireAtClose, recv>>

\* Work items posted to strand_.
Enq(m)      == [k |-> "enq", m |-> m]         \* send_message lambda
WStep(w)    == [k |-> "wstep", w |-> w]       \* process_write_data after post
WDone(w, o) == [k |-> "wdone", w |-> w, ok |-> o] \* async_write completion
CStart      == [k |-> "cstart"]               \* close() coroutine entry
CStep       == [k |-> "cstep"]                \* close() after its post

Items == {Enq(m) : m \in Msgs} \cup {WStep(w) : w \in Writers}
         \cup {WDone(w, o) : w \in Writers, o \in BOOLEAN} \cup {CStart, CStep}

\* A write operation: writer, message, whether the stream accepted it, and
\* whether it waits in op_wr_ for the write block.
Ops == [w : Writers, m : Msgs, ok : BOOLEAN, parked : BOOLEAN]

TypeOK ==
    /\ run \in {"accept", "open_handler", "read", "close_handler", "done"}
    /\ ws \in {"handshake", "open", "closing", "closed"}
    /\ strand \in Seq(Items)
    /\ que \in Seq(Msgs)
    /\ spawned \in 0..MaxSends
    /\ inflight \subseteq Ops
    /\ wire \in Seq(Msgs)
    /\ started \in Seq(Msgs)
    /\ sent \in 0..MaxSends
    /\ closes \in 0..MaxCloses
    /\ sentAtClose \in 0..MaxSends
    /\ closeFrame \in {"none", "pending", "sent", "failed"}
    /\ wireAtClose \in Seq(Msgs)
    /\ recv \in 0..MaxRecv

Init ==
    /\ run = "accept"
    /\ ws = "handshake"
    /\ strand = <<>>
    /\ que = <<>>
    /\ spawned = 0
    /\ inflight = {}
    /\ wire = <<>>
    /\ started = <<>>
    /\ sent = 0
    /\ closes = 0
    /\ sentAtClose = 0
    /\ closeFrame = "none"
    /\ wireAtClose = <<>>
    /\ recv = 0

IsOpen == ws = "open"   \* ws_.is_open()

\* A write holds wr_block_.
WriteBlocked == \E op \in inflight : ~op.parked

\* The read side's upcall when it releases a block: with wr_block_ free, one
\* parked write is resumed and takes it.
ResumeParked ==
    IF ~WriteBlocked /\ \E op \in inflight : op.parked
      THEN \E op \in {o \in inflight : o.parked} :
             inflight' = (inflight \ {op}) \cup {[op EXCEPT !.parked = FALSE]}
      ELSE UNCHANGED inflight

(***************************************************************************)
(* run()                                                                   *)
(***************************************************************************)

\* async_accept: the handshake succeeds, or fails and run() returns.
Accept ==
    /\ run = "accept"
    /\ \/ run' = "open_handler" /\ ws' = "open"
       \/ run' = "done" /\ ws' = "closed"
    /\ UNCHANGED <<strand, que, spawned, inflight, wire, started, sent, closes,
                   sentAtClose, closeFrame, wireAtClose, recv>>

\* co_await open_handler_(weak_from_this()) returns.
OpenHandlerDone ==
    /\ run = "open_handler"
    /\ run' = "read"
    /\ UNCHANGED <<ws, strand, que, spawned, inflight, wire, started, sent,
                   closes, sentAtClose, closeFrame, wireAtClose, recv>>

\* async_read yields a message: a message_handler_ is co_spawned detached
\* (it may then call send_message/close), and the buffer is consumed.
ReadMessage ==
    /\ run = "read"
    /\ ws \in {"open", "closing"}
    /\ recv < MaxRecv
    /\ recv' = recv + 1
    /\ ResumeParked
    /\ UNCHANGED <<run, ws, strand, que, spawned, wire, started, sent,
                   closes, sentAtClose, closeFrame, wireAtClose>>

\* async_read fails (peer close, reply to our close frame, broken socket):
\* the stream is closed and the close handler is awaited.
ReadError ==
    /\ run = "read"
    /\ run' = "close_handler"
    /\ ws' = "closed"
    /\ ResumeParked
    /\ UNCHANGED <<strand, que, spawned, wire, started, sent, closes,
                   sentAtClose, closeFrame, wireAtClose, recv>>

CloseHandlerDone ==
    /\ run = "close_handler"
    /\ run' = "done"
    /\ UNCHANGED <<ws, strand, que, spawned, inflight, wire, started, sent,
                   closes, sentAtClose, closeFrame, wireAtClose, recv>>

(***************************************************************************)
(* Calls made by the application through its handle. Handles are handed   *)
(* out from the open handler on; a call that fails is_open() is a no-op.   *)
(***************************************************************************)
HandleLive == run \in {"open_handler", "read"}

\* send_message(): if (!ws_.is_open()) return; post the enqueue lambda.
PostSend ==
    /\ IsOpen
    /\ sent < MaxSends
    /\ sent' = sent + 1
    /\ strand' = Append(strand, Enq(sent + 1))
    /\ UNCHANGED <<run, ws, que, spawned, inflight, wire, started, closes,
                   sentAtClose, closeFrame, wireAtClose, recv>>

SendMessage == HandleLive /\ PostSend

\* close(): if (!ws_.is_open()) return; co_spawn the close coroutine on
\* strand_ from outside it, which enters the strand through a post.
Close ==
    /\ HandleLive /\ IsOpen
    /\ closes < MaxCloses
    /\ closes' = closes + 1
    /\ sentAtClose' = IF closes = 0 THEN sent ELSE sentAtClose
    /\ strand' = Append(strand, CStart)
    /\ UNCHANGED <<run, ws, que, spawned, inflight, wire, started, sent,
                   closeFrame, wireAtClose, recv>>

(***************************************************************************)
(* Work executed by strand_, one item at a time, in the order posted.     *)
(***************************************************************************)

\* Fault variant of RunEnqueue: send_in_process read after the push, so no
\* writer is ever spawned.
RunEnqueueLateCheck ==
    /\ strand # <<>> /\ Head(strand).k = "enq"
    /\ que' = Append(que, Head(strand).m)
    /\ strand' = Tail(strand)
    /\ UNCHANGED <<run, ws, spawned, inflight, wire, started, sent, closes,
                   sentAtClose, closeFrame, wireAtClose, recv>>

\* The send_message lambda: send_in_process = !send_que_.empty(); push; if
\* no send was in process, co_spawn process_write_data() on the strand. The
\* spawn is dispatched from inside the strand, so the new coroutine runs at
\* once up to its first co_await net::post(strand_).
RunEnqueue ==
    /\ strand # <<>> /\ Head(strand).k = "enq"
    /\ LET m == Head(strand).m
           sendInProcess == que # <<>>
       IN /\ que' = Append(que, m)
          /\ IF sendInProcess
               THEN /\ strand' = Tail(strand)
                    /\ UNCHANGED spawned
               ELSE /\ spawned' = spawned + 1
                    /\ strand' = Append(Tail(strand), WStep(spawned + 1))
    /\ UNCHANGED <<run, ws, inflight, wire, started, sent, closes, sentAtClose,
                   closeFrame, wireAtClose, recv>>

\* Fault variant of RunWriteStep: the front message is written but not
\* popped.
RunWriteStepNoPop ==
    /\ strand # <<>> /\ Head(strand).k = "wstep"
    /\ strand' = Tail(strand)
    /\ IF que = <<>>
         THEN UNCHANGED <<inflight, started>>
         ELSE /\ inflight' = inflight \cup
                  {[w |-> Head(strand).w, m |-> Head(que), ok |-> IsOpen,
                    parked |-> WriteBlocked]}
              /\ started' = Append(started, Head(que))
    /\ UNCHANGED <<run, ws, que, spawned, wire, sent, closes, sentAtClose,
                   closeFrame, wireAtClose, recv>>

\* process_write_data after its post: return if the queue is empty, else pop
\* the front message and start async_write on it. beast fails a write
\* started after the close frame was initiated or the stream closed.
RunWriteStep ==
    /\ strand # <<>> /\ Head(strand).k = "wstep"
    /\ LET w == Head(strand).w
       IN IF que = <<>>
            THEN /\ strand' = Tail(strand)
                 /\ UNCHANGED <<que, inflight, started>>
            ELSE /\ que' = Tail(que)
                 /\ inflight' = inflight \cup
                                {[w |-> w, m |-> Head(que), ok |-> IsOpen,
                                  parked |-> WriteBlocked]}
                 /\ started' = Append(started, Head(que))
                 /\ strand' = Tail(strand)
    /\ UNCHANGED <<run, ws, spawned, wire, sent, closes, sentAtClose,
                   closeFrame, wireAtClose, recv>>

\* Fault variant of RunWriteDone: a fresh process_write_data is co_spawned
\* for the next message instead of the loop going on.
RunWriteDoneRespawn ==
    /\ strand # <<>> /\ Head(strand).k = "wdone"
    /\ IF Head(strand).ok
         THEN /\ spawned' = spawned + 1
              /\ strand' = Append(Tail(strand), WStep(spawned + 1))
         ELSE /\ strand' = Tail(strand)
              /\ UNCHANGED spawned
    /\ UNCHANGED <<run, ws, que, inflight, wire, started, sent, closes,
                   sentAtClose, closeFrame, wireAtClose, recv>>

\* process_write_data resumed after async_write: on error co_return, else
\* loop, which begins with co_await net::post(strand_).
RunWriteDone ==
    /\ strand # <<>> /\ Head(strand).k = "wdone"
    /\ strand' = IF Head(strand).ok
                   THEN Append(Tail(strand), WStep(Head(strand).w))
                   ELSE Tail(strand)
    /\ UNCHANGED <<run, ws, que, spawned, inflight, wire, started, sent, closes,
                   sentAtClose, closeFrame, wireAtClose, recv>>

\* close coroutine entry: co_await net::post(strand_).
RunCloseStart ==
    /\ strand # <<>> /\ Head(strand) = CStart
    /\ strand' = Append(Tail(strand), CStep)
    /\ UNCHANGED <<run, ws, que, spawned, inflight, wire, started, sent, closes,
                   sentAtClose, closeFrame, wireAtClose, recv>>

\* close coroutine after its post: co_await ws_.async_close("normal").
\* beast marks the stream closing and sends the close frame once the write
\* in progress, if any, is done; on a stream that is no longer open the
\* close fails at once.
RunCloseStep ==
    /\ strand # <<>> /\ Head(strand) = CStep
    /\ strand' = Tail(strand)
    /\ IF IsOpen /\ closeFrame = "none"
         THEN ws' = "closing" /\ closeFrame' = "pending"
         ELSE UNCHANGED <<ws, closeFrame>>
    /\ UNCHANGED <<run, que, spawned, inflight, wire, started, sent, closes,
                   sentAtClose, wireAtClose, recv>>

(***************************************************************************)
(* The socket.                                                             *)
(***************************************************************************)

\* An async_write that holds the write block completes; its continuation
\* resumes on strand_. A write the stream accepted reaches the peer unless
\* the socket broke or the close frame went out meanwhile. Completion does
\* not resume a parked write.
WriteComplete ==
    \E op \in inflight :
        LET ok == op.ok /\ ws # "closed" /\ closeFrame # "sent"
        IN /\ ~op.parked
           /\ inflight' = inflight \ {op}
           /\ wire' = IF ok THEN Append(wire, op.m) ELSE wire
           /\ strand' = Append(strand, WDone(op.w, ok))
           /\ UNCHANGED <<run, ws, que, spawned, started, sent, closes,
                          sentAtClose, closeFrame, wireAtClose, recv>>

\* The pending close frame goes out once no accepted write holds the write
\* block (parked writes do not hold it), or is abandoned when the socket
\* broke.
CloseFrameOut ==
    /\ closeFrame = "pending"
    /\ \A op \in inflight : op.parked \/ ~op.ok
    /\ IF ws = "closed"
         THEN closeFrame' = "failed" /\ UNCHANGED wireAtClose
         ELSE closeFrame' = "sent" /\ wireAtClose' = wire
    /\ UNCHANGED <<run, ws, strand, que, spawned, inflight, wire, started, sent,
                   closes, sentAtClose, recv>>

\* The TCP connection breaks; pending and later operations fail.
SocketBreak ==
    /\ ws \in {"open", "closing"}
    /\ ws' = "closed"
    /\ UNCHANGED <<run, strand, que, spawned, inflight, wire, started, sent,
                   closes, sentAtClose, closeFrame, wireAtClose, recv>>

\* The connection is finished: run() returned and nothing can move; a
\* write still parked in op_wr_ has no read left to resume it.
Finished ==
    /\ run = "done" /\ strand = <<>> /\ ~WriteBlocked
    /\ closeFrame # "pending"
    /\ UNCHANGED vars

StrandStep ==
    \/ RunEnqueue \/ RunWriteStep \/ RunWriteDone
    \/ RunCloseStart \/ RunCloseStep

Next ==
    \/ Accept \/ OpenHandlerDone \/ ReadMessage \/ ReadError \/ CloseHandlerDone
    \/ SendMessage \/ Close
    \/ StrandStep
    \/ WriteComplete \/ CloseFrameOut \/ SocketBreak
    \/ Finished

(***************************************************************************)
(* Fairness: the thread pool keeps running strand_ work; a peer that reads *)
(* lets every write and the close frame complete; run() does not stall     *)
(* between awaits. The peer's reads, the application calls and socket      *)
(* failures carry no fairness.                                             *)
(***************************************************************************)
Fairness ==
    /\ WF_vars(StrandStep)
    /\ WF_vars(WriteComplete)
    /\ WF_vars(CloseFrameOut)
    /\ WF_vars(OpenHandlerDone)
    /\ WF_vars(CloseHandlerDone)

Spec == Init /\ [][Next]_vars /\ Fairness

-----------------------------------------------------------------------------
(***************************************************************************)
(* Properties                                                              *)
(***************************************************************************)

\* Writes are started in exactly the order send_message() was called, none
\* skipped and none repeated, however sends, the queue's writers and write
\* completions interleave on the strand (send_message posts, the lambda
\* pushes, process_write_data pops the front).
WritesStartInSendOrder ==
    started = [i \in 1..Len(started) |-> i]

\* The close frame's place among the calls: message numbers are the order
\* of send_message() calls, and close() came after the first sentAtClose.
CloseMark == 0

CallOrder ==
    IF closes = 0
      THEN [i \in 1..sent |-> i]
      ELSE [i \in 1..sentAtClose |-> i] \o <<CloseMark>>
           \o [i \in 1..(sent - sentAtClose) |-> sentAtClose + i]

\* What the peer received: the data frames, and the close frame once sent.
Received == IF closeFrame = "sent" THEN wire \o <<CloseMark>> ELSE wire

Channel == INSTANCE WsChannel WITH
    Msgs       <- Msgs,
    CloseFrame <- CloseMark,
    calls      <- CallOrder,
    out        <- Received

\* websocket_conn implements the outbound channel of spec 4.5 and 5: the
\* peer receives frames in the order send_message() and close() were
\* called, with none skipped and nothing after the close frame, however
\* the strand interleaves the enqueue lambdas, the writers, the close
\* coroutine and the write completions. It rests on one writer draining
\* the queue (send_message's empty-queue test) and on close() waiting for
\* the queue (its own strand coroutine).
ImplementsWsChannel == Channel!Spec

=============================================================================
