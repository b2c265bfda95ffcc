------------------------------- MODULE Server -------------------------------
(***************************************************************************)
(* The accept loop and the lifetime of server::impl (src/lib/server.cpp).  *)
(*                                                                         *)
(* The server object owns impl through a shared_ptr; each session          *)
(* coroutine takes another reference (shared_from_this) as its first      *)
(* statement, while do_listen and the spawned lambda capture only `this`. *)
(* ~impl runs on whichever thread drops the last reference. It destroys    *)
(* the members in reverse order of declaration: acceptor_ (the pending     *)
(* accept completes with an error), then pool_, whose destructor stops    *)
(* the pool, joins its threads and destroys the handlers still queued.    *)
(* What a session does between its start and its end is Session's.        *)
(***************************************************************************)
EXTENDS Naturals, FiniteSets

CONSTANT Conns      \* the connections clients open

VARIABLES
    main,       \* the application thread that holds the server object
    acceptor,   \* impl::acceptor_: "closed" or "open"
    listener,   \* the do_listen coroutine: "idle", "accepting", "exited"
    sess,       \* each connection's session coroutine
    impl,       \* server::impl: "alive", "dying" (~impl started), "destroyed"
    tearer      \* the thread ~impl runs on: "none", "main" or "pool"

vars == <<main, acceptor, listener, sess, impl, tearer>>

Mains == {"init", "listening", "serving", "blocked", "returned", "gone"}

\* "queued": co_spawned, not yet started; "running": holds self;
\* "dropped": destroyed unstarted, or its shared_from_this threw.
SessStates == {"none", "queued", "running", "done", "dropped"}

TypeOK ==
    /\ main \in Mains
    /\ acceptor \in {"closed", "open"}
    /\ listener \in {"idle", "accepting", "exited"}
    /\ sess \in [Conns -> SessStates]
    /\ impl \in {"alive", "dying", "destroyed"}
    /\ tearer \in {"none", "main", "pool"}

\* server::server: impl_ = make_shared<impl>; the impl constructor creates
\* the pool and a closed acceptor.
Init ==
    /\ main = "init"
    /\ acceptor = "closed"
    /\ listener = "idle"
    /\ sess = [c \in Conns |-> "none"]
    /\ impl = "alive"
    /\ tearer = "none"

\* The owners of impl: server::impl_ while the server object lives, and the
\* self of every started session.
Owners(m, s) ==
    (IF m # "gone" THEN 1 ELSE 0) + Cardinality({c \in Conns : s[c] = "running"})

\* The step that drops the last reference starts ~impl on its own thread.
Release(m, s, thread) ==
    IF Owners(m, s) = 0
      THEN impl' = "dying" /\ tearer' = thread
      ELSE UNCHANGED <<impl, tearer>>

(***************************************************************************)
(* The application thread                                                  *)
(***************************************************************************)

\* listen: resolve, open, bind, listen. A failure throws out of listen and
\* the caller's stack unwinds through ~server.
Listen ==
    /\ main = "init"
    /\ \/ main' = "listening" /\ acceptor' = "open" /\ UNCHANGED <<impl, tearer>>
       \/ main' = "gone" /\ Release("gone", sess, "main") /\ UNCHANGED acceptor
    /\ UNCHANGED <<listener, sess>>

\* async_run: co_spawn do_listen on the pool and return.
AsyncRun ==
    /\ main \in {"init", "listening"}
    /\ main' = "serving" /\ listener' = "accepting"
    /\ UNCHANGED <<acceptor, sess, impl, tearer>>

\* run: async_run, then pool_.wait() blocks the caller.
Run ==
    /\ main \in {"init", "listening"}
    /\ main' = "blocked" /\ listener' = "accepting"
    /\ UNCHANGED <<acceptor, sess, impl, tearer>>

\* pool_.wait() returns once the pool has no work: do_listen has exited and
\* no session is queued or running.
WaitReturns ==
    /\ main = "blocked"
    /\ listener = "exited"
    /\ \A c \in Conns : sess[c] \notin {"queued", "running"}
    /\ main' = "returned"
    /\ UNCHANGED <<acceptor, listener, sess, impl, tearer>>

\* ~server() {}: the server object goes, and with it impl_'s reference.
DestroyServer ==
    /\ main \in {"init", "listening", "serving", "returned"}
    /\ main' = "gone"
    /\ Release("gone", sess, "main")
    /\ UNCHANGED <<acceptor, listener, sess>>

(***************************************************************************)
(* The pool threads                                                        *)
(***************************************************************************)

\* do_listen: async_accept completes with a socket; co_spawn the session
\* lambda on the pool and accept again.
Accept(c) ==
    /\ listener = "accepting" /\ acceptor = "open" /\ impl # "destroyed"
    /\ sess[c] = "none"
    /\ sess' = [sess EXCEPT ![c] = "queued"]
    /\ UNCHANGED <<main, acceptor, listener, impl, tearer>>

\* async_accept fails (the acceptor is closed, or any error such as running
\* out of descriptors): `if (ec) co_return;` ends the accept loop.
AcceptFail ==
    /\ listener = "accepting"
    /\ listener' = "exited"
    /\ UNCHANGED <<main, acceptor, sess, impl, tearer>>

\* The session lambda starts: shared_from_this() takes a reference, or
\* throws bad_weak_ptr once ~impl has begun (the exception is dropped by
\* net::detached).
SessionStart(c) ==
    /\ sess[c] = "queued" /\ impl # "destroyed"
    /\ sess' = [sess EXCEPT ![c] = IF impl = "alive" THEN "running" ELSE "dropped"]
    /\ UNCHANGED <<main, acceptor, listener, impl, tearer>>

\* do_session returns and the coroutine frame, with self, is destroyed on
\* the pool thread that resumed it.
SessionEnd(c) ==
    /\ sess[c] = "running"
    /\ sess' = [sess EXCEPT ![c] = "done"]
    /\ Release(main, sess', "pool")
    /\ UNCHANGED <<main, acceptor, listener>>

\* ~impl: ~acceptor_ closes the socket and aborts the pending accept, then
\* ~thread_pool stops, joins and destroys the session handlers never run.
Teardown ==
    /\ impl = "dying"
    /\ impl' = "destroyed"
    /\ acceptor' = "closed"
    /\ listener' = IF listener = "accepting" THEN "exited" ELSE listener
    /\ sess' = [c \in Conns |-> IF sess[c] = "queued" THEN "dropped" ELSE sess[c]]
    /\ UNCHANGED <<main, tearer>>

Finished ==
    /\ impl = "destroyed"
    /\ UNCHANGED vars

PoolStep ==
    \/ \E c \in Conns : SessionStart(c)
    \/ Teardown \/ WaitReturns

Next ==
    \/ Listen \/ AsyncRun \/ Run \/ DestroyServer
    \/ \E c \in Conns : Accept(c) \/ SessionEnd(c)
    \/ AcceptFail \/ PoolStep \/ Finished

(* The pool runs what is posted to it; clients, errors, the application   *)
(* and the sessions' own ends carry no fairness.                           *)
Spec == Init /\ [][Next]_vars /\ WF_vars(PoolStep)

-----------------------------------------------------------------------------
(***************************************************************************)
(* Properties                                                              *)
(***************************************************************************)

\* ~impl never runs on a thread of the pool it destroys: ~thread_pool joins
\* every pool thread and destroys the scheduler that the calling thread is
\* still running in. A server destroyed while a session runs leaves the
\* last reference to that session's frame, on a pool thread.
TeardownOffPool ==
    tearer # "pool"

=============================================================================
