---------------------------- MODULE HttpExchange ----------------------------
(***************************************************************************)
(* What one HTTP/1.1 connection of the server promises its client (spec 5, *)
(* RFC 7230 6.3, 6.6), independent of how the session reads and writes:   *)
(* the server takes one request at a time, answers it before it reads the  *)
(* next, answers each request at most once and in the order read, and      *)
(* reads nothing after it has answered a request that asked to close. It   *)
(* may drop the connection at any time (errors, hand-offs, deadlines).     *)
(***************************************************************************)
EXTENDS Naturals, Sequences

CONSTANT Ids    \* what identifies a request the server has read

\* A request as read: its identity, and whether it carries
\* "Connection: close".
Msgs == [id : Ids, close : BOOLEAN]

VARIABLES
    read,       \* the requests the server has read, in order
    answered,   \* the requests it has answered, in order
    open        \* the connection is still served

vars == <<read, answered, open>>

Init ==
    /\ read = <<>>
    /\ answered = <<>>
    /\ open = TRUE

\* Every request read so far has its answer.
Idle == Len(answered) = Len(read)

\* The server reads the next request once the previous one is answered.
Receive(m) ==
    /\ open /\ Idle
    /\ read' = Append(read, m)
    /\ UNCHANGED <<answered, open>>

\* The server answers the request it read last; an answer to a request that
\* asked to close ends the connection, any other keeps it open.
Respond ==
    /\ open /\ ~Idle
    /\ LET m == read[Len(read)] IN
         /\ answered' = Append(answered, m)
         /\ open' = ~m.close
    /\ UNCHANGED read

\* The connection is dropped.
Close ==
    /\ open
    /\ open' = FALSE
    /\ UNCHANGED <<read, answered>>

Next == (\E m \in Msgs : Receive(m)) \/ Respond \/ Close

Spec == Init /\ [][Next]_vars

=============================================================================
