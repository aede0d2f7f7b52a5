--------------------------- MODULE MultiListener ---------------------------
(***************************************************************************)
(* The listener of the server (src/src/util.rs): one future that accepts   *)
(* connections from N sockets, and the wakers by which tokio has it polled *)
(* again.  A socket's readiness is set, and its waker woken and taken, by  *)
(* a new connection only (epoll is edge-triggered); the waker is           *)
(* registered when a poll finds the socket not ready.                      *)
(***************************************************************************)
EXTENDS Naturals, FiniteSetsExt

CONSTANTS
    N,               \* the number of sockets
    MaxConnections,  \* bound: connections made to each socket
    MaxErrors        \* bound: calls of accept(2) that fail

Socket == 1 .. N

VARIABLES
    backlog,   \* the connections waiting in each socket
    ready,     \* the sockets tokio holds to be ready
    wakers,    \* the sockets with a waker
    polled,    \* whether the future is about to be polled
    made,      \* the connections made to each socket so far
    errors     \* the failures so far

vars == <<backlog, ready, wakers, polled, made, errors>>

(***************************************************************************)
(* What TcpListener::poll_accept makes of a socket: it registers a waker   *)
(* if the socket is not ready, or turns out to have no connection.  When   *)
(* accept(2) fails otherwise (no file descriptor left, a connection that   *)
(* was aborted) it returns the error, still ready, without a waker.        *)
(***************************************************************************)
Waiting == {s \in ready : backlog[s] > 0}
Registered(asked) == wakers \cup (asked \ Waiting)
StillReady(asked) == ready \ (asked \ Waiting)

(***************************************************************************)
(* accept(): the sockets are asked in their order; failing are those whose *)
(* accept(2) fails, which is no reason to stop.  The first connection is   *)
(* returned, and the server calls accept() again.                          *)
(***************************************************************************)
PollAccepts ==
    /\ polled
    /\ \E s \in Waiting :
          LET before  == 1 .. s - 1
              failing == Waiting \cap before
          IN  /\ errors + Cardinality(failing) <= MaxErrors
              /\ errors' = errors + Cardinality(failing)
              /\ wakers' = Registered(before)
              /\ ready' = StillReady(before)
              /\ backlog' = [backlog EXCEPT ![s] = @ - 1]
    /\ UNCHANGED <<polled, made>>

\* No socket has a connection to return: the task is parked.
PollPends ==
    /\ polled
    /\ errors + Cardinality(Waiting) <= MaxErrors
    /\ errors' = errors + Cardinality(Waiting)
    /\ wakers' = Registered(Socket)
    /\ ready' = StillReady(Socket)
    /\ polled' = FALSE
    /\ UNCHANGED <<backlog, made>>

\* A client connects; the task is woken if it left a waker.
Connect(s) ==
    /\ made[s] < MaxConnections
    /\ made' = [made EXCEPT ![s] = @ + 1]
    /\ backlog' = [backlog EXCEPT ![s] = @ + 1]
    /\ ready' = ready \cup {s}
    /\ wakers' = wakers \ {s}
    /\ polled' = (polled \/ s \in wakers)
    /\ UNCHANGED errors

Init ==
    /\ backlog = [s \in Socket |-> 0]
    /\ ready = {}
    /\ wakers = {}
    /\ polled = TRUE
    /\ made = [s \in Socket |-> 0]
    /\ errors = 0

Next == PollAccepts \/ PollPends \/ \E s \in Socket : Connect(s)

\* A woken task is polled; nobody has to connect.
Spec == Init /\ [][Next]_vars /\ WF_vars(PollAccepts \/ PollPends)
-----------------------------------------------------------------------------
(***************************************************************************)
(* "We listen on both ports" (util.rs:39): a connection that waits in      *)
(* either socket is accepted, although connections to the other come       *)
(* first and accept(2) may fail now and then.                              *)
(***************************************************************************)
AcceptsAll == \A s \in Socket : backlog[s] > 0 ~> backlog[s] = 0
=============================================================================
