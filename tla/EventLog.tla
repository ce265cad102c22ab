------------------------------ MODULE EventLog ------------------------------
(***************************************************************************)
(* What the dispatch of market events promises, without workers, sessions, *)
(* hubs, queues or replays: the events of committed transactions enter one *)
(* log, always behind everything that is in it, and every client reads the *)
(* part of the log that concerns it from where it joined, in order, every  *)
(* entry once and none left out.                                           *)
(***************************************************************************)
EXTENDS Integers, Sequences

CONSTANTS
    Events,     \* outbox rows
    Clients,    \* SSE clients
    Follows,    \* the events that concern a client's organization
    NoPlace     \* the place of a client that has been sent nothing

VARIABLES
    committed,  \* events whose transaction has committed
    log,        \* the number of an event in the log, 0 for none
    start,      \* where a client joined
    place,      \* the number a client has read up to
    got         \* the numbers a client was sent, in this order

logVars == <<committed, log, start, place, got>>

LogInit ==
    /\ committed = {}
    /\ log = [e \in Events |-> 0]
    /\ start = [c \in Clients |-> 0]
    /\ place = [c \in Clients |-> NoPlace]
    /\ got = [c \in Clients |-> <<>>]

Record(e) ==
    /\ e \notin committed
    /\ committed' = committed \union {e}
    /\ UNCHANGED <<log, start, place, got>>

Logged(e) == log[e] = 0 /\ log'[e] # 0

\* Any number of recorded events enter the log, each behind all of it.
Extend ==
    /\ log' \in [Events -> Nat]
    /\ \A e \in Events :
          /\ log[e] # 0 => log'[e] = log[e]
          /\ Logged(e) => e \in committed /\ \A f \in Events \ {e} : log[f] < log'[e] /\ log'[f] # log'[e]
    /\ UNCHANGED <<committed, start, place, got>>

\* A client that has been sent nothing joins, not beyond the end of the log.
Join(c) ==
    /\ place[c] = NoPlace
    /\ \E k \in {0} \union UNION {0 .. log[e] : e \in Events} : start' = [start EXCEPT ![c] = k]
    /\ UNCHANGED <<committed, log, place, got>>

\* What the log holds for the client and it has not been sent.
Ahead(c) == {log[e] : e \in {f \in Follows[c] : log[f] > start[c] /\ log[f] > place[c]}}

\* The client is sent the next entry that concerns it.
Deliver(c) ==
    \E n \in Ahead(c) :
        /\ \A m \in Ahead(c) : n <= m
        /\ place' = [place EXCEPT ![c] = n]
        /\ got' = [got EXCEPT ![c] = Append(@, n)]
        /\ UNCHANGED <<committed, log, start>>

LogNext ==
    \/ Extend
    \/ \E e \in Events : Record(e)
    \/ \E c \in Clients : Join(c) \/ Deliver(c)

LogSpec == LogInit /\ [][LogNext]_logVars
=============================================================================
