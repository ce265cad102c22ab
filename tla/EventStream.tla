---------------------------- MODULE EventStream ----------------------------
(***************************************************************************)
(* Durable dispatch of market events to server-sent-event streams.         *)
(*                                                                         *)
(* Producers insert outbox rows inside their own transactions.  One worker *)
(* at a time, elected by a session-level advisory lock, gives committed    *)
(* rows their stream_seq.  Every worker's hub reads the rows beyond its    *)
(* cursor and fans them out to the queues of the clients connected to it.  *)
(* A reconnecting client replays from the outbox first.                    *)
(*                                                                         *)
(* A database session can outlive its client: a worker that has lost its   *)
(* connection opens another one while the old session may still hold the   *)
(* lock and run its statement.  NOTIFY and the poll timeout only decide    *)
(* when a loop runs again, so a loop step may happen at any time.          *)
(*                                                                         *)
(* Hubs publish in ascending stream_seq, so a subscriber's FIFO queue is   *)
(* the set of sequence numbers in it, taken in ascending order.            *)
(***************************************************************************)
EXTENDS Integers, FiniteSets, Sequences, Functions

CONSTANTS
    Workers,        \* web workers
    Events,         \* bound: outbox rows, numbered in the order of created_at
    Clients,        \* SSE clients of /api/stream/trades
    Orgs,           \* organizations
    OrgOf,          \* the organization of a client's stream token
    Participants,   \* participant_org_ids of an event
    Marked,         \* events that carry the public invalidation marker
    BatchSize,      \* _BATCH_SIZE, of the sequencer, the hub and a replay page
    QueueSize,      \* SUBSCRIBER_QUEUE_SIZE
    MaxFaults,      \* bound: crashes, lost connections, failed reads and drops
    NoWorker        \* no worker

ASSUME StreamConstants ==
    /\ Events \subseteq Nat \ {0} /\ IsFiniteSet(Events)
    /\ IsFiniteSet(Workers) /\ NoWorker \notin Workers
    /\ OrgOf \in [Clients -> Orgs]
    /\ Participants \in [Events -> SUBSET Orgs]
    /\ Marked \subseteq Events
    /\ BatchSize \in Nat \ {0} /\ QueueSize \in Nat \ {0} /\ MaxFaults \in Nat

\* Bound: one session per worker and one more for every fault.
Sessions == 1 .. (Cardinality(Workers) + MaxFaults)
NoSession == 0
NoEventId == -1
Unsequenced == 0

VARIABLES
    row,        \* outbox rows: transaction state of each event
    seq,        \* stream_seq, Unsequenced for NULL
    last,       \* last value drawn from market_event_stream_seq
    session,    \* server side of the listener connections
    lock,       \* session that holds the sequencer advisory lock
    claim,      \* sequence numbers an uncommitted assignment has given
    up,         \* workers whose process runs
    conn,       \* _listener_conn of a worker, as the worker knows it
    leader,     \* workers with _is_leader set
    cursor,     \* hub cursor
    batch,      \* sequence numbers the hub has read and not yet published
    drain,      \* where the hub is in _drain_new_events
    marked,     \* workers whose drain has seen a marker
    owed,       \* history: marked rows published in this drain and not yet announced
    phase,      \* where a client's stream is
    home,       \* the worker a client is connected to
    acked,      \* Last-Event-ID of a client, and its generator's cursor
    high,       \* replay high-water mark
    page,       \* rows fetched for replay and not yet sent
    backlog,    \* messages taken off the queue when replay ended
    queue,      \* subscriber queue
    reset,      \* clients whose queue was terminated for overflow
    base,       \* history: hub cursor when the client first subscribed
    received,   \* history: sequence numbers a client was sent, in this order
    faults      \* bound: faults so far

outbox == <<row, seq, last>>
server == <<session, lock, claim>>
process == <<up, conn, leader>>
hub == <<cursor, batch, drain, marked, owed>>
stream == <<phase, home, acked, high, page, backlog, queue, reset, base, received>>
vars == <<row, seq, last, session, lock, claim, up, conn, leader, cursor, batch, drain,
          marked, owed, phase, home, acked, high, page, backlog, queue, reset, base,
          received, faults>>

Init ==
    /\ row = [e \in Events |-> "NONE"]
    /\ seq = [e \in Events |-> Unsequenced]
    /\ last = 0
    /\ session = [s \in Sessions |-> "UNUSED"]
    /\ lock = NoSession
    /\ claim = [s \in Sessions |-> [e \in Events |-> Unsequenced]]
    /\ up = {}
    /\ conn = [w \in Workers |-> NoSession]
    /\ leader = {}
    /\ cursor = [w \in Workers |-> 0]
    /\ batch = [w \in Workers |-> {}]
    /\ drain = [w \in Workers |-> "IDLE"]
    /\ marked = {}
    /\ owed = [w \in Workers |-> {}]
    /\ phase = [c \in Clients |-> "OFF"]
    /\ home = [c \in Clients |-> NoWorker]
    /\ acked = [c \in Clients |-> NoEventId]
    /\ high = [c \in Clients |-> 0]
    /\ page = [c \in Clients |-> {}]
    /\ backlog = [c \in Clients |-> {}]
    /\ queue = [c \in Clients |-> {}]
    /\ reset = {}
    /\ base = [c \in Clients |-> 0]
    /\ received = [c \in Clients |-> <<>>]
    /\ faults = 0

-----------------------------------------------------------------------------
(* Helpers *)

Visible == {seq[e] : e \in Events} \ {Unsequenced}
VisibleTo(g) == {seq[e] : e \in {f \in Events : g \in Participants[f]}} \ {Unsequenced}

\* COALESCE(MAX(stream_seq), 0)
MaxVisible == IF Visible = {} THEN 0 ELSE CHOOSE n \in Visible : \A m \in Visible : m <= n

\* ORDER BY ... LIMIT k
Lowest(S, k) == {n \in S : Cardinality({m \in S : m < n}) < k}
Least(S) == CHOOSE n \in S : \A m \in S : n <= m

Fault == faults < MaxFaults /\ faults' = faults + 1

-----------------------------------------------------------------------------
(* Producers: enqueue_market_events, and the commit or rollback that follows. *)

Enqueue(e) ==
    /\ row[e] = "NONE"
    /\ \A f \in Events : f < e => row[f] # "NONE"
    /\ row' = [row EXCEPT ![e] = "OPEN"]
    /\ UNCHANGED <<seq, last, server, process, hub, stream, faults>>

CommitEvent(e) ==
    /\ row[e] = "OPEN"
    /\ row' = [row EXCEPT ![e] = "COMMITTED"]
    /\ UNCHANGED <<seq, last, server, process, hub, stream, faults>>

RollbackEvent(e) ==
    /\ row[e] = "OPEN"
    /\ row' = [row EXCEPT ![e] = "GONE"]
    /\ UNCHANGED <<seq, last, server, process, hub, stream, faults>>

-----------------------------------------------------------------------------
(* Workers and their listener connections *)

FreshSession(s) == session[s] = "UNUSED" /\ \A r \in Sessions : r < s => session[r] # "UNUSED"

\* start(): the hub begins at the current maximum, then the listener connects.
Start(w, s) ==
    /\ w \notin up
    /\ FreshSession(s)
    /\ up' = up \union {w}
    /\ session' = [session EXCEPT ![s] = "LIVE"]
    /\ conn' = [conn EXCEPT ![w] = s]
    /\ cursor' = [cursor EXCEPT ![w] = MaxVisible]
    /\ UNCHANGED <<outbox, lock, claim, leader, batch, drain, marked, owed, stream, faults>>

\* Fault: the flag survives the session that earned it.
StepsDown_Stays(w) == leader
\* _ensure_listener clears _is_leader before it opens a new session.
StepsDown(w) == leader \ {w}

Reconnect(w, s) ==
    /\ w \in up
    /\ conn[w] = NoSession
    /\ FreshSession(s)
    /\ session' = [session EXCEPT ![s] = "LIVE"]
    /\ conn' = [conn EXCEPT ![w] = s]
    /\ leader' = StepsDown(w)
    /\ UNCHANGED <<outbox, lock, claim, up, hub, stream, faults>>

\* The worker finds its connection closed; the server may not know yet.
LoseConnection(w) ==
    /\ conn[w] # NoSession
    /\ conn' = [conn EXCEPT ![w] = NoSession]
    /\ IF session[conn[w]] = "GONE" THEN faults' = faults ELSE Fault
    /\ UNCHANGED <<outbox, server, up, leader, hub, stream>>

\* Fault: the assignment ran on a pool connection and is still in flight.
AbortClaim_InFlight(s) == claim
\* A session that ends takes its open statement with it ...
AbortClaim(s) == [claim EXCEPT ![s] = [e \in Events |-> Unsequenced]]
\* Fault: the lock outlives the session.
ReleaseLock_Kept(s) == lock
\* ... and its advisory lock.
ReleaseLock(s) == IF lock = s THEN NoSession ELSE lock

EndSession(s) ==
    /\ session[s] = "LIVE"
    /\ session' = [session EXCEPT ![s] = "GONE"]
    /\ claim' = AbortClaim(s)
    /\ lock' = ReleaseLock(s)
    /\ IF \E w \in Workers : conn[w] = s THEN Fault ELSE faults' = faults
    /\ UNCHANGED <<outbox, process, hub, stream>>

\* A worker process dies with its hub and its streams.
Crash(w) ==
    LET lost == {c \in Clients : home[c] = w}
    IN  /\ w \in up
        /\ Fault
        /\ up' = up \ {w}
        /\ conn' = [conn EXCEPT ![w] = NoSession]
        /\ leader' = leader \ {w}
        /\ batch' = [batch EXCEPT ![w] = {}]
        /\ drain' = [drain EXCEPT ![w] = "IDLE"]
        /\ marked' = marked \ {w}
        /\ owed' = [owed EXCEPT ![w] = {}]
        /\ phase' = [c \in Clients |-> IF c \in lost THEN "OFF" ELSE phase[c]]
        /\ home' = [c \in Clients |-> IF c \in lost THEN NoWorker ELSE home[c]]
        /\ UNCHANGED <<outbox, server, cursor, acked, high, page, backlog, queue, reset, base, received>>

-----------------------------------------------------------------------------
(* The sequencer *)

\* _try_acquire_leadership
AcquireLeadership(w) ==
    /\ conn[w] # NoSession
    /\ w \notin leader
    /\ session[conn[w]] = "LIVE"
    /\ lock = NoSession
    /\ lock' = conn[w]
    /\ leader' = leader \union {w}
    /\ UNCHANGED <<outbox, session, claim, up, conn, hub, stream, faults>>

\* _assign_pending_sequences: the statement locks the oldest committed rows
\* that have no number and draws numbers for them.  The join of the UPDATE
\* does not fix which row of the batch draws first.
AssignPending(w) ==
    LET s == conn[w]
        pending == {e \in Events : /\ row[e] = "COMMITTED" /\ seq[e] = Unsequenced
                                   /\ \A r \in Sessions : claim[r][e] = Unsequenced}
        rows == Lowest(pending, BatchSize)
    IN  /\ w \in leader
        /\ s # NoSession
        /\ session[s] = "LIVE"
        /\ claim[s] = [e \in Events |-> Unsequenced]
        /\ rows # {}
        /\ last' = last + Cardinality(rows)
        /\ \E draw \in [rows -> (last + 1) .. last'] :
              /\ \A e, f \in rows : draw[e] = draw[f] => e = f
              /\ claim' = [claim EXCEPT ![s] = [e \in Events |-> IF e \in rows THEN draw[e] ELSE Unsequenced]]
        /\ UNCHANGED <<row, seq, session, lock, process, hub, stream, faults>>

\* The statement commits, whether or not its client is still there.
CommitAssignment(s) ==
    /\ claim[s] # [e \in Events |-> Unsequenced]
    /\ seq' = [e \in Events |-> IF claim[s][e] # Unsequenced THEN claim[s][e] ELSE seq[e]]
    /\ claim' = [claim EXCEPT ![s] = [e \in Events |-> Unsequenced]]
    /\ UNCHANGED <<row, last, session, lock, process, hub, stream, faults>>

-----------------------------------------------------------------------------
(* The hub *)

\* Fault: the row right after the cursor is skipped.
Unread_SkipsNext(w) == {n \in Visible : n > cursor[w] + 1}
Unread(w) == {n \in Visible : n > cursor[w]}

\* _drain_new_events reads the next rows and gives its connection back, which
\* lets other tasks run before the rows are published.
HubRead(w) ==
    /\ w \in up
    /\ drain[w] \in {"IDLE", "MORE"}
    /\ batch' = [batch EXCEPT ![w] = Lowest(Unread(w), BatchSize)]
    /\ drain' = [drain EXCEPT ![w] = "READ"]
    /\ UNCHANGED <<outbox, server, process, cursor, marked, owed, stream, faults>>

\* The read of a further batch raises; _hub_loop logs it and starts a new drain,
\* which knows nothing of the markers behind the cursor.
HubReadFails(w) ==
    /\ drain[w] = "MORE"
    /\ Fault
    /\ drain' = [drain EXCEPT ![w] = "IDLE"]
    /\ marked' = marked \ {w}
    /\ owed' = [owed EXCEPT ![w] = {}]
    /\ UNCHANGED <<outbox, server, process, cursor, batch, stream>>

\* Fault: a full queue drops its oldest messages and the subscriber is not told.
Enqueued_DropsOldest(c, new) ==
    LET all == queue[c] \union new
    IN  [queue |-> {n \in all : Cardinality({m \in all : m > n}) < QueueSize}, reset |-> FALSE]
\* EventBus.publish of the messages new, one by one: the message that finds
\* the queue full terminates it.
Enqueued(c, new) ==
    IF Cardinality(queue[c] \union new) <= QueueSize
    THEN [queue |-> queue[c] \union new, reset |-> FALSE]
    ELSE [queue |-> {}, reset |-> TRUE]

\* Fault: only the markers of the last batch count.
Announces_LastBatch(w, seen, full) == ~full /\ seen # {}
\* A short batch ends the drain, with an announcement if any batch had a marker.
Announces(w, seen, full) == ~full /\ (w \in marked \/ seen # {})

\* The batch is published without giving up the event loop, and the cursor
\* follows.
HubFanOut(w) ==
    LET New(c) == {n \in batch[w] : n \in VisibleTo(OrgOf[c])}
        audience == {c \in Clients \ reset : home[c] = w /\ New(c) # {}}
        seen == {n \in batch[w] : \E e \in Marked : seq[e] = n}
        full == Cardinality(batch[w]) >= BatchSize
    IN  /\ drain[w] = "READ"
        /\ queue' = [c \in Clients |-> IF c \in audience THEN Enqueued(c, New(c)).queue ELSE queue[c]]
        /\ reset' = reset \union {c \in audience : Enqueued(c, New(c)).reset}
        /\ cursor' = [cursor EXCEPT ![w] = IF batch[w] = {} THEN @
                                           ELSE CHOOSE n \in batch[w] : \A m \in batch[w] : m <= n]
        /\ batch' = [batch EXCEPT ![w] = {}]
        /\ drain' = [drain EXCEPT ![w] = IF full THEN "MORE" ELSE "IDLE"]
        /\ marked' = IF full /\ seen # {} THEN marked \union {w}
                     ELSE IF full THEN marked ELSE marked \ {w}
        /\ owed' = [owed EXCEPT ![w] = IF Announces(w, seen, full) THEN {} ELSE @ \union seen]
        /\ UNCHANGED <<outbox, server, process, phase, home, acked, high, page, backlog,
                       base, received, faults>>

-----------------------------------------------------------------------------
(* Client streams: _private_sse_generator and _private_sse_messages *)

\* The generator subscribes first.  Without a Last-Event-ID there is no
\* replay, and the stream starts with what the hub publishes from now on.
Subscribe(c, w) ==
    /\ phase[c] = "OFF"
    /\ w \in up
    /\ home' = [home EXCEPT ![c] = w]
    /\ phase' = [phase EXCEPT ![c] = IF acked[c] = NoEventId THEN "DRAIN" ELSE "SUBSCRIBED"]
    /\ base' = [base EXCEPT ![c] = IF acked[c] = NoEventId THEN cursor[w] ELSE @]
    /\ queue' = [queue EXCEPT ![c] = {}]
    /\ backlog' = [backlog EXCEPT ![c] = {}]
    /\ page' = [page EXCEPT ![c] = {}]
    /\ reset' = reset \ {c}
    /\ UNCHANGED <<outbox, server, process, hub, acked, high, received, faults>>

\* fetch_replay_high_water
CaptureHighWater(c) ==
    /\ phase[c] = "SUBSCRIBED"
    /\ high' = [high EXCEPT ![c] = MaxVisible]
    /\ phase' = [phase EXCEPT ![c] = "REPLAY"]
    /\ UNCHANGED <<outbox, server, process, hub, home, acked, page, backlog, queue, reset,
                   base, received, faults>>

\* fetch_events_for_org: the next page up to the mark; replay ends when the
\* cursor has reached the mark or there is nothing left.
Missed(c) == {n \in VisibleTo(OrgOf[c]) : n > acked[c] /\ n <= high[c]}

FetchPage(c) ==
    LET missed == IF acked[c] < high[c] THEN Lowest(Missed(c), BatchSize) ELSE {}
    IN  /\ phase[c] = "REPLAY"
        /\ c \notin reset
        /\ page[c] = {}
        /\ page' = [page EXCEPT ![c] = missed]
        /\ phase' = [phase EXCEPT ![c] = IF missed = {} THEN "DRAIN" ELSE "REPLAY"]
        /\ UNCHANGED <<outbox, server, process, hub, home, acked, high, backlog, queue, reset,
                       base, received, faults>>

Send(c, n) ==
    /\ acked' = [acked EXCEPT ![c] = n]
    /\ received' = [received EXCEPT ![c] = Append(@, n)]

ReplayNext(c) ==
    /\ phase[c] = "REPLAY"
    /\ c \notin reset
    /\ page[c] # {}
    /\ Send(c, Least(page[c]))
    /\ page' = [page EXCEPT ![c] = @ \ {Least(page[c])}]
    /\ UNCHANGED <<outbox, server, process, hub, phase, home, high, backlog, queue, reset,
                   base, faults>>

\* Fault: the queue is thrown away because replay has covered it.
Drained_Discarded(c) == {}
\* The messages that arrived during replay, in sequence order.
Drained(c) == queue[c]

GoLive(c) ==
    /\ phase[c] = "DRAIN"
    /\ backlog' = [backlog EXCEPT ![c] = Drained(c)]
    /\ queue' = [queue EXCEPT ![c] = {}]
    /\ phase' = [phase EXCEPT ![c] = "LIVE"]
    /\ UNCHANGED <<outbox, server, process, hub, home, acked, high, page, reset, base,
                   received, faults>>

\* Fault: what replay has covered is sent again.
AlreadySent_Forgotten(c, n) == FALSE
AlreadySent(c, n) == n <= acked[c]

\* One message of the backlog or, when that is empty, of the queue; one that
\* replay has already sent is skipped.
LiveNext(c) ==
    LET n == Least(IF backlog[c] # {} THEN backlog[c] ELSE queue[c])
    IN  /\ phase[c] = "LIVE"
        /\ backlog[c] # {} \/ queue[c] # {}
        /\ IF AlreadySent(c, n) THEN UNCHANGED <<acked, received>> ELSE Send(c, n)
        /\ IF backlog[c] # {}
           THEN backlog' = [backlog EXCEPT ![c] = @ \ {n}] /\ queue' = queue
           ELSE queue' = [queue EXCEPT ![c] = @ \ {n}] /\ backlog' = backlog
        /\ UNCHANGED <<outbox, server, process, hub, phase, home, high, page, reset, base, faults>>

Close(c) ==
    /\ phase' = [phase EXCEPT ![c] = "OFF"]
    /\ home' = [home EXCEPT ![c] = NoWorker]
    /\ UNCHANGED <<outbox, server, process, hub, acked, high, page, backlog, queue, reset,
                   base, received>>

\* The terminal reset frame: at once during replay, after the backlog later.
SendReset(c) ==
    /\ c \in reset
    /\ \/ phase[c] = "REPLAY"
       \/ phase[c] = "LIVE" /\ backlog[c] = {}
    /\ Close(c)
    /\ faults' = faults

\* The stream ends for any other reason: the client leaves, its token expires
\* or its authorization is withdrawn, or the replay query fails.
Disconnect(c) ==
    /\ phase[c] # "OFF"
    /\ Close(c)
    /\ Fault

-----------------------------------------------------------------------------

Produce == \E e \in Events : Enqueue(e) \/ CommitEvent(e) \/ RollbackEvent(e)

Connections ==
    \/ \E w \in Workers, s \in Sessions : Start(w, s) \/ Reconnect(w, s)
    \/ \E w \in Workers : LoseConnection(w) \/ Crash(w)
    \/ \E s \in Sessions : EndSession(s)

Sequencer ==
    \/ \E w \in Workers : AcquireLeadership(w) \/ AssignPending(w)
    \/ \E s \in Sessions : CommitAssignment(s)

Hubs == \E w \in Workers : HubRead(w) \/ HubReadFails(w) \/ HubFanOut(w)

Streams ==
    \/ \E c \in Clients, w \in Workers : Subscribe(c, w)
    \/ \E c \in Clients : \/ CaptureHighWater(c) \/ FetchPage(c) \/ ReplayNext(c) \/ GoLive(c)
                          \/ LiveNext(c) \/ SendReset(c) \/ Disconnect(c)

Next == Produce \/ Connections \/ Sequencer \/ Hubs \/ Streams

Spec == Init /\ [][Next]_vars

\* Workers are restarted by their supervisor, both loops of a running worker
\* keep running (the poll timeout ends every wait), PostgreSQL ends statements
\* and notices sessions whose client is gone, and a connected stream's
\* generator keeps running.  Nothing is assumed of producers, faults or of
\* clients that are not connected.
Progress(w) ==
    /\ WF_vars(\E s \in Sessions : Start(w, s) \/ Reconnect(w, s))
    /\ WF_vars(conn[w] # NoSession /\ session[conn[w]] = "GONE" /\ LoseConnection(w))
    /\ WF_vars(AcquireLeadership(w))
    /\ WF_vars(AssignPending(w))
    /\ WF_vars(HubRead(w) \/ HubFanOut(w))
StreamStep(c) == CaptureHighWater(c) \/ FetchPage(c) \/ ReplayNext(c) \/ GoLive(c) \/ LiveNext(c) \/ SendReset(c)
FairSpec ==
    /\ Spec
    /\ \A w \in Workers : Progress(w)
    /\ \A s \in Sessions : /\ WF_vars(CommitAssignment(s))
                           /\ WF_vars((\A w \in Workers : conn[w] # s) /\ EndSession(s))
    /\ \A c \in Clients : WF_vars(StreamStep(c))

-----------------------------------------------------------------------------
(* Properties *)

TypeOK ==
    /\ row \in [Events -> {"NONE", "OPEN", "COMMITTED", "GONE"}]
    /\ seq \in [Events -> Nat]
    /\ last \in Nat
    /\ session \in [Sessions -> {"UNUSED", "LIVE", "GONE"}]
    /\ lock \in Sessions \union {NoSession}
    /\ claim \in [Sessions -> [Events -> Nat]]
    /\ up \subseteq Workers
    /\ conn \in [Workers -> Sessions \union {NoSession}]
    /\ leader \subseteq Workers
    /\ cursor \in [Workers -> Nat]
    /\ batch \in [Workers -> SUBSET Nat]
    /\ drain \in [Workers -> {"IDLE", "READ", "MORE"}]
    /\ marked \subseteq Workers
    /\ owed \in [Workers -> SUBSET Nat]
    /\ phase \in [Clients -> {"OFF", "SUBSCRIBED", "REPLAY", "DRAIN", "LIVE"}]
    /\ home \in [Clients -> Workers \union {NoWorker}]
    /\ acked \in [Clients -> Nat \union {NoEventId}]
    /\ high \in [Clients -> Nat]
    /\ page \in [Clients -> SUBSET Nat]
    /\ backlog \in [Clients -> SUBSET Nat]
    /\ queue \in [Clients -> SUBSET Nat]
    /\ reset \subseteq Clients
    /\ base \in [Clients -> Nat]
    /\ received \in [Clients -> Seq(Nat)]
    /\ faults \in Nat

\* The leadership fence: an assignment that may still commit holds the lock,
\* so a successor of a dead or unreachable leader never assigns beside it.
AssignmentFenced ==
    \A s \in Sessions : claim[s] # [e \in Events |-> Unsequenced] => lock = s /\ session[s] = "LIVE"

\* "The visible maximum sequence only ever grows": whatever sessions die,
\* linger or are replaced, a row never becomes visible behind a row that a
\* hub may already have read, and no two rows get the same number.
VisibleMaxGrows ==
    [][\A e, f \in Events : seq[e] = Unsequenced /\ seq'[e] # Unsequenced /\ e # f =>
          /\ seq[f] < seq'[e]
          /\ seq'[f] # seq'[e]]_vars

Ascending(s) == \A i, j \in DOMAIN s : i < j => s[i] < s[j]

\* A stream has no holes: a client that has acknowledged up to some id was
\* sent every event of its organization from its first connection up to that
\* id, once and in order, across reconnections to any worker, replays and
\* overflows.
NoGap ==
    \A c \in Clients :
        /\ Ascending(received[c])
        /\ Range(received[c]) = {n \in VisibleTo(OrgOf[c]) : n > base[c] /\ n <= acked[c]}

\* What the dispatch promises, see EventLog.
Log == INSTANCE EventLog WITH
    committed <- {e \in Events : row[e] = "COMMITTED"}, log <- seq, start <- base, place <- acked,
    got <- received, Follows <- [c \in Clients |-> {e \in Events : OrgOf[c] \in Participants[e]}],
    NoPlace <- NoEventId

\* Sequencer, hubs, queues and replays implement one log of the committed
\* events that every client reads in order, each entry once: no crash, late
\* commit, overflow or reconnection makes a stream repeat, reorder or leave
\* out an event, or carry one of a transaction that was rolled back.
FollowsLog == Log!LogSpec

\* Nothing slips between replay and live delivery: an event of the client's
\* organization that a connected stream has not sent is still ahead of its
\* hub, in its queue, or in the part of the outbox it will replay.
NothingSlips ==
    \A c \in Clients : phase[c] # "OFF" /\ c \notin reset =>
        \A n \in VisibleTo(OrgOf[c]) : n > acked[c] /\ n > base[c] =>
            \/ n > cursor[home[c]]
            \/ n \in queue[c] \union backlog[c]
            \/ phase[c] = "SUBSCRIBED"
            \/ phase[c] = "REPLAY" /\ n <= high[c]

\* Every committed event gets a sequence number although the leader may die,
\* lose its connection or be replaced at any point.
EventuallySequenced ==
    \A e \in Events : (row[e] = "COMMITTED") ~> (seq[e] # Unsequenced)

\* A sequenced event reaches every client of its organization that stays
\* connected: it is sent, or the stream is closed.
DeliveredOrClosed ==
    \A e \in Events, c \in Clients :
        (seq[e] # Unsequenced /\ OrgOf[c] \in Participants[e] /\ phase[c] # "OFF")
            ~> (seq[e] \in Range(received[c]) \/ seq[e] <= base[c] \/ phase[c] = "OFF")

\* "After it drains all currently sequenced rows, it coalesces one or more
\* markers into one market_invalidated event": a hub that has finished a drain
\* has announced every marked row of it, also one of an earlier batch.
MarkersAnnounced == \A w \in up : drain[w] = "IDLE" => owed[w] = {}
=============================================================================
