--------------------------- MODULE StreamProofs ---------------------------
(***************************************************************************)
(* The event pipeline, for any number of workers, clients, events and      *)
(* faults: the leadership fence of the sequencer, the markers announced    *)
(* with the events that need them, and what a stream delivers, namely no   *)
(* hole in what a client was sent and nothing lost between replay and live *)
(* delivery.  Delivery rests on the sequencer's invariant Inv: numbers     *)
(* become visible in ascending order.                                      *)
(***************************************************************************)
EXTENDS EventStream, FiniteSetTheorems, WellFoundedInduction, TLAPS

-----------------------------------------------------------------------------
(* The sequencer and its markers *)

Empty == [e \in Events |-> Unsequenced]

\* The types of the variables the sequencer reads and writes.
SequencerTyped ==
    /\ seq \in [Events -> Nat]
    /\ last \in Nat
    /\ session \in [Sessions -> {"UNUSED", "LIVE", "GONE"}]
    /\ lock \in Sessions \union {NoSession}
    /\ claim \in [Sessions -> [Events -> Nat]]
    /\ conn \in [Workers -> Sessions \union {NoSession}]
    /\ leader \subseteq up

\* A worker that believes it leads does, unless its session has ended.
LeaderHoldsLock ==
    \A w \in Workers : w \in leader /\ conn[w] # NoSession /\ session[conn[w]] = "LIVE" => lock = conn[w]

\* Only a running worker has a connection, to a session that was opened, and the lock belongs
\* to a session that has not ended.
ConnectionsOpened == \A w \in Workers : conn[w] # NoSession => w \in up /\ session[conn[w]] # "UNUSED"
LockLive == lock # NoSession => session[lock] = "LIVE"

\* Drawn numbers are new: above every number already visible, and distinct.
NumbersFresh ==
    /\ \A e \in Events : seq[e] <= last
    /\ \A s \in Sessions, e, f \in Events : claim[s][e] # Unsequenced =>
          /\ claim[s][e] <= last
          /\ seq[e] = Unsequenced
          /\ seq[f] < claim[s][e]
          /\ claim[s][f] = claim[s][e] => e = f

Inv == SequencerTyped /\ AssignmentFenced /\ LeaderHoldsLock /\ ConnectionsOpened /\ LockLive /\ NumbersFresh

LEMMA InvInit == Init => Inv
<1> SUFFICES ASSUME Init PROVE Inv
  OBVIOUS
<1>1. NoSession \notin Sessions
  BY DEF NoSession, Sessions
<1> QED BY <1>1 DEF Init, Inv, SequencerTyped, AssignmentFenced, LeaderHoldsLock, ConnectionsOpened,
           LockLive, NumbersFresh, Unsequenced, NoSession

\* A step of the sequencer loop keeps the fence.
LEMMA AssignInv == ASSUME Inv, NEW w \in Workers, AssignPending(w) PROVE Inv'
<1> DEFINE s == conn[w]
           pending == {e \in Events : /\ row[e] = "COMMITTED" /\ seq[e] = Unsequenced
                                      /\ \A r \in Sessions : claim[r][e] = Unsequenced}
           rows == Lowest(pending, BatchSize)
<1>1. /\ s \in Sessions /\ session[s] = "LIVE" /\ claim[s] = Empty
      /\ lock = s
  BY DEF AssignPending, Inv, SequencerTyped, LeaderHoldsLock, Empty
<1>2. rows \subseteq pending
  BY DEF Lowest
<1>3. Cardinality(rows) \in Nat
  <2>1. IsFiniteSet(rows)
    BY <1>2, StreamConstants, FS_Subset
  <2> QED BY <2>1, FS_CardinalityType
<1>4. last' = last + Cardinality(rows)
  BY DEF AssignPending
<1>5. last' \in Nat /\ last <= last'
  BY <1>3, <1>4 DEF Inv, SequencerTyped
<1>6. PICK draw \in [rows -> (last + 1) .. last'] :
         /\ \A e, f \in rows : draw[e] = draw[f] => e = f
         /\ claim' = [claim EXCEPT ![s] = [e \in Events |-> IF e \in rows THEN draw[e] ELSE Unsequenced]]
  BY DEF AssignPending
<1>7. UNCHANGED <<seq, session, lock, conn, leader, up>>
  BY DEF AssignPending, process
<1> HIDE DEF rows
<1>8. \A e \in rows : draw[e] \in Nat /\ draw[e] > last /\ draw[e] <= last'
  BY <1>5, <1>6 DEF Inv, SequencerTyped
<1>9. claim' \in [Sessions -> [Events -> Nat]]
  BY <1>1, <1>6, <1>8 DEF Inv, SequencerTyped, Unsequenced
<1>10. \A e \in Events : claim'[s][e] = IF e \in rows THEN draw[e] ELSE Unsequenced
  BY <1>1, <1>6 DEF Inv, SequencerTyped
<1>11. \A r \in Sessions : r # s => claim'[r] = claim[r]
  BY <1>6 DEF Inv, SequencerTyped
<1>12. \A r \in Sessions : r # s => claim[r] = Empty
  BY <1>1 DEF Inv, AssignmentFenced, Empty
<1>13. AssignmentFenced'
  BY <1>1, <1>7, <1>11, <1>12 DEF AssignmentFenced, Empty
<1>14. NumbersFresh'
  <2>1. ASSUME NEW e \in Events PROVE (seq[e] <= last)'
    BY <1>5, <1>7 DEF Inv, SequencerTyped, NumbersFresh
  <2>2. ASSUME NEW r \in Sessions, NEW e \in Events, NEW f \in Events, claim'[r][e] # Unsequenced
        PROVE  /\ claim'[r][e] <= last'
               /\ seq'[e] = Unsequenced
               /\ seq'[f] < claim'[r][e]
               /\ claim'[r][f] = claim'[r][e] => e = f
    <3>1. r = s
      BY <1>11, <1>12, <2>2 DEF Empty
    <3>2. e \in rows /\ claim'[r][e] = draw[e]
      BY <1>10, <2>2, <3>1
    <3>3. seq[e] = Unsequenced
      BY <1>2, <3>2
    <3>4. seq[f] <= last /\ seq[f] \in Nat /\ last \in Nat
      BY DEF Inv, SequencerTyped, NumbersFresh
    <3>5. claim'[r][f] = claim'[r][e] => f \in rows
      BY <1>10, <2>2, <3>1
    <3> QED BY <1>5, <1>6, <1>7, <1>8, <1>10, <3>1, <3>2, <3>3, <3>4, <3>5
  <2> QED BY <2>1, <2>2 DEF NumbersFresh
<1> QED BY <1>5, <1>7, <1>9, <1>13, <1>14
        DEF Inv, SequencerTyped, LeaderHoldsLock, ConnectionsOpened, LockLive

LEMMA CommitInv == ASSUME Inv, NEW s \in Sessions, CommitAssignment(s) PROVE Inv'
<1>1. claim[s] # Empty /\ lock = s
  BY DEF CommitAssignment, Inv, AssignmentFenced, Empty
<1>2. /\ seq' = [e \in Events |-> IF claim[s][e] # Unsequenced THEN claim[s][e] ELSE seq[e]]
      /\ claim' = [claim EXCEPT ![s] = Empty]
      /\ UNCHANGED <<last, session, lock, conn, leader, up>>
  BY DEF CommitAssignment, process, Empty
<1>3. \A r \in Sessions : claim'[r] = Empty
  BY <1>1, <1>2 DEF Inv, AssignmentFenced, SequencerTyped, Empty
<1>4. claim' \in [Sessions -> [Events -> Nat]] /\ seq' \in [Events -> Nat]
  BY <1>2 DEF Inv, SequencerTyped, Empty, Unsequenced
<1>5. AssignmentFenced'
  BY <1>3 DEF AssignmentFenced, Empty
<1>6. NumbersFresh'
  BY <1>2, <1>3, <1>4 DEF NumbersFresh, Inv, SequencerTyped, Empty
<1> QED BY <1>2, <1>4, <1>5, <1>6 DEF Inv, SequencerTyped, LeaderHoldsLock, ConnectionsOpened, LockLive

LEMMA OpenInv ==
    ASSUME Inv, NEW w \in Workers, NEW s \in Sessions, Start(w, s) \/ Reconnect(w, s)
    PROVE  Inv'
<1>1. /\ session[s] = "UNUSED"
      /\ session' = [session EXCEPT ![s] = "LIVE"]
      /\ conn' = [conn EXCEPT ![w] = s]
      /\ UNCHANGED <<seq, last, lock, claim>>
      /\ leader' \subseteq leader /\ w \notin leader' /\ up \subseteq up' /\ w \in up'
  BY DEF Start, Reconnect, FreshSession, StepsDown, outbox, Inv, SequencerTyped
<1>2. lock # s
  BY <1>1 DEF Inv, LockLive, NoSession, Sessions
<1>3. leader' \subseteq up'
  BY <1>1 DEF Inv, SequencerTyped
<1>4. AssignmentFenced'
  BY <1>1, <1>2 DEF Inv, AssignmentFenced, SequencerTyped
<1>5. LeaderHoldsLock'
  <2> SUFFICES ASSUME NEW v \in Workers, v \in leader', conn'[v] # NoSession, session'[conn'[v]] = "LIVE"
               PROVE  lock' = conn'[v]
    BY DEF LeaderHoldsLock
  <2>1. v # w /\ conn'[v] = conn[v] /\ v \in leader
    BY <1>1 DEF Inv, SequencerTyped
  <2>2. conn[v] # s
    BY <1>1, <2>1 DEF Inv, ConnectionsOpened
  <2> QED BY <1>1, <2>1, <2>2 DEF Inv, LeaderHoldsLock, SequencerTyped
<1>6. ConnectionsOpened'
  BY <1>1 DEF Inv, ConnectionsOpened, SequencerTyped
<1>7. LockLive'
  BY <1>1, <1>2 DEF Inv, LockLive, SequencerTyped
<1>8. NumbersFresh'
  BY <1>1 DEF Inv, NumbersFresh
<1>9. SequencerTyped'
  BY <1>1, <1>3 DEF Inv, SequencerTyped
<1> QED BY <1>4, <1>5, <1>6, <1>7, <1>8, <1>9 DEF Inv

LEMMA EndInv == ASSUME Inv, NEW s \in Sessions, EndSession(s) PROVE Inv'
<1>1. /\ session' = [session EXCEPT ![s] = "GONE"]
      /\ claim' = [claim EXCEPT ![s] = Empty]
      /\ lock' = IF lock = s THEN NoSession ELSE lock
      /\ UNCHANGED <<seq, last, conn, leader, up>>
  BY DEF EndSession, AbortClaim, ReleaseLock, outbox, process, Empty
<1>2. SequencerTyped'
  BY <1>1 DEF Inv, SequencerTyped, Empty, Unsequenced
<1>3. AssignmentFenced'
  BY <1>1 DEF Inv, AssignmentFenced, SequencerTyped, Empty
<1>4. LeaderHoldsLock'
  BY <1>1 DEF Inv, LeaderHoldsLock, SequencerTyped
<1>5. ConnectionsOpened' /\ LockLive'
  BY <1>1 DEF Inv, ConnectionsOpened, LockLive, SequencerTyped
<1>6. NumbersFresh'
  BY <1>1 DEF Inv, NumbersFresh, SequencerTyped, Empty
<1> QED BY <1>2, <1>3, <1>4, <1>5, <1>6 DEF Inv

LEMMA LoseInv ==
    ASSUME Inv, NEW w \in Workers, LoseConnection(w) \/ Crash(w) \/ AcquireLeadership(w)
    PROVE  Inv'
<1>1. CASE LoseConnection(w)
  BY <1>1 DEF LoseConnection, outbox, server, Inv, SequencerTyped, AssignmentFenced, LeaderHoldsLock,
              ConnectionsOpened, LockLive, NumbersFresh
<1>2. CASE Crash(w)
  BY <1>2 DEF Crash, outbox, server, Inv, SequencerTyped, AssignmentFenced, LeaderHoldsLock,
              ConnectionsOpened, LockLive, NumbersFresh
<1>3. CASE AcquireLeadership(w)
  <2>1. /\ lock = NoSession /\ lock' = conn[w] /\ session[conn[w]] = "LIVE" /\ conn[w] \in Sessions
        /\ leader' = leader \union {w}
        /\ UNCHANGED <<seq, last, session, claim, conn, up>>
    BY <1>3 DEF AcquireLeadership, outbox, Inv, SequencerTyped
  <2>2. \A r \in Sessions : r # NoSession
    BY DEF Sessions, NoSession
  <2>3. w \in up
    BY <1>3 DEF AcquireLeadership, Inv, ConnectionsOpened
  <2>4. AssignmentFenced'
    BY <2>1, <2>2 DEF Inv, AssignmentFenced
  <2>5. LeaderHoldsLock' /\ ConnectionsOpened' /\ LockLive'
    BY <2>1, <2>2 DEF Inv, LeaderHoldsLock, ConnectionsOpened, LockLive
  <2>6. NumbersFresh' /\ SequencerTyped'
    BY <2>1, <2>3 DEF Inv, NumbersFresh, SequencerTyped
  <2> QED BY <2>4, <2>5, <2>6 DEF Inv
<1> QED BY <1>1, <1>2, <1>3

LEMMA InvStep == Inv /\ [Next]_vars => Inv'
<1> SUFFICES ASSUME Inv, [Next]_vars PROVE Inv'
  OBVIOUS
<1>1. ASSUME UNCHANGED <<seq, last, session, lock, claim, up, conn, leader>> PROVE Inv'
  BY <1>1 DEF Inv, SequencerTyped, AssignmentFenced, LeaderHoldsLock, ConnectionsOpened, LockLive, NumbersFresh
<1>2. CASE Produce
  BY <1>1, <1>2 DEF Produce, Enqueue, CommitEvent, RollbackEvent, server, process
<1>3. CASE Connections
  BY <1>3, OpenInv, LoseInv, EndInv DEF Connections
<1>4. CASE Sequencer
  BY <1>4, LoseInv, AssignInv, CommitInv DEF Sequencer
<1>5. CASE Hubs
  BY <1>1, <1>5 DEF Hubs, HubRead, HubReadFails, HubFanOut, outbox, server, process
<1>6. CASE Streams
  BY <1>1, <1>6 DEF Streams, Subscribe, CaptureHighWater, FetchPage, ReplayNext, GoLive, LiveNext,
                    SendReset, Disconnect, Close, outbox, server, process
<1>7. CASE UNCHANGED vars
  BY <1>1, <1>7 DEF vars
<1> QED BY <1>2, <1>3, <1>4, <1>5, <1>6, <1>7 DEF Next

LEMMA AlwaysInv == Spec => []Inv
  BY InvInit, InvStep, PTL DEF Spec

\* An assignment in flight always holds the sequencer lock, however workers
\* crash, lose their connections or come back.
THEOREM SequencerFenced == Spec => []AssignmentFenced
<1>1. Inv => AssignmentFenced
  BY DEF Inv
<1> QED BY <1>1, AlwaysInv, PTL

Grows ==
    \A e, f \in Events : seq[e] = Unsequenced /\ seq'[e] # Unsequenced /\ e # f =>
        /\ seq[f] < seq'[e]
        /\ seq'[f] # seq'[e]

LEMMA GrowsStep == Inv /\ [Next]_vars => [Grows]_vars
<1> SUFFICES ASSUME Inv, Next PROVE Grows
  BY DEF vars
<1>1. ASSUME UNCHANGED seq PROVE Grows
  BY <1>1 DEF Grows
<1>2. ASSUME NEW s \in Sessions, CommitAssignment(s) PROVE Grows
  <2> SUFFICES ASSUME NEW e \in Events, NEW f \in Events, seq[e] = Unsequenced,
                      seq'[e] # Unsequenced, e # f
               PROVE  seq[f] < seq'[e] /\ seq'[f] # seq'[e]
    BY DEF Grows
  <2>1. seq' = [d \in Events |-> IF claim[s][d] # Unsequenced THEN claim[s][d] ELSE seq[d]]
    BY <1>2 DEF CommitAssignment
  <2>2. claim[s][e] # Unsequenced /\ seq'[e] = claim[s][e]
    BY <2>1
  <2>3. /\ seq[f] < claim[s][e] /\ (claim[s][f] = claim[s][e] => e = f)
        /\ seq[f] \in Nat /\ claim[s][e] \in Nat
    BY <2>2 DEF Inv, NumbersFresh, SequencerTyped
  <2> QED BY <2>1, <2>2, <2>3
<1>3. CASE Produce
  BY <1>1, <1>3 DEF Produce, Enqueue, CommitEvent, RollbackEvent
<1>4. CASE Connections
  BY <1>1, <1>4 DEF Connections, Start, Reconnect, LoseConnection, Crash, EndSession, outbox
<1>5. CASE Sequencer
  BY <1>1, <1>2, <1>5 DEF Sequencer, AcquireLeadership, AssignPending, outbox
<1>6. CASE Hubs
  BY <1>1, <1>6 DEF Hubs, HubRead, HubReadFails, HubFanOut, outbox
<1>7. CASE Streams
  BY <1>1, <1>7 DEF Streams, Subscribe, CaptureHighWater, FetchPage, ReplayNext, GoLive, LiveNext,
                    SendReset, Disconnect, Close, outbox
<1> QED BY <1>3, <1>4, <1>5, <1>6, <1>7 DEF Next

\* The claim of the dispatcher's design note: rows become visible in the
\* order of their numbers, so a cursor never passes a row it has not seen.
THEOREM SequencesVisibleInOrder == Spec => VisibleMaxGrows
<1>1. Spec => [][Grows]_vars
  BY AlwaysInv, GrowsStep, PTL DEF Spec
<1> QED BY <1>1 DEF VisibleMaxGrows, Grows

-----------------------------------------------------------------------------
(* Invalidation markers *)

\* A marked row that was published and not announced is remembered by a drain
\* that still runs.
DrainRemembers ==
    /\ up \subseteq Workers
    /\ drain \in [Workers -> {"IDLE", "READ", "MORE"}]
    /\ owed = [w \in Workers |-> owed[w]]
    /\ \A w \in Workers : owed[w] # {} => w \in marked /\ drain[w] # "IDLE"

LEMMA DrainInit == Init => DrainRemembers
  BY DEF Init, DrainRemembers

LEMMA DrainStep == DrainRemembers /\ [Next]_vars => DrainRemembers'
<1> SUFFICES ASSUME DrainRemembers, [Next]_vars PROVE DrainRemembers'
  OBVIOUS
<1>1. ASSUME UNCHANGED <<up, drain, marked, owed>> PROVE DrainRemembers'
  BY <1>1 DEF DrainRemembers
<1>2. CASE Produce
  BY <1>1, <1>2 DEF Produce, Enqueue, CommitEvent, RollbackEvent, process, hub
<1>3. CASE Connections
  <2>1. ASSUME NEW w \in Workers, Crash(w) PROVE DrainRemembers'
    BY <2>1 DEF Crash, DrainRemembers
  <2>2. ASSUME NEW w \in Workers, NEW s \in Sessions, Start(w, s) PROVE DrainRemembers'
    BY <2>2 DEF Start, DrainRemembers
  <2> QED BY <1>1, <1>3, <2>1, <2>2 DEF Connections, Reconnect, LoseConnection, EndSession, process, hub
<1>4. CASE Sequencer
  BY <1>1, <1>4 DEF Sequencer, AcquireLeadership, AssignPending, CommitAssignment, process, hub
<1>5. CASE Hubs
  <2>1. ASSUME NEW w \in Workers, HubRead(w) PROVE DrainRemembers'
    BY <2>1 DEF HubRead, process, DrainRemembers
  <2>2. ASSUME NEW w \in Workers, HubReadFails(w) PROVE DrainRemembers'
    BY <2>2 DEF HubReadFails, process, DrainRemembers
  <2>3. ASSUME NEW w \in Workers, HubFanOut(w) PROVE DrainRemembers'
    <3> DEFINE full == Cardinality(batch[w]) >= BatchSize
               seen == {n \in batch[w] : \E e \in Marked : seq[e] = n}
    <3>1. /\ up' = up
          /\ drain' = [drain EXCEPT ![w] = IF full THEN "MORE" ELSE "IDLE"]
          /\ marked' = IF full /\ seen # {} THEN marked \union {w}
                       ELSE IF full THEN marked ELSE marked \ {w}
          /\ owed' = [owed EXCEPT ![w] = IF Announces(w, seen, full) THEN {} ELSE @ \union seen]
      BY <2>3 DEF HubFanOut, process
    <3> HIDE DEF full, seen
    <3>2. CASE full
      <4>1. /\ owed' = [owed EXCEPT ![w] = @ \union seen] /\ drain' = [drain EXCEPT ![w] = "MORE"]
            /\ marked \subseteq marked' /\ (seen # {} => w \in marked')
        BY <3>1, <3>2 DEF Announces
      <4> QED BY <3>1, <4>1 DEF DrainRemembers
    <3>3. CASE ~full
      <4>1. owed'[w] = {} /\ drain'[w] = "IDLE"
        BY <3>1, <3>3 DEF DrainRemembers, Announces
      <4> QED BY <3>1, <3>3, <4>1 DEF DrainRemembers
    <3> QED BY <3>2, <3>3
  <2> QED BY <1>5, <2>1, <2>2, <2>3 DEF Hubs
<1>6. CASE Streams
  BY <1>1, <1>6 DEF Streams, Subscribe, CaptureHighWater, FetchPage, ReplayNext, GoLive, LiveNext,
                    SendReset, Disconnect, Close, process, hub
<1>7. CASE UNCHANGED vars
  BY <1>1, <1>7 DEF vars
<1> QED BY <1>2, <1>3, <1>4, <1>5, <1>6, <1>7 DEF Next

\* A hub that has finished a drain has announced every marked row it published
\* in it, whichever batch the row came in and however often a drain was cut short.
THEOREM MarkersAlwaysAnnounced == Spec => []MarkersAnnounced
<1>1. DrainRemembers => MarkersAnnounced
  BY DEF DrainRemembers, MarkersAnnounced
<1> QED BY <1>1, DrainInit, DrainStep, PTL DEF Spec

-----------------------------------------------------------------------------
(* Least, greatest and lowest numbers *)

LEMMA LeastNat ==
    ASSUME NEW S, S \subseteq Nat, S # {}
    PROVE  \E n \in S : \A m \in S : n <= m
<1> DEFINE R == {p \in Nat \X Nat : p[1] < p[2]}
<1>1. IsWellFoundedOn(R, Nat)
  BY NatLessThanWellFounded DEF OpToRel
<1>2. \A i, j \in Nat : i < j => <<i, j>> \in R
  OBVIOUS
<1> HIDE DEF R
<1>3. PICK n \in S : \A m \in S : ~ (<<m, n>> \in R)
  BY <1>1, WFMin
<1>4. ASSUME NEW m \in S PROVE n <= m
  <2>1. m \in Nat /\ n \in Nat /\ ~ (m < n)
    BY <1>2, <1>3
  <2> QED
    BY <2>1
<1> QED
  BY <1>4

LEMMA GreatestNat ==
    ASSUME NEW S, S \subseteq Nat, S # {}, NEW K \in Nat, \A n \in S : n <= K
    PROVE  \E n \in S : \A m \in S : m <= n
<1> DEFINE above == {k \in Nat : \A n \in S : n <= k}
<1>1. PICK k \in above : \A j \in above : k <= j
  BY LeastNat
<1>2. k \in S
  <2> SUFFICES ASSUME k \notin S PROVE FALSE
    OBVIOUS
  <2>1. \A n \in S : n <= k - 1
    BY <1>1
  <2>2. k - 1 \in Nat
    <3>1. PICK n \in S : TRUE
      OBVIOUS
    <3> QED
      BY <1>1, <2>1, <3>1
  <2> QED
    BY <1>1, <2>1, <2>2
<1> QED
  BY <1>1, <1>2

LEMMA LeastOf ==
    ASSUME NEW S, S \subseteq Nat, S # {}
    PROVE  Least(S) \in S /\ \A m \in S : Least(S) <= m
  BY LeastNat DEF Least

\* A page or batch is a lower part of what it was taken from, and is empty
\* only if there was nothing to take.
LEMMA LowestOf ==
    ASSUME NEW S, S \subseteq Nat, IsFiniteSet(S), NEW k \in Nat \ {0}
    PROVE  /\ Lowest(S, k) \subseteq S
           /\ \A n \in Lowest(S, k), m \in S : m < n => m \in Lowest(S, k)
           /\ S # {} => Lowest(S, k) # {}
<1> DEFINE Below(n) == {m \in S : m < n}
<1>1. \A n \in S : IsFiniteSet(Below(n)) /\ Cardinality(Below(n)) \in Nat
  BY FS_Subset, FS_CardinalityType
<1>2. ASSUME NEW n \in Lowest(S, k), NEW m \in S, m < n PROVE m \in Lowest(S, k)
  <2>1. n \in S /\ Cardinality(Below(n)) < k
    BY DEF Lowest
  <2>2. Below(m) \subseteq Below(n)
    <3> SUFFICES ASSUME NEW x \in S, x < m PROVE x < n
      OBVIOUS
    <3>1. x \in Nat /\ m \in Nat /\ n \in Nat
      BY <2>1
    <3> QED
      BY <1>2, <3>1
  <2>3. Cardinality(Below(m)) <= Cardinality(Below(n))
    <3> HIDE DEF Below
    <3> QED BY <1>1, <2>1, <2>2, FS_Subset
  <2>4. Cardinality(Below(m)) < k
    <3> HIDE DEF Below
    <3> QED BY <1>1, <2>1, <2>3
  <2> QED
    BY <2>4 DEF Lowest
<1>3. ASSUME S # {} PROVE Lowest(S, k) # {}
  <2>1. PICK n \in S : \A m \in S : n <= m
    BY <1>3, LeastNat
  <2>2. Below(n) = {}
    <3> SUFFICES ASSUME NEW x \in S, x < n PROVE FALSE
      OBVIOUS
    <3>1. x \in Nat /\ n \in Nat /\ n <= x
      BY <2>1
    <3> QED
      BY <3>1
  <2>3. Cardinality(Below(n)) = 0
    BY <2>2, FS_EmptySet
  <2>4. n \in Lowest(S, k)
    <3>1. Cardinality(Below(n)) < k
      BY <2>3
    <3> QED
      BY <3>1 DEF Lowest
  <2> QED
    BY <2>4
<1>4. Lowest(S, k) \subseteq S
  BY DEF Lowest
<1> QED
  BY <1>2, <1>3, <1>4

-----------------------------------------------------------------------------
(* The invariant *)

\* The types of the variables of hubs and streams.
StreamTyped ==
    /\ up \subseteq Workers
    /\ cursor \in [Workers -> Nat]
    /\ batch \in [Workers -> SUBSET Nat]
    /\ drain \in [Workers -> {"IDLE", "READ", "MORE"}]
    /\ phase \in [Clients -> {"OFF", "SUBSCRIBED", "REPLAY", "DRAIN", "LIVE"}]
    /\ home \in [Clients -> Workers \union {NoWorker}]
    /\ acked \in [Clients -> Nat \union {NoEventId}]
    /\ high \in [Clients -> Nat]
    /\ page \in [Clients -> SUBSET Nat]
    /\ backlog \in [Clients -> SUBSET Nat]
    /\ queue \in [Clients -> SUBSET Nat]
    /\ reset \subseteq Clients
    /\ base \in [Clients -> Nat]
    /\ received \in [Clients -> Seq(Nat)]

\* No row that becomes visible later has a number up to k.
Reached(k) == k <= 0 \/ \E m \in Visible : k <= m

\* A hub's batch is the next part of the outbox, without a hole.
HubOK(w) ==
    /\ Reached(cursor[w])
    /\ drain[w] = "READ" =>
          /\ w \in up
          /\ batch[w] \subseteq Visible
          /\ \A n \in batch[w] : n > cursor[w]
          /\ \A n \in batch[w], m \in Visible : m > cursor[w] /\ m < n => m \in batch[w]

\* What a client still has to be sent.
Due(c) == {n \in VisibleTo(OrgOf[c]) : n > acked[c] /\ n > base[c]}
Held(c) == queue[c] \union backlog[c]

\* The client's marks: what it acknowledged lies beyond where it began.
MarksOK(c) ==
    /\ Reached(acked[c]) /\ Reached(base[c])
    /\ acked[c] # NoEventId => acked[c] > base[c]
    /\ phase[c] # "OFF" => home[c] \in up
    /\ Ascending(received[c])
    /\ Range(received[c]) = {n \in VisibleTo(OrgOf[c]) : n > base[c] /\ n <= acked[c]}

\* A page is the next part of the replay.
ReplayOK(c) ==
    /\ phase[c] \in {"SUBSCRIBED", "REPLAY"} => acked[c] # NoEventId
    /\ phase[c] = "SUBSCRIBED" => page[c] = {}
    /\ phase[c] = "REPLAY" =>
          /\ page[c] \subseteq VisibleTo(OrgOf[c])
          /\ \A n \in page[c] : n > acked[c]
          /\ \A n \in page[c], m \in VisibleTo(OrgOf[c]) : m > acked[c] /\ m < n => m \in page[c]

\* What waits for the client was published by its hub, the backlog before the
\* queue, and once replay is over nothing is missing in between.
BufferOK(c) ==
    phase[c] # "OFF" =>
        /\ Held(c) \subseteq VisibleTo(OrgOf[c])
        /\ \A n \in Held(c) : n <= cursor[home[c]]
        /\ acked[c] = NoEventId => base[c] <= cursor[home[c]] /\ \A n \in Held(c) : n > base[c]
        /\ \A n \in backlog[c], m \in queue[c] : n < m
        /\ phase[c] # "LIVE" => backlog[c] = {}
        /\ phase[c] \in {"DRAIN", "LIVE"} => \A n \in Held(c), m \in Due(c) : m < n => m \in Held(c)

\* NothingSlips for one client.
SeamOK(c) ==
    phase[c] # "OFF" /\ c \notin reset =>
        \A n \in Due(c) : \/ n > cursor[home[c]]
                          \/ n \in Held(c)
                          \/ phase[c] = "SUBSCRIBED"
                          \/ phase[c] = "REPLAY" /\ n <= high[c]

ClientOK(c) == MarksOK(c) /\ ReplayOK(c) /\ BufferOK(c) /\ SeamOK(c)
StreamInv ==
    /\ Inv /\ StreamTyped
    /\ \A w \in Workers : HubOK(w)
    /\ \A c \in Clients : ClientOK(c)

LEMMA VisibleFacts ==
    ASSUME Inv
    PROVE  /\ Visible \subseteq Nat \ {0} /\ IsFiniteSet(Visible)
           /\ last \in Nat /\ \A n \in Visible : n <= last
           /\ \A g \in Orgs : VisibleTo(g) \subseteq Visible
<1>1. /\ Visible \subseteq Nat \ {0}
      /\ last \in Nat /\ \A n \in Visible : n <= last
  BY DEF Visible, Inv, SequencerTyped, NumbersFresh, Unsequenced
<1>2. Visible \subseteq 0 .. last
  BY <1>1
<1>3. IsFiniteSet(Visible)
  <2>1. IsFiniteSet(0 .. last)
    BY <1>1, FS_Interval
  <2> QED
    BY <1>2, <2>1, FS_Subset
<1>4. \A g \in Orgs : VisibleTo(g) \subseteq Visible
  BY DEF VisibleTo, Visible
<1> QED
  BY <1>1, <1>3, <1>4

LEMMA MaxVisibleFacts ==
    ASSUME Inv
    PROVE  MaxVisible \in Nat /\ Reached(MaxVisible) /\ \A n \in Visible : n <= MaxVisible
<1>1. CASE Visible = {}
  BY <1>1 DEF MaxVisible, Reached
<1>2. CASE Visible # {}
  <2>1. \E n \in Visible : \A m \in Visible : m <= n
    BY <1>2, VisibleFacts, GreatestNat
  <2>2. MaxVisible \in Visible /\ \A n \in Visible : n <= MaxVisible
    BY <1>2, <2>1 DEF MaxVisible
  <2>3. MaxVisible \in Nat
    BY <2>2, VisibleFacts
  <2> QED
    BY <2>2, <2>3 DEF Reached
<1> QED
  BY <1>1, <1>2

\* A commit of the sequencer only adds rows, beyond everything reached so far.
LEMMA Growth ==
    ASSUME Inv, NEW s \in Sessions, CommitAssignment(s)
    PROVE  /\ Visible \subseteq Visible' /\ Visible' \subseteq Nat
           /\ \A n \in Visible' : n \in Visible \/ \A k \in Int : Reached(k) => k < n
           /\ \A g \in Orgs : /\ VisibleTo(g) \subseteq VisibleTo(g)' /\ VisibleTo(g)' \subseteq Nat
                              /\ \A n \in VisibleTo(g)' : n \in VisibleTo(g) \/ \A k \in Int : Reached(k) => k < n
<1>1. seq' = [e \in Events |-> IF claim[s][e] # Unsequenced THEN claim[s][e] ELSE seq[e]]
  BY DEF CommitAssignment
<1>2. \A e \in Events : seq[e] # Unsequenced => seq'[e] = seq[e]
  BY <1>1 DEF Inv, NumbersFresh
<1>3. ASSUME NEW e \in Events, seq'[e] # seq[e], NEW k \in Int, Reached(k) PROVE k < seq'[e]
  <2>1. claim[s][e] # Unsequenced /\ seq'[e] = claim[s][e]
    BY <1>1, <1>3
  <2>2. seq'[e] \in Nat /\ seq'[e] # 0
    BY <2>1 DEF Inv, SequencerTyped, Unsequenced
  <2>3. \A f \in Events : seq[f] \in Nat /\ seq[f] < seq'[e]
    BY <2>1 DEF Inv, NumbersFresh, SequencerTyped
  <2>4. \A m \in Visible : m \in Nat /\ m < seq'[e]
    BY <2>3 DEF Visible
  <2> QED
    BY <1>3, <2>2, <2>4 DEF Reached
<1>4. /\ Visible \subseteq Visible'
      /\ \A n \in Visible' : n \in Visible \/ \A k \in Int : Reached(k) => k < n
  BY <1>2, <1>3 DEF Visible
<1>5. \A g \in Orgs : /\ VisibleTo(g) \subseteq VisibleTo(g)'
                      /\ \A n \in VisibleTo(g)' : n \in VisibleTo(g) \/ \A k \in Int : Reached(k) => k < n
  BY <1>2, <1>3 DEF VisibleTo
<1>6. \A e \in Events : seq'[e] \in Nat
  BY <1>1 DEF Inv, SequencerTyped
<1>7. Visible' \subseteq Nat
  BY <1>6 DEF Visible
<1>8. \A g \in Orgs : VisibleTo(g)' \subseteq Nat
  BY <1>6 DEF VisibleTo
<1> QED
  BY <1>4, <1>5, <1>7, <1>8

LEMMA SameOutbox ==
    ASSUME seq' = seq
    PROVE  /\ Visible' = Visible
           /\ \A g \in Orgs : VisibleTo(g)' = VisibleTo(g)
           /\ \A k : Reached(k)' <=> Reached(k)
<1>1. Visible' = Visible
  BY DEF Visible
<1>2. \A g \in Orgs : VisibleTo(g)' = VisibleTo(g)
  BY DEF VisibleTo
<1> QED
  BY <1>1, <1>2 DEF Reached

-----------------------------------------------------------------------------
(* Steps outside a stream *)

LEMMA CommitKeepsStreams ==
    ASSUME StreamInv, NEW s \in Sessions, CommitAssignment(s)
    PROVE  /\ \A w \in Workers : HubOK(w)'
           /\ \A c \in Clients : ClientOK(c)'
<1>1. UNCHANGED <<up, cursor, batch, drain, phase, home, acked, high, page, backlog, queue, reset, base, received>>
  BY DEF CommitAssignment, process, hub, stream
<1>2. Inv /\ StreamTyped
  BY DEF StreamInv
<1>3. \A k \in Int : Reached(k) => Reached(k)'
  BY <1>2, Growth DEF Reached
<1>4. \A n \in Visible : Reached(n) /\ n \in Int
  BY <1>2, VisibleFacts DEF Reached
<1>5. ASSUME NEW w \in Workers PROVE HubOK(w)'
  <2>1. HubOK(w) /\ cursor[w] \in Int
    BY <1>2 DEF StreamInv, StreamTyped
  <2>2. Reached(cursor[w])'
    BY <1>1, <1>3, <2>1 DEF HubOK
  <2>3. CASE drain[w] = "READ"
    <3>1. batch[w] \subseteq Visible'
      BY <1>2, <2>1, <2>3, Growth DEF HubOK
    <3>2. ASSUME NEW n \in batch[w], NEW m \in Visible', m > cursor[w], m < n PROVE m \in batch[w]
      <4>1. n \in Visible /\ Reached(n) /\ n \in Int
        BY <1>4, <2>1, <2>3 DEF HubOK
      <4>2. m \in Nat /\ (m \in Visible \/ n < m)
        BY <1>2, <4>1, Growth
      <4>3. m \in Visible
        BY <3>2, <4>1, <4>2
      <4> QED
        BY <2>1, <2>3, <3>2, <4>3 DEF HubOK
    <3> QED
      BY <1>1, <2>1, <2>2, <2>3, <3>1, <3>2 DEF HubOK
  <2>4. CASE drain[w] # "READ"
    BY <1>1, <2>2, <2>4 DEF HubOK
  <2> QED
    BY <2>3, <2>4
<1>6. ASSUME NEW c \in Clients PROVE ClientOK(c)'
  <2> DEFINE g == OrgOf[c]
  <2>1. /\ MarksOK(c) /\ ReplayOK(c) /\ BufferOK(c) /\ SeamOK(c)
        /\ g \in Orgs /\ acked[c] \in Int /\ base[c] \in Int
    BY <1>2, StreamConstants DEF StreamInv, StreamTyped, ClientOK, NoEventId
  <2>2. /\ VisibleTo(g) \subseteq VisibleTo(g)' /\ VisibleTo(g)' \subseteq Nat
        /\ \A n \in VisibleTo(g)' : n \in VisibleTo(g) \/ \A k \in Int : Reached(k) => k < n
    BY <1>2, <2>1, Growth
  <2>3. \A n \in VisibleTo(g) : n \in Int /\ Reached(n)
    BY <1>2, <1>4, <2>1, VisibleFacts
  <2>4. ASSUME NEW n \in VisibleTo(g), NEW m \in VisibleTo(g)', m < n PROVE m \in VisibleTo(g)
    <3>1. n \in Int /\ m \in Nat /\ (m \in VisibleTo(g) \/ n < m)
      BY <2>2, <2>3
    <3> QED
      BY <2>4, <3>1
  <2>5. MarksOK(c)'
    <3>1. ASSUME NEW n \in VisibleTo(g)', n <= acked[c] PROVE n \in VisibleTo(g)
      <4>1. n \in Nat /\ (n \in VisibleTo(g) \/ acked[c] < n)
        BY <2>1, <2>2 DEF MarksOK
      <4> QED
        BY <2>1, <3>1, <4>1
    <3> HIDE DEF g
    <3> QED
      BY <1>1, <1>3, <2>1, <2>2, <3>1 DEF MarksOK, g
  <2>6. ReplayOK(c)'
    <3> QED
      BY <1>1, <2>1, <2>2, <2>4 DEF ReplayOK
  <2>7. BufferOK(c)'
    <3> QED
      BY <1>1, <2>1, <2>2, <2>4 DEF BufferOK, Held, Due
  <2>8. SeamOK(c)'
    <3>1. CASE phase[c] # "OFF"
      <4>1. cursor[home[c]] \in Int /\ Reached(cursor[home[c]])
        BY <1>2, <2>1, <3>1 DEF MarksOK, StreamInv, StreamTyped, HubOK
      <4> QED
        BY <1>1, <2>1, <2>2, <3>1, <4>1 DEF SeamOK, Held, Due
    <3>2. CASE phase[c] = "OFF"
      BY <1>1, <3>2 DEF SeamOK
    <3> QED
      BY <3>1, <3>2
  <2> QED
    BY <2>5, <2>6, <2>7, <2>8 DEF ClientOK
<1> QED
  BY <1>5, <1>6

\* A step that leaves a stream and its hub's cursor alone.
LEMMA ClientKept ==
    ASSUME StreamInv, NEW d \in Clients, seq' = seq,
           phase'[d] = phase[d], home'[d] = home[d], acked'[d] = acked[d], high'[d] = high[d],
           page'[d] = page[d], backlog'[d] = backlog[d], queue'[d] = queue[d], base'[d] = base[d],
           received'[d] = received[d], d \in reset => d \in reset',
           phase[d] # "OFF" => home[d] \in up' /\ cursor'[home[d]] = cursor[home[d]]
    PROVE  ClientOK(d)'
<1> DEFINE g == OrgOf[d]
<1>1. /\ MarksOK(d) /\ ReplayOK(d) /\ BufferOK(d) /\ SeamOK(d) /\ g \in Orgs
  BY StreamConstants DEF StreamInv, ClientOK
<1>2. VisibleTo(g)' = VisibleTo(g) /\ \A k : Reached(k)' <=> Reached(k)
  BY <1>1, SameOutbox
<1>3. MarksOK(d)'
  BY <1>1, <1>2 DEF MarksOK
<1>4. ReplayOK(d)'
  BY <1>1, <1>2 DEF ReplayOK
<1>5. BufferOK(d)'
  BY <1>1, <1>2 DEF BufferOK, Held, Due
<1>6. SeamOK(d)'
  BY <1>1, <1>2 DEF SeamOK, Held, Due
<1> QED
  BY <1>3, <1>4, <1>5, <1>6 DEF ClientOK

LEMMA HubKept ==
    ASSUME StreamInv, NEW w \in Workers, seq' = seq, cursor'[w] = cursor[w],
           drain'[w] = "READ" => w \in up' /\ drain[w] = "READ" /\ batch'[w] = batch[w]
    PROVE  HubOK(w)'
<1>1. HubOK(w)
  BY DEF StreamInv
<1>2. Visible' = Visible /\ (Reached(cursor[w])' <=> Reached(cursor[w]))
  BY SameOutbox
<1> QED
  BY <1>1, <1>2 DEF HubOK, Reached

\* A stream that is closed keeps what it has acknowledged.
LEMMA ClientClosed ==
    ASSUME StreamInv, NEW d \in Clients, seq' = seq, phase'[d] = "OFF",
           acked'[d] = acked[d], base'[d] = base[d], received'[d] = received[d]
    PROVE  ClientOK(d)'
<1>1. MarksOK(d) /\ OrgOf[d] \in Orgs
  BY StreamConstants DEF StreamInv, ClientOK
<1>2. VisibleTo(OrgOf[d])' = VisibleTo(OrgOf[d]) /\ \A k : Reached(k)' <=> Reached(k)
  BY <1>1, SameOutbox
<1>3. MarksOK(d)'
  BY <1>1, <1>2 DEF MarksOK
<1>4. ReplayOK(d)' /\ BufferOK(d)' /\ SeamOK(d)'
  BY DEF ReplayOK, BufferOK, SeamOK
<1> QED
  BY <1>3, <1>4 DEF ClientOK

LEMMA StartKeepsStreams ==
    ASSUME StreamInv, NEW w \in Workers, NEW s \in Sessions, Start(w, s)
    PROVE  /\ \A v \in Workers : HubOK(v)'
           /\ \A c \in Clients : ClientOK(c)'
<1>1. /\ seq' = seq /\ w \notin up /\ up' = up \union {w} /\ UNCHANGED <<batch, drain>>
      /\ cursor' = [cursor EXCEPT ![w] = MaxVisible]
      /\ UNCHANGED <<phase, home, acked, high, page, backlog, queue, reset, base, received>>
  BY DEF Start, outbox, stream
<1>2. Inv /\ StreamTyped
  BY DEF StreamInv
<1>3. ASSUME NEW v \in Workers PROVE HubOK(v)'
  <2>1. HubOK(v)
    BY DEF StreamInv
  <2>2. CASE v = w
    <3>1. drain'[w] # "READ" /\ cursor'[w] = MaxVisible
      BY <1>1, <1>2, <2>1, <2>2 DEF HubOK, StreamTyped
    <3>2. Reached(MaxVisible) /\ Visible' = Visible
      BY <1>1, <1>2, MaxVisibleFacts, SameOutbox
    <3> QED
      BY <2>2, <3>1, <3>2 DEF HubOK, Reached
  <2>3. CASE v # w
    BY <1>1, <1>2, <2>1, <2>3, HubKept DEF HubOK, StreamTyped
  <2> QED
    BY <2>2, <2>3
<1>4. ASSUME NEW c \in Clients PROVE ClientOK(c)'
  <2>1. phase[c] # "OFF" => home[c] \in up
    BY DEF StreamInv, ClientOK, MarksOK
  <2>2. phase[c] # "OFF" => home[c] \in up' /\ cursor'[home[c]] = cursor[home[c]]
    BY <1>1, <1>2, <2>1 DEF StreamTyped
  <2> QED
    BY <1>1, <2>2, ClientKept
<1> QED
  BY <1>3, <1>4

LEMMA CrashKeepsStreams ==
    ASSUME StreamInv, NEW w \in Workers, Crash(w)
    PROVE  /\ \A v \in Workers : HubOK(v)'
           /\ \A c \in Clients : ClientOK(c)'
<1>1. /\ seq' = seq /\ up' = up \ {w} /\ cursor' = cursor
      /\ batch' = [batch EXCEPT ![w] = {}] /\ drain' = [drain EXCEPT ![w] = "IDLE"]
      /\ phase' = [c \in Clients |-> IF home[c] = w THEN "OFF" ELSE phase[c]]
      /\ home' = [c \in Clients |-> IF home[c] = w THEN NoWorker ELSE home[c]]
      /\ UNCHANGED <<acked, high, page, backlog, queue, reset, base, received>>
  BY DEF Crash, outbox
<1>2. StreamTyped
  BY DEF StreamInv
<1>3. ASSUME NEW v \in Workers PROVE HubOK(v)'
  <2>1. HubOK(v)
    BY DEF StreamInv
  <2>2. drain'[v] = "READ" => v \in up' /\ drain[v] = "READ" /\ batch'[v] = batch[v]
    BY <1>1, <1>2, <2>1 DEF HubOK, StreamTyped
  <2> QED
    BY <1>1, <2>2, HubKept
<1>4. ASSUME NEW c \in Clients PROVE ClientOK(c)'
  <2>1. CASE home[c] = w
    BY <1>1, <2>1, ClientClosed
  <2>2. CASE home[c] # w
    <3>1. phase[c] # "OFF" => home[c] \in up
      BY DEF StreamInv, ClientOK, MarksOK
    <3> QED
      BY <1>1, <2>2, <3>1, ClientKept
  <2> QED
    BY <2>1, <2>2
<1> QED
  BY <1>3, <1>4

LEMMA CloseKeepsStreams ==
    ASSUME StreamInv, NEW c \in Clients, Close(c)
    PROVE  /\ \A v \in Workers : HubOK(v)'
           /\ \A d \in Clients : ClientOK(d)'
<1>1. /\ seq' = seq /\ UNCHANGED <<up, cursor, batch, drain>>
      /\ phase' = [phase EXCEPT ![c] = "OFF"] /\ home' = [home EXCEPT ![c] = NoWorker]
      /\ UNCHANGED <<acked, high, page, backlog, queue, reset, base, received>>
  BY DEF Close, outbox, process, hub
<1>2. StreamTyped
  BY DEF StreamInv
<1>3. \A v \in Workers : HubOK(v)'
  BY <1>1, HubKept DEF StreamInv, HubOK
<1>4. ASSUME NEW d \in Clients PROVE ClientOK(d)'
  <2>1. CASE d = c
    BY <1>1, <1>2, <2>1, ClientClosed DEF StreamTyped
  <2>2. CASE d # c
    <3>1. phase[d] # "OFF" => home[d] \in up
      BY DEF StreamInv, ClientOK, MarksOK
    <3> QED
      BY <1>1, <1>2, <2>2, <3>1, ClientKept DEF StreamTyped
  <2> QED
    BY <2>1, <2>2
<1> QED
  BY <1>3, <1>4

-----------------------------------------------------------------------------
(* Steps of a hub *)

LEMMA HubReadKeepsStreams ==
    ASSUME StreamInv, NEW w \in Workers, HubRead(w)
    PROVE  /\ \A v \in Workers : HubOK(v)'
           /\ \A c \in Clients : ClientOK(c)'
<1>1. /\ seq' = seq /\ w \in up /\ UNCHANGED <<up, cursor>>
      /\ batch' = [batch EXCEPT ![w] = Lowest(Unread(w), BatchSize)]
      /\ drain' = [drain EXCEPT ![w] = "READ"]
      /\ UNCHANGED <<phase, home, acked, high, page, backlog, queue, reset, base, received>>
  BY DEF HubRead, outbox, process, stream
<1>2. Inv /\ StreamTyped
  BY DEF StreamInv
<1>3. ASSUME NEW v \in Workers PROVE HubOK(v)'
  <2>1. HubOK(v)
    BY DEF StreamInv
  <2>2. CASE v = w
    <3> DEFINE rows == Unread(w)  taken == Lowest(rows, BatchSize)
    <3>1. Unread(w) = {n \in Visible : n > cursor[w]}
      BY DEF Unread
    <3>2. rows \subseteq Nat /\ IsFiniteSet(rows)
      BY <1>2, <3>1, VisibleFacts, FS_Subset
    <3>3. /\ taken \subseteq rows
          /\ \A n \in taken, m \in rows : m < n => m \in taken
      BY <3>2, LowestOf, StreamConstants
    <3>4. batch'[w] = taken /\ cursor'[w] = cursor[w] /\ w \in up' /\ Visible' = Visible
      BY <1>1, <1>2, SameOutbox DEF StreamTyped
    <3> HIDE DEF taken
    <3>5. /\ batch'[w] \subseteq Visible'
          /\ \A n \in batch'[w] : n > cursor'[w]
          /\ \A n \in batch'[w], m \in Visible' : m > cursor'[w] /\ m < n => m \in batch'[w]
      BY <3>1, <3>3, <3>4
    <3>6. Reached(cursor[w])
      BY <2>1, <2>2 DEF HubOK
    <3> QED
      BY <2>2, <3>4, <3>5, <3>6 DEF HubOK, Reached
  <2>3. CASE v # w
    BY <1>1, <1>2, <2>1, <2>3, HubKept DEF HubOK, StreamTyped
  <2> QED
    BY <2>2, <2>3
<1>4. ASSUME NEW c \in Clients PROVE ClientOK(c)'
  <2>1. phase[c] # "OFF" => home[c] \in up
    BY DEF StreamInv, ClientOK, MarksOK
  <2> QED
    BY <1>1, <2>1, ClientKept
<1> QED
  BY <1>3, <1>4

\* Steps that leave outbox, hubs' places and streams alone.
LEMMA OthersKeepStreams ==
    ASSUME StreamInv, seq' = seq, up' = up, cursor' = cursor, batch' = batch,
           \A w \in Workers : drain'[w] = "READ" => drain[w] = "READ", UNCHANGED stream
    PROVE  /\ \A v \in Workers : HubOK(v)'
           /\ \A c \in Clients : ClientOK(c)'
<1>1. \A v \in Workers : HubOK(v)'
  BY HubKept DEF StreamInv, HubOK
<1>2. ASSUME NEW c \in Clients PROVE ClientOK(c)'
  <2>1. phase[c] # "OFF" => home[c] \in up
    BY DEF StreamInv, ClientOK, MarksOK
  <2> QED
    BY <2>1, ClientKept DEF stream
<1> QED
  BY <1>1, <1>2

\* Where the cursor goes when a batch has been published: every row it passes
\* was in the batch.
LEMMA CursorMoves ==
    ASSUME StreamInv, NEW w \in Workers, HubFanOut(w)
    PROVE  /\ cursor'[w] \in Nat /\ cursor[w] \in Nat /\ cursor[w] <= cursor'[w]
           /\ Reached(cursor'[w])
           /\ batch[w] \subseteq Visible
           /\ \A n \in batch[w] : n \in Nat /\ n > cursor[w] /\ n <= cursor'[w]
           /\ \A m \in Visible : m > cursor[w] /\ m <= cursor'[w] => m \in batch[w]
<1>1. drain[w] = "READ" /\ HubOK(w) /\ Inv /\ StreamTyped
  BY DEF HubFanOut, StreamInv
<1>2. /\ batch[w] \subseteq Visible /\ cursor[w] \in Nat /\ Reached(cursor[w])
      /\ \A n \in batch[w] : n > cursor[w]
      /\ \A n \in batch[w], m \in Visible : m > cursor[w] /\ m < n => m \in batch[w]
  BY <1>1 DEF HubOK, StreamTyped
<1>3. /\ Visible \subseteq Nat /\ last \in Nat /\ \A n \in Visible : n <= last
  BY <1>1, VisibleFacts
<1>4. cursor'[w] = IF batch[w] = {} THEN cursor[w]
                   ELSE CHOOSE n \in batch[w] : \A m \in batch[w] : m <= n
  BY <1>1 DEF HubFanOut, StreamTyped
<1>5. CASE batch[w] = {}
  <2>1. cursor'[w] = cursor[w]
    BY <1>4, <1>5
  <2>2. \A m \in Visible : ~ (m > cursor[w] /\ m <= cursor[w])
    BY <1>2, <1>3
  <2> QED
    BY <1>2, <1>5, <2>1, <2>2
<1>6. CASE batch[w] # {}
  <2>1. \E n \in batch[w] : \A m \in batch[w] : m <= n
    <3>1. batch[w] \subseteq Nat /\ \A n \in batch[w] : n <= last
      BY <1>2, <1>3
    <3> QED
      BY <1>3, <1>6, <3>1, GreatestNat
  <2>2. cursor'[w] \in batch[w] /\ \A m \in batch[w] : m <= cursor'[w]
    BY <1>4, <1>6, <2>1
  <2>3. cursor'[w] \in Nat /\ cursor'[w] \in Visible /\ cursor[w] < cursor'[w]
    BY <1>2, <1>3, <2>2
  <2>4. \A n \in batch[w] : n \in Nat /\ n > cursor[w] /\ n <= cursor'[w]
    BY <1>2, <1>3, <2>2
  <2>5. Reached(cursor'[w])
    BY <2>3 DEF Reached
  <2>6. ASSUME NEW m \in Visible, m > cursor[w], m <= cursor'[w] PROVE m \in batch[w]
    <3>1. m \in Nat /\ (m < cursor'[w] \/ m = cursor'[w])
      BY <1>3, <2>3, <2>6
    <3> QED
      BY <1>2, <2>2, <2>6, <3>1
  <2> QED
    BY <1>2, <2>3, <2>4, <2>5, <2>6
<1> QED
  BY <1>5, <1>6

\* What a publication does to the queue of a stream of this hub: the messages
\* are appended, or the queue is terminated, or it had been.
LEMMA PublishedTo ==
    ASSUME StreamInv, NEW w \in Workers, HubFanOut(w), NEW c \in Clients, home[c] = w,
           NEW fresh, fresh = {n \in batch[w] : n \in VisibleTo(OrgOf[c])}
    PROVE  \/ c \notin reset /\ queue'[c] = queue[c] \union fresh
           \/ c \in reset' /\ queue'[c] = {}
           \/ c \in reset /\ c \in reset' /\ queue'[c] = queue[c]
<1> DEFINE New(d) == {n \in batch[w] : n \in VisibleTo(OrgOf[d])}
           audience == {d \in Clients \ reset : home[d] = w /\ New(d) # {}}
<1>1. /\ queue' = [d \in Clients |-> IF d \in audience THEN Enqueued(d, New(d)).queue ELSE queue[d]]
      /\ reset' = reset \union {d \in audience : Enqueued(d, New(d)).reset}
  BY DEF HubFanOut
<1>2. New(c) = fresh
  OBVIOUS
<1>3. c \in audience <=> c \notin reset /\ fresh # {}
  BY <1>2
<1>4. Enqueued(c, fresh) = [queue |-> queue[c] \union fresh, reset |-> FALSE]
      \/ Enqueued(c, fresh) = [queue |-> {}, reset |-> TRUE]
  BY DEF Enqueued
<1>5. /\ queue'[c] = IF c \in audience THEN Enqueued(c, New(c)).queue ELSE queue[c]
      /\ c \in reset \/ (c \in audience /\ Enqueued(c, New(c)).reset) => c \in reset'
  BY <1>1
<1> HIDE DEF audience, New
<1>6. CASE c \in audience
  <2>1. CASE Enqueued(c, fresh) = [queue |-> queue[c] \union fresh, reset |-> FALSE]
    BY <1>2, <1>3, <1>5, <1>6, <2>1, SMTT(30)
  <2>2. CASE Enqueued(c, fresh) = [queue |-> {}, reset |-> TRUE]
    BY <1>2, <1>5, <1>6, <2>2
  <2> QED
    BY <1>4, <2>1, <2>2
<1>7. CASE c \notin audience /\ c \in reset
  BY <1>5, <1>7
<1>8. CASE c \notin audience /\ c \notin reset
  BY <1>3, <1>5, <1>8
<1> QED
  BY <1>6, <1>7, <1>8

LEMMA FanOutKeepsStreams ==
    ASSUME StreamInv, NEW w \in Workers, HubFanOut(w)
    PROVE  /\ \A v \in Workers : HubOK(v)'
           /\ \A c \in Clients : ClientOK(c)'
<1>1. /\ seq' = seq /\ UNCHANGED up
      /\ \A v \in Workers : v # w => cursor'[v] = cursor[v] /\ batch'[v] = batch[v] /\ drain'[v] = drain[v]
      /\ drain'[w] # "READ"
      /\ UNCHANGED <<phase, home, acked, high, page, backlog, base, received>>
      /\ reset \subseteq reset'
      /\ \A c \in Clients : home[c] # w => queue'[c] = queue[c]
  BY DEF HubFanOut, outbox, process, StreamInv, StreamTyped
<1>2. Inv /\ StreamTyped
  BY DEF StreamInv
<1>3. ASSUME NEW v \in Workers PROVE HubOK(v)'
  <2>1. HubOK(v)
    BY DEF StreamInv
  <2>2. CASE v = w
    <3>1. Reached(cursor'[w]) /\ Visible' = Visible
      BY <1>1, CursorMoves, SameOutbox
    <3> QED
      BY <1>1, <2>2, <3>1 DEF HubOK, Reached
  <2>3. CASE v # w
    BY <1>1, <2>1, <2>3, HubKept DEF HubOK
  <2> QED
    BY <2>2, <2>3
<1>4. ASSUME NEW c \in Clients PROVE ClientOK(c)'
  <2>1. /\ MarksOK(c) /\ ReplayOK(c) /\ BufferOK(c) /\ SeamOK(c)
        /\ OrgOf[c] \in Orgs /\ acked[c] \in Int /\ base[c] \in Nat
    BY <1>2, StreamConstants DEF StreamInv, StreamTyped, ClientOK, NoEventId
  <2>2. CASE phase[c] = "OFF"
    BY <1>1, <2>2, ClientClosed
  <2>3. CASE phase[c] # "OFF" /\ home[c] # w
    <3>1. home[c] \in up /\ home[c] \in Workers
      BY <1>2, <2>1, <2>3 DEF MarksOK, StreamTyped
    <3> QED
      BY <1>1, <2>3, <3>1, ClientKept
  <2>4. CASE phase[c] # "OFF" /\ home[c] = w
    <3> DEFINE V == VisibleTo(OrgOf[c])
               fresh == {n \in batch[w] : n \in V}
    <3>1. V' = V /\ V \subseteq Visible /\ V \subseteq Nat /\ \A k : Reached(k)' <=> Reached(k)
      BY <1>1, <1>2, <2>1, SameOutbox, VisibleFacts
    <3>2. /\ cursor'[w] \in Nat /\ cursor[w] \in Nat /\ cursor[w] <= cursor'[w]
          /\ \A n \in fresh : n \in V /\ n > cursor[w] /\ n <= cursor'[w]
          /\ \A m \in V : m > cursor[w] /\ m <= cursor'[w] => m \in fresh
      BY <3>1, CursorMoves
    <3>3. \/ c \notin reset /\ queue'[c] = queue[c] \union fresh
          \/ c \in reset' /\ queue'[c] = {}
          \/ c \in reset /\ c \in reset' /\ queue'[c] = queue[c]
      BY <2>4, PublishedTo
    <3> HIDE DEF fresh, V
    <3>4. queue'[c] \subseteq queue[c] \union fresh
      BY <3>3
    <3>5. MarksOK(c)'
      BY <1>1, <2>1, <3>1 DEF MarksOK, V
    <3>6. ReplayOK(c)'
      BY <1>1, <2>1, <3>1 DEF ReplayOK, V
    <3>7. /\ Held(c) \subseteq V /\ \A n \in Held(c) : n <= cursor[w]
          /\ acked[c] = NoEventId => base[c] <= cursor[w] /\ \A n \in Held(c) : n > base[c]
          /\ \A n \in backlog[c], m \in queue[c] : n < m
          /\ phase[c] # "LIVE" => backlog[c] = {}
          /\ phase[c] \in {"DRAIN", "LIVE"} => \A n \in Held(c), m \in Due(c) : m < n => m \in Held(c)
      BY <2>1, <2>4 DEF BufferOK, V
    <3>8. Due(c)' = Due(c) /\ Due(c) \subseteq V
      BY <1>1, <3>1 DEF Due, V
    <3>9. /\ Held(c)' = queue'[c] \union backlog[c] /\ Held(c) = queue[c] \union backlog[c]
      BY <1>1 DEF Held
    <3>10. Held(c)' \subseteq Held(c) \union fresh
      BY <3>4, <3>9
    <3>11. ASSUME NEW n \in Held(c)' PROVE n \in V /\ n \in Nat /\ n <= cursor'[w]
      <4>1. n \in V /\ n \in Nat /\ (n <= cursor[w] \/ n <= cursor'[w])
        BY <3>1, <3>2, <3>7, <3>10
      <4> QED
        BY <3>2, <4>1
    <3>12. acked[c] = NoEventId => base[c] <= cursor'[w] /\ \A n \in Held(c)' : n > base[c]
      <4> SUFFICES ASSUME acked[c] = NoEventId
                   PROVE  base[c] <= cursor'[w] /\ \A n \in Held(c)' : n > base[c]
        OBVIOUS
      <4>1. base[c] <= cursor[w] /\ base[c] <= cursor'[w]
        BY <2>1, <3>2, <3>7
      <4>2. ASSUME NEW n \in Held(c)' PROVE n > base[c]
        <5>1. n \in Nat /\ (n \in Held(c) \/ n > cursor[w])
          BY <3>2, <3>10, <3>11
        <5> QED
          BY <2>1, <3>2, <3>7, <4>1, <5>1
      <4> QED
        BY <4>1, <4>2
    <3>13. ASSUME NEW n \in backlog[c], NEW m \in queue'[c] PROVE n < m
      <4>1. n \in Held(c) /\ n \in Nat /\ n <= cursor[w] /\ m \in Nat
        BY <3>1, <3>7, <3>9, <3>11
      <4>2. CASE m \in queue[c]
        BY <3>7, <4>2
      <4>3. CASE m \in fresh
        BY <3>2, <4>1, <4>3
      <4> QED
        BY <3>4, <4>2, <4>3
    <3>14. ASSUME phase[c] \in {"DRAIN", "LIVE"}, NEW n \in Held(c)', NEW m \in Due(c), m < n
           PROVE  m \in Held(c)'
      <4>1. m \in V /\ m \in Nat /\ n \in Nat /\ n <= cursor'[w]
        BY <3>1, <3>8, <3>11
      <4>2. CASE c \notin reset /\ queue'[c] = queue[c] \union fresh
        <5>1. CASE m > cursor[w]
          <6>1. m <= cursor'[w]
            BY <3>2, <3>14, <4>1
          <6> QED
            BY <3>2, <3>9, <4>1, <4>2, <5>1, <6>1
        <5>2. CASE ~ (m > cursor[w])
          <6>1. m \in Held(c)
            BY <2>1, <2>4, <3>14, <4>2, <5>2 DEF SeamOK
          <6> QED
            BY <3>9, <4>2, <6>1
        <5> QED
          BY <5>1, <5>2
      <4>3. CASE queue'[c] = {}
        <5>1. n \in backlog[c] /\ n \in Held(c)
          BY <3>9, <4>3
        <5>2. m \in Held(c)
          BY <3>7, <3>14, <5>1
        <5>3. m \notin queue[c]
          <6> SUFFICES ASSUME m \in queue[c] PROVE FALSE
            OBVIOUS
          <6>1. n < m
            BY <3>7, <5>1
          <6> QED
            BY <3>14, <4>1, <6>1
        <5> QED
          BY <3>9, <5>2, <5>3
      <4>4. CASE queue'[c] = queue[c]
        <5>1. Held(c)' = Held(c)
          BY <3>9, <4>4
        <5> QED
          BY <3>7, <3>14, <5>1
      <4> QED
        BY <3>3, <4>2, <4>3, <4>4
    <3>15. BufferOK(c)'
      BY <1>1, <2>4, <3>1, <3>7, <3>8, <3>11, <3>12, <3>13, <3>14 DEF BufferOK, V
    <3>16. SeamOK(c)'
      <4> SUFFICES ASSUME c \notin reset', NEW n \in Due(c), ~ (n > cursor'[w])
                   PROVE  \/ n \in Held(c)'
                          \/ phase[c] = "SUBSCRIBED"
                          \/ phase[c] = "REPLAY" /\ n <= high[c]
        BY <1>1, <2>4, <3>8 DEF SeamOK
      <4>0. n \in V /\ n \in Nat
        BY <3>1, <3>8
      <4>1. n \in V /\ n \in Nat /\ n <= cursor'[w]
        BY <3>2, <4>0
      <4>2. c \notin reset /\ queue'[c] = queue[c] \union fresh
        BY <1>1, <3>3
      <4>3. CASE n > cursor[w]
        BY <3>2, <3>9, <4>1, <4>2, <4>3
      <4>4. CASE ~ (n > cursor[w])
        BY <2>1, <2>4, <3>9, <4>2, <4>4 DEF SeamOK
      <4> QED
        BY <4>3, <4>4
    <3> QED
      BY <3>5, <3>6, <3>15, <3>16 DEF ClientOK
  <2> QED
    BY <2>2, <2>3, <2>4
<1> QED
  BY <1>3, <1>4

-----------------------------------------------------------------------------
(* Steps of a stream *)

\* A step of one stream leaves the hubs and the other streams alone.
LEMMA OwnStep ==
    ASSUME StreamInv, NEW c \in Clients, UNCHANGED <<seq, up, cursor, batch, drain>>,
           \A d \in Clients \ {c} :
              /\ phase'[d] = phase[d] /\ home'[d] = home[d] /\ acked'[d] = acked[d] /\ high'[d] = high[d]
              /\ page'[d] = page[d] /\ backlog'[d] = backlog[d] /\ queue'[d] = queue[d]
              /\ base'[d] = base[d] /\ received'[d] = received[d] /\ (d \in reset => d \in reset'),
           ClientOK(c)'
    PROVE  /\ \A v \in Workers : HubOK(v)'
           /\ \A d \in Clients : ClientOK(d)'
<1>1. \A v \in Workers : HubOK(v)'
  BY HubKept DEF StreamInv, HubOK
<1>2. ASSUME NEW d \in Clients, d # c PROVE ClientOK(d)'
  <2>1. phase[d] # "OFF" => home[d] \in up
    BY DEF StreamInv, ClientOK, MarksOK
  <2> QED
    BY <1>2, <2>1, ClientKept
<1> QED
  BY <1>1, <1>2

LEMMA SubscribeKeepsStreams ==
    ASSUME StreamInv, NEW c \in Clients, NEW w \in Workers, Subscribe(c, w)
    PROVE  /\ \A v \in Workers : HubOK(v)'
           /\ \A d \in Clients : ClientOK(d)'
<1>1. StreamTyped /\ Inv /\ ClientOK(c) /\ HubOK(w) /\ OrgOf[c] \in Orgs
  BY StreamConstants DEF StreamInv
<1>2. /\ UNCHANGED <<seq, up, cursor, batch, drain, acked, high, received>> /\ w \in up
      /\ home'[c] = w
      /\ phase'[c] = IF acked[c] = NoEventId THEN "DRAIN" ELSE "SUBSCRIBED"
      /\ base'[c] = IF acked[c] = NoEventId THEN cursor[w] ELSE base[c]
      /\ queue'[c] = {} /\ backlog'[c] = {} /\ page'[c] = {}
  BY <1>1 DEF Subscribe, outbox, process, hub, StreamTyped
<1>3. \A d \in Clients \ {c} :
              /\ phase'[d] = phase[d] /\ home'[d] = home[d] /\ acked'[d] = acked[d] /\ high'[d] = high[d]
              /\ page'[d] = page[d] /\ backlog'[d] = backlog[d] /\ queue'[d] = queue[d]
              /\ base'[d] = base[d] /\ received'[d] = received[d] /\ (d \in reset => d \in reset')
  BY <1>1 DEF Subscribe, StreamTyped
<1> DEFINE V == VisibleTo(OrgOf[c])
<1>4. V' = V /\ V \subseteq Nat /\ \A k : Reached(k)' <=> Reached(k)
  BY <1>1, <1>2, SameOutbox, VisibleFacts
<1> HIDE DEF V
<1>5. /\ Reached(acked[c]) /\ Reached(base[c]) /\ Reached(cursor[w]) /\ cursor[w] \in Nat /\ base[c] \in Nat
      /\ Ascending(received[c]) /\ Range(received[c]) = {n \in V : n > base[c] /\ n <= acked[c]}
      /\ acked[c] # NoEventId => acked[c] > base[c]
  BY <1>1 DEF ClientOK, MarksOK, HubOK, StreamTyped, V
<1>6. Range(received[c]) = {n \in V : n > base'[c] /\ n <= acked[c]}
  <2>1. CASE acked[c] = NoEventId
    <3>1. \A n \in V : ~ (n <= acked[c])
      BY <1>4, <2>1 DEF NoEventId
    <3> QED
      BY <1>5, <3>1
  <2>2. CASE acked[c] # NoEventId
    BY <1>2, <1>5, <2>2
  <2> QED
    BY <2>1, <2>2
<1>7. Reached(base'[c])
  BY <1>2, <1>5
<1>8. MarksOK(c)'
  <2>1. Visible' = Visible /\ (acked[c] # NoEventId => acked[c] > base'[c])
    BY <1>2, <1>5, SameOutbox
  <2> QED
    BY <1>2, <1>4, <1>5, <1>6, <1>7, <2>1 DEF MarksOK, V, Reached
<1>9. Held(c)' = {}
  BY <1>2 DEF Held
<1>10. ReplayOK(c)'
  BY <1>2 DEF ReplayOK
<1>11. BufferOK(c)'
  BY <1>2, <1>5, <1>9 DEF BufferOK
<1>12. SeamOK(c)'
  BY <1>2 DEF SeamOK, Due
<1>13. ClientOK(c)'
  BY <1>8, <1>10, <1>11, <1>12 DEF ClientOK
<1> QED
  BY <1>2, <1>3, <1>13, OwnStep

\* What the steps of a connected stream start from.
LEMMA StreamFacts ==
    ASSUME StreamInv, NEW c \in Clients
    PROVE  /\ Inv /\ StreamTyped /\ MarksOK(c) /\ ReplayOK(c) /\ BufferOK(c) /\ SeamOK(c)
           /\ VisibleTo(OrgOf[c]) \subseteq Nat /\ VisibleTo(OrgOf[c]) \subseteq Visible
           /\ IsFiniteSet(VisibleTo(OrgOf[c]))
           /\ acked[c] \in Int /\ base[c] \in Nat /\ high[c] \in Nat
           /\ seq' = seq => VisibleTo(OrgOf[c])' = VisibleTo(OrgOf[c])
           /\ phase[c] # "OFF" => cursor[home[c]] \in Nat
<1>1. OrgOf[c] \in Orgs /\ Inv /\ StreamTyped /\ ClientOK(c)
  BY StreamConstants DEF StreamInv
<1>2. /\ VisibleTo(OrgOf[c]) \subseteq Nat /\ VisibleTo(OrgOf[c]) \subseteq Visible
      /\ IsFiniteSet(VisibleTo(OrgOf[c]))
  BY <1>1, VisibleFacts, FS_Subset
<1>3. /\ acked[c] \in Int /\ base[c] \in Nat /\ high[c] \in Nat
      /\ phase[c] # "OFF" => cursor[home[c]] \in Nat
  BY <1>1 DEF StreamTyped, ClientOK, MarksOK, NoEventId
<1>4. seq' = seq => VisibleTo(OrgOf[c])' = VisibleTo(OrgOf[c])
  BY <1>1, SameOutbox
<1> QED
  BY <1>1, <1>2, <1>3, <1>4 DEF ClientOK

LEMMA HighWaterKeepsStreams ==
    ASSUME StreamInv, NEW c \in Clients, CaptureHighWater(c)
    PROVE  /\ \A v \in Workers : HubOK(v)'
           /\ \A d \in Clients : ClientOK(d)'
<1>1. /\ UNCHANGED <<seq, up, cursor, batch, drain, home, acked, page, backlog, queue, reset, base, received>>
      /\ phase[c] = "SUBSCRIBED" /\ phase'[c] = "REPLAY" /\ high'[c] = MaxVisible
      /\ \A d \in Clients \ {c} : phase'[d] = phase[d] /\ high'[d] = high[d]
  BY StreamFacts DEF CaptureHighWater, outbox, process, hub, StreamTyped
<1>2. VisibleTo(OrgOf[c])' = VisibleTo(OrgOf[c])
  BY <1>1, StreamFacts
<1>3. \A n \in VisibleTo(OrgOf[c]) : n <= MaxVisible
  BY StreamFacts, MaxVisibleFacts
<1>4. MarksOK(c) /\ ReplayOK(c) /\ BufferOK(c)
  BY StreamFacts
<1>5. MarksOK(c)'
  BY <1>1, <1>2, <1>4, SameOutbox DEF MarksOK
<1>6. ReplayOK(c)'
  BY <1>1, <1>4 DEF ReplayOK
<1>7. BufferOK(c)'
  BY <1>1, <1>2, <1>4 DEF BufferOK, Held
<1>8. SeamOK(c)'
  BY <1>1, <1>2, <1>3 DEF SeamOK, Due
<1> QED
  BY <1>1, <1>5, <1>6, <1>7, <1>8, OwnStep DEF ClientOK

LEMMA FetchPageKeepsStreams ==
    ASSUME StreamInv, NEW c \in Clients, FetchPage(c)
    PROVE  /\ \A v \in Workers : HubOK(v)'
           /\ \A d \in Clients : ClientOK(d)'
<1> DEFINE V == VisibleTo(OrgOf[c])
           missed == IF acked[c] < high[c] THEN Lowest(Missed(c), BatchSize) ELSE {}
<1>1. /\ UNCHANGED <<seq, up, cursor, batch, drain, home, acked, high, backlog, queue, reset, base, received>>
      /\ phase[c] = "REPLAY" /\ c \notin reset /\ page'[c] = missed
      /\ phase'[c] = IF missed = {} THEN "DRAIN" ELSE "REPLAY"
      /\ \A d \in Clients \ {c} : phase'[d] = phase[d] /\ page'[d] = page[d]
  BY StreamFacts DEF FetchPage, outbox, process, hub, StreamTyped
<1>2. /\ V' = V /\ V \subseteq Nat /\ acked[c] \in Int /\ high[c] \in Nat
      /\ cursor[home[c]] \in Nat
  BY <1>1, StreamFacts
<1>3. Missed(c) = {n \in V : n > acked[c] /\ n <= high[c]}
  BY DEF Missed
<1>4. Missed(c) \subseteq Nat /\ IsFiniteSet(Missed(c))
  BY <1>3, StreamFacts, FS_Subset
<1>5. /\ Lowest(Missed(c), BatchSize) \subseteq Missed(c)
      /\ \A n \in Lowest(Missed(c), BatchSize), m \in Missed(c) : m < n => m \in Lowest(Missed(c), BatchSize)
      /\ Missed(c) # {} => Lowest(Missed(c), BatchSize) # {}
  BY <1>4, LowestOf, StreamConstants
<1>6. /\ missed \subseteq Missed(c)
      /\ \A n \in missed, m \in Missed(c) : m < n => m \in missed
  BY <1>5
<1>7. missed = {} => Missed(c) = {}
  <2>1. CASE acked[c] < high[c]
    BY <1>5, <2>1
  <2>2. CASE ~ (acked[c] < high[c])
    <3>1. \A n \in V : ~ (n > acked[c] /\ n <= high[c])
      BY <1>2, <2>2
    <3> QED
      BY <1>3, <3>1
  <2> QED
    BY <2>1, <2>2
<1> HIDE DEF missed, V
<1>8. /\ MarksOK(c) /\ BufferOK(c) /\ SeamOK(c) /\ ReplayOK(c)
  BY StreamFacts
<1>9. MarksOK(c)'
  BY <1>1, <1>2, <1>8, SameOutbox DEF MarksOK, V
<1>10. ReplayOK(c)'
  <2>1. \A n \in missed : n \in V /\ n > acked[c] /\ n <= high[c]
    BY <1>3, <1>6
  <2>2. ASSUME NEW n \in missed, NEW m \in V, m > acked[c], m < n PROVE m \in missed
    <3>1. m \in Nat /\ n \in Nat /\ n <= high[c]
      BY <1>2, <2>1
    <3>2. m <= high[c]
      BY <1>2, <2>2, <3>1
    <3> QED
      BY <1>3, <1>6, <2>2, <3>2
  <2> QED
    BY <1>1, <1>2, <1>8, <2>1, <2>2 DEF ReplayOK, V
<1>11. ASSUME Missed(c) = {}, NEW m \in Due(c), ~ (m > cursor[home[c]]) PROVE m \in Held(c)
  <2>1. m \in V /\ m > acked[c]
    BY DEF Due, V
  <2>2. ~ (m <= high[c])
    BY <1>3, <1>11, <2>1
  <2> QED
    BY <1>1, <1>8, <1>11, <2>2 DEF SeamOK
<1>12. Due(c)' = Due(c) /\ Held(c)' = Held(c) /\ Due(c) \subseteq V
  BY <1>1, <1>2 DEF Due, Held, V
<1>13. BufferOK(c)'
  <2>1. /\ Held(c) \subseteq V /\ (\A n \in Held(c) : n <= cursor[home[c]])
        /\ acked[c] = NoEventId => base[c] <= cursor[home[c]] /\ \A n \in Held(c) : n > base[c]
        /\ \A n \in backlog[c], m \in queue[c] : n < m
        /\ backlog[c] = {}
    BY <1>1, <1>8 DEF BufferOK, V
  <2>2. ASSUME Missed(c) = {}, NEW n \in Held(c), NEW m \in Due(c), m < n PROVE m \in Held(c)
    <3>1. m \in Nat /\ n \in Nat /\ n <= cursor[home[c]]
      BY <1>2, <1>12, <2>1
    <3>2. ~ (m > cursor[home[c]])
      BY <1>2, <2>2, <3>1
    <3> QED
      BY <1>11, <2>2, <3>2
  <2> QED
    BY <1>1, <1>2, <1>7, <1>12, <2>1, <2>2 DEF BufferOK, V
<1>14. SeamOK(c)'
  <2>1. CASE missed = {}
    BY <1>1, <1>7, <1>11, <1>12, <2>1 DEF SeamOK
  <2>2. CASE missed # {}
    BY <1>1, <1>8, <1>12, <2>2 DEF SeamOK
  <2> QED
    BY <2>1, <2>2
<1> QED
  BY <1>1, <1>9, <1>10, <1>13, <1>14, OwnStep DEF ClientOK

\* A frame behind all others keeps what was sent in order.
LEMMA OneMoreSent ==
    ASSUME NEW s \in Seq(Nat), NEW n \in Nat, Ascending(s), \A m \in Range(s) : m < n
    PROVE  Ascending(Append(s, n)) /\ Range(Append(s, n)) = Range(s) \union {n}
<1> DEFINE t == Append(s, n)
<1>1. /\ Len(s) \in Nat /\ DOMAIN s = 1 .. Len(s) /\ DOMAIN t = 1 .. (Len(s) + 1)
      /\ t[Len(s) + 1] = n /\ \A i \in 1 .. Len(s) : t[i] = s[i]
  OBVIOUS
<1>2. \A i \in 1 .. Len(s) : s[i] \in Nat /\ s[i] < n
  BY <1>1 DEF Range
<1> HIDE DEF t
<1>3. Ascending(t)
  BY <1>1, <1>2 DEF Ascending
<1>4. \A m : m \in Range(t) <=> m \in Range(s) \/ m = n
  <2>1. 1 .. (Len(s) + 1) = (1 .. Len(s)) \union {Len(s) + 1}
    BY <1>1
  <2> QED
    BY <1>1, <2>1 DEF Range
<1> QED
  BY <1>3, <1>4 DEF t

\* Sending the next number of a stream leaves no hole behind it.
LEMMA SendFillsNoHole ==
    ASSUME StreamInv, NEW c \in Clients, NEW n \in VisibleTo(OrgOf[c]), n > acked[c], n > base[c],
           \A m \in Due(c) : ~ (m < n),
           Send(c, n), UNCHANGED <<seq, up, base, phase, home>>
    PROVE  /\ MarksOK(c)' /\ acked'[c] = n /\ acked'[c] # NoEventId
           /\ \A d \in Clients \ {c} : acked'[d] = acked[d] /\ received'[d] = received[d]
           /\ Due(c)' \subseteq Due(c) /\ n \notin Due(c)'
           /\ \A m \in Due(c) : m # n => m \in Due(c)'
<1> DEFINE V == VisibleTo(OrgOf[c])
<1>1. /\ V' = V /\ V \subseteq Nat /\ n \in V /\ n \in Nat /\ n \in Visible
      /\ acked[c] \in Int /\ base[c] \in Nat
      /\ MarksOK(c) /\ Visible' = Visible
  BY StreamFacts, SameOutbox
<1>2. /\ acked'[c] = n /\ received'[c] = Append(received[c], n) /\ base'[c] = base[c]
      /\ \A d \in Clients \ {c} : acked'[d] = acked[d] /\ received'[d] = received[d]
  BY StreamFacts DEF Send, StreamTyped
<1> HIDE DEF V
<1>3. Due(c) = {m \in V : m > acked[c] /\ m > base[c]} /\ Due(c)' = {m \in V : m > n /\ m > base[c]}
  BY <1>1, <1>2 DEF Due, V
<1>4. ASSUME NEW m \in V PROVE (m > base[c] /\ m <= n) <=> (m > base[c] /\ m <= acked[c]) \/ m = n
  <2>1. m \in Nat /\ ~ (m > acked[c] /\ m > base[c] /\ m < n)
    BY <1>1, <1>3
  <2> QED
    BY <1>1, <2>1
<1>5. Ascending(received'[c]) /\ Range(received'[c]) = {m \in V : m > base[c] /\ m <= n}
  <2>1. Ascending(received[c]) /\ Range(received[c]) = {m \in V : m > base[c] /\ m <= acked[c]}
    BY <1>1 DEF MarksOK, V
  <2>2. received[c] \in Seq(Nat)
    BY StreamFacts DEF StreamTyped
  <2>3. ASSUME NEW m \in Range(received[c]) PROVE m \in Nat /\ m < n
    <3>1. m \in Nat /\ m <= acked[c] /\ n > acked[c]
      BY <1>1, <2>1
    <3> QED
      BY <1>1, <3>1
  <2>4. Ascending(received'[c]) /\ Range(received'[c]) = Range(received[c]) \union {n}
    BY <1>1, <1>2, <2>1, <2>2, <2>3, OneMoreSent
  <2> QED
    BY <1>1, <1>4, <2>1, <2>4
<1>6. MarksOK(c)'
  <2>1. /\ \E m \in Visible' : n <= m
        /\ Reached(base[c]) /\ (phase[c] # "OFF" => home[c] \in up)
    BY <1>1 DEF MarksOK
  <2> QED
    BY <1>1, <1>2, <1>5, <2>1 DEF MarksOK, Reached, V
<1>7. Due(c)' \subseteq Due(c) /\ n \notin Due(c)'
  <2>1. ASSUME NEW m \in V, m > n PROVE m > acked[c] /\ m # n
    <3>1. m \in Nat /\ n \in Nat /\ acked[c] \in Int
      BY <1>1
    <3> QED
      BY <2>1, <3>1
  <2> QED
    BY <1>3, <2>1
<1>8. ASSUME NEW m \in Due(c), m # n PROVE m \in Due(c)'
  <2>1. m \in V /\ m \in Nat /\ m > base[c] /\ ~ (m < n)
    BY <1>1, <1>3
  <2>2. m > n
    BY <1>1, <1>8, <2>1
  <2> QED
    BY <1>3, <2>1, <2>2
<1> QED
  BY <1>1, <1>2, <1>6, <1>7, <1>8 DEF NoEventId

\* Replay sends the next event the client has not been sent.
LEMMA ReplayInOrder ==
    ASSUME StreamInv, NEW c \in Clients, ReplayNext(c)
    PROVE  LET n == Least(page[c]) IN
           /\ n \in page[c] /\ \A m \in page[c] : n <= m
           /\ n \in VisibleTo(OrgOf[c]) /\ n \in Nat /\ n > acked[c] /\ n > base[c]
           /\ \A m \in Due(c) : ~ (m < n)
<1> DEFINE V == VisibleTo(OrgOf[c])
           n == Least(page[c])
<1>1. phase[c] = "REPLAY" /\ page[c] # {}
  BY DEF ReplayNext
<1>2. V \subseteq Nat /\ acked[c] \in Int /\ base[c] \in Nat /\ MarksOK(c)
  BY StreamFacts
<1>3. /\ acked[c] # NoEventId /\ page[c] \subseteq V
      /\ \A k \in page[c] : k > acked[c]
      /\ \A k \in page[c], m \in V : m > acked[c] /\ m < k => m \in page[c]
  BY <1>1, StreamFacts DEF ReplayOK
<1>4. n \in page[c] /\ \A m \in page[c] : n <= m
  BY <1>1, <1>2, <1>3, LeastOf
<1> HIDE DEF n, V
<1>5. n \in V /\ n \in Nat /\ n > acked[c] /\ n > base[c]
  <2>1. acked[c] > base[c]
    BY <1>2, <1>3 DEF MarksOK
  <2>2. n \in V /\ n \in Nat /\ n > acked[c]
    BY <1>2, <1>3, <1>4
  <2> QED
    BY <1>2, <2>1, <2>2
<1>6. ASSUME NEW m \in Due(c) PROVE ~ (m < n)
  <2>1. m \in V /\ m \in Nat /\ m > acked[c]
    BY <1>2 DEF Due, V
  <2>2. m < n => m \in page[c] /\ n <= m
    BY <1>3, <1>4, <2>1
  <2> QED
    BY <1>5, <2>1, <2>2
<1> QED
  BY <1>4, <1>5, <1>6 DEF n, V

LEMMA ReplayNextKeepsStreams ==
    ASSUME StreamInv, NEW c \in Clients, ReplayNext(c)
    PROVE  /\ \A v \in Workers : HubOK(v)'
           /\ \A d \in Clients : ClientOK(d)'
<1> DEFINE V == VisibleTo(OrgOf[c])
           n == Least(page[c])
<1>1. /\ UNCHANGED <<seq, up, cursor, batch, drain, phase, home, high, backlog, queue, reset, base>>
      /\ phase[c] = "REPLAY" /\ c \notin reset /\ page[c] # {} /\ Send(c, n)
      /\ page'[c] = page[c] \ {n}
      /\ \A d \in Clients \ {c} : page'[d] = page[d]
  BY StreamFacts DEF ReplayNext, outbox, process, hub, StreamTyped
<1>2. /\ V' = V /\ V \subseteq Nat /\ acked[c] \in Int /\ base[c] \in Nat
      /\ MarksOK(c) /\ BufferOK(c) /\ SeamOK(c)
  BY <1>1, StreamFacts
<1>3. /\ acked[c] # NoEventId /\ page[c] \subseteq V
      /\ \A k \in page[c] : k > acked[c]
      /\ \A k \in page[c], m \in V : m > acked[c] /\ m < k => m \in page[c]
  BY <1>1, StreamFacts DEF ReplayOK
<1>4. /\ n \in page[c] /\ \A m \in page[c] : n <= m
      /\ n \in V /\ n \in Nat /\ n > acked[c] /\ n > base[c]
      /\ \A m \in Due(c) : ~ (m < n)
  BY ReplayInOrder
<1> HIDE DEF n, V
<1>5. /\ MarksOK(c)' /\ acked'[c] = n /\ acked'[c] # NoEventId
      /\ \A d \in Clients \ {c} : acked'[d] = acked[d] /\ received'[d] = received[d]
      /\ Due(c)' \subseteq Due(c)
  BY <1>1, <1>4, SendFillsNoHole DEF V
<1>6. ReplayOK(c)'
  <2>1. \A k \in page'[c] : k \in V /\ k > n
    <3> SUFFICES ASSUME NEW k \in page[c], k # n PROVE k \in V /\ k > n
      BY <1>1
    <3>1. k \in V /\ k \in Nat /\ n <= k
      BY <1>2, <1>3, <1>4
    <3> QED
      BY <1>4, <3>1
  <2>2. ASSUME NEW k \in page'[c], NEW m \in V, m > n, m < k PROVE m \in page'[c]
    <3>1. m \in Nat /\ m > acked[c] /\ m # n
      BY <1>2, <1>4, <2>2
    <3> QED
      BY <1>1, <1>3, <2>2, <3>1
  <2> QED
    BY <1>1, <1>2, <1>5, <2>1, <2>2 DEF ReplayOK, V
<1>7. BufferOK(c)'
  BY <1>1, <1>2, <1>5 DEF BufferOK, Held, V
<1>8. SeamOK(c)'
  BY <1>1, <1>2, <1>5 DEF SeamOK, Held
<1> QED
  BY <1>1, <1>5, <1>6, <1>7, <1>8, OwnStep DEF ClientOK

LEMMA GoLiveKeepsStreams ==
    ASSUME StreamInv, NEW c \in Clients, GoLive(c)
    PROVE  /\ \A v \in Workers : HubOK(v)'
           /\ \A d \in Clients : ClientOK(d)'
<1>1. /\ UNCHANGED <<seq, up, cursor, batch, drain, home, acked, high, page, reset, base, received>>
      /\ phase[c] = "DRAIN" /\ phase'[c] = "LIVE" /\ backlog'[c] = queue[c] /\ queue'[c] = {}
      /\ \A d \in Clients \ {c} : phase'[d] = phase[d] /\ backlog'[d] = backlog[d] /\ queue'[d] = queue[d]
  BY StreamFacts DEF GoLive, Drained, outbox, process, hub, StreamTyped
<1>2. /\ VisibleTo(OrgOf[c])' = VisibleTo(OrgOf[c])
      /\ MarksOK(c) /\ ReplayOK(c) /\ BufferOK(c) /\ SeamOK(c)
  BY <1>1, StreamFacts
<1>3. Held(c)' = Held(c) /\ Due(c)' = Due(c)
  BY <1>1, <1>2 DEF Held, Due, BufferOK
<1>4. MarksOK(c)'
  BY <1>1, <1>2, SameOutbox DEF MarksOK
<1>5. ReplayOK(c)'
  BY <1>1 DEF ReplayOK
<1>6. BufferOK(c)'
  BY <1>1, <1>2, <1>3 DEF BufferOK
<1>7. SeamOK(c)'
  BY <1>1, <1>2, <1>3 DEF SeamOK
<1> QED
  BY <1>1, <1>4, <1>5, <1>6, <1>7, OwnStep DEF ClientOK

\* So does live delivery, unless replay has sent the event already.
LEMMA LiveInOrder ==
    ASSUME StreamInv, NEW c \in Clients, LiveNext(c)
    PROVE  LET source == IF backlog[c] # {} THEN backlog[c] ELSE queue[c]
               n == Least(source) IN
           /\ n \in source
           /\ n \in Held(c) /\ n \in VisibleTo(OrgOf[c]) /\ n \in Nat
           /\ \A m \in Held(c) : m \in Nat /\ ~ (m < n)
           /\ ~ (n <= acked[c]) => n > acked[c] /\ n > base[c] /\ \A m \in Due(c) : ~ (m < n)
<1> DEFINE V == VisibleTo(OrgOf[c])
           source == IF backlog[c] # {} THEN backlog[c] ELSE queue[c]
           n == Least(source)
<1>1. phase[c] = "LIVE" /\ source # {}
  BY DEF LiveNext
<1>2. V \subseteq Nat /\ acked[c] \in Int /\ base[c] \in Nat /\ MarksOK(c) /\ BufferOK(c)
  BY StreamFacts
<1>3. /\ Held(c) \subseteq V
      /\ acked[c] = NoEventId => \A k \in Held(c) : k > base[c]
      /\ \A k \in backlog[c], m \in queue[c] : k < m
      /\ \A k \in Held(c), m \in Due(c) : m < k => m \in Held(c)
  BY <1>1, <1>2 DEF BufferOK
<1>4. Held(c) = queue[c] \union backlog[c]
  BY DEF Held
<1>5. source \subseteq Held(c) /\ source \subseteq Nat
  BY <1>2, <1>3, <1>4
<1>6. n \in source /\ \A m \in source : n <= m
  BY <1>1, <1>5, LeastOf
<1> HIDE DEF n, V
<1>7. n \in Held(c) /\ n \in V /\ n \in Nat /\ \A m \in Held(c) : m \in Nat /\ ~ (m < n)
  <2>1. n \in Held(c) /\ n \in V /\ n \in Nat
    BY <1>2, <1>3, <1>5, <1>6
  <2>2. ASSUME NEW m \in Held(c) PROVE m \in Nat /\ ~ (m < n)
    <3>1. m \in Nat /\ (m \in source \/ (n \in backlog[c] /\ m \in queue[c]))
      BY <1>2, <1>3, <1>4, <1>6
    <3>2. n <= m \/ n < m
      BY <1>3, <1>6, <3>1
    <3> QED
      BY <2>1, <3>1, <3>2
  <2> QED
    BY <2>1, <2>2
<1> HIDE DEF source
<1>8. ASSUME ~ (n <= acked[c]) PROVE n > acked[c] /\ n > base[c] /\ \A m \in Due(c) : ~ (m < n)
  <2>1. n > acked[c]
    BY <1>2, <1>7, <1>8
  <2>2. n > base[c]
    <3>1. CASE acked[c] = NoEventId
      BY <1>3, <1>7, <3>1
    <3>2. CASE acked[c] # NoEventId
      <4>1. acked[c] > base[c]
        BY <1>2, <3>2 DEF MarksOK
      <4> QED
        BY <1>2, <1>7, <2>1, <4>1
    <3> QED
      BY <3>1, <3>2
  <2>3. \A m \in Due(c) : ~ (m < n)
    BY <1>3, <1>7
  <2> QED
    BY <2>1, <2>2, <2>3
<1> QED
  BY <1>6, <1>7, <1>8 DEF n, V, source

LEMMA LiveNextKeepsStreams ==
    ASSUME StreamInv, NEW c \in Clients, LiveNext(c)
    PROVE  /\ \A v \in Workers : HubOK(v)'
           /\ \A d \in Clients : ClientOK(d)'
<1> DEFINE V == VisibleTo(OrgOf[c])
           source == IF backlog[c] # {} THEN backlog[c] ELSE queue[c]
           n == Least(source)
<1>1. /\ UNCHANGED <<seq, up, cursor, batch, drain, phase, home, high, page, reset, base>>
      /\ phase[c] = "LIVE" /\ source # {}
      /\ IF n <= acked[c] THEN UNCHANGED <<acked, received>> ELSE Send(c, n)
      /\ IF backlog[c] # {} THEN backlog'[c] = backlog[c] \ {n} /\ queue'[c] = queue[c]
                            ELSE queue'[c] = queue[c] \ {n} /\ backlog'[c] = backlog[c]
      /\ \A d \in Clients \ {c} : backlog'[d] = backlog[d] /\ queue'[d] = queue[d]
  BY StreamFacts DEF LiveNext, AlreadySent, outbox, process, hub, StreamTyped
<1>2. /\ V' = V /\ V \subseteq Nat /\ acked[c] \in Int /\ base[c] \in Nat
      /\ MarksOK(c) /\ ReplayOK(c) /\ BufferOK(c) /\ SeamOK(c)
  BY <1>1, StreamFacts
<1>3. /\ Held(c) \subseteq V /\ \A k \in Held(c) : k <= cursor[home[c]]
      /\ acked[c] = NoEventId => base[c] <= cursor[home[c]] /\ \A k \in Held(c) : k > base[c]
      /\ \A k \in backlog[c], m \in queue[c] : k < m
      /\ \A k \in Held(c), m \in Due(c) : m < k => m \in Held(c)
  BY <1>1, <1>2 DEF BufferOK
<1>4. Held(c) = queue[c] \union backlog[c] /\ Held(c)' = queue'[c] \union backlog'[c]
  BY DEF Held
<1>5. /\ n \in source
      /\ n \in Held(c) /\ n \in V /\ n \in Nat
      /\ \A m \in Held(c) : m \in Nat /\ ~ (m < n)
      /\ ~ (n <= acked[c]) => n > acked[c] /\ n > base[c] /\ \A m \in Due(c) : ~ (m < n)
  BY LiveInOrder
<1> HIDE DEF n, V
<1>6. Held(c)' = Held(c) \ {n}
  <2>1. CASE backlog[c] # {}
    <3>1. n \in backlog[c]
      BY <1>5, <2>1
    <3>2. n \notin queue[c]
      <4> SUFFICES ASSUME n \in queue[c] PROVE FALSE
        OBVIOUS
      <4>1. n < n
        BY <1>3, <3>1
      <4> QED
        BY <1>5, <4>1
    <3> QED
      BY <1>1, <1>4, <2>1, <3>2
  <2>2. CASE backlog[c] = {}
    BY <1>1, <1>4, <2>2
  <2> QED
    BY <2>1, <2>2
<1>7. backlog'[c] \subseteq backlog[c] /\ queue'[c] \subseteq queue[c]
  BY <1>1
<1> HIDE DEF source
<1>8. CASE n <= acked[c]
  <2>1. UNCHANGED <<acked, received>>
    BY <1>1, <1>8
  <2>2. Due(c)' = Due(c) /\ n \notin Due(c)
    <3>1. ~ (n > acked[c])
      BY <1>2, <1>5, <1>8
    <3> QED
      BY <1>1, <1>2, <2>1, <3>1 DEF Due, V
  <2>3. MarksOK(c)'
    BY <1>1, <1>2, <2>1, SameOutbox DEF MarksOK, V
  <2>4. ReplayOK(c)'
    BY <1>1 DEF ReplayOK
  <2>5. BufferOK(c)'
    BY <1>1, <1>2, <1>3, <1>6, <1>7, <2>1, <2>2 DEF BufferOK, V
  <2>6. SeamOK(c)'
    BY <1>1, <1>2, <1>6, <2>2 DEF SeamOK
  <2> QED
    BY <1>1, <2>1, <2>3, <2>4, <2>5, <2>6, OwnStep DEF ClientOK
<1>9. CASE ~ (n <= acked[c])
  <2>1. n > acked[c] /\ n > base[c] /\ (\A m \in Due(c) : ~ (m < n)) /\ Send(c, n)
    BY <1>1, <1>5, <1>9
  <2>2. /\ MarksOK(c)' /\ acked'[c] = n /\ acked'[c] # NoEventId
        /\ \A d \in Clients \ {c} : acked'[d] = acked[d] /\ received'[d] = received[d]
        /\ Due(c)' \subseteq Due(c) /\ n \notin Due(c)'
    BY <1>1, <1>5, <2>1, SendFillsNoHole DEF V
  <2>3. ReplayOK(c)'
    BY <1>1 DEF ReplayOK
  <2>4. BufferOK(c)'
    BY <1>1, <1>2, <1>3, <1>6, <1>7, <2>2 DEF BufferOK, V
  <2>5. SeamOK(c)'
    BY <1>1, <1>2, <1>6, <2>2 DEF SeamOK
  <2> QED
    BY <1>1, <2>2, <2>3, <2>4, <2>5, OwnStep DEF ClientOK
<1> QED
  BY <1>8, <1>9

-----------------------------------------------------------------------------
(* The types of hubs and streams *)

LEMMA HubStepTyped ==
    ASSUME StreamInv, NEW w \in Workers, HubRead(w) \/ HubReadFails(w) \/ HubFanOut(w)
    PROVE  StreamTyped'
<1>1. StreamTyped /\ Visible \subseteq Nat
  BY VisibleFacts DEF StreamInv
<1>2. CASE HubRead(w)
  <2>1. Lowest(Unread(w), BatchSize) \subseteq Nat
    BY <1>1 DEF Lowest, Unread
  <2>2. batch' \in [Workers -> SUBSET Nat]
    BY <1>1, <1>2, <2>1 DEF HubRead, StreamTyped
  <2> QED
    BY <1>1, <1>2, <2>2 DEF HubRead, StreamTyped, process, stream
<1>3. CASE HubReadFails(w)
  BY <1>1, <1>3 DEF HubReadFails, StreamTyped, process, stream
<1>4. CASE HubFanOut(w)
  <2>1. cursor'[w] \in Nat /\ batch[w] \subseteq Nat
    BY <1>1, <1>4, CursorMoves
  <2>2. cursor' \in [Workers -> Nat]
    <3> DEFINE next == IF batch[w] = {} THEN cursor[w]
                       ELSE CHOOSE n \in batch[w] : \A m \in batch[w] : m <= n
    <3>1. cursor' = [cursor EXCEPT ![w] = next]
      BY <1>4 DEF HubFanOut
    <3> HIDE DEF next
    <3>2. next \in Nat
      BY <1>1, <2>1, <3>1 DEF StreamTyped
    <3> QED
      BY <1>1, <3>1, <3>2 DEF StreamTyped
  <2>3. \A c \in Clients, new \in SUBSET Nat : Enqueued(c, new).queue \in SUBSET Nat
    BY <1>1 DEF Enqueued, StreamTyped
  <2>4. queue' \in [Clients -> SUBSET Nat]
    <3> DEFINE New(c) == {n \in batch[w] : n \in VisibleTo(OrgOf[c])}
               audience == {c \in Clients \ reset : home[c] = w /\ New(c) # {}}
    <3>1. queue' = [c \in Clients |-> IF c \in audience THEN Enqueued(c, New(c)).queue ELSE queue[c]]
      BY <1>4 DEF HubFanOut
    <3>2. \A c \in Clients : New(c) \in SUBSET Nat /\ queue[c] \in SUBSET Nat
      BY <1>1, <2>1 DEF StreamTyped
    <3> HIDE DEF New, audience
    <3> QED
      BY <2>3, <3>1, <3>2
  <2>5. reset' \subseteq Clients
    BY <1>1, <1>4 DEF HubFanOut, StreamTyped
  <2>6. /\ batch' \in [Workers -> SUBSET Nat] /\ drain' \in [Workers -> {"IDLE", "READ", "MORE"}]
        /\ UNCHANGED <<up, phase, home, acked, high, page, backlog, base, received>>
    BY <1>1, <1>4 DEF HubFanOut, StreamTyped, process
  <2> QED
    BY <1>1, <2>2, <2>4, <2>5, <2>6 DEF StreamTyped
<1> QED
  BY <1>2, <1>3, <1>4

LEMMA StreamStepTyped ==
    ASSUME StreamInv, Streams
    PROVE  StreamTyped'
<1>1. Inv /\ StreamTyped /\ MaxVisible \in Nat
  BY MaxVisibleFacts DEF StreamInv
<1>2. ASSUME NEW c \in Clients, NEW w \in Workers, Subscribe(c, w) PROVE StreamTyped'
  BY <1>1, <1>2 DEF Subscribe, StreamTyped, process, hub
<1>3. ASSUME NEW c \in Clients, CaptureHighWater(c) PROVE StreamTyped'
  BY <1>1, <1>3 DEF CaptureHighWater, StreamTyped, process, hub
<1>4. ASSUME NEW c \in Clients, FetchPage(c) PROVE StreamTyped'
  <2> DEFINE missed == IF acked[c] < high[c] THEN Lowest(Missed(c), BatchSize) ELSE {}
  <2>1. missed \in SUBSET Nat
    BY StreamFacts DEF Lowest, Missed
  <2>2. /\ page' = [page EXCEPT ![c] = missed]
        /\ phase' = [phase EXCEPT ![c] = IF missed = {} THEN "DRAIN" ELSE "REPLAY"]
    BY <1>4 DEF FetchPage
  <2> HIDE DEF missed
  <2> QED
    BY <1>1, <1>4, <2>1, <2>2 DEF FetchPage, StreamTyped, process, hub
<1>5. ASSUME NEW c \in Clients, NEW n \in Nat, Send(c, n)
      PROVE  acked' \in [Clients -> Nat \union {NoEventId}] /\ received' \in [Clients -> Seq(Nat)]
  BY <1>1, <1>5 DEF Send, StreamTyped
<1>6. ASSUME NEW c \in Clients, ReplayNext(c) PROVE StreamTyped'
  <2>1. Least(page[c]) \in Nat /\ Send(c, Least(page[c]))
    <3>1. page[c] \subseteq Nat /\ page[c] # {}
      BY <1>1, <1>6 DEF ReplayNext, StreamTyped
    <3> QED
      BY <1>6, <3>1, LeastOf DEF ReplayNext
  <2>2. acked' \in [Clients -> Nat \union {NoEventId}] /\ received' \in [Clients -> Seq(Nat)]
    BY <1>5, <2>1
  <2> QED
    BY <1>1, <1>6, <2>2 DEF ReplayNext, StreamTyped, process, hub
<1>7. ASSUME NEW c \in Clients, GoLive(c) PROVE StreamTyped'
  BY <1>1, <1>7 DEF GoLive, Drained, StreamTyped, process, hub
<1>8. ASSUME NEW c \in Clients, LiveNext(c) PROVE StreamTyped'
  <2> DEFINE source == IF backlog[c] # {} THEN backlog[c] ELSE queue[c]
  <2>1. source \subseteq Nat /\ source # {}
    BY <1>1, <1>8 DEF LiveNext, StreamTyped
  <2>2. Least(source) \in Nat
    BY <2>1, LeastOf
  <2>3. \/ UNCHANGED <<acked, received>>
        \/ Send(c, Least(source))
    BY <1>8 DEF LiveNext
  <2> HIDE DEF source
  <2>4. acked' \in [Clients -> Nat \union {NoEventId}] /\ received' \in [Clients -> Seq(Nat)]
    <3>1. CASE UNCHANGED <<acked, received>>
      BY <1>1, <3>1 DEF StreamTyped
    <3>2. CASE Send(c, Least(source))
      BY <1>5, <2>2, <3>2
    <3> QED
      BY <2>3, <3>1, <3>2
  <2>5. backlog' \in [Clients -> SUBSET Nat] /\ queue' \in [Clients -> SUBSET Nat]
    <3>1. backlog \in [Clients -> SUBSET Nat] /\ queue \in [Clients -> SUBSET Nat]
      BY <1>1 DEF StreamTyped
    <3>2. PICK n : \/ backlog' = [backlog EXCEPT ![c] = @ \ {n}] /\ queue' = queue
                   \/ queue' = [queue EXCEPT ![c] = @ \ {n}] /\ backlog' = backlog
      BY <1>8 DEF LiveNext
    <3> QED
      BY <3>1, <3>2
  <2> QED
    BY <1>1, <1>8, <2>4, <2>5 DEF LiveNext, StreamTyped, process, hub
<1>9. ASSUME NEW c \in Clients, Close(c) PROVE StreamTyped'
  BY <1>1, <1>9 DEF Close, StreamTyped, process, hub
<1> QED
  BY <1>2, <1>3, <1>4, <1>6, <1>7, <1>8, <1>9 DEF Streams, SendReset, Disconnect

-----------------------------------------------------------------------------
(* The theorems *)

LEMMA StreamInit == Init => StreamInv
<1> SUFFICES ASSUME Init PROVE StreamInv
  OBVIOUS
<1>1. Inv
  BY InvInit
<1>2. StreamTyped
  BY DEF Init, StreamTyped, NoEventId
<1>3. Visible = {} /\ \A g \in Orgs : VisibleTo(g) = {}
  BY DEF Init, Visible, VisibleTo
<1>4. \A w \in Workers : HubOK(w)
  BY DEF Init, HubOK, Reached
<1>5. ASSUME NEW c \in Clients PROVE ClientOK(c)
  <2>1. VisibleTo(OrgOf[c]) = {} /\ phase[c] = "OFF" /\ received[c] = <<>> /\ acked[c] = NoEventId /\ base[c] = 0
    BY <1>3, StreamConstants DEF Init
  <2>2. Ascending(received[c]) /\ Range(received[c]) = {}
    BY <2>1 DEF Ascending, Range
  <2> QED
    BY <2>1, <2>2 DEF ClientOK, MarksOK, ReplayOK, BufferOK, SeamOK, Reached, NoEventId
<1> QED
  BY <1>1, <1>2, <1>4, <1>5 DEF StreamInv

LEMMA StreamStepInv == StreamInv /\ [Next]_vars => StreamInv'
<1> SUFFICES ASSUME StreamInv, [Next]_vars PROVE StreamInv'
  OBVIOUS
<1>1. Inv' /\ StreamTyped
  BY InvStep DEF StreamInv
<1> DEFINE Kept == StreamTyped' /\ (\A w \in Workers : HubOK(w)') /\ (\A c \in Clients : ClientOK(c)')
<1> SUFFICES Kept
  BY <1>1 DEF StreamInv
<1>2. ASSUME UNCHANGED <<seq, up, hub, stream>> PROVE Kept
  <2>1. StreamTyped'
    BY <1>1, <1>2 DEF StreamTyped, hub, stream
  <2> QED
    BY <1>2, <2>1, OthersKeepStreams DEF hub
<1>3. CASE Produce
  BY <1>2, <1>3 DEF Produce, Enqueue, CommitEvent, RollbackEvent, process
<1>4. CASE Connections
  <2>1. ASSUME NEW w \in Workers, NEW s \in Sessions, Start(w, s) PROVE Kept
    <3>1. StreamTyped'
      BY <1>1, <2>1, MaxVisibleFacts DEF Start, StreamTyped, StreamInv, stream
    <3> QED
      BY <2>1, <3>1, StartKeepsStreams
  <2>2. ASSUME NEW w \in Workers, Crash(w) PROVE Kept
    <3>1. StreamTyped'
      BY <1>1, <2>2 DEF Crash, StreamTyped
    <3> QED
      BY <2>2, <3>1, CrashKeepsStreams
  <2>3. ASSUME NEW w \in Workers, NEW s \in Sessions, Reconnect(w, s) PROVE Kept
    BY <1>2, <2>3 DEF Reconnect, outbox
  <2>4. ASSUME NEW w \in Workers, LoseConnection(w) PROVE Kept
    BY <1>2, <2>4 DEF LoseConnection, outbox
  <2>5. ASSUME NEW s \in Sessions, EndSession(s) PROVE Kept
    BY <1>2, <2>5 DEF EndSession, outbox, process
  <2> HIDE DEF Kept
  <2> QED
    BY <1>4, <2>1, <2>2, <2>3, <2>4, <2>5 DEF Connections
<1>5. CASE Sequencer
  <2>1. ASSUME NEW s \in Sessions, CommitAssignment(s) PROVE Kept
    <3>1. StreamTyped'
      BY <1>1, <2>1 DEF CommitAssignment, StreamTyped, process, hub, stream
    <3> QED
      BY <2>1, <3>1, CommitKeepsStreams
  <2>2. ASSUME NEW w \in Workers, AcquireLeadership(w) \/ AssignPending(w) PROVE Kept
    BY <1>2, <2>2 DEF AcquireLeadership, AssignPending, outbox, process
  <2> HIDE DEF Kept
  <2> QED
    BY <1>5, <2>1, <2>2 DEF Sequencer
<1>6. CASE Hubs
  <2>1. ASSUME NEW w \in Workers, HubRead(w) PROVE Kept
    BY <2>1, HubStepTyped, HubReadKeepsStreams
  <2>2. ASSUME NEW w \in Workers, HubReadFails(w) PROVE Kept
    <3>1. /\ UNCHANGED <<seq, up, cursor, batch, stream>>
          /\ \A v \in Workers : drain'[v] = "READ" => drain[v] = "READ"
      BY <1>1, <2>2 DEF HubReadFails, StreamTyped, outbox, process
    <3> QED
      BY <2>2, <3>1, HubStepTyped, OthersKeepStreams
  <2>3. ASSUME NEW w \in Workers, HubFanOut(w) PROVE Kept
    BY <2>3, HubStepTyped, FanOutKeepsStreams
  <2> HIDE DEF Kept
  <2> QED
    BY <1>6, <2>1, <2>2, <2>3 DEF Hubs
<1>7. CASE Streams
  <2>1. StreamTyped'
    BY <1>7, StreamStepTyped
  <2>2. /\ \A w \in Workers : HubOK(w)'
        /\ \A c \in Clients : ClientOK(c)'
    BY <1>7, SubscribeKeepsStreams, HighWaterKeepsStreams, FetchPageKeepsStreams, ReplayNextKeepsStreams,
       GoLiveKeepsStreams, LiveNextKeepsStreams, CloseKeepsStreams DEF Streams, SendReset, Disconnect
  <2> QED
    BY <2>1, <2>2
<1>8. CASE UNCHANGED vars
  BY <1>2, <1>8 DEF vars, hub, stream
<1> QED
  BY <1>3, <1>4, <1>5, <1>6, <1>7, <1>8 DEF Next

LEMMA AlwaysStreamInv == Spec => []StreamInv
  BY StreamInit, StreamStepInv, PTL DEF Spec

\* A stream has no hole: whatever workers crash, hubs fall behind, queues
\* overflow and clients reconnect, to any worker, a client was sent every event
\* of its organization between its first connection and its Last-Event-ID.
THEOREM StreamHasNoHole == Spec => []NoGap
<1>1. StreamInv => NoGap
  BY DEF StreamInv, ClientOK, MarksOK, NoGap
<1> QED BY <1>1, AlwaysStreamInv, PTL

\* The seam of replay and live delivery: what a connected stream has not sent
\* is ahead of its hub, in its hands, or in the range it will replay.
THEOREM SeamHolds == Spec => []NothingSlips
<1>1. StreamInv => NothingSlips
  BY DEF StreamInv, ClientOK, SeamOK, Due, Held, NothingSlips
<1> QED BY <1>1, AlwaysStreamInv, PTL

-----------------------------------------------------------------------------
(* The log *)

\* A number is given only to a row whose transaction has committed.
ClaimsCommitted ==
    /\ row \in [Events -> {"NONE", "OPEN", "COMMITTED", "GONE"}]
    /\ \A s \in Sessions, e \in Events : claim[s][e] # Unsequenced => row[e] = "COMMITTED"

LEMMA ClaimsStart == Init => ClaimsCommitted
  BY DEF Init, ClaimsCommitted

LEMMA ClaimsKept ==
    ASSUME Inv, ClaimsCommitted, [Next]_vars
    PROVE  ClaimsCommitted'
<1>1. row \in [Events -> {"NONE", "OPEN", "COMMITTED", "GONE"}] /\ claim \in [Sessions -> [Events -> Nat]]
  BY DEF ClaimsCommitted, Inv, SequencerTyped
<1>2. ASSUME UNCHANGED <<row, claim>> PROVE ClaimsCommitted'
  BY <1>2 DEF ClaimsCommitted
<1>3. ASSUME NEW e \in Events, Enqueue(e) \/ CommitEvent(e) \/ RollbackEvent(e) PROVE ClaimsCommitted'
  <2>1. /\ claim' = claim /\ row' \in [Events -> {"NONE", "OPEN", "COMMITTED", "GONE"}]
        /\ \A f \in Events : row[f] = "COMMITTED" => row'[f] = "COMMITTED"
    BY <1>1, <1>3 DEF Enqueue, CommitEvent, RollbackEvent, server
  <2> QED
    BY <2>1 DEF ClaimsCommitted
<1>4. ASSUME NEW s \in Sessions, EndSession(s) \/ CommitAssignment(s) PROVE ClaimsCommitted'
  <2>1. row' = row /\ claim' = [claim EXCEPT ![s] = Empty]
    BY <1>4 DEF EndSession, CommitAssignment, AbortClaim, Empty, outbox
  <2> QED
    BY <1>1, <2>1 DEF ClaimsCommitted, Empty
<1>5. ASSUME NEW w \in Workers, AssignPending(w) PROVE ClaimsCommitted'
  <2> DEFINE pending == {e \in Events : /\ row[e] = "COMMITTED" /\ seq[e] = Unsequenced
                                        /\ \A r \in Sessions : claim[r][e] = Unsequenced}
             rows == Lowest(pending, BatchSize)
  <2>1. row' = row /\ conn[w] # NoSession
    BY <1>5 DEF AssignPending
  <2>2. PICK draw : claim' = [claim EXCEPT ![conn[w]] =
                                 [e \in Events |-> IF e \in rows THEN draw[e] ELSE Unsequenced]]
    BY <1>5 DEF AssignPending
  <2>3. \A e \in rows : row[e] = "COMMITTED"
    BY DEF Lowest
  <2> HIDE DEF rows
  <2> QED
    BY <1>1, <2>1, <2>2, <2>3 DEF ClaimsCommitted
<1>6. CASE Connections
  BY <1>2, <1>4, <1>6 DEF Connections, Start, Reconnect, LoseConnection, Crash, outbox, server
<1>7. CASE Sequencer
  BY <1>2, <1>4, <1>5, <1>7 DEF Sequencer, AcquireLeadership, outbox
<1>8. CASE Hubs
  BY <1>2, <1>8 DEF Hubs, HubRead, HubReadFails, HubFanOut, outbox, server
<1>9. CASE Streams
  BY <1>2, <1>9 DEF Streams, Subscribe, CaptureHighWater, FetchPage, ReplayNext, GoLive, LiveNext,
                    SendReset, Disconnect, Close, outbox, server
<1>10. CASE UNCHANGED vars
  BY <1>2, <1>10 DEF vars
<1> QED
  BY <1>3, <1>6, <1>7, <1>8, <1>9, <1>10 DEF Next, Produce

LEMMA LogStart == Init => Log!LogInit
<1> SUFFICES ASSUME Init PROVE Log!LogInit
  OBVIOUS
<1>1. {e \in Events : row[e] = "COMMITTED"} = {}
  BY DEF Init
<1> QED
  BY <1>1 DEF Init, Log!LogInit, Unsequenced

\* What the log holds for a client is what is due to it.
LEMMA AheadIsDue ==
    ASSUME StreamInv, NEW c \in Clients
    PROVE  Log!Ahead(c) = Due(c)
<1>1. acked[c] \in Int /\ base[c] \in Nat /\ seq \in [Events -> Nat]
  BY StreamFacts DEF Inv, SequencerTyped
<1>2. Log!Ahead(c) = {seq[e] : e \in {f \in {g \in Events : OrgOf[c] \in Participants[g]} :
                                         seq[f] > base[c] /\ seq[f] > acked[c]}}
  BY DEF Log!Ahead
<1>3. ASSUME NEW e \in Events, seq[e] > base[c] PROVE seq[e] # Unsequenced
  BY <1>1, <1>3 DEF Unsequenced
<1> QED
  BY <1>2, <1>3 DEF Due, VisibleTo

\* A commit of the producer records its event.
LEMMA CommitRecords ==
    ASSUME ClaimsCommitted, NEW e \in Events, CommitEvent(e)
    PROVE  Log!LogNext
<1>1. /\ row[e] = "OPEN" /\ row' = [row EXCEPT ![e] = "COMMITTED"]
      /\ UNCHANGED <<seq, base, acked, received>>
  BY DEF CommitEvent, stream
<1>2. {f \in Events : row'[f] = "COMMITTED"} = {f \in Events : row[f] = "COMMITTED"} \union {e}
  BY <1>1 DEF ClaimsCommitted
<1>3. Log!Record(e)
  BY <1>1, <1>2 DEF Log!Record
<1> QED
  BY <1>3 DEF Log!LogNext

\* A commit of the sequencer extends the log.
LEMMA AssignmentExtends ==
    ASSUME StreamInv, ClaimsCommitted, NEW s \in Sessions, CommitAssignment(s)
    PROVE  Log!LogNext
<1>1. Inv /\ SequencerTyped /\ NumbersFresh
  BY DEF StreamInv, Inv
<1>2. /\ seq' = [e \in Events |-> IF claim[s][e] # Unsequenced THEN claim[s][e] ELSE seq[e]]
      /\ UNCHANGED <<row, base, acked, received>>
  BY DEF CommitAssignment, stream
<1>3. seq' \in [Events -> Nat]
  BY <1>1, <1>2 DEF SequencerTyped
<1>4. ASSUME NEW e \in Events, seq[e] # 0 PROVE seq'[e] = seq[e]
  BY <1>1, <1>2, <1>4 DEF NumbersFresh, Unsequenced
<1>5. ASSUME NEW e \in Events, seq[e] = 0, seq'[e] # 0 PROVE row[e] = "COMMITTED"
  BY <1>2, <1>5 DEF ClaimsCommitted, Unsequenced
<1>6. Grows
  <2>1. Sequencer
    BY DEF Sequencer
  <2>2. Next /\ vars' # vars
    <3>1. claim' # claim
      BY <1>1 DEF CommitAssignment, SequencerTyped
    <3> QED
      BY <2>1, <3>1 DEF Next, vars
  <2> QED
    BY <1>1, <2>2, GrowsStep
<1>7. Log!Extend
  BY <1>2, <1>3, <1>4, <1>5, <1>6 DEF Log!Extend, Log!Logged, Grows, Unsequenced
<1> QED
  BY <1>7 DEF Log!LogNext

\* A first subscription joins where its hub is.
LEMMA SubscribeJoins ==
    ASSUME StreamInv, NEW c \in Clients, NEW w \in Workers, Subscribe(c, w)
    PROVE  [Log!LogNext]_Log!logVars
<1>1. /\ UNCHANGED <<row, seq, acked, received>>
      /\ base' = [base EXCEPT ![c] = IF acked[c] = NoEventId THEN cursor[w] ELSE @]
  BY DEF Subscribe, outbox
<1>2. base \in [Clients -> Nat] /\ cursor[w] \in Nat /\ Reached(cursor[w]) /\ seq \in [Events -> Nat]
  BY DEF StreamInv, StreamTyped, HubOK, Inv, SequencerTyped
<1>3. CASE acked[c] # NoEventId
  BY <1>1, <1>2, <1>3 DEF Log!logVars
<1>4. CASE acked[c] = NoEventId
  <2>1. cursor[w] = 0 \/ \E e \in Events : cursor[w] <= seq[e]
    BY <1>2 DEF Reached, Visible
  <2>2. cursor[w] \in {0} \union UNION {0 .. seq[e] : e \in Events}
    <3>1. CASE cursor[w] = 0
      BY <3>1
    <3>2. ASSUME NEW e \in Events, cursor[w] <= seq[e] PROVE cursor[w] \in 0 .. seq[e]
      BY <1>2, <3>2
    <3> QED
      BY <2>1, <3>1, <3>2
  <2>3. Log!Join(c)
    BY <1>1, <1>4, <2>2 DEF Log!Join
  <2> QED
    BY <2>3 DEF Log!LogNext
<1> QED
  BY <1>3, <1>4

\* Sending an event is a delivery of the log.
LEMMA SendDelivers ==
    ASSUME StreamInv, NEW c \in Clients, NEW n \in Nat, n \in VisibleTo(OrgOf[c]), n > acked[c], n > base[c],
           \A m \in Due(c) : ~ (m < n), Send(c, n), UNCHANGED <<row, seq, base>>
    PROVE  Log!LogNext
<1>1. n \in Due(c) /\ Due(c) \subseteq Nat
  BY StreamFacts DEF Due
<1>2. \A m \in Due(c) : n <= m
  BY <1>1
<1>3. n \in Log!Ahead(c) /\ \A m \in Log!Ahead(c) : n <= m
  BY <1>1, <1>2, AheadIsDue
<1>4. Log!Deliver(c)
  BY <1>3 DEF Log!Deliver, Send
<1> QED
  BY <1>4 DEF Log!LogNext

LEMMA LogStep ==
    ASSUME StreamInv, ClaimsCommitted, [Next]_vars
    PROVE  [Log!LogNext]_Log!logVars
<1> DEFINE Done == [Log!LogNext]_Log!logVars
<1>1. ASSUME UNCHANGED <<row, seq, base, acked, received>> PROVE Done
  BY <1>1 DEF Log!logVars
<1>2. ASSUME NEW e \in Events, Enqueue(e) \/ RollbackEvent(e) PROVE Done
  <2>1. /\ UNCHANGED <<seq, base, acked, received>> /\ row[e] # "COMMITTED"
        /\ row' \in {[row EXCEPT ![e] = "OPEN"], [row EXCEPT ![e] = "GONE"]}
    BY <1>2 DEF Enqueue, RollbackEvent, stream
  <2>2. {f \in Events : row'[f] = "COMMITTED"} = {f \in Events : row[f] = "COMMITTED"}
    BY <2>1 DEF ClaimsCommitted
  <2> QED
    BY <2>1, <2>2 DEF Log!logVars
<1>3. CASE Produce
  BY <1>2, <1>3, CommitRecords DEF Produce
<1>4. CASE Connections
  BY <1>1, <1>4 DEF Connections, Start, Reconnect, LoseConnection, Crash, EndSession, outbox, stream
<1>5. CASE Sequencer
  BY <1>1, <1>5, AssignmentExtends DEF Sequencer, AcquireLeadership, AssignPending, outbox, stream
<1>6. CASE Hubs
  BY <1>1, <1>6 DEF Hubs, HubRead, HubReadFails, HubFanOut, outbox, stream
<1>7. ASSUME NEW c \in Clients, ReplayNext(c) PROVE Done
  BY <1>7, ReplayInOrder, SendDelivers DEF ReplayNext, outbox
<1>8. ASSUME NEW c \in Clients, LiveNext(c) PROVE Done
  <2> DEFINE n == Least(IF backlog[c] # {} THEN backlog[c] ELSE queue[c])
  <2>1. UNCHANGED <<row, seq, base>> /\ IF n <= acked[c] THEN UNCHANGED <<acked, received>> ELSE Send(c, n)
    BY <1>8 DEF LiveNext, AlreadySent, outbox
  <2>2. CASE n <= acked[c]
    BY <1>1, <2>1, <2>2
  <2>3. CASE ~ (n <= acked[c])
    <3>1. /\ n \in VisibleTo(OrgOf[c]) /\ n \in Nat /\ n > acked[c] /\ n > base[c]
          /\ \A m \in Due(c) : ~ (m < n)
      BY <1>8, <2>3, LiveInOrder
    <3> HIDE DEF n
    <3> QED
      BY <2>1, <2>3, <3>1, SendDelivers
  <2> QED
    BY <2>2, <2>3
<1>9. ASSUME NEW c \in Clients,
             CaptureHighWater(c) \/ FetchPage(c) \/ GoLive(c) \/ SendReset(c) \/ Disconnect(c)
      PROVE  Done
  BY <1>1, <1>9 DEF CaptureHighWater, FetchPage, GoLive, SendReset, Disconnect, Close, outbox
<1>10. CASE Streams
  BY <1>7, <1>8, <1>9, <1>10, SubscribeJoins DEF Streams
<1>11. CASE UNCHANGED vars
  BY <1>1, <1>11 DEF vars
<1> QED
  BY <1>3, <1>4, <1>5, <1>6, <1>10, <1>11 DEF Next

\* The dispatch implements the log: whatever workers, sessions, queues and
\* connections do, the events of committed transactions are numbered behind
\* each other, and every client is sent those of its organization from where
\* it joined, in order, each once and none left out.
THEOREM LogAlwaysFollowed == Spec => FollowsLog
<1>1. Spec => []ClaimsCommitted
  BY AlwaysInv, ClaimsStart, ClaimsKept, PTL DEF Spec
<1> QED
  BY <1>1, AlwaysStreamInv, LogStart, LogStep, PTL DEF Spec, FollowsLog, Log!LogSpec
=============================================================================
