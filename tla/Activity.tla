------------------------------ MODULE Activity ------------------------------
(***************************************************************************)
(* What requests may do per minute and at a time, and what is kept of      *)
(* them: the per-address limits of preauth_rate_limit.py, the capacity of  *)
(* public_market_read_admission.py, the browsing events of                 *)
(* user_activity.py with their quota, and the activity timeline an         *)
(* administrator reads page by page.                                       *)
(***************************************************************************)
EXTENDS Integers, Sequences, FiniteSets

CONSTANTS
  Addresses,     \* client addresses
  RateLimit,     \* requests in a window
  RateWindow,    \* seconds of a window
  MaxBuckets,    \* _MAX_BUCKETS
  MaxRateTime,
  MaxRequests,   \* requests of one address
  Reads,         \* public market reads
  ReadCapacity,  \* the pool's connections but one
  Posts,         \* batches of one user under way
  Batch(_),      \* the event ids of a batch
  Minute,
  Quota,         \* MAX_BROWSING_EVENTS_PER_MINUTE
  MaxPostTime,
  OldTargets,    \* watchlist targets saved before saving was audited
  ShownDays,     \* the days a timeline shows
  KeptDays,      \* BROWSING_RETENTION_DAYS
  PageRows,
  MaxMoment

EventIds == UNION {Batch(p) : p \in Posts}

ASSUME ActivityAssumption ==
  /\ RateLimit \in Nat \ {0} /\ RateWindow \in Nat \ {0} /\ ReadCapacity \in Nat
  /\ "none" \notin Posts /\ IsFiniteSet(EventIds) /\ Minute \in Nat /\ Quota \in Nat
  /\ ShownDays \in Nat /\ KeptDays \in Nat /\ ShownDays <= KeptDays /\ PageRows \in Nat
  /\ IsFiniteSet(OldTargets) /\ OldTargets \subseteq 1 .. Cardinality(OldTargets)

VARIABLES
  rateTime,
  bucket,     \* address -> window start and count, or NoBucket
  admitted,   \* address -> times of its admitted requests since the buckets were cleared
  unfair,     \* a request was refused although its address had not used its limit
  readers,    \* tokens the read limiter has given out
  read,       \* public reads under way
  postTime,
  userLock,   \* the row lock of the user
  post,
  recorded,   \* browsing events: id -> when received, 0 when absent
  moment,     \* the next time of the timeline
  browsed, audited, snapshots, signedIn,   \* rows of the timeline, by their times
  targets,    \* watchlist targets that can be removed: times of their rows
  silent,     \* a target was removed without an audit row while pages were read
  paging     \* the administrator's pages

rateVars == <<rateTime, bucket, admitted, unfair>>
readVars == <<readers, read>>
postVars == <<postTime, userLock, post, recorded>>
pageVars == <<moment, browsed, audited, snapshots, signedIn, targets, silent, paging>>
activityVars == <<rateVars, readVars, postVars, pageVars>>

(***************************************************************************)
(* Rate limit of an address                                                *)
(***************************************************************************)
NoBucket == [started |-> 0, count |-> -1]
Buckets == {a \in Addresses : bucket[a] # NoBucket}
\* The window as this request finds it.
Window(a) ==
  IF bucket[a] = NoBucket \/ rateTime - bucket[a].started >= RateWindow
  THEN [started |-> rateTime, count |-> 0] ELSE bucket[a]

\* Within the limit.
MayPass(w) == w.count < RateLimit

Recent(a) == Cardinality({i \in DOMAIN admitted[a] : admitted[a][i] > rateTime - RateWindow})

\* _check: counted in its window; a full table is cleared for a new address.
Request(a) ==
  /\ Len(admitted[a]) < MaxRequests
  /\ IF MayPass(Window(a))
     THEN LET cleared == Cardinality(Buckets) >= MaxBuckets /\ a \notin Buckets IN
          /\ bucket' = [b \in Addresses |->
               IF b = a THEN [Window(a) EXCEPT !.count = @ + 1] ELSE IF cleared THEN NoBucket ELSE bucket[b]]
          /\ admitted' = [b \in Addresses |->
               IF b = a THEN Append(admitted[a], rateTime) ELSE IF cleared THEN <<>> ELSE admitted[b]]
          /\ UNCHANGED unfair
     ELSE unfair' = (unfair \/ Recent(a) < RateLimit) /\ UNCHANGED <<bucket, admitted>>
  /\ UNCHANGED rateTime
RateTick == rateTime < MaxRateTime /\ rateTime' = rateTime + 1 /\ UNCHANGED <<bucket, admitted, unfair>>

RateNext == (RateTick \/ \E a \in Addresses : Request(a)) /\ UNCHANGED <<readVars, postVars, pageVars>>

(***************************************************************************)
(* Admission of public reads                                               *)
(***************************************************************************)
\* __call__: acquire_nowait, or 503.
ReadArrives(r) ==
  /\ read[r] = "idle"
  /\ IF readers < ReadCapacity
     THEN read' = [read EXCEPT ![r] = "reading"] /\ readers' = readers + 1
     ELSE read' = [read EXCEPT ![r] = "refused"] /\ UNCHANGED readers
\* The token is released when the read succeeds.
ReadEnds_OnSuccess(r, how) ==
  /\ read[r] = "reading" /\ read' = [read EXCEPT ![r] = "idle"]
  /\ readers' = IF how = "answered" THEN readers - 1 ELSE readers
\* The read is answered, fails or is cancelled: the token is released.
ReadEnds(r, how) ==
  /\ read[r] = "reading" /\ read' = [read EXCEPT ![r] = "idle"]
  /\ readers' = readers - 1
\* The client comes back after Retry-After.
ReadRetries(r) == read[r] = "refused" /\ read' = [read EXCEPT ![r] = "idle"] /\ UNCHANGED readers

ReadNext ==
  /\ \E r \in Reads : \/ ReadArrives(r) \/ ReadRetries(r)
                      \/ \E how \in {"answered", "failed", "cancelled"} : ReadEnds(r, how)
  /\ UNCHANGED <<rateVars, postVars, pageVars>>

(***************************************************************************)
(* Browsing events                                                         *)
(***************************************************************************)
PostIdle == [pc |-> "idle", now |-> 0, new |-> {}, answer |-> "none"]

PostArrives(p) ==
  /\ post[p].pc = "idle" /\ post' = [post EXCEPT ![p] = [PostIdle EXCEPT !.pc = "waiting"]]
  /\ UNCHANGED <<postTime, userLock, recorded>>

\* get_current_user's lock of the user, taken again by ingest_browsing_events.
LockUser(p) == userLock = "none" /\ userLock' = p

\* The events counted against the quota.
CountedSince(now) == {e \in EventIds : recorded[e] # 0 /\ recorded[e] >= now - Minute}

\* The events of the batch not recorded yet.
NewEvents(p) == {e \in Batch(p) : recorded[e] = 0}

\* The new events and the quota.
CountPost(p) ==
  LET new == NewEvents(p) IN
  /\ post[p].pc = "waiting" /\ LockUser(p)
  /\ post' = [post EXCEPT ![p] = [@ EXCEPT !.pc = IF Cardinality(CountedSince(postTime)) + Cardinality(new) > Quota
                                                 THEN "refused" ELSE "counted",
                                           !.now = postTime, !.new = new]]
  /\ UNCHANGED <<postTime, recorded>>
ReleaseUser(p) == userLock' = IF userLock = p THEN "none" ELSE userLock
\* The insert, which skips what is there, and the commit.
StorePost(p) ==
  /\ post[p].pc = "counted"
  /\ recorded' = [e \in EventIds |-> IF e \in post[p].new /\ recorded[e] = 0 THEN post[p].now ELSE recorded[e]]
  /\ post' = [post EXCEPT ![p] = [@ EXCEPT !.pc = "idle", !.answer = "accepted"]]
  /\ ReleaseUser(p) /\ UNCHANGED postTime
RefusePost(p) ==
  /\ post[p].pc = "refused"
  /\ post' = [post EXCEPT ![p] = [@ EXCEPT !.pc = "idle", !.answer = "refused"]]
  /\ ReleaseUser(p) /\ UNCHANGED <<postTime, recorded>>
\* prune_browsing_events.
PruneEvents ==
  /\ recorded' = [e \in EventIds |-> IF recorded[e] < postTime - KeptDays THEN 0 ELSE recorded[e]]
  /\ UNCHANGED <<postTime, userLock, post>>
PostTick == postTime < MaxPostTime /\ postTime' = postTime + 1 /\ UNCHANGED <<userLock, post, recorded>>

IngestNext ==
  /\ \/ \E p \in Posts : PostArrives(p) \/ CountPost(p) \/ StorePost(p) \/ RefusePost(p)
     \/ PruneEvents \/ PostTick
  /\ UNCHANGED <<rateVars, readVars, pageVars>>

(***************************************************************************)
(* The timeline                                                            *)
(***************************************************************************)
\* _base_timeline_selects: the rows of the days shown.
Timeline == {t \in browsed \cup audited \cup snapshots \cup signedIn : t >= moment - ShownDays}
PageIdle == [pc |-> "idle", offset |-> 0, rows |-> {}, more |-> FALSE, due |-> {}, shown |-> {}]
Others == UNCHANGED paging
Audit(k) == audited' = audited \cup (moment .. moment + k - 1) /\ moment' = moment + k

Browse ==
  /\ moment' = moment + 1 /\ browsed' = browsed \cup {moment}
  /\ UNCHANGED <<audited, snapshots, signedIn, targets, silent>> /\ Others
SignIn ==
  /\ moment' = moment + 1 /\ signedIn' = {moment}
  /\ UNCHANGED <<browsed, audited, snapshots, targets, silent>> /\ Others
\* create_watchlist_target: a saved slice, or a pin, whose companion slice has no audit row.
SaveTarget ==
  /\ Audit(1) /\ targets' = targets \cup {moment}
  /\ UNCHANGED <<browsed, snapshots, signedIn, silent>> /\ Others
PinTarget ==
  /\ audited' = audited \cup {moment + 1} /\ snapshots' = snapshots \cup {moment} /\ moment' = moment + 2
  /\ targets' = targets \cup {moment, moment + 1}
  /\ UNCHANGED <<browsed, signedIn, silent>> /\ Others
\* Every target that goes is audited.
RemovalAudit(removed) == Audit(Cardinality(removed))
\* delete_watchlist_target: a slice goes with its pins.
RemoveTarget(removed) ==
  /\ removed \subseteq targets
  /\ RemovalAudit(removed)
  /\ targets' = targets \ removed /\ snapshots' = snapshots \ removed
  /\ UNCHANGED <<browsed, signedIn, silent>> /\ Others
\* remove_watchlist_entry removes the slice translated from the entry.
RemoveEntry(t) ==
  /\ t \in targets /\ targets' = targets \ {t} /\ snapshots' = snapshots \ {t}
  /\ silent' = (silent \/ (paging.pc # "idle" /\ t \in snapshots))
  /\ UNCHANGED <<moment, browsed, audited, signedIn>> /\ Others
PruneTimeline ==
  /\ browsed' = {t \in browsed : t >= moment - KeptDays}
  /\ UNCHANGED <<moment, audited, snapshots, signedIn, targets, silent>> /\ Others

\* The newest row comes first.
Rank(t) == Cardinality({u \in Timeline : u > t})

\* get_user_activity_page: one query for the rows of a page and whether there are more, then
\* the details of the rows that still exist.
QueryPage ==
  /\ paging.pc \in {"idle", "next"}
  /\ paging' = [paging EXCEPT !.pc = "hydrating",
                   !.rows = {t \in Timeline : Rank(t) \in paging.offset .. paging.offset + PageRows - 1},
                   !.more = Cardinality(Timeline) > paging.offset + PageRows,
                   !.due = IF paging.pc = "idle" THEN Timeline ELSE @]
  /\ UNCHANGED <<moment, browsed, audited, snapshots, signedIn, targets, silent>>
HydratePage ==
  /\ paging.pc = "hydrating"
  /\ paging' = [paging EXCEPT !.pc = IF paging.more THEN "next" ELSE "read", !.offset = @ + PageRows,
                   !.shown = @ \cup (paging.rows \cap (browsed \cup audited \cup snapshots \cup signedIn))]
  /\ UNCHANGED <<moment, browsed, audited, snapshots, signedIn, targets, silent>>

PagesNext ==
  /\ \/ moment + 2 <= MaxMoment /\ (Browse \/ SignIn \/ SaveTarget \/ PinTarget)
     \/ \E removed \in SUBSET targets : removed # {} /\ moment + Cardinality(removed) <= MaxMoment /\ RemoveTarget(removed)
     \/ \E t \in targets : RemoveEntry(t)
     \/ PruneTimeline \/ QueryPage \/ HydratePage
  /\ UNCHANGED <<rateVars, readVars, postVars>>

ActivityInit ==
  /\ rateTime = 0 /\ bucket = [a \in Addresses |-> NoBucket] /\ admitted = [a \in Addresses |-> <<>>] /\ unfair = FALSE
  /\ readers = 0 /\ read = [r \in Reads |-> "idle"]
  /\ postTime = 1 /\ userLock = "none" /\ post = [p \in Posts |-> PostIdle] /\ recorded = [e \in EventIds |-> 0]
  /\ moment = Cardinality(OldTargets) + 1 /\ browsed = {} /\ audited = {} /\ signedIn = {}
  /\ snapshots = OldTargets /\ targets = OldTargets /\ silent = FALSE /\ paging = PageIdle

ActivitySpec == ActivityInit /\ [][RateNext \/ ReadNext \/ IngestNext \/ PagesNext]_activityVars

(***************************************************************************)
(* Properties                                                              *)
(***************************************************************************)
\* An address is refused only after it has used its limit within the last window, and in no
\* window are more than two limits' worth of its requests let through, unless the table was
\* cleared (_check).
RateHonest ==
  /\ ~ unfair
  /\ \A a \in Addresses : \A i \in DOMAIN admitted[a] :
       LET during == {j \in DOMAIN admitted[a] :
             admitted[a][j] >= admitted[a][i] /\ admitted[a][j] < admitted[a][i] + RateWindow}
       IN Cardinality(during) <= 2 * RateLimit

\* The read limiter counts the reads under way, so public reads always leave the pool a
\* connection and a read that ends makes room (PublicMarketReadAdmissionMiddleware).
ReadersCounted == readers = Cardinality({r \in Reads : read[r] = "reading"}) /\ readers <= ReadCapacity

\* In no minute are more browsing events of a user recorded than the quota, however batches
\* overlap and are sent again (ingest_browsing_events).
QuotaHeld ==
  \A e \in EventIds : recorded[e] # 0 =>
    Cardinality({f \in EventIds : recorded[f] \in recorded[e] .. recorded[e] + Minute}) <= Quota

\* A batch whose events are all recorded is never refused when it is sent again, its answer
\* having been lost (ingest_browsing_events).
ReplayAccepted == \A p \in Posts : post[p].pc = "refused" => \E e \in Batch(p) : recorded[e] = 0

\* When the last page has been read, every row that was there when the first was read, and
\* still is, has been shown, whatever was browsed, saved, removed and pruned meanwhile; only
\* a removal that leaves no audit row can hide one (get_user_activity_page).
PagesMissNothing ==
  paging.pc = "read" /\ ~ silent =>
    paging.due \cap Timeline \subseteq paging.shown

\* The limits on requests, public reads and recorded events are kept, refuse nobody who is within
\* them, and the record can be paged through completely.
LimitsHonest == RateHonest /\ ReadersCounted /\ QuotaHeld /\ ReplayAccepted /\ PagesMissNothing
=============================================================================
