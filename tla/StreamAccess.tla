---------------------------- MODULE StreamAccess ----------------------------
(***************************************************************************)
(* Who may read a private stream, and for how long: the authorization half *)
(* of app/routers/stream.py against the account and organization changes   *)
(* of app/routers/auth_simple.py.  A stream is authorized when it opens    *)
(* and again every Revalidation seconds; in between it trusts the last     *)
(* answer, while administrators and the user go on changing the account.   *)
(***************************************************************************)
EXTENDS Integers

CONSTANTS
  Streams,      \* connections of one user
  StreamOrgs,   \* organizations the user may belong to
  MaxTime,      \* bound on time
  StreamTTL,    \* life of a stream token
  Revalidation  \* _STREAM_REVALIDATION_SECONDS

ASSUME StreamConstants ==
  MaxTime \in Nat /\ StreamTTL \in Nat \ {0} /\ Revalidation \in Nat \ {0}

VARIABLES
  now,       \* time.time()
  user,      \* the user's status, latest cutoff and organization
  approved,  \* organizations whose verification_status is APPROVED
  conn,      \* the connections: token claims, next revalidation, end of the wait
  lapse      \* for each connection, when its authorization was lost (0 while it has it)

accessVars == <<now, user, approved, conn, lapse>>

NoOrg == "none"
Idle == -1
Closed == [phase |-> "closed", iat |-> 0, org |-> NoOrg, next |-> 0, until |-> Idle]

\* validate_authenticated_user_state and the organization checks, for the claims c.
StreamAuthorized(c) ==
  /\ ~(user.cutoff # 0 /\ c.iat <= user.cutoff)
  /\ user.status = "APPROVED"
  /\ user.org = c.org
  /\ c.org \in approved

Expiry(c) == c.iat + StreamTTL

\* GET /auth/stream-token; the bound keeps its whole life inside the run.
IssueStreamToken(s) ==
  /\ conn[s].phase = "closed"
  /\ user.status = "APPROVED" /\ user.org # NoOrg
  /\ now + StreamTTL <= MaxTime
  /\ conn' = [conn EXCEPT ![s] = [Closed EXCEPT !.phase = "token", !.iat = now, !.org = user.org]]
  /\ UNCHANGED <<now, user, approved>>

\* GET /stream/trades: the token is checked once more before the response starts.
StreamTrades(s) ==
  /\ conn[s].phase = "token"
  /\ IF now < Expiry(conn[s]) /\ StreamAuthorized(conn[s])
     THEN conn' = [conn EXCEPT ![s].phase = "open"]
     ELSE conn' = [conn EXCEPT ![s] = Closed]
  /\ UNCHANGED <<now, user, approved>>

Earlier(a, b) == IF a <= b THEN a ELSE b

\* The wait lasts until the token expires, whatever the revalidation period.
WaitUntil_Expiry(c) == Expiry(c)
WaitUntil(c) == Earlier(Expiry(c), c.next)

\* control_frame: expired, still trusted, revalidated, or revoked.  A database
\* error during the revalidation closes the stream as well.
ControlFrame(s) ==
  /\ conn[s].phase = "open" /\ conn[s].until = Idle
  /\ \/ /\ now < Expiry(conn[s])
        /\ now < conn[s].next \/ StreamAuthorized(conn[s])
        /\ LET c == [conn[s] EXCEPT !.next = IF now < @ THEN @ ELSE now + Revalidation]
           IN conn' = [conn EXCEPT ![s] = [c EXCEPT !.until = WaitUntil(c)]]
     \/ /\ now >= Expiry(conn[s]) \/ now >= conn[s].next
        /\ conn' = [conn EXCEPT ![s] = Closed]
  /\ UNCHANGED <<now, user, approved>>

\* A message arrives within the wait and is written without another check.
YieldFrame(s) ==
  /\ conn[s].phase = "open" /\ conn[s].until # Idle /\ now <= conn[s].until
  /\ conn' = [conn EXCEPT ![s].until = Idle]
  /\ UNCHANGED <<now, user, approved>>

\* The wait times out: a keepalive, and the loop starts over.
Keepalive(s) ==
  /\ conn[s].phase = "open" /\ conn[s].until # Idle /\ now >= conn[s].until
  /\ conn' = [conn EXCEPT ![s].until = Idle]
  /\ UNCHANGED <<now, user, approved>>

Disconnect(s) ==
  /\ conn[s].phase = "open"
  /\ conn' = [conn EXCEPT ![s] = Closed]
  /\ UNCHANGED <<now, user, approved>>

\* reject_user, and a password change: the cutoff moves to now.
RejectStreamUser ==
  /\ user' = [user EXCEPT !.status = "REJECTED", !.cutoff = now]
  /\ UNCHANGED <<now, approved, conn>>

ReadmitStreamUser ==
  /\ user.status = "REJECTED"
  /\ user' = [user EXCEPT !.status = "APPROVED"]
  /\ UNCHANGED <<now, approved, conn>>

ChangeStreamPassword ==
  /\ user.status = "APPROVED"
  /\ user' = [user EXCEPT !.cutoff = now]
  /\ UNCHANGED <<now, approved, conn>>

\* reject_organization detaches every member.
RejectStreamOrganization(o) ==
  /\ o \in approved
  /\ approved' = approved \ {o}
  /\ user' = [user EXCEPT !.org = IF @ = o THEN NoOrg ELSE @]
  /\ UNCHANGED <<now, conn>>

ApproveStreamOrganization(o) ==
  /\ o \notin approved
  /\ approved' = approved \cup {o}
  /\ UNCHANGED <<now, user, conn>>

\* approve_organization_join.
JoinStreamOrganization(o) ==
  /\ user.status = "APPROVED" /\ o \in approved /\ user.org = NoOrg
  /\ user' = [user EXCEPT !.org = o]
  /\ UNCHANGED <<now, approved, conn>>

Passes ==
  /\ now < MaxTime
  /\ now' = now + 1
  /\ UNCHANGED <<user, approved, conn>>

AccessInit ==
  /\ now = 1
  /\ \E o \in StreamOrgs : user = [status |-> "APPROVED", cutoff |-> 0, org |-> o]
  /\ approved = StreamOrgs
  /\ conn = [s \in Streams |-> Closed]
  /\ lapse = [s \in Streams |-> 0]

\* When each open stream lost the authorization it had (for the properties only).
TrackLapse ==
  lapse' = [s \in Streams |->
              IF conn'[s].phase # "open" \/ StreamAuthorized(conn[s])' THEN 0
              ELSE IF lapse[s] = 0 THEN now' ELSE lapse[s]]

AccessStep ==
  \/ Passes \/ RejectStreamUser \/ ReadmitStreamUser \/ ChangeStreamPassword
  \/ \E o \in StreamOrgs : RejectStreamOrganization(o) \/ ApproveStreamOrganization(o)
                           \/ JoinStreamOrganization(o)
  \/ \E s \in Streams : IssueStreamToken(s) \/ StreamTrades(s) \/ ControlFrame(s)
                        \/ YieldFrame(s) \/ Keepalive(s) \/ Disconnect(s)

AccessNext == AccessStep /\ TrackLapse
AccessSpec == AccessInit /\ [][AccessNext]_accessVars

(***************************************************************************)
(* Properties                                                              *)
(***************************************************************************)
\* No frame is written to a stream later than one revalidation period after its
\* user was rejected, changed the password, left the organization or lost it.
StreamStaleness ==
  [][\A s \in Streams : YieldFrame(s) => lapse[s] = 0 \/ now - lapse[s] <= Revalidation]_accessVars

\* A stream whose authorization is lost is closed, however busy the channel is.
LapsedStreamCloses ==
  \A s \in Streams : lapse[s] # 0 ~> conn[s].phase # "open" \/ lapse[s] = 0

\* A stream whose authorization is lost (_private_sse_messages) carries nothing for longer than
\* one revalidation period and is closed in the end.
LapsedStreamEnds == StreamStaleness /\ LapsedStreamCloses
=============================================================================
