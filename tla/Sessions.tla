------------------------------ MODULE Sessions ------------------------------
(***************************************************************************)
(* Accounts and browser sessions: app/routers/auth_simple.py,              *)
(* app/core/security.py, app/services/auth_revocation.py and               *)
(* app/services/auth_maintenance.py.                                       *)
(*                                                                         *)
(* Every handler below locks the browser's advisory lock and the user row  *)
(* before it reads what it decides on and commits once, so one handler is  *)
(* one action.  What is not atomic is the world around it: a response      *)
(* reaches the browser late, out of order or never, a request carries a    *)
(* cookie the browser held some time ago, and an administrator acts        *)
(* between two requests.                                                   *)
(*                                                                         *)
(* Time is counted in ticks.  Only the order of the lifetimes matters.     *)
(***************************************************************************)
EXTENDS Integers, Sequences, FiniteSets

CONSTANTS
  Users,        \* accounts
  Managed,      \* bound: the accounts whose password or status changes in the run
  Devices,      \* browsers, each with its device_session cookie
  MaxTokens,    \* bound on the token pairs ever issued
  MaxClock,     \* bound on time
  Grace,        \* REFRESH_ROTATION_GRACE
  AccessTTL,    \* ACCESS_TOKEN_EXPIRE_MINUTES
  RefreshTTL,   \* REFRESH_TOKEN_EXPIRE_DAYS
  ResetTTL,     \* life of a password-reset or invitation token
  Retention     \* REVOKED_FAMILY_RETENTION

ASSUME SessionConstants ==
  /\ Managed \subseteq Users
  /\ MaxTokens \in Nat /\ MaxClock \in Nat
  /\ Grace \in Nat /\ AccessTTL \in Nat /\ RefreshTTL \in Nat /\ ResetTTL \in Nat
  /\ Retention \in Nat

VARIABLES
  clock,    \* datetime.now(UTC)
  account,  \* the authentication columns of users; cut counts the pairs issued before
            \* the last password change or rejection (for the properties only)
  token,    \* the pairs issued so far: claims, the browser addressed, whether it arrived
  row,      \* refresh_sessions: a record for each token still on file
  sealed    \* for each browser, the tokens issued before its last login or logout

sessionVars == <<clock, account, token, row, sealed>>

Statuses == {"NONE", "APPROVED", "REJECTED"}

Issued == 1..Len(token)

(***************************************************************************)
(* Claims and cutoffs                                                      *)
(***************************************************************************)
\* The later of password_changed_at and authentication_revoked_at.
LatestCutoff(u) ==
  IF account[u].pwChanged >= account[u].revokedAt
  THEN account[u].pwChanged ELSE account[u].revokedAt

TokenIsCutOff(iat, cutoff) == cutoff # 0 /\ iat <= cutoff

\* The instant a new pair is stamped with: now, pushed past the cutoff when the
\* clock has not moved beyond it.
IssuedAfter(cutoff) == IF clock <= cutoff THEN cutoff + 1 ELSE clock

\* A page of browser d presents the access token of pair t.
AccessAccepted(t) ==
  /\ token[t].arrived
  /\ clock < token[t].iat + AccessTTL
  /\ ~TokenIsCutOff(token[t].iat, account[token[t].sub].pwChanged)
  /\ ~TokenIsCutOff(token[t].iat, account[token[t].sub].revokedAt)
  /\ account[token[t].sub].status = "APPROVED"

(***************************************************************************)
(* refresh_sessions                                                        *)
(***************************************************************************)
RevokeRows(S) == [t \in DOMAIN row |-> IF t \in S THEN [row[t] EXCEPT !.revoked = TRUE] ELSE row[t]]
RowsOfUser(u) == {t \in DOMAIN row : token[t].sub = u}
RowsOfFamily(f) == {t \in DOMAIN row : token[t].family = f}
Expired(t) == clock >= token[t].iat + RefreshTTL
Live(t) == t \in DOMAIN row /\ ~row[t].revoked /\ ~Expired(t)
ActiveInFamily(f, d) == \E t \in RowsOfFamily(f) : Live(t) /\ row[t].device = d

\* Every family of the browser, and the family of the presented cookie.
DeviceRows(d, presented) ==
  {t \in DOMAIN row : row[t].device = d \/ \E p \in presented : token[t].family = token[p].family}

NewRow(d) == [device |-> d, revoked |-> FALSE, replaced |-> FALSE, grace |-> 0]

\* A pair for u stamped `at`, in family f, addressed to browser d, recorded over rows r.
IssuePair(u, d, f, at, r) ==
  LET n == Len(token) + 1 IN
  /\ n <= MaxTokens
  /\ token' = Append(token, [sub |-> u, family |-> f, iat |-> at, device |-> d, arrived |-> FALSE])
  /\ row' = [t \in DOMAIN r \cup {n} |-> IF t = n THEN NewRow(d) ELSE r[t]]
  /\ clock' = IF at > clock THEN at ELSE clock

(***************************************************************************)
(* Login, refresh, logout                                                  *)
(***************************************************************************)
\* The cookie jar of d holds at most one refresh token: one that has arrived.
Presentable(d) == {{}} \cup {{t} : t \in {i \in Issued : token[i].device = d /\ token[i].arrived}}

Login(u, d, presented) ==
  /\ account[u].status = "APPROVED" /\ account[u].verified
  /\ ~account[u].mustChange  \* an invited account's password is a random string nobody knows
  /\ IssuePair(u, d, Len(token) + 1, IssuedAfter(LatestCutoff(u)), RevokeRows(DeviceRows(d, presented)))
  /\ sealed' = [sealed EXCEPT ![d] = Len(token)]
  /\ UNCHANGED account

\* What refresh_tokens and _rotate_refresh_session answer to token t from browser d.
RefreshOutcome(d, t) ==
  LET u == token[t].sub IN
  IF Expired(t) THEN "EXPIRED"
  ELSE IF account[u].status # "APPROVED" THEN "INACTIVE"
  ELSE IF TokenIsCutOff(token[t].iat, account[u].pwChanged) THEN "PASSWORD_CHANGED"
  ELSE IF TokenIsCutOff(token[t].iat, account[u].revokedAt) THEN "REVOKED"
  ELSE IF t \notin DOMAIN row THEN "REVOKED"
  ELSE IF row[t].device # d THEN "REVOKED"
  ELSE IF row[t].replaced /\ ~ActiveInFamily(token[t].family, d) THEN "REVOKED"
  ELSE IF row[t].replaced /\ row[t].grace >= clock THEN "IN_PROGRESS"
  ELSE IF row[t].replaced THEN "REPLAYED"
  ELSE IF row[t].revoked THEN "REVOKED"
  ELSE "OK"

\* The predecessor is marked as replaced and stays redeemable.
Rotate_Keeping(d, t) ==
  LET old == [row EXCEPT ![t].grace = clock + Grace]
  IN IssuePair(token[t].sub, d, token[t].family, IssuedAfter(LatestCutoff(token[t].sub)), old)
Rotate(d, t) ==
  LET old == [row EXCEPT ![t] = [device |-> d, revoked |-> TRUE, replaced |-> TRUE, grace |-> clock + Grace]]
  IN IssuePair(token[t].sub, d, token[t].family, IssuedAfter(LatestCutoff(token[t].sub)), old)

RevokeReplayed(t) ==
  /\ row' = RevokeRows(RowsOfFamily(token[t].family))
  /\ UNCHANGED <<clock, token>>

\* A request that carries any refresh token the browser has ever held: the
\* request may have been sent before a later cookie arrived.
Refresh(d, t) ==
  /\ token[t].device = d /\ token[t].arrived
  /\ \/ RefreshOutcome(d, t) = "OK" /\ Rotate(d, t)
     \/ RefreshOutcome(d, t) = "REPLAYED" /\ RevokeReplayed(t)
  /\ UNCHANGED <<account, sealed>>

Logout(d, presented) ==
  /\ row' = RevokeRows(DeviceRows(d, presented))
  /\ sealed' = [sealed EXCEPT ![d] = Len(token)]
  /\ UNCHANGED <<clock, account, token>>

\* Logout without a device cookie: the signed token names its family.
LogoutFamily(t) ==
  /\ token[t].arrived /\ ~Expired(t) /\ t \in DOMAIN row
  /\ row' = RevokeRows(RowsOfFamily(token[t].family))
  /\ UNCHANGED <<clock, account, token, sealed>>

\* The response of pair t reaches its browser.
Arrive(t) ==
  /\ ~token[t].arrived
  /\ token' = [token EXCEPT ![t].arrived = TRUE]
  /\ UNCHANGED <<clock, account, row, sealed>>

(***************************************************************************)
(* Passwords, invitations and administrative decisions                     *)
(***************************************************************************)
PasswordSet(u) == [account[u] EXCEPT !.pwChanged = clock, !.mustChange = FALSE, !.cut = Len(token)]

\* PUT /me/password from a page of pair t's browser with the right password.
ChangePassword(t) ==
  LET u == token[t].sub IN
  /\ AccessAccepted(t) /\ u \in Managed
  /\ account' = [account EXCEPT ![u] = PasswordSet(u)]
  /\ IssuePair(u, token[t].device, Len(token) + 1, clock + 1, RevokeRows(RowsOfUser(u)))
  /\ UNCHANGED sealed

ForgotPassword(u) ==
  /\ account[u].status = "APPROVED" /\ account[u].verified
  /\ account' = [account EXCEPT ![u].reset = clock + ResetTTL]
  /\ UNCHANGED <<clock, token, row, sealed>>

\* A reset that leaves the refresh families alone.
ResetPassword_KeepingSessions(u) ==
  /\ account[u].reset > clock /\ account[u].verified
  /\ account' = [account EXCEPT ![u] = [PasswordSet(u) EXCEPT !.reset = 0]]
  /\ UNCHANGED <<clock, token, row, sealed>>
ResetPassword(u) ==
  /\ account[u].reset > clock /\ account[u].verified
  /\ account' = [account EXCEPT ![u] = [PasswordSet(u) EXCEPT !.reset = 0]]
  /\ row' = RevokeRows(RowsOfUser(u))
  /\ UNCHANGED <<clock, token, sealed>>

\* Both rejection routes: status, monotone cutoff and every family.
InvalidateAuthentication(u) ==
  /\ account' = [account EXCEPT ![u] = [account[u] EXCEPT !.status = "REJECTED",
                   !.revokedAt = IF clock <= @ THEN @ + 1 ELSE clock, !.cut = Len(token)]]
  /\ row' = RevokeRows(RowsOfUser(u))

RejectUser(u) ==
  /\ account[u].status # "NONE" /\ account[u].revokedAt <= MaxClock
  /\ InvalidateAuthentication(u)
  /\ clock' = IF account[u].revokedAt >= clock THEN account[u].revokedAt + 1 ELSE clock
  /\ UNCHANGED <<token, sealed>>

ApproveUser(u) ==
  /\ account[u].status = "REJECTED" /\ account[u].verified
  /\ account' = [account EXCEPT ![u].status = "APPROVED"]
  /\ UNCHANGED <<clock, token, row, sealed>>

\* An unclaimed invitation: approved, unverified, password still to be chosen.
Unclaimed(u) == account[u].status = "APPROVED" /\ ~account[u].verified /\ account[u].mustChange

CreateInvitation(u) ==
  /\ account[u].status = "NONE" \/ Unclaimed(u)
  /\ account' = [account EXCEPT ![u] = [@ EXCEPT !.status = "APPROVED", !.verified = FALSE,
                   !.mustChange = TRUE, !.reset = clock + ResetTTL]]
  /\ UNCHANGED <<clock, token, row, sealed>>

AcceptInvitation(u, d, presented) ==
  /\ account[u].reset > clock /\ Unclaimed(u)
  /\ account' = [account EXCEPT ![u] = [PasswordSet(u) EXCEPT !.reset = 0, !.verified = TRUE]]
  /\ IssuePair(u, d, Len(token) + 1, clock + 1, RevokeRows(DeviceRows(d, presented) \cup RowsOfUser(u)))
  /\ sealed' = [sealed EXCEPT ![d] = Len(token)]

\* An invited person may also ask for a verification link and follow it.
VerifyEmail(u) ==
  /\ account[u].status # "NONE" /\ ~account[u].verified
  /\ account' = [account EXCEPT ![u].verified = TRUE]
  /\ UNCHANGED <<clock, token, row, sealed>>

(***************************************************************************)
(* run_auth_maintenance                                                    *)
(***************************************************************************)
HasActiveSuccessor(t) == \E s \in RowsOfFamily(token[t].family) : Live(s)

Removable(t) ==
  \/ Expired(t)
  \/ /\ row[t].revoked
     /\ token[t].iat <= clock - Retention
     /\ ~HasActiveSuccessor(t)

RunAuthMaintenance ==
  LET kept == {t \in DOMAIN row : ~Removable(t)}
      stale == {u \in Users : account[u].reset # 0 /\ account[u].reset <= clock} IN
  /\ kept # DOMAIN row \/ stale # {}
  /\ row' = [t \in kept |-> row[t]]
  /\ account' = [u \in Users |-> IF u \in stale THEN [account[u] EXCEPT !.reset = 0] ELSE account[u]]
  /\ UNCHANGED <<clock, token, sealed>>

Tick ==
  /\ clock < MaxClock
  /\ clock' = clock + 1
  /\ UNCHANGED <<account, token, row, sealed>>

(***************************************************************************)
(* The specification                                                       *)
(***************************************************************************)
SessionsInit ==
  /\ clock = 1
  /\ \E absent \in SUBSET Managed :
       account = [u \in Users |->
         [status |-> IF u \in absent THEN "NONE" ELSE "APPROVED", verified |-> u \notin absent,
          mustChange |-> FALSE, pwChanged |-> 0, revokedAt |-> 0, reset |-> 0, cut |-> 0]]
  /\ token = << >>
  /\ row = [t \in {} |-> NewRow("none")]
  /\ sealed = [d \in Devices |-> 0]

SessionsNext ==
  \/ Tick
  \/ RunAuthMaintenance
  \/ \E d \in Devices : \E presented \in Presentable(d) :
       \/ Logout(d, presented)
       \/ \E u \in Users : Login(u, d, presented)
       \/ \E u \in Managed : AcceptInvitation(u, d, presented)
  \/ \E d \in Devices, t \in Issued : Refresh(d, t)
  \/ \E t \in Issued : Arrive(t) \/ LogoutFamily(t) \/ ChangePassword(t)
  \/ \E u \in Managed : ForgotPassword(u) \/ ResetPassword(u) \/ RejectUser(u) \/ ApproveUser(u)
                      \/ CreateInvitation(u) \/ VerifyEmail(u)

SessionsSpec == SessionsInit /\ [][SessionsNext]_sessionVars

(***************************************************************************)
(* Properties                                                              *)
(***************************************************************************)

\* Rejection, password change and reset reach every family: a session on file that
\* could still be rotated belongs to an approved, verified account and was issued
\* after both of its cutoffs, whichever handlers ran in between.
LiveSessionsAdmitted ==
  \A t \in DOMAIN row : ~row[t].revoked =>
    /\ account[token[t].sub].status = "APPROVED"
    /\ account[token[t].sub].verified
    /\ token[t].iat > LatestCutoff(token[t].sub)

\* The microsecond timestamps separate exactly the pairs issued before the last
\* password change or rejection from those issued after it, even when the clock did
\* not move between the two: the old ones are cut off and the new ones are not.
CutoffsExact ==
  \A t \in Issued : TokenIsCutOff(token[t].iat, LatestCutoff(token[t].sub)) <=> t <= account[token[t].sub].cut

\* A delayed response can only set a token that the browser's later login or logout
\* has already revoked: no family older than the last one stays live on a browser.
BrowserSealed ==
  \A t \in DOMAIN row : ~row[t].revoked => token[t].family > sealed[row[t].device]

\* Rotation keeps a family linear: duplicates and races never leave two of its
\* tokens redeemable.
OneLivePerFamily ==
  \A s, t \in DOMAIN row :
    token[s].family = token[t].family /\ ~row[s].revoked /\ ~row[t].revoked => s = t

\* Reuse of a superseded token stays detectable: while its family has a live member
\* and the token has not expired, maintenance keeps its row.
ReplayDetectable ==
  \A s, t \in Issued :
    s < t /\ token[s].family = token[t].family /\ Live(t) /\ ~Expired(s)
      => s \in DOMAIN row /\ row[s].replaced

\* REFRESH_ROTATION_IN_PROGRESS is answered only while the browser has a successor
\* that a refresh would accept.
SuccessorUsable ==
  \A d \in Devices, t \in Issued :
    RefreshOutcome(d, t) = "IN_PROGRESS" => \E s \in Issued : RefreshOutcome(d, s) = "OK"

\* Answers on which a client drops its authentication.
TerminalCodes == {"EXPIRED", "INACTIVE", "PASSWORD_CHANGED", "REVOKED", "REPLAYED"}
\* The terminal codes are final: no later step (a re-approval, a maintenance run, a login
\* elsewhere) makes the token work again.
TerminalIsFinal ==
  [][\A d \in Devices, t \in Issued :
       RefreshOutcome(d, t) \in TerminalCodes => RefreshOutcome(d, t)' \in TerminalCodes]_sessionVars

\* Revocation is complete: rejection, password change, reset, login and logout (auth_simple.py)
\* leave no usable session behind that they were to end, and cut off none that came after.
RevocationComplete == LiveSessionsAdmitted /\ CutoffsExact /\ BrowserSealed
\* Refresh rotation is sound: a family has one redeemable token, a superseded one is recognized,
\* a retry is promised only a successor that works, and a terminal answer stays terminal.
RotationSound == [](OneLivePerFamily /\ ReplayDetectable /\ SuccessorUsable) /\ TerminalIsFinal
=============================================================================
