---------------------------- MODULE ApprovalMail ----------------------------
(***************************************************************************)
(* The mail that tells a user the account is approved:                     *)
(* app/services/account_approval_email.py, filled by approve_user and      *)
(* cleared by reject_user.  A worker claims the notification, sends it     *)
(* without any lock and then finishes the claim it made, while             *)
(* administrators decide again, other workers retry and workers crash.     *)
(***************************************************************************)
EXTENDS Integers

CONSTANTS
  Mailers,        \* the inline delivery and the retry timer
  MaxDecisions,   \* bound on approvals
  MaxMailTime,    \* bound on time
  ClaimTime,      \* APPROVAL_EMAIL_CLAIM_DURATION
  RetryTime       \* APPROVAL_EMAIL_RETRY_DELAY

ASSUME MailConstants == ClaimTime \in Nat /\ RetryTime \in Nat

VARIABLES
  mailNow,   \* the clock
  standing,  \* the account's status and the number of approvals so far
  notice,    \* the pending_approval_email_* columns: transition and retry_at
  mailer,    \* what each worker holds: transition, end of its claim, provider's answer
  mailed     \* transitions the provider has delivered (it deduplicates by transition)

mailVars == <<mailNow, standing, notice, mailer, mailed>>

NoNotice == [transition |-> 0, retry |-> 0]
IdleMailer == [phase |-> "idle", transition |-> 0, until |-> 0]

\* approve_user: only a change of status records a transition and its mail.
ApproveAccount ==
  /\ standing.status # "APPROVED" /\ standing.approvals < MaxDecisions
  /\ standing' = [status |-> "APPROVED", approvals |-> standing.approvals + 1]
  /\ notice' = [transition |-> standing'.approvals, retry |-> mailNow]
  /\ UNCHANGED <<mailNow, mailer, mailed>>

\* auth_simple.reject_user clears the notification; the admin console's does not.
RejectAccount ==
  /\ standing' = [standing EXCEPT !.status = "REJECTED"]
  /\ notice' \in {NoNotice, notice}
  /\ UNCHANGED <<mailNow, mailer, mailed>>

\* The claim: the row is locked and due; it is taken for ClaimTime, or discarded.
ClaimNotice(w) ==
  /\ mailer[w].phase = "idle"
  /\ notice # NoNotice /\ notice.retry <= mailNow
  /\ IF standing.status = "APPROVED"
     THEN /\ notice' = [notice EXCEPT !.retry = mailNow + ClaimTime]
          /\ mailer' = [mailer EXCEPT ![w] = [IdleMailer EXCEPT !.phase = "claimed",
                          !.transition = notice.transition, !.until = mailNow + ClaimTime]]
     ELSE /\ notice' = NoNotice
          /\ UNCHANGED mailer
  /\ UNCHANGED <<mailNow, standing, mailed>>

\* send_account_approved_email: delivered and acknowledged, delivered with the answer
\* lost, or not delivered.
SendApproved(w) ==
  /\ mailer[w].phase = "claimed"
  /\ \E delivered \in BOOLEAN, accepted \in BOOLEAN :
       /\ accepted => delivered
       /\ mailed' = IF delivered THEN mailed \cup {mailer[w].transition} ELSE mailed
       /\ mailer' = [mailer EXCEPT ![w].phase = IF accepted THEN "accepted" ELSE "failed"]
  /\ UNCHANGED <<mailNow, standing, notice>>

\* The claim is compared by user only.
ClaimHeld_ByUser(w) == notice # NoNotice
\* The columns still hold this worker's transition and claim.
ClaimHeld(w) == notice.transition = mailer[w].transition /\ notice.retry = mailer[w].until

FinishNotice(w) ==
  /\ mailer[w].phase \in {"accepted", "failed"}
  /\ mailer' = [mailer EXCEPT ![w] = IdleMailer]
  /\ notice' = IF ~ClaimHeld(w) THEN notice
               ELSE IF mailer[w].phase = "accepted" THEN NoNotice
               ELSE [notice EXCEPT !.retry = mailNow + RetryTime]
  /\ UNCHANGED <<mailNow, standing, mailed>>

\* The worker dies: its claim stays in the row until it lapses.
CrashMailer(w) ==
  /\ mailer[w].phase # "idle"
  /\ mailer' = [mailer EXCEPT ![w] = IdleMailer]
  /\ UNCHANGED <<mailNow, standing, notice, mailed>>

\* Time passes; past the bound the clock stands still but everything due stays due.
MailTick ==
  /\ mailNow < MaxMailTime
  /\ mailNow' = mailNow + 1
  /\ UNCHANGED <<standing, notice, mailer, mailed>>

MailInit ==
  /\ mailNow = 0
  /\ standing = [status |-> "PENDING", approvals |-> 0]
  /\ notice = NoNotice
  /\ mailer = [w \in Mailers |-> IdleMailer]
  /\ mailed = {}

MailNext ==
  \/ ApproveAccount \/ RejectAccount \/ MailTick
  \/ \E w \in Mailers : ClaimNotice(w) \/ SendApproved(w) \/ FinishNotice(w) \/ CrashMailer(w)

MailSpec == MailInit /\ [][MailNext]_mailVars

(***************************************************************************)
(* Properties                                                              *)
(***************************************************************************)
\* While the mail of the approval in force is undelivered it stays scheduled, whatever
\* crashed in between: no worker that finishes late clears the mail of a later approval.
UndeliveredIsScheduled ==
  standing.status = "APPROVED" /\ standing.approvals \notin mailed =>
    notice.transition = standing.approvals
=============================================================================
