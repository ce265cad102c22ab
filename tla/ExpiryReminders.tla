--------------------------- MODULE ExpiryReminders ---------------------------
(***************************************************************************)
(* app/services/order_expiry_reminders.py with its timer command           *)
(* app/cli/order_expiry_reminders.py: one notice per order, recipient and  *)
(* expiry, and its e-mail, claimed, sent without locks and acknowledged.   *)
(* The provider forgets an idempotency key after KeyLife, so a retry must  *)
(* end before that.                                                        *)
(***************************************************************************)
EXTENDS Integers, FiniteSets

CONSTANTS
  Timers,      \* overlapping timer and manual runs
  Expiries,    \* expiry times the order may have
  LeadTime,    \* REMINDER_LEAD_TIME
  LeaseTime,   \* EMAIL_RETRY_DELAY
  RetryWindow, \* EMAIL_RETRY_WINDOW
  KeyLife,     \* how long the provider keeps an idempotency key
  MaxRemindTime

NobodyRuns == "free"

\* Retries end before the provider forgets a notice's key.
ASSUME ReminderConstants ==
  /\ Expiries \subseteq Nat \ {0} /\ NobodyRuns \notin Timers
  /\ LeadTime \in Nat /\ LeaseTime \in Nat /\ RetryWindow \in Nat /\ KeyLife \in Nat
  /\ RetryWindow < KeyLife

VARIABLES
  remindNow,  \* the clock
  order,      \* the order: open, its expiry, and whether its owner wants e-mail
  timer,      \* what each run is doing
  runLock,    \* holder of the advisory lock REMINDER_LOCK_ID
  reminders,  \* the notices: expiry -> number of rows, e-mail state
  sends       \* for each notice, when the provider first delivered and how often

remindVars == <<remindNow, order, timer, runLock, reminders, sends>>

\* A run without a due order, or between two notices, has expiry 0.
NoRun == [phase |-> "idle", expiry |-> 0, at |-> 0]
NoReminder == [rows |-> 0, mail |-> "none", retry |-> 0, deadline |-> 0]
Least(a, b) == IF a <= b THEN a ELSE b

\* _eligible_order_clauses
EligibleOrder == order.open /\ order.expiry > remindNow /\ order.expiry <= remindNow + LeadTime

\* pg_try_advisory_xact_lock: a run that does not get it ends.
TryLock(w) == runLock = NobodyRuns /\ runLock' = w

\* remind_expiring_orders: the query for due orders without a notice ...
RemindQuery(w) ==
  /\ timer[w].phase = "idle"
  /\ TryLock(w)
  /\ timer' = [timer EXCEPT ![w] = [phase |-> "queried",
                 expiry |-> IF EligibleOrder /\ reminders[order.expiry].rows = 0 THEN order.expiry ELSE 0,
                 at |-> remindNow]]
  /\ UNCHANGED <<remindNow, order, reminders, sends>>

\* Mail may be retried until the order expires.
Deadline_Expiry(expiry, at) == expiry
Deadline(expiry, at) == Least(expiry, at + RetryWindow)

\* ... and the insertion of the notices, committed with the release of the lock.
RemindCommit(w) ==
  /\ timer[w].phase = "queried"
  /\ timer' = [timer EXCEPT ![w] = [NoRun EXCEPT !.phase = "deliver"]]
  /\ runLock' = IF runLock = w THEN NobodyRuns ELSE runLock
  /\ reminders' = IF timer[w].expiry = 0 THEN reminders
                  ELSE [reminders EXCEPT ![timer[w].expiry] =
                          [rows |-> @.rows + 1, mail |-> IF order.mail THEN "pending" ELSE "discarded",
                           retry |-> timer[w].at, deadline |-> Deadline(timer[w].expiry, timer[w].at)]]
  /\ UNCHANGED <<remindNow, order, sends>>

\* deliver_expiry_reminder_emails: the oldest due notice is claimed for LeaseTime, or
\* discarded past its deadline or when owner, address or expiry no longer match.
ClaimReminder(w, e) ==
  /\ timer[w].phase = "deliver"
  /\ reminders[e].mail = "pending" /\ reminders[e].retry <= remindNow
  /\ IF remindNow >= reminders[e].deadline \/ ~order.mail \/ order.expiry # e \/ ~EligibleOrder
     THEN /\ reminders' = [reminders EXCEPT ![e].mail = "discarded"]
          /\ UNCHANGED timer
     ELSE /\ reminders' = [reminders EXCEPT ![e].retry = remindNow + LeaseTime]
          /\ timer' = [timer EXCEPT ![w] = [phase |-> "send", expiry |-> e, at |-> remindNow]]
  /\ UNCHANGED <<remindNow, order, runLock, sends>>

\* send_order_expiry_email with the notice's id as key: the provider delivers once per
\* key it remembers; the answer may be lost.
SendReminder(w) ==
  LET e == timer[w].expiry IN
  /\ timer[w].phase = "send"
  /\ \E delivered \in BOOLEAN, accepted \in BOOLEAN :
       /\ accepted => delivered
       /\ sends' = IF ~delivered \/ (sends[e].count > 0 /\ remindNow < sends[e].first + KeyLife) THEN sends
                   ELSE [sends EXCEPT ![e] = [first |-> remindNow, count |-> @.count + 1]]
       /\ timer' = [timer EXCEPT ![w].phase = IF accepted THEN "ack" ELSE "deliver"]
  /\ UNCHANGED <<remindNow, order, runLock, reminders>>

AckReminder(w) ==
  /\ timer[w].phase = "ack"
  /\ reminders' = [reminders EXCEPT ![timer[w].expiry].mail = "sent"]
  /\ timer' = [timer EXCEPT ![w] = [NoRun EXCEPT !.phase = "deliver"]]
  /\ UNCHANGED <<remindNow, order, runLock, sends>>

\* The batch is done, or the run dies: an open transaction and its lock go with it.
EndRun(w) ==
  /\ timer[w].phase # "idle"
  /\ timer' = [timer EXCEPT ![w] = NoRun]
  /\ runLock' = IF runLock = w THEN NobodyRuns ELSE runLock
  /\ UNCHANGED <<remindNow, order, reminders, sends>>

\* The owner cancels, moves the expiry or turns the e-mails off; the query's row lock
\* keeps the order still until the notices are committed.
OrderChanges ==
  /\ \A w \in Timers : ~(timer[w].phase = "queried" /\ timer[w].expiry # 0)
  /\ \/ order.open /\ order' = [order EXCEPT !.open = FALSE]
     \/ order.open /\ \E e \in Expiries : order' = [order EXCEPT !.expiry = e]
     \/ order' = [order EXCEPT !.mail = ~@]
  /\ UNCHANGED <<remindNow, timer, runLock, reminders, sends>>

\* A send ends within its timeouts, long before one unit of time has passed.
RemindTick ==
  /\ remindNow < MaxRemindTime
  /\ \A w \in Timers : timer[w].phase \notin {"send", "queried"} \/ remindNow <= timer[w].at
  /\ remindNow' = remindNow + 1
  /\ UNCHANGED <<order, timer, runLock, reminders, sends>>

RemindInit ==
  /\ remindNow = 0
  /\ \E e \in Expiries : order = [open |-> TRUE, expiry |-> e, mail |-> TRUE]
  /\ timer = [w \in Timers |-> NoRun]
  /\ runLock = NobodyRuns
  /\ reminders = [e \in Expiries |-> NoReminder]
  /\ sends = [e \in Expiries |-> [first |-> 0, count |-> 0]]

RemindNext ==
  \/ OrderChanges \/ RemindTick
  \/ \E w \in Timers : \/ RemindQuery(w) \/ RemindCommit(w) \/ SendReminder(w) \/ AckReminder(w)
                       \/ EndRun(w) \/ \E e \in Expiries : ClaimReminder(w, e)

RemindSpec == RemindInit /\ [][RemindNext]_remindVars

(***************************************************************************)
(* Properties                                                              *)
(***************************************************************************)
\* There is one notice per order, recipient and expiry, however many runs overlap and
\* however often the order's expiry moves away and back.
OneReminderPerExpiry == \A e \in Expiries : reminders[e].rows <= 1

\* The recipient gets the mail of a notice at most once: retries after lost answers and
\* crashed runs stop before the provider forgets the notice's key.
MailedOnce == \A e \in Expiries : sends[e].count <= 1

\* Overlapping, crashing and retrying runs of the reminder job remind once: one notice per expiry
\* and one mail per notice.
RemindedOnce == OneReminderPerExpiry /\ MailedOnce
=============================================================================
