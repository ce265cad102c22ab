--------------------------- MODULE ExternalMonitor ---------------------------
(***************************************************************************)
(* The uptime monitor with its guarded recovery and automatic diagnosis    *)
(* (deploy/external_monitor): a timer runs the monitor, a failed run       *)
(* starts the recovery, a failed recovery starts the diagnosis.  The three *)
(* share files only: status.json, and one state file each.  Times are ages *)
(* in units of the monitor's schedule, capped where the code stops         *)
(* looking.  The signup canary of the monitor is the second part.          *)
(***************************************************************************)
EXTENDS Integers, Sequences, FiniteSets

CONSTANTS
  Cooldown,       \* of alerts, recovery and diagnosis
  DeepInterval,   \* how long the result of the expensive checks is kept
  MaxFaults,      \* faults and kills that may happen
  MaxDeploys,     \* deployments that may happen
  WatchedFault    \* a set of errors whose recovery attempts are counted

ASSUME MonitorAssumption == Cooldown \in Nat /\ DeepInterval \in Nat

VARIABLES
  fault,       \* parts of the system that are broken
  deploying,   \* a deployment state file exists
  supply,      \* faults and deployments still to come
  statusFile,  \* status.json
  pager,       \* state.json of the monitor: what it saw last, when it alerted last
  attempt,     \* state.json of the recovery
  diagnosed,   \* state.json of the diagnosis
  recover,     \* the running recovery
  reading,     \* what one of the checks has read
  signup,      \* the signup canary and its account on the server
  tried        \* attempts at WatchedFault: the time since one, and whether it is the last

monVars == <<fault, deploying, supply, statusFile, pager, attempt, diagnosed, recover, reading, signup, tried>>
besideCanary == <<fault, deploying, supply, statusFile, pager, attempt, diagnosed, recover, reading, tried>>

Parts == {"api", "db", "proxy", "caddyfile", "backup"}
NoErrors == {}
AtRest == [pc |-> "idle", errors |-> NoErrors, attempted |-> FALSE, proxy |-> FALSE]
NoReading == [kind |-> "none"]
NoSignup == [pc |-> "idle", account |-> FALSE, late |-> FALSE, ok |-> FALSE, reported |-> FALSE]

(***************************************************************************)
(* The checks                                                              *)
(***************************************************************************)
\* check_endpoints: the public health route fails when the process, its database or the
\* route to it does.
EndpointErrors(f) == IF f \cap {"api", "db", "proxy"} # {} THEN {"endpoint"} ELSE {}
CaddyErrors(f) == f \cap {"caddyfile"}
\* run_expensive_checks: the backup stands for the seven checks.
DeepErrors(f) == f \cap {"backup"}

\* load_cached_expensive_checks.
DeepCached == statusFile.deepAge < DeepInterval

\* check_expensive_if_due.
DeepNow(f) ==
  IF DeepCached THEN [age |-> statusFile.deepAge, errors |-> statusFile.deep]
  ELSE [age |-> 0, errors |-> DeepErrors(f)]

\* main of the monitor, up to write_status.
Checked ==
  LET d == DeepNow(fault)
      errors == EndpointErrors(fault) \cup CaddyErrors(fault) \cup d.errors
  IN [errors |-> errors, deep |-> d.errors, deepAge |-> d.age]

\* maybe_alert: the first failure and one in every cooldown are sent.  The verification run
\* of the recovery, with Telegram disabled, writes the same state.
MaybeAlert(errors) ==
  [ok |-> errors = {},
   age |-> IF errors # {} /\ (pager.ok \/ pager.age >= Cooldown) THEN 0 ELSE pager.age]

(***************************************************************************)
(* The monitor's timer                                                     *)
(***************************************************************************)
\* OnFailure starts the recovery unless it is already running.
MonitorRun ==
  /\ statusFile' = Checked
  /\ pager' = MaybeAlert(Checked.errors)
  /\ recover' = IF Checked.errors # {} /\ recover.pc = "idle" THEN [AtRest EXCEPT !.pc = "begin"] ELSE recover
  /\ UNCHANGED <<fault, deploying, supply, attempt, diagnosed, tried>>

Older(a) == IF a < Cooldown THEN a + 1 ELSE a
MonitorTick ==
  /\ statusFile' = [statusFile EXCEPT !.deepAge = IF @ < DeepInterval THEN @ + 1 ELSE @]
  /\ pager' = [pager EXCEPT !.age = Older(@)]
  /\ attempt' = [attempt EXCEPT !.age = Older(@)]
  /\ diagnosed' = [diagnosed EXCEPT !.age = Older(@)]
  /\ tried' = [tried EXCEPT !.age = Older(@)]
  /\ UNCHANGED <<fault, deploying, supply, recover>>

(***************************************************************************)
(* Recovery                                                                *)
(***************************************************************************)
\* The record of an attempt that is not suppressed.
Tried(fp) == IF fp = WatchedFault THEN [last |-> TRUE, age |-> 0] ELSE [tried EXCEPT !.last = FALSE]

\* The suppressed attempt renews the cooldown.
RecoverBegin_Renewing ==
  /\ recover.pc = "begin"
  /\ LET fp == statusFile.errors IN
     IF fp = {} THEN recover' = AtRest /\ UNCHANGED <<attempt, tried>>
     ELSE IF attempt.fp = fp /\ attempt.age < Cooldown
       THEN recover' = [AtRest EXCEPT !.pc = "diagnose"] /\ attempt' = [fp |-> fp, age |-> 0] /\ UNCHANGED tried
     ELSE /\ attempt' = [fp |-> fp, age |-> 0]
          /\ recover' = [AtRest EXCEPT !.pc = IF deploying THEN "diagnose" ELSE "api", !.errors = fp]
          /\ tried' = Tried(fp)
  /\ UNCHANGED <<fault, deploying, supply, statusFile, pager, diagnosed>>
\* main: healthy by now, the same failure within the cooldown, or an attempt that is put on
\* file before it acts and refused while a deployment is active.
RecoverBegin ==
  /\ recover.pc = "begin"
  /\ LET fp == statusFile.errors IN
     IF fp = {} THEN recover' = AtRest /\ UNCHANGED <<attempt, tried>>
     ELSE IF attempt.fp = fp /\ attempt.age < Cooldown
       THEN recover' = [AtRest EXCEPT !.pc = "diagnose"] /\ UNCHANGED <<attempt, tried>>
     ELSE /\ attempt' = [fp |-> fp, age |-> 0]
          /\ recover' = [AtRest EXCEPT !.pc = IF deploying THEN "diagnose" ELSE "api", !.errors = fp]
          /\ tried' = Tried(fp)
  /\ UNCHANGED <<fault, deploying, supply, statusFile, pager, diagnosed>>

\* probe_local.
LocalState == IF "api" \in fault THEN "unavailable" ELSE IF "db" \in fault THEN "database_unhealthy" ELSE "healthy"

Continue(pc, attempted, proxy) ==
  recover' = [recover EXCEPT !.pc = pc, !.attempted = @ \/ attempted, !.proxy = proxy]
Elsewhere == UNCHANGED <<deploying, supply, statusFile, pager, attempt, diagnosed, tried>>

\* recover_api without a restart: not asked for, refused, or only the route is broken.
ApiPassedOver ==
  /\ recover.pc = "api"
  /\ \/ "endpoint" \notin recover.errors /\ Continue("caddy", FALSE, FALSE)
     \/ /\ "endpoint" \in recover.errors
        /\ \/ LocalState = "database_unhealthy" /\ Continue("caddy", FALSE, FALSE)
           \/ LocalState = "unavailable" /\ deploying /\ Continue("caddy", FALSE, FALSE)
           \/ LocalState = "healthy" /\ Continue("caddy", FALSE, "proxy" \in fault)
  /\ Elsewhere /\ UNCHANGED fault
RestartApi(cured) ==
  /\ recover.pc = "api" /\ "endpoint" \in recover.errors
  /\ LocalState = "unavailable" /\ ~deploying
  /\ fault' = IF cured THEN fault \ {"api"} ELSE fault
  /\ Continue("caddy", TRUE, cured /\ "db" \notin fault /\ "proxy" \in fault)
  /\ Elsewhere

\* recover_caddy, which trusts the monitor's validation of the configuration.
RecoverCaddy ==
  /\ recover.pc = "caddy"
  /\ fault' = IF recover.proxy /\ ~deploying /\ "caddyfile" \notin recover.errors
              THEN fault \ {"proxy"} ELSE fault
  /\ Continue("backup", recover.proxy, recover.proxy)
  /\ Elsewhere

\* recover_backup; a backup without headroom is refused, one that fails changes nothing.
RecoverBackup(done) ==
  /\ recover.pc = "backup"
  /\ done => "backup" \in recover.errors /\ ~deploying
  /\ fault' = IF done THEN fault \ {"backup"} ELSE fault
  /\ recover' = LET a == recover.attempted \/ "backup" \in recover.errors IN
                [recover EXCEPT !.pc = IF a THEN "verify" ELSE "diagnose", !.attempted = a]
  /\ Elsewhere

\* run_full_monitor and the outcome.
RecoverVerify ==
  /\ recover.pc = "verify"
  /\ statusFile' = Checked
  /\ pager' = MaybeAlert(Checked.errors)
  /\ recover' = IF Checked.errors = {} THEN AtRest ELSE [AtRest EXCEPT !.pc = "diagnose"]
  /\ UNCHANGED <<fault, deploying, supply, attempt, diagnosed, tried>>

\* The unit is killed, or the host reboots.
RecoverCrash ==
  /\ recover.pc \in {"begin", "api", "caddy", "backup", "verify"}
  /\ supply.faults > 0 /\ supply' = [supply EXCEPT !.faults = @ - 1]
  /\ recover' = [AtRest EXCEPT !.pc = "diagnose"]
  /\ UNCHANGED <<fault, deploying, statusFile, pager, attempt, diagnosed, tried>>

(***************************************************************************)
(* Diagnosis                                                               *)
(***************************************************************************)
\* main of the diagnosis, and every exit of it: a healthy status, a duplicate, a message.
Diagnose ==
  /\ recover.pc = "diagnose"
  /\ recover' = AtRest
  /\ IF statusFile.errors = {} \/ (diagnosed.fp = statusFile.errors /\ diagnosed.age < Cooldown)
     THEN UNCHANGED diagnosed
     ELSE diagnosed' = [fp |-> statusFile.errors, age |-> 0]
  /\ UNCHANGED <<fault, deploying, supply, statusFile, pager, attempt, tried>>

(***************************************************************************)
(* The world                                                               *)
(***************************************************************************)
World == UNCHANGED <<statusFile, pager, attempt, diagnosed, recover, tried>>
Breaks(p) ==
  /\ supply.faults > 0 /\ p \notin fault
  /\ supply' = [supply EXCEPT !.faults = @ - 1] /\ fault' = fault \cup {p}
  /\ World /\ UNCHANGED deploying
\* Operators repair what the recovery must not touch.
Repaired(p) ==
  /\ p \in fault \ {"api", "proxy", "backup"}
  /\ fault' = fault \ {p} /\ World /\ UNCHANGED <<deploying, supply>>
DeployBegins ==
  /\ supply.deploys > 0 /\ ~deploying
  /\ supply' = [supply EXCEPT !.deploys = @ - 1] /\ deploying' = TRUE
  /\ World /\ UNCHANGED fault
DeployEnds == deploying /\ deploying' = FALSE /\ World /\ UNCHANGED <<fault, supply>>

MonInit ==
  /\ fault = {} /\ deploying = FALSE
  /\ supply = [faults |-> MaxFaults, deploys |-> MaxDeploys]
  /\ statusFile = [errors |-> {}, deep |-> {}, deepAge |-> DeepInterval]
  /\ pager = [ok |-> TRUE, age |-> Cooldown]
  /\ attempt = [fp |-> {}, age |-> Cooldown] /\ diagnosed = [fp |-> {}, age |-> Cooldown]
  /\ recover = AtRest /\ reading = NoReading /\ signup = NoSignup /\ tried = [last |-> FALSE, age |-> Cooldown]

RecoverNext ==
  \/ RecoverBegin \/ ApiPassedOver \/ RestartApi(TRUE) \/ RestartApi(FALSE) \/ RecoverCaddy
  \/ RecoverBackup(TRUE) \/ RecoverBackup(FALSE) \/ RecoverVerify \/ RecoverCrash \/ Diagnose
MonNext ==
  /\ \/ MonitorRun \/ MonitorTick \/ RecoverNext \/ DeployBegins \/ DeployEnds
     \/ \E p \in Parts : Breaks(p) \/ Repaired(p)
  /\ UNCHANGED <<reading, signup>>

(***************************************************************************)
(* Readings: the event outbox and the rendered login page                  *)
(***************************************************************************)
OutboxMaxPending == 1     \* 1,000 in the code
OutboxMaxAge == 1         \* 300 seconds

\* evaluate of outbox_backlog_probe.py, run as a process of its own: its exit code.
ProbeCode(pending, oldest) == IF pending > OutboxMaxPending \/ oldest > OutboxMaxAge THEN 1 ELSE 0

Breached(pending, oldest) == pending > OutboxMaxPending \/ oldest > OutboxMaxAge

\* check_outbox_backlogs computes the thresholds again and wants both answers to agree.
OutboxVerdict(r) ==
  CASE r.fate # "answered" -> r.fate
    [] (ProbeCode(r.pending, r.oldest) = 1) # Breached(r.pending, r.oldest) -> "invalid_output"
    [] Breached(r.pending, r.oldest) -> "threshold_breached"
    [] OTHER -> "ok"

\* check_rendered_page_attempt polls until the deadline; the first clean page, forbidden text
\* or security checkpoint decides.
AttemptOutcome(polls) ==
  LET ends == {k \in DOMAIN polls : polls[k] \in {"clean", "checkpoint", "forbidden"}} IN
  IF polls = <<>> THEN "timeout"
  ELSE IF ends = {} \/ polls[CHOOSE k \in ends : \A j \in ends : k <= j] = "forbidden" THEN "failed"
  ELSE polls[CHOOSE k \in ends : \A j \in ends : k <= j]

\* check_rendered_pages: attempts go on until one is good enough.
PageError(attempts) == \A k \in DOMAIN attempts : AttemptOutcome(attempts[k]) \notin {"clean", "checkpoint"}

Polls == UNION {[1 .. n -> {"clean", "checkpoint", "forbidden", "partial"}] : n \in 0 .. 2}
TakeReading ==
  /\ reading = NoReading
  /\ \/ \E p, a \in 0 .. 2, f \in {"answered", "probe_timeout", "probe_unavailable"} :
          reading' = [kind |-> "outbox", pending |-> p, oldest |-> a, fate |-> f]
     \/ \E x, y \in Polls : reading' = [kind |-> "page", attempts |-> <<x, y>>]
  /\ UNCHANGED <<fault, deploying, supply, statusFile, pager, attempt, diagnosed, recover, signup, tried>>

(***************************************************************************)
(* The signup canary                                                       *)
(***************************************************************************)
\* signup_canary: the first request answers with a token, or the journey has failed.
CanaryRegisters(ok) ==
  /\ signup.pc = "idle"
  /\ signup' = [NoSignup EXCEPT !.pc = IF ok THEN "org" ELSE "cleanup", !.reported = ~ok]
  /\ UNCHANGED besideCanary

\* The second creates user and organization; its answer may be lost, and the server may be
\* still at work when the client has given up.
CanaryJoins(answered, created, late) ==
  /\ signup.pc = "org"
  /\ answered => created /\ ~late
  /\ ~(created /\ late)
  /\ signup' = [signup EXCEPT !.pc = "cleanup", !.account = created, !.late = late,
                              !.ok = answered, !.reported = ~answered]
  /\ UNCHANGED besideCanary
CanaryCommitsLate ==
  /\ signup.late
  /\ signup' = [signup EXCEPT !.late = FALSE, !.account = TRUE]
  /\ UNCHANGED besideCanary

\* A cleanup that fails is only logged.
CleanupError_Logged(answered, deleted) == FALSE
\* No answer, or one that does not speak of the account that was created.
CleanupError(answered, deleted) == ~answered \/ (signup.ok /\ ~deleted)

\* The cleanup always runs; cleanup_signup_canary deletes what it finds, or fails.
CanaryCleans(answered, works) ==
  /\ signup.pc = "cleanup"
  /\ answered => works
  /\ signup' = [signup EXCEPT !.pc = "done",
                 !.account = @ /\ ~works,
                 !.reported = @ \/ CleanupError(answered, works /\ signup.account)]
  /\ UNCHANGED besideCanary

\* The next run has a new address.
CanaryAgain == signup.pc = "done" /\ ~signup.late /\ signup' = NoSignup /\ UNCHANGED besideCanary

CanaryNext ==
  \/ CanaryCommitsLate \/ CanaryAgain
  \/ \E a, b, c \in BOOLEAN : CanaryRegisters(a) \/ CanaryJoins(a, b, c) \/ CanaryCleans(a, b)

ExternalSpec == MonInit /\ [][MonNext \/ CanaryNext \/ TakeReading]_monVars

(***************************************************************************)
(* Properties                                                              *)
(***************************************************************************)

\* A backend that is down is restarted in the end, although deployments, an unhealthy
\* database, the cooldown and killed recoveries each make an attempt come to nothing.
DownGetsRestarted == ("api" \in fault) ~> ("api" \notin fault)

\* Once faults end, status.json says so in the end and for good, in spite of cached results
\* of the expensive checks that outlive the repair.
StatusSettles == <>[](statusFile.errors = {})

\* Two processes decide by the same thresholds: no backlog at its limit makes them disagree,
\* and a probe that did not answer is never read as an empty outbox.
OutboxVerdictTrue ==
  reading.kind = "outbox" =>
    /\ OutboxVerdict(reading) # "invalid_output"
    /\ OutboxVerdict(reading) = "ok" <=>
         reading.fate = "answered" /\ reading.pending <= OutboxMaxPending /\ reading.oldest <= OutboxMaxAge

\* A page that shows forbidden text before it is clean in every attempt, a maintenance page
\* that gives way to the login form for instance, is reported.
ForbiddenTextReported ==
  reading.kind = "page" =>
    ((\A k \in DOMAIN reading.attempts : reading.attempts[k] # <<>> /\ Head(reading.attempts[k]) = "forbidden")
       => PageError(reading.attempts))

\* An account the canary leaves on the server, or may still leave, goes with an error of the
\* monitor's run.
CanaryResidueReported == signup.pc = "done" /\ (signup.account \/ signup.late) => signup.reported

\* Across kills of the recovery, the failure it tried last is not tried again within the
\* cooldown: the attempt is on file before the first command runs.
SameFaultOnce ==
  [][tried.last /\ tried'.last /\ tried'.age = 0 => tried.age = 0 \/ tried.age >= Cooldown]_<<tried, recover>>

\* Recovery (verdaxis_recover.py) does its job without thrashing: one attempt per failure and
\* cooldown, a restart in the end, and a status that settles once the faults are gone.
OutageEnds == SameFaultOnce /\ DownGetsRestarted /\ StatusSettles
\* What the monitor's own probes meet, a canary's residue, a backlog or forbidden text, is in
\* the errors of the run (verdaxis_monitor.py).
ProbesReport == CanaryResidueReported /\ OutboxVerdictTrue /\ ForbiddenTextReported
=============================================================================
