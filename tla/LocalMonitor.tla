---------------------------- MODULE LocalMonitor ----------------------------
(***************************************************************************)
(* The monitors of a host (deploy/monitor): alert_dispatch.py with its     *)
(* receipts per destination, the hourly reminder that runs beside it,      *)
(* backup_verify.py against the producer's attempt records, and the gate   *)
(* of legacy_retirement.py, which rests on the receipts.                   *)
(***************************************************************************)
EXTENDS Integers, Sequences, FiniteSets, SequencesExt

CONSTANTS
  Dests,         \* configured destinations
  Hour,          \* HOURLY_REPEAT_SECONDS
  MaxAlertTime,
  ReminderLag,   \* how long a reminder may wait for the lock of a check
  Databases,
  MaxBackups     \* attempts of the producer

VARIABLES
  second,     \* the clock
  alertFile,  \* the alert state of one check
  runner,     \* the two units that write it: "event" and "reminder"
  alertLock,
  sent,       \* what a destination heard last
  lastFailed, \* destinations the last dispatch could not reach
  unacked,    \* destinations that heard something no receipt tells of
  belated,    \* destinations told of a failure by a reminder that had waited, or whose receipts such a one spoiled
  attempts,   \* the producer's attempt records, oldest first
  backupId,   \* status.json of the producer: the generation it speaks of
  artifacts,  \* files: <<database, generation, intact>>
  retire      \* the retirement gate

localVars == <<second, alertFile, runner, alertLock, sent, lastFailed, unacked, belated, attempts, backupId, artifacts, retire>>
backupVars == <<attempts, backupId, artifacts>>

Never == 0
NoReceipts == [d \in Dests |-> [failure |-> Never, healthy |-> Never]]
NoAlertFile == [state |-> "none", observed |-> 0, receipts |-> NoReceipts]
Asleep == [pc |-> "idle", now |-> 0, state |-> "none", todo |-> {}]
AsleepAgain(r) == [Asleep EXCEPT !.now = r.now]
NoRetirement == [pc |-> "idle", evidence |-> NoReceipts, noisy |-> FALSE]

(***************************************************************************)
(* Alert dispatch                                                          *)
(***************************************************************************)
\* valid_alert_state: no receipt is later than the time of observation.
ValidAlertState(f) == \A d \in Dests : f.receipts[d].failure <= f.observed /\ f.receipts[d].healthy <= f.observed

\* Recovery is told once, on the transition of the check.
ReceiptDue_OnTransition(r, state, now) ==
  IF state = "healthy" THEN alertFile.state = "failure" /\ r.failure > r.healthy
  ELSE r.failure = Never \/ r.healthy >= r.failure \/ now - r.failure >= Hour
\* _receipt_due.
ReceiptDue(r, state, now) ==
  IF state = "healthy" THEN r.failure > r.healthy
  ELSE r.failure = Never \/ r.healthy >= r.failure \/ now - r.failure >= Hour

AlertRest == UNCHANGED <<second, backupId, attempts, artifacts>>

\* A monitor has run and its unit's OnSuccess or OnFailure starts the dispatch; the hourly
\* timer starts the reminder.  Both take the time before they wait for the lock; the timer
\* of a monitor keeps its runs in different seconds.
EventStarts(s) ==
  /\ runner["event"].pc = "idle" /\ runner["event"].now < second
  /\ runner' = [runner EXCEPT !["event"] = [Asleep EXCEPT !.pc = "waiting", !.now = second, !.state = s]]
  /\ AlertRest /\ UNCHANGED <<alertFile, alertLock, sent, lastFailed, unacked, belated, retire>>
ReminderStarts ==
  /\ runner["reminder"].pc = "idle"
  /\ runner' = [runner EXCEPT !["reminder"] = [Asleep EXCEPT !.pc = "waiting", !.now = second, !.state = "failure"]]
  /\ AlertRest /\ UNCHANGED <<alertFile, alertLock, sent, lastFailed, unacked, belated, retire>>

\* process_reminder does nothing unless the state on file is a failure or is malformed.
Inactive(p) == p = "reminder" /\ ValidAlertState(alertFile) /\ alertFile.state # "failure"

\* _load_state, the destinations that are due, and the first write of the state.
Dispatch(p) ==
  LET r == runner[p]
      valid == ValidAlertState(alertFile)
      receipts == IF valid THEN alertFile.receipts ELSE NoReceipts
      due == {d \in Dests : ReceiptDue(receipts[d], r.state, r.now)}
  IN
  /\ r.pc = "waiting" /\ alertLock = "none"
  /\ IF Inactive(p)
     THEN runner' = [runner EXCEPT ![p] = AsleepAgain(@)] /\ UNCHANGED <<alertFile, alertLock, lastFailed, belated>>
     ELSE /\ alertFile' = [state |-> r.state, observed |-> r.now, receipts |-> receipts]
          /\ belated' = IF valid THEN belated ELSE Dests
          /\ alertLock' = p
          /\ runner' = [runner EXCEPT ![p].pc = "posting", ![p].todo = due]
          /\ lastFailed' = {}
  /\ AlertRest /\ UNCHANGED <<sent, unacked, retire>>

\* One destination, Healthchecks before Telegram; a delivery is on file before the next one.
Post(p, d, delivered) ==
  LET r == runner[p] IN
  /\ r.pc = "posting" /\ d \in r.todo
  /\ runner' = [runner EXCEPT ![p].todo = @ \ {d}]
  /\ IF delivered
     THEN /\ alertFile' = [alertFile EXCEPT !.receipts[d][r.state] = r.now]
          /\ sent' = [sent EXCEPT ![d] = r.state]
          /\ unacked' = unacked \ {d} /\ UNCHANGED lastFailed
          /\ belated' = IF r.state = "healthy" THEN belated ELSE (belated \ {d}) \cup {x \in {d} : r.now < second}
          /\ retire' = [retire EXCEPT !.noisy = @ \/ retire.pc \in {"signed", "proved"}]
     ELSE lastFailed' = lastFailed \cup {d} /\ UNCHANGED <<alertFile, sent, unacked, belated, retire>>
  /\ AlertRest /\ UNCHANGED alertLock

DispatchEnds(p) ==
  /\ runner[p].pc = "posting" /\ runner[p].todo = {}
  /\ runner' = [runner EXCEPT ![p] = AsleepAgain(@)] /\ alertLock' = "none"
  /\ AlertRest /\ UNCHANGED <<alertFile, sent, lastFailed, unacked, belated, retire>>

\* systemd kills a unit that takes too long, perhaps after the message went out.
DispatchKilled(p, d, heard) ==
  /\ runner[p].pc = "posting" /\ d \in runner[p].todo
  /\ lastFailed' = lastFailed \cup runner[p].todo
  /\ IF heard THEN sent' = [sent EXCEPT ![d] = runner[p].state] /\ unacked' = unacked \cup {d}
     ELSE UNCHANGED <<sent, unacked>>
  /\ runner' = [runner EXCEPT ![p] = AsleepAgain(@)] /\ alertLock' = "none"
  /\ AlertRest /\ UNCHANGED <<alertFile, belated, retire>>

\* A unit ends long before the next run of its timer; a reminder may have waited for a while.
AlertTick ==
  /\ second < MaxAlertTime /\ second' = second + 1
  /\ runner["event"].pc = "idle"
  /\ runner["reminder"].pc = "idle" \/ second - runner["reminder"].now < ReminderLag
  /\ UNCHANGED <<alertFile, runner, alertLock, sent, lastFailed, unacked, belated, attempts, backupId, artifacts, retire>>

(***************************************************************************)
(* Retirement of the legacy monitor                                        *)
(***************************************************************************)
\* The proof is a recovery of every destination.
Recovered(f) == \A d \in Dests : Never < f.receipts[d].failure /\ f.receipts[d].failure < f.receipts[d].healthy
\* _validate_live_proof: the durable receipts are those the evidence was signed with.
LiveProof ==
  /\ ValidAlertState(alertFile) /\ alertFile.state = "healthy"
  /\ alertFile.receipts = retire.evidence /\ Recovered(alertFile)

\* The evidence file is written by hand from the state of the alerts.
SignEvidence ==
  /\ retire.pc = "idle" /\ alertFile.state = "healthy" /\ Recovered(alertFile)
  /\ retire' = [pc |-> "signed", evidence |-> alertFile.receipts, noisy |-> FALSE]
  /\ AlertRest /\ UNCHANGED <<alertFile, runner, alertLock, sent, lastFailed, unacked, belated>>
\* guarded_retirement proves twice, timers being checked after each proof.
RetirementProves ==
  /\ retire.pc \in {"signed", "proved"}
  /\ retire' = IF ~LiveProof THEN NoRetirement
               ELSE [retire EXCEPT !.pc = IF @ = "signed" THEN "proved" ELSE "retired"]
  /\ AlertRest /\ UNCHANGED <<alertFile, runner, alertLock, sent, lastFailed, unacked, belated>>

(***************************************************************************)
(* Backups                                                                 *)
(***************************************************************************)
BackupRest == UNCHANGED <<second, alertFile, runner, alertLock, sent, lastFailed, unacked, belated, retire>>
Running == attempts # <<>> /\ Last(attempts) = "started"
Generation == Len(attempts)

\* The producer, which is not part of the repository: a record before any work, artifacts,
\* status.json, and the record of success or failure; it may die anywhere.
BackupStarts ==
  /\ Len(attempts) < MaxBackups
  /\ attempts' = Append(attempts, "started")
  /\ BackupRest /\ UNCHANGED <<backupId, artifacts>>
WriteArtifact(db, intact) ==
  /\ Running /\ \A a \in artifacts : a[1] = db => a[2] # Generation
  /\ artifacts' = artifacts \cup {<<db, Generation, intact>>}
  /\ BackupRest /\ UNCHANGED <<attempts, backupId>>
WriteBackupStatus ==
  /\ Running /\ \A db \in Databases : \E a \in artifacts : a[1] = db /\ a[2] = Generation
  /\ backupId' = Generation
  /\ BackupRest /\ UNCHANGED <<attempts, artifacts>>
BackupEnds(s) ==
  /\ Running /\ (s = "succeeded" => backupId = Generation)
  /\ attempts' = [attempts EXCEPT ![Generation] = s]
  /\ BackupRest /\ UNCHANGED <<backupId, artifacts>>
\* Storage loses a file or its content.
ArtifactLost(a) ==
  /\ a \in artifacts
  /\ artifacts' = artifacts \ {a}
  /\ BackupRest /\ UNCHANGED <<attempts, backupId>>

\* _latest_attempt, by the time it started.
LatestAttempt == Len(attempts)

\* _newest_artifacts.
NewestArtifact(db) == Max({0} \cup {a[2] : a \in {x \in artifacts : x[1] = db}})

\* _read_metadata and _validate_metadata: status.json speaks of the attempt.
MetadataOf(k) ==
  CASE backupId = 0 -> "metadata_missing"
    [] backupId # k -> "attempt_status_mismatch"
    [] OTHER -> "ok"

\* verify_backups.
BackupVerdict ==
  LET k == LatestAttempt IN
  CASE k = 0 -> "attempt_evidence_missing"
    [] attempts[k] = "started" -> "backup_attempt_incomplete"
    [] attempts[k] = "failed" -> "backup_attempt_failed"
    [] MetadataOf(k) # "ok" -> MetadataOf(k)
    [] \E db \in Databases : NewestArtifact(db) \notin {0, backupId} -> "status_not_newest"
    [] \E db \in Databases : <<db, backupId, TRUE>> \notin artifacts -> "artifact"
    [] OTHER -> "ok"

(***************************************************************************)
(* Specification                                                           *)
(***************************************************************************)
LocalInit ==
  /\ second = 1 /\ alertFile = NoAlertFile /\ runner = [p \in {"event", "reminder"} |-> Asleep]
  /\ alertLock = "none" /\ sent = [d \in Dests |-> "none"] /\ lastFailed = {} /\ unacked = {}
  /\ belated = {} /\ attempts = <<>> /\ backupId = 0 /\ artifacts = {} /\ retire = NoRetirement

AlertNext ==
  \/ EventStarts("healthy") \/ EventStarts("failure") \/ ReminderStarts \/ AlertTick
  \/ SignEvidence \/ RetirementProves
  \/ \E p \in {"event", "reminder"} :
       \/ Dispatch(p) \/ DispatchEnds(p)
       \/ \E d \in Dests, b \in BOOLEAN : Post(p, d, b) \/ DispatchKilled(p, d, b)
BackupNext ==
  \/ BackupStarts \/ WriteBackupStatus \/ BackupEnds("succeeded") \/ BackupEnds("failed")
  \/ \E db \in Databases, b \in BOOLEAN : WriteArtifact(db, b)
  \/ \E a \in artifacts : ArtifactLost(a)

LocalSpec == LocalInit /\ [][AlertNext \/ BackupNext]_localVars

(***************************************************************************)
(* Properties                                                              *)
(***************************************************************************)
\* While a check fails, every destination the last dispatch reached has heard of it last,
\* whatever deliveries failed or state files were thrown away before.
OutageTold ==
  alertLock = "none" /\ alertFile.state = "failure" =>
    \A d \in Dests \ (lastFailed \cup unacked) : sent[d] = "failure"

\* A recovery whose delivery failed is told by a later healthy run, to every destination that
\* heard of the failure, unless a reminder that had waited for the lock dated it.
RecoveryRetried ==
  alertLock = "none" /\ alertFile.state = "healthy" =>
    \A d \in Dests \ (lastFailed \cup unacked \cup belated) : sent[d] # "failure"

\* The legacy monitor is retired only if no alert went out between the signature of the
\* evidence and the last proof.
RetiredInSilence == retire.pc = "retired" => ~retire.noisy

\* A green backup is the attempt started last: it ended well, and status and every artifact
\* of it are there and intact.
GreenIsLatest ==
  BackupVerdict = "ok" =>
    /\ Last(attempts) = "succeeded" /\ backupId = Generation
    /\ \A db \in Databases : <<db, Generation, TRUE>> \in artifacts

\* The local monitor is honest: outages and recoveries are told although deliveries fail, the old
\* monitor is retired only in silence, and a green backup is the latest and whole.
MonitorHonest == OutageTold /\ RecoveryRetried /\ RetiredInSilence /\ GreenIsLatest
=============================================================================
