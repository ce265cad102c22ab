---------------------------- MODULE Deployment ----------------------------
(***************************************************************************)
(* Releasing the backend (scripts/deploy.sh, apply_migration_checkpoint.py,*)
(* verify_deploy_start_guard.py, verify_migration_revision.py and          *)
(* install_systemd_units.sh) beside the systemd unit that starts it.       *)
(*                                                                         *)
(* A deployment may fail at a command, which runs its exit trap, or be     *)
(* killed, which only drops its locks.  systemd or an operator may start   *)
(* the service at any moment, in the steps of the unit file: load the      *)
(* release metadata, run the start guard, verify the schema, execute.      *)
(* Releases are numbered along the target branch and the revision of the   *)
(* schema along the migration chain.                                       *)
(***************************************************************************)
EXTENDS Integers, FiniteSets

CONSTANTS
    Deployers,    \* runs of deploy.sh
    MaxRelease,   \* the last release on the branch
    MaxMishaps,   \* failed commands and kills
    MaxStarts,    \* starts of the service not made by a deployment
    Units,        \* unit files of the environment
    MaxInstalls   \* runs of the unit installer

ASSUME DeploymentAssumption ==
    /\ {MaxRelease, MaxMishaps, MaxStarts, MaxInstalls} \subseteq Nat
    /\ "nobody" \notin Deployers    \* a lock is free or held by a deployment

VARIABLES
    remote,       \* the release the remote branch points at
    tree,         \* the checked-out release
    published,    \* .runtime-release.env
    schema,       \* the live migration revision
    stateFile,    \* .runtime-deploy/<environment>.state
    deployLock,   \* holder of <environment>.lock
    restartLock,  \* holder of <environment>.restart.lock
    deploy,       \* the deployments
    service,      \* the backend unit
    mishaps, starts,
    unit,         \* installed unit files by the release they come from
    pending,      \* <environment>.pending of the installer
    installer,    \* the installer, and what it has moved
    installs

releaseVars == <<remote, tree, published, schema, stateFile, deployLock, restartLock,
                 deploy, service, mishaps, starts>>
unitVars == <<unit, pending, installer, installs>>
deploymentVars == <<releaseVars, unitVars>>

Releases == 0..MaxRelease
Nobody == "nobody"
Absent == [phase |-> "absent"]
State(phase, sha) == [phase |-> phase, sha |-> sha]
NoDeploy == [pc |-> "idle"]

-----------------------------------------------------------------------------
(* deploy.sh *)

\* Commits reach the target branch.
Push ==
    /\ remote < MaxRelease
    /\ remote' = remote + 1
    /\ UNCHANGED <<tree, published, schema, stateFile, deployLock, restartLock, deploy,
                   service, mishaps, starts, unitVars>>

\* The committed policy allows forward pairs of revisions its release knows.
Allowed(release, from, to) == from <= to /\ to <= release

\* The preflight: the approved release is the remote one and the requested
\* pair of revisions is on the policy committed with it.
Approve(d, from, to) ==
    /\ deploy[d].pc = "idle"
    /\ Allowed(remote, from, to)
    /\ deploy' = [deploy EXCEPT ![d] = [pc |-> "approved", release |-> remote, from |-> from,
                                        to |-> to, restarted |-> FALSE]]
    /\ UNCHANGED <<remote, tree, published, schema, stateFile, deployLock, restartLock,
                   service, mishaps, starts, unitVars>>

Left(d, lock) == IF lock = d THEN Nobody ELSE lock
\* The process is gone and with it the descriptors that held its locks.
Exit(d) ==
    /\ deploy' = [deploy EXCEPT ![d] = NoDeploy]
    /\ deployLock' = Left(d, deployLock)
    /\ restartLock' = Left(d, restartLock)

\* acquire_deploy_lock, without waiting.
AcquireDeployLock(d) ==
    /\ deploy[d].pc = "approved"
    /\ IF deployLock = Nobody
       THEN /\ deployLock' = d /\ UNCHANGED restartLock
            /\ deploy' = [deploy EXCEPT ![d].pc = "locked"]
       ELSE Exit(d)
    /\ UNCHANGED <<remote, tree, published, schema, stateFile, service, mishaps, starts, unitVars>>

\* verify_migration_revision.py under the lock; a refusal leaves no trace.
VerifyCurrent(d) ==
    /\ deploy[d].pc = "locked"
    /\ IF schema = deploy[d].from
       THEN /\ deploy' = [deploy EXCEPT ![d].pc = "verified"]
            /\ UNCHANGED <<deployLock, restartLock>>
       ELSE Exit(d)
    /\ UNCHANGED <<remote, tree, published, schema, stateFile, service, mishaps, starts, unitVars>>

\* One command of the sequence: from one stage to the next.
Stage(d, from, to) ==
    /\ deploy[d].pc = from
    /\ deploy' = [deploy EXCEPT ![d].pc = to]

WriteBlocked_Late(d) ==
    /\ Stage(d, "verified", "blocked")
    /\ UNCHANGED <<remote, tree, published, schema, stateFile, deployLock, restartLock,
                   service, mishaps, starts, unitVars>>
WriteBlocked(d) ==
    /\ Stage(d, "verified", "blocked")
    /\ stateFile' = State("blocked", deploy[d].release)
    /\ UNCHANGED <<remote, tree, published, schema, deployLock, restartLock, service,
                   mishaps, starts, unitVars>>

\* The branch is fetched again, must still be what was approved, and is merged
\* by fast-forward only.
Selectable(d) == remote = deploy[d].release /\ tree <= remote
SelectSource(d) ==
    /\ Stage(d, "blocked", "selected")
    /\ Selectable(d)
    /\ tree' = deploy[d].release
    /\ UNCHANGED <<remote, published, schema, stateFile, deployLock, restartLock, service,
                   mishaps, starts, unitVars>>

\* write_release_artifact, before anything of the new tree runs.
Publish(d) ==
    /\ Stage(d, "selected", "published")
    /\ published' = [sha |-> deploy[d].release, revision |-> deploy[d].to]
    /\ UNCHANGED <<remote, tree, schema, stateFile, deployLock, restartLock, service,
                   mishaps, starts, unitVars>>

\* apply_migration_checkpoint.py: from the exact revision to the exact target.
Migrate(d) ==
    /\ Stage(d, "published", "migrated")
    /\ schema = deploy[d].from
    /\ schema' = deploy[d].to
    /\ UNCHANGED <<remote, tree, published, stateFile, deployLock, restartLock, service,
                   mishaps, starts, unitVars>>

AcquireRestartWindow(d) ==
    /\ restartLock = Nobody
    /\ Stage(d, "migrated", "window")
    /\ restartLock' = d
    /\ UNCHANGED <<remote, tree, published, schema, stateFile, deployLock, service, mishaps,
                   starts, unitVars>>

Authorize(d) ==
    /\ Stage(d, "window", "authorized")
    /\ stateFile' = State("restart-authorized", deploy[d].release)
    /\ UNCHANGED <<remote, tree, published, schema, deployLock, restartLock, service,
                   mishaps, starts, unitVars>>

\* systemctl restart: whatever the unit was doing ends and a start begins.
Restart(d) ==
    /\ deploy[d].pc = "authorized"
    /\ deploy' = [deploy EXCEPT ![d].pc = "restarting", ![d].restarted = TRUE]
    /\ service' = [phase |-> "loaded", env |-> published]
    /\ UNCHANGED <<remote, tree, published, schema, stateFile, deployLock, restartLock,
                   mishaps, starts, unitVars>>

AwaitReadiness(d) ==
    /\ service.phase = "running"
    /\ Stage(d, "restarting", "pending")
    /\ stateFile' = State("readiness-pending", deploy[d].release)
    /\ UNCHANGED <<remote, tree, published, schema, deployLock, restartLock, service,
                   mishaps, starts, unitVars>>

\* The health loop, answered by the release the service was started with.
Ready(d) ==
    /\ Stage(d, "pending", "ready")
    /\ service.phase = "running" /\ service.env.sha = deploy[d].release
    /\ UNCHANGED <<remote, tree, published, schema, stateFile, deployLock, restartLock,
                   service, mishaps, starts, unitVars>>

ClearState(d) ==
    /\ deploy[d].pc = "ready"
    /\ stateFile' = Absent
    /\ Exit(d)
    /\ UNCHANGED <<remote, tree, published, schema, service, mishaps, starts, unitVars>>

Started == {"blocked", "selected", "published", "migrated", "window", "authorized",
            "restarting", "pending", "ready"}

\* A command fails after DEPLOY_STARTED; a migration may stop part of the way.
\* What cannot go on (a moved branch, a failed start) ends here too.
Fail(d) ==
    /\ deploy[d].pc \in Started
    /\ mishaps < MaxMishaps /\ mishaps' = mishaps + 1
    /\ deploy' = [deploy EXCEPT ![d].pc = "failed"]
    /\ IF deploy[d].pc = "published" /\ schema = deploy[d].from
       THEN schema' \in deploy[d].from..deploy[d].to
       ELSE UNCHANGED schema
    /\ UNCHANGED <<remote, tree, published, stateFile, deployLock, restartLock, service,
                   starts, unitVars>>

\* preserve_failed_release writes the blocked state, if it can.
Trapped(d) == State("blocked", deploy[d].release)
ExitTrap(d) ==
    /\ deploy[d].pc = "failed"
    /\ stateFile' \in {Trapped(d), stateFile}
    /\ service' = IF deploy[d].restarted THEN [phase |-> "down"] ELSE service
    /\ Exit(d)
    /\ UNCHANGED <<remote, tree, published, schema, mishaps, starts, unitVars>>

\* The operator's session or the machine dies: no trap runs.
Kill(d) ==
    /\ deploy[d].pc # "idle"
    /\ mishaps < MaxMishaps /\ mishaps' = mishaps + 1
    /\ Exit(d)
    /\ UNCHANGED <<remote, tree, published, schema, stateFile, service, starts, unitVars>>

-----------------------------------------------------------------------------
(* The backend unit *)

ServiceFails ==
    /\ service.phase = "running"
    /\ starts < MaxStarts
    /\ service' = [phase |-> "down"]
    /\ UNCHANGED <<remote, tree, published, schema, stateFile, deployLock, restartLock,
                   deploy, mishaps, starts, unitVars>>

\* Restart=on-failure, a boot or an operator; the environment files are read.
ServiceStart ==
    /\ service.phase = "down"
    /\ starts < MaxStarts /\ starts' = starts + 1
    /\ service' = [phase |-> "loaded", env |-> published]
    /\ UNCHANGED <<remote, tree, published, schema, stateFile, deployLock, restartLock,
                   deploy, mishaps, unitVars>>

LocksBusy_Main == deployLock # Nobody
\* _lock_is_busy of both lock files.
LocksBusy == deployLock # Nobody /\ restartLock # Nobody

\* _start_is_allowed.
StartAllowed ==
    \/ stateFile = Absent
    \/ stateFile = State("restart-authorized", service.env.sha) /\ LocksBusy

StartGuard ==
    /\ service.phase = "loaded"
    /\ service' = IF StartAllowed THEN [service EXCEPT !.phase = "guarded"]
                  ELSE [phase |-> "down"]
    /\ UNCHANGED <<remote, tree, published, schema, stateFile, deployLock, restartLock,
                   deploy, mishaps, starts, unitVars>>

\* The schema is verified and the application executed.
ServiceExec ==
    /\ service.phase = "guarded"
    /\ service' = IF schema = service.env.revision
                  THEN [phase |-> "running", env |-> service.env]
                  ELSE [phase |-> "down"]
    /\ UNCHANGED <<remote, tree, published, schema, stateFile, deployLock, restartLock,
                   deploy, mishaps, starts, unitVars>>

DeployNext ==
    \/ Push
    \/ \E d \in Deployers, from \in Releases, to \in Releases : Approve(d, from, to)
    \/ \E d \in Deployers :
          \/ AcquireDeployLock(d) \/ VerifyCurrent(d) \/ WriteBlocked(d) \/ SelectSource(d)
          \/ Publish(d) \/ Migrate(d) \/ AcquireRestartWindow(d) \/ Authorize(d)
          \/ Restart(d) \/ AwaitReadiness(d) \/ Ready(d) \/ ClearState(d)
          \/ Fail(d) \/ ExitTrap(d) \/ Kill(d)
    \/ ServiceFails \/ ServiceStart \/ StartGuard \/ ServiceExec

-----------------------------------------------------------------------------
(* install_systemd_units.sh; flock admits one installer at a time *)

NoInstaller == [pc |-> "idle"]

\* The staged units of an approved release; the pending file is written first
\* and the units that differ are listed with what they replace.
BeginInstall(release) ==
    /\ installer.pc = "idle" /\ installs < MaxInstalls
    /\ installs' = installs + 1
    /\ pending' = TRUE
    /\ installer' = [pc |-> "moving", release |-> release,
                     todo |-> {u \in Units : unit[u] # release}, before |-> unit]
    /\ UNCHANGED <<unit, releaseVars>>

MoveUnit(u) ==
    /\ installer.pc = "moving" /\ u \in installer.todo
    /\ unit' = [unit EXCEPT ![u] = installer.release]
    /\ installer' = [installer EXCEPT !.todo = @ \ {u}]
    /\ UNCHANGED <<pending, installs, releaseVars>>

\* The pending file goes only after every move and the reload.
FinishInstall == installer.pc = "moving" /\ installer.todo = {}
Installed ==
    /\ FinishInstall
    /\ pending' = FALSE
    /\ installer' = NoInstaller
    /\ UNCHANGED <<unit, installs, releaseVars>>

\* A failed move restores what was replaced; the pending file stays.
RollBack ==
    /\ installer.pc = "moving"
    /\ unit' = installer.before
    /\ installer' = NoInstaller
    /\ UNCHANGED <<pending, installs, releaseVars>>

KillInstaller ==
    /\ installer.pc = "moving"
    /\ installer' = NoInstaller
    /\ UNCHANGED <<unit, pending, installs, releaseVars>>

UnitsNext ==
    \/ \E r \in Releases : BeginInstall(r)
    \/ \E u \in Units : MoveUnit(u)
    \/ Installed \/ RollBack \/ KillInstaller

-----------------------------------------------------------------------------
DeploymentInit ==
    /\ remote = 0 /\ tree = 0 /\ schema = 0
    /\ published = [sha |-> 0, revision |-> 0]
    /\ stateFile = Absent
    /\ deployLock = Nobody /\ restartLock = Nobody
    /\ deploy = [d \in Deployers |-> NoDeploy]
    /\ service = [phase |-> "running", env |-> published]
    /\ mishaps = 0 /\ starts = 0
    /\ unit = [u \in Units |-> 0]
    /\ pending = FALSE
    /\ installer = NoInstaller
    /\ installs = 0

DeploymentSpec == DeploymentInit /\ [][DeployNext \/ UnitsNext]_deploymentVars

-----------------------------------------------------------------------------
(* Properties *)

\* Whenever no deployment state is on disk, which is when any start is let
\* through, the checked-out source, the published identity and the schema are
\* those of one release: no failure, kill or second deployment in between
\* leaves the guard down over a half-made release.
AbsentMeansAligned ==
    stateFile = Absent => tree = published.sha /\ schema = published.revision

\* A start is let through while deployment state exists only in the restart
\* window of a live deployment that has finished its migration, and then for
\* exactly the source and the schema that deployment put in place: an
\* authorization left behind by a killed deployment admits nothing, not even
\* while the next deployment holds the main lock.
StaleAuthorizationRefused ==
    [][(service.phase = "loaded" /\ service'.phase = "guarded" /\ stateFile # Absent)
         => /\ \E d \in Deployers : deploy[d].pc \in {"authorized", "restarting", "failed"}
            /\ service.env.sha = tree /\ schema = published.revision]_deploymentVars

\* Source and schema only ever move forward, whichever deployments overlap.
ForwardOnly == [][tree' >= tree /\ schema' >= schema]_deploymentVars

\* Without a pending file the installed units are all of one release, after
\* any sequence of completed, rolled-back and killed installations.
UnitsUniform == ~pending => \A u, v \in Units : unit[u] = unit[v]

\* What is installed is one release whenever nothing on disk says otherwise: source, identity and
\* schema without deployment state, units without a pending file.
ReleaseWhole == AbsentMeansAligned /\ UnitsUniform
\* The start guard and deploy.sh only let a release forward: no start on a stale authorization, no
\* step of source or schema backwards.
GuardedForward == StaleAuthorizationRefused /\ ForwardOnly
=============================================================================
