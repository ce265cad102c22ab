-------------------------- MODULE OperationsProofs --------------------------
(***************************************************************************)
(* Proofs about the running service: deployments and the units they start, *)
(* the local monitor and the external canary, the authority of an open     *)
(* stream, the calls to outside services, the limits on requests and on    *)
(* what is kept of them, and the figures of product analytics.             *)
(***************************************************************************)
EXTENDS Deployment, LocalMonitor, ExternalMonitor, StreamAccess, Providers, Activity,
        ProductAnalytics, FiniteSetTheorems, WellFoundedInduction, TLAPS

(***************************************************************************)
(* Deployments                                                             *)
(***************************************************************************)
\* A deployment that has passed the preflight, and the stages it can be at.
Moved == {"blocked", "selected", "published", "migrated", "window"}
InWindow == {"window", "authorized", "restarting", "pending", "ready"}
Stages == {"idle", "approved", "locked", "verified", "failed"} \cup Started
Holding == {"locked", "verified", "failed"} \cup Started
Runs == {NoDeploy} \cup [pc : Stages \ {"idle"}, release : Nat, from : Nat, to : Nat, restarted : BOOLEAN]

ReleaseTyped ==
  /\ remote \in Nat /\ tree \in Nat /\ schema \in Nat
  /\ deploy \in [Deployers -> Runs]
  /\ deployLock \in Deployers \cup {Nobody} /\ restartLock \in Deployers \cup {Nobody}
ForwardPairs == \A d \in Deployers : deploy[d].pc # "idle" => deploy[d].from <= deploy[d].to

\* The main lock is held from before the state is written to the end, the restart lock by a
\* deployment that has reached its window, alive or failed there.
LocksHeld ==
  \A d \in Deployers :
    /\ deploy[d].pc \in Holding => deployLock = d
    /\ deploy[d].pc \in InWindow => restartLock = d
    /\ restartLock = d => deploy[d].pc \in InWindow \cup {"failed"}

\* What the state on disk says of the deployment under way.
OnDisk(d) ==
  /\ deploy[d].pc \in Moved => stateFile = State("blocked", deploy[d].release)
  /\ deploy[d].pc \in {"authorized", "restarting"} => stateFile = State("restart-authorized", deploy[d].release)
  /\ deploy[d].pc \in {"pending", "ready"} => stateFile = State("readiness-pending", deploy[d].release)
  /\ deploy[d].pc = "failed" =>
       \E ph \in {"blocked", "restart-authorized", "readiness-pending"} : stateFile = State(ph, deploy[d].release)
StateOnDisk == \A d \in Deployers : OnDisk(d)

\* What it has put in place: every stage adds to what the ones before have done, and from
\* the window on even a failure leaves it.
InPlace(d) ==
  /\ deploy[d].pc \in Started \ {"blocked"} => tree = deploy[d].release
  /\ deploy[d].pc \in Started \ {"blocked", "selected"} =>
       published.sha = deploy[d].release /\ published.revision = deploy[d].to
  /\ deploy[d].pc \in {"migrated"} \cup InWindow => schema = deploy[d].to
  /\ deploy[d].pc = "failed" /\ restartLock = d =>
       /\ tree = deploy[d].release /\ published.sha = deploy[d].release
       /\ published.revision = deploy[d].to /\ schema = deploy[d].to
StagesInPlace == \A d \in Deployers : InPlace(d)

\* The units are being moved only under a pending file, and those not listed have been.
UnitsMoving ==
  installer.pc = "moving" => pending = TRUE /\ \A u \in Units \ installer.todo : unit[u] = installer.release
UnitsTyped == unit \in [Units -> Nat] /\ installer \in {NoInstaller} \cup
  [pc : {"moving"}, release : Nat, todo : SUBSET Units, before : [Units -> Nat]]

ReleaseInv ==
  /\ ReleaseTyped /\ ForwardPairs /\ LocksHeld /\ StateOnDisk /\ StagesInPlace /\ AbsentMeansAligned
UnitsInv == UnitsTyped /\ UnitsMoving /\ UnitsUniform

LEMMA ReleaseInvInit == DeploymentInit => ReleaseInv /\ UnitsInv
<1> SUFFICES ASSUME DeploymentInit PROVE ReleaseInv /\ UnitsInv
  OBVIOUS
<1> USE DEF DeploymentInit
<1>1. \A d \in Deployers : deploy[d].pc = "idle"
  BY DEF NoDeploy
<1>2. ReleaseTyped
  BY DEF ReleaseTyped, Runs
<1>3. ForwardPairs /\ StateOnDisk /\ StagesInPlace /\ LocksHeld
  BY <1>1, DeploymentAssumption
     DEF ForwardPairs, StateOnDisk, OnDisk, StagesInPlace, InPlace, LocksHeld, Moved, Holding, InWindow, Started, Nobody
<1>4. AbsentMeansAligned /\ UnitsInv
  BY DEF AbsentMeansAligned, UnitsInv, UnitsTyped, UnitsMoving, UnitsUniform, NoInstaller
<1> QED BY <1>2, <1>3, <1>4 DEF ReleaseInv

\* A step that only moves the stage of one deployment, and what the others keep: they hold
\* no lock that it holds, so they are at stages that say nothing of the disk.
LEMMA OthersIdle ==
  ASSUME ReleaseInv, NEW d \in Deployers, deploy[d].pc \in Holding
  PROVE  \A e \in Deployers \ {d} : deploy[e].pc \notin Holding /\ restartLock # e
  BY DEF ReleaseInv, LocksHeld, Holding, InWindow, Started
\* A deployment that holds the lock moves on, by one of the commands of deploy.sh.
LEMMA HolderMoves ==
  ASSUME ReleaseInv, NEW d \in Deployers,
         \/ WriteBlocked(d) \/ SelectSource(d) \/ Publish(d) \/ Migrate(d) \/ AcquireRestartWindow(d)
         \/ Authorize(d) \/ Restart(d) \/ AwaitReadiness(d) \/ Ready(d) \/ Fail(d)
  PROVE  ReleaseInv'
<1> DEFINE r == deploy[d]
<1>1. /\ deploy[d].pc \in Holding /\ deploy[d] \in Runs /\ deploy[d].pc # "idle"
      /\ deploy[d].release \in Nat /\ deploy[d].from \in Nat /\ deploy[d].to \in Nat
      /\ deploy[d].from <= deploy[d].to
  BY DEF ReleaseInv, ReleaseTyped, ForwardPairs, Runs, NoDeploy, Holding, Started, Stage, WriteBlocked, SelectSource,
     Publish, Migrate, AcquireRestartWindow, Authorize, Restart, AwaitReadiness, Ready, Fail
<1>2. \A e \in Deployers \ {d} : deploy'[e] = deploy[e] /\ deploy[e].pc \notin Holding /\ restartLock # e /\ restartLock' # e
  BY OthersIdle, <1>1 DEF ReleaseInv, ReleaseTyped, Stage, WriteBlocked, SelectSource, Publish, Migrate, AcquireRestartWindow,
     Authorize, Restart, AwaitReadiness, Ready, Fail
<1>3. /\ deployLock' = deployLock /\ deployLock = d
      /\ deploy'[d].release = deploy[d].release /\ deploy'[d].from = deploy[d].from /\ deploy'[d].to = deploy[d].to
      /\ deploy'[d].pc \in Holding
  BY <1>1 DEF ReleaseInv, ReleaseTyped, LocksHeld, Runs, NoDeploy, Holding, Started, Stage, WriteBlocked, SelectSource,
     Publish, Migrate, AcquireRestartWindow, Authorize, Restart, AwaitReadiness, Ready, Fail
<1>4. ReleaseTyped'
  <2>1. deploy' \in [Deployers -> Runs]
    <3>1. deploy'[d] \in Runs /\ deploy' = [deploy EXCEPT ![d] = deploy'[d]]
      BY <1>1 DEF ReleaseInv, ReleaseTyped, Runs, NoDeploy, Stages, Started, Stage, WriteBlocked, SelectSource, Publish,
         Migrate, AcquireRestartWindow, Authorize, Restart, AwaitReadiness, Ready, Fail
    <3> QED BY <3>1 DEF ReleaseInv, ReleaseTyped
  <2>2. remote' \in Nat /\ tree' \in Nat /\ schema' \in Nat
    BY <1>1 DEF ReleaseInv, ReleaseTyped, Stage, WriteBlocked, SelectSource, Publish,
         Migrate, AcquireRestartWindow, Authorize, Restart, AwaitReadiness, Ready, Fail
  <2>3. restartLock' \in Deployers \cup {Nobody}
    BY <1>1 DEF ReleaseInv, ReleaseTyped, Stage, WriteBlocked, SelectSource, Publish,
         Migrate, AcquireRestartWindow, Authorize, Restart, AwaitReadiness, Ready, Fail
  <2> QED BY <2>1, <2>2, <2>3, <1>3 DEF ReleaseInv, ReleaseTyped
<1>5. ForwardPairs'
  BY <1>1, <1>2, <1>3 DEF ReleaseInv, ForwardPairs
<1>6. LocksHeld' /\ StateOnDisk' /\ StagesInPlace' /\ AbsentMeansAligned'
  <2>1. ASSUME OnDisk(d)', stateFile' # Absent, InPlace(d)', deploy'[d].pc \in InWindow => restartLock' = d,
               restartLock' = d => deploy'[d].pc \in InWindow \cup {"failed"}
        PROVE  LocksHeld' /\ StateOnDisk' /\ StagesInPlace' /\ AbsentMeansAligned'
    <3>1. \A e \in Deployers \ {d} : deploy'[e].pc \notin Holding /\ deploy'[e].pc \notin InWindow
                                      /\ deploy'[e].pc \notin Started /\ deploy'[e].pc # "failed"
      BY <1>2 DEF Holding, InWindow, Started
    <3>2. LocksHeld'
      BY <2>1, <1>2, <1>3, <3>1 DEF LocksHeld
    <3>3. StateOnDisk'
      BY <2>1, <3>1 DEF StateOnDisk, OnDisk, Moved, Started
    <3>4. StagesInPlace'
      BY <2>1, <3>1 DEF StagesInPlace, InPlace, Started, InWindow
    <3> QED BY <2>1, <3>2, <3>3, <3>4 DEF AbsentMeansAligned
  <2>2. CASE WriteBlocked(d)
    <3>1. OnDisk(d)' /\ stateFile' # Absent
      BY <2>2, <1>1, <1>3 DEF ReleaseInv, ReleaseTyped, StateOnDisk, OnDisk, Moved, Started, Holding, Stage, State, Absent, WriteBlocked
    <3>2. InPlace(d)'
      BY <2>2, <1>1, <1>3 DEF ReleaseInv, ReleaseTyped, StagesInPlace, InPlace, Started, InWindow, LocksHeld, Stage, WriteBlocked
    <3>3. deploy'[d].pc \in InWindow => restartLock' = d
      BY <2>2, <1>1, <1>3 DEF ReleaseInv, ReleaseTyped, LocksHeld, InWindow, Started, Stage, WriteBlocked
    <3>4. restartLock' = d => deploy'[d].pc \in InWindow \cup {"failed"}
      BY <2>2, <1>1, <1>3 DEF ReleaseInv, ReleaseTyped, LocksHeld, InWindow, Started, Stage, WriteBlocked
    <3> QED BY <3>1, <3>2, <3>3, <3>4, <2>1
  <2>3. CASE SelectSource(d)
    <3>1. OnDisk(d)' /\ stateFile' # Absent
      BY <2>3, <1>1, <1>3 DEF ReleaseInv, ReleaseTyped, StateOnDisk, OnDisk, Moved, Started, Holding, Stage, State, Absent, SelectSource
    <3>2. InPlace(d)'
      BY <2>3, <1>1, <1>3 DEF ReleaseInv, ReleaseTyped, StagesInPlace, InPlace, Started, InWindow, LocksHeld, Stage, SelectSource
    <3>3. deploy'[d].pc \in InWindow => restartLock' = d
      BY <2>3, <1>1, <1>3 DEF ReleaseInv, ReleaseTyped, LocksHeld, InWindow, Started, Stage, SelectSource
    <3>4. restartLock' = d => deploy'[d].pc \in InWindow \cup {"failed"}
      BY <2>3, <1>1, <1>3 DEF ReleaseInv, ReleaseTyped, LocksHeld, InWindow, Started, Stage, SelectSource
    <3> QED BY <3>1, <3>2, <3>3, <3>4, <2>1
  <2>4. CASE Publish(d)
    <3>1. OnDisk(d)' /\ stateFile' # Absent
      BY <2>4, <1>1, <1>3 DEF ReleaseInv, ReleaseTyped, StateOnDisk, OnDisk, Moved, Started, Holding, Stage, State, Absent, Publish
    <3>2. InPlace(d)'
      BY <2>4, <1>1, <1>3 DEF ReleaseInv, ReleaseTyped, StagesInPlace, InPlace, Started, InWindow, LocksHeld, Stage, Publish
    <3>3. deploy'[d].pc \in InWindow => restartLock' = d
      BY <2>4, <1>1, <1>3 DEF ReleaseInv, ReleaseTyped, LocksHeld, InWindow, Started, Stage, Publish
    <3>4. restartLock' = d => deploy'[d].pc \in InWindow \cup {"failed"}
      BY <2>4, <1>1, <1>3 DEF ReleaseInv, ReleaseTyped, LocksHeld, InWindow, Started, Stage, Publish
    <3> QED BY <3>1, <3>2, <3>3, <3>4, <2>1
  <2>5. CASE Migrate(d)
    <3>1. OnDisk(d)' /\ stateFile' # Absent
      BY <2>5, <1>1, <1>3 DEF ReleaseInv, ReleaseTyped, StateOnDisk, OnDisk, Moved, Started, Holding, Stage, State, Absent, Migrate
    <3>2. InPlace(d)'
      BY <2>5, <1>1, <1>3 DEF ReleaseInv, ReleaseTyped, StagesInPlace, InPlace, Started, InWindow, LocksHeld, Stage, Migrate
    <3>3. deploy'[d].pc \in InWindow => restartLock' = d
      BY <2>5, <1>1, <1>3 DEF ReleaseInv, ReleaseTyped, LocksHeld, InWindow, Started, Stage, Migrate
    <3>4. restartLock' = d => deploy'[d].pc \in InWindow \cup {"failed"}
      BY <2>5, <1>1, <1>3 DEF ReleaseInv, ReleaseTyped, LocksHeld, InWindow, Started, Stage, Migrate
    <3> QED BY <3>1, <3>2, <3>3, <3>4, <2>1
  <2>6. CASE AcquireRestartWindow(d)
    <3>1. OnDisk(d)' /\ stateFile' # Absent
      BY <2>6, <1>1, <1>3 DEF ReleaseInv, ReleaseTyped, StateOnDisk, OnDisk, Moved, Started, Holding, Stage, State, Absent, AcquireRestartWindow
    <3>2. InPlace(d)'
      BY <2>6, <1>1, <1>3 DEF ReleaseInv, ReleaseTyped, StagesInPlace, InPlace, Started, InWindow, LocksHeld, Stage, AcquireRestartWindow
    <3>3. deploy'[d].pc \in InWindow => restartLock' = d
      BY <2>6, <1>1, <1>3 DEF ReleaseInv, ReleaseTyped, LocksHeld, InWindow, Started, Stage, AcquireRestartWindow
    <3>4. restartLock' = d => deploy'[d].pc \in InWindow \cup {"failed"}
      BY <2>6, <1>1, <1>3 DEF ReleaseInv, ReleaseTyped, LocksHeld, InWindow, Started, Stage, AcquireRestartWindow
    <3> QED BY <3>1, <3>2, <3>3, <3>4, <2>1
  <2>7. CASE Authorize(d)
    <3>1. OnDisk(d)' /\ stateFile' # Absent
      BY <2>7, <1>1, <1>3 DEF ReleaseInv, ReleaseTyped, StateOnDisk, OnDisk, Moved, Started, Holding, Stage, State, Absent, Authorize
    <3>2. InPlace(d)'
      BY <2>7, <1>1, <1>3 DEF ReleaseInv, ReleaseTyped, StagesInPlace, InPlace, Started, InWindow, LocksHeld, Stage, Authorize
    <3>3. deploy'[d].pc \in InWindow => restartLock' = d
      BY <2>7, <1>1, <1>3 DEF ReleaseInv, ReleaseTyped, LocksHeld, InWindow, Started, Stage, Authorize
    <3>4. restartLock' = d => deploy'[d].pc \in InWindow \cup {"failed"}
      BY <2>7, <1>1, <1>3 DEF ReleaseInv, ReleaseTyped, LocksHeld, InWindow, Started, Stage, Authorize
    <3> QED BY <3>1, <3>2, <3>3, <3>4, <2>1
  <2>8. CASE Restart(d)
    <3>1. OnDisk(d)' /\ stateFile' # Absent
      BY <2>8, <1>1, <1>3 DEF ReleaseInv, ReleaseTyped, StateOnDisk, OnDisk, Moved, Started, Holding, Stage, State, Absent, Restart
    <3>2. InPlace(d)'
      BY <2>8, <1>1, <1>3 DEF ReleaseInv, ReleaseTyped, StagesInPlace, InPlace, Started, InWindow, LocksHeld, Stage, Restart
    <3>3. deploy'[d].pc \in InWindow => restartLock' = d
      BY <2>8, <1>1, <1>3 DEF ReleaseInv, ReleaseTyped, LocksHeld, InWindow, Started, Stage, Restart
    <3>4. restartLock' = d => deploy'[d].pc \in InWindow \cup {"failed"}
      BY <2>8, <1>1, <1>3 DEF ReleaseInv, ReleaseTyped, LocksHeld, InWindow, Started, Stage, Restart
    <3> QED BY <3>1, <3>2, <3>3, <3>4, <2>1
  <2>9. CASE AwaitReadiness(d)
    <3>1. OnDisk(d)' /\ stateFile' # Absent
      BY <2>9, <1>1, <1>3 DEF ReleaseInv, ReleaseTyped, StateOnDisk, OnDisk, Moved, Started, Holding, Stage, State, Absent, AwaitReadiness
    <3>2. InPlace(d)'
      BY <2>9, <1>1, <1>3 DEF ReleaseInv, ReleaseTyped, StagesInPlace, InPlace, Started, InWindow, LocksHeld, Stage, AwaitReadiness
    <3>3. deploy'[d].pc \in InWindow => restartLock' = d
      BY <2>9, <1>1, <1>3 DEF ReleaseInv, ReleaseTyped, LocksHeld, InWindow, Started, Stage, AwaitReadiness
    <3>4. restartLock' = d => deploy'[d].pc \in InWindow \cup {"failed"}
      BY <2>9, <1>1, <1>3 DEF ReleaseInv, ReleaseTyped, LocksHeld, InWindow, Started, Stage, AwaitReadiness
    <3> QED BY <3>1, <3>2, <3>3, <3>4, <2>1
  <2>10. CASE Ready(d)
    <3>1. OnDisk(d)' /\ stateFile' # Absent
      BY <2>10, <1>1, <1>3 DEF ReleaseInv, ReleaseTyped, StateOnDisk, OnDisk, Moved, Started, Holding, Stage, State, Absent, Ready
    <3>2. InPlace(d)'
      BY <2>10, <1>1, <1>3 DEF ReleaseInv, ReleaseTyped, StagesInPlace, InPlace, Started, InWindow, LocksHeld, Stage, Ready
    <3>3. deploy'[d].pc \in InWindow => restartLock' = d
      BY <2>10, <1>1, <1>3 DEF ReleaseInv, ReleaseTyped, LocksHeld, InWindow, Started, Stage, Ready
    <3>4. restartLock' = d => deploy'[d].pc \in InWindow \cup {"failed"}
      BY <2>10, <1>1, <1>3 DEF ReleaseInv, ReleaseTyped, LocksHeld, InWindow, Started, Stage, Ready
    <3> QED BY <3>1, <3>2, <3>3, <3>4, <2>1
  <2>11. CASE Fail(d)
    <3>1. OnDisk(d)' /\ stateFile' # Absent
      BY <2>11, <1>1, <1>3 DEF ReleaseInv, ReleaseTyped, StateOnDisk, OnDisk, Moved, Started, Holding, Stage, State, Absent, Fail
    <3>2. InPlace(d)'
      BY <2>11, <1>1, <1>3 DEF ReleaseInv, ReleaseTyped, StagesInPlace, InPlace, Started, InWindow, LocksHeld, Stage, Fail
    <3>3. deploy'[d].pc \in InWindow => restartLock' = d
      BY <2>11, <1>1, <1>3 DEF ReleaseInv, ReleaseTyped, LocksHeld, InWindow, Started, Stage, Fail
    <3>4. restartLock' = d => deploy'[d].pc \in InWindow \cup {"failed"}
      BY <2>11, <1>1, <1>3 DEF ReleaseInv, ReleaseTyped, LocksHeld, InWindow, Started, Stage, Fail
    <3> QED BY <3>1, <3>2, <3>3, <3>4, <2>1
  <2> QED BY <2>2, <2>3, <2>4, <2>5, <2>6, <2>7, <2>8, <2>9, <2>10, <2>11
<1> QED BY <1>4, <1>5, <1>6 DEF ReleaseInv
\* A deployment that ends, by itself or killed, gives its locks back and says nothing any more.
LEMMA DeploymentEnds ==
  ASSUME ReleaseInv, NEW d \in Deployers, Exit(d), UNCHANGED <<remote, tree, published, schema>>,
         \/ stateFile' = stateFile
         \/ /\ deploy[d].pc \in Holding
            /\ stateFile' = Absent => tree = published.sha /\ schema = published.revision
  PROVE  ReleaseInv'
<1>1. deploy'[d] = NoDeploy /\ deploy'[d].pc = "idle" /\ \A e \in Deployers \ {d} : deploy'[e] = deploy[e]
  BY DEF ReleaseInv, ReleaseTyped, Exit, NoDeploy
<1>2. \A e \in Deployers \ {d} : (deployLock = e => deployLock' = e) /\ (restartLock = e <=> restartLock' = e)
  BY DeploymentAssumption DEF Exit, Left, Nobody
<1>3. restartLock' # d
  BY DeploymentAssumption DEF Exit, Left, Nobody
<1>4. ReleaseTyped'
  <2>1. deploy' \in [Deployers -> Runs]
    BY <1>1 DEF ReleaseInv, ReleaseTyped, Exit, Runs
  <2> QED BY <2>1 DEF ReleaseInv, ReleaseTyped, Exit, Left
<1>5. ForwardPairs'
  BY <1>1 DEF ReleaseInv, ForwardPairs
<1>6. LocksHeld'
  BY <1>1, <1>2, <1>3 DEF ReleaseInv, LocksHeld, Holding, InWindow, Started
<1>7. StagesInPlace'
  BY <1>1, <1>2 DEF ReleaseInv, StagesInPlace, InPlace, Started, InWindow
<1>8. StateOnDisk' /\ AbsentMeansAligned'
  <2>1. CASE stateFile' = stateFile
    BY <2>1, <1>1 DEF ReleaseInv, StateOnDisk, OnDisk, Moved, AbsentMeansAligned
  <2>2. CASE deploy[d].pc \in Holding /\ (stateFile' = Absent => tree = published.sha /\ schema = published.revision)
    <3>1. \A e \in Deployers \ {d} : deploy'[e].pc \notin Holding
      BY <2>2, <1>1, OthersIdle
    <3> QED BY <2>2, <1>1, <3>1 DEF StateOnDisk, OnDisk, Moved, Holding, Started, AbsentMeansAligned
  <2> QED BY <2>1, <2>2
<1> QED BY <1>4, <1>5, <1>6, <1>7, <1>8 DEF ReleaseInv

\* A deployment before its first command moves nothing that the others speak of.
LEMMA PreflightMoves ==
  ASSUME ReleaseInv, NEW d \in Deployers, UNCHANGED <<remote, tree, published, schema, stateFile, restartLock>>,
         deploy[d].pc \in {"idle", "approved", "locked"},
         deploy' \in [Deployers -> Runs], \A e \in Deployers \ {d} : deploy'[e] = deploy[e],
         deploy'[d].pc \in {"approved", "locked", "verified"}, ForwardPairs',
         deployLock # Nobody => deployLock' = deployLock,
         deployLock = Nobody => deployLock' \in {Nobody, d},
         deploy'[d].pc # "approved" => deployLock' = d
  PROVE  ReleaseInv'
<1>1. ReleaseTyped'
  BY DEF ReleaseInv, ReleaseTyped
<1>2. \A e \in Deployers \ {d} : deploy'[e] = deploy[e]
  OBVIOUS
<1>3. ForwardPairs' /\ StateOnDisk' /\ StagesInPlace' /\ AbsentMeansAligned'
  BY <1>2 DEF ReleaseInv, ForwardPairs, StateOnDisk, OnDisk, StagesInPlace, InPlace, AbsentMeansAligned, Moved, Started, InWindow
<1>4. LocksHeld'
  BY <1>2, DeploymentAssumption DEF ReleaseInv, LocksHeld, Holding, InWindow, Started, Nobody
<1> QED BY <1>1, <1>3, <1>4 DEF ReleaseInv

LEMMA ReleaseInvStep == ReleaseInv /\ [DeployNext \/ UnitsNext]_deploymentVars => ReleaseInv'
<1> SUFFICES ASSUME ReleaseInv, [DeployNext \/ UnitsNext]_deploymentVars PROVE ReleaseInv'
  OBVIOUS
<1>1. CASE UNCHANGED <<tree, published, schema, stateFile, deployLock, restartLock, deploy>> /\ remote' \in Nat
  BY <1>1 DEF ReleaseInv, ReleaseTyped, ForwardPairs, LocksHeld, StateOnDisk, OnDisk, StagesInPlace, InPlace, AbsentMeansAligned
<1>2. CASE UNCHANGED deploymentVars \/ UnitsNext \/ Push \/ ServiceFails \/ ServiceStart \/ StartGuard \/ ServiceExec
  <2>1. UNCHANGED <<tree, published, schema, stateFile, deployLock, restartLock, deploy>> /\ remote' \in Nat
    BY <1>2, DeploymentAssumption DEF ReleaseInv, ReleaseTyped, deploymentVars, releaseVars, UnitsNext, BeginInstall, MoveUnit,
       Installed, RollBack, KillInstaller, Push, ServiceFails, ServiceStart, StartGuard, ServiceExec
  <2> QED BY <2>1, <1>1
<1>3. ASSUME NEW d \in Deployers, NEW f \in Releases, NEW t \in Releases, Approve(d, f, t) PROVE ReleaseInv'
  <2>1. deploy'[d] = [pc |-> "approved", release |-> remote, from |-> f, to |-> t, restarted |-> FALSE]
    BY <1>3 DEF Approve, ReleaseInv, ReleaseTyped
  <2>2. f \in Nat /\ t \in Nat /\ f <= t /\ remote \in Nat
    BY <1>3, DeploymentAssumption DEF Approve, Allowed, Releases, ReleaseInv, ReleaseTyped
  <2>3. deploy'[d] \in Runs
    BY <2>1, <2>2 DEF Runs, Stages
  <2>4. deploy' \in [Deployers -> Runs] /\ \A e \in Deployers \ {d} : deploy'[e] = deploy[e]
    BY <1>3, <2>3 DEF Approve, ReleaseInv, ReleaseTyped
  <2>5. deploy'[d].pc = "approved"
    BY <2>1
  <2>6. ForwardPairs'
    BY <2>1, <2>2, <2>4 DEF ReleaseInv, ForwardPairs
  <2>7. deployLock' = deployLock /\ UNCHANGED <<remote, tree, published, schema, stateFile, restartLock>>
    BY <1>3 DEF Approve
  <2>8. deploy[d].pc = "idle"
    BY <1>3 DEF Approve
  <2> QED BY <2>4, <2>5, <2>6, <2>7, <2>8, PreflightMoves
<1>4. ASSUME NEW d \in Deployers PROVE AcquireDeployLock(d) => ReleaseInv'
  <2> SUFFICES ASSUME AcquireDeployLock(d) PROVE ReleaseInv'
    OBVIOUS
  <2>1. CASE deployLock = Nobody
    <3>1. deploy'[d] = [deploy[d] EXCEPT !.pc = "locked"] /\ deploy' = [deploy EXCEPT ![d] = deploy'[d]]
          /\ deploy[d] \in Runs /\ deploy[d].pc = "approved"
      BY <2>1 DEF AcquireDeployLock, ReleaseInv, ReleaseTyped
    <3>2. deploy'[d] \in Runs /\ deploy'[d].from <= deploy'[d].to /\ deploy'[d].pc = "locked"
      BY <3>1 DEF Runs, NoDeploy, Stages, ReleaseInv, ForwardPairs
    <3>4. deploy' \in [Deployers -> Runs] /\ \A e \in Deployers \ {d} : deploy'[e] = deploy[e]
      BY <3>1, <3>2 DEF ReleaseInv, ReleaseTyped
    <3>5. ForwardPairs'
      BY <3>2, <3>4 DEF ReleaseInv, ForwardPairs
    <3> QED BY <2>1, <3>1, <3>2, <3>4, <3>5, PreflightMoves DEF AcquireDeployLock
  <2>2. CASE deployLock # Nobody
    BY <2>2, DeploymentEnds DEF AcquireDeployLock
  <2> QED BY <2>1, <2>2
<1>5. ASSUME NEW d \in Deployers PROVE VerifyCurrent(d) => ReleaseInv'
  <2> SUFFICES ASSUME VerifyCurrent(d) PROVE ReleaseInv'
    OBVIOUS
  <2>1. CASE schema = deploy[d].from
    <3>1. deploy'[d] = [deploy[d] EXCEPT !.pc = "verified"] /\ deploy' = [deploy EXCEPT ![d] = deploy'[d]]
          /\ deploy[d] \in Runs /\ deploy[d].pc = "locked"
      BY <2>1 DEF VerifyCurrent, ReleaseInv, ReleaseTyped
    <3>2. deploy'[d] \in Runs /\ deploy'[d].from <= deploy'[d].to /\ deploy'[d].pc = "verified"
      BY <3>1 DEF Runs, NoDeploy, Stages, ReleaseInv, ForwardPairs
    <3>4. deploy' \in [Deployers -> Runs] /\ \A e \in Deployers \ {d} : deploy'[e] = deploy[e]
      BY <3>1, <3>2 DEF ReleaseInv, ReleaseTyped
    <3>5. ForwardPairs'
      BY <3>2, <3>4 DEF ReleaseInv, ForwardPairs
    <3>3. deployLock' = d
      BY <2>1, <3>1 DEF VerifyCurrent, ReleaseInv, LocksHeld, Holding
    <3> QED BY <2>1, <3>1, <3>2, <3>3, <3>4, <3>5, PreflightMoves DEF VerifyCurrent
  <2>2. CASE schema # deploy[d].from
    BY <2>2, DeploymentEnds DEF VerifyCurrent
  <2> QED BY <2>1, <2>2
<1>6. ASSUME NEW d \in Deployers PROVE ClearState(d) \/ ExitTrap(d) \/ Kill(d) => ReleaseInv'
  <2>1. CASE ClearState(d)
    <3>1. tree = published.sha /\ schema = published.revision /\ deploy[d].pc \in Holding
      BY <2>1 DEF ClearState, ReleaseInv, StagesInPlace, InPlace, Started, InWindow, Holding
    <3> QED BY <2>1, <3>1, DeploymentEnds DEF ClearState
  <2>2. CASE ExitTrap(d)
    <3>1. stateFile' # Absent \/ stateFile' = stateFile
      BY <2>2 DEF ExitTrap, Trapped, State, Absent
    <3>2. deploy[d].pc \in Holding
      BY <2>2 DEF ExitTrap, Holding
    <3> QED BY <2>2, <3>1, <3>2, DeploymentEnds DEF ExitTrap
  <2>3. CASE Kill(d)
    BY <2>3, DeploymentEnds DEF Kill
  <2> QED BY <2>1, <2>2, <2>3
<1> QED BY <1>2, <1>3, <1>4, <1>5, <1>6, HolderMoves DEF DeployNext

LEMMA UnitsInvStep == UnitsInv /\ [DeployNext \/ UnitsNext]_deploymentVars => UnitsInv'
<1> SUFFICES ASSUME UnitsInv, [DeployNext \/ UnitsNext]_deploymentVars PROVE UnitsInv'
  OBVIOUS
<1>1. CASE UNCHANGED unitVars
  BY <1>1 DEF UnitsInv, UnitsTyped, UnitsMoving, UnitsUniform, unitVars
<1>2. CASE DeployNext \/ UNCHANGED deploymentVars
  <2>1. UNCHANGED unitVars
    BY <1>2 DEF deploymentVars, DeployNext, Push, Approve, AcquireDeployLock, VerifyCurrent, WriteBlocked, SelectSource, Publish,
       Migrate, AcquireRestartWindow, Authorize, Restart, AwaitReadiness, Ready, ClearState, Fail, ExitTrap, Kill,
       ServiceFails, ServiceStart, StartGuard, ServiceExec
  <2> QED BY <2>1, <1>1
<1>3. ASSUME NEW r \in Releases, BeginInstall(r) PROVE UnitsInv'
  <2>1. r \in Nat
    BY DeploymentAssumption DEF Releases
  <2>2. UnitsTyped'
    BY <1>3, <2>1 DEF BeginInstall, UnitsInv, UnitsTyped
  <2> QED BY <1>3, <2>2 DEF BeginInstall, UnitsInv, UnitsMoving, UnitsUniform
<1>4. ASSUME NEW u \in Units, MoveUnit(u) PROVE UnitsInv'
  <2>1. installer \in [pc : {"moving"}, release : Nat, todo : SUBSET Units, before : [Units -> Nat]]
    BY <1>4 DEF MoveUnit, UnitsInv, UnitsTyped, NoInstaller
  <2>2. UnitsTyped'
    BY <1>4, <2>1 DEF MoveUnit, UnitsInv, UnitsTyped
  <2>3. UnitsMoving' /\ UnitsUniform'
    BY <1>4, <2>1 DEF MoveUnit, UnitsInv, UnitsTyped, UnitsMoving, UnitsUniform
  <2> QED BY <2>2, <2>3 DEF UnitsInv
<1>5. CASE Installed
  BY <1>5 DEF Installed, FinishInstall, UnitsInv, UnitsTyped, UnitsMoving, UnitsUniform, NoInstaller
<1>6. CASE RollBack \/ KillInstaller
  <2>1. installer \in [pc : {"moving"}, release : Nat, todo : SUBSET Units, before : [Units -> Nat]]
    BY <1>6 DEF RollBack, KillInstaller, UnitsInv, UnitsTyped, NoInstaller
  <2>2. pending' = TRUE /\ installer' = NoInstaller
    BY <1>6, <2>1 DEF RollBack, KillInstaller, UnitsInv, UnitsMoving
  <2>3. unit' \in [Units -> Nat]
    BY <1>6, <2>1 DEF RollBack, KillInstaller, UnitsInv, UnitsTyped
  <2> QED BY <2>2, <2>3 DEF UnitsInv, UnitsTyped, UnitsMoving, UnitsUniform, NoInstaller
<1> QED BY <1>2, <1>3, <1>4, <1>5, <1>6 DEF UnitsNext

\* deploy.sh and the unit installer: with any number of deployments and installations that
\* fail or are killed anywhere, the absence of state on disk means one whole release.
THEOREM ReleaseAlwaysWhole == DeploymentSpec => []ReleaseWhole
<1>1. ReleaseInv /\ UnitsInv => ReleaseWhole
  BY DEF ReleaseInv, UnitsInv, ReleaseWhole
<1> QED BY <1>1, ReleaseInvInit, ReleaseInvStep, UnitsInvStep, PTL DEF DeploymentSpec

\* The start guard lets through what the live deployment has put in place.
LEMMA GuardHolds ==
  ASSUME ReleaseInv, StartGuard, service.phase = "loaded", service'.phase = "guarded", stateFile # Absent
  PROVE  /\ \E d \in Deployers : deploy[d].pc \in {"authorized", "restarting", "failed"}
         /\ service.env.sha = tree /\ schema = published.revision
<1>1. stateFile = State("restart-authorized", service.env.sha) /\ deployLock # Nobody /\ restartLock # Nobody
  BY DEF StartGuard, StartAllowed, LocksBusy
<1>2. PICK d \in Deployers : restartLock = d
  BY <1>1 DEF ReleaseInv, ReleaseTyped
<1>3. deploy[d].pc \in InWindow \cup {"failed"} /\ OnDisk(d) /\ InPlace(d)
  BY <1>2 DEF ReleaseInv, LocksHeld, StateOnDisk, StagesInPlace
<1>4. deploy[d].pc \in {"authorized", "restarting", "failed"} /\ service.env.sha = deploy[d].release
  BY <1>1, <1>3 DEF OnDisk, State, InWindow, Moved
<1>5. tree = deploy[d].release /\ schema = published.revision
  BY <1>2, <1>3, <1>4 DEF InPlace, InWindow, Started
<1> QED BY <1>4, <1>5

LEMMA ReleaseMoves ==
  ASSUME ReleaseInv, [DeployNext \/ UnitsNext]_deploymentVars
  PROVE  /\ service.phase = "loaded" /\ service'.phase = "guarded" => StartGuard
         /\ tree' >= tree /\ schema' >= schema
<1>1. /\ tree \in Nat /\ schema \in Nat
      /\ \A d \in Deployers : deploy[d].pc # "idle" => deploy[d].from \in Nat /\ deploy[d].to \in Nat /\ deploy[d].from <= deploy[d].to
  BY DEF ReleaseInv, ReleaseTyped, ForwardPairs, Runs, NoDeploy
<1>2. CASE UnitsNext \/ UNCHANGED deploymentVars
  <2>1. UNCHANGED releaseVars
    BY <1>2 DEF deploymentVars, UnitsNext, BeginInstall, MoveUnit, Installed, RollBack, KillInstaller
  <2> QED BY <2>1, <1>1 DEF releaseVars
<1>3. CASE Push \/ ServiceFails \/ ServiceStart \/ StartGuard \/ ServiceExec
  <2>1. tree' = tree /\ schema' = schema
    BY <1>3 DEF Push, ServiceFails, ServiceStart, StartGuard, ServiceExec
  <2>2. service' = service \/ service.phase # "loaded" \/ StartGuard
    BY <1>3 DEF Push, ServiceFails, ServiceStart, ServiceExec
  <2> QED BY <2>1, <2>2, <1>1
<1>4. ASSUME NEW d \in Deployers, NEW from \in Releases, NEW to \in Releases, Approve(d, from, to)
      PROVE  tree' = tree /\ schema' = schema /\ service' = service
  BY <1>4 DEF Approve
<1>5. ASSUME NEW d \in Deployers,
             \/ AcquireDeployLock(d) \/ VerifyCurrent(d) \/ WriteBlocked(d) \/ Publish(d) \/ AcquireRestartWindow(d)
             \/ Authorize(d) \/ AwaitReadiness(d) \/ Ready(d) \/ ClearState(d) \/ Kill(d)
      PROVE  tree' = tree /\ schema' = schema /\ service' = service
  BY <1>5 DEF AcquireDeployLock, VerifyCurrent, WriteBlocked, Publish, AcquireRestartWindow, Authorize, AwaitReadiness,
     Ready, ClearState, Kill
<1>6. ASSUME NEW d \in Deployers, SelectSource(d) \/ Migrate(d) \/ Fail(d)
      PROVE  tree' >= tree /\ schema' >= schema /\ service' = service
  <2>1. deploy[d].pc # "idle"
    BY <1>6 DEF SelectSource, Migrate, Fail, Stage, Started
  <2>2. CASE SelectSource(d)
    BY <2>2, <1>1, <2>1 DEF SelectSource, Selectable, ReleaseInv, ReleaseTyped
  <2>3. CASE Migrate(d)
    BY <2>3, <1>1, <2>1 DEF Migrate
  <2>4. CASE Fail(d)
    BY <2>4, <1>1, <2>1 DEF Fail
  <2> QED BY <1>6, <2>2, <2>3, <2>4
<1>7. ASSUME NEW d \in Deployers, Restart(d) \/ ExitTrap(d)
      PROVE  tree' = tree /\ schema' = schema /\ (service.phase = "loaded" => service'.phase # "guarded")
  BY <1>7 DEF Restart, ExitTrap
<1>8. CASE DeployNext
  BY <1>8, <1>1, <1>3, <1>4, <1>5, <1>6, <1>7 DEF DeployNext
<1> QED BY <1>2, <1>8

\* verify_deploy_start_guard.py and deploy.sh: a start while deployment state exists happens
\* only in the window of a live deployment and for what it put in place; source and schema
\* never go back.
THEOREM GuardAlwaysForward == DeploymentSpec => GuardedForward
<1> DEFINE Step == /\ (service.phase = "loaded" /\ service'.phase = "guarded" /\ stateFile # Absent)
                        => /\ \E d \in Deployers : deploy[d].pc \in {"authorized", "restarting", "failed"}
                           /\ service.env.sha = tree /\ schema = published.revision
                   /\ tree' >= tree /\ schema' >= schema
<1>1. ReleaseInv /\ [DeployNext \/ UnitsNext]_deploymentVars => [Step]_deploymentVars
  BY ReleaseMoves, GuardHolds
<1>2. DeploymentSpec => [][Step]_deploymentVars
  BY <1>1, ReleaseInvInit, ReleaseInvStep, PTL DEF DeploymentSpec
<1> QED BY <1>2, PTL DEF GuardedForward, StaleAuthorizationRefused, ForwardOnly

(***************************************************************************)
(* Alerts and backups of a host                                            *)
(***************************************************************************)
Receipts == [failure : Nat, healthy : Nat]
Kinds == {"healthy", "failure"}
Turns == [pc : {"idle", "waiting", "posting"}, now : Nat, state : Kinds \cup {"none"}, todo : SUBSET Dests]
LocalTyped ==
  /\ second \in Nat \ {0}
  /\ alertFile \in [state : Kinds \cup {"none"}, observed : Nat, receipts : [Dests -> Receipts]]
  /\ runner \in [{"event", "reminder"} -> Turns]
  /\ alertLock \in {"none", "event", "reminder"}
  /\ sent \in [Dests -> Kinds \cup {"none"}]
  /\ retire \in [pc : {"idle", "signed", "proved", "retired"}, evidence : [Dests -> Receipts], noisy : BOOLEAN]

\* The one that holds the lock is posting what the file says.
Posting ==
  \A p \in {"event", "reminder"} :
    /\ alertLock = p <=> runner[p].pc = "posting"
    /\ runner[p].pc # "idle" => runner[p].state \in Kinds
    /\ runner[p].pc = "posting" => alertFile.observed = runner[p].now /\ alertFile.state = runner[p].state
ReminderFails == runner["reminder"].pc # "idle" => runner["reminder"].state = "failure"

\* Nothing is dated in the future; the dispatch of an event runs within the second it began
\* in, later than every recovery told before it.
Dated ==
  /\ \A p \in {"event", "reminder"} : runner[p].now <= second
  /\ runner["event"].pc # "idle" => runner["event"].now = second
  /\ alertFile.observed <= second
  /\ \A d \in Dests : /\ alertFile.receipts[d].failure <= second
                      /\ alertFile.receipts[d].healthy <= runner["event"].now
                      /\ runner["event"].pc = "waiting" => alertFile.receipts[d].healthy < runner["event"].now
\* A recovery told in this second is still what the file says, so no reminder is active.
ToldNow ==
  \A d \in Dests : alertFile.receipts[d].healthy = second => alertFile.state = "healthy" /\ alertFile.observed = second
\* A recovery is due only where a failure was told last.
DueRecovered ==
  runner["event"].pc = "posting" /\ runner["event"].state = "healthy" =>
    \A d \in runner["event"].todo : alertFile.receipts[d].healthy < alertFile.receipts[d].failure

\* What the receipts say a destination heard, it heard.
FailureTold ==
  \A d \in Dests \ unacked : alertFile.receipts[d].healthy < alertFile.receipts[d].failure => sent[d] = "failure"
RecoveryTold ==
  \A d \in Dests \ (unacked \cup belated) :
    alertFile.receipts[d].failure <= alertFile.receipts[d].healthy => sent[d] # "failure"
\* What is told, but for the destinations still to be told.
Todo == IF alertLock = "none" THEN {} ELSE runner[alertLock].todo
OutageInTelling ==
  alertFile.state = "failure" => \A d \in Dests \ (lastFailed \cup unacked \cup Todo) : sent[d] = "failure"
RecoveryInTelling ==
  alertFile.state = "healthy" => \A d \in Dests \ (lastFailed \cup unacked \cup belated \cup Todo) : sent[d] # "failure"

\* The evidence is a recovery of every destination, older than what an event has still to post.
Signed == retire.pc \in {"signed", "proved"}
EvidenceDated ==
  Signed => \A d \in Dests :
    /\ 0 < retire.evidence[d].failure /\ retire.evidence[d].failure < retire.evidence[d].healthy
    /\ retire.evidence[d].healthy <= runner["event"].now
    /\ runner["event"].pc = "waiting" \/ (runner["event"].pc = "posting" /\ runner["event"].todo # {})
         => retire.evidence[d].healthy < runner["event"].now
\* After an alert the receipts never match the evidence again: a recovery was told since, or
\* the failure is not before it, or the file is dated before it and will be thrown away.
Disproved(d) ==
  \/ alertFile.receipts[d].healthy # retire.evidence[d].healthy
  \/ alertFile.receipts[d].failure >= retire.evidence[d].healthy
  \/ alertFile.observed < retire.evidence[d].healthy
NoiseShows == Signed /\ retire.noisy => \E d \in Dests : Disproved(d)

AlertShape == LocalTyped /\ Posting /\ ReminderFails /\ Dated /\ ToldNow /\ DueRecovered
AlertTold == FailureTold /\ RecoveryTold /\ OutageInTelling /\ RecoveryInTelling
RetireInv == EvidenceDated /\ NoiseShows /\ RetiredInSilence

LEMMA AlertInit == LocalInit => AlertShape /\ AlertTold /\ RetireInv
<1> SUFFICES ASSUME LocalInit PROVE AlertShape /\ AlertTold /\ RetireInv
  OBVIOUS
<1>1. LocalTyped
  BY DEF Turns, LocalInit, LocalTyped, NoAlertFile, NoReceipts, Asleep, NoRetirement, Receipts, Kinds, Never
<1>2. /\ \A p \in {"event", "reminder"} : runner[p].pc = "idle" /\ runner[p].now = 0
      /\ alertFile.state = "none" /\ alertFile.observed = 0
      /\ \A d \in Dests : alertFile.receipts[d].failure = 0 /\ alertFile.receipts[d].healthy = 0 /\ sent[d] = "none"
      /\ second = 1 /\ alertLock = "none" /\ retire.pc = "idle"
  BY DEF LocalInit, NoAlertFile, NoReceipts, Asleep, NoRetirement, Never
<1>3. AlertShape
  BY <1>1, <1>2 DEF AlertShape, Posting, ReminderFails, Dated, ToldNow, DueRecovered
<1>4. AlertTold
  BY <1>2 DEF AlertTold, FailureTold, RecoveryTold, OutageInTelling, RecoveryInTelling
<1>5. RetireInv
  BY <1>2 DEF RetireInv, EvidenceDated, NoiseShows, Signed, RetiredInSilence
<1> QED BY <1>3, <1>4, <1>5

\* What one step of a dispatch does to the file, the units and the lock.
LEMMA StartDoes ==
  ASSUME AlertShape, NEW p \in {"event", "reminder"}, NEW s \in Kinds,
         \/ p = "event" /\ EventStarts(s)
         \/ p = "reminder" /\ s = "failure" /\ ReminderStarts
  PROVE  /\ UNCHANGED <<second, alertFile, alertLock, sent, lastFailed, unacked, belated, retire>>
         /\ runner[p].pc = "idle" /\ (p = "event" => runner[p].now < second)
         /\ runner'[p] = [pc |-> "waiting", now |-> second, state |-> s, todo |-> {}]
         /\ \A q \in {"event", "reminder"} \ {p} : runner'[q] = runner[q]
         /\ DOMAIN runner' = {"event", "reminder"}
  BY DEF AlertShape, LocalTyped, EventStarts, ReminderStarts, AlertRest, Asleep

LEMMA PostDelivers ==
  ASSUME AlertShape, NEW p \in {"event", "reminder"}, NEW d \in Dests, Post(p, d, TRUE)
  PROVE  /\ runner[p].pc = "posting" /\ d \in runner[p].todo
         /\ runner' = [runner EXCEPT ![p] = [runner[p] EXCEPT !.todo = runner[p].todo \ {d}]]
         /\ alertFile'.state = alertFile.state /\ alertFile'.observed = alertFile.observed
         /\ alertFile' \in [state : Kinds \cup {"none"}, observed : Nat, receipts : [Dests -> Receipts]]
         /\ \A e \in Dests \ {d} : alertFile'.receipts[e] = alertFile.receipts[e]
         /\ runner[p].state = "healthy" =>
              /\ alertFile'.receipts[d].failure = alertFile.receipts[d].failure
              /\ alertFile'.receipts[d].healthy = runner[p].now
         /\ runner[p].state = "failure" =>
              /\ alertFile'.receipts[d].failure = runner[p].now
              /\ alertFile'.receipts[d].healthy = alertFile.receipts[d].healthy
<1>1. runner[p].pc = "posting" /\ d \in runner[p].todo /\ runner[p].state \in Kinds /\ runner[p].now \in Nat
  BY DEF AlertShape, LocalTyped, Posting, Post
<1>2. runner' = [runner EXCEPT ![p] = [runner[p] EXCEPT !.todo = runner[p].todo \ {d}]]
  BY DEF AlertShape, LocalTyped, Post
<1>3. alertFile' = [alertFile EXCEPT !.receipts = [alertFile.receipts EXCEPT ![d] = [alertFile.receipts[d] EXCEPT ![runner[p].state] = runner[p].now]]]
  BY DEF Post
<1>4. alertFile'.receipts = [alertFile.receipts EXCEPT ![d] = [alertFile.receipts[d] EXCEPT ![runner[p].state] = runner[p].now]]
      /\ alertFile'.state = alertFile.state /\ alertFile'.observed = alertFile.observed
  BY <1>3 DEF AlertShape, LocalTyped
<1>5. alertFile'.receipts[d] = [alertFile.receipts[d] EXCEPT ![runner[p].state] = runner[p].now]
      /\ \A e \in Dests \ {d} : alertFile'.receipts[e] = alertFile.receipts[e]
  BY <1>4 DEF AlertShape, LocalTyped
<1>6. alertFile.receipts[d] \in Receipts
  BY DEF AlertShape, LocalTyped
<1>7. CASE runner[p].state = "healthy"
  <2>1. alertFile'.receipts[d] = [failure |-> alertFile.receipts[d].failure, healthy |-> runner[p].now]
    BY <1>5, <1>6, <1>7 DEF Receipts
  <2>2. alertFile'.receipts[d] \in Receipts
    BY <2>1, <1>1, <1>6 DEF Receipts
  <2> QED BY <2>1, <2>2, <1>1, <1>2, <1>3, <1>4, <1>5, <1>7 DEF AlertShape, LocalTyped
<1>8. CASE runner[p].state = "failure"
  <2>1. alertFile'.receipts[d] = [failure |-> runner[p].now, healthy |-> alertFile.receipts[d].healthy]
    BY <1>5, <1>6, <1>8 DEF Receipts
  <2>2. alertFile'.receipts[d] \in Receipts
    BY <2>1, <1>1, <1>6 DEF Receipts
  <2> QED BY <2>1, <2>2, <1>1, <1>2, <1>3, <1>4, <1>5, <1>8 DEF AlertShape, LocalTyped
<1> QED BY <1>1, <1>7, <1>8 DEF Kinds

\* A dispatch that finds something to do takes the lock and dates the file.
LEMMA DispatchDoes ==
  ASSUME AlertShape, NEW p \in {"event", "reminder"}, Dispatch(p), ~Inactive(p)
  PROVE  /\ runner[p].pc = "waiting" /\ alertLock = "none" /\ alertLock' = p /\ lastFailed' = {}
         /\ UNCHANGED <<second, sent, unacked, retire>>
         /\ runner'[p].pc = "posting" /\ runner'[p].now = runner[p].now /\ runner'[p].state = runner[p].state
         /\ runner' \in [{"event", "reminder"} -> Turns]
         /\ \A q \in {"event", "reminder"} \ {p} : runner'[q] = runner[q]
         /\ alertFile' \in [state : Kinds \cup {"none"}, observed : Nat, receipts : [Dests -> Receipts]]
         /\ alertFile'.state = runner[p].state /\ alertFile'.observed = runner[p].now
         /\ ValidAlertState(alertFile) => alertFile'.receipts = alertFile.receipts /\ belated' = belated
         /\ ~ValidAlertState(alertFile) =>
              /\ belated' = Dests
              /\ \A d \in Dests : alertFile'.receipts[d].failure = 0 /\ alertFile'.receipts[d].healthy = 0
         /\ \A d \in Dests : d \in runner'[p].todo <=> ReceiptDue(alertFile'.receipts[d], runner[p].state, runner[p].now)
<1> DEFINE receipts == IF ValidAlertState(alertFile) THEN alertFile.receipts ELSE NoReceipts
           due == {d \in Dests : ReceiptDue(receipts[d], runner[p].state, runner[p].now)}
<1>1. /\ runner[p].pc = "waiting" /\ alertLock = "none" /\ alertLock' = p /\ lastFailed' = {}
      /\ UNCHANGED <<second, sent, unacked, retire>>
      /\ alertFile' = [state |-> runner[p].state, observed |-> runner[p].now, receipts |-> receipts]
      /\ belated' = (IF ValidAlertState(alertFile) THEN belated ELSE Dests)
      /\ runner' = [runner EXCEPT ![p].pc = "posting", ![p].todo = due]
  BY DEF Dispatch, AlertRest
<1>2. receipts \in [Dests -> Receipts]
  BY DEF NoReceipts, Never, Receipts, AlertShape, LocalTyped
<1>3. runner[p] \in Turns
      /\ due \subseteq Dests
  BY DEF AlertShape, LocalTyped
<1> HIDE DEF receipts, due
<1>4. alertFile' \in [state : Kinds \cup {"none"}, observed : Nat, receipts : [Dests -> Receipts]]
      /\ alertFile'.receipts = receipts /\ alertFile'.state = runner[p].state /\ alertFile'.observed = runner[p].now
  BY <1>1, <1>2, <1>3 DEF Turns
<1>5. /\ runner'[p] = [runner[p] EXCEPT !.pc = "posting", !.todo = due]
      /\ \A q \in {"event", "reminder"} \ {p} : runner'[q] = runner[q]
      /\ DOMAIN runner' = {"event", "reminder"}
      /\ runner' = [q \in {"event", "reminder"} |-> runner'[q]]
  BY <1>1 DEF AlertShape, LocalTyped
<1>6. /\ runner'[p] \in Turns
      /\ runner'[p].pc = "posting" /\ runner'[p].now = runner[p].now /\ runner'[p].state = runner[p].state
      /\ runner'[p].todo = due
  BY <1>5, <1>3 DEF Turns
<1>7. runner' \in [{"event", "reminder"} -> Turns]
  BY <1>5, <1>6 DEF AlertShape, LocalTyped
<1>8. ~ValidAlertState(alertFile) => \A d \in Dests : receipts[d].failure = 0 /\ receipts[d].healthy = 0
  BY DEF receipts, NoReceipts, Never
<1>9. ValidAlertState(alertFile) => receipts = alertFile.receipts
  BY DEF receipts
<1>10. \A d \in Dests : d \in due <=> ReceiptDue(receipts[d], runner[p].state, runner[p].now)
  BY DEF due
<1> QED BY <1>1, <1>4, <1>5, <1>6, <1>7, <1>8, <1>9, <1>10

\* The end of a dispatch, whichever way it ends.
LEMMA EndDoes ==
  ASSUME AlertShape, NEW p \in {"event", "reminder"},
         \/ DispatchEnds(p)
         \/ \E d \in Dests, b \in BOOLEAN : DispatchKilled(p, d, b)
         \/ Dispatch(p) /\ Inactive(p)
  PROVE  /\ UNCHANGED <<second, alertFile, belated, retire>>
         /\ runner'[p] = [pc |-> "idle", now |-> runner[p].now, state |-> "none", todo |-> {}]
         /\ \A q \in {"event", "reminder"} \ {p} : runner'[q] = runner[q]
         /\ runner' \in [{"event", "reminder"} -> Turns]
         /\ alertLock' = "none" /\ alertLock \in {"none", p}
<1>1. /\ UNCHANGED <<second, alertFile, belated, retire>>
      /\ runner' = [runner EXCEPT ![p] = AsleepAgain(runner[p])]
      /\ alertLock' = "none" /\ alertLock \in {"none", p}
  BY DEF DispatchEnds, DispatchKilled, Dispatch, AlertRest, AlertShape, Posting
<1>2. AsleepAgain(runner[p]) = [pc |-> "idle", now |-> runner[p].now, state |-> "none", todo |-> {}]
  BY DEF AsleepAgain, Asleep
<1>3. runner[p].now \in Nat
  BY DEF Turns, AlertShape, LocalTyped
<1>4. AsleepAgain(runner[p]) \in Turns
  BY <1>2, <1>3 DEF Turns
<1> QED BY <1>1, <1>2, <1>4 DEF AlertShape, LocalTyped

\* The actions that move neither the file nor the units, and the clock.
LEMMA ShapeStep == AlertShape /\ [AlertNext \/ BackupNext]_localVars => AlertShape'
<1> SUFFICES ASSUME AlertShape, [AlertNext \/ BackupNext]_localVars PROVE AlertShape'
  OBVIOUS
<1>0. /\ second \in Nat \ {0} /\ alertFile.observed \in Nat /\ retire \in [pc : {"idle", "signed", "proved", "retired"}, evidence : [Dests -> Receipts], noisy : BOOLEAN]
      /\ \A p \in {"event", "reminder"} : runner[p].now \in Nat
      /\ \A d \in Dests : alertFile.receipts[d].failure \in Nat /\ alertFile.receipts[d].healthy \in Nat
  BY DEF Turns, AlertShape, LocalTyped, Receipts
<1>1. ASSUME UNCHANGED <<second, alertFile, runner, alertLock, sent>>,
             retire' \in [pc : {"idle", "signed", "proved", "retired"}, evidence : [Dests -> Receipts], noisy : BOOLEAN]
      PROVE  AlertShape'
  BY <1>1 DEF AlertShape, LocalTyped, Posting, ReminderFails, Dated, ToldNow, DueRecovered
<1>2. CASE BackupNext \/ UNCHANGED localVars
  <2>1. UNCHANGED <<second, alertFile, runner, alertLock, sent, retire>>
    BY <1>2 DEF BackupNext, BackupStarts, WriteBackupStatus, BackupEnds, WriteArtifact, ArtifactLost, BackupRest, localVars
  <2> QED BY <2>1, <1>1, <1>0
<1>3. CASE SignEvidence \/ RetirementProves
  <2>1. retire' \in [pc : {"idle", "signed", "proved", "retired"}, evidence : [Dests -> Receipts], noisy : BOOLEAN]
    <3>1. CASE SignEvidence
      BY <3>1 DEF SignEvidence, AlertShape, LocalTyped
    <3>2. CASE RetirementProves
      BY <3>2, <1>0 DEF RetirementProves, NoRetirement, NoReceipts, Never, Receipts
    <3> QED BY <1>3, <3>1, <3>2
  <2>2. UNCHANGED <<second, alertFile, runner, alertLock, sent>>
    BY <1>3 DEF SignEvidence, RetirementProves, AlertRest
  <2> QED BY <2>1, <2>2, <1>1
<1>4. ASSUME NEW p \in {"event", "reminder"}, NEW s \in Kinds,
             \/ p = "event" /\ EventStarts(s)
             \/ p = "reminder" /\ s = "failure" /\ ReminderStarts
      PROVE  AlertShape'
  <2>1. /\ UNCHANGED <<second, alertFile, alertLock, sent, lastFailed, unacked, belated, retire>>
        /\ runner[p].pc = "idle" /\ (p = "event" => runner[p].now < second)
        /\ runner'[p] = [pc |-> "waiting", now |-> second, state |-> s, todo |-> {}]
        /\ \A q \in {"event", "reminder"} \ {p} : runner'[q] = runner[q]
    BY <1>4, StartDoes
  <2>2. runner' \in [{"event", "reminder"} -> Turns]
    <3>1. runner'[p] \in Turns /\ DOMAIN runner' = {"event", "reminder"} /\ runner' = [q \in {"event", "reminder"} |-> runner'[q]]
      BY <1>4, <2>1, <1>0 DEF EventStarts, ReminderStarts, Turns, AlertShape, LocalTyped
    <3> QED BY <2>1, <3>1 DEF AlertShape, LocalTyped
  <2>3. LocalTyped'
    BY <2>1, <2>2 DEF AlertShape, LocalTyped
  <2>4. Posting' /\ ReminderFails' /\ ToldNow' /\ DueRecovered'
    BY <2>1, <1>4 DEF AlertShape, LocalTyped, Posting, ReminderFails, ToldNow, DueRecovered
  <2>5. Dated'
    BY <2>1, <1>0, <1>4 DEF AlertShape, Dated
  <2> QED BY <2>3, <2>4, <2>5 DEF AlertShape
<1>5. ASSUME NEW p \in {"event", "reminder"}, Dispatch(p), ~Inactive(p) PROVE AlertShape'
  <2>1. LocalTyped'
    BY <1>5, DispatchDoes DEF AlertShape, LocalTyped
  <2>2. Posting' /\ ReminderFails'
    BY <1>5, DispatchDoes DEF AlertShape, Posting, ReminderFails
  <2>3. \A d \in Dests : \/ /\ alertFile'.receipts[d].failure = 0 /\ alertFile'.receipts[d].healthy = 0
                         \/ alertFile'.receipts[d] = alertFile.receipts[d]
    BY <1>5, DispatchDoes
  <2>4. Dated'
    <3>1. /\ second' = second /\ alertFile'.observed = runner[p].now /\ runner'[p].pc = "posting"
          /\ runner[p].pc = "waiting"
          /\ \A q \in {"event", "reminder"} : runner'[q].now = runner[q].now
          /\ \A q \in {"event", "reminder"} \ {p} : runner'[q] = runner[q]
      BY <1>5, DispatchDoes
    <3> QED BY <3>1, <2>3, <1>0 DEF AlertShape, Dated
  <2>5. ToldNow'
    <3> SUFFICES ASSUME NEW d \in Dests, alertFile'.receipts[d].healthy = second' PROVE FALSE
      BY DEF ToldNow
    <3>1. second' = second /\ runner[p].pc = "waiting"
      BY <1>5, DispatchDoes
    <3>2. alertFile.receipts[d].healthy = second
      BY <2>3, <3>1, <1>0
    <3>3. alertFile.state = "healthy" /\ alertFile.observed = second /\ p = "reminder"
      BY <3>1, <3>2, <1>0 DEF AlertShape, ToldNow, Dated
    <3>4. ValidAlertState(alertFile)
      BY <3>3, <1>0 DEF ValidAlertState, AlertShape, Dated
    <3> QED BY <3>3, <3>4, <1>5 DEF Inactive
  <2>6. DueRecovered'
    <3> SUFFICES ASSUME runner'["event"].pc = "posting", runner'["event"].state = "healthy", NEW d \in runner'["event"].todo
                 PROVE  alertFile'.receipts[d].healthy < alertFile'.receipts[d].failure
      BY DEF DueRecovered
    <3>1. p = "event" /\ runner["event"].state = "healthy" /\ d \in Dests
      BY <1>5, <2>1, DispatchDoes DEF Turns, AlertShape, LocalTyped, Posting
    <3>2. ReceiptDue(alertFile'.receipts[d], runner[p].state, runner[p].now)
      BY <1>5, <3>1, DispatchDoes
    <3>3. alertFile'.receipts[d].healthy \in Nat /\ alertFile'.receipts[d].failure \in Nat
      BY <3>1, <2>1 DEF LocalTyped, Receipts
    <3> QED BY <3>1, <3>2, <3>3 DEF ReceiptDue
  <2> QED BY <2>1, <2>2, <2>4, <2>5, <2>6 DEF AlertShape
<1>6. ASSUME NEW p \in {"event", "reminder"},
             \/ DispatchEnds(p)
             \/ \E d \in Dests, b \in BOOLEAN : DispatchKilled(p, d, b)
             \/ Dispatch(p) /\ Inactive(p)
      PROVE  AlertShape'
  <2>1. sent' \in [Dests -> Kinds \cup {"none"}]
    BY <1>6 DEF DispatchEnds, DispatchKilled, Dispatch, AlertShape, LocalTyped, Posting, Inactive
  <2>2. LocalTyped'
    BY <1>6, <2>1, EndDoes DEF AlertShape, LocalTyped
  <2>3. Posting' /\ ReminderFails' /\ ToldNow' /\ DueRecovered'
    BY <1>6, EndDoes DEF AlertShape, LocalTyped, Posting, ReminderFails, ToldNow, DueRecovered
  <2>4. Dated'
    BY <1>6, <1>0, EndDoes DEF AlertShape, Dated
  <2> QED BY <2>2, <2>3, <2>4 DEF AlertShape
<1>7. ASSUME NEW p \in {"event", "reminder"}, NEW d \in Dests, Post(p, d, TRUE) PROVE AlertShape'
  <2>1. /\ runner[p].pc = "posting" /\ d \in runner[p].todo
        /\ runner'[p] = [runner[p] EXCEPT !.todo = runner[p].todo \ {d}]
        /\ \A q \in {"event", "reminder"} \ {p} : runner'[q] = runner[q]
        /\ runner' \in [{"event", "reminder"} -> Turns]
    <3>1. runner' = [runner EXCEPT ![p] = [runner[p] EXCEPT !.todo = runner[p].todo \ {d}]] /\ runner[p].pc = "posting" /\ d \in runner[p].todo
      BY <1>7, PostDelivers
    <3>2. [runner[p] EXCEPT !.todo = runner[p].todo \ {d}] \in Turns
      BY DEF AlertShape, LocalTyped, Turns
    <3> QED BY <3>1, <3>2 DEF AlertShape, LocalTyped
  <2>2. /\ runner'[p].pc = "posting" /\ runner'[p].now = runner[p].now /\ runner'[p].state = runner[p].state
        /\ runner'[p].todo = runner[p].todo \ {d} /\ runner[p].state \in Kinds /\ runner[p].now <= second
    BY <2>1 DEF AlertShape, LocalTyped, Posting, Dated
  <2>3. UNCHANGED <<second, alertLock>> /\ sent' = [sent EXCEPT ![d] = runner[p].state]
        /\ retire' = [retire EXCEPT !.noisy = retire.noisy \/ retire.pc \in {"signed", "proved"}]
    BY <1>7 DEF Post, AlertRest
  <2>4. LocalTyped'
    <3>1. retire' \in [pc : {"idle", "signed", "proved", "retired"}, evidence : [Dests -> Receipts], noisy : BOOLEAN]
      BY <2>3, <1>0
    <3>2. sent' \in [Dests -> Kinds \cup {"none"}]
      BY <2>2, <2>3 DEF AlertShape, LocalTyped
    <3> QED BY <1>7, <2>1, <2>3, <3>1, <3>2, PostDelivers DEF AlertShape, LocalTyped
  <2>5. /\ alertFile'.state = alertFile.state /\ alertFile'.observed = alertFile.observed
        /\ \A e \in Dests \ {d} : alertFile'.receipts[e] = alertFile.receipts[e]
        /\ runner[p].state = "healthy" =>
             /\ alertFile'.receipts[d].failure = alertFile.receipts[d].failure
             /\ alertFile'.receipts[d].healthy = runner[p].now
        /\ runner[p].state = "failure" =>
             /\ alertFile'.receipts[d].failure = runner[p].now
             /\ alertFile'.receipts[d].healthy = alertFile.receipts[d].healthy
    BY <1>7, PostDelivers
  <2>6. Posting' /\ ReminderFails'
    BY <2>1, <2>2, <2>3, <2>5 DEF Turns, AlertShape, Posting, ReminderFails
  <2>7. runner[p].state = "healthy" => p = "event" /\ runner[p].now = second
    BY <2>1 DEF AlertShape, ReminderFails, Dated
  <2>8. Dated'
    <3>1. \A q \in {"event", "reminder"} : runner'[q].pc = runner[q].pc /\ runner'[q].now = runner[q].now
      BY <2>1, <2>2
    <3>2. \A e \in Dests : alertFile'.receipts[e].failure <= second /\ alertFile'.receipts[e].healthy <= runner["event"].now
      BY <2>2, <2>5, <2>7, <1>0 DEF AlertShape, Dated, Kinds
    <3>3. \A e \in Dests : runner["event"].pc = "waiting" => alertFile'.receipts[e].healthy < runner["event"].now
      BY <2>1, <2>2, <2>5, <2>7, <1>0 DEF AlertShape, Dated, Kinds
    <3> QED BY <3>1, <3>2, <3>3, <2>3, <2>5 DEF AlertShape, Dated
  <2>9. ToldNow'
    BY <2>1, <2>2, <2>3, <2>5, <2>7, <1>0 DEF AlertShape, ToldNow, Posting, Kinds
  <2>10. DueRecovered'
    <3> SUFFICES ASSUME runner'["event"].pc = "posting", runner'["event"].state = "healthy", NEW e \in runner'["event"].todo
                 PROVE  alertFile'.receipts[e].healthy < alertFile'.receipts[e].failure
      BY DEF DueRecovered
    <3>1. p = "event" /\ e # d /\ e \in runner["event"].todo /\ runner["event"].state = "healthy"
      BY <2>1, <2>2, <2>4, <2>6, <2>3 DEF AlertShape, Posting
    <3>2. e \in Dests
      BY <3>1 DEF Turns, AlertShape, LocalTyped
    <3> QED BY <3>1, <3>2, <2>1, <2>5 DEF AlertShape, DueRecovered
  <2> QED BY <2>4, <2>6, <2>8, <2>9, <2>10 DEF AlertShape
<1>8. ASSUME NEW p \in {"event", "reminder"}, NEW d \in Dests, Post(p, d, FALSE) PROVE AlertShape'
  <2>1. /\ UNCHANGED <<second, alertFile, alertLock, sent, retire>>
        /\ runner' = [runner EXCEPT ![p] = [runner[p] EXCEPT !.todo = runner[p].todo \ {d}]]
    BY <1>8 DEF Post, AlertRest, AlertShape, LocalTyped
  <2>2. /\ runner' \in [{"event", "reminder"} -> Turns]
        /\ \A q \in {"event", "reminder"} : /\ runner'[q].pc = runner[q].pc /\ runner'[q].now = runner[q].now
                                            /\ runner'[q].state = runner[q].state /\ runner'[q].todo \subseteq runner[q].todo
    <3>1. [runner[p] EXCEPT !.todo = runner[p].todo \ {d}] \in Turns
      BY DEF AlertShape, LocalTyped, Turns
    <3> QED BY <2>1, <3>1 DEF AlertShape, LocalTyped, Turns
  <2> QED BY <2>1, <2>2 DEF AlertShape, LocalTyped, Posting, ReminderFails, Dated, ToldNow, DueRecovered
<1>9. CASE AlertTick
  <2>1. /\ second' = second + 1 /\ UNCHANGED <<alertFile, runner, alertLock, sent, retire>> /\ runner["event"].pc = "idle"
    BY <1>9 DEF AlertTick
  <2>2. ToldNow'
    BY <2>1, <1>0 DEF AlertShape, ToldNow, Dated
  <2>3. Dated'
    BY <2>1, <1>0 DEF AlertShape, Dated
  <2> QED BY <2>1, <2>2, <2>3, <1>0 DEF AlertShape, LocalTyped, Posting, ReminderFails, DueRecovered
<1>10. CASE AlertNext
  <2>1. CASE EventStarts("healthy") \/ EventStarts("failure") \/ ReminderStarts
    BY <2>1, <1>4 DEF Kinds
  <2>2. ASSUME NEW p \in {"event", "reminder"}, NEW d \in Dests, NEW b \in BOOLEAN, Post(p, d, b) PROVE AlertShape'
    BY <2>2, <1>7, <1>8
  <2>3. ASSUME NEW p \in {"event", "reminder"}, Dispatch(p) \/ DispatchEnds(p) PROVE AlertShape'
    <3>1. CASE Dispatch(p) /\ ~Inactive(p)
      BY <3>1, <1>5
    <3>2. CASE DispatchEnds(p) \/ (Dispatch(p) /\ Inactive(p))
      BY <3>2, <1>6
    <3> QED BY <2>3, <3>1, <3>2
  <2>4. ASSUME NEW p \in {"event", "reminder"}, NEW d \in Dests, NEW b \in BOOLEAN, DispatchKilled(p, d, b) PROVE AlertShape'
    BY <2>4, <1>6
  <2> QED BY <1>10, <1>3, <1>9, <2>1, <2>2, <2>3, <2>4 DEF AlertNext
<1> QED BY <1>2, <1>10

\* Receipts and what was heard stay together.
LEMMA ToldStep == AlertShape /\ AlertTold /\ [AlertNext \/ BackupNext]_localVars => AlertTold'
<1> SUFFICES ASSUME AlertShape, AlertTold, [AlertNext \/ BackupNext]_localVars PROVE AlertTold'
  OBVIOUS
<1>0. /\ second \in Nat
      /\ \A p \in {"event", "reminder"} : runner[p].now \in Nat
      /\ \A d \in Dests : alertFile.receipts[d].failure \in Nat /\ alertFile.receipts[d].healthy \in Nat
  BY DEF AlertShape, LocalTyped, Receipts, Turns
<1>1. ASSUME UNCHANGED <<alertFile, alertLock, sent, lastFailed, unacked, belated>>, Todo' = Todo PROVE AlertTold'
  BY <1>1 DEF AlertTold, FailureTold, RecoveryTold, OutageInTelling, RecoveryInTelling
<1>2. CASE BackupNext \/ UNCHANGED localVars \/ SignEvidence \/ RetirementProves \/ AlertTick
  <2>1. UNCHANGED <<alertFile, runner, alertLock, sent, lastFailed, unacked, belated>>
    BY <1>2 DEF BackupNext, BackupStarts, WriteBackupStatus, BackupEnds, WriteArtifact, ArtifactLost, BackupRest, localVars,
       SignEvidence, RetirementProves, AlertTick
  <2> QED BY <2>1, <1>1 DEF Todo
<1>3. ASSUME NEW p \in {"event", "reminder"}, NEW s \in Kinds,
             \/ p = "event" /\ EventStarts(s)
             \/ p = "reminder" /\ s = "failure" /\ ReminderStarts
      PROVE  AlertTold'
  <2>1. /\ UNCHANGED <<second, alertFile, alertLock, sent, lastFailed, unacked, belated, retire>>
        /\ runner[p].pc = "idle" /\ \A q \in {"event", "reminder"} \ {p} : runner'[q] = runner[q]
    BY <1>3, StartDoes
  <2>2. Todo' = Todo
    BY <2>1 DEF Todo, AlertShape, Posting, LocalTyped
  <2> QED BY <2>1, <2>2, <1>1
<1>4. ASSUME NEW p \in {"event", "reminder"}, Dispatch(p), ~Inactive(p) PROVE AlertTold'
  <2>1. /\ UNCHANGED <<sent, unacked>> /\ Todo' = runner'[p].todo /\ alertFile'.state = runner[p].state
        /\ runner[p].state \in Kinds
    BY <1>4, DispatchDoes DEF Todo, AlertShape, Posting
  <2>2. CASE ValidAlertState(alertFile)
    <3>1. alertFile'.receipts = alertFile.receipts /\ belated' = belated
          /\ \A d \in Dests : d \in runner'[p].todo <=> ReceiptDue(alertFile.receipts[d], runner[p].state, runner[p].now)
      BY <1>4, <2>2, DispatchDoes
    <3>2. FailureTold' /\ RecoveryTold'
      BY <2>1, <3>1 DEF AlertTold, FailureTold, RecoveryTold
    <3>3. ASSUME runner[p].state = "failure" PROVE OutageInTelling' /\ RecoveryInTelling'
      <4>1. \A d \in Dests : d \notin runner'[p].todo => alertFile.receipts[d].healthy < alertFile.receipts[d].failure
        BY <3>1, <3>3, <1>0 DEF ReceiptDue
      <4> QED BY <2>1, <3>3, <4>1 DEF AlertTold, FailureTold, OutageInTelling, RecoveryInTelling
    <3>4. ASSUME runner[p].state = "healthy" PROVE OutageInTelling' /\ RecoveryInTelling'
      <4>1. \A d \in Dests : d \notin runner'[p].todo => alertFile.receipts[d].failure <= alertFile.receipts[d].healthy
        BY <3>1, <3>4, <1>0 DEF ReceiptDue
      <4> QED BY <2>1, <3>1, <3>4, <4>1 DEF AlertTold, RecoveryTold, OutageInTelling, RecoveryInTelling
    <3> QED BY <2>1, <3>2, <3>3, <3>4 DEF AlertTold, Kinds
  <2>3. CASE ~ValidAlertState(alertFile)
    <3>1. belated' = Dests /\ (\A d \in Dests : alertFile'.receipts[d].failure = 0 /\ alertFile'.receipts[d].healthy = 0)
          /\ \A d \in Dests : d \in runner'[p].todo <=> ReceiptDue(alertFile'.receipts[d], runner[p].state, runner[p].now)
      BY <1>4, <2>3, DispatchDoes
    <3>2. FailureTold' /\ RecoveryTold' /\ RecoveryInTelling'
      BY <3>1 DEF FailureTold, RecoveryTold, RecoveryInTelling
    <3>3. OutageInTelling'
      <4>1. runner[p].state = "failure" => \A d \in Dests : d \in runner'[p].todo
        BY <3>1 DEF ReceiptDue, Never
      <4> QED BY <2>1, <4>1 DEF OutageInTelling
    <3> QED BY <3>2, <3>3 DEF AlertTold
  <2> QED BY <2>2, <2>3
<1>5. ASSUME NEW p \in {"event", "reminder"},
             \/ DispatchEnds(p)
             \/ \E d \in Dests, b \in BOOLEAN : DispatchKilled(p, d, b)
             \/ Dispatch(p) /\ Inactive(p)
      PROVE  AlertTold'
  <2>1. UNCHANGED <<alertFile, belated>> /\ Todo' = {}
    BY <1>5, EndDoes DEF Todo
  <2>2. CASE Dispatch(p) /\ Inactive(p)
    <3>1. UNCHANGED <<sent, lastFailed, unacked, alertLock>> /\ alertLock = "none"
      BY <2>2 DEF Dispatch
    <3> QED BY <2>1, <3>1, <1>1 DEF Todo
  <2>3. CASE DispatchEnds(p)
    <3>1. UNCHANGED <<sent, lastFailed, unacked>> /\ Todo = {}
      BY <2>3 DEF DispatchEnds, Todo, AlertShape, Posting
    <3> QED BY <2>1, <3>1 DEF AlertTold, FailureTold, RecoveryTold, OutageInTelling, RecoveryInTelling
  <2>4. ASSUME NEW d \in Dests, NEW b \in BOOLEAN, DispatchKilled(p, d, b) PROVE AlertTold'
    <3>1. lastFailed' = lastFailed \cup Todo
      BY <2>4 DEF DispatchKilled, Todo, AlertShape, Posting
    <3>2. unacked \subseteq unacked' /\ \A e \in Dests : e \notin unacked' => sent'[e] = sent[e]
      BY <2>4 DEF DispatchKilled, AlertShape, LocalTyped
    <3> QED BY <2>1, <3>1, <3>2 DEF AlertTold, FailureTold, RecoveryTold, OutageInTelling, RecoveryInTelling
  <2> QED BY <1>5, <2>2, <2>3, <2>4
<1>6. ASSUME NEW p \in {"event", "reminder"}, NEW d \in Dests, Post(p, d, FALSE) PROVE AlertTold'
  <2>1. UNCHANGED <<alertFile, sent, unacked, belated, alertLock>> /\ lastFailed' = lastFailed \cup {d}
        /\ runner' = [runner EXCEPT ![p].todo = runner[p].todo \ {d}] /\ runner[p].pc = "posting"
    BY <1>6 DEF Post, AlertShape, LocalTyped
  <2>2. Todo' = Todo \ {d}
    BY <2>1 DEF Todo, AlertShape, LocalTyped, Posting, Turns
  <2> QED BY <2>1, <2>2 DEF AlertTold, FailureTold, RecoveryTold, OutageInTelling, RecoveryInTelling
<1>7. ASSUME NEW p \in {"event", "reminder"}, NEW d \in Dests, Post(p, d, TRUE) PROVE AlertTold'
  <2>1. /\ runner[p].pc = "posting" /\ alertFile'.state = alertFile.state
        /\ \A e \in Dests \ {d} : alertFile'.receipts[e] = alertFile.receipts[e]
        /\ runner[p].state = "healthy" =>
             /\ alertFile'.receipts[d].failure = alertFile.receipts[d].failure
             /\ alertFile'.receipts[d].healthy = runner[p].now
        /\ runner[p].state = "failure" =>
             /\ alertFile'.receipts[d].failure = runner[p].now
             /\ alertFile'.receipts[d].healthy = alertFile.receipts[d].healthy
        /\ runner' = [runner EXCEPT ![p] = [runner[p] EXCEPT !.todo = runner[p].todo \ {d}]]
    BY <1>7, PostDelivers
  <2>2. /\ sent' = [sent EXCEPT ![d] = runner[p].state] /\ unacked' = unacked \ {d} /\ lastFailed' = lastFailed
        /\ alertLock' = alertLock /\ alertFile.state = runner[p].state /\ runner[p].state \in Kinds
    BY <1>7, <2>1 DEF Post, AlertShape, Posting
  <2>3. Todo' = Todo \ {d}
    BY <2>1, <2>2 DEF Todo, AlertShape, LocalTyped, Posting, Turns
  <2>4. sent'[d] = runner[p].state /\ \A e \in Dests \ {d} : sent'[e] = sent[e]
    BY <2>2 DEF AlertShape, LocalTyped
  <2>5. CASE runner[p].state = "healthy"
    <3>1. p = "event" /\ runner[p].now = second /\ belated' = belated
      BY <1>7, <2>1, <2>5 DEF Post, AlertShape, ReminderFails, Dated
    <3>2. alertFile'.receipts[d].failure <= alertFile'.receipts[d].healthy
      BY <2>1, <2>5, <3>1, <1>0 DEF AlertShape, Dated
    <3>3. alertFile'.receipts[d].failure \in Nat /\ alertFile'.receipts[d].healthy \in Nat
      BY <2>1, <2>5, <1>0
    <3>4. FailureTold' /\ RecoveryTold'
      BY <2>1, <2>2, <2>4, <2>5, <3>1, <3>2, <3>3 DEF AlertTold, FailureTold, RecoveryTold
    <3>5. OutageInTelling' /\ RecoveryInTelling'
      BY <2>1, <2>2, <2>3, <2>4, <2>5, <3>1 DEF AlertTold, OutageInTelling, RecoveryInTelling
    <3> QED BY <3>4, <3>5 DEF AlertTold
  <2>6. CASE runner[p].state = "failure"
    <3>1. belated' = (belated \ {d}) \cup {x \in {d} : runner[p].now < second}
      BY <1>7, <2>6 DEF Post
    <3>2. d \in belated' \/ alertFile'.receipts[d].healthy < alertFile'.receipts[d].failure
      <4>1. CASE runner[p].now < second
        BY <4>1, <3>1
      <4>2. CASE ~(runner[p].now < second)
        <5>1. runner[p].now = second
          BY <4>2, <1>0 DEF AlertShape, Dated
        <5>2. alertFile.receipts[d].healthy <= second
          BY <1>0 DEF AlertShape, Dated
        <5>3. alertFile.receipts[d].healthy # second
          BY <2>2, <2>6 DEF AlertShape, ToldNow
        <5> QED BY <5>1, <5>2, <5>3, <2>1, <2>6, <1>0
      <4> QED BY <4>1, <4>2
    <3>3. \A e \in Dests \ {d} : e \in belated' <=> e \in belated
      BY <3>1
    <3>4. alertFile'.receipts[d].failure \in Nat /\ alertFile'.receipts[d].healthy \in Nat
      BY <2>1, <2>6, <1>0
    <3>5. FailureTold' /\ RecoveryTold'
      BY <2>1, <2>2, <2>4, <2>6, <3>2, <3>3, <3>4 DEF AlertTold, FailureTold, RecoveryTold
    <3>6. OutageInTelling' /\ RecoveryInTelling'
      BY <2>1, <2>2, <2>3, <2>4, <2>6 DEF AlertTold, OutageInTelling, RecoveryInTelling
    <3> QED BY <3>5, <3>6 DEF AlertTold
  <2> QED BY <2>2, <2>5, <2>6 DEF Kinds
<1>8. CASE AlertNext
  <2>1. CASE EventStarts("healthy") \/ EventStarts("failure") \/ ReminderStarts
    BY <2>1, <1>3 DEF Kinds
  <2>2. ASSUME NEW p \in {"event", "reminder"}, NEW d \in Dests, NEW b \in BOOLEAN, Post(p, d, b) PROVE AlertTold'
    BY <2>2, <1>6, <1>7
  <2>3. ASSUME NEW p \in {"event", "reminder"}, Dispatch(p) \/ DispatchEnds(p) PROVE AlertTold'
    BY <2>3, <1>4, <1>5
  <2>4. ASSUME NEW p \in {"event", "reminder"}, NEW d \in Dests, NEW b \in BOOLEAN, DispatchKilled(p, d, b) PROVE AlertTold'
    BY <2>4, <1>5
  <2> QED BY <1>8, <1>2, <2>1, <2>2, <2>3, <2>4 DEF AlertNext
<1> QED BY <1>2, <1>8

\* An alert after the signature leaves a trace in the receipts that no later dispatch removes.
LEMMA RetireStep == AlertShape /\ RetireInv /\ [AlertNext \/ BackupNext]_localVars => RetireInv'
<1> SUFFICES ASSUME AlertShape, RetireInv, [AlertNext \/ BackupNext]_localVars PROVE RetireInv'
  OBVIOUS
<1>0. /\ second \in Nat /\ alertFile.observed \in Nat /\ retire.noisy \in BOOLEAN
      /\ retire \in [pc : {"idle", "signed", "proved", "retired"}, evidence : [Dests -> Receipts], noisy : BOOLEAN]
      /\ \A p \in {"event", "reminder"} : runner[p].now \in Nat
      /\ \A d \in Dests : alertFile.receipts[d].failure \in Nat /\ alertFile.receipts[d].healthy \in Nat
      /\ \A d \in Dests : retire.evidence[d].failure \in Nat /\ retire.evidence[d].healthy \in Nat
  BY DEF AlertShape, LocalTyped, Receipts, Turns
<1>1. ASSUME UNCHANGED <<alertFile, runner, retire>> PROVE RetireInv'
  BY <1>1 DEF RetireInv, EvidenceDated, NoiseShows, Disproved, RetiredInSilence, Signed
<1>2. CASE BackupNext \/ UNCHANGED localVars \/ AlertTick
  <2>1. UNCHANGED <<alertFile, runner, retire>>
    BY <1>2 DEF BackupNext, BackupStarts, WriteBackupStatus, BackupEnds, WriteArtifact, ArtifactLost, BackupRest, localVars, AlertTick
  <2> QED BY <2>1, <1>1
<1>3. CASE SignEvidence
  <2>1. /\ retire' = [pc |-> "signed", evidence |-> alertFile.receipts, noisy |-> FALSE]
        /\ UNCHANGED <<alertFile, runner>> /\ alertFile.state = "healthy" /\ Recovered(alertFile)
    BY <1>3 DEF SignEvidence
  <2>2. retire'.evidence = alertFile.receipts /\ retire'.noisy = FALSE /\ retire'.pc = "signed"
    BY <2>1
  <2>3. runner["event"].pc = "posting" => runner["event"].todo = {}
    <3> SUFFICES ASSUME runner["event"].pc = "posting", NEW d \in runner["event"].todo PROVE FALSE
      OBVIOUS
    <3>1. d \in Dests /\ alertFile.receipts[d].healthy < alertFile.receipts[d].failure
      BY <2>1 DEF AlertShape, Posting, DueRecovered, LocalTyped, Turns
    <3> QED BY <3>1, <2>1, <1>0 DEF Recovered
  <2>4. EvidenceDated'
    <3> SUFFICES ASSUME NEW d \in Dests
                 PROVE  /\ 0 < alertFile.receipts[d].failure /\ alertFile.receipts[d].failure < alertFile.receipts[d].healthy
                        /\ alertFile.receipts[d].healthy <= runner["event"].now
                        /\ runner["event"].pc = "waiting" => alertFile.receipts[d].healthy < runner["event"].now
      BY <2>1, <2>2, <2>3 DEF EvidenceDated
    <3> QED BY <2>1 DEF Recovered, Never, AlertShape, Dated
  <2> QED BY <2>2, <2>4 DEF RetireInv, NoiseShows, RetiredInSilence
<1>4. CASE RetirementProves
  <2>1. UNCHANGED <<alertFile, runner>> /\ retire.pc \in {"signed", "proved"}
    BY <1>4 DEF RetirementProves
  <2>2. CASE ~LiveProof
    <3>1. retire'.pc = "idle"
      BY <2>2, <1>4 DEF RetirementProves, NoRetirement
    <3> QED BY <3>1 DEF RetireInv, EvidenceDated, NoiseShows, Signed, RetiredInSilence
  <2>3. CASE LiveProof
    <3>1. retire'.evidence = retire.evidence /\ retire'.noisy = retire.noisy /\ retire'.pc \in {"proved", "retired"}
      BY <2>3, <1>4, <1>0 DEF RetirementProves
    <3>2. retire.noisy = FALSE
      <4> SUFFICES ASSUME retire.noisy = TRUE PROVE FALSE
        BY <1>0
      <4>1. PICK d \in Dests : Disproved(d)
        BY <2>1 DEF RetireInv, NoiseShows, Signed
      <4>2. alertFile.receipts[d] = retire.evidence[d] /\ alertFile.receipts[d].healthy <= alertFile.observed
            /\ alertFile.receipts[d].failure < alertFile.receipts[d].healthy
        BY <2>3 DEF LiveProof, Recovered, ValidAlertState
      <4> QED BY <4>1, <4>2, <1>0 DEF Disproved
    <3>3. EvidenceDated'
      BY <2>1, <3>1 DEF RetireInv, EvidenceDated, Signed
    <3> QED BY <3>1, <3>2, <3>3 DEF RetireInv, NoiseShows, RetiredInSilence
  <2> QED BY <2>2, <2>3
<1>5. ASSUME NEW p \in {"event", "reminder"}, NEW s \in Kinds,
             \/ p = "event" /\ EventStarts(s)
             \/ p = "reminder" /\ s = "failure" /\ ReminderStarts
      PROVE  RetireInv'
  <2>1. /\ UNCHANGED <<second, alertFile, retire>>
        /\ p = "event" => runner[p].now < second
        /\ runner'[p] = [pc |-> "waiting", now |-> second, state |-> s, todo |-> {}]
        /\ \A q \in {"event", "reminder"} \ {p} : runner'[q] = runner[q]
    BY <1>5, StartDoes
  <2>2. NoiseShows' /\ RetiredInSilence'
    BY <2>1 DEF RetireInv, NoiseShows, Disproved, RetiredInSilence, Signed
  <2>3. EvidenceDated'
    BY <2>1, <1>0 DEF RetireInv, EvidenceDated, Signed
  <2> QED BY <2>2, <2>3 DEF RetireInv
<1>6. ASSUME NEW p \in {"event", "reminder"},
             \/ DispatchEnds(p)
             \/ \E d \in Dests, b \in BOOLEAN : DispatchKilled(p, d, b)
             \/ Dispatch(p) /\ Inactive(p)
      PROVE  RetireInv'
  <2>1. /\ UNCHANGED <<alertFile, retire>>
        /\ runner'[p] = [pc |-> "idle", now |-> runner[p].now, state |-> "none", todo |-> {}]
        /\ \A q \in {"event", "reminder"} \ {p} : runner'[q] = runner[q]
    BY <1>6, EndDoes
  <2>2. NoiseShows' /\ RetiredInSilence'
    BY <2>1 DEF RetireInv, NoiseShows, Disproved, RetiredInSilence, Signed
  <2>3. EvidenceDated'
    BY <2>1, <1>0 DEF RetireInv, EvidenceDated, Signed
  <2> QED BY <2>2, <2>3 DEF RetireInv
<1>7. ASSUME NEW p \in {"event", "reminder"}, Dispatch(p), ~Inactive(p) PROVE RetireInv'
  <2>1. /\ retire' = retire /\ runner[p].pc = "waiting"
        /\ runner'[p].now = runner[p].now
        /\ \A q \in {"event", "reminder"} \ {p} : runner'[q] = runner[q]
        /\ alertFile'.observed = runner[p].now
    BY <1>7, DispatchDoes
  <2>2. EvidenceDated'
    BY <2>1, <1>0 DEF RetireInv, EvidenceDated, Signed
  <2>3. NoiseShows'
    <3> SUFFICES ASSUME Signed, retire.noisy PROVE \E d \in Dests : Disproved(d)'
      BY <2>1 DEF NoiseShows, Signed
    <3>1. PICK d \in Dests : Disproved(d)
      BY DEF RetireInv, NoiseShows
    <3>2. 0 < retire.evidence[d].healthy
      BY <1>0 DEF RetireInv, EvidenceDated
    <3>3. CASE ValidAlertState(alertFile)
      <4>1. alertFile'.receipts = alertFile.receipts /\ alertFile.receipts[d].healthy <= alertFile.observed
        BY <1>7, <3>3, DispatchDoes DEF ValidAlertState
      <4> QED BY <3>1, <4>1, <2>1, <1>0 DEF Disproved
    <3>4. CASE ~ValidAlertState(alertFile)
      <4>1. alertFile'.receipts[d].healthy = 0
        BY <1>7, <3>4, DispatchDoes
      <4> QED BY <3>2, <4>1, <2>1, <1>0 DEF Disproved
    <3> QED BY <3>3, <3>4
  <2> QED BY <2>1, <2>2, <2>3 DEF RetireInv, RetiredInSilence
<1>8. ASSUME NEW p \in {"event", "reminder"}, NEW d \in Dests, Post(p, d, FALSE) PROVE RetireInv'
  <2>1. /\ UNCHANGED <<alertFile, retire>>
        /\ runner' = [runner EXCEPT ![p] = [runner[p] EXCEPT !.todo = runner[p].todo \ {d}]]
    BY <1>8 DEF Post, AlertShape, LocalTyped
  <2>2. /\ runner'["event"].pc = runner["event"].pc /\ runner'["event"].now = runner["event"].now
        /\ runner'["event"].todo \subseteq runner["event"].todo
    BY <2>1 DEF AlertShape, LocalTyped, Turns
  <2> QED BY <2>1, <2>2 DEF RetireInv, EvidenceDated, NoiseShows, Disproved, RetiredInSilence, Signed
<1>9. ASSUME NEW p \in {"event", "reminder"}, NEW d \in Dests, Post(p, d, TRUE) PROVE RetireInv'
  <2>1. /\ runner[p].pc = "posting" /\ d \in runner[p].todo /\ alertFile'.observed = alertFile.observed
        /\ \A e \in Dests \ {d} : alertFile'.receipts[e] = alertFile.receipts[e]
        /\ runner[p].state = "healthy" =>
             /\ alertFile'.receipts[d].failure = alertFile.receipts[d].failure
             /\ alertFile'.receipts[d].healthy = runner[p].now
        /\ runner[p].state = "failure" =>
             /\ alertFile'.receipts[d].failure = runner[p].now
             /\ alertFile'.receipts[d].healthy = alertFile.receipts[d].healthy
        /\ runner' = [runner EXCEPT ![p] = [runner[p] EXCEPT !.todo = runner[p].todo \ {d}]]
    BY <1>9, PostDelivers
  <2>2. retire' = [retire EXCEPT !.noisy = retire.noisy \/ retire.pc \in {"signed", "proved"}]
    BY <1>9 DEF Post
  <2>3. /\ retire'.pc = retire.pc /\ retire'.evidence = retire.evidence
        /\ retire.pc \notin {"signed", "proved"} => retire'.noisy = retire.noisy
    BY <2>2, <1>0
  <2>4. /\ runner'["event"].pc = runner["event"].pc /\ runner'["event"].now = runner["event"].now
        /\ runner'["event"].todo \subseteq runner["event"].todo
    BY <2>1 DEF AlertShape, LocalTyped, Turns
  <2>5. EvidenceDated'
    BY <2>3, <2>4 DEF RetireInv, EvidenceDated, Signed
  <2>6. RetiredInSilence'
    BY <2>3 DEF RetireInv, RetiredInSilence
  <2>7. ASSUME Signed PROVE Disproved(d)'
    <3>1. alertFile.observed = runner[p].now /\ runner[p].state \in Kinds
      BY <2>1 DEF AlertShape, Posting
    <3>2. CASE runner[p].state = "healthy"
      <4>1. p = "event"
        BY <2>1, <3>2 DEF AlertShape, ReminderFails
      <4>2. retire.evidence[d].healthy < runner[p].now
        BY <2>1, <2>7, <4>1 DEF RetireInv, EvidenceDated
      <4> QED BY <2>1, <2>3, <3>2, <4>2, <1>0 DEF Disproved
    <3>3. CASE runner[p].state = "failure"
      BY <2>1, <2>3, <3>1, <3>3, <1>0 DEF Disproved
    <3> QED BY <3>1, <3>2, <3>3 DEF Kinds
  <2>8. NoiseShows'
    BY <2>3, <2>7 DEF NoiseShows, Signed
  <2> QED BY <2>5, <2>6, <2>8 DEF RetireInv
<1>10. CASE AlertNext
  <2>1. CASE EventStarts("healthy") \/ EventStarts("failure") \/ ReminderStarts
    BY <2>1, <1>5 DEF Kinds
  <2>2. ASSUME NEW p \in {"event", "reminder"}, NEW d \in Dests, NEW b \in BOOLEAN, Post(p, d, b) PROVE RetireInv'
    BY <2>2, <1>8, <1>9
  <2>3. ASSUME NEW p \in {"event", "reminder"}, Dispatch(p) \/ DispatchEnds(p) PROVE RetireInv'
    BY <2>3, <1>6, <1>7
  <2>4. ASSUME NEW p \in {"event", "reminder"}, NEW d \in Dests, NEW b \in BOOLEAN, DispatchKilled(p, d, b) PROVE RetireInv'
    BY <2>4, <1>6
  <2> QED BY <1>10, <1>2, <1>3, <1>4, <2>1, <2>2, <2>3, <2>4 DEF AlertNext
<1> QED BY <1>2, <1>10

\* backup_verify.py: the records of the producer, of which the last is the one judged.
AttemptsTyped == attempts \in Seq({"started", "succeeded", "failed"})

LEMMA AttemptsStep == AttemptsTyped /\ [AlertNext \/ BackupNext]_localVars => AttemptsTyped'
<1> SUFFICES ASSUME AttemptsTyped, [AlertNext \/ BackupNext]_localVars PROVE AttemptsTyped'
  OBVIOUS
<1>1. CASE BackupStarts
  BY <1>1 DEF BackupStarts, AttemptsTyped
<1>2. CASE BackupEnds("succeeded") \/ BackupEnds("failed")
  BY <1>2 DEF BackupEnds, Generation, Running, AttemptsTyped
<1>3. CASE UNCHANGED attempts
  BY <1>3, SMTT(30) DEF AttemptsTyped
<1>4. AlertNext => UNCHANGED attempts
  BY DEF AlertNext, EventStarts, ReminderStarts, AlertTick, SignEvidence, RetirementProves, Dispatch, DispatchEnds, Post,
     DispatchKilled, AlertRest
<1>5. WriteBackupStatus \/ (\E db \in Databases, b \in BOOLEAN : WriteArtifact(db, b)) \/ (\E a \in artifacts : ArtifactLost(a))
        => UNCHANGED attempts
  BY DEF WriteBackupStatus, WriteArtifact, ArtifactLost
<1> QED BY <1>1, <1>2, <1>3, <1>4, <1>5 DEF BackupNext, localVars

LEMMA GreenWhenLatest == AttemptsTyped => GreenIsLatest
<1> SUFFICES ASSUME AttemptsTyped, BackupVerdict = "ok"
             PROVE  /\ Last(attempts) = "succeeded" /\ backupId = Generation
                    /\ \A db \in Databases : <<db, Generation, TRUE>> \in artifacts
  BY DEF GreenIsLatest
<1> DEFINE k == Len(attempts)
<1>0. k \in Nat
  BY DEF AttemptsTyped
<1>1. k \in Nat /\ k # 0
  BY <1>0 DEF BackupVerdict, LatestAttempt
<1>2. attempts[k] \in {"started", "succeeded", "failed"}
  BY <1>1 DEF AttemptsTyped
<1>3. attempts[k] # "started" /\ attempts[k] # "failed"
  BY <1>1 DEF BackupVerdict, LatestAttempt
<1>4. MetadataOf(k) = "ok"
  BY <1>1, <1>3 DEF BackupVerdict, LatestAttempt
<1>5. backupId = k
  BY <1>1, <1>4 DEF MetadataOf
<1>6. \A db \in Databases : <<db, backupId, TRUE>> \in artifacts
  BY <1>1, <1>3, <1>4 DEF BackupVerdict, LatestAttempt
<1> QED BY <1>2, <1>3, <1>5, <1>6 DEF Last, Generation

\* alert_dispatch.py, legacy_retirement.py and backup_verify.py: with any destinations and any
\* failures, kills and waiting reminders, outages and recoveries are told, the legacy monitor
\* is retired in silence only, and a green backup is the latest one and whole.
THEOREM MonitorAlwaysHonest == LocalSpec => []MonitorHonest
<1>1. LocalInit => AttemptsTyped
  BY DEF LocalInit, AttemptsTyped
<1>2. AlertShape /\ AlertTold /\ RetireInv /\ AttemptsTyped => MonitorHonest
  <2> SUFFICES ASSUME AlertShape, AlertTold, RetireInv, AttemptsTyped PROVE MonitorHonest
    OBVIOUS
  <2>1. OutageTold /\ RecoveryRetried
    BY DEF AlertTold, OutageInTelling, RecoveryInTelling, Todo, OutageTold, RecoveryRetried
  <2> QED BY <2>1, GreenWhenLatest DEF MonitorHonest, RetireInv
<1> QED BY <1>1, <1>2, AlertInit, ShapeStep, ToldStep, RetireStep, AttemptsStep, PTL DEF LocalSpec

(***************************************************************************)
(* The external monitor                                                    *)
(***************************************************************************)
\* The canary: what may still come late was reported when the client gave up.
CanaryInv ==
  /\ signup \in [pc : {"idle", "org", "cleanup", "done"}, account : BOOLEAN, late : BOOLEAN, ok : BOOLEAN, reported : BOOLEAN]
  /\ signup.late => signup.reported
  /\ CanaryResidueReported

\* What a check has read.
ReadingTyped ==
  \/ reading = NoReading
  \/ /\ reading.kind = "outbox" /\ reading.pending \in 0 .. 2 /\ reading.oldest \in 0 .. 2
     /\ reading.fate \in {"answered", "probe_timeout", "probe_unavailable"}
  \/ /\ reading.kind = "page"
     /\ \E x, y \in Polls : reading.attempts = <<x, y>>

LEMMA CanaryStep == CanaryInv /\ [MonNext \/ CanaryNext \/ TakeReading]_monVars => CanaryInv'
<1> SUFFICES ASSUME CanaryInv, [MonNext \/ CanaryNext \/ TakeReading]_monVars PROVE CanaryInv'
  OBVIOUS
<1>1. CASE UNCHANGED signup
  BY <1>1 DEF CanaryInv, CanaryResidueReported
<1>2. CASE MonNext \/ TakeReading \/ UNCHANGED monVars
  BY <1>1, <1>2 DEF MonNext, TakeReading, monVars
<1>3. ASSUME NEW a \in BOOLEAN, CanaryRegisters(a) PROVE CanaryInv'
  BY <1>3 DEF CanaryRegisters, NoSignup, CanaryInv, CanaryResidueReported
<1>4. ASSUME NEW a \in BOOLEAN, NEW b \in BOOLEAN, NEW c \in BOOLEAN, CanaryJoins(a, b, c) PROVE CanaryInv'
  BY <1>4 DEF CanaryJoins, CanaryInv, CanaryResidueReported
<1>5. ASSUME NEW a \in BOOLEAN, NEW b \in BOOLEAN, CanaryCleans(a, b) PROVE CanaryInv'
  BY <1>5 DEF CanaryCleans, CleanupError, CanaryInv, CanaryResidueReported
<1>6. CASE CanaryCommitsLate
  <2>1. signup.late = TRUE /\ signup' = [signup EXCEPT !.late = FALSE, !.account = TRUE]
    BY <1>6 DEF CanaryCommitsLate, CanaryInv
  <2>2. signup.reported = TRUE
    BY <2>1 DEF CanaryInv
  <2> QED BY <2>1, <2>2 DEF CanaryInv, CanaryResidueReported
<1>7. CASE CanaryAgain
  BY <1>7 DEF CanaryAgain, NoSignup, CanaryInv, CanaryResidueReported
<1> QED BY <1>2, <1>3, <1>4, <1>5, <1>6, <1>7 DEF CanaryNext

LEMMA ReadingStep == ReadingTyped /\ [MonNext \/ CanaryNext \/ TakeReading]_monVars => ReadingTyped'
<1> SUFFICES ASSUME ReadingTyped, [MonNext \/ CanaryNext \/ TakeReading]_monVars PROVE ReadingTyped'
  OBVIOUS
<1>1. CASE UNCHANGED reading
  BY <1>1, SMTT(30) DEF ReadingTyped
<1>2. CASE MonNext \/ CanaryNext \/ UNCHANGED monVars
  BY <1>1, <1>2 DEF MonNext, CanaryNext, CanaryRegisters, CanaryJoins, CanaryCleans, CanaryCommitsLate, CanaryAgain,
     besideCanary, monVars
<1>3. CASE TakeReading
  BY <1>3 DEF TakeReading, ReadingTyped
<1> QED BY <1>2, <1>3

\* A first page with forbidden text decides the attempt.
LEMMA ForbiddenDecides ==
  ASSUME NEW x \in Polls, x # <<>>, Head(x) = "forbidden" PROVE AttemptOutcome(x) = "failed"
<1> DEFINE ends == {k \in DOMAIN x : x[k] \in {"clean", "checkpoint", "forbidden"}}
           first == CHOOSE k \in ends : \A j \in ends : k <= j
<1>1. PICK n \in 0 .. 2 : x \in [1 .. n -> {"clean", "checkpoint", "forbidden", "partial"}]
  BY DEF Polls
<1>2. x \in Seq({"clean", "checkpoint", "forbidden", "partial"}) /\ n # 0
  BY <1>1
<1>3. DOMAIN x = 1 .. n /\ x[1] = "forbidden"
  BY <1>1, <1>2
<1>4. 1 \in ends /\ \A k \in ends : k \in Nat /\ 1 <= k
  BY <1>2, <1>3
<1>5. first \in ends /\ \A j \in ends : first <= j
  BY <1>4
<1>6. first = 1
  BY <1>4, <1>5
<1> QED BY <1>3, <1>6, <1>4 DEF AttemptOutcome

LEMMA ReadingReports == ReadingTyped => OutboxVerdictTrue /\ ForbiddenTextReported
<1> SUFFICES ASSUME ReadingTyped PROVE OutboxVerdictTrue /\ ForbiddenTextReported
  OBVIOUS
<1>1. OutboxVerdictTrue
  BY DEF ReadingTyped, NoReading, OutboxVerdictTrue, OutboxVerdict, ProbeCode, Breached, OutboxMaxPending, OutboxMaxAge
<1>2. ForbiddenTextReported
  <2> SUFFICES ASSUME reading.kind = "page",
                      \A k \in DOMAIN reading.attempts : reading.attempts[k] # <<>> /\ Head(reading.attempts[k]) = "forbidden"
               PROVE  PageError(reading.attempts)
    BY DEF ForbiddenTextReported
  <2>1. PICK x \in Polls, y \in Polls : reading.attempts = <<x, y>>
    BY DEF ReadingTyped, NoReading
  <2>2. \A k \in DOMAIN reading.attempts : reading.attempts[k] \in Polls
    BY <2>1
  <2>3. \A k \in DOMAIN reading.attempts : AttemptOutcome(reading.attempts[k]) = "failed"
    BY <2>2, ForbiddenDecides
  <2> QED BY <2>3 DEF PageError
<1> QED BY <1>1, <1>2

\* verdaxis_monitor.py: what the canary leaves behind, at once or late, a backlog and forbidden
\* text are always among the errors of the run.
THEOREM ProbesAlwaysReport == ExternalSpec => []ProbesReport
<1>1. MonInit => CanaryInv /\ ReadingTyped
  BY DEF MonInit, CanaryInv, CanaryResidueReported, NoSignup, ReadingTyped
<1>2. CanaryInv /\ ReadingTyped => ProbesReport
  BY ReadingReports DEF CanaryInv, ProbesReport
<1> QED BY <1>1, <1>2, CanaryStep, ReadingStep, PTL DEF ExternalSpec

\* The attempt at the watched failure is the one on file.
TriedOnFile ==
  /\ attempt.age \in Nat /\ tried.age \in Nat
  /\ attempt = [fp |-> attempt.fp, age |-> attempt.age] /\ tried = [last |-> tried.last, age |-> tried.age]
  /\ tried.last => attempt.fp = WatchedFault /\ attempt.age = tried.age

LEMMA TriedStep ==
  ASSUME TriedOnFile, [MonNext \/ CanaryNext \/ TakeReading]_monVars
  PROVE  /\ TriedOnFile'
         /\ tried.last /\ tried'.last /\ tried'.age = 0 => tried.age = 0 \/ tried.age >= Cooldown
<1>1. CASE UNCHANGED <<attempt, tried>>
  BY <1>1, SMTT(30) DEF TriedOnFile
<1>2. CASE CanaryNext \/ TakeReading \/ UNCHANGED monVars
  BY <1>1, <1>2 DEF CanaryNext, CanaryRegisters, CanaryJoins, CanaryCleans, CanaryCommitsLate, CanaryAgain,
     besideCanary, TakeReading, monVars
<1>3. CASE MonitorTick
  <2>1. attempt'.fp = attempt.fp /\ attempt'.age = Older(attempt.age) /\ tried'.last = tried.last /\ tried'.age = Older(tried.age)
        /\ attempt' = [fp |-> attempt'.fp, age |-> attempt'.age] /\ tried' = [last |-> tried'.last, age |-> tried'.age]
    BY <1>3 DEF MonitorTick, TriedOnFile
  <2>2. \A a \in Nat : Older(a) \in Nat /\ (Older(a) = 0 => a = 0)
    BY MonitorAssumption DEF Older
  <2> QED BY <2>1, <2>2 DEF TriedOnFile
<1>4. CASE RecoverBegin
  <2> DEFINE fp == statusFile.errors
  <2>1. CASE fp = {} \/ (attempt.fp = fp /\ attempt.age < Cooldown)
    BY <1>1, <1>4, <2>1 DEF RecoverBegin
  <2>2. CASE ~(fp = {} \/ (attempt.fp = fp /\ attempt.age < Cooldown))
    <3>1. attempt' = [fp |-> fp, age |-> 0] /\ tried' = Tried(fp)
      BY <1>4, <2>2 DEF RecoverBegin
    <3>2. CASE fp = WatchedFault
      BY <3>1, <3>2, <2>2, MonitorAssumption DEF Tried, TriedOnFile
    <3>3. CASE fp # WatchedFault
      BY <3>1, <3>3 DEF Tried, TriedOnFile
    <3> QED BY <3>2, <3>3
  <2> QED BY <2>1, <2>2
<1>5. ASSUME MonNext, ~MonitorTick, ~RecoverBegin PROVE UNCHANGED <<attempt, tried>>
  BY <1>5 DEF MonNext, MonitorRun, RecoverNext, ApiPassedOver, RestartApi, RecoverCaddy, RecoverBackup, RecoverVerify, RecoverCrash,
     Diagnose, DeployBegins, DeployEnds, Breaks, Repaired, World, Elsewhere
<1> QED BY <1>1, <1>2, <1>3, <1>4, <1>5

\* verdaxis_recover.py: whatever kills the recovery, and whenever, the failure it tried last is
\* not tried again within the cooldown.
THEOREM RecoveryNeverThrashes == ExternalSpec => SameFaultOnce
<1>1. MonInit => TriedOnFile
  BY MonitorAssumption DEF MonInit, TriedOnFile
<1>2. TriedOnFile /\ [MonNext \/ CanaryNext \/ TakeReading]_monVars => TriedOnFile'
  BY TriedStep
<1>3. TriedOnFile /\ [MonNext \/ CanaryNext \/ TakeReading]_monVars
        => [tried.last /\ tried'.last /\ tried'.age = 0 => tried.age = 0 \/ tried.age >= Cooldown]_<<tried, recover>>
  BY TriedStep
<1> QED BY <1>1, <1>2, <1>3, PTL DEF ExternalSpec, SameFaultOnce

(***************************************************************************)
(* Authorization of private streams                                        *)
(***************************************************************************)
\* A stream waits no longer than to its next revalidation, which is at most one period away,
\* and at most one period after its authorization was lost.
AccessInv ==
  /\ now \in Nat \ {0} /\ lapse \in [Streams -> Nat] /\ DOMAIN conn = Streams
  /\ \A s \in Streams :
       /\ conn[s] = [phase |-> conn[s].phase, iat |-> conn[s].iat, org |-> conn[s].org, next |-> conn[s].next, until |-> conn[s].until]
       /\ conn[s].next \in Int /\ conn[s].until \in Int /\ conn[s].iat \in Int
       /\ conn[s].until # Idle => conn[s].until <= conn[s].next
       /\ conn[s].next <= now + Revalidation
       /\ lapse[s] # 0 => /\ ~StreamAuthorized(conn[s])
                          /\ conn[s].next <= lapse[s] + Revalidation

LEMMA AccessInvInit == AccessInit => AccessInv
  BY StreamConstants DEF AccessInit, AccessInv, Closed, Idle

\* What a step does to one connection: it stays, is replaced by a closed or a new one, stops
\* waiting, or waits for its next revalidation, found authorized unless that is still ahead.
ConnMoves(c, n) ==
  \/ n = c
  \/ n = [c EXCEPT !.until = Idle]
  \/ n = [c EXCEPT !.phase = "open"]
  \/ n.phase # "open" /\ n.next = 0 /\ n.until = Idle /\ n.iat \in Int
     /\ n = [phase |-> n.phase, iat |-> n.iat, org |-> n.org, next |-> n.next, until |-> n.until]
  \/ /\ n = [c EXCEPT !.next = n.next, !.until = n.until]
     /\ n.next = c.next \/ (StreamAuthorized(c) /\ n.next = now + Revalidation)
     /\ n.until \in Int /\ n.until <= n.next
LEMMA ConnectionMoves ==
  ASSUME AccessInv, AccessStep, NEW s \in Streams
  PROVE  ConnMoves(conn[s], conn'[s]) /\ DOMAIN conn' = Streams
<1> USE DEF AccessInv
<1>1. CASE UNCHANGED conn
  BY <1>1 DEF ConnMoves
<1>2. ASSUME NEW t \in Streams, IssueStreamToken(t) PROVE ConnMoves(conn[s], conn'[s]) /\ DOMAIN conn' = Streams
  <2>1. conn' = [conn EXCEPT ![t] = [phase |-> "token", iat |-> now, org |-> user.org, next |-> 0, until |-> Idle]]
    <3> DEFINE c == [phase |-> "closed", iat |-> 0, org |-> NoOrg, next |-> 0, until |-> Idle]
    <3>1. ASSUME NEW x, NEW y
          PROVE  [c EXCEPT !.phase = "token", !.iat = x, !.org = y] = [phase |-> "token", iat |-> x, org |-> y, next |-> 0, until |-> Idle]
      <4>1. [c EXCEPT !.phase = "token"] = [phase |-> "token", iat |-> 0, org |-> NoOrg, next |-> 0, until |-> Idle]
        OBVIOUS
      <4>2. [[phase |-> "token", iat |-> 0, org |-> NoOrg, next |-> 0, until |-> Idle] EXCEPT !.iat = x]
              = [phase |-> "token", iat |-> x, org |-> NoOrg, next |-> 0, until |-> Idle]
        OBVIOUS
      <4>3. [[phase |-> "token", iat |-> x, org |-> NoOrg, next |-> 0, until |-> Idle] EXCEPT !.org = y]
              = [phase |-> "token", iat |-> x, org |-> y, next |-> 0, until |-> Idle]
        OBVIOUS
      <4> QED BY <4>1, <4>2, <4>3
    <3>2. Closed = c
      BY DEF Closed
    <3>3. conn' = [conn EXCEPT ![t] = [c EXCEPT !.phase = "token", !.iat = now, !.org = user.org]]
      BY <1>2, <3>2 DEF IssueStreamToken
    <3> HIDE DEF c
    <3> QED BY <3>1, <3>3
  <2> QED BY <2>1 DEF ConnMoves, Idle
<1>3. ASSUME NEW t \in Streams, conn' = [conn EXCEPT ![t] = Closed] PROVE ConnMoves(conn[s], conn'[s]) /\ DOMAIN conn' = Streams
  BY <1>3 DEF ConnMoves, Closed, Idle
<1>4. ASSUME NEW t \in Streams, StreamTrades(t) PROVE ConnMoves(conn[s], conn'[s]) /\ DOMAIN conn' = Streams
  BY <1>3, <1>4 DEF StreamTrades, ConnMoves
<1>5. ASSUME NEW t \in Streams, YieldFrame(t) \/ Keepalive(t) PROVE ConnMoves(conn[s], conn'[s]) /\ DOMAIN conn' = Streams
  BY <1>5 DEF YieldFrame, Keepalive, ConnMoves
<1>6. ASSUME NEW t \in Streams, ControlFrame(t) PROVE ConnMoves(conn[s], conn'[s]) /\ DOMAIN conn' = Streams
  <2> DEFINE c == [conn[t] EXCEPT !.next = IF now < conn[t].next THEN conn[t].next ELSE now + Revalidation]
  <2>1. CASE conn' = [conn EXCEPT ![t] = Closed]
    BY <2>1, <1>3
  <2>2. CASE /\ now < conn[t].next \/ StreamAuthorized(conn[t])
             /\ conn' = [conn EXCEPT ![t] = [c EXCEPT !.until = WaitUntil(c)]]
    <3>1. /\ c.next \in Int /\ c.iat = conn[t].iat /\ WaitUntil(c) \in Int /\ WaitUntil(c) <= c.next
          /\ c.next = conn[t].next \/ (StreamAuthorized(conn[t]) /\ c.next = now + Revalidation)
      BY <2>2, StreamConstants DEF WaitUntil, Earlier, Expiry
    <3>2. [c EXCEPT !.until = WaitUntil(c)] = [conn[t] EXCEPT !.next = c.next, !.until = WaitUntil(c)]
      OBVIOUS
    <3> HIDE DEF c
    <3>3. conn'[t] = [conn[t] EXCEPT !.next = c.next, !.until = WaitUntil(c)] /\ (s # t => conn'[s] = conn[s]) /\ DOMAIN conn' = Streams
      BY <2>2, <3>2
    <3>4. conn'[t].next = c.next /\ conn'[t].until = WaitUntil(c)
      BY <3>3
    <3> QED BY <3>1, <3>3, <3>4, ZenonT(40) DEF ConnMoves
  <2> QED BY <1>6, <2>1, <2>2 DEF ControlFrame
<1>7. ASSUME NEW t \in Streams, Disconnect(t) PROVE ConnMoves(conn[s], conn'[s]) /\ DOMAIN conn' = Streams
  BY <1>3, <1>7 DEF Disconnect
<1>8. Passes \/ RejectStreamUser \/ ReadmitStreamUser \/ ChangeStreamPassword
       \/ (\E o \in StreamOrgs : RejectStreamOrganization(o) \/ ApproveStreamOrganization(o) \/ JoinStreamOrganization(o))
      => UNCHANGED conn
  BY DEF Passes, RejectStreamUser, ReadmitStreamUser, ChangeStreamPassword, RejectStreamOrganization, ApproveStreamOrganization,
     JoinStreamOrganization
<1> QED BY <1>1, <1>2, <1>4, <1>5, <1>6, <1>7, <1>8 DEF AccessStep

LEMMA AccessInvStep == AccessInv /\ [AccessNext]_accessVars => AccessInv'
<1> SUFFICES ASSUME AccessInv, [AccessNext]_accessVars PROVE AccessInv'
  OBVIOUS
<1>1. CASE UNCHANGED accessVars
  BY <1>1 DEF AccessInv, accessVars, StreamAuthorized
<1>2. CASE AccessNext
  <2>1. now' \in Nat \ {0} /\ now <= now'
    <3>1. now \in Nat \ {0} /\ (Passes => now' = now + 1)
      BY DEF AccessInv, Passes
    <3>2. AccessStep /\ ~Passes => now' = now
      BY DEF AccessStep, RejectStreamUser, ReadmitStreamUser, ChangeStreamPassword,
         RejectStreamOrganization, ApproveStreamOrganization, JoinStreamOrganization, IssueStreamToken, StreamTrades, ControlFrame,
         YieldFrame, Keepalive, Disconnect
    <3> QED BY <1>2, <3>1, <3>2 DEF AccessNext
  <2>2. /\ lapse' = [s \in Streams |->
              IF conn'[s].phase # "open" \/ StreamAuthorized(conn[s])' THEN 0
              ELSE IF lapse[s] = 0 THEN now' ELSE lapse[s]]
        /\ lapse' \in [Streams -> Nat]
    BY <1>2, <2>1 DEF AccessNext, TrackLapse, AccessInv
  <2>3. ASSUME NEW s \in Streams
        PROVE  /\ conn'[s] = [phase |-> conn'[s].phase, iat |-> conn'[s].iat, org |-> conn'[s].org,
                              next |-> conn'[s].next, until |-> conn'[s].until]
               /\ conn'[s].next \in Int /\ conn'[s].until \in Int /\ conn'[s].iat \in Int
               /\ conn'[s].until # Idle => conn'[s].until <= conn'[s].next
               /\ conn'[s].next <= now' + Revalidation
               /\ lapse'[s] # 0 => /\ ~StreamAuthorized(conn[s])'
                                   /\ conn'[s].next <= lapse'[s] + Revalidation
    <3>1. ConnMoves(conn[s], conn'[s])
      BY <1>2, ConnectionMoves DEF AccessNext
    <3>2. /\ conn[s] = [phase |-> conn[s].phase, iat |-> conn[s].iat, org |-> conn[s].org, next |-> conn[s].next, until |-> conn[s].until]
          /\ conn[s].next \in Int /\ conn[s].until \in Int /\ conn[s].iat \in Int
          /\ conn[s].until # Idle => conn[s].until <= conn[s].next
          /\ conn[s].next <= now + Revalidation
          /\ lapse[s] # 0 => ~StreamAuthorized(conn[s]) /\ conn[s].next <= lapse[s] + Revalidation
          /\ now \in Nat /\ lapse[s] \in Nat
      BY DEF AccessInv
    <3>3. /\ conn'[s] = [phase |-> conn'[s].phase, iat |-> conn'[s].iat, org |-> conn'[s].org,
                              next |-> conn'[s].next, until |-> conn'[s].until]
          /\ conn'[s].next \in Int /\ conn'[s].until \in Int /\ conn'[s].iat \in Int
          /\ conn'[s].until # Idle => conn'[s].until <= conn'[s].next
          /\ conn'[s].phase = "open" =>
               conn'[s].next = conn[s].next \/ (StreamAuthorized(conn[s]) /\ conn'[s].next = now + Revalidation)
          /\ conn'[s].next \in {conn[s].next, now + Revalidation, 0}
      <4>1. CASE conn'[s] = conn[s]
        BY <4>1, <3>2
      <4>2. CASE conn'[s] = [conn[s] EXCEPT !.until = Idle] \/ conn'[s] = [conn[s] EXCEPT !.phase = "open"]
        BY <4>2, <3>2 DEF Idle
      <4>3. CASE conn'[s].phase # "open" /\ conn'[s].next = 0 /\ conn'[s].until = Idle /\ conn'[s].iat \in Int
                 /\ conn'[s] = [phase |-> conn'[s].phase, iat |-> conn'[s].iat, org |-> conn'[s].org,
                                next |-> conn'[s].next, until |-> conn'[s].until]
        BY <4>3 DEF Idle
      <4>4. CASE /\ conn'[s] = [conn[s] EXCEPT !.next = conn'[s].next, !.until = conn'[s].until]
                 /\ conn'[s].next = conn[s].next \/ (StreamAuthorized(conn[s]) /\ conn'[s].next = now + Revalidation)
                 /\ conn'[s].until \in Int /\ conn'[s].until <= conn'[s].next
        <5>1. conn'[s].next \in Int
          BY <4>4, <3>2, StreamConstants
        <5>2. conn'[s].iat = conn[s].iat /\ conn'[s] = [phase |-> conn[s].phase, iat |-> conn[s].iat, org |-> conn[s].org,
                                next |-> conn'[s].next, until |-> conn'[s].until]
          BY <4>4, <3>2
        <5>3. conn'[s].phase = conn[s].phase /\ conn'[s].org = conn[s].org
          BY <5>2
        <5> QED BY <4>4, <5>1, <5>2, <5>3, <3>2
      <4> QED BY <3>1, <4>1, <4>2, <4>3, <4>4 DEF ConnMoves
    <3>4. conn'[s].next <= now' + Revalidation
      BY <2>1, <3>2, <3>3, StreamConstants
    <3>5. ASSUME lapse'[s] # 0
          PROVE  ~StreamAuthorized(conn[s])' /\ conn'[s].next <= lapse'[s] + Revalidation
      <4>1. conn'[s].phase = "open" /\ ~StreamAuthorized(conn[s])' /\ lapse'[s] = (IF lapse[s] = 0 THEN now' ELSE lapse[s])
        BY <2>2, <3>5
      <4>2. CASE lapse[s] = 0
        BY <4>1, <4>2, <3>4
      <4>3. CASE lapse[s] # 0
        BY <4>1, <4>3, <3>2, <3>3
      <4> QED BY <4>2, <4>3
    <3> QED BY <3>3, <3>4, <3>5
  <2>4. DOMAIN conn' = Streams
    <3>1. CASE Streams = {}
      BY <1>2, <3>1 DEF AccessNext, AccessStep, AccessInv, Passes, RejectStreamUser, ReadmitStreamUser, ChangeStreamPassword,
         RejectStreamOrganization, ApproveStreamOrganization, JoinStreamOrganization
    <3>2. CASE Streams # {}
      BY <1>2, <3>2, ConnectionMoves DEF AccessNext
    <3> QED BY <3>1, <3>2
  <2> QED BY <2>1, <2>2, <2>3, <2>4 DEF AccessInv
<1> QED BY <1>1, <1>2

\* stream.py: however account, organization and connections change, no frame reaches a stream
\* later than one revalidation period after its authorization was lost.
THEOREM StaleStreamsSilent == AccessSpec => StreamStaleness
<1>1. AccessInv /\ [AccessNext]_accessVars
        => [\A s \in Streams : YieldFrame(s) => lapse[s] = 0 \/ now - lapse[s] <= Revalidation]_accessVars
  <2> SUFFICES ASSUME AccessInv, NEW s \in Streams, YieldFrame(s), lapse[s] # 0 PROVE now - lapse[s] <= Revalidation
    OBVIOUS
  <2>1. now <= conn[s].until /\ conn[s].until <= conn[s].next /\ conn[s].next <= lapse[s] + Revalidation
    BY DEF AccessInv, YieldFrame
  <2>2. now \in Int /\ conn[s].until \in Int /\ conn[s].next \in Int /\ lapse[s] \in Int
    BY DEF AccessInv
  <2> QED BY <2>1, <2>2, StreamConstants
<1> QED BY <1>1, AccessInvInit, AccessInvStep, PTL DEF AccessSpec, StreamStaleness

(***************************************************************************)
(* Providers: the threads of Gemini calls                                  *)
(***************************************************************************)
CallRecords == [thread : {"none", "queued", "running", "ended"},
                caller : {"none", "waiting", "busy", "answered", "unavailable", "cancelled"},
                deadline : Nat, until : Nat]

CallTyped == callTime \in Nat /\ freeSlots \in Int /\ geminiCall \in [Calls -> CallRecords]

\* Every slot that is not free has its thread.
SlotsInv == IsFiniteSet(Occupied) /\ freeSlots = CallLimit - Cardinality(Occupied)

\* A thread works within its attempts, and those within the deadline.
DeadlineInv ==
  \A c \in Calls : geminiCall[c].thread = "running" =>
    callTime <= geminiCall[c].until /\ geminiCall[c].until <= geminiCall[c].deadline

GeminiInv == CallTyped /\ SlotsInv /\ DeadlineInv

\* Two attempts and the delay fit in what is left of the budget (_request_options).
LEMMA AttemptsFit ==
  ASSUME NEW left \in Int, AttemptTimeout(left) >= 1
  PROVE  2 * AttemptTimeout(left) + 1 <= left /\ AttemptTimeout(left) \in Nat
BY DEF AttemptTimeout

\* A call that leaves or joins the threads moves one slot (ProviderCapacity).
LEMMA SlotMoves ==
  ASSUME GeminiInv, NEW c \in Calls, NEW call \in CallRecords,
         geminiCall' = [geminiCall EXCEPT ![c] = call],
         freeSlots' = freeSlots + (IF c \in Occupied THEN 1 ELSE 0)
                                - (IF call.thread \in {"queued", "running"} THEN 1 ELSE 0)
  PROVE  SlotsInv'
<1>1. IsFiniteSet(Occupied) /\ Cardinality(Occupied) \in Nat
  BY FS_CardinalityType DEF GeminiInv, SlotsInv
<1>2. /\ IsFiniteSet(Occupied \ {c})
      /\ Cardinality(Occupied \ {c}) = Cardinality(Occupied) - (IF c \in Occupied THEN 1 ELSE 0)
  BY <1>1, FS_RemoveElement
<1>3. /\ IsFiniteSet((Occupied \ {c}) \cup {c})
      /\ Cardinality((Occupied \ {c}) \cup {c}) = Cardinality(Occupied \ {c}) + 1
  BY <1>2, FS_AddElement
<1>4. Occupied' = IF call.thread \in {"queued", "running"} THEN (Occupied \ {c}) \cup {c} ELSE Occupied \ {c}
  BY DEF Occupied, GeminiInv, CallTyped
<1>5. CallLimit \in Nat
  BY ProviderAssumption
<1> QED BY <1>1, <1>2, <1>3, <1>4, <1>5 DEF GeminiInv, SlotsInv, CallTyped

\* One call changes and keeps its attempts within its deadline.
LEMMA CallMoves ==
  ASSUME GeminiInv, NEW c \in Calls, NEW call \in CallRecords,
         geminiCall' = [geminiCall EXCEPT ![c] = call], callTime' = callTime,
         freeSlots' = freeSlots + (IF c \in Occupied THEN 1 ELSE 0)
                                - (IF call.thread \in {"queued", "running"} THEN 1 ELSE 0),
         call.thread = "running" => callTime <= call.until /\ call.until <= call.deadline
  PROVE  GeminiInv'
<1>1. SlotsInv'
  BY SlotMoves
<1>2. CallTyped'
  BY DEF GeminiInv, CallTyped
<1>3. DeadlineInv'
  BY DEF GeminiInv, CallTyped, DeadlineInv
<1> QED BY <1>1, <1>2, <1>3 DEF GeminiInv

LEMMA GeminiStep == GeminiInv /\ GeminiNext => GeminiInv'
<1> SUFFICES ASSUME GeminiInv, GeminiNext PROVE GeminiInv'
  OBVIOUS
<1>1. \A c \in Calls : geminiCall[c] \in CallRecords
  BY DEF GeminiInv, CallTyped
<1>2. callTime \in Nat /\ freeSlots \in Int /\ CallBudget \in Nat
  BY ProviderAssumption DEF GeminiInv, CallTyped
<1>3. ASSUME NEW c \in Calls, BeginCall(c) PROVE GeminiInv'
  <2>1. geminiCall[c].thread = "none" /\ c \notin Occupied /\ callTime' = callTime
    BY <1>3 DEF BeginCall, Occupied
  <2>2. CASE freeSlots > 0
    <3> DEFINE call == [thread |-> "queued", caller |-> "waiting", deadline |-> callTime + CallBudget, until |-> 0]
    <3>1. geminiCall' = [geminiCall EXCEPT ![c] = call] /\ freeSlots' = freeSlots - 1
      BY <1>3, <2>2 DEF BeginCall
    <3>2. call \in CallRecords /\ call.thread = "queued"
      BY <1>2 DEF CallRecords
    <3> HIDE DEF call
    <3>3. freeSlots' = freeSlots + (IF c \in Occupied THEN 1 ELSE 0)
                                 - (IF call.thread \in {"queued", "running"} THEN 1 ELSE 0)
      BY <1>2, <2>1, <3>1, <3>2
    <3> QED BY <2>1, <3>1, <3>2, <3>3, CallMoves
  <2>3. CASE ~(freeSlots > 0)
    <3> DEFINE call == [geminiCall[c] EXCEPT !.caller = "busy"]
    <3>1. geminiCall' = [geminiCall EXCEPT ![c] = call] /\ freeSlots' = freeSlots
      BY <1>3, <2>3 DEF BeginCall, GeminiInv, CallTyped
    <3>2. call \in CallRecords /\ call.thread = "none"
      BY <1>1, <2>1 DEF CallRecords
    <3> HIDE DEF call
    <3>3. freeSlots' = freeSlots + (IF c \in Occupied THEN 1 ELSE 0)
                                 - (IF call.thread \in {"queued", "running"} THEN 1 ELSE 0)
      BY <1>2, <2>1, <3>1, <3>2
    <3> QED BY <2>1, <3>1, <3>2, <3>3, CallMoves
  <2> QED BY <2>2, <2>3
<1>4. ASSUME NEW c \in Calls, c \in Occupied, callTime' = callTime,
             NEW outcome \in {"answered", "unavailable"}, ThreadEnds(c, outcome)
      PROVE  GeminiInv'
  <2> DEFINE caller == IF geminiCall[c].caller = "waiting" THEN outcome ELSE geminiCall[c].caller
             call == [geminiCall[c] EXCEPT !.thread = "ended", !.caller = caller]
  <2>1. geminiCall' = [geminiCall EXCEPT ![c] = call] /\ freeSlots' = freeSlots + 1
    BY <1>4 DEF ThreadEnds, GeminiInv, CallTyped
  <2>2. caller \in {"none", "waiting", "busy", "answered", "unavailable", "cancelled"}
    BY <1>1 DEF CallRecords
  <2> HIDE DEF caller
  <2>3. call \in CallRecords /\ call.thread = "ended"
    BY <1>1, <2>2 DEF CallRecords
  <2> HIDE DEF call
  <2>4. freeSlots' = freeSlots + (IF c \in Occupied THEN 1 ELSE 0)
                               - (IF call.thread \in {"queued", "running"} THEN 1 ELSE 0)
    BY <1>2, <1>4, <2>1, <2>3
  <2> QED BY <1>4, <2>1, <2>3, <2>4, CallMoves
<1>5. ASSUME NEW c \in Calls, NEW stage \in {"queued", "running"}, Attempts(c, stage) PROVE GeminiInv'
  <2> DEFINE left == geminiCall[c].deadline - callTime
  <2>1. geminiCall[c].thread = stage /\ c \in Occupied /\ callTime' = callTime /\ left \in Int
    BY <1>1, <1>2, <1>5 DEF Attempts, Occupied, CallRecords
  <2>2. CASE AttemptTimeout(left) >= 1
    <3> DEFINE until == callTime + 2 * AttemptTimeout(left) + 1
               call == [geminiCall[c] EXCEPT !.thread = "running", !.until = until]
    <3>1. geminiCall' = [geminiCall EXCEPT ![c] = call] /\ freeSlots' = freeSlots
      BY <1>5, <2>2 DEF Attempts, GeminiInv, CallTyped
    <3>2. until \in Nat /\ callTime <= until /\ until <= geminiCall[c].deadline
      <4>1. AttemptTimeout(left) \in Nat /\ 2 * AttemptTimeout(left) + 1 <= left
        BY <2>1, <2>2, AttemptsFit
      <4>2. geminiCall[c].deadline \in Nat
        BY <1>1 DEF CallRecords
      <4> HIDE DEF AttemptTimeout
      <4> QED BY <1>2, <4>1, <4>2
    <3> HIDE DEF until
    <3>3. call \in CallRecords /\ call.thread = "running" /\ call.until = until /\ call.deadline = geminiCall[c].deadline
      BY <1>1, <3>2 DEF CallRecords
    <3> HIDE DEF call
    <3>4. freeSlots' = freeSlots + (IF c \in Occupied THEN 1 ELSE 0)
                                 - (IF call.thread \in {"queued", "running"} THEN 1 ELSE 0)
      BY <1>2, <2>1, <3>1, <3>3
    <3> QED BY <2>1, <3>1, <3>2, <3>3, <3>4, CallMoves
  <2>3. CASE ~(AttemptTimeout(left) >= 1)
    <3>1. ThreadEnds(c, "unavailable")
      BY <1>5, <2>3 DEF Attempts
    <3> QED BY <1>4, <2>1, <3>1
  <2> QED BY <2>2, <2>3
<1>6. ASSUME NEW c \in Calls, Returns(c) PROVE GeminiInv'
  <2>1. c \in Occupied /\ callTime' = callTime
    BY <1>6 DEF Returns, Occupied
  <2>2. PICK outcome \in {"answered", "unavailable"} : ThreadEnds(c, outcome)
    BY <1>6 DEF Returns
  <2> QED BY <1>4, <2>1, <2>2
<1>7. ASSUME NEW c \in Calls, NEW caller \in {"unavailable", "cancelled"}, callTime' = callTime, freeSlots' = freeSlots,
             geminiCall' = [geminiCall EXCEPT ![c].caller = caller]
      PROVE  GeminiInv'
  <2> DEFINE call == [geminiCall[c] EXCEPT !.caller = caller]
  <2>1. geminiCall' = [geminiCall EXCEPT ![c] = call]
    BY <1>7 DEF GeminiInv, CallTyped
  <2>2. /\ call \in CallRecords /\ call.thread = geminiCall[c].thread
        /\ call.until = geminiCall[c].until /\ call.deadline = geminiCall[c].deadline
    BY <1>1 DEF CallRecords
  <2> HIDE DEF call
  <2>3. c \in Occupied <=> call.thread \in {"queued", "running"}
    BY <2>2 DEF Occupied
  <2>4. call.thread = "running" => callTime <= call.until /\ call.until <= call.deadline
    BY <2>2 DEF GeminiInv, DeadlineInv
  <2>5. freeSlots' = freeSlots + (IF c \in Occupied THEN 1 ELSE 0)
                               - (IF call.thread \in {"queued", "running"} THEN 1 ELSE 0)
    BY <1>2, <1>7, <2>3
  <2> QED BY <1>7, <2>1, <2>2, <2>4, <2>5, CallMoves
<1>8. ASSUME NEW c \in Calls, CallsAgain(c) PROVE GeminiInv'
  <2>1. /\ geminiCall' = [geminiCall EXCEPT ![c] = NoCall] /\ c \notin Occupied
        /\ callTime' = callTime /\ freeSlots' = freeSlots
    BY <1>8 DEF CallsAgain, Occupied
  <2>2. NoCall \in CallRecords /\ NoCall.thread = "none"
    BY DEF NoCall, CallRecords
  <2>3. freeSlots' = freeSlots + (IF c \in Occupied THEN 1 ELSE 0)
                               - (IF NoCall.thread \in {"queued", "running"} THEN 1 ELSE 0)
    BY <1>2, <2>1, <2>2
  <2> QED BY <2>1, <2>2, <2>3, CallMoves
<1>9. ASSUME CallTick PROVE GeminiInv'
  <2>1. /\ callTime' = callTime + 1 /\ freeSlots' = freeSlots /\ geminiCall' = geminiCall
        /\ \A c \in Calls : geminiCall[c].thread = "running" => callTime < geminiCall[c].until
    BY <1>9 DEF CallTick
  <2>2. \A c \in Calls : geminiCall[c].until \in Nat
    BY <1>1 DEF CallRecords
  <2>3. Occupied' = Occupied
    BY <2>1 DEF Occupied
  <2>4. DeadlineInv'
    BY <1>2, <2>1, <2>2 DEF GeminiInv, DeadlineInv
  <2> QED BY <1>2, <2>1, <2>3, <2>4 DEF GeminiInv, CallTyped, SlotsInv
<1>10. ASSUME NEW c \in Calls, CallerTimesOut(c) \/ CallerCancelled(c) PROVE GeminiInv'
  BY <1>7, <1>10 DEF CallerTimesOut, CallerCancelled
<1>11. ASSUME NEW c \in Calls, StartThread(c) \/ NextModel(c) PROVE GeminiInv'
  BY <1>5, <1>11 DEF StartThread, NextModel
<1> QED BY <1>3, <1>6, <1>8, <1>9, <1>10, <1>11 DEF GeminiNext

(***************************************************************************)
(* Providers: the news refresh                                             *)
(***************************************************************************)
LEMMA LeastNat ==
  ASSUME NEW S, S \subseteq Nat, S # {}
  PROVE  \E n \in S : \A m \in S : n <= m
<1> DEFINE R == {p \in Nat \X Nat : p[1] < p[2]}
<1>1. IsWellFoundedOn(R, Nat)
  BY NatLessThanWellFounded DEF OpToRel
<1>2. \A i, j \in Nat : i < j => <<i, j>> \in R
  OBVIOUS
<1> HIDE DEF R
<1>3. PICK n \in S : \A m \in S : ~ (<<m, n>> \in R)
  BY <1>1, WFMin
<1>4. ASSUME NEW m \in S PROVE n <= m
  <2>1. m \in Nat /\ n \in Nat /\ ~ (m < n)
    BY <1>2, <1>3
  <2> QED BY <2>1
<1> QED BY <1>4

Answers == [at : Nat, answer : {"ok", "error", "auth"}]
Refreshing == {"fetching", "feeds", "categorizing"}
NewsRecords ==
  [pc : {"idle", "over"} \cup Refreshing, batch : Seq(Nat \X Nat), todo : SUBSET Nat, rows : SUBSET Urls,
   left : Nat, enabled : BOOLEAN, failures : Nat, opened : Nat, log : Seq(Answers)]

NewsTyped ==
  /\ newsTime \in Nat
  /\ worked \in [Urls -> Nat]
  /\ newsRun \in [NewsRuns -> NewsRecords]

\* One run at a time works, on what nobody has stored, and what was worked on is stored.
WorkInv ==
  /\ \A w \in NewsRuns : newsRun[w].pc \in Refreshing => newsLock = w
  /\ \A w \in NewsRuns : newsRun[w].pc # "categorizing" => newsRun[w].rows = {} /\ newsRun[w].log = <<>>
                                                           /\ newsRun[w].failures = 0 /\ newsRun[w].enabled = TRUE
  /\ \A w \in NewsRuns : newsRun[w].rows \cap newsTable = {}
  /\ \A w \in NewsRuns : newsRun[w].pc = "categorizing" =>
       \A i \in newsRun[w].todo : newsRun[w].batch[i][1] \in Urls \ newsTable
  /\ \A u \in Urls : worked[u] <= 1 /\ (u \notin newsTable => worked[u] = 0)

\* What a run's log says of the calls it made.
LogSpared(log) ==
  \A i \in 1 .. Len(log) :
    /\ \A j \in 1 .. i - 1 : log[j].answer # "auth"
    /\ (i > BreakAfter /\ \A j \in i - BreakAfter .. i - 1 : log[j].answer # "ok")
         => log[i].at >= log[i - 1].at + BreakFor

\* The breaker remembers the end of the log: the failures since the last good answer, and
\* how long to leave the provider alone.
BreakerKnows(log, failures, opened, enabled) ==
  /\ enabled = TRUE => \A j \in 1 .. Len(log) : log[j].answer # "auth"
  /\ failures <= Len(log)
  /\ failures < Len(log) => log[Len(log) - failures].answer = "ok"
  /\ failures >= BreakAfter => opened >= log[Len(log)].at + BreakFor

BreakerInv ==
  \A w \in NewsRuns : LET r == newsRun[w] IN
    LogSpared(r.log) /\ BreakerKnows(r.log, r.failures, r.opened, r.enabled)

NewsInv == NewsTyped /\ WorkInv /\ BreakerInv

\* A call the breaker allows spares the provider (_BoundedCircuitBreaker.allow).
LEMMA LogGrows ==
  ASSUME NEW log \in Seq(Answers), NEW failures \in Nat, NEW opened \in Nat, NEW answer \in {"ok", "error", "auth"},
         newsTime \in Nat, newsTime >= opened, LogSpared(log), BreakerKnows(log, failures, opened, TRUE)
  PROVE  LogSpared(Append(log, [at |-> newsTime, answer |-> answer]))
<1> DEFINE entry == [at |-> newsTime, answer |-> answer]
           more == Append(log, entry)
<1>1. entry \in Answers
  BY DEF Answers
<1>2. /\ more \in Seq(Answers) /\ Len(more) = Len(log) + 1 /\ more[Len(log) + 1] = entry
      /\ \A j \in 1 .. Len(log) : more[j] = log[j]
  BY <1>1
<1>3. Len(log) \in Nat /\ BreakAfter \in Nat \ {0} /\ BreakFor \in Nat
  BY ProviderAssumption
<1>4. entry.at = newsTime
  OBVIOUS
<1> HIDE DEF entry, more
<1> SUFFICES ASSUME NEW i \in 1 .. Len(more)
    PROVE /\ \A j \in 1 .. i - 1 : more[j].answer # "auth"
          /\ (i > BreakAfter /\ \A j \in i - BreakAfter .. i - 1 : more[j].answer # "ok")
               => more[i].at >= more[i - 1].at + BreakFor
  BY DEF LogSpared, more, entry
<1>5. CASE i <= Len(log)
  <2>1. i \in 1 .. Len(log) /\ \A j \in 1 .. i - 1 : j \in 1 .. Len(log)
    BY <1>2, <1>3, <1>5
  <2>2. \A j \in 1 .. i - 1 : more[j].answer # "auth"
    BY <1>2, <2>1 DEF LogSpared
  <2>3. ASSUME i > BreakAfter, \A j \in i - BreakAfter .. i - 1 : more[j].answer # "ok"
        PROVE  more[i].at >= more[i - 1].at + BreakFor
    <3>1. \A j \in i - BreakAfter .. i - 1 : j \in 1 .. Len(log)
      BY <1>3, <2>1, <2>3
    <3>2. \A j \in i - BreakAfter .. i - 1 : log[j].answer # "ok"
      BY <1>2, <2>3, <3>1
    <3>3. log[i].at >= log[i - 1].at + BreakFor
      BY <2>1, <2>3, <3>2 DEF LogSpared
    <3>4. i - 1 \in 1 .. Len(log)
      BY <1>3, <2>1, <2>3
    <3> QED BY <1>2, <2>1, <3>3, <3>4
  <2> QED BY <2>2, <2>3
<1>6. CASE i = Len(log) + 1
  <2>1. \A j \in 1 .. i - 1 : more[j].answer # "auth"
    BY <1>2, <1>3, <1>6 DEF BreakerKnows
  <2>2. ASSUME i > BreakAfter, \A j \in i - BreakAfter .. i - 1 : more[j].answer # "ok"
        PROVE  more[i].at >= more[i - 1].at + BreakFor
    <3>1. \A j \in Len(log) + 1 - BreakAfter .. Len(log) : j \in 1 .. Len(log) /\ more[j].answer # "ok"
      BY <1>3, <1>6, <2>2
    <3>2. \A j \in Len(log) + 1 - BreakAfter .. Len(log) : log[j].answer # "ok"
      BY <1>2, <3>1
    <3>3. failures >= BreakAfter
      <4> SUFFICES ASSUME failures < BreakAfter PROVE FALSE
        BY <1>3
      <4>1. Len(log) - failures \in Len(log) + 1 - BreakAfter .. Len(log) /\ failures < Len(log)
        BY <1>3, <1>6, <2>2
      <4> QED BY <3>2, <4>1 DEF BreakerKnows
    <3>4. opened >= log[Len(log)].at + BreakFor
      BY <3>3 DEF BreakerKnows
    <3>5. Len(log) \in 1 .. Len(log) /\ log[Len(log)] \in Answers
      BY <1>3, <1>6, <2>2
    <3>6. log[Len(log)].at \in Nat
      BY <3>5 DEF Answers
    <3>7. more[i].at = newsTime /\ more[i - 1] = log[Len(log)]
      BY <1>2, <1>3, <1>4, <1>6, <3>5
    <3> QED BY <1>3, <3>4, <3>6, <3>7
  <2> QED BY <2>1, <2>2
<1> QED BY <1>2, <1>3, <1>5, <1>6

\* What the breaker knows after an answer (_BoundedCircuitBreaker.success, failure).
LEMMA BreakerLearns ==
  ASSUME NEW log \in Seq(Answers), NEW failures \in Nat, NEW opened \in Nat, NEW answer \in {"ok", "error", "auth"},
         newsTime \in Nat, BreakerKnows(log, failures, opened, TRUE)
  PROVE  LET more == Append(log, [at |-> newsTime, answer |-> answer]) IN
         /\ answer = "ok" => BreakerKnows(more, 0, 0, TRUE)
         /\ answer # "ok" => \A enabled \in BOOLEAN : (enabled = TRUE => answer # "auth") =>
              BreakerKnows(more, failures + 1,
                           IF failures + 1 >= BreakAfter THEN newsTime + BreakFor ELSE opened, enabled)
<1> DEFINE entry == [at |-> newsTime, answer |-> answer]
           more == Append(log, entry)
           until == IF failures + 1 >= BreakAfter THEN newsTime + BreakFor ELSE opened
<1>1. entry \in Answers
  BY DEF Answers
<1>2. /\ more \in Seq(Answers) /\ Len(more) = Len(log) + 1 /\ more[Len(log) + 1] = entry
      /\ \A j \in 1 .. Len(log) : more[j] = log[j]
  BY <1>1
<1>3. Len(log) \in Nat /\ BreakAfter \in Nat \ {0} /\ BreakFor \in Nat
  BY ProviderAssumption
<1>4. entry.at = newsTime /\ entry.answer = answer
  OBVIOUS
<1>5. failures + 1 >= BreakAfter => until = newsTime + BreakFor
  OBVIOUS
<1> HIDE DEF entry, more, until
<1>6. answer # "auth" => \A j \in 1 .. Len(more) : more[j].answer # "auth"
  BY <1>2, <1>3, <1>4 DEF BreakerKnows
<1>7. answer = "ok" => BreakerKnows(more, 0, 0, TRUE)
  BY <1>2, <1>3, <1>4, <1>6 DEF BreakerKnows
<1>8. ASSUME answer # "ok", NEW enabled \in BOOLEAN, enabled = TRUE => answer # "auth"
      PROVE  BreakerKnows(more, failures + 1, until, enabled)
  <2>1. enabled = TRUE => \A j \in 1 .. Len(more) : more[j].answer # "auth"
    BY <1>6, <1>8
  <2>2. failures + 1 <= Len(more)
    BY <1>2, <1>3 DEF BreakerKnows
  <2>3. ASSUME failures + 1 < Len(more) PROVE more[Len(more) - (failures + 1)].answer = "ok"
    <3>1. failures < Len(log) /\ Len(more) - (failures + 1) = Len(log) - failures
      BY <1>2, <1>3, <2>3
    <3>2. Len(log) - failures \in 1 .. Len(log)
      BY <1>3, <3>1
    <3>3. more[Len(log) - failures] = log[Len(log) - failures]
      BY <1>2, <3>2
    <3> QED BY <3>1, <3>3 DEF BreakerKnows
  <2>4. failures + 1 >= BreakAfter => until >= more[Len(more)].at + BreakFor
    BY <1>2, <1>3, <1>4, <1>5
  <2> QED BY <2>1, <2>2, <2>3, <2>4 DEF BreakerKnows
<1> QED BY <1>7, <1>8 DEF more, entry, until

\* The next headline is one of those to do; nothing else of the run changes.
LEMMA HeadlineTaken ==
  ASSUME NEW r \in NewsRecords, r.todo # {}, \A i \in r.todo : r.batch[i][1] \in Urls
  PROVE  /\ Headline(r) \in NewsRecords
         /\ \E i \in r.todo : Headline(r).todo = r.todo \ {i} /\ Headline(r).rows = r.rows \cup {r.batch[i][1]}
         /\ Headline(r).pc = r.pc /\ Headline(r).batch = r.batch /\ Headline(r).log = r.log
         /\ Headline(r).failures = r.failures /\ Headline(r).opened = r.opened
         /\ Headline(r).enabled = r.enabled
<1>1. PICK i \in r.todo : i = Min(r.todo)
  <2>1. r.todo \subseteq Nat
    BY DEF NewsRecords
  <2>2. PICK n \in r.todo : \A m \in r.todo : n <= m
    BY <2>1, LeastNat
  <2> QED BY <2>2 DEF Min
<1> DEFINE url == r.batch[i][1]
           left == IF r.enabled /\ r.left > 0 THEN r.left - 1 ELSE r.left
           h == [r EXCEPT !.todo = r.todo \ {i}, !.rows = r.rows \cup {url}, !.left = left]
<1>2. Headline(r) = h
  BY <1>1 DEF Headline, NewsRecords
<1>3. left \in Nat
  BY DEF NewsRecords
<1>4. r.rows \cup {url} \in SUBSET Urls /\ r.todo \ {i} \in SUBSET Nat
  BY DEF NewsRecords
<1> HIDE DEF url, left
<1>5. h \in NewsRecords
  BY <1>3, <1>4 DEF NewsRecords
<1>6. /\ h.todo = r.todo \ {i} /\ h.rows = r.rows \cup {url}
      /\ h.pc = r.pc /\ h.batch = r.batch /\ h.log = r.log
      /\ h.failures = r.failures /\ h.opened = r.opened
  BY DEF NewsRecords
<1>7. h.enabled = r.enabled
  BY DEF NewsRecords
<1> HIDE DEF h
<1> QED BY <1>2, <1>5, <1>6, <1>7 DEF url

\* One run works on a headline: what it may still store is new to the table.
LEMMA RunWorks ==
  ASSUME NewsInv, NEW w \in NewsRuns, NEW n \in NewsRecords,
         newsRun[w].pc = "categorizing", n.pc = "categorizing", n.batch = newsRun[w].batch,
         \E i \in newsRun[w].todo : n.todo = newsRun[w].todo \ {i} /\ n.rows = newsRun[w].rows \cup {newsRun[w].batch[i][1]},
         LogSpared(n.log), BreakerKnows(n.log, n.failures, n.opened, n.enabled),
         newsRun' = [newsRun EXCEPT ![w] = n], UNCHANGED <<newsTime, newsLock, newsTable, worked>>
  PROVE  NewsInv'
<1>1. newsRun'[w] = n /\ \A v \in NewsRuns : v # w => newsRun'[v] = newsRun[v]
  BY DEF NewsInv, NewsTyped
<1>2. NewsTyped'
  BY DEF NewsInv, NewsTyped
<1>3. BreakerInv'
  BY <1>1 DEF NewsInv, BreakerInv, LogSpared, BreakerKnows
<1>4. n.rows \cap newsTable = {} /\ \A i \in n.todo : n.batch[i][1] \in Urls \ newsTable
  BY DEF NewsInv, WorkInv
<1>5. newsLock = w
  BY DEF NewsInv, WorkInv, Refreshing
<1>6. WorkInv'
  BY <1>1, <1>4, <1>5 DEF NewsInv, WorkInv
<1> QED BY <1>2, <1>3, <1>6 DEF NewsInv

\* A run that is not at a headline changes its stage, and holds the lock when it works.
LEMMA RunMoves ==
  ASSUME NewsInv, NEW w \in NewsRuns, NEW n \in NewsRecords,
         n.rows = {}, n.log = <<>>, n.failures = 0, n.enabled = TRUE,
         n.pc \in Refreshing => newsLock' = w,
         n.pc = "categorizing" => \A i \in n.todo : n.batch[i][1] \in Urls \ newsTable,
         newsRun' = [newsRun EXCEPT ![w] = n],
         \A v \in NewsRuns : v # w /\ newsRun[v].pc \in Refreshing => newsLock' = newsLock,
         UNCHANGED <<newsTime, newsTable, worked>>
  PROVE  NewsInv'
<1>1. newsRun'[w] = n /\ \A v \in NewsRuns : v # w => newsRun'[v] = newsRun[v]
  BY DEF NewsInv, NewsTyped
<1>2. NewsTyped'
  BY DEF NewsInv, NewsTyped
<1>3. LogSpared(<<>>) /\ \A opened \in Nat : BreakerKnows(<<>>, 0, opened, TRUE)
  BY ProviderAssumption DEF LogSpared, BreakerKnows
<1>4. LogSpared(n.log) /\ BreakerKnows(n.log, n.failures, n.opened, n.enabled)
  BY <1>3 DEF NewsRecords
<1>5. BreakerInv'
  BY <1>1, <1>4 DEF NewsInv, BreakerInv
<1>6. WorkInv'
  BY <1>1 DEF NewsInv, WorkInv
<1> QED BY <1>2, <1>5, <1>6 DEF NewsInv

\* The records to categorize are fetched ones that are not stored (refresh_news).
LEMMA FetchedIsNew ==
  ASSUME NEW raw \in NewsBatches, NEW valid \in SUBSET {i \in DOMAIN raw : raw[i][1] # 0}
  PROVE  LET todo == {i \in DedupeFetched(raw, valid) : raw[i][1] \notin newsTable} IN
         /\ raw \in Seq(Nat \X Nat) /\ todo \in SUBSET Nat
         /\ \A i \in todo : raw[i][1] \in Urls \ newsTable
<1>1. raw \in Seq(Nat \X Nat)
  BY ProviderAssumption
<1>2. DedupeFetched(raw, valid) \subseteq valid
  BY DEF DedupeFetched
<1>3. \A i \in valid : i \in Nat /\ raw[i][1] \in Urls
  BY <1>1 DEF Urls
<1> QED BY <1>1, <1>2, <1>3

LEMMA NewsStep == NewsInv /\ NewsNext => NewsInv'
<1> SUFFICES ASSUME NewsInv, NewsNext PROVE NewsInv'
  OBVIOUS
<1>1. \A w \in NewsRuns : newsRun[w] \in NewsRecords /\ w # "none"
  BY ProviderAssumption DEF NewsInv, NewsTyped
<1>2. /\ NewsOver \in NewsRecords
      /\ NewsOver.pc = "over" /\ NewsOver.rows = {} /\ NewsOver.log = <<>> /\ NewsOver.failures = 0
  <2>1. MaxNewsCalls \in Nat /\ <<>> \in Seq(Nat \X Nat) /\ <<>> \in Seq(Answers)
    BY ProviderAssumption
  <2>2. NewsIdle \in NewsRecords
    BY <2>1 DEF NewsIdle, NewsRecords
  <2>3. /\ NewsIdle.rows = {} /\ NewsIdle.log = <<>> /\ NewsIdle.failures = 0
    BY DEF NewsIdle
  <2> QED BY <2>2, <2>3 DEF NewsOver, NewsRecords
<1>3. NewsOver.enabled = TRUE
  BY DEF NewsIdle, NewsOver
<1>4. ASSUME NEW w \in NewsRuns, NEW pc \in Refreshing \ {"categorizing"},
             newsRun[w].pc # "categorizing", newsRun' = [newsRun EXCEPT ![w].pc = pc], newsLock' = w,
             \A v \in NewsRuns : v # w /\ newsRun[v].pc \in Refreshing => newsLock' = newsLock,
             UNCHANGED <<newsTime, newsTable, worked>>
      PROVE  NewsInv'
  <2> DEFINE n == [newsRun[w] EXCEPT !.pc = pc]
  <2>1. newsRun' = [newsRun EXCEPT ![w] = n]
    BY <1>4 DEF NewsInv, NewsTyped
  <2>2. n \in NewsRecords /\ n.pc = pc
    BY <1>1 DEF NewsRecords
  <2>3. n.rows = newsRun[w].rows /\ n.log = newsRun[w].log /\ n.failures = newsRun[w].failures
    BY <1>1 DEF NewsRecords
  <2>4. n.enabled = newsRun[w].enabled
    BY <1>1 DEF NewsRecords
  <2> HIDE DEF n
  <2>5. n.rows = {} /\ n.log = <<>> /\ n.failures = 0 /\ n.enabled = TRUE /\ n.pc # "categorizing"
    BY <1>4, <2>2, <2>3, <2>4 DEF NewsInv, WorkInv
  <2> QED BY <1>4, <2>1, <2>2, <2>5, RunMoves
<1>5. ASSUME NEW w \in NewsRuns, RefreshStarts(w) PROVE NewsInv'
  <2>1. newsLock = "none"
    BY <1>5 DEF RefreshStarts, TryNewsLock
  <2>2. \A v \in NewsRuns : newsRun[v].pc \notin Refreshing
    BY <1>1, <2>1 DEF NewsInv, WorkInv
  <2> QED BY <1>4, <1>5, <2>2 DEF RefreshStarts, TryNewsLock, Refreshing
<1>6. ASSUME NEW w \in NewsRuns, newsRun' = [newsRun EXCEPT ![w] = NewsOver],
             \A v \in NewsRuns : v # w /\ newsRun[v].pc \in Refreshing => newsLock' = newsLock,
             UNCHANGED <<newsTime, newsTable, worked>>
      PROVE  NewsInv'
  <2>1. NewsOver.pc \notin Refreshing
    BY <1>2 DEF Refreshing
  <2> QED BY <1>2, <1>3, <1>6, <2>1, RunMoves DEF Refreshing
<1>7. ASSUME NEW w \in NewsRuns, ReleaseNewsLock(w), newsRun[w].pc \in Refreshing
      PROVE  \A v \in NewsRuns : v # w => newsRun[v].pc \notin Refreshing
  BY <1>7 DEF NewsInv, WorkInv
<1>8. ASSUME NEW w \in NewsRuns, RefreshRefused(w) \/ NewsFails(w) PROVE NewsInv'
  <2>1. CASE RefreshRefused(w)
    BY <1>6, <2>1 DEF RefreshRefused
  <2>2. CASE NewsFails(w)
    <3>1. \A v \in NewsRuns : v # w => newsRun[v].pc \notin Refreshing
      BY <1>7, <2>2 DEF NewsFails, Refreshing
    <3> QED BY <1>6, <2>2, <3>1 DEF NewsFails
  <2> QED BY <1>8, <2>1, <2>2
<1>9. ASSUME NEW w \in NewsRuns, NEW raw \in NewsBatches, NEW valid \in SUBSET {i \in DOMAIN raw : raw[i][1] # 0},
             newsRun[w].pc \in {"fetching", "feeds"}, Categorize(w, raw, valid),
             UNCHANGED <<newsTime, newsLock, newsTable, worked>>
      PROVE  NewsInv'
  <2> DEFINE todo == {i \in DedupeFetched(raw, valid) : raw[i][1] \notin newsTable}
             n == [newsRun[w] EXCEPT !.pc = "categorizing", !.batch = raw, !.todo = todo]
  <2>1. newsRun' = [newsRun EXCEPT ![w] = n]
    BY <1>9 DEF Categorize, NewsInv, NewsTyped
  <2>2. raw \in Seq(Nat \X Nat) /\ todo \in SUBSET Nat /\ \A i \in todo : raw[i][1] \in Urls \ newsTable
    BY FetchedIsNew
  <2> HIDE DEF todo
  <2>3. /\ n \in NewsRecords /\ n.pc = "categorizing" /\ n.batch = raw /\ n.todo = todo
    BY <1>1, <2>2 DEF NewsRecords, Refreshing
  <2>4. n.rows = newsRun[w].rows /\ n.log = newsRun[w].log /\ n.failures = newsRun[w].failures
    BY <1>1 DEF NewsRecords
  <2>5. n.enabled = newsRun[w].enabled
    BY <1>1 DEF NewsRecords
  <2> HIDE DEF n
  <2>6. n.rows = {} /\ n.log = <<>> /\ n.failures = 0 /\ n.enabled = TRUE
    BY <1>9, <2>4, <2>5 DEF NewsInv, WorkInv
  <2>7. newsLock' = w
    BY <1>9 DEF NewsInv, WorkInv, Refreshing
  <2> QED BY <1>9, <2>1, <2>2, <2>3, <2>6, <2>7, RunMoves
<1>10. ASSUME NEW w \in NewsRuns, NEW raw \in NewsBatches, FetchWebz(w, raw) \/ FetchFeeds(w, raw) PROVE NewsInv'
  <2>1. newsRun[w].pc \in {"fetching", "feeds"} /\ UNCHANGED <<newsTime, newsLock, newsTable, worked>>
    BY <1>10 DEF FetchWebz, FetchFeeds
  <2>2. newsLock = w
    BY <2>1 DEF NewsInv, WorkInv, Refreshing
  <2>3. CASE newsRun' = [newsRun EXCEPT ![w].pc = "feeds"]
    BY <1>4, <2>1, <2>2, <2>3 DEF Refreshing
  <2>4. CASE Categorize(w, raw, ValidatedPosts(raw)) \/ Categorize(w, raw, ValidatedEntries(raw))
    <3>1. PICK valid \in SUBSET {i \in DOMAIN raw : raw[i][1] # 0} : Categorize(w, raw, valid)
      BY <2>4 DEF ValidatedPosts, ValidatedEntries
    <3> QED BY <1>9, <2>1, <3>1
  <2> QED BY <1>10, <2>3, <2>4 DEF FetchWebz, FetchFeeds
<1>11. ASSUME NEW w \in NewsRuns, NEW answer \in {"ok", "error", "auth"}, AskProvider(w, answer) PROVE NewsInv'
  <2> DEFINE r == newsRun[w]
             h == Headline(r)
             entry == [at |-> newsTime, answer |-> answer]
             asked == [h EXCEPT !.log = Append(h.log, entry)]
             until == IF r.failures + 1 >= BreakAfter THEN newsTime + BreakFor ELSE r.opened
  <2>1. /\ r.pc = "categorizing" /\ r.todo # {} /\ r.enabled /\ newsTime >= r.opened
        /\ UNCHANGED <<newsTime, newsLock, newsTable, worked>>
    BY <1>11 DEF AskProvider, MayAsk
  <2>2. r \in NewsRecords /\ \A i \in r.todo : r.batch[i][1] \in Urls
    BY <1>1, <2>1 DEF NewsInv, WorkInv
  <2>3. /\ h \in NewsRecords
        /\ \E i \in r.todo : h.todo = r.todo \ {i} /\ h.rows = r.rows \cup {r.batch[i][1]}
        /\ h.pc = r.pc /\ h.batch = r.batch /\ h.log = r.log
        /\ h.failures = r.failures /\ h.opened = r.opened /\ h.enabled = r.enabled
    BY <2>1, <2>2, HeadlineTaken
  <2>4. /\ r.log \in Seq(Answers) /\ r.failures \in Nat /\ r.opened \in Nat /\ newsTime \in Nat
        /\ LogSpared(r.log) /\ BreakerKnows(r.log, r.failures, r.opened, TRUE)
    <3>1. r.enabled = TRUE
      BY <2>1, <2>2 DEF NewsRecords
    <3> QED BY <2>2, <3>1 DEF NewsRecords, NewsInv, NewsTyped, BreakerInv
  <2>5. newsRun' = [newsRun EXCEPT ![w] =
          CASE answer = "ok" -> [asked EXCEPT !.failures = 0, !.opened = 0]
            [] answer = "error" -> BreakerFailed(asked)
            [] answer = "auth" -> [BreakerFailed(asked) EXCEPT !.enabled = FALSE]]
    BY <1>11, <2>2, <2>3 DEF AskProvider, NewsRecords
  <2>6. LogSpared(Append(r.log, entry))
    BY <2>1, <2>4, LogGrows
  <2>7. /\ answer = "ok" => BreakerKnows(Append(r.log, entry), 0, 0, TRUE)
        /\ answer # "ok" => \A enabled \in BOOLEAN : (enabled = TRUE => answer # "auth") =>
              BreakerKnows(Append(r.log, entry), r.failures + 1, until, enabled)
    BY <2>4, BreakerLearns
  <2>8. entry \in Answers /\ Append(h.log, entry) \in Seq(Answers)
    BY <2>3, <2>4 DEF Answers
  <2> HIDE DEF h, entry
  <2>9. /\ asked \in NewsRecords /\ asked.pc = h.pc /\ asked.batch = h.batch /\ asked.todo = h.todo /\ asked.rows = h.rows
        /\ asked.log = Append(h.log, entry) /\ asked.failures = h.failures /\ asked.opened = h.opened
    BY <2>3, <2>8 DEF NewsRecords
  <2>10. asked.enabled = TRUE
    BY <2>1, <2>2, <2>3 DEF NewsRecords
  <2>11. until \in Nat
    BY <2>4, ProviderAssumption
  <2> HIDE DEF asked
  <2>12. CASE answer = "ok"
    <3> DEFINE n == [asked EXCEPT !.failures = 0, !.opened = 0]
    <3>1. newsRun' = [newsRun EXCEPT ![w] = n]
      BY <2>5, <2>12
    <3>2. /\ n \in NewsRecords /\ n.pc = h.pc /\ n.batch = h.batch /\ n.todo = h.todo /\ n.rows = h.rows
          /\ n.log = Append(h.log, entry) /\ n.failures = 0 /\ n.opened = 0
      BY <2>9 DEF NewsRecords
    <3>3. n.enabled = TRUE
      BY <2>9, <2>10 DEF NewsRecords
    <3> HIDE DEF n
    <3>4. LogSpared(n.log) /\ BreakerKnows(n.log, n.failures, n.opened, n.enabled)
      BY <2>3, <2>6, <2>7, <2>12, <3>2, <3>3
    <3> QED BY <2>1, <2>3, <3>1, <3>2, <3>4, RunWorks
  <2>13. CASE answer # "ok"
    <3> DEFINE failed == [asked EXCEPT !.failures = r.failures + 1, !.opened = until]
    <3>1. BreakerFailed(asked) = failed
      BY <2>3, <2>9 DEF BreakerFailed, NewsRecords
    <3>2. /\ failed \in NewsRecords /\ failed.pc = h.pc /\ failed.batch = h.batch /\ failed.todo = h.todo
          /\ failed.rows = h.rows /\ failed.log = Append(h.log, entry)
          /\ failed.failures = r.failures + 1 /\ failed.opened = until
      <4>1. r.failures + 1 \in Nat
        BY <2>4
      <4> HIDE DEF r, until
      <4> QED BY <2>9, <2>11, <4>1 DEF NewsRecords
    <3>3. failed.enabled = TRUE
      BY <2>9, <2>10 DEF NewsRecords
    <3> HIDE DEF failed, until
    <3>4. CASE answer = "error"
      <4>1. newsRun' = [newsRun EXCEPT ![w] = failed]
        BY <2>5, <3>1, <3>4
      <4>2. LogSpared(failed.log) /\ BreakerKnows(failed.log, failed.failures, failed.opened, failed.enabled)
        BY <2>3, <2>6, <2>7, <3>2, <3>3, <3>4
      <4> QED BY <2>1, <2>3, <3>2, <4>1, <4>2, RunWorks
    <3>5. CASE answer = "auth"
      <4> DEFINE n == [failed EXCEPT !.enabled = FALSE]
      <4>1. newsRun' = [newsRun EXCEPT ![w] = n]
        BY <2>5, <3>1, <3>5
      <4>2. /\ n \in NewsRecords /\ n.pc = h.pc /\ n.batch = h.batch /\ n.todo = h.todo /\ n.rows = h.rows
            /\ n.log = Append(h.log, entry) /\ n.failures = r.failures + 1 /\ n.opened = until
        BY <3>2 DEF NewsRecords
      <4>3. n.enabled = FALSE
        BY <3>2 DEF NewsRecords
      <4> HIDE DEF n
      <4>4. LogSpared(n.log) /\ BreakerKnows(n.log, n.failures, n.opened, n.enabled)
        BY <2>3, <2>6, <2>7, <3>5, <4>2, <4>3
      <4> QED BY <2>1, <2>3, <4>1, <4>2, <4>4, RunWorks
    <3> QED BY <2>13, <3>4, <3>5
  <2> QED BY <2>12, <2>13
<1>12. ASSUME NEW w \in NewsRuns, CategorizeLocally(w) PROVE NewsInv'
  <2> DEFINE r == newsRun[w]  h == Headline(r)
  <2>1. /\ r.pc = "categorizing" /\ r.todo # {} /\ newsRun' = [newsRun EXCEPT ![w] = h]
        /\ UNCHANGED <<newsTime, newsLock, newsTable, worked>>
    BY <1>12 DEF CategorizeLocally
  <2>2. r \in NewsRecords /\ \A i \in r.todo : r.batch[i][1] \in Urls
    BY <1>1, <2>1 DEF NewsInv, WorkInv
  <2>3. /\ h \in NewsRecords
        /\ \E i \in r.todo : h.todo = r.todo \ {i} /\ h.rows = r.rows \cup {r.batch[i][1]}
        /\ h.pc = r.pc /\ h.batch = r.batch /\ h.log = r.log
        /\ h.failures = r.failures /\ h.opened = r.opened /\ h.enabled = r.enabled
    BY <2>1, <2>2, HeadlineTaken
  <2> HIDE DEF h
  <2>4. LogSpared(h.log) /\ BreakerKnows(h.log, h.failures, h.opened, h.enabled)
    BY <2>3 DEF NewsInv, BreakerInv
  <2> QED BY <2>1, <2>3, <2>4, RunWorks
<1>13. ASSUME NEW w \in NewsRuns, CommitNews(w) PROVE NewsInv'
  <2> DEFINE rows == newsRun[w].rows
  <2>1. /\ newsRun[w].pc = "categorizing" /\ newsTable' = newsTable \cup rows
        /\ worked' = [u \in Urls |-> IF u \in rows THEN worked[u] + 1 ELSE worked[u]]
        /\ newsRun' = [newsRun EXCEPT ![w] = NewsOver] /\ ReleaseNewsLock(w) /\ newsTime' = newsTime
    BY <1>13 DEF CommitNews
  <2>2. \A v \in NewsRuns : v # w => newsRun[v].pc \notin Refreshing
    BY <1>7, <2>1 DEF Refreshing
  <2>3. newsRun'[w] = NewsOver /\ \A v \in NewsRuns : v # w => newsRun'[v] = newsRun[v]
    BY <2>1 DEF NewsInv, NewsTyped
  <2>4. NewsTyped'
    BY <1>2, <2>1 DEF NewsInv, NewsTyped
  <2>5. \A v \in NewsRuns : newsRun'[v].pc \notin Refreshing /\ newsRun'[v].rows = {} /\ newsRun'[v].log = <<>>
                            /\ newsRun'[v].failures = 0 /\ newsRun'[v].enabled = TRUE
    BY <1>2, <1>3, <2>2, <2>3 DEF NewsInv, WorkInv, Refreshing
  <2>6. \A u \in Urls : worked'[u] <= 1 /\ (u \notin newsTable' => worked'[u] = 0)
    BY <2>1 DEF NewsInv, WorkInv, NewsTyped
  <2>7. WorkInv'
    BY <2>5, <2>6 DEF WorkInv, Refreshing
  <2>8. BreakerInv'
    <3>1. LogSpared(<<>>) /\ \A opened \in Nat : BreakerKnows(<<>>, 0, opened, TRUE)
      BY ProviderAssumption DEF LogSpared, BreakerKnows
    <3>2. \A v \in NewsRuns : newsRun'[v].opened \in Nat
      BY <2>4 DEF NewsTyped, NewsRecords
    <3> QED BY <2>5, <3>1, <3>2 DEF BreakerInv
  <2> QED BY <2>4, <2>7, <2>8 DEF NewsInv
<1>14. ASSUME NewsTick PROVE NewsInv'
  <2>1. newsTime' \in Nat
    BY <1>14 DEF NewsTick, NewsInv, NewsTyped
  <2> QED BY <1>14, <2>1 DEF NewsTick, NewsInv, NewsTyped, WorkInv, BreakerInv
<1> QED BY <1>5, <1>8, <1>10, <1>11, <1>12, <1>13, <1>14 DEF NewsNext

(***************************************************************************)
(* Providers: the Umami token                                              *)
(***************************************************************************)
Tokens == [of : Nat, expires : Nat]
GetRecords ==
  [pc : {"idle", "waiting", "login", "storing", "sending", "answered", "refused", "failed"},
   of : Nat, attempt : {0, 1}, since : Nat]

TokenTyped ==
  /\ umamiTime \in Nat /\ epoch \in Nat \ {0}
  /\ token \in Tokens /\ issued \in Tokens
  /\ umamiGet \in [Gets -> GetRecords]

\* The token is the one issued last, or was thrown away because Umami refuses that one.
TokenOfIssued ==
  /\ token.expires = issued.expires /\ issued.of <= epoch
  /\ token.of # 0 => token.of = issued.of
  /\ token.of = 0 => issued.of < epoch

\* A login holds the lock, while there is no token to use, and what it will store is needed.
LoginsNeeded ==
  \A g \in Gets : LET r == umamiGet[g] IN
    /\ r.pc \in {"login", "storing"} => tokenLock = g /\ (token.of = 0 \/ token.expires <= umamiTime)
    /\ r.pc = "storing" => r.of # 0 /\ (issued.of < r.of \/ issued.expires <= umamiTime)

\* After its first refusal a read can get no token older than itself.
FreshGet(r) ==
  r.pc = "sending" \/ (r.attempt = 1 /\ r.pc \in {"waiting", "login", "storing"}) =>
    /\ token.of = 0 \/ token.of >= r.since \/ (r.attempt = 0 /\ token.of = r.of)
    /\ \A v \in Gets : umamiGet[v].pc = "storing" => umamiGet[v].of >= r.since
    /\ r.pc = "sending" /\ r.attempt = 1 => r.of >= r.since

GetsInTime ==
  \A g \in Gets : LET r == umamiGet[g] IN
    r.of <= epoch /\ r.since <= epoch /\ (r.pc = "refused" => epoch > r.since)

TokenInv == TokenTyped /\ TokenOfIssued /\ LoginsNeeded /\ GetsInTime /\ \A g \in Gets : FreshGet(umamiGet[g])

\* One read moves and the token stays: what has to hold of its next state.
LEMMA GetMoves ==
  ASSUME TokenInv, NEW g \in Gets, NEW n \in GetRecords,
         umamiGet' = [umamiGet EXCEPT ![g] = n], UNCHANGED <<umamiTime, epoch, token, issued>>,
         n.of <= epoch, n.since <= epoch, n.pc = "refused" => epoch > n.since,
         n.pc \in {"login", "storing"} => tokenLock' = g /\ (token.of = 0 \/ token.expires <= umamiTime),
         n.pc = "storing" => n.of = epoch /\ (issued.of < n.of \/ issued.expires <= umamiTime),
         \A v \in Gets : v # g /\ umamiGet[v].pc \in {"login", "storing"} => tokenLock' = tokenLock,
         n.pc = "sending" \/ (n.attempt = 1 /\ n.pc \in {"waiting", "login", "storing"}) =>
           /\ token.of = 0 \/ token.of >= n.since \/ (n.attempt = 0 /\ token.of = n.of)
           /\ \A v \in Gets : v # g /\ umamiGet[v].pc = "storing" => umamiGet[v].of >= n.since
           /\ n.pc = "sending" /\ n.attempt = 1 => n.of >= n.since
  PROVE  TokenInv'
<1>1. umamiGet'[g] = n /\ \A v \in Gets : v # g => umamiGet'[v] = umamiGet[v]
  BY DEF TokenInv, TokenTyped
<1>2. TokenTyped'
  BY DEF TokenInv, TokenTyped
<1>3. TokenOfIssued'
  BY DEF TokenInv, TokenOfIssued
<1>4. LoginsNeeded'
  BY <1>1 DEF TokenInv, TokenTyped, LoginsNeeded
<1>5. GetsInTime'
  BY <1>1 DEF TokenInv, GetsInTime
<1>6. ASSUME NEW h \in Gets PROVE FreshGet(umamiGet[h])'
  <2>1. CASE h = g
    <3>1. n.pc = "storing" => n.of >= n.since
      BY DEF TokenInv, TokenTyped, GetRecords
    <3> QED BY <1>1, <2>1, <3>1 DEF FreshGet
  <2>2. CASE h # g
    <3>1. umamiGet[h].since <= epoch /\ umamiGet[h].since \in Nat
      BY DEF TokenInv, GetsInTime, TokenTyped, GetRecords
    <3>2. n.pc = "storing" => n.of >= umamiGet[h].since
      BY <3>1 DEF TokenInv, TokenTyped
    <3> QED BY <1>1, <2>2, <3>2 DEF TokenInv, FreshGet
  <2> QED BY <2>1, <2>2
<1> QED BY <1>2, <1>3, <1>4, <1>5, <1>6 DEF TokenInv

\* While a token can be used nobody logs in (the second look in _authenticate).
LEMMA NoLoginBesideToken ==
  ASSUME TokenInv, TokenLives
  PROVE  \A v \in Gets : umamiGet[v].pc \notin {"login", "storing"}
<1>1. token.of # 0 /\ umamiTime < token.expires /\ umamiTime \in Nat /\ token.expires \in Nat
  BY DEF TokenLives, TokenInv, TokenTyped, Tokens
<1> QED BY <1>1 DEF TokenInv, LoginsNeeded

\* A login stores a token: it was needed, and it is not older than any read that waits for it.
LEMMA LoginStoredStep ==
  ASSUME TokenInv, NEW g \in Gets, LoginStored(g)
  PROVE  TokenInv' /\ (issued.of # token'.of \/ issued.expires <= umamiTime)
<1> DEFINE r == umamiGet[g]
           n == [r EXCEPT !.pc = "sending"]
<1>1. /\ r.pc = "storing" /\ token' = [of |-> r.of, expires |-> umamiTime + TokenLife] /\ issued' = token'
      /\ umamiGet' = [umamiGet EXCEPT ![g] = n] /\ tokenLock' = "none"
      /\ umamiTime' = umamiTime /\ epoch' = epoch
  BY DEF LoginStored, TokenInv, TokenTyped
<1>2. r \in GetRecords /\ umamiTime \in Nat /\ epoch \in Nat /\ issued \in Tokens
  BY DEF TokenInv, TokenTyped
<1>3. /\ n \in GetRecords /\ n.pc = "sending" /\ n.of = r.of /\ n.attempt = r.attempt /\ n.since = r.since
  BY <1>2 DEF GetRecords
<1>4. /\ r.of # 0 /\ r.of \in Nat /\ r.of <= epoch /\ r.since <= epoch
      /\ issued.of < r.of \/ issued.expires <= umamiTime
  BY <1>1, <1>2 DEF TokenInv, LoginsNeeded, GetsInTime, GetRecords
<1> HIDE DEF n
<1>5. umamiGet'[g] = n /\ \A v \in Gets : v # g => umamiGet'[v] = umamiGet[v]
  BY <1>1 DEF TokenInv, TokenTyped
<1>6. \A v \in Gets : v # g => umamiGet[v].pc \notin {"login", "storing"}
  BY <1>1 DEF TokenInv, LoginsNeeded
<1>7. token'.of = r.of /\ token'.expires = umamiTime + TokenLife /\ token' \in Tokens
  BY <1>1, <1>2, <1>4, ProviderAssumption DEF Tokens
<1>8. TokenTyped'
  BY <1>1, <1>2, <1>3, <1>7 DEF TokenInv, TokenTyped
<1>9. TokenOfIssued'
  BY <1>1, <1>4, <1>7 DEF TokenOfIssued
<1>10. LoginsNeeded'
  BY <1>3, <1>5, <1>6 DEF LoginsNeeded
<1>11. GetsInTime'
  BY <1>1, <1>3, <1>4, <1>5 DEF TokenInv, GetsInTime
<1>12. ASSUME NEW h \in Gets PROVE FreshGet(umamiGet[h])'
  <2>1. \A v \in Gets : umamiGet'[v].pc # "storing"
    BY <1>3, <1>5, <1>6
  <2>2. CASE h = g
    <3>1. r.attempt \in {0, 1}
      BY <1>2 DEF GetRecords
    <3>2. r.attempt = 1 => r.of >= r.since
      BY <1>1 DEF TokenInv, FreshGet
    <3> QED BY <1>3, <1>5, <1>7, <2>1, <2>2, <3>1, <3>2 DEF FreshGet
  <2>3. CASE h # g
    <3> DEFINE waits == umamiGet[h].pc = "sending" \/ (umamiGet[h].attempt = 1 /\ umamiGet[h].pc \in {"waiting", "login", "storing"})
    <3>1. waits => r.of >= umamiGet[h].since
      BY <1>1 DEF TokenInv, FreshGet
    <3>2. umamiGet[h].pc = "sending" /\ umamiGet[h].attempt = 1 => umamiGet[h].of >= umamiGet[h].since
      BY DEF TokenInv, FreshGet
    <3> QED BY <1>5, <1>7, <2>1, <2>3, <3>1, <3>2 DEF FreshGet
  <2> QED BY <2>2, <2>3
<1>13. issued.of # token'.of \/ issued.expires <= umamiTime
  BY <1>2, <1>4, <1>7 DEF Tokens
<1> QED BY <1>8, <1>9, <1>10, <1>11, <1>12, <1>13 DEF TokenInv

\* The first refusal of a read throws away the token it used and no later one.
LEMMA FirstRefusalStep ==
  ASSUME TokenInv, NEW g \in Gets, GetRefused(g), umamiGet[g].attempt = 0
  PROVE  TokenInv' /\ (token' = token \/ token'.of = 0)
<1> DEFINE r == umamiGet[g]
           pc == IF token'.of # 0 /\ umamiTime < token'.expires THEN "sending" ELSE "waiting"
           n == [r EXCEPT !.attempt = 1, !.pc = pc, !.of = token'.of]
<1>1. /\ r.pc = "sending" /\ r.of # epoch /\ token' = Discarded(r.of)
      /\ umamiGet' = [umamiGet EXCEPT ![g] = n]
      /\ UNCHANGED <<umamiTime, epoch, tokenLock, issued>>
  BY DEF GetRefused
<1>2. r \in GetRecords /\ token \in Tokens /\ issued \in Tokens /\ epoch \in Nat /\ umamiTime \in Nat
  BY DEF TokenInv, TokenTyped
<1>3. r.of < epoch /\ r.of \in Nat /\ r.since <= epoch /\ r.since \in Nat
  BY <1>1, <1>2 DEF TokenInv, GetsInTime, GetRecords
<1>4. /\ token' \in Tokens /\ token'.expires = token.expires
      /\ token'.of = IF token.of = r.of THEN 0 ELSE token.of
      /\ token' = token \/ token'.of = 0
  BY <1>1, <1>2 DEF Discarded, Tokens
<1>5. token'.of \in Nat /\ pc \in {"sending", "waiting"} /\ (pc = "sending" => token'.of # 0)
  BY <1>4 DEF Tokens
<1> HIDE DEF pc
<1>6. n \in GetRecords /\ n.pc = pc /\ n.attempt = 1 /\ n.of = token'.of /\ n.since = r.since
  BY <1>2, <1>5 DEF GetRecords
<1> HIDE DEF n
<1>7. umamiGet'[g] = n /\ \A v \in Gets : v # g => umamiGet'[v] = umamiGet[v]
  BY <1>1 DEF TokenInv, TokenTyped
<1>8. TokenTyped'
  BY <1>1, <1>2, <1>4, <1>6 DEF TokenInv, TokenTyped
<1>9. TokenOfIssued'
  BY <1>1, <1>2, <1>3, <1>4 DEF TokenInv, TokenOfIssued, Tokens
<1>10. LoginsNeeded'
  BY <1>1, <1>4, <1>5, <1>6, <1>7 DEF TokenInv, LoginsNeeded
<1>11. token'.of <= epoch
  BY <1>2, <1>4 DEF TokenInv, TokenOfIssued, Tokens
<1>12. GetsInTime'
  BY <1>1, <1>3, <1>5, <1>6, <1>7, <1>11 DEF TokenInv, GetsInTime
<1>13. \A v \in Gets : umamiGet'[v].pc = "storing" => v # g /\ umamiGet[v].pc = "storing" /\ umamiGet'[v] = umamiGet[v]
  BY <1>5, <1>6, <1>7
<1>14. ASSUME NEW h \in Gets PROVE FreshGet(umamiGet[h])'
  <2>1. CASE h = g
    <3>1. /\ token.of = 0 \/ token.of >= r.since \/ token.of = r.of
          /\ \A v \in Gets : umamiGet[v].pc = "storing" => umamiGet[v].of >= r.since
      BY <1>1 DEF TokenInv, FreshGet
    <3>2. token'.of = 0 \/ token'.of >= r.since
      BY <1>4, <3>1
    <3> QED BY <1>5, <1>6, <1>7, <1>13, <2>1, <3>1, <3>2 DEF FreshGet
  <2>2. CASE h # g
    <3> DEFINE waits == umamiGet[h].pc = "sending" \/ (umamiGet[h].attempt = 1 /\ umamiGet[h].pc \in {"waiting", "login", "storing"})
    <3>1. waits => token'.of = 0 \/ token'.of >= umamiGet[h].since \/ (umamiGet[h].attempt = 0 /\ token'.of = umamiGet[h].of)
      BY <1>4 DEF TokenInv, FreshGet
    <3>2. waits => \A v \in Gets : umamiGet'[v].pc = "storing" => umamiGet'[v].of >= umamiGet[h].since
      BY <1>13 DEF TokenInv, FreshGet
    <3>3. umamiGet[h].pc = "sending" /\ umamiGet[h].attempt = 1 => umamiGet[h].of >= umamiGet[h].since
      BY DEF TokenInv, FreshGet
    <3> QED BY <1>7, <2>2, <3>1, <3>2, <3>3 DEF FreshGet
  <2> QED BY <2>1, <2>2
<1> QED BY <1>4, <1>8, <1>9, <1>10, <1>12, <1>14 DEF TokenInv

LEMMA TokenStep ==
  ASSUME TokenInv, TokenNext \/ UmamiTick
  PROVE  TokenInv' /\ (token' = token \/ token'.of = 0 \/ issued.of # token'.of \/ issued.expires <= umamiTime)
<1>1. /\ umamiTime \in Nat /\ epoch \in Nat \ {0} /\ token \in Tokens /\ issued \in Tokens
      /\ \A g \in Gets : umamiGet[g] \in GetRecords /\ g # "none"
  BY ProviderAssumption DEF TokenInv, TokenTyped
<1>2. token.of \in Nat /\ token.expires \in Nat /\ issued.of \in Nat /\ issued.expires \in Nat /\ token.of <= epoch
  BY <1>1 DEF Tokens, TokenInv, TokenOfIssued
<1>3. ASSUME NEW g \in Gets, GetBegins(g) PROVE TokenInv' /\ token' = token
  <2> DEFINE n == Authenticate([GetIdle EXCEPT !.since = epoch])
  <2>1. umamiGet' = [umamiGet EXCEPT ![g] = n] /\ UNCHANGED <<umamiTime, epoch, token, tokenLock, issued>>
    BY <1>3 DEF GetBegins
  <2>2. /\ n \in GetRecords /\ n.pc = (IF TokenLives THEN "sending" ELSE "waiting")
        /\ n.of = (IF TokenLives THEN token.of ELSE 0) /\ n.attempt = 0 /\ n.since = epoch
    BY <1>1, <1>2 DEF Authenticate, GetIdle, GetRecords
  <2> HIDE DEF n
  <2>3. n.pc = "sending" => \A v \in Gets : umamiGet[v].pc # "storing"
    BY <2>2, NoLoginBesideToken
  <2>4. n.of <= epoch /\ n.since <= epoch /\ n.pc \in {"sending", "waiting"} /\ (n.pc = "sending" => token.of = n.of)
    BY <1>1, <1>2, <2>2
  <2>5. n.pc # "refused" /\ n.pc \notin {"login", "storing"} /\ n.pc # "storing"
    BY <2>4
  <2>6. n.pc = "sending" \/ (n.attempt = 1 /\ n.pc \in {"waiting", "login", "storing"}) =>
          /\ token.of = 0 \/ token.of >= n.since \/ (n.attempt = 0 /\ token.of = n.of)
          /\ \A v \in Gets : v # g /\ umamiGet[v].pc = "storing" => umamiGet[v].of >= n.since
          /\ n.pc = "sending" /\ n.attempt = 1 => n.of >= n.since
    BY <2>2, <2>3, <2>4
  <2>7. n \in GetRecords /\ n.of <= epoch /\ n.since <= epoch /\ tokenLock' = tokenLock
    BY <2>1, <2>2, <2>4
  <2> QED BY <2>1, <2>5, <2>6, <2>7, GetMoves
<1>4. ASSUME NEW g \in Gets, TakeTokenLock(g) PROVE TokenInv' /\ token' = token
  <2> DEFINE r == umamiGet[g]
  <2>1. r.pc = "waiting" /\ tokenLock = "none" /\ UNCHANGED <<umamiTime, epoch, token, issued>>
    BY <1>4 DEF TakeTokenLock
  <2>2. r \in GetRecords /\ r.of <= epoch /\ r.since <= epoch
    BY <1>1 DEF TokenInv, GetsInTime
  <2>3. \A v \in Gets : umamiGet[v].pc \notin {"login", "storing"}
    BY <1>1, <2>1 DEF TokenInv, LoginsNeeded
  <2>4. r.attempt = 1 => token.of = 0 \/ token.of >= r.since
    BY <2>1 DEF TokenInv, FreshGet
  <2>5. CASE TokenLives
    <3> DEFINE n == [r EXCEPT !.pc = "sending", !.of = token.of]
    <3>1. umamiGet' = [umamiGet EXCEPT ![g] = n] /\ tokenLock' = tokenLock /\ token.of # 0
      BY <1>4, <2>5 DEF TakeTokenLock, TokenRecheck, Authenticate, TokenInv, TokenTyped, TokenLives
    <3>2. /\ n \in GetRecords /\ n.pc = "sending" /\ n.of = token.of /\ n.attempt = r.attempt /\ n.since = r.since
          /\ r.attempt \in {0, 1}
      BY <1>2, <2>2 DEF GetRecords
    <3> HIDE DEF n
    <3> QED BY <1>2, <2>1, <2>2, <2>3, <2>4, <3>1, <3>2, GetMoves
  <2>6. CASE ~TokenLives
    <3> DEFINE n == [r EXCEPT !.pc = "login"]
    <3>1. umamiGet' = [umamiGet EXCEPT ![g] = n] /\ tokenLock' = g
      BY <1>4, <2>6 DEF TakeTokenLock, TokenRecheck, TokenInv, TokenTyped
    <3>2. token.of = 0 \/ token.expires <= umamiTime
      BY <1>1, <1>2, <2>6 DEF TokenLives
    <3>3. /\ n \in GetRecords /\ n.pc = "login" /\ n.of = r.of /\ n.attempt = r.attempt /\ n.since = r.since
      BY <2>2 DEF GetRecords
    <3> HIDE DEF n
    <3> QED BY <2>1, <2>2, <2>3, <2>4, <3>1, <3>2, <3>3, GetMoves
  <2> QED BY <2>5, <2>6
<1>5. ASSUME NEW g \in Gets, LoginAnswered(g) PROVE TokenInv' /\ token' = token
  <2> DEFINE r == umamiGet[g]
             n == [r EXCEPT !.pc = "storing", !.of = epoch]
  <2>1. /\ r.pc = "login" /\ UNCHANGED <<umamiTime, epoch, token, tokenLock, issued>>
        /\ umamiGet' = [umamiGet EXCEPT ![g] = n]
    BY <1>5 DEF LoginAnswered, TokenInv, TokenTyped
  <2>2. r \in GetRecords /\ r.since <= epoch
    BY <1>1 DEF TokenInv, GetsInTime
  <2>3. n \in GetRecords /\ n.pc = "storing" /\ n.of = epoch /\ n.attempt = r.attempt /\ n.since = r.since
    BY <1>1, <2>2 DEF GetRecords
  <2> HIDE DEF n
  <2>4. tokenLock = g /\ (token.of = 0 \/ token.expires <= umamiTime)
    BY <2>1 DEF TokenInv, LoginsNeeded
  <2>5. issued.of < epoch \/ issued.expires <= umamiTime
    BY <2>4 DEF TokenInv, TokenOfIssued
  <2>6. r.attempt = 1 => /\ token.of = 0 \/ token.of >= r.since
                         /\ \A v \in Gets : umamiGet[v].pc = "storing" => umamiGet[v].of >= r.since
    BY <2>1 DEF TokenInv, FreshGet
  <2>7. n.pc \in {"login", "storing"} => tokenLock' = g /\ (token.of = 0 \/ token.expires <= umamiTime)
    BY <2>1, <2>4
  <2>8. n.pc = "storing" => n.of = epoch /\ (issued.of < n.of \/ issued.expires <= umamiTime)
    BY <2>3, <2>5
  <2>9. n.pc = "sending" \/ (n.attempt = 1 /\ n.pc \in {"waiting", "login", "storing"}) =>
          /\ token.of = 0 \/ token.of >= n.since \/ (n.attempt = 0 /\ token.of = n.of)
          /\ \A v \in Gets : v # g /\ umamiGet[v].pc = "storing" => umamiGet[v].of >= n.since
          /\ n.pc = "sending" /\ n.attempt = 1 => n.of >= n.since
    BY <2>3, <2>6
  <2>10. n.of <= epoch /\ n.since <= epoch /\ n.pc # "refused" /\ tokenLock' = tokenLock
    BY <1>1, <2>1, <2>2, <2>3
  <2> QED BY <2>1, <2>3, <2>7, <2>8, <2>9, <2>10, GetMoves
<1>6. ASSUME NEW g \in Gets, NEW pc \in {"failed", "answered", "refused"}, umamiGet' = [umamiGet EXCEPT ![g].pc = pc],
             \A v \in Gets : v # g /\ umamiGet[v].pc \in {"login", "storing"} => tokenLock' = tokenLock,
             pc = "refused" => epoch > umamiGet[g].since,
             UNCHANGED <<umamiTime, epoch, token, issued>>
      PROVE  TokenInv' /\ token' = token
  <2> DEFINE n == [umamiGet[g] EXCEPT !.pc = pc]
  <2>1. umamiGet' = [umamiGet EXCEPT ![g] = n]
    BY <1>6 DEF TokenInv, TokenTyped
  <2>2. n \in GetRecords /\ n.pc = pc /\ n.of = umamiGet[g].of /\ n.since = umamiGet[g].since
    BY <1>1 DEF GetRecords
  <2>3. umamiGet[g].of <= epoch /\ umamiGet[g].since <= epoch
    BY DEF TokenInv, GetsInTime
  <2> HIDE DEF n
  <2> QED BY <1>6, <2>1, <2>2, <2>3, GetMoves
<1>7. ASSUME NEW g \in Gets, LoginFails(g) \/ GetAnswered(g) PROVE TokenInv' /\ token' = token
  <2>1. CASE LoginFails(g)
    <3>1. tokenLock = g
      BY <2>1 DEF LoginFails, TokenInv, LoginsNeeded
    <3>2. \A v \in Gets : v # g => umamiGet[v].pc \notin {"login", "storing"}
      BY <3>1 DEF TokenInv, LoginsNeeded
    <3> QED BY <1>6, <2>1, <3>2 DEF LoginFails
  <2>2. CASE GetAnswered(g)
    BY <1>6, <2>2 DEF GetAnswered
  <2> QED BY <1>7, <2>1, <2>2
<1>8. ASSUME NEW g \in Gets, GetRefused(g) PROVE TokenInv' /\ (token' = token \/ token'.of = 0)
  <2>1. CASE umamiGet[g].attempt = 0
    BY <1>8, <2>1, FirstRefusalStep
  <2>2. CASE umamiGet[g].attempt # 0
    <3>1. umamiGet[g].attempt = 1 /\ umamiGet[g].of \in Nat /\ umamiGet[g].since \in Nat
      BY <1>1, <2>2 DEF GetRecords
    <3>2. umamiGet[g].pc = "sending" /\ umamiGet[g].of # epoch
      BY <1>8 DEF GetRefused
    <3>3. umamiGet[g].of >= umamiGet[g].since /\ umamiGet[g].of <= epoch
      BY <3>1, <3>2 DEF TokenInv, FreshGet, GetsInTime
    <3>4. epoch > umamiGet[g].since
      BY <1>1, <3>1, <3>2, <3>3
    <3>5. umamiGet' = [umamiGet EXCEPT ![g].pc = "refused"] /\ UNCHANGED <<umamiTime, epoch, token, tokenLock, issued>>
      BY <1>8, <2>2 DEF GetRefused
    <3> QED BY <1>6, <3>4, <3>5
  <2> QED BY <2>1, <2>2
<1>9. ASSUME UmamiForgets PROVE TokenInv' /\ token' = token
  <2>1. epoch' = epoch + 1 /\ UNCHANGED <<umamiTime, token, tokenLock, umamiGet, issued>>
    BY <1>9 DEF UmamiForgets
  <2>2. \A g \in Gets : umamiGet[g].of \in Nat /\ umamiGet[g].since \in Nat
    BY <1>1 DEF GetRecords
  <2>3. TokenTyped' /\ TokenOfIssued' /\ LoginsNeeded'
    BY <1>1, <1>2, <2>1 DEF TokenInv, TokenTyped, TokenOfIssued, LoginsNeeded
  <2>4. GetsInTime'
    BY <1>1, <2>1, <2>2 DEF TokenInv, GetsInTime
  <2> QED BY <2>1, <2>3, <2>4 DEF TokenInv, FreshGet
<1>10. ASSUME UmamiTick PROVE TokenInv' /\ token' = token
  <2>1. umamiTime' = umamiTime + 1 /\ UNCHANGED <<epoch, token, tokenLock, umamiGet, issued>>
    BY <1>10 DEF UmamiTick, tokenVars
  <2>2. LoginsNeeded'
    BY <1>1, <1>2, <2>1 DEF TokenInv, LoginsNeeded
  <2> QED BY <1>1, <2>1, <2>2 DEF TokenInv, TokenTyped, TokenOfIssued, GetsInTime, FreshGet
<1> QED BY <1>3, <1>4, <1>5, <1>7, <1>8, <1>9, <1>10, LoginStoredStep DEF TokenNext

(***************************************************************************)
(* Providers: the window cache                                             *)
(***************************************************************************)
WindowTyped ==
  /\ umamiTime \in Nat /\ windowEntry \in Nat /\ windowLock \in LockIds \cup {0}
  /\ windowHeld \in [LockIds -> Gets \cup {"none"}]
  /\ windowRead \in [Gets -> [pc : {"idle", "waiting", "fetching"}, lock : LockIds \cup {0}]]

\* A fetch holds the lock of the table while there is no entry; a request that waits for a
\* lock that left the table finds the entry.
WindowInv ==
  /\ WindowTyped
  /\ \A w \in Gets : windowRead[w].pc = "idle" <=> windowRead[w].lock = 0
  /\ \A w \in Gets : windowRead[w].pc = "waiting" =>
       windowRead[w].lock = windowLock \/ (EntryLives /\ windowHeld[windowRead[w].lock] = "none")
  /\ \A w \in Gets : windowRead[w].pc = "fetching" =>
       windowRead[w].lock = windowLock /\ windowHeld[windowLock] = w /\ ~EntryLives
  /\ \A l \in LockIds : windowHeld[l] # "none" =>
       windowRead[windowHeld[l]].pc = "fetching" /\ windowRead[windowHeld[l]].lock = l

\* There is a lock object for a request that needs one: the others use fewer.
LEMMA LockLeft ==
  ASSUME WindowInv, NEW w \in Gets, windowRead[w].pc = "idle", windowLock = 0
  PROVE  NewLock \in LockIds
<1>1. IsFiniteSet(Gets) /\ Cardinality(Gets) \in Nat /\ Cardinality(Gets) # 0
  BY ProviderAssumption, FS_CardinalityType, FS_EmptySet
<1>2. IsFiniteSet(Gets \ {w}) /\ Cardinality(Gets \ {w}) = Cardinality(Gets) - 1
  BY <1>1, FS_RemoveElement
<1>3. IsFiniteSet(LockIds) /\ Cardinality(LockIds) = Cardinality(Gets)
  BY <1>1, FS_Interval DEF LockIds
<1>4. 0 \notin LockIds
  BY <1>1 DEF LockIds
<1>5. \E l \in LockIds : \A v \in Gets : windowRead[v].lock # l
  <2> SUFFICES ASSUME \A l \in LockIds : \E v \in Gets : windowRead[v].lock = l PROVE FALSE
    OBVIOUS
  <2> DEFINE taker == [l \in LockIds |-> CHOOSE v \in Gets : windowRead[v].lock = l]
  <2>1. \A l \in LockIds : taker[l] \in Gets /\ windowRead[taker[l]].lock = l
    OBVIOUS
  <2>2. \A l \in LockIds : taker[l] # w
    BY <1>4, <2>1 DEF WindowInv
  <2> HIDE DEF taker
  <2>3. taker \in [LockIds -> Gets \ {w}]
    BY <2>1, <2>2 DEF taker
  <2>4. taker \in Injection(LockIds, Gets \ {w})
    BY <2>1, <2>3 DEF Injection, IsInjective
  <2>5. Cardinality(LockIds) <= Cardinality(Gets \ {w})
    BY <1>2, <2>4, FS_Injection
  <2> QED BY <1>1, <1>2, <1>3, <2>5
<1>6. \E l \in LockIds : l # windowLock /\ \A v \in Gets : windowRead[v].lock # l
  BY <1>4, <1>5
<1> QED BY <1>6 DEF NewLock

\* While the entry is there nobody fetches and no lock is held.
LEMMA NoFetchBesideEntry ==
  ASSUME WindowInv, EntryLives
  PROVE  /\ \A v \in Gets : windowRead[v].pc # "fetching"
         /\ \A l \in LockIds : windowHeld[l] = "none"
<1>1. \A v \in Gets : windowRead[v].pc # "fetching"
  BY DEF WindowInv
<1>2. \A l \in LockIds : windowHeld[l] \in Gets \cup {"none"}
  BY DEF WindowInv, WindowTyped
<1> QED BY <1>1, <1>2 DEF WindowInv

LEMMA ReadWindowStep == ASSUME WindowInv, NEW w \in Gets, ReadWindow(w) PROVE WindowInv'
<1> DEFINE n == [pc |-> "waiting", lock |-> windowLock']
<1>1. /\ windowRead[w].pc = "idle" /\ ~EntryLives /\ windowRead' = [windowRead EXCEPT ![w] = n]
      /\ windowLock' = (IF windowLock = 0 THEN NewLock ELSE windowLock)
      /\ UNCHANGED <<umamiTime, windowEntry, windowHeld>> /\ ~EntryLives'
  BY DEF ReadWindow, EntryLives
<1>2. windowLock' \in LockIds /\ 0 \notin LockIds
  <2>1. Cardinality(Gets) \in Nat
    BY ProviderAssumption, FS_CardinalityType
  <2>2. 0 \notin LockIds
    BY <2>1 DEF LockIds
  <2>3. CASE windowLock = 0
    BY <1>1, <2>2, <2>3, LockLeft
  <2>4. CASE windowLock # 0
    BY <1>1, <2>2, <2>4 DEF WindowInv, WindowTyped
  <2> QED BY <2>3, <2>4
<1>3. n \in [pc : {"idle", "waiting", "fetching"}, lock : LockIds \cup {0}] /\ n.pc = "waiting" /\ n.lock = windowLock'
  BY <1>2
<1> HIDE DEF n
<1>4. WindowTyped'
  BY <1>1, <1>2, <1>3 DEF WindowInv, WindowTyped
<1>5. windowRead'[w] = n /\ \A v \in Gets : v # w => windowRead'[v] = windowRead[v]
  BY <1>1 DEF WindowInv, WindowTyped
<1>6. \A v \in Gets : windowRead[v].pc \in {"idle", "waiting", "fetching"}
  BY DEF WindowInv, WindowTyped
<1>7. \A v \in Gets : windowRead[v].pc # "idle" => windowRead[v].lock = windowLock /\ windowLock # 0
  BY <1>1, <1>6 DEF WindowInv
<1>8. (\E v \in Gets : windowRead[v].pc # "idle") => windowLock' = windowLock
  BY <1>1, <1>7
<1>9. \A v \in Gets : windowRead'[v].pc = "idle" <=> windowRead'[v].lock = 0
  BY <1>2, <1>3, <1>5 DEF WindowInv
<1>10. \A v \in Gets : windowRead'[v].pc = "waiting" => windowRead'[v].lock = windowLock'
  BY <1>3, <1>5, <1>7, <1>8
<1>11. \A v \in Gets : windowRead'[v].pc = "fetching" => windowRead'[v].lock = windowLock' /\ windowHeld'[windowLock'] = v
  BY <1>1, <1>3, <1>5, <1>8 DEF WindowInv
<1>12. \A l \in LockIds : windowHeld'[l] # "none" =>
         windowRead'[windowHeld'[l]].pc = "fetching" /\ windowRead'[windowHeld'[l]].lock = l
  <2> SUFFICES ASSUME NEW l \in LockIds, windowHeld[l] # "none"
               PROVE  windowRead'[windowHeld[l]].pc = "fetching" /\ windowRead'[windowHeld[l]].lock = l
    BY <1>1
  <2>1. windowHeld[l] \in Gets /\ windowRead[windowHeld[l]].pc = "fetching" /\ windowRead[windowHeld[l]].lock = l
    BY DEF WindowInv, WindowTyped
  <2> QED BY <1>1, <1>5, <2>1
<1> QED BY <1>1, <1>4, <1>9, <1>10, <1>11, <1>12 DEF WindowInv

\* The second look behind the lock: the fetch begins only without an entry and without another.
LEMMA TakeWindowLockStep ==
  ASSUME WindowInv, NEW w \in Gets, TakeWindowLock(w)
  PROVE  WindowInv' /\ (EntryLives \/ \A v \in Gets : windowRead[v].pc # "fetching")
<1> DEFINE k == windowRead[w].lock
<1>1. windowRead[w].pc = "waiting" /\ windowHeld[k] = "none" /\ UNCHANGED <<umamiTime, windowEntry>>
  BY DEF TakeWindowLock, Runnable
<1>2. k \in LockIds /\ 0 \notin LockIds /\ w # "none"
  <2>1. Cardinality(Gets) \in Nat
    BY ProviderAssumption, FS_CardinalityType
  <2>2. 0 \notin LockIds
    BY <2>1 DEF LockIds
  <2> QED BY <1>1, <2>2, ProviderAssumption DEF WindowInv, WindowTyped
<1>3. CASE EntryLives
  <2>1. windowRead' = [windowRead EXCEPT ![w] = ReadIdle] /\ windowLock' = 0 /\ windowHeld' = windowHeld /\ EntryLives'
    BY <1>1, <1>3 DEF TakeWindowLock, WindowRecheck, EntryLives
  <2>2. windowRead'[w] = ReadIdle /\ \A v \in Gets : v # w => windowRead'[v] = windowRead[v]
    BY <2>1 DEF WindowInv, WindowTyped
  <2>3. WindowTyped'
    BY <1>1, <2>1 DEF WindowInv, WindowTyped, ReadIdle
  <2>4. /\ \A v \in Gets : windowRead[v].pc # "fetching"
        /\ \A l \in LockIds : windowHeld[l] = "none"
    BY <1>3, NoFetchBesideEntry
  <2>5. \A v \in Gets : windowRead'[v].pc = "idle" <=> windowRead'[v].lock = 0
    BY <2>2 DEF WindowInv, ReadIdle
  <2>6. \A v \in Gets : windowRead'[v].pc # "fetching"
    BY <2>2, <2>4 DEF ReadIdle
  <2>7. \A v \in Gets : windowRead'[v].pc = "waiting" => windowHeld'[windowRead'[v].lock] = "none"
    <3> SUFFICES ASSUME NEW v \in Gets, windowRead'[v].pc = "waiting" PROVE windowHeld'[windowRead'[v].lock] = "none"
      OBVIOUS
    <3>1. v # w /\ windowRead'[v] = windowRead[v]
      BY <2>2 DEF ReadIdle
    <3>2. windowRead[v].lock \in LockIds
      BY <3>1 DEF WindowInv, WindowTyped
    <3> QED BY <2>1, <2>4, <3>1, <3>2
  <2>8. \A l \in LockIds : windowHeld'[l] = "none"
    BY <2>1, <2>4
  <2> QED BY <1>3, <2>1, <2>3, <2>5, <2>6, <2>7, <2>8 DEF WindowInv
<1>4. CASE ~EntryLives
  <2>1. /\ windowRead' = [windowRead EXCEPT ![w].pc = "fetching"] /\ windowLock' = windowLock /\ ~EntryLives'
        /\ windowHeld' = [windowHeld EXCEPT ![k] = w]
    BY <1>1, <1>4 DEF TakeWindowLock, WindowRecheck, EntryLives
  <2>2. k = windowLock
    BY <1>1, <1>4 DEF WindowInv
  <2>3. \A v \in Gets : windowRead[v].pc # "fetching"
    BY <1>1, <1>2, <2>2, ProviderAssumption DEF WindowInv
  <2>4. \A l \in LockIds : windowHeld[l] = "none"
    BY <2>3 DEF WindowInv, WindowTyped
  <2>5. /\ windowRead'[w].pc = "fetching" /\ windowRead'[w].lock = k
        /\ \A v \in Gets : v # w => windowRead'[v] = windowRead[v]
    BY <2>1 DEF WindowInv, WindowTyped
  <2>6. windowHeld'[k] = w /\ \A l \in LockIds : l # k => windowHeld'[l] = "none"
    BY <1>2, <2>1, <2>4 DEF WindowInv, WindowTyped
  <2>7. WindowTyped'
    BY <1>1, <1>2, <2>1 DEF WindowInv, WindowTyped
  <2>8. \A v \in Gets : windowRead'[v].pc = "idle" <=> windowRead'[v].lock = 0
    BY <1>2, <2>5 DEF WindowInv
  <2>9. \A v \in Gets : windowRead'[v].pc = "waiting" => windowRead'[v].lock = windowLock'
    BY <1>4, <2>1, <2>5 DEF WindowInv
  <2>10. \A v \in Gets : windowRead'[v].pc = "fetching" =>
            windowRead'[v].lock = windowLock' /\ windowHeld'[windowLock'] = v /\ ~EntryLives'
    BY <2>1, <2>2, <2>3, <2>5, <2>6
  <2>11. \A l \in LockIds : windowHeld'[l] # "none" =>
            windowRead'[windowHeld'[l]].pc = "fetching" /\ windowRead'[windowHeld'[l]].lock = l
    BY <2>5, <2>6
  <2> QED BY <2>3, <2>7, <2>8, <2>9, <2>10, <2>11 DEF WindowInv
<1> QED BY <1>3, <1>4

LEMMA WindowFetchedStep == ASSUME WindowInv, NEW w \in Gets, WindowFetched(w) PROVE WindowInv'
<1> DEFINE k == windowRead[w].lock
<1>1. /\ windowRead[w].pc = "fetching" /\ windowRead' = [windowRead EXCEPT ![w] = ReadIdle]
      /\ windowHeld' = [windowHeld EXCEPT ![k] = "none"] /\ windowLock' = 0 /\ umamiTime' = umamiTime
  BY DEF WindowFetched
<1>2. windowEntry' = umamiTime + WindowLife \/ windowEntry' = umamiTime + 1
  BY DEF WindowFetched
<1>3. EntryLives' /\ windowEntry' \in Nat
  BY <1>1, <1>2, ProviderAssumption DEF EntryLives, WindowInv, WindowTyped
<1>4. k = windowLock /\ windowHeld[k] = w /\ ~EntryLives
  BY <1>1 DEF WindowInv
<1>5. k \in LockIds
  BY <1>1 DEF WindowInv, WindowTyped
<1>6. windowRead'[w] = ReadIdle /\ \A v \in Gets : v # w => windowRead'[v] = windowRead[v]
  BY <1>1 DEF WindowInv, WindowTyped
<1>7. \A v \in Gets : v # w => windowRead[v].pc # "fetching"
  BY <1>4 DEF WindowInv
<1>8. \A l \in LockIds : windowHeld'[l] = "none"
  <2> SUFFICES ASSUME NEW l \in LockIds, l # k PROVE windowHeld[l] = "none"
    BY <1>1, <1>5 DEF WindowInv, WindowTyped
  <2>1. windowHeld[l] # "none" => windowHeld[l] \in Gets /\ windowRead[windowHeld[l]].pc = "fetching" /\ windowRead[windowHeld[l]].lock = l
    BY DEF WindowInv, WindowTyped
  <2> QED BY <1>7, <2>1
<1>9. WindowTyped'
  BY <1>1, <1>3, <1>5 DEF WindowInv, WindowTyped, ReadIdle
<1>10. \A v \in Gets : windowRead'[v].pc = "idle" <=> windowRead'[v].lock = 0
  BY <1>6 DEF WindowInv, ReadIdle
<1>11. \A v \in Gets : windowRead'[v].pc # "fetching"
  BY <1>6, <1>7 DEF ReadIdle
<1>12. \A v \in Gets : windowRead'[v].pc = "waiting" => windowHeld'[windowRead'[v].lock] = "none"
  <2> SUFFICES ASSUME NEW v \in Gets, windowRead'[v].pc = "waiting" PROVE windowRead'[v].lock \in LockIds
    BY <1>8
  <2> QED BY <1>9, <1>10 DEF WindowTyped
<1> QED BY <1>3, <1>8, <1>9, <1>10, <1>11, <1>12 DEF WindowInv

\* Seconds pass only when nobody waits for a free lock, so no entry ends under a request that
\* waits for a lock that left the table.
LEMMA WindowTickStep == WindowInv /\ UmamiTick => WindowInv'
<1> SUFFICES ASSUME WindowInv, UmamiTick PROVE WindowInv'
  OBVIOUS
<1>1. umamiTime' = umamiTime + 1 /\ UNCHANGED <<windowEntry, windowLock, windowHeld, windowRead>>
  BY DEF UmamiTick, windowVars
<1>2. \A v \in Gets : windowRead[v].pc = "waiting" => windowRead[v].lock = windowLock
  BY DEF UmamiTick, Runnable, WindowInv
<1>3. ~EntryLives => ~EntryLives'
  BY <1>1 DEF EntryLives, WindowInv, WindowTyped
<1>4. WindowTyped'
  BY <1>1 DEF WindowInv, WindowTyped
<1> QED BY <1>1, <1>2, <1>3, <1>4 DEF WindowInv

(***************************************************************************)
(* Providers: all of them together                                         *)
(***************************************************************************)
ProviderInv == GeminiInv /\ NewsInv /\ TokenInv /\ WindowInv

LEMMA ProviderInvInit == ProviderInit => ProviderInv
<1> SUFFICES ASSUME ProviderInit PROVE ProviderInv
  OBVIOUS
<1>1. GeminiInv
  <2>1. CallTyped
    BY ProviderAssumption DEF ProviderInit, CallTyped, CallRecords, NoCall
  <2>2. Occupied = {}
    BY DEF ProviderInit, Occupied, NoCall
  <2>3. SlotsInv
    BY <2>2, FS_EmptySet, ProviderAssumption DEF SlotsInv, ProviderInit
  <2>4. DeadlineInv
    BY DEF ProviderInit, DeadlineInv, NoCall
  <2> QED BY <2>1, <2>3, <2>4 DEF GeminiInv
<1>2. NewsInv
  <2>1. NewsIdle \in NewsRecords
    BY ProviderAssumption DEF NewsIdle, NewsRecords
  <2>2. \A w \in NewsRuns : newsRun[w] = NewsIdle
    BY DEF ProviderInit
  <2>3. /\ NewsIdle.pc = "idle" /\ NewsIdle.rows = {} /\ NewsIdle.log = <<>> /\ NewsIdle.failures = 0
        /\ NewsIdle.enabled = TRUE /\ NewsIdle.opened = 0
    BY DEF NewsIdle
  <2>4. NewsTyped
    BY <2>1 DEF ProviderInit, NewsTyped
  <2>5. WorkInv
    BY <2>2, <2>3 DEF ProviderInit, WorkInv, Refreshing
  <2>6. LogSpared(<<>>) /\ BreakerKnows(<<>>, 0, 0, TRUE)
    BY ProviderAssumption DEF LogSpared, BreakerKnows
  <2>7. BreakerInv
    BY <2>2, <2>3, <2>6 DEF BreakerInv
  <2> QED BY <2>4, <2>5, <2>7 DEF NewsInv
<1>3. TokenInv
  <2>1. \A g \in Gets : umamiGet[g] = GetIdle
    BY DEF ProviderInit
  <2>2. TokenTyped
    BY DEF ProviderInit, TokenTyped, Tokens, NoToken, GetIdle, GetRecords
  <2>3. TokenOfIssued
    BY DEF ProviderInit, TokenOfIssued, NoToken
  <2>4. LoginsNeeded /\ GetsInTime
    BY <2>1 DEF ProviderInit, LoginsNeeded, GetsInTime, GetIdle
  <2>5. \A g \in Gets : FreshGet(umamiGet[g])
    BY <2>1 DEF FreshGet, GetIdle
  <2> QED BY <2>2, <2>3, <2>4, <2>5 DEF TokenInv
<1>4. WindowInv
  BY DEF ProviderInit, WindowInv, WindowTyped, ReadIdle
<1> QED BY <1>1, <1>2, <1>3, <1>4 DEF ProviderInv

\* What a step of the others leaves alone.
LEMMA GeminiFrame == GeminiInv /\ UNCHANGED geminiVars => GeminiInv'
BY DEF GeminiInv, CallTyped, SlotsInv, DeadlineInv, Occupied, geminiVars
LEMMA NewsFrame == NewsInv /\ UNCHANGED newsVars => NewsInv'
BY DEF NewsInv, NewsTyped, WorkInv, BreakerInv, newsVars
LEMMA TokenFrame == TokenInv /\ UNCHANGED <<umamiTime, tokenVars>> => TokenInv'
BY DEF TokenInv, TokenTyped, TokenOfIssued, LoginsNeeded, GetsInTime, FreshGet, tokenVars
LEMMA WindowFrame == WindowInv /\ UNCHANGED <<umamiTime, windowVars>> => WindowInv'
BY DEF WindowInv, WindowTyped, EntryLives, windowVars

\* A step of the providers, with what it may do to the token and to the fetches of a window.
LEMMA ProviderStep ==
  ASSUME ProviderInv, [GeminiNext \/ NewsNext \/ TokenNext \/ WindowNext]_providerVars
  PROVE  /\ ProviderInv'
         /\ token' = token \/ token'.of = 0 \/ issued.of # token'.of \/ issued.expires <= umamiTime
         /\ \A w \in Gets : windowRead[w].pc # "fetching" /\ windowRead'[w].pc = "fetching" =>
              ~ EntryLives /\ \A v \in Gets : windowRead[v].pc # "fetching"
<1> DEFINE shared == \A w \in Gets : windowRead[w].pc # "fetching" /\ windowRead'[w].pc = "fetching" =>
                       ~ EntryLives /\ \A v \in Gets : windowRead[v].pc # "fetching"
<1>1. GeminiInv /\ NewsInv /\ TokenInv /\ WindowInv
  BY DEF ProviderInv
<1>2. CASE GeminiNext
  <2>1. UNCHANGED <<newsVars, umamiTime, tokenVars, windowVars>>
    BY <1>2 DEF GeminiNext
  <2>2. token' = token /\ windowRead' = windowRead
    BY <2>1 DEF tokenVars, windowVars
  <2> QED BY <1>1, <1>2, <2>1, <2>2, GeminiStep, NewsFrame, TokenFrame, WindowFrame DEF ProviderInv
<1>3. CASE NewsNext
  <2>1. UNCHANGED <<geminiVars, umamiTime, tokenVars, windowVars>>
    BY <1>3 DEF NewsNext
  <2>2. token' = token /\ windowRead' = windowRead
    BY <2>1 DEF tokenVars, windowVars
  <2> QED BY <1>1, <1>3, <2>1, <2>2, GeminiFrame, NewsStep, TokenFrame, WindowFrame DEF ProviderInv
<1>4. ASSUME UmamiTick PROVE TokenInv' /\ WindowInv' /\ token' = token /\ windowRead' = windowRead
  BY <1>1, <1>4, TokenStep, WindowTickStep DEF UmamiTick, tokenVars, windowVars
<1>5. CASE TokenNext
  <2>1. UNCHANGED <<geminiVars, newsVars, windowVars>>
    BY <1>5 DEF TokenNext
  <2>2. WindowInv'
    <3>1. CASE UmamiTick
      BY <1>4, <3>1
    <3>2. CASE ~UmamiTick
      <4>1. umamiTime' = umamiTime
        BY <1>5, <3>2 DEF TokenNext, GetBegins, TakeTokenLock, LoginAnswered, LoginStored, LoginFails, GetAnswered,
                          GetRefused, UmamiForgets
      <4> QED BY <1>1, <2>1, <4>1, WindowFrame
    <3> QED BY <3>1, <3>2
  <2>3. windowRead' = windowRead
    BY <2>1 DEF windowVars
  <2>4. TokenInv' /\ (token' = token \/ token'.of = 0 \/ issued.of # token'.of \/ issued.expires <= umamiTime)
    BY <1>1, <1>5, TokenStep
  <2>5. shared
    BY <2>3
  <2> QED BY <1>1, <2>1, <2>2, <2>4, <2>5, GeminiFrame, NewsFrame DEF ProviderInv
<1>6. CASE WindowNext
  <2>1. UNCHANGED <<geminiVars, newsVars, tokenVars>>
    BY <1>6 DEF WindowNext
  <2>2. token' = token
    BY <2>1 DEF tokenVars
  <2>3. CASE UmamiTick
    BY <1>1, <1>4, <2>1, <2>2, <2>3, GeminiFrame, NewsFrame DEF ProviderInv
  <2>4. ASSUME NEW w \in Gets, ReadWindow(w) \/ TakeWindowLock(w) \/ WindowFetched(w) PROVE ProviderInv' /\ shared
    <3>1. WindowInv'
      BY <1>1, <2>4, ReadWindowStep, TakeWindowLockStep, WindowFetchedStep
    <3>2. umamiTime' = umamiTime
      BY <2>4 DEF ReadWindow, TakeWindowLock, WindowFetched
    <3>3. shared
      <4>1. CASE ReadWindow(w)
        BY <1>1, <4>1 DEF ReadWindow, WindowInv, WindowTyped
      <4>2. CASE TakeWindowLock(w)
        <5>1. CASE EntryLives
          BY <1>1, <4>2, <5>1 DEF TakeWindowLock, WindowRecheck, ReadIdle, WindowInv, WindowTyped
        <5>2. CASE ~EntryLives
          BY <1>1, <4>2, <5>2, TakeWindowLockStep
        <5> QED BY <5>1, <5>2
      <4>3. CASE WindowFetched(w)
        BY <1>1, <4>3 DEF WindowFetched, ReadIdle, WindowInv, WindowTyped
      <4> QED BY <2>4, <4>1, <4>2, <4>3
    <3> QED BY <1>1, <2>1, <3>1, <3>2, <3>3, GeminiFrame, NewsFrame, TokenFrame DEF ProviderInv
  <2> QED BY <1>6, <2>2, <2>3, <2>4 DEF WindowNext
<1>7. CASE UNCHANGED providerVars
  <2>1. UNCHANGED <<geminiVars, newsVars, umamiTime, tokenVars, windowVars>>
    BY <1>7 DEF providerVars
  <2>2. token' = token /\ windowRead' = windowRead
    BY <2>1 DEF tokenVars, windowVars
  <2> QED BY <1>1, <2>1, <2>2, GeminiFrame, NewsFrame, TokenFrame, WindowFrame DEF ProviderInv
<1> QED BY <1>2, <1>3, <1>5, <1>6, <1>7

\* Whoever times out, is cancelled, fails or is refused, outside services are used within bounds:
\* every slot has its thread and every thread its deadline, the breaker spares a failing provider,
\* a headline is worked on once, a login is made only for a token that can no longer be used, and
\* requests for a window share one fetch (gemini_provider.py, news_feed.py, behavioral_analytics.py).
THEOREM ProvidersAlwaysSpared == ProviderSpec => ProvidersSpared
<1>1. ProviderInv => SlotsMatchThreads /\ ThreadsMeetDeadline /\ NewsWorkedOnce /\ ProviderSpared /\ RefusalIsFresh
  <2> SUFFICES ASSUME ProviderInv
               PROVE  SlotsMatchThreads /\ ThreadsMeetDeadline /\ NewsWorkedOnce /\ ProviderSpared /\ RefusalIsFresh
    OBVIOUS
  <2>1. GeminiInv /\ NewsInv /\ TokenInv
    BY DEF ProviderInv
  <2>2. SlotsMatchThreads
    BY <2>1 DEF GeminiInv, SlotsInv, SlotsMatchThreads
  <2>3. ThreadsMeetDeadline
    <3> SUFFICES ASSUME NEW c \in Calls, geminiCall[c].thread = "running" PROVE callTime <= geminiCall[c].deadline
      BY DEF ThreadsMeetDeadline
    <3>1. callTime \in Nat /\ geminiCall[c].until \in Nat /\ geminiCall[c].deadline \in Nat
      BY <2>1 DEF GeminiInv, CallTyped, CallRecords
    <3> QED BY <2>1, <3>1 DEF GeminiInv, DeadlineInv
  <2>4. NewsWorkedOnce
    BY <2>1 DEF NewsInv, WorkInv, NewsWorkedOnce
  <2>5. ProviderSpared
    <3> SUFFICES ASSUME NEW w \in NewsRuns, NEW i \in DOMAIN newsRun[w].log
                 PROVE  LET log == newsRun[w].log IN
                        /\ \A j \in 1 .. i - 1 : log[j].answer # "auth"
                        /\ (i > BreakAfter /\ \A j \in i - BreakAfter .. i - 1 : log[j].answer # "ok")
                             => log[i].at >= log[i - 1].at + BreakFor
      BY DEF ProviderSpared
    <3>1. newsRun[w].log \in Seq(Answers) /\ LogSpared(newsRun[w].log)
      BY <2>1 DEF NewsInv, NewsTyped, NewsRecords, BreakerInv
    <3>2. i \in 1 .. Len(newsRun[w].log)
      BY <3>1
    <3> QED BY <3>1, <3>2 DEF LogSpared
  <2>6. RefusalIsFresh
    BY <2>1 DEF TokenInv, GetsInTime, RefusalIsFresh
  <2> QED BY <2>2, <2>3, <2>4, <2>5, <2>6
<1>2. ProviderInv /\ [GeminiNext \/ NewsNext \/ TokenNext \/ WindowNext]_providerVars => ProviderInv'
  BY ProviderStep
<1>3. ProviderInv /\ [GeminiNext \/ NewsNext \/ TokenNext \/ WindowNext]_providerVars =>
        [token'.of # 0 /\ token' # token => \/ issued.of # token'.of \/ issued.expires <= umamiTime]_tokenVars
  BY ProviderStep
<1>4. ProviderInv /\ [GeminiNext \/ NewsNext \/ TokenNext \/ WindowNext]_providerVars =>
        [\A w \in Gets : windowRead[w].pc # "fetching" /\ windowRead'[w].pc = "fetching" =>
           ~ EntryLives /\ \A v \in Gets : windowRead[v].pc # "fetching"]_windowVars
  BY ProviderStep
<1> QED BY <1>1, <1>2, <1>3, <1>4, ProviderInvInit, PTL DEF ProviderSpec, ProvidersSpared, LoginNeeded, WindowFetchShared

(***************************************************************************)
(* Limits: requests of an address                                          *)
(***************************************************************************)
\* The requests of an address and its window: the last count of them fall in the window, those
\* before it before its start, those before the limit's worth before it a whole window before;
\* so any two that are two limits apart are a window apart.
Windowed(s, started, count) ==
  /\ started \in Nat /\ count \in 1 .. RateLimit /\ count <= Len(s)
  /\ \A i \in 1 .. Len(s) :
       /\ i > Len(s) - count => s[i] >= started /\ s[i] < started + RateWindow
       /\ i <= Len(s) - count => s[i] < started
       /\ i <= Len(s) - count - RateLimit => s[i] + RateWindow <= started
  /\ \A i, j \in 1 .. Len(s) : j >= i + 2 * RateLimit => s[j] >= s[i] + RateWindow

AddressInv(a) ==
  /\ admitted[a] \in Seq(Nat)
  /\ \/ bucket[a] = NoBucket /\ admitted[a] = <<>>
     \/ /\ bucket[a] = [started |-> bucket[a].started, count |-> bucket[a].count]
        /\ Windowed(admitted[a], bucket[a].started, bucket[a].count) /\ bucket[a].started <= rateTime
RateInv == rateTime \in Nat /\ unfair = FALSE /\ \A a \in Addresses : AddressInv(a)

\* A request in a window that is not full, and the first request of a window (_check).
LEMMA WindowGrows ==
  ASSUME NEW s \in Seq(Nat), NEW started, NEW count, NEW at \in Nat, Windowed(s, started, count),
         started <= at, at < started + RateWindow, count < RateLimit
  PROVE  Windowed(Append(s, at), started, count + 1)
<1> DEFINE t == Append(s, at)
<1>1. RateLimit \in Nat \ {0} /\ RateWindow \in Nat \ {0}
  BY ActivityAssumption
<1>2. started \in Nat /\ count \in 1 .. RateLimit /\ count <= Len(s) /\ Len(s) \in Nat
  BY DEF Windowed
<1>3. Len(t) = Len(s) + 1 /\ t[Len(s) + 1] = at /\ \A i \in 1 .. Len(s) : t[i] = s[i] /\ s[i] \in Nat
  OBVIOUS
<1> HIDE DEF t
<1>4. ASSUME NEW i \in 1 .. Len(t)
      PROVE  /\ i > Len(t) - (count + 1) => t[i] >= started /\ t[i] < started + RateWindow
             /\ i <= Len(t) - (count + 1) => t[i] < started
             /\ i <= Len(t) - (count + 1) - RateLimit => t[i] + RateWindow <= started
  <2>1. CASE i = Len(s) + 1
    BY <1>1, <1>2, <1>3, <2>1
  <2>2. CASE i \in 1 .. Len(s)
    BY <1>1, <1>2, <1>3, <2>2, SMTT(30) DEF Windowed
  <2>3. i = Len(s) + 1 \/ i \in 1 .. Len(s)
    BY <1>2, <1>3
  <2> QED BY <2>1, <2>2, <2>3
<1>5. ASSUME NEW i \in 1 .. Len(t), NEW j \in 1 .. Len(t), j >= i + 2 * RateLimit
      PROVE  t[j] >= t[i] + RateWindow
  <2>1. i \in 1 .. Len(s)
    BY <1>1, <1>2, <1>3, <1>5
  <2>2. CASE j = Len(s) + 1
    <3>1. i <= Len(s) - count - RateLimit
      BY <1>1, <1>2, <1>5, <2>1, <2>2
    <3>2. s[i] + RateWindow <= started
      BY <2>1, <3>1 DEF Windowed
    <3> QED BY <1>1, <1>2, <1>3, <2>1, <2>2, <3>2
  <2>3. CASE j \in 1 .. Len(s)
    BY <1>3, <1>5, <2>1, <2>3 DEF Windowed
  <2>4. j = Len(s) + 1 \/ j \in 1 .. Len(s)
    BY <1>2, <1>3
  <2> QED BY <2>2, <2>3, <2>4
<1>6. count + 1 \in 1 .. RateLimit /\ count + 1 <= Len(t)
  BY <1>1, <1>2, <1>3
<1> QED BY <1>2, <1>4, <1>5, <1>6 DEF Windowed, t

LEMMA WindowOpens ==
  ASSUME NEW s \in Seq(Nat), NEW started, NEW count, NEW at \in Nat, Windowed(s, started, count),
         at >= started + RateWindow
  PROVE  Windowed(Append(s, at), at, 1)
<1> DEFINE t == Append(s, at)
<1>1. RateLimit \in Nat \ {0} /\ RateWindow \in Nat \ {0}
  BY ActivityAssumption
<1>2. started \in Nat /\ count \in 1 .. RateLimit /\ count <= Len(s) /\ Len(s) \in Nat
  BY DEF Windowed
<1>3. Len(t) = Len(s) + 1 /\ t[Len(s) + 1] = at /\ \A i \in 1 .. Len(s) : t[i] = s[i] /\ s[i] \in Nat
  OBVIOUS
<1> HIDE DEF t
<1>4. ASSUME NEW i \in 1 .. Len(s)
      PROVE  s[i] < at /\ (i <= Len(s) - RateLimit => s[i] + RateWindow <= at)
  <2>1. CASE i > Len(s) - count
    <3>1. s[i] < started + RateWindow
      BY <2>1 DEF Windowed
    <3>2. ~ (i <= Len(s) - RateLimit)
      BY <1>1, <1>2, <2>1
    <3> QED BY <1>1, <1>2, <1>3, <3>1, <3>2
  <2>2. CASE i <= Len(s) - count
    <3>1. s[i] < started
      BY <2>2 DEF Windowed
    <3> QED BY <1>1, <1>2, <1>3, <3>1
  <2> QED BY <1>2, <2>1, <2>2
<1>5. ASSUME NEW i \in 1 .. Len(t)
      PROVE  /\ i > Len(t) - 1 => t[i] >= at /\ t[i] < at + RateWindow
             /\ i <= Len(t) - 1 => t[i] < at
             /\ i <= Len(t) - 1 - RateLimit => t[i] + RateWindow <= at
  <2>1. CASE i = Len(s) + 1
    BY <1>1, <1>2, <1>3, <2>1
  <2>2. CASE i \in 1 .. Len(s)
    <3>1. s[i] < at /\ (i <= Len(s) - RateLimit => s[i] + RateWindow <= at)
      BY <1>4, <2>2
    <3>2. t[i] = s[i] /\ s[i] \in Nat /\ Len(t) - 1 = Len(s) /\ ~(i > Len(s))
      BY <1>2, <1>3, <2>2
    <3> QED BY <3>1, <3>2
  <2>3. i = Len(s) + 1 \/ i \in 1 .. Len(s)
    BY <1>2, <1>3, SMTT(30)
  <2> QED BY <2>1, <2>2, <2>3
<1>6. ASSUME NEW i \in 1 .. Len(t), NEW j \in 1 .. Len(t), j >= i + 2 * RateLimit
      PROVE  t[j] >= t[i] + RateWindow
  <2>1. i \in 1 .. Len(s)
    BY <1>1, <1>2, <1>3, <1>6
  <2>2. CASE j = Len(s) + 1
    <3>1. i <= Len(s) - RateLimit
      BY <1>1, <1>2, <1>6, <2>1, <2>2
    <3> QED BY <1>1, <1>2, <1>3, <1>4, <2>1, <2>2, <3>1
  <2>3. CASE j \in 1 .. Len(s)
    BY <1>3, <1>6, <2>1, <2>3 DEF Windowed
  <2>4. j = Len(s) + 1 \/ j \in 1 .. Len(s)
    BY <1>2, <1>3, SMTT(30)
  <2> QED BY <2>2, <2>3, <2>4
<1>7. 1 \in 1 .. RateLimit /\ 1 <= Len(t)
  BY <1>1, <1>2, <1>3
<1> QED BY <1>5, <1>6, <1>7 DEF Windowed, t

LEMMA WindowFirst ==
  ASSUME NEW at \in Nat
  PROVE  Windowed(Append(<<>>, at), at, 1)
<1> DEFINE t == Append(<<>>, at)
<1>1. RateLimit \in Nat \ {0} /\ RateWindow \in Nat \ {0}
  BY ActivityAssumption
<1>2. Len(t) = 1 /\ t[1] = at
  OBVIOUS
<1> HIDE DEF t
<1> QED BY <1>1, <1>2 DEF Windowed, t

\* A full window is a limit's worth of recent requests, and no period as long as a window has
\* more than two.
LEMMA WindowFull ==
  ASSUME NEW s \in Seq(Nat), NEW started, NEW at \in Nat, Windowed(s, started, RateLimit), at < started + RateWindow
  PROVE  Cardinality({i \in DOMAIN s : s[i] > at - RateWindow}) >= RateLimit
<1> DEFINE low == Len(s) - RateLimit + 1
           full == low .. Len(s)
           recent == {i \in DOMAIN s : s[i] > at - RateWindow}
<1>1. RateLimit \in Nat \ {0} /\ RateWindow \in Nat \ {0} /\ Len(s) \in Nat /\ DOMAIN s = 1 .. Len(s)
  BY ActivityAssumption
<1>2. started \in Nat /\ RateLimit <= Len(s)
  BY DEF Windowed
<1>3. low \in Int /\ low <= Len(s)
  BY <1>1, <1>2
<1>4. Cardinality(full) = RateLimit
  <2>1. Cardinality(full) = (IF low > Len(s) THEN 0 ELSE Len(s) - low + 1)
    BY <1>1, <1>3, FS_Interval
  <2> QED BY <1>1, <1>3, <2>1
<1>5. full \subseteq recent
  <2> SUFFICES ASSUME NEW i \in full PROVE i \in recent
    OBVIOUS
  <2>1. i \in 1 .. Len(s) /\ i > Len(s) - RateLimit
    BY <1>1, <1>2
  <2>2. s[i] >= started /\ s[i] \in Nat
    BY <2>1 DEF Windowed
  <2> QED BY <1>1, <1>2, <2>1, <2>2
<1>6. IsFiniteSet(recent)
  <2>1. IsFiniteSet(1 .. Len(s)) /\ recent \subseteq 1 .. Len(s)
    BY <1>1, FS_Interval
  <2> QED BY <2>1, FS_Subset
<1> HIDE DEF full, recent
<1>7. Cardinality(full) <= Cardinality(recent) /\ Cardinality(recent) \in Nat
  BY <1>5, <1>6, FS_Subset, FS_CardinalityType
<1> QED BY <1>1, <1>4, <1>7 DEF recent

LEMMA TwoWindows ==
  ASSUME NEW s \in Seq(Nat), NEW started, NEW count, Windowed(s, started, count), NEW x \in Nat
  PROVE  Cardinality({j \in DOMAIN s : s[j] >= x /\ s[j] < x + RateWindow}) <= 2 * RateLimit
<1> DEFINE during == {j \in DOMAIN s : s[j] >= x /\ s[j] < x + RateWindow}
<1>1. RateLimit \in Nat \ {0} /\ RateWindow \in Nat \ {0} /\ Len(s) \in Nat /\ DOMAIN s = 1 .. Len(s)
  BY ActivityAssumption
<1>2. CASE during = {}
  <2>1. Cardinality(during) = 0
    BY <1>2, FS_EmptySet
  <2> QED BY <1>1, <2>1
<1>3. CASE during # {}
  <2>1. during \subseteq Nat
    BY <1>1
  <2>2. PICK m \in during : \A j \in during : m <= j
    BY <1>3, <2>1, LeastNat
  <2>3. m \in 1 .. Len(s) /\ s[m] >= x /\ s[m] \in Nat
    BY <1>1, <2>2
  <2>4. ASSUME NEW j \in during PROVE j \in m .. m + 2 * RateLimit - 1
    <3>1. j \in 1 .. Len(s) /\ s[j] < x + RateWindow /\ s[j] \in Nat /\ m <= j
      BY <1>1, <2>2
    <3>2. j >= m + 2 * RateLimit => s[j] >= s[m] + RateWindow
      BY <2>3, <3>1 DEF Windowed
    <3> QED BY <1>1, <2>3, <3>1, <3>2, SMTT(30)
  <2>5. m \in Int /\ m + 2 * RateLimit - 1 \in Int
    BY <1>1, <2>3
  <2>6. /\ IsFiniteSet(m .. m + 2 * RateLimit - 1)
        /\ Cardinality(m .. m + 2 * RateLimit - 1) =
             (IF m > m + 2 * RateLimit - 1 THEN 0 ELSE (m + 2 * RateLimit - 1) - m + 1)
    BY <2>5, FS_Interval
  <2>7. Cardinality(m .. m + 2 * RateLimit - 1) = 2 * RateLimit
    BY <1>1, <2>3, <2>6
  <2>8. during \subseteq m .. m + 2 * RateLimit - 1
    BY <2>4
  <2> HIDE DEF during
  <2>9. Cardinality(during) <= Cardinality(m .. m + 2 * RateLimit - 1)
    BY <2>6, <2>8, FS_Subset
  <2> QED BY <2>7, <2>9 DEF during
<1> QED BY <1>2, <1>3

LEMMA RateStep == RateInv /\ RateNext => RateInv'
<1> SUFFICES ASSUME RateInv, RateNext PROVE RateInv'
  OBVIOUS
<1>1. CASE RateTick
  <2>1. rateTime' = rateTime + 1 /\ rateTime' \in Nat /\ UNCHANGED <<bucket, admitted, unfair>> /\ rateTime \in Nat
    BY <1>1 DEF RateTick, RateInv
  <2>2. ASSUME NEW a \in Addresses PROVE AddressInv(a)'
    <3>1. AddressInv(a)
      BY DEF RateInv
    <3>2. CASE bucket[a] = NoBucket /\ admitted[a] = <<>>
      BY <2>1, <3>1, <3>2 DEF AddressInv
    <3>3. CASE /\ bucket[a] = [started |-> bucket[a].started, count |-> bucket[a].count]
               /\ Windowed(admitted[a], bucket[a].started, bucket[a].count) /\ bucket[a].started <= rateTime
      <4>1. bucket[a].started \in Nat
        BY <3>3 DEF Windowed
      <4>2. bucket[a].started <= rateTime'
        BY <2>1, <3>3, <4>1
      <4> QED BY <2>1, <3>1, <3>3, <4>2 DEF AddressInv
    <3> QED BY <3>1, <3>2, <3>3 DEF AddressInv
  <2> QED BY <2>1, <2>2 DEF RateInv
<1>2. ASSUME NEW a \in Addresses, Request(a) PROVE RateInv'
  <2>1. rateTime' = rateTime /\ rateTime \in Nat /\ AddressInv(a) /\ unfair = FALSE
    BY <1>2 DEF Request, RateInv
  <2>2. admitted[a] \in Seq(Nat)
    BY <2>1 DEF AddressInv
  <2>3. CASE MayPass(Window(a))
    <3> DEFINE w == Window(a)
               cleared == Cardinality(Buckets) >= MaxBuckets /\ a \notin Buckets
    <3>1. /\ bucket' = [b \in Addresses |-> IF b = a THEN [w EXCEPT !.count = @ + 1] ELSE IF cleared THEN NoBucket ELSE bucket[b]]
          /\ admitted' = [b \in Addresses |-> IF b = a THEN Append(admitted[a], rateTime) ELSE IF cleared THEN <<>> ELSE admitted[b]]
          /\ unfair' = unfair
      BY <1>2, <2>3 DEF Request
    <3>2. w.count < RateLimit
      BY <2>3 DEF MayPass
    <3> HIDE DEF cleared
    <3>3. admitted'[a] = Append(admitted[a], rateTime) /\ bucket'[a] = [w EXCEPT !.count = @ + 1]
      BY <3>1
    <3>4. \E started, count : /\ w = [started |-> started, count |-> count] /\ started <= rateTime
                              /\ Windowed(Append(admitted[a], rateTime), started, count + 1)
      <4>1. CASE bucket[a] = NoBucket
        <5>1. w = [started |-> rateTime, count |-> 0]
          BY <4>1 DEF Window
        <5>2. admitted[a] = <<>>
          <6>1. NoBucket.count = -1
            BY DEF NoBucket
          <6> QED BY <2>1, <4>1, <6>1 DEF AddressInv, Windowed
        <5>3. Windowed(Append(admitted[a], rateTime), rateTime, 0 + 1)
          BY <2>1, <5>2, WindowFirst
        <5> QED BY <2>1, <5>1, <5>3
      <4>2. CASE bucket[a] # NoBucket
        <5> DEFINE started == bucket[a].started
                   count == bucket[a].count
        <5>1. bucket[a] = [started |-> started, count |-> count] /\ Windowed(admitted[a], started, count) /\ started <= rateTime
          BY <2>1, <4>2 DEF AddressInv
        <5>2. started \in Nat /\ count \in Nat /\ RateWindow \in Nat
          BY <5>1, ActivityAssumption DEF Windowed
        <5>3. CASE rateTime - started >= RateWindow
          <6>1. w = [started |-> rateTime, count |-> 0]
            BY <5>3 DEF Window
          <6>2. rateTime >= started + RateWindow
            BY <2>1, <5>2, <5>3
          <6>3. Windowed(Append(admitted[a], rateTime), rateTime, 0 + 1)
            BY <2>1, <2>2, <5>1, <6>2, WindowOpens
          <6> QED BY <2>1, <6>1, <6>3
        <5>4. CASE ~(rateTime - started >= RateWindow)
          <6>1. w = bucket[a]
            BY <4>2, <5>4 DEF Window
          <6>2. rateTime < started + RateWindow /\ count < RateLimit
            BY <2>1, <3>2, <5>2, <5>4, <6>1
          <6>3. Windowed(Append(admitted[a], rateTime), started, count + 1)
            BY <2>1, <2>2, <5>1, <6>2, WindowGrows
          <6> QED BY <5>1, <6>1, <6>3
        <5> QED BY <5>3, <5>4
      <4> QED BY <4>1, <4>2
    <3> HIDE DEF w
    <3>5. AddressInv(a)'
      <4>1. PICK started, count : /\ w = [started |-> started, count |-> count] /\ started <= rateTime
                                  /\ Windowed(Append(admitted[a], rateTime), started, count + 1)
        BY <3>4
      <4>2. bucket'[a] = [started |-> started, count |-> count + 1]
        BY <3>3, <4>1
      <4>3. bucket'[a].started = started /\ bucket'[a].count = count + 1
        BY <4>2
      <4>4. admitted'[a] \in Seq(Nat)
        BY <2>1, <2>2, <3>3
      <4> QED BY <2>1, <3>3, <4>1, <4>2, <4>3, <4>4 DEF AddressInv
    <3>6. ASSUME NEW b \in Addresses, b # a PROVE AddressInv(b)'
      <4>1. CASE cleared
        <5>1. bucket'[b] = NoBucket /\ admitted'[b] = <<>>
          BY <3>1, <3>6, <4>1
        <5> QED BY <5>1 DEF AddressInv
      <4>2. CASE ~cleared
        <5>1. bucket'[b] = bucket[b] /\ admitted'[b] = admitted[b]
          BY <3>1, <3>6, <4>2
        <5> QED BY <2>1, <5>1 DEF AddressInv, RateInv
      <4> QED BY <4>1, <4>2
    <3> QED BY <2>1, <3>1, <3>5, <3>6 DEF RateInv
  <2>4. CASE ~MayPass(Window(a))
    <3>1. UNCHANGED <<bucket, admitted>> /\ unfair' = (unfair \/ Recent(a) < RateLimit)
      BY <1>2, <2>4 DEF Request
    <3>2. RateLimit \in Nat \ {0} /\ RateWindow \in Nat \ {0}
      BY ActivityAssumption
    <3>3. ~(Window(a).count < RateLimit)
      BY <2>4 DEF MayPass
    <3>4. Window(a) = bucket[a] /\ bucket[a] # NoBucket /\ ~(rateTime - bucket[a].started >= RateWindow)
      BY <3>2, <3>3 DEF Window
    <3>5. Windowed(admitted[a], bucket[a].started, bucket[a].count)
      BY <2>1, <3>4 DEF AddressInv
    <3>6. bucket[a].count = RateLimit /\ bucket[a].started \in Nat
      BY <3>2, <3>3, <3>4, <3>5 DEF Windowed
    <3>7. rateTime < bucket[a].started + RateWindow
      BY <2>1, <3>2, <3>4, <3>6
    <3>8. Recent(a) >= RateLimit
      BY <2>1, <2>2, <3>5, <3>6, <3>7, WindowFull DEF Recent
    <3>9. Recent(a) \in Nat
      <4> Len(admitted[a]) \in Int /\ 1 \in Int
        BY <2>2
      <4>1. IsFiniteSet(1 .. Len(admitted[a])) /\ DOMAIN admitted[a] = 1 .. Len(admitted[a])
        BY <2>2, FS_Interval
      <4>2. IsFiniteSet({i \in DOMAIN admitted[a] : admitted[a][i] > rateTime - RateWindow})
        BY <4>1, FS_Subset
      <4> QED BY <4>2, FS_CardinalityType DEF Recent
    <3>10. unfair' = FALSE
      <4>1. ~(Recent(a) < RateLimit)
        BY <3>2, <3>8, <3>9
      <4> QED BY <2>1, <3>1, <4>1
    <3> QED BY <2>1, <3>1, <3>10 DEF RateInv, AddressInv
  <2> QED BY <2>3, <2>4
<1> QED BY <1>1, <1>2 DEF RateNext

LEMMA RateHolds == RateInv => RateHonest
<1> SUFFICES ASSUME RateInv PROVE RateHonest
  OBVIOUS
<1>1. ASSUME NEW a \in Addresses, NEW i \in DOMAIN admitted[a]
      PROVE  Cardinality({j \in DOMAIN admitted[a] :
               admitted[a][j] >= admitted[a][i] /\ admitted[a][j] < admitted[a][i] + RateWindow}) <= 2 * RateLimit
  <2>1. AddressInv(a) /\ admitted[a] \in Seq(Nat)
    BY DEF RateInv, AddressInv
  <2>2. Windowed(admitted[a], bucket[a].started, bucket[a].count)
    BY <1>1, <2>1 DEF AddressInv
  <2>3. admitted[a][i] \in Nat
    BY <1>1, <2>1
  <2> QED BY <2>1, <2>2, <2>3, TwoWindows
<1> QED BY <1>1 DEF RateInv, RateHonest

(***************************************************************************)
(* Limits: public reads                                                    *)
(***************************************************************************)
Reading == {r \in Reads : read[r] = "reading"}
ReadInv ==
  /\ read \in [Reads -> {"idle", "reading", "refused"}]
  /\ IsFiniteSet(Reading) /\ readers = Cardinality(Reading) /\ readers <= ReadCapacity

LEMMA ReadStep == ReadInv /\ ReadNext => ReadInv'
<1> SUFFICES ASSUME ReadInv, ReadNext PROVE ReadInv'
  OBVIOUS
<1>1. PICK r \in Reads : \/ ReadArrives(r) \/ ReadRetries(r)
                         \/ \E how \in {"answered", "failed", "cancelled"} : ReadEnds(r, how)
  BY DEF ReadNext
<1>2. readers \in Nat /\ ReadCapacity \in Nat /\ read \in [Reads -> {"idle", "reading", "refused"}]
  BY ActivityAssumption, FS_CardinalityType DEF ReadInv
<1>3. CASE ReadArrives(r) /\ readers < ReadCapacity
  <2>1. read[r] = "idle" /\ read' = [read EXCEPT ![r] = "reading"] /\ readers' = readers + 1
    BY <1>3 DEF ReadArrives
  <2>2. Reading' = Reading \cup {r} /\ r \notin Reading
    BY <1>2, <2>1 DEF Reading
  <2>3. IsFiniteSet(Reading') /\ Cardinality(Reading') = Cardinality(Reading) + 1
    BY <2>2, FS_AddElement DEF ReadInv
  <2> QED BY <1>2, <1>3, <2>1, <2>3 DEF ReadInv
<1>4. CASE \E how \in {"answered", "failed", "cancelled"} : ReadEnds(r, how)
  <2>1. read[r] = "reading" /\ read' = [read EXCEPT ![r] = "idle"] /\ readers' = readers - 1
    BY <1>4 DEF ReadEnds
  <2>2. Reading' = Reading \ {r} /\ r \in Reading
    BY <1>2, <2>1 DEF Reading
  <2>3. IsFiniteSet(Reading') /\ Cardinality(Reading') = Cardinality(Reading) - 1
    BY <2>2, FS_RemoveElement DEF ReadInv
  <2> QED BY <1>2, <2>1, <2>3 DEF ReadInv
<1>5. CASE ReadRetries(r) \/ (ReadArrives(r) /\ ~(readers < ReadCapacity))
  <2>1. /\ read[r] # "reading" /\ readers' = readers
        /\ read' = [read EXCEPT ![r] = "idle"] \/ read' = [read EXCEPT ![r] = "refused"]
    BY <1>5 DEF ReadRetries, ReadArrives
  <2>2. Reading' = Reading
    BY <1>2, <2>1 DEF Reading
  <2> QED BY <1>2, <2>1, <2>2 DEF ReadInv
<1> QED BY <1>1, <1>3, <1>4, <1>5

(***************************************************************************)
(* Limits: browsing events                                                 *)
(***************************************************************************)
PostRecords == [pc : {"idle", "waiting", "counted", "refused"}, now : Nat, new : SUBSET EventIds,
                answer : {"none", "accepted", "refused"}]
PostTyped ==
  /\ postTime \in Nat \ {0} /\ recorded \in [EventIds -> Nat] /\ post \in [Posts -> PostRecords]
  /\ \A e \in EventIds : recorded[e] <= postTime

\* A batch that was counted holds the lock, is the latest, and its new events fit in the quota;
\* one that will be refused has an event that is not recorded.
Fits(r) ==
  /\ r.now # 0 /\ r.now <= postTime /\ \A e \in EventIds : recorded[e] <= r.now
  /\ Cardinality(CountedSince(r.now)) + Cardinality(r.new) <= Quota
PostsFit ==
  \A p \in Posts :
    /\ post[p].pc \in {"counted", "refused"} => userLock = p
    /\ post[p].pc = "counted" => Fits(post[p])

PostInv == PostTyped /\ PostsFit /\ QuotaHeld /\ ReplayAccepted

\* What was recorded from an event on, and what a batch is counted with.
Since(t) == {f \in EventIds : recorded[f] \in t .. t + Minute}

LEMMA EventsFinite ==
  ASSUME NEW S, S \subseteq EventIds
  PROVE  IsFiniteSet(S) /\ Cardinality(S) \in Nat
BY ActivityAssumption, FS_Subset, FS_CardinalityType

LEMMA FewerEvents ==
  ASSUME NEW S, NEW T, S \subseteq T, T \subseteq EventIds
  PROVE  Cardinality(S) <= Cardinality(T)
BY ActivityAssumption, FS_Subset

\* What the quota counts before a batch is itself within the quota: it was recorded within a
\* minute of the earliest of it.
LEMMA CountedFits ==
  ASSUME PostInv
  PROVE  Cardinality(CountedSince(postTime)) <= Quota
<1> DEFINE C == CountedSince(postTime)
           times == {recorded[e] : e \in C}
<1>1. Quota \in Nat /\ Minute \in Nat /\ postTime \in Nat
  BY ActivityAssumption DEF PostInv, PostTyped
<1>2. \A e \in EventIds : recorded[e] \in Nat /\ recorded[e] <= postTime
  BY DEF PostInv, PostTyped
<1>3. CASE C = {}
  <2>1. Cardinality(C) = 0
    BY <1>3, FS_EmptySet
  <2> QED BY <1>1, <2>1
<1>4. CASE C # {}
  <2>1. times \subseteq Nat /\ times # {}
    BY <1>2, <1>4 DEF CountedSince
  <2>2. PICK t \in times : \A u \in times : t <= u
    BY <2>1, LeastNat
  <2>3. PICK e \in C : t = recorded[e]
    BY <2>2
  <2>4. e \in EventIds /\ recorded[e] # 0 /\ recorded[e] >= postTime - Minute
    BY <2>3 DEF CountedSince
  <2>5. C \subseteq Since(recorded[e])
    <3> SUFFICES ASSUME NEW f \in C PROVE f \in Since(recorded[e])
      OBVIOUS
    <3>1. f \in EventIds /\ recorded[f] \in times
      BY DEF CountedSince
    <3>2. recorded[e] <= recorded[f] /\ recorded[f] <= postTime /\ recorded[e] \in Nat /\ recorded[f] \in Nat
      BY <1>2, <2>2, <2>3, <2>4, <3>1
    <3>3. recorded[f] <= recorded[e] + Minute
      BY <1>1, <2>4, <3>2
    <3> QED BY <1>1, <3>1, <3>2, <3>3 DEF Since
  <2>6. Cardinality(Since(recorded[e])) <= Quota
    BY <2>4 DEF PostInv, QuotaHeld, Since
  <2>7. Cardinality(C) <= Cardinality(Since(recorded[e]))
    BY <2>5, FewerEvents DEF Since
  <2>8. Cardinality(C) \in Nat /\ Cardinality(Since(recorded[e])) \in Nat
    BY EventsFinite DEF Since, CountedSince
  <2> QED BY <1>1, <2>6, <2>7, <2>8
<1> QED BY <1>3, <1>4

LEMMA CountPostStep == ASSUME PostInv, NEW p \in Posts, CountPost(p) PROVE PostInv'
<1> DEFINE new == NewEvents(p)
           verdict == IF Cardinality(CountedSince(postTime)) + Cardinality(new) > Quota THEN "refused" ELSE "counted"
<1>1. /\ post[p].pc = "waiting" /\ userLock = "none" /\ userLock' = p
      /\ UNCHANGED <<postTime, recorded>>
  BY DEF CountPost, LockUser
<1>2. PICK n : n = [post[p] EXCEPT !.pc = verdict, !.now = postTime, !.new = new]
  OBVIOUS
<1>3. post' = [post EXCEPT ![p] = n]
  BY <1>2 DEF CountPost
<1>4. new \subseteq EventIds /\ post[p] \in PostRecords /\ postTime \in Nat \ {0} /\ post \in [Posts -> PostRecords]
  BY DEF NewEvents, EventIds, PostInv, PostTyped
<1>5. n \in PostRecords /\ n.pc = verdict /\ n.now = postTime /\ n.new = new
  BY <1>2, <1>4 DEF PostRecords
<1>6. /\ Quota \in Nat /\ Cardinality(new) \in Nat /\ Cardinality(CountedSince(postTime)) \in Nat
      /\ Cardinality(CountedSince(postTime)) <= Quota
  BY <1>4, ActivityAssumption, EventsFinite, CountedFits DEF CountedSince
<1>7. verdict = "counted" => Cardinality(CountedSince(postTime)) + Cardinality(new) <= Quota
  BY <1>6
<1>8. verdict = "refused" => \E e \in Batch(p) : recorded[e] = 0
  <2> SUFFICES ASSUME verdict = "refused", new = {} PROVE FALSE
    BY DEF NewEvents
  <2>1. Cardinality(new) = 0
    BY FS_EmptySet
  <2> QED BY <1>6, <2>1
<1>9. post'[p] = n /\ \A q \in Posts : q # p => post'[q] = post[q]
  BY <1>3, <1>4
<1>10. PostTyped'
  BY <1>1, <1>3, <1>5 DEF PostInv, PostTyped
<1>11. \A q \in Posts : q # p => post[q].pc \notin {"counted", "refused"}
  BY <1>1, ActivityAssumption DEF PostInv, PostsFit
<1>12. n.pc = "counted" => Fits(n)'
  <2> SUFFICES ASSUME n.pc = "counted" PROVE Fits(n)'
    OBVIOUS
  <2>1. \A e \in EventIds : recorded'[e] <= n.now
    BY <1>1, <1>5 DEF PostInv, PostTyped
  <2>2. CountedSince(n.now)' = CountedSince(postTime)
    BY <1>1, <1>5 DEF CountedSince
  <2>3. n.now # 0 /\ n.now <= postTime'
    BY <1>1, <1>4, <1>5
  <2>4. Cardinality(CountedSince(n.now)') + Cardinality(n.new) <= Quota
    BY <1>5, <1>7, <2>2
  <2> QED BY <2>1, <2>3, <2>4 DEF Fits
<1>13. PostsFit'
  BY <1>1, <1>9, <1>11, <1>12 DEF PostsFit, Fits
<1>14. QuotaHeld'
  BY <1>1 DEF PostInv, QuotaHeld
<1>15. ReplayAccepted'
  BY <1>1, <1>5, <1>8, <1>9, <1>11 DEF ReplayAccepted
<1> QED BY <1>10, <1>13, <1>14, <1>15 DEF PostInv

LEMMA StorePostStep == ASSUME PostInv, NEW p \in Posts, StorePost(p) PROVE PostInv'
<1>1. PICK r : r = post[p]
  OBVIOUS
<1>2. /\ r.pc = "counted" /\ postTime' = postTime
      /\ recorded' = [e \in EventIds |-> IF e \in r.new /\ recorded[e] = 0 THEN r.now ELSE recorded[e]]
      /\ post' = [post EXCEPT ![p] = [r EXCEPT !.pc = "idle", !.answer = "accepted"]]
  BY <1>1 DEF StorePost
<1>3. Fits(r) /\ userLock = p
  BY <1>1, <1>2 DEF PostInv, PostsFit
<1>4. r \in PostRecords /\ r.now \in Nat \ {0} /\ r.new \subseteq EventIds /\ r.now <= postTime /\ postTime \in Nat
  BY <1>1, <1>3 DEF PostInv, PostTyped, PostRecords, Fits
<1>5. /\ Quota \in Nat /\ Minute \in Nat /\ Cardinality(CountedSince(r.now)) + Cardinality(r.new) <= Quota
      /\ \A e \in EventIds : recorded[e] \in Nat /\ recorded[e] <= r.now
  BY <1>3, ActivityAssumption DEF Fits, PostInv, PostTyped
<1>6. \A e \in EventIds : /\ recorded'[e] \in Nat /\ recorded'[e] <= r.now
                          /\ recorded'[e] = recorded[e] \/ (recorded'[e] = r.now /\ e \in r.new)
  BY <1>2, <1>4, <1>5
<1>7. PostTyped'
  <2>1. [r EXCEPT !.pc = "idle", !.answer = "accepted"] \in PostRecords
    BY <1>4 DEF PostRecords
  <2>2. post' \in [Posts -> PostRecords] /\ recorded' \in [EventIds -> Nat]
    BY <1>2, <1>4, <1>5, <2>1 DEF PostInv, PostTyped
  <2>3. \A e \in EventIds : recorded'[e] <= postTime
    BY <1>4, <1>6
  <2> QED BY <1>2, <2>2, <2>3 DEF PostInv, PostTyped
<1>8. \A q \in Posts : post'[q].pc \notin {"counted", "refused"}
  <2>1. \A q \in Posts : q # p => post[q].pc \notin {"counted", "refused"}
    BY <1>3 DEF PostInv, PostsFit
  <2> QED BY <1>2, <1>4, <2>1 DEF PostInv, PostTyped, PostRecords
<1>9. QuotaHeld'
  <2> SUFFICES ASSUME NEW e \in EventIds, recorded'[e] # 0
               PROVE  Cardinality({f \in EventIds : recorded'[f] \in recorded'[e] .. recorded'[e] + Minute}) <= Quota
    BY DEF QuotaHeld
  <2>1. PICK t : t = recorded'[e]
    OBVIOUS
  <2> DEFINE S == {f \in EventIds : recorded'[f] \in t .. t + Minute}
             U == CountedSince(r.now) \cup r.new
  <2>2. t \in Nat /\ t # 0 /\ t <= r.now
    BY <1>6, <2>1
  <2>3. CASE r.now <= t + Minute
    <3>1. S \subseteq U
      <4> SUFFICES ASSUME NEW f \in S, f \notin r.new PROVE f \in CountedSince(r.now)
        OBVIOUS
      <4>1. recorded[f] = recorded'[f] /\ recorded[f] \in Nat /\ recorded[f] >= t
        BY <1>5, <1>6, <2>2
      <4> QED BY <1>4, <1>5, <2>2, <2>3, <4>1 DEF CountedSince
    <3>2. U \subseteq EventIds
      BY <1>4 DEF CountedSince
    <3>3. /\ IsFiniteSet(CountedSince(r.now)) /\ IsFiniteSet(r.new)
          /\ Cardinality(CountedSince(r.now)) \in Nat /\ Cardinality(r.new) \in Nat
          /\ Cardinality(CountedSince(r.now) \cap r.new) \in Nat
      <4>1. CountedSince(r.now) \subseteq EventIds /\ CountedSince(r.now) \cap r.new \subseteq EventIds
        BY DEF CountedSince
      <4> QED BY <1>4, <4>1, EventsFinite
    <3>4. Cardinality(U) = Cardinality(CountedSince(r.now)) + Cardinality(r.new) - Cardinality(CountedSince(r.now) \cap r.new)
      BY <3>3, FS_Union
    <3>5. Cardinality(S) <= Cardinality(U) /\ Cardinality(S) \in Nat
      BY <3>1, <3>2, FewerEvents, EventsFinite
    <3> HIDE DEF S, U
    <3>6. Cardinality(S) <= Quota
      BY <1>5, <3>3, <3>4, <3>5
    <3> QED BY <2>1, <3>6 DEF S
  <2>4. CASE ~(r.now <= t + Minute)
    <3>1. recorded[e] = t
      BY <1>4, <1>5, <1>6, <2>1, <2>2, <2>4
    <3>2. S \subseteq Since(recorded[e])
      <4> SUFFICES ASSUME NEW f \in S PROVE recorded[f] \in t .. t + Minute
        BY <3>1 DEF Since
      <4>1. recorded'[f] # r.now
        BY <1>4, <1>5, <2>2, <2>4
      <4> QED BY <1>6, <4>1
    <3>3. Cardinality(Since(recorded[e])) <= Quota
      BY <2>2, <3>1 DEF PostInv, QuotaHeld, Since
    <3>4. Cardinality(S) <= Cardinality(Since(recorded[e]))
      BY <3>2, FewerEvents DEF Since
    <3>5. Cardinality(S) \in Nat /\ Cardinality(Since(recorded[e])) \in Nat
      BY EventsFinite DEF Since
    <3> HIDE DEF S
    <3>6. Cardinality(S) <= Quota
      BY <1>5, <3>3, <3>4, <3>5
    <3> QED BY <2>1, <3>6 DEF S
  <2> QED BY <2>3, <2>4
<1> QED BY <1>7, <1>8, <1>9 DEF PostInv, PostsFit, ReplayAccepted

\* A batch that comes or goes without a record.
LEMMA PostMoves ==
  ASSUME PostInv, NEW p \in Posts, NEW n \in PostRecords, post' = [post EXCEPT ![p] = n],
         n.pc \notin {"counted", "refused"}, UNCHANGED <<postTime, recorded>>,
         \A q \in Posts : q # p /\ post[q].pc \in {"counted", "refused"} => userLock' = userLock
  PROVE  PostInv'
<1>1. post'[p] = n /\ \A q \in Posts : q # p => post'[q] = post[q]
  BY DEF PostInv, PostTyped
<1>2. PostTyped'
  BY DEF PostInv, PostTyped
<1>3. PostsFit'
  BY <1>1 DEF PostInv, PostsFit, Fits, CountedSince
<1>4. QuotaHeld' /\ ReplayAccepted'
  BY <1>1 DEF PostInv, QuotaHeld, ReplayAccepted
<1> QED BY <1>2, <1>3, <1>4 DEF PostInv

\* Time passes, or events are pruned.
LEMMA EventsForgotten ==
  ASSUME PostInv, UNCHANGED <<post, userLock>>, postTime' \in Nat, postTime' >= postTime, recorded' \in [EventIds -> Nat],
         \A e \in EventIds : recorded'[e] \in {0, recorded[e]}
  PROVE  PostInv'
<1>1. postTime \in Nat \ {0} /\ Minute \in Nat /\ Quota \in Nat /\ \A e \in EventIds : recorded[e] \in Nat /\ recorded[e] <= postTime
  BY ActivityAssumption DEF PostInv, PostTyped
<1>2. PostTyped'
  <2>1. \A e \in EventIds : recorded'[e] <= postTime'
    BY <1>1
  <2>2. postTime' \in Nat \ {0}
    BY <1>1
  <2> QED BY <2>1, <2>2 DEF PostInv, PostTyped
<1>3. PostsFit'
  <2> SUFFICES ASSUME NEW p \in Posts, post[p].pc = "counted" PROVE Fits(post[p])'
    BY DEF PostInv, PostsFit
  <2>1. PICK r : r = post[p]
    OBVIOUS
  <2>2. Fits(r) /\ r.now \in Nat /\ r.new \subseteq EventIds
    BY <2>1 DEF PostInv, PostsFit, PostTyped, PostRecords
  <2>3. \A e \in EventIds : recorded'[e] <= r.now
    BY <1>1, <2>2 DEF Fits
  <2>4. CountedSince(r.now)' \subseteq CountedSince(r.now) /\ CountedSince(r.now) \subseteq EventIds
    BY DEF CountedSince
  <2>5. Cardinality(CountedSince(r.now)') <= Cardinality(CountedSince(r.now))
    BY <2>4, FewerEvents
  <2>6. /\ Cardinality(CountedSince(r.now)') \in Nat /\ Cardinality(CountedSince(r.now)) \in Nat
        /\ Cardinality(r.new) \in Nat
    BY <2>2, <2>4, EventsFinite
  <2>7. Cardinality(CountedSince(r.now)') + Cardinality(r.new) <= Quota
    BY <1>1, <2>2, <2>5, <2>6 DEF Fits
  <2>8. r.now # 0 /\ r.now <= postTime'
    BY <1>1, <2>2 DEF Fits
  <2>9. Fits(r)'
    BY <2>3, <2>7, <2>8 DEF Fits
  <2> QED BY <2>1, <2>9 DEF Fits
<1>4. QuotaHeld'
  <2> SUFFICES ASSUME NEW e \in EventIds, recorded'[e] # 0
               PROVE  Cardinality({f \in EventIds : recorded'[f] \in recorded'[e] .. recorded'[e] + Minute}) <= Quota
    BY DEF QuotaHeld
  <2>1. PICK t : t = recorded[e]
    OBVIOUS
  <2> DEFINE S == {f \in EventIds : recorded'[f] \in t .. t + Minute}
  <2>2. recorded'[e] = t /\ t \in Nat /\ t # 0
    BY <1>1, <2>1
  <2>3. S \subseteq Since(t)
    BY <1>1, <2>2 DEF Since
  <2>4. Cardinality(Since(t)) <= Quota
    BY <2>1, <2>2 DEF PostInv, QuotaHeld, Since
  <2>5. Cardinality(S) <= Cardinality(Since(t))
    BY <2>3, FewerEvents DEF Since
  <2>6. Cardinality(S) \in Nat /\ Cardinality(Since(t)) \in Nat
    BY EventsFinite DEF Since
  <2> HIDE DEF S
  <2>7. Cardinality(S) <= Quota
    BY <1>1, <2>4, <2>5, <2>6
  <2> QED BY <2>2, <2>7 DEF S
<1>5. ReplayAccepted'
  <2> SUFFICES ASSUME NEW p \in Posts, post[p].pc = "refused" PROVE \E e \in Batch(p) : recorded'[e] = 0
    BY DEF ReplayAccepted
  <2>1. PICK e \in Batch(p) : recorded[e] = 0
    BY DEF PostInv, ReplayAccepted
  <2>2. e \in EventIds
    BY DEF EventIds
  <2> QED BY <2>1, <2>2
<1> QED BY <1>2, <1>3, <1>4, <1>5 DEF PostInv

LEMMA PostStep == PostInv /\ IngestNext => PostInv'
<1> SUFFICES ASSUME PostInv, IngestNext PROVE PostInv'
  OBVIOUS
<1>1. /\ postTime \in Nat \ {0} /\ recorded \in [EventIds -> Nat] /\ post \in [Posts -> PostRecords]
  BY DEF PostInv, PostTyped
<1>2. ASSUME NEW p \in Posts, PostArrives(p) PROVE PostInv'
  <2> DEFINE n == [PostIdle EXCEPT !.pc = "waiting"]
  <2>1. n \in PostRecords /\ n.pc = "waiting"
    BY DEF PostIdle, PostRecords
  <2>2. post' = [post EXCEPT ![p] = n] /\ UNCHANGED <<postTime, userLock, recorded>>
    BY <1>2 DEF PostArrives
  <2> HIDE DEF n
  <2> QED BY <2>1, <2>2, PostMoves
<1>3. ASSUME NEW p \in Posts, RefusePost(p) PROVE PostInv'
  <2> DEFINE n == [post[p] EXCEPT !.pc = "idle", !.answer = "refused"]
  <2>1. n \in PostRecords /\ n.pc = "idle"
    BY <1>1 DEF PostRecords
  <2>2. post' = [post EXCEPT ![p] = n] /\ UNCHANGED <<postTime, recorded>> /\ post[p].pc = "refused"
    BY <1>3 DEF RefusePost
  <2> HIDE DEF n
  <2>3. \A q \in Posts : q # p => post[q].pc \notin {"counted", "refused"}
    BY <2>2 DEF PostInv, PostsFit
  <2> QED BY <2>1, <2>2, <2>3, PostMoves
<1>4. CASE PruneEvents
  <2>1. /\ recorded' = [e \in EventIds |-> IF recorded[e] < postTime - KeptDays THEN 0 ELSE recorded[e]]
        /\ UNCHANGED <<postTime, userLock, post>>
    BY <1>4 DEF PruneEvents
  <2>2. recorded' \in [EventIds -> Nat] /\ \A e \in EventIds : recorded'[e] \in {0, recorded[e]}
    BY <1>1, <2>1
  <2> QED BY <1>1, <2>1, <2>2, EventsForgotten
<1>5. CASE PostTick
  <2>1. postTime' = postTime + 1 /\ UNCHANGED <<userLock, post, recorded>>
    BY <1>5 DEF PostTick
  <2> QED BY <1>1, <2>1, EventsForgotten
<1> QED BY <1>2, <1>3, <1>4, <1>5, CountPostStep, StorePostStep DEF IngestNext

(***************************************************************************)
(* Limits: the pages of the timeline                                       *)
(***************************************************************************)
Existing == browsed \cup audited \cup snapshots \cup signedIn
Pagings == [pc : {"idle", "hydrating", "next", "read"}, offset : Nat, rows : SUBSET Nat, more : BOOLEAN,
            due : SUBSET Nat, shown : SUBSET Nat]
TimelineTyped ==
  /\ moment \in Nat \ {0}
  /\ \A S \in {browsed, audited, snapshots, signedIn, targets, paging.due} : S \subseteq 1 .. moment - 1
  /\ Cardinality(signedIn) <= 1
  /\ paging \in Pagings
  /\ paging.pc = "idle" => paging.offset = 0

\* A row that is due and still there has been shown, is on the page under way, or is ranked at
\* or behind the place the next page starts at.
PagesBehind ==
  ~ silent =>
    /\ paging.pc = "next" =>
         \A t \in paging.due \cap Timeline : t \in paging.shown \/ Rank(t) >= paging.offset
    /\ paging.pc = "hydrating" =>
         \A t \in paging.due \cap Timeline :
           \/ t \in paging.shown \cup paging.rows
           \/ paging.more /\ Rank(t) >= paging.offset + PageRows
    /\ paging.pc = "read" => paging.due \cap Timeline \subseteq paging.shown

LEMMA DaysFinite ==
  ASSUME NEW m \in Nat, NEW S, S \subseteq 1 .. m - 1
  PROVE  IsFiniteSet(S) /\ Cardinality(S) \in Nat
<1>1. IsFiniteSet(1 .. m - 1)
  BY FS_Interval
<1> QED BY <1>1, FS_Subset, FS_CardinalityType

LEMMA TimelineFinite ==
  ASSUME TimelineTyped
  PROVE  /\ Existing \subseteq 1 .. moment - 1 /\ Timeline \subseteq Existing /\ IsFiniteSet(Timeline)
         /\ \A t : Rank(t) \in Nat
<1>1. moment \in Nat /\ Existing \subseteq 1 .. moment - 1 /\ Timeline \subseteq Existing
  BY DEF TimelineTyped, Existing, Timeline
<1>2. ASSUME NEW t PROVE Rank(t) \in Nat
  <2>1. {u \in Timeline : u > t} \subseteq 1 .. moment - 1
    BY <1>1
  <2> QED BY <1>1, <2>1, DaysFinite DEF Rank
<1>3. IsFiniteSet(Timeline)
  BY <1>1, DaysFinite
<1> QED BY <1>1, <1>2, <1>3

\* As many rows come as go, all newer than the row: it does not move forward.
LEMMA RankKept ==
  ASSUME NEW T, NEW U, IsFiniteSet(U), NEW t, NEW gone, NEW come, IsFiniteSet(gone),
         Cardinality(gone) <= Cardinality(come), come \subseteq {u \in U : u > t}, T \cap come = {},
         \A u \in T : u > t => u \in U \cup gone
  PROVE  Cardinality({u \in T : u > t}) <= Cardinality({u \in U : u > t})
<1> DEFINE A == {u \in T : u > t}
           B == {u \in U : u > t}
<1>1. IsFiniteSet(B)
  BY FS_Subset
<1>2. A \subseteq (B \ come) \cup gone /\ B \cap come = come
  OBVIOUS
<1> HIDE DEF A, B
<1>3. /\ IsFiniteSet(B \ come) /\ IsFiniteSet(come)
      /\ Cardinality(B \ come) = Cardinality(B) - Cardinality(come)
  BY <1>1, <1>2, FS_Difference, FS_Subset
<1>4. /\ IsFiniteSet((B \ come) \cup gone)
      /\ Cardinality((B \ come) \cup gone) =
           Cardinality(B \ come) + Cardinality(gone) - Cardinality((B \ come) \cap gone)
  BY <1>3, FS_Union
<1>5. IsFiniteSet((B \ come) \cap gone)
  BY <1>3, FS_Subset
<1>6. Cardinality(A) <= Cardinality((B \ come) \cup gone) /\ IsFiniteSet(A)
  BY <1>2, <1>4, FS_Subset
<1>7. /\ Cardinality(A) \in Nat /\ Cardinality(B) \in Nat /\ Cardinality(come) \in Nat /\ Cardinality(gone) \in Nat
      /\ Cardinality((B \ come) \cap gone) \in Nat
  BY <1>1, <1>3, <1>5, <1>6, FS_CardinalityType
<1>8. Cardinality(A) <= Cardinality(B)
  BY <1>3, <1>4, <1>6, <1>7
<1> QED BY <1>8 DEF A, B

\* What happens beside the pages never moves a row that is due in front of the next page.
LEMMA RanksGrow ==
  ASSUME TimelineTyped, TimelineTyped', PagesBehind, NEW k \in Nat, moment' = moment + k,
         NEW gone, NEW come, IsFiniteSet(gone), Cardinality(gone) <= Cardinality(come),
         come \subseteq Existing', \A u \in come : u >= moment,
         \A u \in Timeline : u \in Existing' \/ u \in gone,
         \A u \in Existing' : u < moment => u \in Existing,
         UNCHANGED <<paging, silent>>
  PROVE  PagesBehind'
<1> USE ActivityAssumption
<1>1. PICK m, T, U, E : m = moment' /\ T = Timeline /\ U = Timeline' /\ E = Existing'
  OBVIOUS
<1>2. /\ moment \in Nat \ {0} /\ m \in Nat /\ ShownDays \in Nat /\ m >= moment /\ m = moment + k
      /\ T \subseteq 1 .. moment - 1 /\ E \subseteq 1 .. m - 1 /\ IsFiniteSet(U) /\ paging.due \subseteq 1 .. moment - 1
  <2>1. E \subseteq 1 .. m - 1 /\ U \subseteq E /\ m \in Nat
    BY <1>1 DEF TimelineTyped, Existing, Timeline
  <2>4. IsFiniteSet(U)
    BY <2>1, DaysFinite
  <2>2. T \subseteq 1 .. moment - 1
    BY <1>1, TimelineFinite
  <2>3. moment \in Nat \ {0} /\ moment' \in Nat /\ paging.due \subseteq 1 .. moment - 1
    BY DEF TimelineTyped
  <2> QED BY <1>1, <2>1, <2>2, <2>3, <2>4
<1>3. U = {u \in E : u >= m - ShownDays} /\ T = {u \in Existing : u >= moment - ShownDays}
  BY <1>1 DEF Timeline, Existing
<1>4. /\ come \subseteq E /\ \A u \in T : u \in E \/ u \in gone
      /\ \A u \in E : u < moment => u \in Existing
  BY <1>1
<1>5. ASSUME NEW t \in paging.due \cap U
      PROVE  t \in T /\ Cardinality({u \in T : u > t}) <= Cardinality({u \in U : u > t})
  <2>1. t \in 1 .. moment - 1 /\ t \in E /\ t >= m - ShownDays
    BY <1>2, <1>3
  <2>2. t \in T
    BY <1>2, <1>3, <1>4, <2>1
  <2>3. come \subseteq {u \in U : u > t}
    <3> SUFFICES ASSUME NEW u \in come PROVE u \in U /\ u > t
      OBVIOUS
    <3>1. u \in E /\ u >= moment /\ u \in Nat
      BY <1>2, <1>4
    <3> QED BY <1>2, <1>3, <2>1, <3>1
  <2>4. T \cap come = {}
    <3> SUFFICES ASSUME NEW u \in T, u \in come PROVE FALSE
      OBVIOUS
    <3>1. u \in 1 .. moment - 1 /\ u >= moment
      BY <1>2
    <3> QED BY <1>2, <3>1
  <2>5. ASSUME NEW u \in T, u > t PROVE u \in U \cup gone
    <3>1. u \in Nat /\ (u \in E \/ u \in gone)
      BY <1>2, <1>4
    <3>2. u >= m - ShownDays
      BY <1>2, <2>1, <2>5, <3>1
    <3> QED BY <1>3, <3>1, <3>2
  <2> QED BY <1>2, <2>2, <2>3, <2>4, <2>5, RankKept
<1>6. \A t : Rank(t) \in Nat /\ Rank(t) = Cardinality({u \in T : u > t})
  BY <1>1, TimelineFinite DEF Rank
<1>7. ASSUME NEW t PROVE Rank(t)' \in Nat /\ Rank(t)' = Cardinality({u \in U : u > t})
  <2>1. Rank(t)' = Cardinality({u \in U : u > t})
    BY <1>1 DEF Rank
  <2>2. {u \in U : u > t} \subseteq 1 .. m - 1
    BY <1>2, <1>3
  <2> QED BY <1>2, <2>1, <2>2, DaysFinite
<1>8. ASSUME NEW t \in paging.due \cap U PROVE t \in paging.due \cap T /\ Rank(t)' \in Nat /\ Rank(t) \in Nat /\ Rank(t)' >= Rank(t)
  BY <1>5, <1>6, <1>7
<1>9. paging.offset \in Nat /\ PageRows \in Nat /\ paging' = paging /\ silent' = silent
  BY DEF TimelineTyped, Pagings
<1>10. SUFFICES ASSUME ~ silent PROVE PagesBehind'
  BY <1>9 DEF PagesBehind
<1>11. ASSUME paging.pc = "next", NEW t \in paging.due \cap U PROVE t \in paging.shown \/ Rank(t)' >= paging.offset
  <2>1. t \in paging.shown \/ Rank(t) >= paging.offset
    BY <1>1, <1>8, <1>10, <1>11 DEF PagesBehind
  <2>2. Rank(t)' \in Nat /\ Rank(t) \in Nat /\ Rank(t)' >= Rank(t)
    BY <1>8
  <2> QED BY <1>9, <2>1, <2>2
<1>12. ASSUME paging.pc = "hydrating", NEW t \in paging.due \cap U
       PROVE  t \in paging.shown \cup paging.rows \/ (paging.more /\ Rank(t)' >= paging.offset + PageRows)
  <2>1. t \in paging.shown \cup paging.rows \/ (paging.more /\ Rank(t) >= paging.offset + PageRows)
    BY <1>1, <1>8, <1>10, <1>12 DEF PagesBehind
  <2>2. Rank(t)' \in Nat /\ Rank(t) \in Nat /\ Rank(t)' >= Rank(t)
    BY <1>8
  <2>3. Rank(t) >= paging.offset + PageRows => Rank(t)' >= paging.offset + PageRows
    BY <1>9, <2>2
  <2> QED BY <2>1, <2>3
<1>13. paging.pc = "read" => paging.due \cap U \subseteq paging.shown
  BY <1>1, <1>8, <1>10 DEF PagesBehind
<1> QED BY <1>1, <1>9, <1>11, <1>12, <1>13 DEF PagesBehind

LEMMA TimelineMoves ==
  ASSUME TimelineTyped, moment' \in Nat, moment' >= moment, paging' = paging, Cardinality(signedIn') <= 1,
         browsed' \subseteq 1 .. moment' - 1, audited' \subseteq 1 .. moment' - 1, snapshots' \subseteq 1 .. moment' - 1,
         signedIn' \subseteq 1 .. moment' - 1, targets' \subseteq 1 .. moment' - 1
  PROVE  TimelineTyped'
<1>1. moment \in Nat \ {0} /\ paging.due \subseteq 1 .. moment - 1
  BY DEF TimelineTyped
<1>2. moment' # 0 /\ paging.due \subseteq 1 .. moment' - 1
  BY <1>1
<1> QED BY <1>2 DEF TimelineTyped

\* A row is added: browsed, audited or a saved target.
LEMMA RowsComeStep ==
  ASSUME TimelineTyped, PagesBehind, Browse \/ SaveTarget \/ PinTarget
  PROVE  TimelineTyped' /\ PagesBehind'
<1>1. PICK k \in {1, 2} :
        /\ moment' = moment + k /\ UNCHANGED <<signedIn, silent, paging>>
        /\ browsed \subseteq browsed' /\ browsed' \subseteq browsed \cup (moment .. moment + k - 1)
        /\ audited \subseteq audited' /\ audited' \subseteq audited \cup (moment .. moment + k - 1)
        /\ snapshots \subseteq snapshots' /\ snapshots' \subseteq snapshots \cup (moment .. moment + k - 1)
        /\ targets' \subseteq targets \cup (moment .. moment + k - 1)
  <2>1. moment \in Nat
    BY DEF TimelineTyped
  <2>2. CASE Browse
    BY <2>1, <2>2 DEF Browse, Others
  <2>3. CASE SaveTarget
    BY <2>1, <2>3 DEF SaveTarget, Others, Audit
  <2>4. CASE PinTarget
    BY <2>1, <2>4 DEF PinTarget, Others
  <2> QED BY <2>2, <2>3, <2>4
<1>2. /\ moment \in Nat \ {0} /\ browsed \subseteq 1 .. moment - 1 /\ audited \subseteq 1 .. moment - 1
      /\ snapshots \subseteq 1 .. moment - 1 /\ signedIn \subseteq 1 .. moment - 1 /\ targets \subseteq 1 .. moment - 1
      /\ Cardinality(signedIn) <= 1
  BY DEF TimelineTyped
<1>3. moment' \in Nat /\ moment' >= moment /\ 1 .. moment - 1 \subseteq 1 .. moment' - 1
      /\ moment .. moment + k - 1 \subseteq 1 .. moment' - 1
  BY <1>1, <1>2
<1>4. TimelineTyped'
  BY <1>1, <1>2, <1>3, TimelineMoves
<1>5. IsFiniteSet({}) /\ Cardinality({}) <= Cardinality({})
  BY FS_EmptySet
<1>6. \A u \in Timeline : u \in Existing'
  BY <1>1 DEF Timeline, Existing
<1>7. \A u \in Existing' : u < moment => u \in Existing
  BY <1>1, <1>2 DEF Existing
<1>8. PagesBehind'
  BY <1>1, <1>4, <1>5, <1>6, <1>7, RanksGrow
<1> QED BY <1>4, <1>8

LEMMA SignInStep ==
  ASSUME TimelineTyped, PagesBehind, SignIn
  PROVE  TimelineTyped' /\ PagesBehind'
<1>1. /\ moment' = moment + 1 /\ signedIn' = {moment}
      /\ UNCHANGED <<browsed, audited, snapshots, targets, silent, paging>>
  BY DEF SignIn, Others
<1>2. /\ moment \in Nat \ {0} /\ browsed \subseteq 1 .. moment - 1 /\ audited \subseteq 1 .. moment - 1
      /\ snapshots \subseteq 1 .. moment - 1 /\ signedIn \subseteq 1 .. moment - 1 /\ targets \subseteq 1 .. moment - 1
      /\ Cardinality(signedIn) <= 1
  BY DEF TimelineTyped
<1>3. moment' \in Nat /\ moment' >= moment /\ 1 .. moment - 1 \subseteq 1 .. moment' - 1 /\ {moment} \subseteq 1 .. moment' - 1
  BY <1>1, <1>2
<1>4. Cardinality({moment}) = 1
  BY FS_Singleton
<1>5. TimelineTyped'
  <2>1. Cardinality(signedIn') <= 1
    BY <1>1, <1>4
  <2> QED BY <1>1, <1>2, <1>3, <2>1, TimelineMoves
<1>6. IsFiniteSet(signedIn) /\ Cardinality(signedIn) <= Cardinality({moment})
  <2>1. IsFiniteSet(signedIn)
    BY <1>2, DaysFinite
  <2> QED BY <1>2, <1>4, <2>1
<1>7. \A u \in Timeline : u \in Existing' \/ u \in signedIn
  BY <1>1 DEF Timeline, Existing
<1>8. \A u \in Existing' : u < moment => u \in Existing
  BY <1>1, <1>2 DEF Existing
<1>9. {moment} \subseteq Existing' /\ (\A u \in {moment} : u >= moment)
  BY <1>1, <1>2 DEF Existing
<1>10. 1 \in Nat
  OBVIOUS
<1>11. PagesBehind'
  BY <1>1, <1>5, <1>6, <1>7, <1>8, <1>9, <1>10, RanksGrow
<1> QED BY <1>5, <1>11

LEMMA RemoveTargetStep ==
  ASSUME TimelineTyped, PagesBehind, NEW removed, RemoveTarget(removed)
  PROVE  TimelineTyped' /\ PagesBehind'
<1>1. PICK k : k = Cardinality(removed)
  OBVIOUS
<1>2. /\ removed \subseteq targets /\ audited' = audited \cup (moment .. moment + k - 1) /\ moment' = moment + k
      /\ targets' = targets \ removed /\ snapshots' = snapshots \ removed
      /\ UNCHANGED <<browsed, signedIn, silent, paging>>
  BY <1>1 DEF RemoveTarget, RemovalAudit, Audit, Others
<1>3. /\ moment \in Nat \ {0} /\ browsed \subseteq 1 .. moment - 1 /\ audited \subseteq 1 .. moment - 1
      /\ snapshots \subseteq 1 .. moment - 1 /\ signedIn \subseteq 1 .. moment - 1 /\ targets \subseteq 1 .. moment - 1
      /\ Cardinality(signedIn) <= 1
  BY DEF TimelineTyped
<1>4. IsFiniteSet(removed) /\ k \in Nat
  <2>1. removed \subseteq 1 .. moment - 1
    BY <1>2, <1>3
  <2> QED BY <1>1, <1>3, <2>1, DaysFinite
<1>5. moment' \in Nat /\ moment' >= moment /\ 1 .. moment - 1 \subseteq 1 .. moment' - 1
      /\ moment .. moment + k - 1 \subseteq 1 .. moment' - 1
  BY <1>2, <1>3, <1>4
<1>6. TimelineTyped'
  BY <1>2, <1>3, <1>5, TimelineMoves
<1>7. Cardinality(moment .. moment + k - 1) = k
  <2>1. moment \in Int /\ moment + k - 1 \in Int
    BY <1>3, <1>4
  <2>2. Cardinality(moment .. moment + k - 1) = (IF moment > moment + k - 1 THEN 0 ELSE (moment + k - 1) - moment + 1)
    BY <2>1, FS_Interval
  <2> QED BY <1>3, <1>4, <2>2
<1>8. Cardinality(removed) <= Cardinality(moment .. moment + k - 1)
  BY <1>1, <1>4, <1>7
<1>9. \A u \in Timeline : u \in Existing' \/ u \in removed
  BY <1>2 DEF Timeline, Existing
<1>10. \A u \in Existing' : u < moment => u \in Existing
  BY <1>2, <1>3, <1>4 DEF Existing
<1>11. moment .. moment + k - 1 \subseteq Existing' /\ (\A u \in moment .. moment + k - 1 : u >= moment)
  BY <1>2, <1>3, <1>4 DEF Existing
<1>12. PagesBehind'
  BY <1>2, <1>4, <1>6, <1>8, <1>9, <1>10, <1>11, RanksGrow
<1> QED BY <1>6, <1>12

LEMMA RemoveEntryStep ==
  ASSUME TimelineTyped, PagesBehind, NEW t, RemoveEntry(t)
  PROVE  TimelineTyped' /\ PagesBehind'
<1>1. /\ targets' = targets \ {t} /\ snapshots' = snapshots \ {t}
      /\ silent' = (silent \/ (paging.pc # "idle" /\ t \in snapshots))
      /\ UNCHANGED <<moment, browsed, audited, signedIn, paging>>
  BY DEF RemoveEntry, Others
<1>2. /\ moment \in Nat \ {0} /\ browsed \subseteq 1 .. moment - 1 /\ audited \subseteq 1 .. moment - 1
      /\ snapshots \subseteq 1 .. moment - 1 /\ signedIn \subseteq 1 .. moment - 1 /\ targets \subseteq 1 .. moment - 1
      /\ Cardinality(signedIn) <= 1
  BY DEF TimelineTyped
<1>3. TimelineTyped'
  <2>1. moment' \in Nat /\ moment' >= moment
    BY <1>1, <1>2
  <2> QED BY <1>1, <1>2, <2>1, TimelineMoves
<1>4. CASE silent'
  BY <1>3, <1>4 DEF PagesBehind
<1>5. CASE paging.pc = "idle"
  BY <1>1, <1>3, <1>5 DEF PagesBehind
<1>6. CASE ~ silent' /\ t \notin snapshots
  <2>1. Timeline' = Timeline
    BY <1>1, <1>6 DEF Timeline
  <2>2. \A u : Rank(u)' = Rank(u)
    BY <2>1 DEF Rank
  <2> QED BY <1>1, <1>3, <1>6, <2>1, <2>2 DEF PagesBehind
<1> QED BY <1>1, <1>3, <1>4, <1>5, <1>6

LEMMA PruneTimelineStep ==
  ASSUME TimelineTyped, PagesBehind, PruneTimeline
  PROVE  TimelineTyped' /\ PagesBehind'
<1>1. /\ browsed' = {t \in browsed : t >= moment - KeptDays}
      /\ UNCHANGED <<moment, audited, snapshots, signedIn, targets, silent, paging>>
  BY DEF PruneTimeline, Others
<1>2. /\ moment \in Nat \ {0} /\ browsed \subseteq 1 .. moment - 1 /\ audited \subseteq 1 .. moment - 1
      /\ snapshots \subseteq 1 .. moment - 1 /\ signedIn \subseteq 1 .. moment - 1 /\ targets \subseteq 1 .. moment - 1
      /\ Cardinality(signedIn) <= 1
  BY DEF TimelineTyped
<1>3. TimelineTyped'
  <2>1. moment' \in Nat /\ moment' >= moment
    BY <1>1, <1>2
  <2> QED BY <1>1, <1>2, <2>1, TimelineMoves
<1>4. Timeline' = Timeline
  <2>1. ShownDays \in Nat /\ KeptDays \in Nat /\ ShownDays <= KeptDays
    BY ActivityAssumption
  <2>2. \A t \in browsed : t >= moment - ShownDays => t >= moment - KeptDays
    BY <1>2, <2>1
  <2> QED BY <1>1, <2>2 DEF Timeline
<1>5. \A u : Rank(u)' = Rank(u)
  BY <1>4 DEF Rank
<1> QED BY <1>1, <1>3, <1>4, <1>5 DEF PagesBehind

\* A page is read: what is due and not on it is behind it, and then there is more.
LEMMA QueryPageStep ==
  ASSUME TimelineTyped, PagesBehind, QueryPage
  PROVE  TimelineTyped' /\ PagesBehind'
<1> DEFINE rows == {t \in Timeline : Rank(t) \in paging.offset .. paging.offset + PageRows - 1}
           more == Cardinality(Timeline) > paging.offset + PageRows
           due == IF paging.pc = "idle" THEN Timeline ELSE paging.due
<1>1. /\ paging.pc \in {"idle", "next"}
      /\ paging' = [paging EXCEPT !.pc = "hydrating", !.rows = rows, !.more = more, !.due = due]
      /\ UNCHANGED <<moment, browsed, audited, snapshots, signedIn, targets, silent>>
  BY DEF QueryPage
<1>2. /\ moment \in Nat \ {0} /\ PageRows \in Nat /\ paging \in Pagings /\ paging.offset \in Nat
      /\ paging.due \subseteq 1 .. moment - 1 /\ Timeline \subseteq 1 .. moment - 1 /\ IsFiniteSet(Timeline)
      /\ \A t : Rank(t) \in Nat
  BY ActivityAssumption, TimelineFinite DEF TimelineTyped, Pagings
<1>3. rows \subseteq Timeline /\ due \subseteq 1 .. moment - 1 /\ more \in BOOLEAN
  <2>1. rows \subseteq Timeline /\ due \subseteq 1 .. moment - 1
    BY <1>2
  <2>2. more \in BOOLEAN
    OBVIOUS
  <2> QED BY <2>1, <2>2
<1>4. ASSUME ~ silent, NEW t \in due \cap Timeline
      PROVE  t \in paging.shown \cup rows \/ (more /\ Rank(t) >= paging.offset + PageRows)
  <2>1. t \in paging.shown \/ Rank(t) >= paging.offset
    <3>1. CASE paging.pc = "idle"
      BY <1>2, <3>1 DEF TimelineTyped
    <3>2. CASE paging.pc = "next"
      BY <1>4, <3>2 DEF PagesBehind
    <3> QED BY <1>1, <3>1, <3>2
  <2>2. CASE t \notin paging.shown /\ Rank(t) >= paging.offset + PageRows
    <3> DEFINE newer == {u \in Timeline : u > t}
    <3>1. t \notin newer
      BY <1>2
    <3>2. IsFiniteSet(newer) /\ Cardinality(newer) = Rank(t)
      BY <1>2, FS_Subset DEF Rank
    <3>3. IsFiniteSet(newer \cup {t}) /\ Cardinality(newer \cup {t}) = Rank(t) + 1
      <4> HIDE DEF newer
      <4> QED BY <3>1, <3>2, FS_AddElement
    <3>4. newer \cup {t} \subseteq Timeline
      OBVIOUS
    <3> HIDE DEF newer
    <3>5. Cardinality(newer \cup {t}) <= Cardinality(Timeline) /\ Cardinality(Timeline) \in Nat
      BY <1>2, <3>4, FS_Subset, FS_CardinalityType
    <3>6. Cardinality(Timeline) > paging.offset + PageRows
      BY <1>2, <2>2, <3>3, <3>5
    <3> QED BY <2>2, <3>6
  <2>3. CASE Rank(t) >= paging.offset /\ ~(Rank(t) >= paging.offset + PageRows)
    <3>1. Rank(t) \in paging.offset .. paging.offset + PageRows - 1
      BY <1>2, <2>3
    <3> QED BY <3>1
  <2> QED BY <2>1, <2>2, <2>3
<1> HIDE DEF rows, more, due
<1>5. /\ paging' \in Pagings /\ paging'.pc = "hydrating" /\ paging'.rows = rows /\ paging'.more = more
      /\ paging'.due = due /\ paging'.offset = paging.offset /\ paging'.shown = paging.shown
  <2>1. rows \subseteq Nat /\ due \subseteq Nat
    BY <1>2, <1>3
  <2> QED BY <1>1, <1>2, <1>3, <2>1 DEF Pagings
<1>6. TimelineTyped'
  BY <1>1, <1>3, <1>5 DEF TimelineTyped
<1>7. Timeline' = Timeline /\ \A t : Rank(t)' = Rank(t)
  BY <1>1 DEF Timeline, Rank
<1>8. PagesBehind'
  BY <1>1, <1>4, <1>5, <1>7 DEF PagesBehind
<1> QED BY <1>6, <1>8

LEMMA HydratePageStep ==
  ASSUME TimelineTyped, PagesBehind, HydratePage
  PROVE  TimelineTyped' /\ PagesBehind'
<1> DEFINE pc == IF paging.more THEN "next" ELSE "read"
           shown == paging.shown \cup (paging.rows \cap (browsed \cup audited \cup snapshots \cup signedIn))
<1>1. /\ paging.pc = "hydrating"
      /\ paging' = [paging EXCEPT !.pc = pc, !.offset = paging.offset + PageRows, !.shown = shown]
      /\ UNCHANGED <<moment, browsed, audited, snapshots, signedIn, targets, silent>>
  BY DEF HydratePage, TimelineTyped, Pagings
<1>2. paging \in Pagings /\ paging.offset \in Nat /\ PageRows \in Nat /\ paging.rows \subseteq Nat /\ paging.shown \subseteq Nat
  BY ActivityAssumption DEF TimelineTyped, Pagings
<1>3. shown \subseteq Nat /\ pc \in {"next", "read"} /\ (pc = "next" <=> paging.more)
  BY <1>2
<1>4. \A t \in Timeline : t \in paging.shown \cup paging.rows => t \in shown
  BY DEF Timeline
<1> HIDE DEF pc, shown
<1>5. /\ paging' \in Pagings /\ paging'.pc = pc /\ paging'.due = paging.due
      /\ paging'.offset = paging.offset + PageRows /\ paging'.shown = shown
  <2>1. PICK n \in Nat : n = paging.offset + PageRows
    BY <1>2
  <2>2. paging' = [paging EXCEPT !.pc = pc, !.offset = n, !.shown = shown]
    BY <1>1, <2>1
  <2>3. pc \in {"idle", "hydrating", "next", "read"}
    BY <1>3
  <2> QED BY <1>2, <1>3, <2>1, <2>2, <2>3 DEF Pagings
<1>6. TimelineTyped'
  BY <1>1, <1>3, <1>5 DEF TimelineTyped
<1>7. Timeline' = Timeline /\ \A t : Rank(t)' = Rank(t)
  BY <1>1 DEF Timeline, Rank
<1>8. ASSUME ~ silent, NEW t \in paging.due \cap Timeline
      PROVE  t \in shown \/ (pc = "next" /\ Rank(t) >= paging.offset + PageRows)
  BY <1>1, <1>3, <1>4, <1>8 DEF PagesBehind
<1>9. PagesBehind'
  BY <1>1, <1>3, <1>5, <1>7, <1>8 DEF PagesBehind
<1> QED BY <1>6, <1>9

(***************************************************************************)
(* Limits                                                                  *)
(***************************************************************************)
ActivityInv == RateInv /\ ReadInv /\ PostInv /\ TimelineTyped /\ PagesBehind

LEMMA ActivityInvInit == ActivityInit => ActivityInv
<1> SUFFICES ASSUME ActivityInit PROVE ActivityInv
  OBVIOUS
<1>1. RateInv
  BY DEF ActivityInit, RateInv, AddressInv
<1>2. ReadInv
  <2>1. Reading = {}
    BY DEF ActivityInit, Reading
  <2>2. IsFiniteSet(Reading) /\ Cardinality(Reading) = 0
    BY <2>1, FS_EmptySet
  <2>3. readers = 0 /\ ReadCapacity \in Nat /\ read \in [Reads -> {"idle", "reading", "refused"}]
    BY ActivityAssumption DEF ActivityInit
  <2> QED BY <2>2, <2>3 DEF ReadInv
<1>3. PostInv
  <2>1. PostIdle \in PostRecords /\ PostIdle.pc = "idle"
    BY DEF PostIdle, PostRecords
  <2>2. /\ postTime = 1 /\ recorded \in [EventIds -> Nat] /\ post \in [Posts -> PostRecords]
        /\ (\A e \in EventIds : recorded[e] = 0) /\ \A p \in Posts : post[p].pc = "idle"
    BY <2>1 DEF ActivityInit
  <2> QED BY <2>2 DEF PostInv, PostTyped, PostsFit, QuotaHeld, ReplayAccepted
<1>4. TimelineTyped
  <2>1. Cardinality(OldTargets) \in Nat /\ Cardinality({}) = 0 /\ OldTargets \subseteq 1 .. Cardinality(OldTargets)
    BY ActivityAssumption, FS_CardinalityType, FS_EmptySet
  <2>2. moment \in Nat \ {0} /\ moment - 1 = Cardinality(OldTargets)
    BY <2>1 DEF ActivityInit
  <2>3. PageIdle \in Pagings /\ PageIdle.due = {} /\ PageIdle.offset = 0
    BY DEF PageIdle, Pagings
  <2> QED BY <2>1, <2>2, <2>3 DEF ActivityInit, TimelineTyped
<1>5. PagesBehind
  BY DEF ActivityInit, PagesBehind, PageIdle
<1> QED BY <1>1, <1>2, <1>3, <1>4, <1>5 DEF ActivityInv

LEMMA LimitsKept ==
  /\ RateInv /\ UNCHANGED rateVars => RateInv'
  /\ ReadInv /\ UNCHANGED readVars => ReadInv'
  /\ PostInv /\ UNCHANGED postVars => PostInv'
  /\ TimelineTyped /\ PagesBehind /\ UNCHANGED pageVars => TimelineTyped' /\ PagesBehind'
<1>1. RateInv /\ UNCHANGED rateVars => RateInv'
  BY DEF rateVars, RateInv, AddressInv
<1>2. ReadInv /\ UNCHANGED readVars => ReadInv'
  BY DEF readVars, ReadInv, Reading
<1>3. PostInv /\ UNCHANGED postVars => PostInv'
  BY DEF postVars, PostInv, PostTyped, PostsFit, Fits, CountedSince, QuotaHeld, ReplayAccepted
<1>4. TimelineTyped /\ PagesBehind /\ UNCHANGED pageVars => TimelineTyped' /\ PagesBehind'
  BY DEF pageVars, TimelineTyped, PagesBehind, Timeline, Rank
<1> QED BY <1>1, <1>2, <1>3, <1>4

LEMMA ActivityInvStep == ActivityInv /\ [RateNext \/ ReadNext \/ IngestNext \/ PagesNext]_activityVars => ActivityInv'
<1> SUFFICES ASSUME ActivityInv, [RateNext \/ ReadNext \/ IngestNext \/ PagesNext]_activityVars PROVE ActivityInv'
  OBVIOUS
<1> USE DEF ActivityInv
<1>1. CASE RateNext
  <2>1. UNCHANGED readVars /\ UNCHANGED postVars /\ UNCHANGED pageVars
    BY <1>1 DEF RateNext
  <2> QED BY <1>1, <2>1, RateStep, LimitsKept
<1>2. CASE ReadNext
  <2>1. UNCHANGED rateVars /\ UNCHANGED postVars /\ UNCHANGED pageVars
    BY <1>2 DEF ReadNext
  <2> QED BY <1>2, <2>1, ReadStep, LimitsKept
<1>3. CASE IngestNext
  <2>1. UNCHANGED rateVars /\ UNCHANGED readVars /\ UNCHANGED pageVars
    BY <1>3 DEF IngestNext
  <2> QED BY <1>3, <2>1, PostStep, LimitsKept
<1>4. CASE PagesNext
  <2>1. UNCHANGED rateVars /\ UNCHANGED readVars /\ UNCHANGED postVars
    BY <1>4 DEF PagesNext
  <2>2. TimelineTyped' /\ PagesBehind'
    BY <1>4, RowsComeStep, SignInStep, RemoveTargetStep, RemoveEntryStep, PruneTimelineStep, QueryPageStep,
       HydratePageStep DEF PagesNext
  <2> QED BY <2>1, <2>2, LimitsKept
<1>5. CASE UNCHANGED activityVars
  <2>1. UNCHANGED rateVars /\ UNCHANGED readVars /\ UNCHANGED postVars /\ UNCHANGED pageVars
    BY <1>5 DEF activityVars
  <2> QED BY <2>1, LimitsKept
<1> QED BY <1>1, <1>2, <1>3, <1>4, <1>5

\* Whatever the limits, the capacity, the quota and the page size, and however requests, reads,
\* batches and what happens beside a reader of the timeline interleave: nobody is refused who
\* is within a limit, no limit is exceeded (a rate limit not by more than a second window's
\* worth), and the pages show every row that was there at the start and still is.
THEOREM LimitsAlwaysHonest == ActivitySpec => []LimitsHonest
<1>1. ActivityInv => LimitsHonest
  <2> SUFFICES ASSUME ActivityInv PROVE LimitsHonest
    OBVIOUS
  <2>1. RateHonest
    BY RateHolds DEF ActivityInv
  <2>2. ReadersCounted
    BY DEF ActivityInv, ReadInv, Reading, ReadersCounted
  <2>3. QuotaHeld /\ ReplayAccepted
    BY DEF ActivityInv, PostInv
  <2>4. PagesMissNothing
    BY DEF ActivityInv, PagesBehind, PagesMissNothing
  <2> QED BY <2>1, <2>2, <2>3, <2>4 DEF LimitsHonest
<1> QED
  BY ActivityInvInit, ActivityInvStep, <1>1, PTL DEF ActivitySpec

(***************************************************************************)
(* Figures of product analytics                                            *)
(***************************************************************************)
-----------------------------------------------------------------------------
(* Dates, and the first and last of a few instants *)

LEMMA DateBounds ==
  \A t \in Nat : Date(t) \in Nat /\ 2 * Date(t) <= t /\ t < 2 * Date(t) + 2
  BY DEF Date

\* A midday start leaves its date out, a midday end takes its date in.
LEMMA DateCeiling ==
  \A x \in Nat, d \in Nat : Date(x + 1) \in Nat /\ (Date(x + 1) <= d <=> x <= 2 * d) /\ (d < Date(x + 1) <=> 2 * d < x)
<1> TAKE x \in Nat, d \in Nat
<1>1. x + 1 \in Nat
  OBVIOUS
<1>2. Date(x + 1) \in Nat /\ 2 * Date(x + 1) <= x + 1 /\ x + 1 < 2 * Date(x + 1) + 2
  BY <1>1, DateBounds
<1> QED BY <1>2

LEMMA DateOfInstant ==
  ASSUME NEW t \in Instants
  PROVE  Date(t) \in Dates
<1>1. t \in Nat /\ MaxInstant \in Nat /\ t <= MaxInstant
  BY AnalyticsAssumption DEF Instants
<1>2. Date(t) \in Nat /\ 2 * Date(t) <= t
  BY <1>1, DateBounds
<1>3. Date(MaxInstant) \in Nat /\ MaxInstant < 2 * Date(MaxInstant) + 2
  BY <1>1, DateBounds
<1>4. Date(t) <= Date(MaxInstant)
  BY <1>1, <1>2, <1>3
<1> QED BY <1>2, <1>3, <1>4 DEF Dates

LEMMA LeastOf ==
  ASSUME NEW S, S \subseteq Nat, S # {}
  PROVE  Min(S) \in S /\ \A x \in S : Min(S) <= x
<1>1. \E n \in S : \A m \in S : n <= m
  BY LeastNat
<1> QED BY <1>1 DEF Min

LEMMA GreatestOf ==
  ASSUME NEW S, S \subseteq Nat, S # {}, NEW k \in Nat, \A x \in S : x <= k
  PROVE  Max(S) \in S /\ \A x \in S : x <= Max(S)
<1> DEFINE R == {n \in Nat : \A x \in S : x <= n}
<1>1. PICK n \in R : \A j \in R : n <= j
  <2>1. k \in R /\ R \subseteq Nat
    OBVIOUS
  <2> QED BY <2>1, LeastNat
<1>2. n \in S
  <2> SUFFICES ASSUME n \notin S PROVE FALSE
    OBVIOUS
  <2>1. PICK x \in S : x \in Nat
    OBVIOUS
  <2>2. n \in Nat /\ \A y \in S : y \in Nat /\ y <= n - 1
    BY <1>1
  <2>3. n - 1 \in R
    BY <2>1, <2>2
  <2> QED BY <1>1, <2>2, <2>3
<1>3. \E a \in S : \A b \in S : a >= b
  BY <1>1, <1>2
<1>4. Max(S) \in S /\ \A b \in S : Max(S) >= b
  BY <1>3 DEF Max
<1> QED BY <1>4

\* The least and the greatest are found once they are named.
LEMMA NamedLeast ==
  ASSUME NEW S, S \subseteq Nat, NEW x \in S, \A y \in S : x <= y
  PROVE  Min(S) = x
<1>1. Min(S) \in S /\ Min(S) <= x
  BY LeastOf
<1>2. x <= Min(S) /\ Min(S) \in Nat /\ x \in Nat
  BY <1>1
<1> QED BY <1>1, <1>2

LEMMA NamedGreatest ==
  ASSUME NEW S, S \subseteq Nat, NEW x \in S, \A y \in S : y <= x
  PROVE  Max(S) = x
<1>0. x \in Nat /\ S # {}
  OBVIOUS
<1>1. Max(S) \in S /\ x <= Max(S)
  BY <1>0, GreatestOf
<1>2. Max(S) <= x /\ Max(S) \in Nat
  BY <1>1
<1> QED BY <1>0, <1>1, <1>2

LEMMA LeastWithOne ==
  ASSUME NEW S, S \subseteq Nat, S # {}, NEW k \in Nat, \A x \in S : x <= k, NEW a \in Nat
  PROVE  /\ Min(S \cup {a}) = Min({Min(S), a})
         /\ Max(S \cup {a}) = Max({Max(S), a})
<1> DEFINE lo == Min(S)
           hi == Max(S)
<1>1. lo \in S /\ \A x \in S : lo <= x
  BY LeastOf
<1>2. hi \in S /\ \A x \in S : x <= hi
  BY GreatestOf
<1> HIDE DEF lo, hi
<1>3. lo \in Nat /\ hi \in Nat /\ S \cup {a} \subseteq Nat /\ {lo, a} \subseteq Nat /\ {hi, a} \subseteq Nat
  BY <1>1, <1>2
<1>4. Min(S \cup {a}) = Min({lo, a})
  <2>1. CASE lo <= a
    <3>1. lo \in S \cup {a} /\ \A y \in S \cup {a} : lo <= y
      BY <1>1, <2>1
    <3>2. lo \in {lo, a} /\ \A y \in {lo, a} : lo <= y
      BY <1>3, <2>1
    <3>3. Min(S \cup {a}) = lo
      BY <1>3, <3>1, NamedLeast
    <3>4. Min({lo, a}) = lo
      BY <1>3, <3>2, NamedLeast
    <3> QED BY <3>3, <3>4
  <2>2. CASE ~ (lo <= a)
    <3>1. a \in S \cup {a} /\ \A y \in S \cup {a} : a <= y
      BY <1>1, <1>3, <2>2
    <3>2. a \in {lo, a} /\ \A y \in {lo, a} : a <= y
      BY <1>3, <2>2
    <3>3. Min(S \cup {a}) = a
      BY <1>3, <3>1, NamedLeast
    <3>4. Min({lo, a}) = a
      BY <1>3, <3>2, NamedLeast
    <3> QED BY <3>3, <3>4
  <2> QED BY <2>1, <2>2
<1>5. Max(S \cup {a}) = Max({hi, a})
  <2>1. CASE a <= hi
    <3>1. hi \in S \cup {a} /\ \A y \in S \cup {a} : y <= hi
      BY <1>2, <1>3, <2>1
    <3>2. hi \in {hi, a} /\ \A y \in {hi, a} : y <= hi
      BY <1>3, <2>1
    <3>3. Max(S \cup {a}) = hi
      BY <1>3, <3>1, NamedGreatest
    <3>4. Max({hi, a}) = hi
      BY <1>3, <3>2, NamedGreatest
    <3> QED BY <3>3, <3>4
  <2>2. CASE ~ (a <= hi)
    <3>1. a \in S \cup {a} /\ \A y \in S \cup {a} : y <= a
      BY <1>2, <1>3, <2>2
    <3>2. a \in {hi, a} /\ \A y \in {hi, a} : y <= a
      BY <1>3, <2>2
    <3>3. Max(S \cup {a}) = a
      BY <1>3, <3>1, NamedGreatest
    <3>4. Max({hi, a}) = a
      BY <1>3, <3>2, NamedGreatest
    <3> QED BY <3>3, <3>4
  <2> QED BY <2>1, <2>2
<1> QED BY <1>4, <1>5 DEF lo, hi
-----------------------------------------------------------------------------
(* Sign-ins and the login-day rows *)

DayRow == [count : Nat, first : Nat, last : Nat]

\* The half days of a date a member signed in on, and the sign-ins of one of them, for the
\* member's sign-ins h.
SignInsOn(h, d) == {t \in Instants : Date(t) = d /\ h[t] > 0}
HalfDayCount(h, t) == IF t \in Instants THEN h[t] ELSE 0

\* A row says what happened on its date, and something did.
RowTrue(row, h, d) ==
  row # None =>
    /\ SignInsOn(h, d) # {}
    /\ row = [count |-> HalfDayCount(h, 2 * d) + HalfDayCount(h, 2 * d + 1),
              first |-> Min(SignInsOn(h, d)), last |-> Max(SignInsOn(h, d))]

LEMMA InstantsAreNat == Instants \subseteq Nat /\ \A t \in Instants : t <= MaxInstant
  BY AnalyticsAssumption DEF Instants

\* One more sign-in, counted on its date.
LEMMA SignInCounted ==
  ASSUME NEW h \in [Instants -> Nat], NEW a \in Instants
  PROVE  LET n == [h EXCEPT ![a] = @ + 1] d == Date(a) IN
         /\ n \in [Instants -> Nat]
         /\ SignInsOn(n, d) = SignInsOn(h, d) \cup {a}
         /\ HalfDayCount(n, 2 * d) + HalfDayCount(n, 2 * d + 1)
              = HalfDayCount(h, 2 * d) + HalfDayCount(h, 2 * d + 1) + 1
         /\ \A e \in Nat : e # d =>
              /\ SignInsOn(n, e) = SignInsOn(h, e)
              /\ HalfDayCount(n, 2 * e) = HalfDayCount(h, 2 * e)
              /\ HalfDayCount(n, 2 * e + 1) = HalfDayCount(h, 2 * e + 1)
<1> DEFINE n == [h EXCEPT ![a] = @ + 1]
           d == Date(a)
<1>1. a \in Nat /\ d \in Nat /\ 2 * d <= a /\ a < 2 * d + 2
  BY InstantsAreNat, DateBounds
<1>2. n \in [Instants -> Nat] /\ n[a] = h[a] + 1 /\ h[a] \in Nat /\ \A t \in Instants : t # a => n[t] = h[t]
  OBVIOUS
<1> HIDE DEF n, d
<1>3. SignInsOn(n, d) = SignInsOn(h, d) \cup {a}
  <2>1. Date(a) = d /\ n[a] > 0
    BY <1>2 DEF d
  <2> QED BY <1>2, <2>1 DEF SignInsOn
<1>4. \A t \in Nat : t # a => HalfDayCount(n, t) = HalfDayCount(h, t)
  BY <1>2 DEF HalfDayCount
<1>5. HalfDayCount(n, a) = HalfDayCount(h, a) + 1
  BY <1>2 DEF HalfDayCount
<1>6. \A t \in Nat : HalfDayCount(h, t) \in Nat
  BY DEF HalfDayCount
<1>7. HalfDayCount(n, 2 * d) + HalfDayCount(n, 2 * d + 1)
        = HalfDayCount(h, 2 * d) + HalfDayCount(h, 2 * d + 1) + 1
  <2>0. 2 * d \in Nat /\ 2 * d + 1 \in Nat
    BY <1>1
  <2>1. CASE a = 2 * d
    BY <1>4, <1>5, <1>6, <2>0, <2>1
  <2>2. CASE a = 2 * d + 1
    BY <1>4, <1>5, <1>6, <2>0, <2>2
  <2>3. a = 2 * d \/ a = 2 * d + 1
    BY <1>1
  <2> QED BY <2>1, <2>2, <2>3
<1>8. ASSUME NEW e \in Nat, e # d
      PROVE  /\ SignInsOn(n, e) = SignInsOn(h, e)
             /\ HalfDayCount(n, 2 * e) = HalfDayCount(h, 2 * e)
             /\ HalfDayCount(n, 2 * e + 1) = HalfDayCount(h, 2 * e + 1)
  <2>1. 2 * e \in Nat /\ 2 * e + 1 \in Nat /\ 2 * e # a /\ 2 * e + 1 # a
    BY <1>1, <1>8
  <2>2. \A t \in Instants : Date(t) = e => t # a
    BY <1>8 DEF d
  <2>3. SignInsOn(n, e) = SignInsOn(h, e)
    BY <1>2, <2>2 DEF SignInsOn
  <2> QED BY <1>4, <2>1, <2>3
<1>9. /\ n \in [Instants -> Nat]
      /\ SignInsOn(n, d) = SignInsOn(h, d) \cup {a}
      /\ HalfDayCount(n, 2 * d) + HalfDayCount(n, 2 * d + 1)
           = HalfDayCount(h, 2 * d) + HalfDayCount(h, 2 * d + 1) + 1
      /\ \A e \in Nat : e # d =>
           /\ SignInsOn(n, e) = SignInsOn(h, e)
           /\ HalfDayCount(n, 2 * e) = HalfDayCount(h, 2 * e)
           /\ HalfDayCount(n, 2 * e + 1) = HalfDayCount(h, 2 * e + 1)
  BY <1>2, <1>3, <1>7, <1>8
<1> QED BY <1>9 DEF n, d

\* The upsert keeps a row true, whatever the order in which sign-ins reach it.
LEMMA UpsertTrue ==
  ASSUME NEW h \in [Instants -> Nat], NEW a \in Instants, NEW row \in {None} \cup DayRow,
         RowTrue(row, h, Date(a)), row = None => SignInsOn(h, Date(a)) = {}
  PROVE  /\ RowTrue(Upserted(row, a), [h EXCEPT ![a] = @ + 1], Date(a))
         /\ Upserted(row, a) \in DayRow /\ Upserted(row, a) # None
<1> DEFINE n == [h EXCEPT ![a] = @ + 1]
           d == Date(a)
           S == SignInsOn(h, d)
           k == HalfDayCount(h, 2 * d) + HalfDayCount(h, 2 * d + 1)
           up == Upserted(row, a)
<1>1. /\ SignInsOn(n, d) = S \cup {a}
      /\ HalfDayCount(n, 2 * d) + HalfDayCount(n, 2 * d + 1) = k + 1
  BY SignInCounted
<1>2. a \in Nat /\ d \in Nat /\ MaxInstant \in Nat
  BY InstantsAreNat, DateBounds, AnalyticsAssumption
<1>3. S \subseteq Nat /\ \A x \in S : x <= MaxInstant
  BY InstantsAreNat DEF SignInsOn
<1>4. \A x : x \in DayRow => x # None
  <2>1. \A x \in DayRow : x.count \in Nat /\ DOMAIN x = {"count", "first", "last"}
    BY DEF DayRow
  <2>2. DOMAIN None = {"none"} /\ "count" # "none"
    BY DEF None
  <2> QED BY <2>1, <2>2
<1>5. CASE row = None
  <2>1. S = {} /\ \A t \in Instants : Date(t) = d => h[t] = 0
    BY <1>5 DEF SignInsOn
  <2>2. k = 0
    <3>1. ASSUME NEW t \in Nat, t = 2 * d \/ t = 2 * d + 1 PROVE HalfDayCount(h, t) = 0
      <4>1. Date(t) \in Nat /\ 2 * Date(t) <= t /\ t < 2 * Date(t) + 2
        BY <3>1, DateBounds
      <4>2. Date(t) = d
        BY <1>2, <3>1, <4>1
      <4> QED BY <2>1, <4>2 DEF HalfDayCount
    <3>2. 2 * d \in Nat /\ 2 * d + 1 \in Nat
      BY <1>2
    <3> QED BY <3>1, <3>2
  <2>3. up = [count |-> 1, first |-> a, last |-> a]
    BY <1>5 DEF Upserted
  <2> HIDE DEF S, k, n, d, up
  <2>4. SignInsOn(n, d) = {a} /\ HalfDayCount(n, 2 * d) + HalfDayCount(n, 2 * d + 1) = 1
    BY <1>1, <2>1, <2>2
  <2>5. Min({a}) = a /\ Max({a}) = a
    <3>1. {a} \subseteq Nat /\ a \in {a} /\ (\A y \in {a} : a <= y) /\ (\A y \in {a} : y <= a)
      BY <1>2
    <3> QED BY <3>1, NamedLeast, NamedGreatest
  <2>6. up \in DayRow
    BY <1>2, <2>3 DEF DayRow
  <2>7. RowTrue(up, n, d)
    BY <2>3, <2>4, <2>5 DEF RowTrue
  <2> QED BY <1>4, <2>6, <2>7 DEF up, n, d
<1>6. CASE row # None
  <2>1. S # {} /\ row = [count |-> k, first |-> Min(S), last |-> Max(S)] /\ row \in DayRow
    BY <1>6 DEF RowTrue
  <2>2. up = [count |-> row.count + 1, first |-> Min({row.first, a}), last |-> Max({row.last, a})]
    BY <1>6 DEF Upserted
  <2> HIDE DEF S, k, n, d, up
  <2>3. row.count = k /\ row.first = Min(S) /\ row.last = Max(S) /\ k \in Nat
    BY <2>1 DEF DayRow
  <2>4. Min(S \cup {a}) = Min({Min(S), a}) /\ Max(S \cup {a}) = Max({Max(S), a})
    BY <1>2, <1>3, <2>1, LeastWithOne
  <2>5. up = [count |-> k + 1, first |-> Min(S \cup {a}), last |-> Max(S \cup {a})]
    BY <2>2, <2>3, <2>4
  <2>6. Min(S \cup {a}) \in Nat /\ Max(S \cup {a}) \in Nat
    <3>1. S \cup {a} \subseteq Nat /\ S \cup {a} # {} /\ \A x \in S \cup {a} : x <= MaxInstant
      BY <1>2, <1>3, InstantsAreNat
    <3>2. Min(S \cup {a}) \in S \cup {a} /\ Max(S \cup {a}) \in S \cup {a}
      BY <1>2, <3>1, LeastOf, GreatestOf
    <3> QED BY <3>1, <3>2
  <2>7. up \in DayRow
    BY <2>3, <2>5, <2>6 DEF DayRow
  <2>8. RowTrue(up, n, d)
    BY <1>1, <2>5 DEF RowTrue
  <2> QED BY <1>4, <2>7, <2>8 DEF up, n, d
<1> QED BY <1>5, <1>6
LoginTyped ==
  /\ instant \in Instants
  /\ signingIn \in [SignIns -> {None} \cup [user : Members, at : Instants]]
  /\ loginDay \in [Members -> [Dates -> {None} \cup DayRow]]
  /\ happened \in [Members -> [Instants -> Nat]]

\* An upsert is at most half a day behind the clock reading it stores.
SignInsRecent ==
  \A s \in SignIns : signingIn[s] # None => signingIn[s].at <= instant /\ instant <= signingIn[s].at + 1

RowsTrue == \A m \in Members, d \in Dates : RowTrue(loginDay[m][d], happened[m], d)

\* A date somebody signed in on has no row only when it is old enough to be pruned.
MissingRowsOld ==
  \A m \in Members, d \in Dates :
    loginDay[m][d] = None /\ SignInsOn(happened[m], d) # {} => d < Cutoff(Date(instant))

\* From the first date any member has a row on, every sign-in has its row.
NoGaps ==
  \A n \in Members, e \in Dates : loginDay[n][e] # None =>
    \A m \in Members, d \in Dates : e <= d /\ SignInsOn(happened[m], d) # {} => loginDay[m][d] # None

LoginInv == LoginTyped /\ SignInsRecent /\ RowsTrue /\ MissingRowsOld /\ NoGaps

LEMMA LoginInvInit == AnalyticsInit => LoginInv
<1> SUFFICES ASSUME AnalyticsInit PROVE LoginInv
  OBVIOUS
<1>1. \A m \in Members : happened[m] = [t \in Instants |-> 0]
  BY DEF AnalyticsInit
<1>2. \A m \in Members, d \in Dates : loginDay[m][d] = None /\ SignInsOn(happened[m], d) = {}
  BY <1>1 DEF AnalyticsInit, SignInsOn
<1>3. LoginTyped
  BY AnalyticsAssumption DEF AnalyticsInit, LoginTyped, Instants
<1>4. SignInsRecent
  BY DEF AnalyticsInit, SignInsRecent
<1>5. RowsTrue /\ MissingRowsOld /\ NoGaps
  BY <1>2 DEF RowsTrue, RowTrue, MissingRowsOld, NoGaps
<1> QED BY <1>3, <1>4, <1>5 DEF LoginInv

LEMMA LoginsKept ==
  ASSUME LoginInv, UNCHANGED <<instant, loginVars>>
  PROVE  LoginInv'
<1>1. instant' = instant /\ signingIn' = signingIn /\ loginDay' = loginDay /\ happened' = happened
  BY DEF loginVars
<1>2. LoginTyped' /\ SignInsRecent'
  BY <1>1 DEF LoginInv, LoginTyped, SignInsRecent
<1>3. RowsTrue'
  BY <1>1 DEF LoginInv, RowsTrue
<1>4. MissingRowsOld' /\ NoGaps'
  BY <1>1 DEF LoginInv, MissingRowsOld, NoGaps
<1> QED BY <1>2, <1>3, <1>4 DEF LoginInv

LEMMA DatesGrow == \A t \in Nat : Date(t) <= Date(t + 1) /\ Date(t + 1) <= Date(t) + 1 /\ Date(t + 1) \in Nat /\ Date(t) \in Nat
<1> TAKE t \in Nat
<1>1. t + 1 \in Nat
  OBVIOUS
<1>2. Date(t) \in Nat /\ 2 * Date(t) <= t /\ t < 2 * Date(t) + 2
  BY DateBounds
<1>3. Date(t + 1) \in Nat /\ 2 * Date(t + 1) <= t + 1 /\ t + 1 < 2 * Date(t + 1) + 2
  BY <1>1, DateBounds
<1> QED BY <1>2, <1>3

LEMMA HalfDayStep ==
  ASSUME LoginInv, HalfDay
  PROVE  LoginInv'
<1>1. /\ instant' = instant + 1 /\ instant < MaxInstant
      /\ signingIn' = signingIn /\ loginDay' = loginDay /\ happened' = happened
      /\ \A s \in SignIns : signingIn[s] # None => signingIn[s].at = instant
  BY DEF HalfDay, loginVars
<1>2. instant \in Nat /\ MaxInstant \in Nat
  BY AnalyticsAssumption DEF LoginInv, LoginTyped, Instants
<1>3. LoginTyped'
  BY <1>1, <1>2 DEF LoginInv, LoginTyped, Instants
<1>4. SignInsRecent'
  BY <1>1, <1>2 DEF SignInsRecent
<1>5. RowsTrue'
  BY <1>1 DEF LoginInv, RowsTrue
<1>6. NoGaps'
  BY <1>1 DEF LoginInv, NoGaps
<1>7. Cutoff(Date(instant)) <= Cutoff(Date(instant')) /\ Cutoff(Date(instant)) \in Int /\ Cutoff(Date(instant')) \in Int
  <2>1. Date(instant) \in Nat /\ Date(instant + 1) \in Nat /\ Date(instant) <= Date(instant + 1) /\ Retained \in Nat
    BY <1>2, DatesGrow, AnalyticsAssumption
  <2> QED BY <1>1, <2>1 DEF Cutoff
<1>8. \A d \in Dates : d \in Nat
  BY DEF Dates
<1>9. \A d \in Dates : d < Cutoff(Date(instant)) => d < Cutoff(Date(instant'))
  BY <1>7, <1>8
<1>10. MissingRowsOld'
  BY <1>1, <1>9 DEF LoginInv, MissingRowsOld
<1> QED BY <1>3, <1>4, <1>5, <1>6, <1>10 DEF LoginInv

LEMMA ReadClockStep ==
  ASSUME LoginInv, NEW s \in SignIns, NEW m \in Members, ReadClock(s, m)
  PROVE  LoginInv'
<1> DEFINE new == [user |-> m, at |-> instant]
<1>1. /\ instant' = instant /\ loginDay' = loginDay /\ happened' = happened
      /\ signingIn' = [signingIn EXCEPT ![s] = new]
  BY DEF ReadClock
<1>2. instant \in Instants /\ instant \in Nat
  BY InstantsAreNat DEF LoginInv, LoginTyped
<1>3. new \in [user : Members, at : Instants] /\ new.at = instant
  BY <1>2
<1> HIDE DEF new
<1>4. LoginTyped'
  BY <1>1, <1>3 DEF LoginInv, LoginTyped
<1>5. \A x \in SignIns : signingIn'[x] = IF x = s THEN new ELSE signingIn[x]
  BY <1>1 DEF LoginInv, LoginTyped
<1>6. SignInsRecent'
  BY <1>1, <1>2, <1>3, <1>5 DEF LoginInv, SignInsRecent
<1>7. RowsTrue'
  BY <1>1 DEF LoginInv, RowsTrue
<1>8. MissingRowsOld' /\ NoGaps'
  BY <1>1 DEF LoginInv, MissingRowsOld, NoGaps
<1> QED BY <1>4, <1>6, <1>7, <1>8 DEF LoginInv

\* The date of an upsert is never old enough to have been pruned.
LEMMA UpsertNotOld ==
  ASSUME NEW t \in Nat, NEW a \in Nat, a <= t, t <= a + 1
  PROVE  Cutoff(Date(t)) <= Date(a) /\ Date(a) \in Nat /\ Cutoff(Date(t)) \in Int
<1>1. t = a \/ t = a + 1
  OBVIOUS
<1>2. Date(a) \in Nat /\ Date(t) \in Nat /\ Date(t) <= Date(a) + 1
  BY <1>1, DatesGrow
<1>3. Retained \in Nat /\ Retained >= 2
  BY AnalyticsAssumption
<1> QED BY <1>2, <1>3 DEF Cutoff

LEMMA RecordLoginDayStep ==
  ASSUME LoginInv, NEW s \in SignIns, RecordLoginDay(s)
  PROVE  LoginInv'
<1>1. signingIn[s] # None /\ signingIn[s] \in [user : Members, at : Instants]
  BY DEF RecordLoginDay, LoginInv, LoginTyped
<1>2. PICK u \in Members, a \in Instants : u = signingIn[s].user /\ a = signingIn[s].at
  BY <1>1
<1>3. PICK row : row = loginDay[u][Date(a)]
  OBVIOUS
<1>4. PICK h : h = happened[u]
  OBVIOUS
<1>5. PICK d : d = Date(a)
  OBVIOUS
<1>6. d \in Dates /\ d \in Nat /\ row \in {None} \cup DayRow /\ h \in [Instants -> Nat]
  <2>1. d \in Dates
    BY <1>5, DateOfInstant
  <2>2. d \in Nat
    BY <2>1 DEF Dates
  <2>3. loginDay[u] \in [Dates -> {None} \cup DayRow] /\ happened[u] \in [Instants -> Nat]
    BY DEF LoginInv, LoginTyped
  <2> QED BY <1>3, <1>4, <1>5, <2>1, <2>2, <2>3
<1>7. PICK new : new = Upserted(row, a)
  OBVIOUS
<1>8. PICK n : n = [h EXCEPT ![a] = @ + 1]
  OBVIOUS
<1>9. instant \in Nat /\ a \in Nat /\ a <= instant /\ instant <= a + 1
  BY <1>1, <1>2, InstantsAreNat DEF LoginInv, LoginTyped, SignInsRecent
<1>10. PICK cut \in Int : cut = Cutoff(Date(instant)) /\ cut <= d
  BY <1>5, <1>9, UpsertNotOld
<1>11. /\ instant' = instant
       /\ signingIn' = [signingIn EXCEPT ![s] = None]
       /\ loginDay' = [loginDay EXCEPT ![u][d] = new]
       /\ happened' = [happened EXCEPT ![u] = n]
  <2>1. /\ loginDay' = [loginDay EXCEPT ![u][Date(a)] = Upserted(@, a)]
        /\ happened' = [happened EXCEPT ![u][a] = @ + 1]
    BY <1>2 DEF RecordLoginDay
  <2>2. loginDay' = [loginDay EXCEPT ![u][d] = new]
    BY <1>3, <1>5, <1>6, <1>7, <2>1 DEF LoginInv, LoginTyped
  <2>3. happened' = [happened EXCEPT ![u] = n]
    BY <1>4, <1>8, <2>1 DEF LoginInv, LoginTyped
  <2> QED BY <2>2, <2>3 DEF RecordLoginDay
<1>12. row = None => SignInsOn(h, d) = {}
  <2>1. ~ (d < cut)
    BY <1>6, <1>10
  <2>2. row = None /\ SignInsOn(h, d) # {} => d < cut
    BY <1>3, <1>4, <1>5, <1>6, <1>10 DEF LoginInv, MissingRowsOld
  <2> QED BY <2>1, <2>2
<1>13. RowTrue(row, h, d)
  BY <1>3, <1>4, <1>5, <1>6 DEF LoginInv, RowsTrue
<1>14. RowTrue(new, n, d) /\ new \in DayRow /\ new # None
  BY <1>5, <1>6, <1>7, <1>8, <1>12, <1>13, UpsertTrue
<1>15. /\ n \in [Instants -> Nat] /\ SignInsOn(n, d) = SignInsOn(h, d) \cup {a}
       /\ \A e \in Nat : e # d =>
            /\ SignInsOn(n, e) = SignInsOn(h, e)
            /\ HalfDayCount(n, 2 * e) = HalfDayCount(h, 2 * e)
            /\ HalfDayCount(n, 2 * e + 1) = HalfDayCount(h, 2 * e + 1)
  <2>1. /\ [h EXCEPT ![a] = @ + 1] \in [Instants -> Nat]
        /\ SignInsOn([h EXCEPT ![a] = @ + 1], Date(a)) = SignInsOn(h, Date(a)) \cup {a}
        /\ \A e \in Nat : e # Date(a) =>
             /\ SignInsOn([h EXCEPT ![a] = @ + 1], e) = SignInsOn(h, e)
             /\ HalfDayCount([h EXCEPT ![a] = @ + 1], 2 * e) = HalfDayCount(h, 2 * e)
             /\ HalfDayCount([h EXCEPT ![a] = @ + 1], 2 * e + 1) = HalfDayCount(h, 2 * e + 1)
    BY <1>6, SignInCounted
  <2> QED BY <1>5, <1>8, <2>1
<1>16. /\ loginDay'[u][d] = new /\ happened'[u] = n
       /\ \A m \in Members : m # u => happened'[m] = happened[m]
       /\ \A m \in Members, e \in Dates : <<m, e>> # <<u, d>> => loginDay'[m][e] = loginDay[m][e]
  BY <1>6, <1>11 DEF LoginInv, LoginTyped
<1>17. LoginTyped'
  BY <1>6, <1>11, <1>14, <1>15 DEF LoginInv, LoginTyped
<1>18. SignInsRecent'
  BY <1>11 DEF LoginInv, LoginTyped, SignInsRecent
<1>19. \A e \in Dates : e \in Nat
  BY DEF Dates
<1>20. \A m \in Members, e \in Dates : <<m, e>> # <<u, d>> => SignInsOn(happened'[m], e) = SignInsOn(happened[m], e)
  <2> SUFFICES ASSUME NEW m \in Members, NEW e \in Dates, <<m, e>> # <<u, d>>
               PROVE  SignInsOn(happened'[m], e) = SignInsOn(happened[m], e)
    OBVIOUS
  <2>1. CASE m # u
    BY <1>16, <2>1
  <2>2. CASE m = u
    BY <1>4, <1>15, <1>16, <1>19, <2>2
  <2> QED BY <2>1, <2>2
<1>21. RowsTrue'
  <2> SUFFICES ASSUME NEW m \in Members, NEW e \in Dates PROVE RowTrue(loginDay'[m][e], happened'[m], e)
    BY DEF RowsTrue
  <2>0. RowTrue(loginDay[m][e], happened[m], e)
    BY DEF LoginInv, RowsTrue
  <2>1. CASE m # u
    BY <1>16, <2>0, <2>1
  <2>2. CASE m = u /\ e = d
    BY <1>14, <1>16, <2>2
  <2>3. CASE m = u /\ e # d
    <3>1. /\ SignInsOn(n, e) = SignInsOn(h, e)
          /\ HalfDayCount(n, 2 * e) = HalfDayCount(h, 2 * e)
          /\ HalfDayCount(n, 2 * e + 1) = HalfDayCount(h, 2 * e + 1)
      BY <1>15, <1>19, <2>3
    <3>2. RowTrue(loginDay[m][e], n, e)
      BY <1>4, <2>0, <2>3, <3>1 DEF RowTrue
    <3> QED BY <1>16, <2>3, <3>2
  <2> QED BY <2>1, <2>2, <2>3
<1>22. MissingRowsOld'
  <2> SUFFICES ASSUME NEW m \in Members, NEW e \in Dates, loginDay'[m][e] = None, SignInsOn(happened'[m], e) # {}
               PROVE  e < Cutoff(Date(instant'))
    BY DEF MissingRowsOld
  <2>1. <<m, e>> # <<u, d>>
    BY <1>14, <1>16
  <2> QED
    BY <1>11, <1>16, <1>20, <2>1 DEF LoginInv, MissingRowsOld
<1>23. NoGaps'
  <2> SUFFICES ASSUME NEW v \in Members, NEW e \in Dates, loginDay'[v][e] # None,
                      NEW m \in Members, NEW f \in Dates, e <= f, SignInsOn(happened'[m], f) # {},
                      loginDay'[m][f] = None
               PROVE  FALSE
    BY DEF NoGaps
  <2>1. <<m, f>> # <<u, d>>
    BY <1>14, <1>16
  <2>2. loginDay[m][f] = None /\ SignInsOn(happened[m], f) # {}
    BY <1>16, <1>20, <2>1
  <2>3. CASE <<v, e>> # <<u, d>>
    <3>1. loginDay[v][e] # None
      BY <1>16, <2>3
    <3> QED BY <2>2, <3>1 DEF LoginInv, NoGaps
  <2>4. CASE <<v, e>> = <<u, d>>
    <3>1. f < cut
      BY <1>10, <2>2 DEF LoginInv, MissingRowsOld
    <3> QED BY <1>6, <1>10, <1>19, <2>4, <3>1
  <2> QED BY <2>3, <2>4
<1> QED BY <1>17, <1>18, <1>21, <1>22, <1>23 DEF LoginInv

LEMMA PruneLoginDaysStep ==
  ASSUME LoginInv, PruneLoginDays
  PROVE  LoginInv'
<1>1. instant' = instant /\ signingIn' = signingIn /\ happened' = happened
  BY DEF PruneLoginDays
<1>2. instant \in Nat
  BY InstantsAreNat DEF LoginInv, LoginTyped
<1>3. PICK cut \in Int : cut = Cutoff(Date(instant))
  BY <1>2, UpsertNotOld
<1>4. \A m \in Members, d \in Dates : loginDay'[m][d] = IF d < cut THEN None ELSE loginDay[m][d]
  BY <1>3 DEF PruneLoginDays
<1>5. LoginTyped'
  <2>1. loginDay' = [m \in Members |-> [d \in Dates |-> IF d < cut THEN None ELSE loginDay[m][d]]]
    BY <1>3 DEF PruneLoginDays
  <2>2. loginDay' \in [Members -> [Dates -> {None} \cup DayRow]]
    BY <2>1 DEF LoginInv, LoginTyped
  <2> QED BY <1>1, <2>2 DEF LoginInv, LoginTyped
<1>6. SignInsRecent'
  BY <1>1 DEF LoginInv, SignInsRecent
<1>7. RowsTrue'
  <2> SUFFICES ASSUME NEW m \in Members, NEW d \in Dates PROVE RowTrue(loginDay'[m][d], happened'[m], d)
    BY DEF RowsTrue
  <2>1. RowTrue(loginDay[m][d], happened[m], d)
    BY DEF LoginInv, RowsTrue
  <2>2. RowTrue(None, happened[m], d)
    BY DEF RowTrue
  <2> QED BY <1>1, <1>4, <2>1, <2>2
<1>8. MissingRowsOld'
  <2> SUFFICES ASSUME NEW m \in Members, NEW d \in Dates, loginDay'[m][d] = None, SignInsOn(happened'[m], d) # {}
               PROVE  d < Cutoff(Date(instant'))
    BY DEF MissingRowsOld
  <2> QED
    BY <1>1, <1>3, <1>4 DEF LoginInv, MissingRowsOld
<1>9. NoGaps'
  <2> SUFFICES ASSUME NEW v \in Members, NEW e \in Dates, loginDay'[v][e] # None,
                      NEW m \in Members, NEW f \in Dates, e <= f, SignInsOn(happened'[m], f) # {}
               PROVE  loginDay'[m][f] # None
    BY DEF NoGaps
  <2>1. e \in Nat /\ f \in Nat
    BY DEF Dates
  <2>2. loginDay[v][e] # None /\ ~ (e < cut)
    BY <1>4
  <2>3. ~ (f < cut)
    BY <1>3, <2>1, <2>2
  <2>4. loginDay[m][f] # None
    BY <1>1, <2>2 DEF LoginInv, NoGaps
  <2> QED BY <1>4, <2>3, <2>4
<1> QED BY <1>5, <1>6, <1>7, <1>8, <1>9 DEF LoginInv
LEMMA LoginDaysExact == LoginInv => LoginDayExact
<1> SUFFICES ASSUME LoginInv, NEW m \in Members, NEW d \in Dates, loginDay[m][d] # None
             PROVE  loginDay[m][d] = [count |-> SignedIn(m, 2 * d) + SignedIn(m, 2 * d + 1),
                                      first |-> Min({t \in Instants : Date(t) = d /\ happened[m][t] > 0}),
                                      last |-> Max({t \in Instants : Date(t) = d /\ happened[m][t] > 0})]
  BY DEF LoginDayExact
<1>1. RowTrue(loginDay[m][d], happened[m], d)
  BY DEF LoginInv, RowsTrue
<1>2. SignInsOn(happened[m], d) = {t \in Instants : Date(t) = d /\ happened[m][t] > 0}
  BY DEF SignInsOn
<1>3. \A t : HalfDayCount(happened[m], t) = SignedIn(m, t)
  BY DEF HalfDayCount, SignedIn
<1> QED BY <1>1, <1>2, <1>3 DEF RowTrue

\* Signed in on a date of a period.
SignedInDates(m, lower, upper) == \E t \in Instants : happened[m][t] > 0 /\ lower <= Date(t) /\ Date(t) < upper

\* From the date of any row on, the rows of a member tell the dates of the sign-ins.
LEMMA RowsTellDates ==
  ASSUME LoginInv, NEW n \in Members, NEW c \in Dates, loginDay[n][c] # None,
         NEW lower \in Int, NEW upper \in Int, c <= lower, NEW m \in Members
  PROVE  HasRow(m, lower, upper) <=> SignedInDates(m, lower, upper)
<1>1. ASSUME HasRow(m, lower, upper) PROVE SignedInDates(m, lower, upper)
  <2>1. PICK d \in Dates : lower <= d /\ d < upper /\ loginDay[m][d] # None
    BY <1>1 DEF HasRow
  <2>2. SignInsOn(happened[m], d) # {}
    BY <2>1 DEF LoginInv, RowsTrue, RowTrue
  <2> QED BY <2>1, <2>2 DEF SignInsOn, SignedInDates
<1>2. ASSUME SignedInDates(m, lower, upper) PROVE HasRow(m, lower, upper)
  <2>1. PICK t \in Instants : happened[m][t] > 0 /\ lower <= Date(t) /\ Date(t) < upper
    BY <1>2 DEF SignedInDates
  <2>2. Date(t) \in Dates
    BY DateOfInstant
  <2>3. c <= Date(t)
    <3>1. c \in Int /\ Date(t) \in Int
      BY <2>2 DEF Dates
    <3> QED BY <2>1, <3>1
  <2>4. SignInsOn(happened[m], Date(t)) # {}
    BY <2>1 DEF SignInsOn
  <2>5. loginDay[m][Date(t)] # None
    BY <2>2, <2>3, <2>4 DEF LoginInv, NoGaps
  <2> QED BY <2>1, <2>2, <2>5 DEF HasRow
<1> QED BY <1>1, <1>2

\* A period has a sign-in's date when the date's midnight is in it.
LEMMA ReallyByDates ==
  ASSUME NEW m, NEW start \in Int, NEW end \in Nat, NEW lower \in Int,
         \A d \in Nat : lower <= d <=> start <= 2 * d
  PROVE  Really(m, [start |-> start, end |-> end]) <=> SignedInDates(m, lower, Date(end + 1))
<1>1. \A t \in Instants : Date(t) \in Nat
  BY InstantsAreNat, DateBounds
<1>2. \A t \in Instants : (lower <= Date(t) <=> start <= 2 * Date(t)) /\ (Date(t) < Date(end + 1) <=> 2 * Date(t) < end)
  BY <1>1, DateCeiling
<1>3. \A t : In(2 * Date(t), [start |-> start, end |-> end]) <=> start <= 2 * Date(t) /\ 2 * Date(t) < end
  BY DEF In
<1> QED BY <1>2, <1>3 DEF Really, SignedInDates

LEMMA WindowBounds ==
  ASSUME NEW w \in Windows
  PROVE  /\ w.start \in Nat /\ w.end \in Nat /\ w.start < w.end
         /\ w = [start |-> w.start, end |-> w.end]
         /\ DateWindow(w).lower = Date(w.start + 1) /\ DateWindow(w).upper = Date(w.end + 1)
         /\ Date(w.start + 1) \in Nat /\ Date(w.end + 1) \in Nat
         /\ \A d \in Nat : Date(w.start + 1) <= d <=> w.start <= 2 * d
         /\ \A m : Really(m, w) <=> SignedInDates(m, Date(w.start + 1), Date(w.end + 1))
<1>1. w.start \in Nat /\ w.end \in Nat /\ w.start < w.end /\ w = [start |-> w.start, end |-> w.end]
  BY InstantsAreNat DEF Windows
<1>2. DateWindow(w).lower = Date(w.start + 1) /\ DateWindow(w).upper = Date(w.end + 1)
  BY DEF DateWindow
<1>3. Date(w.start + 1) \in Nat /\ Date(w.end + 1) \in Nat
  BY <1>1, DateCeiling
<1>4. \A d \in Nat : Date(w.start + 1) <= d <=> w.start <= 2 * d
  BY <1>1, DateCeiling
<1>5. \A m : Really(m, [start |-> w.start, end |-> w.end]) <=> SignedInDates(m, Date(w.start + 1), Date(w.end + 1))
  <2>1. w.start \in Int /\ Date(w.start + 1) \in Int
    BY <1>1, <1>3
  <2> QED BY <1>1, <1>4, <2>1, ReallyByDates
<1>6. \A m : Really(m, w) <=> SignedInDates(m, Date(w.start + 1), Date(w.end + 1))
  BY <1>1, <1>5
<1> QED BY <1>1, <1>2, <1>3, <1>4, <1>6

\* What is covered starts at a row or after one.
LEMMA CoveredByRow ==
  ASSUME NEW from \in Int, NEW upper \in Int, Covered(from, upper)
  PROVE  \E n \in Members, c \in Dates : loginDay[n][c] # None /\ c <= from
<1> DEFINE kept == {d \in Dates : d < upper /\ \E m \in Members : loginDay[m][d] # None}
<1>1. kept # {}
  BY DEF Covered, CoverageStart
<1>2. CoverageStart(upper) = [date |-> Min(kept)]
  BY <1>1 DEF CoverageStart
<1>3. kept \subseteq Nat
  BY DEF Dates
<1>4. Min(kept) \in kept
  BY <1>1, <1>3, LeastOf
<1>5. from >= Min(kept)
  BY <1>2 DEF Covered
<1>6. Min(kept) <= from
  BY <1>3, <1>4, <1>5
<1> QED BY <1>4, <1>6

\* The members with a row in a covered period are the ones who signed in then.
LEMMA ActiveExact ==
  ASSUME LoginInv, NEW lower \in Int, NEW upper \in Int, Covered(lower, upper)
  PROVE  ActiveBetween(lower, upper) = Cardinality({m \in Members : SignedInDates(m, lower, upper)})
<1>1. PICK n \in Members, c \in Dates : loginDay[n][c] # None /\ c <= lower
  BY CoveredByRow
<1>2. \A m \in Members : HasRow(m, lower, upper) <=> SignedInDates(m, lower, upper)
  BY <1>1, RowsTellDates
<1>3. {m \in Members : HasRow(m, lower, upper)} = {m \in Members : SignedInDates(m, lower, upper)}
  BY <1>2
<1> QED BY <1>3 DEF ActiveBetween

LEMMA CoverageAlwaysHonest == LoginInv => CoverageHonest
<1> SUFFICES ASSUME LoginInv, NEW w \in Windows
             PROVE  /\ LoginMetric(w) \in {None, [value |-> Cardinality({m \in Members : Really(m, w)})]}
                    /\ \A days \in 1..3 :
                          RollingMetric(w, days) \in {None, [value |-> Cardinality({m \in Members :
                              Really(m, [start |-> 2 * (DateWindow(w).upper - days), end |-> w.end])})]}
                    /\ Previous(w) \in Windows =>
                          ReturningMembers(w, Previous(w)) \in {None, [value |-> Cardinality({m \in Members :
                              Really(m, w) /\ Really(m, Previous(w))})]}
  BY DEF CoverageHonest
<1> DEFINE lo == Date(w.start + 1)
           up == Date(w.end + 1)
<1>1. /\ w.start \in Nat /\ w.end \in Nat /\ w.start < w.end
      /\ DateWindow(w).lower = lo /\ DateWindow(w).upper = up
      /\ lo \in Nat /\ up \in Nat
      /\ \A m : Really(m, w) <=> SignedInDates(m, lo, up)
  BY WindowBounds
<1> HIDE DEF lo
<1>2. LoginMetric(w) \in {None, [value |-> Cardinality({m \in Members : Really(m, w)})]}
  <2>1. CASE ~ Covered(lo, up)
    BY <1>1, <2>1 DEF LoginMetric
  <2>2. CASE Covered(lo, up)
    <3>1. ActiveBetween(lo, up) = Cardinality({m \in Members : SignedInDates(m, lo, up)})
      BY <1>1, <2>2, ActiveExact
    <3>2. {m \in Members : SignedInDates(m, lo, up)} = {m \in Members : Really(m, w)}
      BY <1>1
    <3> QED BY <1>1, <2>2, <3>1, <3>2 DEF LoginMetric
  <2> QED BY <2>1, <2>2
<1>3. ASSUME NEW days \in 1..3
      PROVE  RollingMetric(w, days) \in {None, [value |-> Cardinality({m \in Members :
                 Really(m, [start |-> 2 * (DateWindow(w).upper - days), end |-> w.end])})]}
  <2> DEFINE from == up - days
             r == [start |-> 2 * (DateWindow(w).upper - days), end |-> w.end]
  <2>1. from \in Int /\ 2 * from \in Int /\ \A d \in Nat : from <= d <=> 2 * from <= 2 * d
    BY <1>1
  <2>2. r = [start |-> 2 * from, end |-> w.end]
    BY <1>1
  <2>3. \A m : Really(m, r) <=> SignedInDates(m, from, up)
    <3> HIDE DEF from
    <3>1. \A m : Really(m, [start |-> 2 * from, end |-> w.end]) <=> SignedInDates(m, from, Date(w.end + 1))
      BY <1>1, <2>1, ReallyByDates
    <3> QED BY <2>2, <3>1
  <2> HIDE DEF r, up
  <2>4. CASE ~ Covered(from, up)
    BY <1>1, <2>4 DEF RollingMetric
  <2>5. CASE Covered(from, up)
    <3>1. ActiveBetween(from, up) = Cardinality({m \in Members : SignedInDates(m, from, up)})
      BY <1>1, <2>1, <2>5, ActiveExact
    <3>2. {m \in Members : SignedInDates(m, from, up)} = {m \in Members : Really(m, r)}
      BY <2>3
    <3>3. RollingMetric(w, days) = [value |-> ActiveBetween(from, up)]
      BY <1>1, <2>5 DEF RollingMetric
    <3> QED BY <3>1, <3>2, <3>3 DEF r
  <2> QED BY <2>4, <2>5
<1>4. ASSUME Previous(w) \in Windows
      PROVE  ReturningMembers(w, Previous(w)) \in {None, [value |-> Cardinality({m \in Members :
                 Really(m, w) /\ Really(m, Previous(w))})]}
  <2>1. PICK p \in Windows : p = Previous(w)
    BY <1>4
  <2>2. PICK plo \in Nat, pup \in Nat : plo = Date(p.start + 1) /\ pup = Date(p.end + 1)
    BY WindowBounds
  <2>3. /\ DateWindow(p).lower = plo /\ DateWindow(p).upper = pup /\ p.start \in Nat
        /\ \A d \in Nat : plo <= d <=> p.start <= 2 * d
        /\ \A m : Really(m, p) <=> SignedInDates(m, plo, pup)
    BY <2>2, WindowBounds
  <2>4. p.start <= w.start
    BY <1>1, <2>1 DEF Previous
  <2>5. plo <= lo
    <3>1. \A d \in Nat : lo <= d <=> w.start <= 2 * d
      BY WindowBounds DEF lo
    <3>2. p.start <= 2 * lo
      BY <1>1, <2>3, <2>4, <3>1
    <3> QED BY <1>1, <2>3, <3>2
  <2> HIDE DEF up
  <2> DEFINE first == {d \in Dates : \E m \in Members : loginDay[m][d] # None}
             Back == {m \in Members : HasRow(m, lo, up) /\ HasRow(m, plo, pup)}
  <2>6. ReturningMembers(w, p) = IF first # {} /\ plo >= Min(first) THEN [value |-> Cardinality(Back)] ELSE None
    BY <1>1, <2>3 DEF ReturningMembers
  <2>7. CASE ~ (first # {} /\ plo >= Min(first))
    BY <2>1, <2>6, <2>7
  <2>8. CASE first # {} /\ plo >= Min(first)
    <3>1. first \subseteq Nat
      BY DEF Dates
    <3>2. PICK c \in first : c = Min(first)
      BY <2>8, <3>1, LeastOf
    <3>3. PICK n \in Members : loginDay[n][c] # None
      BY <3>2
    <3>4. c \in Dates /\ c \in Nat
      BY <3>1, <3>2
    <3>5. c <= plo /\ c <= lo
      BY <1>1, <2>5, <2>8, <3>2, <3>4
    <3>6. \A m \in Members : HasRow(m, lo, up) <=> SignedInDates(m, lo, up)
      BY <1>1, <3>3, <3>4, <3>5, RowsTellDates
    <3>7. \A m \in Members : HasRow(m, plo, pup) <=> SignedInDates(m, plo, pup)
      BY <2>2, <3>3, <3>4, <3>5, RowsTellDates
    <3>8. Back = {m \in Members : Really(m, w) /\ Really(m, p)}
      BY <1>1, <2>3, <3>6, <3>7
    <3> QED BY <2>1, <2>6, <2>8, <3>8
  <2> QED BY <2>7, <2>8
<1> QED BY <1>2, <1>3, <1>4
-----------------------------------------------------------------------------
(* Orders and trades *)

TradeRow == [bid : FactOrders, ask : FactOrders, status : {"PENDING", "CONFIRMED"}, created : Nat,
             confirmed : {None} \cup [at : Nat]]

FactsTyped ==
  /\ instant \in Nat
  /\ placed \in [FactOrders -> {None} \cup [created : Nat]]
  /\ traded \in [FactTrades -> {None} \cup TradeRow]

LEMMA FactsInit == AnalyticsInit => FactsTyped
  BY DEF AnalyticsInit, FactsTyped

LEMMA FactsStep ==
  ASSUME FactsTyped, [AnalyticsNext]_analyticsVars
  PROVE  FactsTyped'
<1>1. CASE UNCHANGED <<placed, traded>> /\ (HalfDay \/ UNCHANGED instant)
  BY <1>1 DEF FactsTyped, HalfDay
<1>2. ASSUME NEW o \in FactOrders, PlaceOrder(o) PROVE FactsTyped'
  BY <1>2 DEF FactsTyped, PlaceOrder
<1>3. ASSUME NEW t \in FactTrades, NEW b \in FactOrders, NEW a \in FactOrders, MakeTrade(t, b, a) \/ LegacyTrade(t, b, a)
      PROVE  FactsTyped'
  <2>1. PICK st \in {"PENDING", "CONFIRMED"} :
          traded' = [traded EXCEPT ![t] = [bid |-> b, ask |-> a, status |-> st, created |-> instant, confirmed |-> None]]
    BY <1>3 DEF MakeTrade, LegacyTrade
  <2>2. [bid |-> b, ask |-> a, status |-> st, created |-> instant, confirmed |-> None] \in TradeRow
    BY DEF FactsTyped, TradeRow
  <2>3. instant' = instant /\ placed' = placed
    BY <1>3 DEF MakeTrade, LegacyTrade
  <2> QED BY <2>1, <2>2, <2>3 DEF FactsTyped
<1>4. ASSUME NEW t \in FactTrades, ConfirmTrade(t) PROVE FactsTyped'
  <2> DEFINE new == [traded[t] EXCEPT !.status = "CONFIRMED", !.confirmed = [at |-> instant]]
  <2>1. traded[t] \in TradeRow /\ instant \in Nat
    BY <1>4 DEF FactsTyped, ConfirmTrade
  <2>2. [at |-> instant] \in [at : Nat]
    BY <2>1
  <2>3. new \in TradeRow
    BY <2>1, <2>2 DEF TradeRow
  <2>4. traded' = [traded EXCEPT ![t] = new] /\ instant' = instant /\ placed' = placed
    BY <1>4 DEF FactsTyped, ConfirmTrade
  <2> QED BY <2>3, <2>4 DEF FactsTyped
<1>5. CASE LoginNext
  BY <1>1, <1>5 DEF LoginNext, HalfDay, ReadClock, RecordLoginDay, PruneLoginDays, marketVars
<1>6. CASE MarketFactsNext
  <2>1. HalfDay => UNCHANGED <<placed, traded>>
    BY DEF HalfDay, marketVars
  <2>2. \A g \in FactOrgs : Recognize(g) => UNCHANGED <<placed, traded, instant>>
    BY DEF Recognize
  <2> QED BY <1>1, <1>2, <1>3, <1>4, <1>6, <2>1, <2>2 DEF MarketFactsNext
<1>7. CASE HistoryNext
  BY <1>1, <1>7 DEF HistoryNext, ApproveAccount, RejectFromList, RejectAccount, marketVars
<1>8. CASE CacheNext
  <2>1. HalfDay => UNCHANGED <<placed, traded>>
    BY DEF HalfDay, marketVars
  <2>2. \A r \in Readers, q \in Queries : Lookup(r, q) => UNCHANGED <<placed, traded, instant>>
    BY DEF Lookup, marketVars
  <2>3. \A r \in Readers : ReadDatabase(r) \/ Store(r) \/ Shown(r) => UNCHANGED <<placed, traded, instant>>
    BY DEF ReadDatabase, Store, Shown, marketVars
  <2> QED BY <1>1, <1>8, <2>1, <2>2, <2>3 DEF CacheNext
<1>9. CASE UNCHANGED analyticsVars
  BY <1>1, <1>9 DEF analyticsVars, marketVars
<1> QED BY <1>5, <1>6, <1>7, <1>8, <1>9 DEF AnalyticsNext

\* Every member of a set, named by its date and its number on that date.
OnDate(T, f, d) == {t \in T : f[t] = d}
Tally(T, D, f) == UNION {{d} \X (1 .. Cardinality(OnDate(T, f, d))) : d \in D}

LEMMA Tallied ==
  ASSUME NEW T, IsFiniteSet(T), NEW D, NEW f \in [T -> D]
  PROVE  Cardinality(Tally(T, D, f)) = Cardinality(T)
<1> DEFINE At(d) == OnDate(T, f, d)
           n == [d \in D |-> Cardinality(At(d))]
           B == [d \in D |-> CHOOSE b : b \in Bijection(1 .. n[d], At(d))]
           U == UNION {{d} \X (1 .. n[d]) : d \in D}
           g == [u \in U |-> B[u[1]][u[2]]]
<1>1. ASSUME NEW d \in D PROVE n[d] \in Nat /\ B[d] \in Bijection(1 .. n[d], At(d))
  <2>1. At(d) \subseteq T
    BY DEF OnDate
  <2> HIDE DEF At
  <2>2. IsFiniteSet(At(d))
    BY <2>1, FS_Subset
  <2>3. n[d] = Cardinality(At(d))
    OBVIOUS
  <2>4. n[d] \in Nat /\ ExistsBijection(1 .. n[d], At(d))
    BY <2>2, <2>3, FS_CardinalityType
  <2>5. \E b : b \in Bijection(1 .. n[d], At(d))
    BY <2>4 DEF ExistsBijection
  <2>6. B[d] = CHOOSE b : b \in Bijection(1 .. n[d], At(d))
    OBVIOUS
  <2> HIDE DEF B, n
  <2>7. B[d] \in Bijection(1 .. n[d], At(d))
    BY <2>5, <2>6
  <2> QED BY <2>4, <2>7
<1>2. U = Tally(T, D, f)
  BY DEF Tally
<1> HIDE DEF n, B
<1>3. \A u : u \in U <=> \E d \in D : u \in {d} \X (1 .. n[d])
  BY ZenonT(20)
<1>4. \A u \in U : u[1] \in D /\ u[2] \in 1 .. n[u[1]] /\ u = <<u[1], u[2]>>
  <2> HIDE DEF U
  <2> QED BY <1>3
<1>5. \A d \in D, k \in Nat : k \in 1 .. n[d] => <<d, k>> \in U
  <2> HIDE DEF U
  <2>1. \A d \in D, k \in Nat : k \in 1 .. n[d] => <<d, k>> \in {d} \X (1 .. n[d])
    OBVIOUS
  <2> QED BY <1>3, <2>1
<1>6. ASSUME NEW d \in D
      PROVE  /\ \A k \in 1 .. n[d] : B[d][k] \in T /\ f[B[d][k]] = d
             /\ \A j, k \in 1 .. n[d] : B[d][j] = B[d][k] => j = k
             /\ \A t \in T : f[t] = d => \E k \in 1 .. n[d] : B[d][k] = t
  BY <1>1 DEF Bijection, Injection, IsInjective, Surjection, OnDate
<1> HIDE DEF U
<1>7. \A u \in U : g[u] = B[u[1]][u[2]] /\ g[u] \in T /\ f[g[u]] = u[1]
  BY <1>4, <1>6
<1>8. g \in [U -> T]
  BY <1>7
<1> HIDE DEF g
<1>9. g \in Injection(U, T)
  <2> SUFFICES ASSUME NEW u \in U, NEW v \in U, g[u] = g[v] PROVE u = v
    BY <1>8 DEF Injection, IsInjective
  <2>1. u[1] = v[1]
    BY <1>7
  <2>2. u[2] = v[2]
    BY <1>4, <1>6, <1>7, <2>1
  <2> QED BY <1>4, <2>1, <2>2
<1>10. g \in Surjection(U, T)
  <2> SUFFICES ASSUME NEW t \in T PROVE \E u \in U : g[u] = t
    BY <1>8 DEF Surjection
  <2>1. f[t] \in D
    OBVIOUS
  <2>2. PICK k \in 1 .. n[f[t]] : B[f[t]][k] = t
    BY <1>6, <2>1
  <2>3. n[f[t]] \in Nat /\ k \in Nat
    <3>1. n[f[t]] \in Nat
      BY <1>1, <2>1
    <3> QED BY <3>1
  <2>4. <<f[t], k>> \in U
    BY <1>5, <2>1, <2>3
  <2>5. g[<<f[t], k>>] = t
    BY <1>7, <2>2, <2>4
  <2> QED BY <2>4, <2>5
<1>11. Cardinality(U) = Cardinality(T)
  BY <1>9, <1>10, FS_Injection
<1> QED BY <1>2, <1>11
\* When a trade is counted, and among which.
LEMMA CountedAt ==
  ASSUME FactsTyped, NEW t \in FactTrades, Settled(t)
  PROVE  /\ EconomicAt(t) \in Nat
         /\ Strict(t) => EconomicAt(t) = traded[t].confirmed.at
         /\ ~ Strict(t) => EconomicAt(t) = traded[t].created
<1>1. traded[t] \in TradeRow
  BY DEF FactsTyped, Settled
<1>2. traded[t].created \in Nat /\ traded[t].confirmed \in {None} \cup [at : Nat]
  BY <1>1 DEF TradeRow
<1>3. Strict(t) => traded[t].confirmed.at \in Nat
  BY <1>2 DEF Strict
<1> QED BY <1>2, <1>3 DEF EconomicAt

\* The dates of a period are the ones of its series.
LEMMA SeriesHasDate ==
  ASSUME NEW w \in Windows, NEW t \in Nat, In(t, w)
  PROVE  Date(t) \in SeriesDates(w)
<1>1. w.start \in Nat /\ w.end \in Nat /\ w.end <= MaxInstant /\ MaxInstant \in Nat /\ w.start <= t /\ t < w.end
  BY InstantsAreNat, AnalyticsAssumption DEF Windows, In
<1>2. Date(t) \in Nat /\ 2 * Date(t) <= t /\ t < 2 * Date(t) + 2
  BY DateBounds
<1>3. Date(w.start) \in Nat /\ 2 * Date(w.start) <= w.start /\ w.start < 2 * Date(w.start) + 2
  BY <1>1, DateBounds
<1>4. Date(w.end) \in Nat /\ 2 * Date(w.end) <= w.end /\ w.end < 2 * Date(w.end) + 2
  BY <1>1, DateBounds
<1>5. Date(w.start) <= Date(t) /\ Date(t) <= Date(w.end)
  BY <1>1, <1>2, <1>3, <1>4
<1>6. Date(t) = Date(w.end) => w.end = 2 * Date(w.end) + 1
  BY <1>1, <1>2, <1>4
<1>7. \A k \in Nat : (2 * k + 1) % 2 # 0
  OBVIOUS
<1>8. Date(t) = Date(w.end) => w.end % 2 # 0
  BY <1>4, <1>6, <1>7
<1>9. Date(t) \in Dates
  <2>1. t \in Instants
    BY <1>1 DEF Instants
  <2> QED BY <2>1, DateOfInstant
<1>10. Date(t) < Date(w.end) \/ (Date(t) = Date(w.end) /\ w.end % 2 # 0)
  BY <1>2, <1>4, <1>5, <1>8
<1> QED BY <1>5, <1>9, <1>10 DEF SeriesDates

LEMMA SeriesAlwaysAgree == FactsTyped => TradesSeriesAgree
<1> SUFFICES ASSUME FactsTyped, NEW w \in Windows
             PROVE  Cardinality(InSeries(Overview(w).series)) = Overview(w).confirmed
  BY DEF TradesSeriesAgree
<1> DEFINE T == ConfirmedTrades(w, "live")
           D == SeriesDates(w)
           f == [t \in T |-> Date(EconomicAt(t))]
           Day(d) == Cardinality(OnDate(T, f, d))
<1>1. T \subseteq FactTrades /\ IsFiniteSet(T)
  BY AnalyticsAssumption, FS_Subset DEF ConfirmedTrades
<1>2. T = {t \in FactTrades : Settled(t) /\ TradeClass(t) = "live" /\ In(EconomicAt(t), w)}
  BY CountedAt DEF ConfirmedTrades
<1> HIDE DEF T
<1>3. f \in [T -> D]
  <2> SUFFICES ASSUME NEW t \in T PROVE Date(EconomicAt(t)) \in D
    OBVIOUS
  <2>1. EconomicAt(t) \in Nat /\ In(EconomicAt(t), w)
    BY <1>2, CountedAt
  <2> QED BY <2>1, SeriesHasDate
<1>4. ASSUME NEW d \in D PROVE TradesDaily(w, d) = Day(d)
  <2>1. OnDate(T, f, d) = {t \in FactTrades : /\ Settled(t) /\ TradeClass(t) = "live"
                                                 /\ In(EconomicAt(t), w) /\ Date(EconomicAt(t)) = d}
    BY <1>2 DEF OnDate
  <2> QED BY <2>1 DEF TradesDaily
<1>5. Cardinality(Tally(T, D, f)) = Cardinality(T)
  <2> HIDE DEF f, D
  <2> QED BY <1>1, <1>3, Tallied
<1>6. Overview(w).confirmed = Cardinality(T)
  BY DEF Overview, T
<1> DEFINE series == [d \in D |-> TradesDaily(w, d)]
<1>7. Overview(w).series = series
  BY DEF Overview
<1>8. DOMAIN series = D /\ \A d \in D : series[d] = Day(d)
  BY <1>4
<1> HIDE DEF series, D, f
<1>9. InSeries(series) = Tally(T, D, f)
  <2>1. \A u : u \in InSeries(series) <=> \E d \in DOMAIN series : u \in {d} \X (1 .. series[d])
    BY ZenonT(20) DEF InSeries
  <2>2. \A u : u \in Tally(T, D, f) <=> \E d \in D : u \in {d} \X (1 .. Day(d))
    BY ZenonT(20) DEF Tally
  <2> HIDE DEF Day
  <2>3. \A u : u \in InSeries(series) <=> u \in Tally(T, D, f)
    BY <1>8, <2>1, <2>2
  <2> QED BY <2>3
<1> QED BY <1>5, <1>6, <1>7, <1>9

LEMMA ActivityTimes ==
  ASSUME FactsTyped, NEW g
  PROVE  ActiveAt(g) \subseteq Nat
<1>1. \A p \in FactOrders : placed[p] # None => placed[p].created \in Nat
  BY DEF FactsTyped
<1>2. \A u \in FactTrades : Strict(u) => traded[u].confirmed.at \in Nat
  BY CountedAt DEF Strict
<1> QED BY <1>1, <1>2 DEF ActiveAt

LEMMA ReactivatedAlwaysExact == FactsTyped => ReactivatedExactly
<1> SUFFICES ASSUME FactsTyped, NEW g \in FactOrgs, NEW w \in Windows
             PROVE  g \in Retention(w).reactivated <=>
                      /\ \E t \in ActiveAt(g) : In(t, w)
                      /\ \A t \in ActiveAt(g) : ~In(t, Previous(w))
                      /\ \E t \in ActiveAt(g) : t < Previous(w).start
  BY DEF ReactivatedExactly
<1>1. g \in Retention(w).reactivated <=>
        /\ Seen(g, w) /\ ~Seen(g, Previous(w))
        /\ Seen(g, Previous(Previous(w))) \/ ActiveEarlier(g, w)
  BY DEF Retention
<1>2. PICK p : p = Previous(w)
  OBVIOUS
<1>3. PICK q : q = Previous(p)
  OBVIOUS
<1>4. p.start \in Int /\ p.start = w.start - (w.end - w.start) /\ p.end = w.start /\ w.start \in Int /\ p.start < p.end
  BY <1>2, WindowBounds DEF Previous
<1>5. q.start \in Int /\ q.start < p.start /\ q.end = p.start
  BY <1>3, <1>4 DEF Previous
<1>6. \A t \in ActiveAt(g) : t \in Int
  BY ActivityTimes
<1>7. \A t \in ActiveAt(g) : In(t, q) \/ t < q.start <=> t < p.start
  <2>1. \A t : In(t, q) <=> q.start <= t /\ t < p.start
    BY <1>5 DEF In
  <2>2. p.start \in Int /\ \A t \in Int : (q.start <= t /\ t < p.start) \/ t < q.start <=> t < p.start
    BY <1>4, <1>5
  <2> QED BY <1>6, <2>1, <2>2
<1>8. (Seen(g, q) \/ \E t \in ActiveAt(g) : t < q.start) <=> \E t \in ActiveAt(g) : t < p.start
  BY <1>7 DEF Seen
<1> QED BY <1>1, <1>2, <1>3, <1>8 DEF Seen, ActiveEarlier
\* A step writes the present into what it writes: an order, or a confirmation.
LEMMA FactsMove ==
  ASSUME FactsTyped, [AnalyticsNext]_analyticsVars
  PROVE  /\ \A o \in FactOrders : placed'[o] = placed[o] \/ (placed[o] = None /\ placed'[o] = [created |-> instant])
         /\ \A t \in FactTrades : traded'[t] = traded[t] \/ (Strict(t)' => traded'[t].confirmed.at = instant)
<1>1. CASE UNCHANGED <<placed, traded>>
  BY <1>1
<1>2. ASSUME NEW x \in FactOrders, PlaceOrder(x)
      PROVE  /\ \A o \in FactOrders : placed'[o] = placed[o] \/ (placed[o] = None /\ placed'[o] = [created |-> instant])
             /\ \A t \in FactTrades : traded'[t] = traded[t] \/ (Strict(t)' => traded'[t].confirmed.at = instant)
  BY <1>2 DEF FactsTyped, PlaceOrder
<1>3. ASSUME NEW x \in FactTrades, NEW b \in FactOrders, NEW a \in FactOrders, MakeTrade(x, b, a) \/ LegacyTrade(x, b, a)
      PROVE  /\ \A o \in FactOrders : placed'[o] = placed[o] \/ (placed[o] = None /\ placed'[o] = [created |-> instant])
             /\ \A t \in FactTrades : traded'[t] = traded[t] \/ (Strict(t)' => traded'[t].confirmed.at = instant)
  <2>1. placed' = placed
    BY <1>3 DEF MakeTrade, LegacyTrade
  <2>2. PICK new : traded' = [traded EXCEPT ![x] = new] /\ new.confirmed = None
    <3> DEFINE Row(st) == [bid |-> b, ask |-> a, status |-> st, created |-> instant, confirmed |-> None]
    <3>1. PICK st \in {"PENDING", "CONFIRMED"} : traded' = [traded EXCEPT ![x] = Row(st)]
      BY <1>3 DEF MakeTrade, LegacyTrade
    <3>2. Row(st).confirmed = None
      OBVIOUS
    <3> QED BY <3>1, <3>2
  <2>3. traded'[x] = new /\ \A t \in FactTrades : t # x => traded'[t] = traded[t]
    BY <2>2 DEF FactsTyped
  <2>4. ~ Strict(x)'
    BY <2>2, <2>3 DEF Strict
  <2> QED BY <2>1, <2>3, <2>4
<1>4. ASSUME NEW x \in FactTrades, ConfirmTrade(x)
      PROVE  /\ \A o \in FactOrders : placed'[o] = placed[o] \/ (placed[o] = None /\ placed'[o] = [created |-> instant])
             /\ \A t \in FactTrades : traded'[t] = traded[t] \/ (Strict(t)' => traded'[t].confirmed.at = instant)
  <2>1. placed' = placed /\ traded[x] \in TradeRow
    BY <1>4 DEF ConfirmTrade, FactsTyped
  <2>2. traded' = [traded EXCEPT ![x] = [traded[x] EXCEPT !.status = "CONFIRMED", !.confirmed = [at |-> instant]]]
    BY <1>4 DEF ConfirmTrade, FactsTyped
  <2>3. /\ traded'[x] = [traded[x] EXCEPT !.status = "CONFIRMED", !.confirmed = [at |-> instant]]
        /\ \A t \in FactTrades : t # x => traded'[t] = traded[t]
    BY <2>2 DEF FactsTyped
  <2>4. traded'[x].confirmed = [at |-> instant]
    BY <2>1, <2>3 DEF TradeRow
  <2>5. traded'[x].confirmed.at = instant
    BY <2>4
  <2> QED BY <2>1, <2>3, <2>5
<1>5. CASE LoginNext
  BY <1>1, <1>5 DEF LoginNext, HalfDay, ReadClock, RecordLoginDay, PruneLoginDays, marketVars
<1>6. CASE MarketFactsNext
  <2>1. HalfDay => UNCHANGED <<placed, traded>>
    BY DEF HalfDay, marketVars
  <2>2. \A g \in FactOrgs : Recognize(g) => UNCHANGED <<placed, traded>>
    BY DEF Recognize
  <2> QED BY <1>1, <1>2, <1>3, <1>4, <1>6, <2>1, <2>2 DEF MarketFactsNext
<1>7. CASE HistoryNext
  BY <1>1, <1>7 DEF HistoryNext, ApproveAccount, RejectFromList, RejectAccount, marketVars
<1>8. CASE CacheNext
  <2>1. HalfDay => UNCHANGED <<placed, traded>>
    BY DEF HalfDay, marketVars
  <2>2. \A r \in Readers, q \in Queries : Lookup(r, q) => UNCHANGED <<placed, traded>>
    BY DEF Lookup, marketVars
  <2>3. \A r \in Readers : ReadDatabase(r) \/ Store(r) \/ Shown(r) => UNCHANGED <<placed, traded>>
    BY DEF ReadDatabase, Store, Shown, marketVars
  <2> QED BY <1>1, <1>8, <2>1, <2>2, <2>3 DEF CacheNext
<1>9. CASE UNCHANGED analyticsVars
  BY <1>1, <1>9 DEF analyticsVars, marketVars
<1> QED BY <1>5, <1>6, <1>7, <1>8, <1>9 DEF AnalyticsNext

LEMMA ClosedPeriodStep ==
  ASSUME FactsTyped, [AnalyticsNext]_analyticsVars, NEW end \in 1..instant, NEW start \in 0..(end - 1), NEW c
  PROVE  LET w == [start |-> start, end |-> end] IN
         /\ ActivitySection(w, c)'.executed \subseteq ActivitySection(w, c).executed
         /\ ActivitySection(w, c)'.created = ActivitySection(w, c).created
<1> DEFINE w == [start |-> start, end |-> end]
<1>1. /\ \A o \in FactOrders : placed'[o] = placed[o] \/ (placed[o] = None /\ placed'[o] = [created |-> instant])
      /\ \A t \in FactTrades : traded'[t] = traded[t] \/ (Strict(t)' => traded'[t].confirmed.at = instant)
  BY FactsMove
<1>2. instant \in Nat /\ end \in Nat /\ end <= instant
  BY DEF FactsTyped
<1>3. \A x : In(x, w) <=> start <= x /\ x < end
  BY DEF In
<1>4. ~ In(instant, w) /\ ~ (instant < end)
  BY <1>2, <1>3
<1>5. OrdersCreated(w, c)' = OrdersCreated(w, c)
  <2>1. \A o \in FactOrders : (placed'[o] # None /\ In(placed'[o].created, w)) <=> (placed[o] # None /\ In(placed[o].created, w))
    <3> HIDE DEF w
    <3> SUFFICES ASSUME NEW o \in FactOrders, placed[o] = None, placed'[o] = [created |-> instant]
                 PROVE  ~ In(placed'[o].created, w)
      BY <1>1
    <3>1. placed'[o].created = instant
      OBVIOUS
    <3> QED BY <1>4, <3>1
  <2>2. OrdersCreated(w, c)' = {o \in FactOrders : placed'[o] # None /\ In(placed'[o].created, w) /\ OrderClass(o) = c}
    BY DEF OrdersCreated, In, OrderClass
  <2> HIDE DEF w
  <2> QED BY <2>1, <2>2 DEF OrdersCreated
<1>6. \A o \in FactOrders : ExecutedBefore(o, end)' => ExecutedBefore(o, end)
  <2> SUFFICES ASSUME NEW o \in FactOrders, ExecutedBefore(o, end)' PROVE ExecutedBefore(o, end)
    OBVIOUS
  <2>1. PICK t \in FactTrades : Strict(t)' /\ o \in {traded'[t].bid, traded'[t].ask} /\ traded'[t].confirmed.at < end
    BY DEF ExecutedBefore
  <2>2. traded'[t] = traded[t]
    BY <1>1, <1>4, <2>1
  <2>3. Strict(t)
    BY <2>1, <2>2 DEF Strict, Settled
  <2> QED BY <2>1, <2>2, <2>3 DEF ExecutedBefore
<1>7. ExecutedOrders(w, c)' \subseteq ExecutedOrders(w, c)
  <2>1. w.end = end
    OBVIOUS
  <2> HIDE DEF w
  <2>2. ExecutedOrders(w, c) = {o \in OrdersCreated(w, c) : ExecutedBefore(o, end)}
    BY <2>1 DEF ExecutedOrders
  <2>3. ExecutedOrders(w, c)' = {o \in OrdersCreated(w, c)' : ExecutedBefore(o, end)'}
    BY <2>1 DEF ExecutedOrders, w
  <2>4. OrdersCreated(w, c) \subseteq FactOrders
    BY DEF OrdersCreated
  <2> QED BY <1>5, <1>6, <2>2, <2>3, <2>4
<1>8. /\ ActivitySection(w, c)'.executed = ExecutedOrders(w, c)'
      /\ ActivitySection(w, c)'.created = OrdersCreated(w, c)'
      /\ ActivitySection(w, c).executed = ExecutedOrders(w, c)
      /\ ActivitySection(w, c).created = OrdersCreated(w, c)
  BY DEF ActivitySection
<1>9. /\ ActivitySection(w, c)'.executed \subseteq ActivitySection(w, c).executed
      /\ ActivitySection(w, c)'.created = ActivitySection(w, c).created
  BY <1>5, <1>7, <1>8
<1> QED BY <1>9
-----------------------------------------------------------------------------
(* The cache *)

CacheRow == [read : Nat, expires : Nat]
ReaderStates ==
  {ReaderIdle} \cup [phase : {"served"}, key : Queries, read : Nat]
    \cup [phase : {"asked"}, key : Queries, at : Nat]
    \cup [phase : {"computed"}, key : Queries, at : Nat, read : Nat]

CacheTyped ==
  /\ instant \in Nat
  /\ cache \in [Queries -> {None} \cup CacheRow]
  /\ reader \in [Readers -> ReaderStates]

\* An entry expires within the lifetime of what it shows, because a request reads the clock
\* before the database.
EntriesExpire == \A q \in Queries : cache[q] # None => cache[q].expires <= cache[q].read + CacheTTL
ClockReadFirst ==
  \A r \in Readers : /\ reader[r].phase = "asked" => reader[r].at <= instant
                     /\ reader[r].phase = "computed" => reader[r].at <= reader[r].read

CacheInv == CacheTyped /\ EntriesExpire /\ ClockReadFirst

LEMMA ReaderFields ==
  ASSUME NEW x \in ReaderStates
  PROVE  /\ x.phase = "asked" => x.key \in Queries /\ x.at \in Nat
         /\ x.phase = "computed" => x.key \in Queries /\ x.at \in Nat /\ x.read \in Nat
         /\ x.phase \in {"idle", "served", "asked", "computed"}
  BY DEF ReaderStates, ReaderIdle

LEMMA CacheInvInit == AnalyticsInit => CacheInv
<1> SUFFICES ASSUME AnalyticsInit PROVE CacheInv
  OBVIOUS
<1>1. CacheTyped
  BY DEF AnalyticsInit, CacheTyped, ReaderStates
<1>2. EntriesExpire /\ ClockReadFirst
  BY DEF AnalyticsInit, EntriesExpire, ClockReadFirst, ReaderIdle
<1> QED BY <1>1, <1>2 DEF CacheInv

LEMMA CacheKept ==
  ASSUME CacheInv, UNCHANGED cacheVars, instant' = instant \/ instant' = instant + 1
  PROVE  CacheInv'
<1>1. cache' = cache /\ reader' = reader
  BY DEF cacheVars
<1>2. instant \in Nat /\ instant' \in Nat /\ instant <= instant'
  BY DEF CacheInv, CacheTyped
<1>3. \A r \in Readers : reader[r].phase = "asked" => reader[r].at \in Nat
  BY ReaderFields DEF CacheInv, CacheTyped
<1>4. CacheTyped' /\ EntriesExpire'
  BY <1>1, <1>2 DEF CacheInv, CacheTyped, EntriesExpire
<1>5. ClockReadFirst'
  <2> SUFFICES ASSUME NEW r \in Readers
               PROVE  /\ reader[r].phase = "asked" => reader[r].at <= instant'
                      /\ reader[r].phase = "computed" => reader[r].at <= reader[r].read
    BY <1>1 DEF ClockReadFirst
  <2>1. /\ reader[r].phase = "asked" => reader[r].at <= instant
        /\ reader[r].phase = "computed" => reader[r].at <= reader[r].read
    BY DEF CacheInv, ClockReadFirst
  <2> QED BY <1>2, <1>3, <2>1
<1> QED BY <1>4, <1>5 DEF CacheInv

\* One reader moves on and the cache stays.
LEMMA ReaderMoves ==
  ASSUME CacheInv, NEW r \in Readers, NEW x \in ReaderStates, reader' = [reader EXCEPT ![r] = x],
         UNCHANGED <<instant, cache>>,
         x.phase = "asked" => x.at <= instant, x.phase = "computed" => x.at <= x.read
  PROVE  CacheInv'
<1>1. CacheTyped' /\ EntriesExpire'
  BY DEF CacheInv, CacheTyped, EntriesExpire
<1>2. \A y \in Readers : reader'[y] = IF y = r THEN x ELSE reader[y]
  BY DEF CacheInv, CacheTyped
<1>3. ClockReadFirst'
  BY <1>2 DEF CacheInv, ClockReadFirst
<1> QED BY <1>1, <1>3 DEF CacheInv

LEMMA LookupStep ==
  ASSUME CacheInv, NEW r \in Readers, NEW q \in Queries, Lookup(r, q)
  PROVE  CacheInv'
<1>1. instant \in Nat /\ UNCHANGED <<instant, cache>>
  BY DEF CacheInv, CacheTyped, Lookup
<1>2. CASE cache[q] # None /\ instant < cache[q].expires
  <2>1. PICK n \in Nat : n = cache[q].read
    BY <1>2 DEF CacheInv, CacheTyped, CacheRow
  <2> DEFINE x == [phase |-> "served", key |-> q, read |-> n]
  <2>2. reader' = [reader EXCEPT ![r] = x]
    BY <1>2, <2>1 DEF Lookup
  <2>3. x \in ReaderStates /\ x.phase = "served"
    BY DEF ReaderStates
  <2> HIDE DEF x
  <2> QED BY <1>1, <2>2, <2>3, ReaderMoves
<1>3. CASE ~ (cache[q] # None /\ instant < cache[q].expires)
  <2>1. PICK n \in Nat : n = instant
    BY <1>1
  <2> DEFINE x == [phase |-> "asked", key |-> q, at |-> n]
  <2>2. reader' = [reader EXCEPT ![r] = x]
    BY <1>3, <2>1 DEF Lookup
  <2>3. x \in ReaderStates /\ x.phase = "asked" /\ x.at <= instant
    BY <2>1 DEF ReaderStates
  <2> HIDE DEF x
  <2> QED BY <1>1, <2>2, <2>3, ReaderMoves
<1> QED BY <1>2, <1>3

LEMMA ReadDatabaseStep ==
  ASSUME CacheInv, NEW r \in Readers, ReadDatabase(r)
  PROVE  CacheInv'
<1>1. instant \in Nat /\ UNCHANGED <<instant, cache>>
  BY DEF CacheInv, CacheTyped, ReadDatabase
<1>2. reader[r] \in ReaderStates /\ reader[r].phase = "asked"
  BY DEF CacheInv, CacheTyped, ReadDatabase
<1>3. PICK q \in Queries, a \in Nat, n \in Nat : q = reader[r].key /\ a = reader[r].at /\ n = instant /\ a <= n
  BY <1>1, <1>2, ReaderFields DEF CacheInv, ClockReadFirst
<1> DEFINE x == [phase |-> "computed", key |-> q, at |-> a, read |-> n]
<1>4. reader' = [reader EXCEPT ![r] = x]
  BY <1>3 DEF ReadDatabase, CacheInv, CacheTyped
<1>5. x \in ReaderStates /\ x.phase = "computed" /\ x.at <= x.read
  BY <1>3 DEF ReaderStates
<1> HIDE DEF x
<1> QED BY <1>1, <1>4, <1>5, ReaderMoves

LEMMA StoreStep ==
  ASSUME CacheInv, NEW r \in Readers, Store(r)
  PROVE  CacheInv'
<1>1. reader[r] \in ReaderStates /\ reader[r].phase = "computed" /\ instant \in Nat /\ instant' = instant
  BY DEF CacheInv, CacheTyped, Store
<1>2. PICK q \in Queries, a \in Nat, n \in Nat : q = reader[r].key /\ a = reader[r].at /\ n = reader[r].read /\ a <= n
  BY <1>1, ReaderFields DEF CacheInv, ClockReadFirst
<1>3. CacheTTL \in Nat
  BY AnalyticsAssumption
<1> DEFINE x == [phase |-> "served", key |-> q, read |-> n]
           new == [read |-> n, expires |-> a + CacheTTL]
<1>4. reader' = [reader EXCEPT ![r] = x]
  BY <1>2 DEF Store, CacheInv, CacheTyped
<1>5. PICK S : cache' = [k \in Queries |-> IF k \notin S THEN None ELSE IF k = q THEN new ELSE cache[k]]
  BY <1>2 DEF Store, Expires
<1>6. x \in ReaderStates /\ x.phase = "served"
  BY DEF ReaderStates
<1>7. new \in CacheRow /\ new.expires <= new.read + CacheTTL
  BY <1>2, <1>3 DEF CacheRow
<1> HIDE DEF x, new
<1>8. CacheTyped'
  BY <1>1, <1>4, <1>5, <1>6, <1>7 DEF CacheInv, CacheTyped
<1>9. EntriesExpire'
  <2> SUFFICES ASSUME NEW k \in Queries, cache'[k] # None PROVE cache'[k].expires <= cache'[k].read + CacheTTL
    BY DEF EntriesExpire
  <2>1. cache'[k] = new \/ cache'[k] = cache[k]
    BY <1>5
  <2> QED BY <1>7, <2>1 DEF CacheInv, EntriesExpire
<1>10. \A y \in Readers : reader'[y] = IF y = r THEN x ELSE reader[y]
  BY <1>4 DEF CacheInv, CacheTyped
<1>11. ClockReadFirst'
  BY <1>1, <1>6, <1>10 DEF CacheInv, ClockReadFirst
<1> QED BY <1>8, <1>9, <1>11 DEF CacheInv

LEMMA ShownStep ==
  ASSUME CacheInv, NEW r \in Readers, Shown(r)
  PROVE  CacheInv'
<1>1. UNCHANGED <<instant, cache>> /\ reader' = [reader EXCEPT ![r] = ReaderIdle]
  BY DEF Shown
<1>2. ReaderIdle \in ReaderStates /\ ReaderIdle.phase = "idle"
  BY DEF ReaderStates, ReaderIdle
<1> QED BY <1>1, <1>2, ReaderMoves

LEMMA CacheStep ==
  ASSUME CacheInv, [AnalyticsNext]_analyticsVars
  PROVE  CacheInv'
<1>1. HalfDay => UNCHANGED cacheVars /\ instant' = instant + 1
  BY DEF HalfDay
<1>2. CASE LoginNext
  <2>1. UNCHANGED cacheVars /\ (instant' = instant \/ instant' = instant + 1)
    BY <1>1, <1>2 DEF LoginNext, ReadClock, RecordLoginDay, PruneLoginDays
  <2> QED BY <2>1, CacheKept
<1>3. CASE MarketFactsNext
  <2>1. UNCHANGED cacheVars /\ (instant' = instant \/ instant' = instant + 1)
    BY <1>1, <1>3 DEF MarketFactsNext, PlaceOrder, MakeTrade, LegacyTrade, ConfirmTrade, Recognize
  <2> QED BY <2>1, CacheKept
<1>4. CASE HistoryNext
  <2>1. UNCHANGED cacheVars /\ (instant' = instant \/ instant' = instant + 1)
    BY <1>4 DEF HistoryNext, ApproveAccount, RejectFromList, RejectAccount
  <2> QED BY <2>1, CacheKept
<1>5. CASE CacheNext
  BY <1>1, <1>5, CacheKept, LookupStep, ReadDatabaseStep, StoreStep, ShownStep DEF CacheNext
<1>6. CASE UNCHANGED analyticsVars
  <2>1. UNCHANGED cacheVars /\ instant' = instant
    BY <1>6 DEF analyticsVars
  <2> QED BY <2>1, CacheKept
<1> QED BY <1>2, <1>3, <1>4, <1>5, <1>6 DEF AnalyticsNext

\* Only a lookup serves an idle reader, and then from an entry that has not expired.
LEMMA ServedFresh ==
  ASSUME CacheInv, [AnalyticsNext]_analyticsVars, NEW r \in Readers,
         reader[r].phase = "idle", reader'[r].phase = "served"
  PROVE  instant - reader'[r].read < CacheTTL
<1>0. reader \in [Readers -> ReaderStates] /\ CacheTTL \in Nat /\ instant \in Nat
  BY AnalyticsAssumption DEF CacheInv, CacheTyped
<1>1. PICK q \in Queries : Lookup(r, q)
  <2>1. reader' # reader
    OBVIOUS
  <2>2. \A m \in Members : ~ (ApproveAccount(m) \/ RejectFromList(m) \/ RejectAccount(m))
    BY <2>1 DEF ApproveAccount, RejectFromList, RejectAccount, cacheVars
  <2>3. ~ LoginNext
    BY <2>1 DEF LoginNext, HalfDay, ReadClock, RecordLoginDay, PruneLoginDays, cacheVars
  <2>4. ~ MarketFactsNext
    BY <2>1 DEF MarketFactsNext, HalfDay, PlaceOrder, MakeTrade, LegacyTrade, ConfirmTrade, Recognize, cacheVars
  <2>5. CacheNext /\ ~ HalfDay
    BY <2>1, <2>2, <2>3, <2>4 DEF AnalyticsNext, HistoryNext, analyticsVars, cacheVars, HalfDay
  <2>6. ASSUME NEW y \in Readers, ReadDatabase(y) \/ Store(y) \/ Shown(y) PROVE FALSE
    <3>1. reader[y].phase # "idle"
      BY <2>6 DEF ReadDatabase, Store, Shown
    <3>2. y # r
      BY <3>1
    <3>3. PICK x : reader' = [reader EXCEPT ![y] = x]
      BY <2>6 DEF ReadDatabase, Store, Shown
    <3> QED BY <1>0, <3>2, <3>3
  <2>7. ASSUME NEW y \in Readers, NEW q \in Queries, Lookup(y, q) PROVE y = r
    <3>1. PICK x : reader' = [reader EXCEPT ![y] = x]
      BY <2>7 DEF Lookup
    <3> QED BY <1>0, <3>1
  <2> QED BY <2>5, <2>6, <2>7 DEF CacheNext
<1>2. cache[q] # None /\ instant < cache[q].expires /\ reader' = [reader EXCEPT ![r] =
                            [phase |-> "served", key |-> q, read |-> cache[q].read]]
  <2>1. CASE cache[q] # None /\ instant < cache[q].expires
    BY <1>1, <2>1 DEF Lookup
  <2>2. CASE ~ (cache[q] # None /\ instant < cache[q].expires)
    <3>1. reader' = [reader EXCEPT ![r] = [phase |-> "asked", key |-> q, at |-> instant]]
      BY <1>1, <2>2 DEF Lookup
    <3>2. reader'[r].phase = "asked"
      BY <1>0, <3>1
    <3> QED BY <3>2
  <2> QED BY <2>1, <2>2
<1>3. reader'[r].read = cache[q].read
  BY <1>0, <1>2
<1>4. cache[q] \in CacheRow /\ cache[q].expires <= cache[q].read + CacheTTL
  BY <1>2 DEF CacheInv, CacheTyped, EntriesExpire
<1>5. cache[q].read \in Nat /\ cache[q].expires \in Nat
  BY <1>4 DEF CacheRow
<1>6. instant - cache[q].read < CacheTTL
  BY <1>0, <1>2, <1>4, <1>5
<1> QED BY <1>3, <1>6

-----------------------------------------------------------------------------
LEMMA LoginInvStep ==
  ASSUME LoginInv, [AnalyticsNext]_analyticsVars
  PROVE  LoginInv'
<1>1. CASE LoginNext
  BY <1>1, HalfDayStep, ReadClockStep, RecordLoginDayStep, PruneLoginDaysStep DEF LoginNext
<1>2. CASE MarketFactsNext
  <2>1. HalfDay \/ UNCHANGED <<instant, loginVars>>
    BY <1>2 DEF MarketFactsNext, PlaceOrder, MakeTrade, LegacyTrade, ConfirmTrade, Recognize
  <2> QED BY <2>1, HalfDayStep, LoginsKept
<1>3. CASE HistoryNext
  <2>1. UNCHANGED <<instant, loginVars>>
    BY <1>3 DEF HistoryNext, ApproveAccount, RejectFromList, RejectAccount
  <2> QED BY <2>1, LoginsKept
<1>4. CASE CacheNext
  <2>1. \A r \in Readers, q \in Queries : Lookup(r, q) => UNCHANGED <<instant, loginVars>>
    BY DEF Lookup
  <2>2. \A r \in Readers : ReadDatabase(r) \/ Store(r) \/ Shown(r) => UNCHANGED <<instant, loginVars>>
    BY DEF ReadDatabase, Store, Shown
  <2>3. HalfDay \/ UNCHANGED <<instant, loginVars>>
    BY <1>4, <2>1, <2>2 DEF CacheNext
  <2> QED BY <2>3, HalfDayStep, LoginsKept
<1>5. CASE UNCHANGED analyticsVars
  BY <1>5, LoginsKept DEF analyticsVars
<1> QED BY <1>1, <1>2, <1>3, <1>4, <1>5 DEF AnalyticsNext

AnalyticsInv == LoginInv /\ FactsTyped /\ CacheInv

\* For any members, sign-ins, orders, trades, readers and queries, any retention of at least two
\* dates and any lifetime and size of the cache: a login-day row says what happened on its date,
\* a figure about members is withheld or exact however much has been pruned, the daily series of
\* trades adds up to the headline, reactivation means what it says, a closed period no longer
\* moves, and a figure from the cache is younger than the cache's lifetime (record_login_day,
\* prune_login_days, _login_metric, _dense_series, org_activity_buckets_stmt,
\* orders_aggregate_stmt, _authoritative_cache).
THEOREM FiguresAlwaysTrue == AnalyticsSpec => FiguresTrue
<1>1. AnalyticsInit => AnalyticsInv
  BY LoginInvInit, FactsInit, CacheInvInit DEF AnalyticsInv
<1>2. AnalyticsInv /\ [AnalyticsNext]_analyticsVars => AnalyticsInv'
  BY LoginInvStep, FactsStep, CacheStep DEF AnalyticsInv
<1>3. AnalyticsInv => LoginDayExact /\ CoverageHonest /\ TradesSeriesAgree /\ ReactivatedExactly
  BY LoginDaysExact, CoverageAlwaysHonest, SeriesAlwaysAgree, ReactivatedAlwaysExact DEF AnalyticsInv
<1>4. AnalyticsInv /\ [AnalyticsNext]_analyticsVars =>
        \A end \in 1..instant : \A start \in 0..(end - 1), c \in {"live", "demo", "unknown"} :
          LET w == [start |-> start, end |-> end] IN
          /\ ActivitySection(w, c)'.executed \subseteq ActivitySection(w, c).executed
          /\ ActivitySection(w, c)'.created = ActivitySection(w, c).created
  BY ClosedPeriodStep DEF AnalyticsInv
<1>5. AnalyticsInv /\ [AnalyticsNext]_analyticsVars =>
        \A r \in Readers, q \in Queries :
          (reader[r].phase = "idle" /\ reader'[r].phase = "served" /\ reader'[r].key = q)
            => instant - reader'[r].read < CacheTTL
  BY ServedFresh DEF AnalyticsInv
<1> QED
  BY <1>1, <1>2, <1>3, <1>4, <1>5, PTL DEF AnalyticsSpec, FiguresTrue, ClosedPeriodFixed, CacheFresh
=============================================================================
