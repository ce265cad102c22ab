------------------------------ MODULE MCWatch ------------------------------
(***************************************************************************)
(* Instance for TLC of the two parts that must act in the end: the streams *)
(* that lose their authorization, and the monitor with its recovery.  A    *)
(* behaviour moves the part its focus names and leaves the others in their *)
(* initial state.                                                          *)
(***************************************************************************)
EXTENDS StreamAccess, ExternalMonitor

VARIABLE focus

watchVars == <<focus, accessVars, monVars>>

WatchInit ==
  /\ focus \in {"streams", "monitor", "canary", "reading"}
  /\ AccessInit /\ MonInit
  /\ focus # "streams" => user.org = CHOOSE o \in StreamOrgs : TRUE

WatchNext ==
  /\ UNCHANGED focus
  /\ \/ focus = "streams" /\ AccessNext /\ UNCHANGED monVars
     \/ focus = "monitor" /\ MonNext /\ UNCHANGED accessVars
     \/ focus = "canary" /\ CanaryNext /\ UNCHANGED accessVars
     \/ focus = "reading" /\ TakeReading /\ UNCHANGED accessVars

Streaming(A) == focus = "streams" /\ A /\ TrackLapse /\ UNCHANGED <<focus, monVars>>
Monitoring(A) == focus = "monitor" /\ A /\ UNCHANGED <<focus, reading, signup, accessVars>>

\* Time passes and the event loop keeps running every open stream.
StreamFairness ==
  /\ WF_watchVars(Streaming(Passes))
  /\ \A s \in Streams : /\ WF_watchVars(Streaming(ControlFrame(s)))
                        /\ WF_watchVars(Streaming(Keepalive(s)))

\* Timers start the monitor and the recovery again and again; a restart that
\* may fail does not fail for ever; faults outside the recovery's reach are
\* repaired and deployments end.
MonitorFairness ==
  /\ WF_watchVars(Monitoring(MonitorRun)) /\ WF_watchVars(Monitoring(MonitorTick))
  /\ WF_watchVars(Monitoring(RecoverNext)) /\ WF_watchVars(Monitoring(DeployEnds))
  /\ SF_watchVars(Monitoring(RestartApi(TRUE))) /\ SF_watchVars(Monitoring(RecoverCaddy))
  /\ SF_watchVars(Monitoring(RecoverBackup(TRUE)))
  /\ \A p \in Parts : WF_watchVars(Monitoring(Repaired(p)))

WatchSpec == WatchInit /\ [][WatchNext]_watchVars /\ StreamFairness /\ MonitorFairness
=============================================================================
