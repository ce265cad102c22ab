---------------------------- MODULE MCOperations ----------------------------
(***************************************************************************)
(* Instance for TLC of the modules about the running service: alerts and   *)
(* backups, deployment, providers, request limits and analytics.  They     *)
(* share no state: a behaviour moves the part its focus names and leaves   *)
(* the others in their initial state, so one run checks their sum instead  *)
(* of their product.                                                       *)
(***************************************************************************)
EXTENDS LocalMonitor, Deployment, Providers, Activity, ProductAnalytics

VARIABLE focus

operationsVars ==
  <<focus, localVars, deploymentVars, providerVars, activityVars, analyticsVars>>

\* Two batches of one user that share an event.
BatchOf(p) == IF p = "p1" THEN {1, 2} ELSE {2, 3}
\* Fetched items <<url, title>>; url 0 does not validate, equal urls or titles are one item.
BatchesOf ==
  {<< <<1, 1>>, <<2, 2>>, <<3, 3>>, <<4, 4>>, <<5, 5>>, <<6, 6>> >>,
   << <<1, 1>>, <<2, 1>>, <<2, 3>>, <<1, 3>>, <<0, 4>> >>, << <<0, 1>> >>}
\* A bid and an ask of live organizations, an ask of a demo organization.
OwnerOf(o) == CASE o = "o1" -> "g1" [] o = "o2" -> "g2" [] OTHER -> "g3"
BookSide(o) == IF o = "o1" THEN "BID" ELSE "ASK"
OriginOf(g) == IF g = "g3" THEN "demo" ELSE "live"

OperationsInit ==
  /\ focus \in {"alerts", "backup", "deploy", "units", "gemini", "news", "token", "window",
                "rate", "reads", "posts", "pages", "logins", "facts", "cache"}
  /\ LocalInit /\ DeploymentInit /\ ProviderInit /\ ActivityInit /\ AnalyticsInit

OperationsNext ==
  /\ UNCHANGED focus
  /\ \/ /\ \/ focus = "alerts" /\ AlertNext
           \/ focus = "backup" /\ BackupNext
        /\ UNCHANGED <<deploymentVars, providerVars, activityVars, analyticsVars>>
     \/ /\ \/ focus = "deploy" /\ DeployNext
           \/ focus = "units" /\ UnitsNext
        /\ UNCHANGED <<localVars, providerVars, activityVars, analyticsVars>>
     \/ /\ \/ focus = "gemini" /\ GeminiNext
           \/ focus = "news" /\ NewsNext
           \/ focus = "token" /\ TokenNext
           \/ focus = "window" /\ WindowNext
        /\ UNCHANGED <<localVars, deploymentVars, activityVars, analyticsVars>>
     \/ /\ \/ focus = "rate" /\ RateNext
           \/ focus = "reads" /\ ReadNext
           \/ focus = "posts" /\ IngestNext
           \/ focus = "pages" /\ PagesNext
        /\ UNCHANGED <<localVars, deploymentVars, providerVars, analyticsVars>>
     \/ /\ \/ focus = "logins" /\ LoginNext
           \/ focus = "facts" /\ MarketFactsNext
           \/ focus = "cache" /\ CacheNext
        /\ UNCHANGED <<localVars, deploymentVars, providerVars, activityVars>>

OperationsSpec == OperationsInit /\ [][OperationsNext]_operationsVars
=============================================================================
