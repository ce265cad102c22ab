------------------------------- MODULE MCDesk -------------------------------
(***************************************************************************)
(* Instance for TLC of the modules around the order book: assisted         *)
(* listings, watchlists, the projections of the book and of prices, and    *)
(* the administrators' corrections.  A behaviour moves the part its focus  *)
(* names and leaves the others in their initial state.                     *)
(***************************************************************************)
EXTENDS MarketSupport, Watchlists, MarketViews, ForwardMarks, Remediation, TLC

VARIABLE focus

deskVars == <<focus, supportVars, watchVars, viewVars, forwardVars, remedyVars>>

\* Files of two ingestion runs: an invalid row, shared events in opposite order, a repeat.
FileOf(w) == IF w = "w1" THEN <<1, 0, 4>> ELSE <<4, 1, 4>>
SideOfEvent(e) == e % 2
Kind(s, c, m) == [side |-> s, class |-> c, managed |-> m]
KindsOf ==
  {Kind("bid", "REAL", FALSE), Kind("ask", "REAL", FALSE),
   Kind("bid", "DEMO", TRUE), Kind("ask", "DEMO", TRUE), Kind("ask", "DEMO", FALSE)}

\* No definition tells the watched orders apart.
OrdersAlike == Permutations(WatchOrders)

DeskInit ==
  /\ focus \in {"support", "radar", "feed", "events", "books", "screen", "curve", "summary",
                "signals", "orders", "rfqs", "approval", "demo"}
  /\ SupportInit /\ WatchInit /\ ViewInit /\ ForwardInit /\ RemedyInit

DeskNext ==
  /\ UNCHANGED focus
  /\ \/ focus = "support" /\ SupportNext
        /\ UNCHANGED <<watchVars, viewVars, forwardVars, remedyVars>>
     \/ /\ \/ focus = "radar" /\ RadarNext /\ UNCHANGED pageVars
           \/ focus = "feed" /\ FeedNext /\ UNCHANGED pageVars
           \/ focus = "events" /\ PagesNext /\ UNCHANGED radarVars
        /\ UNCHANGED <<supportVars, viewVars, forwardVars, remedyVars>>
     \/ /\ \/ focus = "books" /\ BookNext
           \/ focus = "screen" /\ ScreenNext
        /\ UNCHANGED <<supportVars, watchVars, forwardVars, remedyVars>>
     \/ /\ \/ focus = "curve" /\ CurveNext
           \/ focus = "summary" /\ SummaryNext
           \/ focus = "signals" /\ SignalNext
        /\ UNCHANGED <<supportVars, watchVars, viewVars, remedyVars>>
     \/ /\ \/ focus = "orders" /\ OrderQuarantineNext
           \/ focus = "rfqs" /\ RfqQuarantineNext
           \/ focus = "approval" /\ ApprovalNext
           \/ focus = "demo" /\ DemoNext
        /\ UNCHANGED <<supportVars, watchVars, viewVars, forwardVars>>

DeskSpec == DeskInit /\ [][DeskNext]_deskVars
=============================================================================
