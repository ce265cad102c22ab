---------------------------- MODULE MCAnalytics ----------------------------
(***************************************************************************)
(* Instance for TLC of the account-status history alone: approvals and the *)
(* two routes that reject a member, in any order.                          *)
(***************************************************************************)
EXTENDS ProductAnalytics

OwnerOf(o) == o
BookSide(o) == "BID"
OriginOf(g) == "live"

HistorySpec == AnalyticsInit /\ [][HistoryNext]_analyticsVars
=============================================================================
