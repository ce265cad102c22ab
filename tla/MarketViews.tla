----------------------------- MODULE MarketViews -----------------------------
(***************************************************************************)
(* What the public sees of the order book: the eligibility clauses of      *)
(* app/services/market_data_eligibility.py, the reads of                   *)
(* app/routers/orderbook.py (lists, snapshot, aggregates, compact map),    *)
(* the benchmark of app/services/live_benchmarks.py, and the marker by     *)
(* which every handler tells public clients to read again.  One product at *)
(* one delivery point; a row's number is its acceptance ordinal.           *)
(***************************************************************************)
EXTENDS Integers, Sequences, FiniteSets, FiniteSetsExt, SequencesExt

CONSTANTS
  ViewRows,   \* order ids, 1 .. n
  ToldRows,   \* the ones whose life is followed
  ViewPrices,
  Depth       \* rows per side of a snapshot

ASSUME ViewAssumption ==
  /\ IsFiniteSet(ViewRows) /\ ToldRows \subseteq ViewRows
  /\ ViewPrices \subseteq Nat \ {0}
  /\ \E top \in ViewPrices : \A p \in ViewPrices : p <= top

VARIABLES
  rows,     \* order rows
  screen,   \* what a public client shows: the rows of its last read
  told,     \* a public invalidation is on its way to the client
  missed,   \* the projection changed without one since the last read
  hit       \* the row a client reviewed and asked to trade, on its way to create_trade

viewVars == <<rows, screen, told, missed, hit>>

Sides == {"BID", "ASK"}
ViewWindows == <<"SPOT", "MONTH">>      \* in the order of availability_window_sort_key
ViewClasses == {"REAL", "DEMO"}         \* evidence classes; UNKNOWN rows are quarantined
NoRow == [side |-> "none", window |-> "none", prov |-> "none", price |-> 0, left |-> 0,
          live |-> FALSE, due |-> FALSE, owner |-> TRUE]
NoQuote == 0
NoHit == [id |-> 0, price |-> 0, left |-> 0]

\* _public_order_projection_statement, which is also the scope of every public read.
Public(r) == r.live /\ ~r.due /\ r.owner /\ r.prov \in ViewClasses
PublicIds == {i \in ViewRows : Public(rows[i])}
Projection == {[id |-> i, price |-> rows[i].price, left |-> rows[i].left] : i \in PublicIds}

(***************************************************************************)
(* Prices and crossings                                                    *)
(***************************************************************************)
Opposing(side) == IF side = "BID" THEN "ASK" ELSE "BID"
BestPrice(side, S) ==
  LET prices == {rows[i].price : i \in S} IN
  IF prices = {} THEN NoQuote ELSE IF side = "BID" THEN Max(prices) ELSE Min(prices)

\* compute_is_crossed.
IsCrossed(side, price, opposing) ==
  opposing # NoQuote /\ IF side = "BID" THEN price >= opposing ELSE price <= opposing

\* A market is product, delivery point, window and evidence class.
SameMarket(i, j) == rows[i].window = rows[j].window /\ rows[i].prov = rows[j].prov

\* _load_best_opposing_prices, for the lists of bids and asks.
ListOpposing(i) ==
  BestPrice(Opposing(rows[i].side),
            {j \in PublicIds : rows[j].side = Opposing(rows[i].side) /\ SameMarket(i, j)})
ListCrossed(i) == IsCrossed(rows[i].side, rows[i].price, ListOpposing(i))

\* _snapshot_depth_order: price of the side, then acceptance ordinal.
DeeperThan(i, j) ==
  \/ IF rows[i].side = "BID" THEN rows[i].price < rows[j].price ELSE rows[i].price > rows[j].price
  \/ rows[i].price = rows[j].price /\ i > j

\* The best rows of both sides in one window, all evidence classes together.
SnapshotRows(w) ==
  {i \in PublicIds : /\ rows[i].window = w
                     /\ Cardinality({j \in PublicIds : /\ rows[j].window = w
                                                       /\ rows[j].side = rows[i].side
                                                       /\ DeeperThan(i, j)}) < Depth}
\* get_orderbook_snapshot takes the best price of a class among the rows it returns.
SnapshotCrossed(w, i) ==
  LET opp == Opposing(rows[i].side) IN
  IsCrossed(rows[i].side, rows[i].price,
            BestPrice(opp, {j \in SnapshotRows(w) : rows[j].side = opp /\ rows[j].prov = rows[i].prov}))

(***************************************************************************)
(* Aggregates and the compact map                                          *)
(***************************************************************************)
\* The quantity left of a set of rows, counted in its units.
Units(S) == UNION {{i} \X (1 .. rows[i].left) : i \in S}
Left(S) == Cardinality(Units(S))

\* The rows one row of _aggregate_orderbook is about, and that row.
GroupRows(w, s, c) == {i \in PublicIds : rows[i].window = w /\ rows[i].side = s /\ rows[i].prov = c}
Group(w, s, c) ==
  LET S == GroupRows(w, s, c) IN
  [window |-> w, side |-> s, count |-> Cardinality(S),
   min |-> BestPrice("ASK", S), max |-> BestPrice("BID", S), total |-> Left(S)]

\* The groups of one class in the order of the query: window, then side.  A group without rows
\* is not in the answer, and its readers pass it over.
Groups(c) == <<Group("MONTH", "ASK", c), Group("MONTH", "BID", c),
               Group("SPOT", "ASK", c), Group("SPOT", "BID", c)>>

Lower(a, b) == IF a = NoQuote \/ b < a THEN b ELSE a
Higher(a, b) == IF a = NoQuote \/ b > a THEN b ELSE a
NoMarket == [low |-> [s \in Sides |-> NoQuote], high |-> [s \in Sides |-> NoQuote],
             total |-> [s \in Sides |-> 0], count |-> [s \in Sides |-> 0],
             spot |-> [s \in Sides |-> NoQuote]]

\* _CompactMapAccumulator.add_group.
AddGroup(m, g) ==
  [low |-> [m.low EXCEPT ![g.side] = Lower(@, g.min)],
   high |-> [m.high EXCEPT ![g.side] = Higher(@, g.max)],
   total |-> [m.total EXCEPT ![g.side] = @ + g.total],
   count |-> [m.count EXCEPT ![g.side] = @ + g.count],
   spot |-> IF g.window # "SPOT" THEN m.spot
            ELSE [m.spot EXCEPT ![g.side] = IF g.side = "BID" THEN Higher(@, g.max)
                                            ELSE Lower(@, g.min)]]

\* The market of one class in _compact_map_groups: its groups, one after the other.
Met(m, g) == IF g.count = 0 THEN m ELSE AddGroup(m, g)
CompactMarket(c) ==
  LET g == Groups(c) IN Met(Met(Met(Met(NoMarket, g[1]), g[2]), g[3]), g[4])

Rank(w) == CHOOSE k \in DOMAIN ViewWindows : ViewWindows[k] = w
\* The demo groups of _compact_map_groups: the nearest window met so far and its groups.
SelectDemo(sel, g) ==
  CASE g.count = 0 -> sel
    [] g.count # 0 /\ (sel = <<>> \/ Rank(g.window) < Rank(sel[1].window)) -> <<g>>
    [] g.count # 0 /\ sel # <<>> /\ g.window = sel[1].window -> Append(sel, g)
    [] OTHER -> sel
DemoGroups ==
  LET g == Groups("DEMO") IN SelectDemo(SelectDemo(SelectDemo(SelectDemo(<<>>, g[1]), g[2]), g[3]), g[4])

\* The rows a live benchmark of one side and window averages: public ones of both classes.
BenchmarkRows(w, s) == {i \in PublicIds : rows[i].window = w /\ rows[i].side = s}
BenchmarkTotal(w, s) == Left(BenchmarkRows(w, s))

(***************************************************************************)
(* Handlers and the client                                                 *)
(***************************************************************************)
\* The marker is set from the state after the change alone.
Marks_After(before, after) == after
\* public_market_invalidation = public_before or public_after.
Marks(before, after) == before \/ after

Change(i, r) ==
  /\ rows' = [rows EXCEPT ![i] = r]
  /\ told' = (told \/ Marks(Public(rows[i]), Public(r)))
  /\ UNCHANGED <<screen, missed, hit>>

\* A change no event with the marker goes with.
Unmarked(i, r) ==
  /\ rows' = [rows EXCEPT ![i] = r]
  /\ missed' = (missed \/ Public(r) # Public(rows[i]))
  /\ UNCHANGED <<screen, told, hit>>

\* create_order and publish_inventory_item, perhaps matched in part at once.
CreateRow(i, s, w, c, p, n) ==
  /\ rows[i] = NoRow /\ \A j \in ViewRows : j < i => rows[j] # NoRow
  /\ Change(i, [side |-> s, window |-> w, prov |-> c, price |-> p, left |-> n,
                live |-> TRUE, due |-> FALSE, owner |-> TRUE])

\* create_trade, match_order and update_order change a price or a remainder.
AmendRow(i, p, n) ==
  /\ Public(rows[i]) /\ <<p, n>> # <<rows[i].price, rows[i].left>>
  /\ Change(i, [rows[i] EXCEPT !.price = p, !.left = n, !.live = n > 0])

\* cancel_order.
CancelRow(i) == rows[i].live /\ ~rows[i].due /\ Change(i, [rows[i] EXCEPT !.live = FALSE])

\* decline_trade revives a filled order that has not passed its expiry.
DeclineRow(i) ==
  /\ rows[i] # NoRow /\ rows[i].left = 0 /\ ~rows[i].due
  /\ Change(i, [rows[i] EXCEPT !.left = 1, !.live = TRUE])

\* approve_user, reject_user and the KYC decisions of auth_simple and kyc.
OwnerDecided(i) == rows[i] # NoRow /\ Change(i, [rows[i] EXCEPT !.owner = ~@])

\* The expiry passes; clients drop the row by its expires_at, the sweep marks its event.
RowDue(i) ==
  /\ rows[i].live /\ ~rows[i].due
  /\ rows' = [rows EXCEPT ![i].due = TRUE]
  /\ UNCHANGED <<screen, told, missed, hit>>
SweepRow(i) ==
  /\ rows[i].live /\ rows[i].due
  /\ rows' = [rows EXCEPT ![i].live = FALSE]
  /\ told' = (told \/ Public([rows[i] EXCEPT !.due = FALSE]))
  /\ UNCHANGED <<screen, missed, hit>>

\* admin_analytics.reject_user, which enqueues no market event, and reject_organization
\* of a counterparty, whose marker says only whether the rejected organization was public.
AdminRejects(i) == rows[i].owner /\ rows[i] # NoRow /\ Unmarked(i, [rows[i] EXCEPT !.owner = FALSE])
CounterpartyRejected(i) ==
  /\ rows[i] # NoRow /\ rows[i].left = 0 /\ ~rows[i].due
  /\ Unmarked(i, [rows[i] EXCEPT !.left = 2, !.live = TRUE])

\* A public client reads again when the marker arrives, or whenever it likes.
ReadAgain ==
  /\ screen' = Projection /\ told' = FALSE /\ missed' = FALSE
  /\ UNCHANGED <<rows, hit>>

\* The client reviews a row of its screen and sends the digest of its terms.
SendHit(s) ==
  /\ hit = NoHit /\ s \in screen
  /\ hit' = s
  /\ UNCHANGED <<rows, screen, told, missed>>

\* The digest leaves the remaining quantity out.
TermsMatch_PriceOnly(h, r) == h.price = r.price
\* order_terms_digest binds price, quantity and qualification of the order.
TermsMatch(h, r) == h.price = r.price /\ h.left = r.left

\* create_trade compares the digest under the slice and row locks, then checks the order and
\* its owner; synthetic listings cannot be traded.
HitArrives ==
  LET r == rows[hit.id] IN
  /\ hit # NoHit /\ hit' = NoHit
  /\ \/ /\ TermsMatch(hit, r) /\ Public(r) /\ r.prov = "REAL"
        /\ \E n \in 1 .. r.left : rows' = [rows EXCEPT ![hit.id].left = @ - n,
                                                     ![hit.id].live = n < r.left]
        /\ told' = (told \/ Marks(Public(r), Public(rows'[hit.id])))
     \/ /\ ~(TermsMatch(hit, r) /\ Public(r) /\ r.prov = "REAL")
        /\ UNCHANGED <<rows, told>>
  /\ UNCHANGED <<screen, missed>>

ViewInit ==
  /\ rows = [i \in ViewRows |-> NoRow]
  /\ screen = {} /\ told = FALSE /\ missed = FALSE /\ hit = NoHit

CreateAny(i) ==
  \E s \in Sides, k \in DOMAIN ViewWindows, c \in ViewClasses \cup {"UNKNOWN"}, p \in ViewPrices, n \in 1 .. 2 :
    CreateRow(i, s, ViewWindows[k], c, p, n)
\* Books of every shape.
BookNext == \E i \in ViewRows : CreateAny(i)
\* The life of a few rows, watched by a client.
ScreenNext ==
  \/ ReadAgain \/ HitArrives \/ (\E s \in screen : SendHit(s))
  \/ \E i \in ToldRows :
       \/ CreateAny(i) \/ CancelRow(i) \/ DeclineRow(i) \/ OwnerDecided(i) \/ RowDue(i)
       \/ SweepRow(i) \/ AdminRejects(i) \/ CounterpartyRejected(i)
       \/ \E p \in ViewPrices, n \in 0 .. 2 : AmendRow(i, p, n)

ViewSpec == ViewInit /\ [][BookNext \/ ScreenNext]_viewVars

(***************************************************************************)
(* Properties                                                              *)
(***************************************************************************)
\* A public client whose screen differs from the book in rows that have not passed their
\* expiry has an invalidation on its way, for every handler that reads the projection
\* before and after its change.
ScreenTrueOrTold ==
  told \/ missed \/ {s \in screen : ~rows[s.id].due} = Projection

\* A direct hit executes the terms its sender reviewed, whatever amendments, fills, declines
\* and readmissions came between the read of the screen and the locked row.
HitAsReviewed ==
  [][hit # NoHit /\ hit' = NoHit /\ rows' # rows =>
       [id |-> hit.id, price |-> rows'[hit.id].price, left |-> rows[hit.id].left] = hit]_viewVars

\* A crossing shown in the snapshot is one the lists show too, although the snapshot only
\* knows the rows within its depth: both compare within one window and evidence class.
SnapshotCrossingsReal == PublicIds # {} =>
  \A k \in DOMAIN ViewWindows : \A i \in SnapshotRows(ViewWindows[k]) :
    SnapshotCrossed(ViewWindows[k], i) => ListCrossed(i)

\* The compact map, put together from groups of windows, says of every class what the rows say:
\* totals, counts, price range, and the best spot quotes.  The volumes of the live benchmarks,
\* which a query of their own computes, add up to the totals of the map.
MapMatchesBook == PublicIds # {} =>
  \A s \in Sides :
    /\ \A c \in ViewClasses :
         LET S == {i \in PublicIds : rows[i].prov = c /\ rows[i].side = s}
             m == CompactMarket(c)
         IN /\ m.count[s] = Cardinality(S)
            /\ m.total[s] = Left(S)
            /\ m.low[s] = BestPrice("ASK", S) /\ m.high[s] = BestPrice("BID", S)
            /\ m.spot[s] = BestPrice(s, {i \in S : rows[i].window = "SPOT"})
    /\ BenchmarkTotal("SPOT", s) + BenchmarkTotal("MONTH", s)
         = CompactMarket("REAL").total[s] + CompactMarket("DEMO").total[s]

\* The demo quotes of the compact map are all the groups of the nearest demo window.
DemoGroupsNearest == PublicIds # {} =>
  LET demo == {i \in PublicIds : rows[i].prov = "DEMO"}
      near == IF \E i \in demo : rows[i].window = "SPOT" THEN "SPOT" ELSE "MONTH"
  IN ToSet(DemoGroups) = {Group(near, s, "DEMO") : s \in {rows[i].side : i \in {j \in demo : rows[j].window = near}}}

\* The projections of the book agree with it and with each other: a stale screen has been told,
\* and list, snapshot, compact map and benchmarks say the same of the same rows.
ViewsAgree == ScreenTrueOrTold /\ SnapshotCrossingsReal /\ MapMatchesBook /\ DemoGroupsNearest
=============================================================================
