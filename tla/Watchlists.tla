----------------------------- MODULE Watchlists -----------------------------
(***************************************************************************)
(* The market radar of one user: app/routers/watchlists.py,                *)
(* app/services/watchlists.py and app/services/watchlist_events.py, with   *)
(* the legacy entries that are translated into radar slices, the pins of   *)
(* orders, and the events that the market handlers store for both.  One    *)
(* slice and one side of its book are modelled; a market handler runs      *)
(* under the slice lock and is one step, a request of the user is not.     *)
(***************************************************************************)
EXTENDS Integers, FiniteSets, FiniteSetsExt

CONSTANTS
  WatchTabs,      \* concurrent requests of the user that add an entry
  PinTabs,        \* concurrent requests that pin an order
  WatchOrders,    \* orders of the slice, all on one side
  WatchPrices,    \* their prices; the lowest is best
  WatchQuantity,  \* quantity of every order
  WatchTimes,     \* created_at values of stored events
  MaxWatchLog,    \* bound on stored events
  PageSize        \* limit of one page of the feed

ASSUME WatchAssumption ==
  /\ WatchTimes \subseteq Nat /\ \E top \in WatchTimes : \A t \in WatchTimes : t <= top
  /\ WatchQuantity \in Nat \ {0} /\ PageSize \in Nat \ {0}

VARIABLES
  radar,      \* the RADAR_DEFAULT watchlist exists
  entry,      \* the legacy entry (product, delivery point) is stored
  slice,      \* the SLICE target is stored
  pins,       \* order -> NoPin, or the snapshot its PIN target holds
  adding,     \* per tab, what add_watchlist_entry found out about the radar
  pinning,    \* per tab, the order row create_watchlist_target read
  accepted,   \* an add was answered 201 and no removal since
  book,       \* the orders
  feed,       \* the slice's last SLICE_BEST_PRICE_MOVED
  pinFeed,    \* per order, the pin's last status event
  log,        \* stored events [at, id] of a watchlist
  pager       \* a reader of the feed: cursor, what it has got, what it must get

radarVars == <<radar, entry, slice, pins, adding, pinning, accepted, book, feed, pinFeed>>
pageVars == <<log, pager>>
watchVars == <<radarVars, pageVars>>

WatchLive == {"OPEN", "PARTIALLY_FILLED"}
NoPrice == 0
NoPin == [status |-> "none", left |-> 0]
NotPinning == [order |-> "none", snap |-> NoPin, sawSlice |-> FALSE]
NothingTold == [told |-> -1, silent |-> FALSE]

\* current_public_order_clause: not past its expiry, and its owner admitted.
Visible(b, o) == b[o].status \in WatchLive /\ b[o].hidden = "no"

\* _best_slice_price.
BestOf(b) ==
  LET prices == {b[o].price : o \in {x \in WatchOrders : Visible(b, x)}} IN
  IF prices = {} THEN NoPrice ELSE Min(prices)

PinSnapshot(b, o) == [status |-> b[o].status, left |-> b[o].left]

\* The event _emit_pin_events stores for a changed remainder or an ended order.
StatusEvent(status) ==
  CASE status = "PARTIALLY_FILLED" -> "PIN_PARTIALLY_FILLED"
    [] status = "FILLED" -> "PIN_FILLED"
    [] status = "CANCELLED" -> "PIN_WITHDRAWN"
    [] status = "EXPIRED" -> "PIN_EXPIRED"
    [] OTHER -> "PIN_QUANTITY_CHANGED"

\* emit_pin_updated.
PinUpdated(b, o) ==
  /\ pins' = IF pins[o] # NoPin THEN [pins EXCEPT ![o] = PinSnapshot(b, o)] ELSE pins
  /\ pinFeed' = IF /\ pins[o] # NoPin
                   /\ \/ b[o].left # book[o].left
                      \/ b[o].status # book[o].status /\ b[o].status \notin WatchLive
                THEN [pinFeed EXCEPT ![o] = StatusEvent(b[o].status)]
                ELSE pinFeed

\* The event is stored only when the price did not vanish.
PriceTold_NonEmpty(before, b) ==
  IF slice /\ before # BestOf(b) /\ BestOf(b) # NoPrice
  THEN [told |-> BestOf(b), silent |-> FALSE] ELSE feed
\* emit_slice_state_changed, and the same comparison in emit_order_created.
PriceTold(before, b) ==
  IF slice /\ before # BestOf(b) THEN [told |-> BestOf(b), silent |-> FALSE] ELSE feed

\* A handler that read the best price before its change.
Announce(b, o) ==
  /\ book' = b
  /\ PinUpdated(b, o)
  /\ feed' = PriceTold(BestOf(book), b)
  /\ UNCHANGED <<radar, entry, slice, adding, pinning, accepted, pageVars>>

\* A handler that passes no earlier best price: a vanished one is not told.
AnnounceUnpriced(b, o) ==
  /\ book' = b
  /\ PinUpdated(b, o)
  /\ feed' = LET f == PriceTold(NoPrice, b) IN
             IF f = feed /\ BestOf(b) # BestOf(book) THEN [feed EXCEPT !.silent = TRUE] ELSE f
  /\ UNCHANGED <<radar, entry, slice, adding, pinning, accepted, pageVars>>

\* The clock or an account decision hides or shows an order; no event is stored.
Silently(b) ==
  /\ book' = b
  /\ feed' = IF BestOf(b) # BestOf(book) THEN [feed EXCEPT !.silent = TRUE] ELSE feed
  /\ UNCHANGED <<radar, entry, slice, pins, adding, pinning, accepted, pinFeed, pageVars>>

(***************************************************************************)
(* What the market handlers store                                          *)
(***************************************************************************)
StatusOfLeft(left) ==
  CASE left = 0 -> "FILLED" [] left = WatchQuantity -> "OPEN" [] OTHER -> "PARTIALLY_FILLED"

\* create_order and publish_inventory_item, then emit_order_created.
WatchedCreated(o, p) ==
  /\ book[o].status = "none"
  /\ Announce([book EXCEPT ![o] = [status |-> "OPEN", price |-> p, left |-> WatchQuantity,
                                   hidden |-> "no"]], o)

\* update_order: the price of a live, unexpired order of an admitted owner.
WatchedAmended(o, p) ==
  /\ Visible(book, o) /\ p # book[o].price
  /\ Announce([book EXCEPT ![o].price = p], o)

\* create_trade, or a fill by match_order with collect_auto_match_side_effects.
WatchedFilled(o) ==
  /\ Visible(book, o)
  /\ LET left == book[o].left - 1 IN
     Announce([book EXCEPT ![o].left = left, ![o].status = StatusOfLeft(left)], o)

\* decline_trade gives the quantity back to an order that was not withdrawn; one past its
\* expiry ends instead.
WatchedDeclined(o) ==
  /\ book[o].status \in WatchLive \cup {"FILLED"} /\ book[o].left < WatchQuantity
  /\ LET left == book[o].left + 1 IN
     Announce([book EXCEPT ![o].left = left,
                           ![o].status = IF book[o].hidden = "due" THEN "EXPIRED"
                                         ELSE StatusOfLeft(left)], o)

\* cancel_order.
WatchedCancelled(o) ==
  /\ Visible(book, o)
  /\ Announce([book EXCEPT ![o].status = "CANCELLED"], o)

\* expire_market_slice_orders.
WatchedExpired(o) ==
  /\ book[o].status \in WatchLive /\ book[o].hidden = "due"
  /\ AnnounceUnpriced([book EXCEPT ![o].status = "EXPIRED"], o)

\* invalidate_organization_market_access: pending quantity comes back, the order ends.
WatchedInvalidated(o) ==
  /\ book[o].status \in WatchLive \cup {"FILLED"}
  /\ \E left \in book[o].left .. WatchQuantity :
       /\ left > 0
       /\ AnnounceUnpriced([book EXCEPT ![o].left = left, ![o].status = "CANCELLED"], o)

\* An order passes its expiry; its owner is rejected or admitted again.
WatchedHidden(o, h) ==
  /\ book[o].status \in WatchLive \cup {"FILLED"} /\ book[o].hidden # "due" /\ book[o].hidden # h
  /\ Silently([book EXCEPT ![o].hidden = h])

(***************************************************************************)
(* What the user asks for                                                  *)
(***************************************************************************)
\* get_market_radar.
EnsureRadar ==
  /\ ~radar /\ radar' = TRUE
  /\ UNCHANGED <<entry, slice, pins, adding, pinning, accepted, book, feed, pinFeed, pageVars>>

\* add_watchlist_entry finds no such entry, and reads whether there is a radar.
AddEntryReads(t) ==
  /\ adding[t] = "idle" /\ ~entry
  /\ adding' = [adding EXCEPT ![t] = IF radar THEN "radar" ELSE "no radar"]
  /\ UNCHANGED <<radar, entry, slice, pins, pinning, accepted, book, feed, pinFeed, pageVars>>

\* A conflict on the radar rolls the entry back with everything else; a conflict on the
\* slice does too, and then the entry is added again.
EntryKept(raced) == raced => slice

\* The rest of add_watchlist_entry: insert the entry, ensure the radar, insert the slice.
\* With the entry gone the final refresh fails and the answer is not 201.
AddEntryCommits(t) ==
  LET raced == adding[t] = "no radar" /\ radar IN
  /\ adding[t] # "idle"
  /\ adding' = [adding EXCEPT ![t] = "idle"]
  /\ IF entry
     THEN UNCHANGED <<radar, entry, slice, feed, accepted>>
     ELSE /\ radar' = TRUE
          /\ entry' = EntryKept(raced)
          /\ accepted' = (accepted \/ ~raced \/ slice)
          /\ slice' = TRUE
          /\ feed' = IF slice THEN feed ELSE NothingTold
  /\ UNCHANGED <<pins, pinning, book, pinFeed, pageVars>>

\* remove_watchlist_entry: the translated slice goes, the pins beside it stay.
RemoveEntry ==
  /\ entry /\ entry' = FALSE /\ accepted' = FALSE
  /\ radar' = TRUE
  /\ slice' = FALSE /\ feed' = NothingTold
  /\ UNCHANGED <<pins, adding, pinning, book, pinFeed, pageVars>>

\* create_watchlist_target for the slice.
SaveSlice ==
  /\ radar /\ ~slice
  /\ slice' = TRUE /\ feed' = NothingTold
  /\ UNCHANGED <<radar, entry, pins, adding, pinning, accepted, book, pinFeed, pageVars>>

\* create_watchlist_target for an order: the order and the companion slice are read,
\* then both targets inserted, unless a unique index refuses one.
PinReads(t, o) ==
  /\ radar /\ pinning[t] = NotPinning /\ book[o].status # "none"
  /\ pinning' = [pinning EXCEPT ![t] = [order |-> o, snap |-> PinSnapshot(book, o), sawSlice |-> slice]]
  /\ UNCHANGED <<radar, entry, slice, pins, adding, accepted, book, feed, pinFeed, pageVars>>

PinCommits(t) ==
  LET r == pinning[t] IN
  /\ r # NotPinning
  /\ pinning' = [pinning EXCEPT ![t] = NotPinning]
  /\ IF pins[r.order] # NoPin \/ (slice /\ ~r.sawSlice)
     THEN UNCHANGED <<slice, pins, feed, pinFeed>>
     ELSE /\ pins' = [pins EXCEPT ![r.order] = r.snap]
          /\ pinFeed' = [pinFeed EXCEPT ![r.order] = "nothing"]
          /\ slice' = (slice \/ ~r.sawSlice)
          /\ feed' = IF slice THEN feed ELSE NothingTold
  /\ UNCHANGED <<radar, entry, adding, accepted, book, pageVars>>

\* delete_watchlist_target: a slice takes the pins it can see with it.
DeleteSlice ==
  /\ slice
  /\ slice' = FALSE /\ feed' = NothingTold
  /\ pins' = [o \in WatchOrders |-> NoPin]
  /\ pinFeed' = [o \in WatchOrders |-> "nothing"]
  /\ UNCHANGED <<radar, entry, adding, pinning, accepted, book, pageVars>>
DeletePin(o) ==
  /\ pins[o] # NoPin
  /\ pins' = [pins EXCEPT ![o] = NoPin]
  /\ pinFeed' = [pinFeed EXCEPT ![o] = "nothing"]
  /\ UNCHANGED <<radar, entry, slice, adding, pinning, accepted, book, feed, pageVars>>

(***************************************************************************)
(* Pages of the feed                                                       *)
(***************************************************************************)
Start == [at |-> Max(WatchTimes) + 1, id |-> 0]
\* The order of the feed: newest first, ties by id.
After(c, e) == e.at < c.at \/ (e.at = c.at /\ e.id < c.id)
\* The rows a request with this cursor selects.
BeyondCursor(c, e) == After(c, e)

\* create_event: an event becomes visible when its transaction commits, maybe later than
\* one with a later created_at.
EventStored(at) ==
  /\ Cardinality(log) < MaxWatchLog
  /\ \E id \in 1 .. MaxWatchLog :
       /\ \A e \in log : e.id # id
       /\ log' = log \cup {[at |-> at, id |-> id]}
  /\ UNCHANGED <<radarVars, pager>>

\* prune_old_read_events is never called and mark_watchlist_event_read leaves the row, so
\* list_watchlist_events sees every event; the cursor is the last row of the page.
ReadPage ==
  LET rest == {e \in log : BeyondCursor(pager.cursor, e)}
      page == {e \in rest : Cardinality({f \in rest : After(f, e)}) < PageSize}
  IN
  /\ ~pager.done
  /\ pager' = [cursor |-> IF page = {} THEN pager.cursor
                          ELSE CHOOSE e \in page : \A f \in page : f = e \/ After(f, e),
               got |-> pager.got \cup page,
               twice |-> pager.twice \/ pager.got \cap page # {},
               due |-> IF pager.cursor = Start THEN log ELSE pager.due,
               done |-> page = rest]
  /\ UNCHANGED <<radarVars, log>>

NewReader == [cursor |-> Start, got |-> {}, twice |-> FALSE, due |-> {}, done |-> FALSE]

\* The legacy entries, the events of the slice and the reader of the feed share only the
\* tables and are explored one at a time.
WatchInit ==
  /\ radar = FALSE /\ entry = FALSE /\ slice = FALSE /\ accepted = FALSE
  /\ pins = [o \in WatchOrders |-> NoPin]
  /\ adding = [t \in WatchTabs |-> "idle"]
  /\ pinning = [t \in PinTabs |-> NotPinning]
  /\ book = [o \in WatchOrders |-> [status |-> "none", price |-> NoPrice, left |-> 0, hidden |-> "no"]]
  /\ feed = NothingTold
  /\ pinFeed = [o \in WatchOrders |-> "nothing"]
  /\ log = {} /\ pager = NewReader

RadarNext ==
  \/ EnsureRadar \/ SaveSlice \/ DeleteSlice \/ RemoveEntry
  \/ \E t \in WatchTabs : AddEntryReads(t) \/ AddEntryCommits(t)
FeedNext ==
  \/ EnsureRadar \/ SaveSlice \/ DeleteSlice
  \/ \E t \in PinTabs : PinCommits(t) \/ \E o \in WatchOrders : PinReads(t, o)
  \/ \E o \in WatchOrders :
       \/ DeletePin(o) \/ WatchedFilled(o) \/ WatchedDeclined(o) \/ WatchedCancelled(o)
       \/ WatchedExpired(o) \/ WatchedInvalidated(o)
       \/ \E p \in WatchPrices : WatchedCreated(o, p) \/ WatchedAmended(o, p)
       \/ \E h \in {"no", "due", "owner"} : WatchedHidden(o, h)
PagesNext == ReadPage \/ \E at \in WatchTimes : EventStored(at)

WatchSpec == WatchInit /\ [][RadarNext \/ FeedNext \/ PagesNext]_watchVars

(***************************************************************************)
(* Properties                                                              *)
(***************************************************************************)
\* The last best price a saved slice was told is the best price, unless an order left the
\* book by expiry or an account decision since: no handler that changes the book forgets
\* the comparison, whichever order it touched.
FeedTellsBest == slice /\ feed.told >= 0 /\ ~feed.silent => feed.told = BestOf(book)

\* Once a pin has told a status, its last event and its snapshot are the order's present
\* ones, although the pin may have been stored with a row read before a change.
PinFeedTrue ==
  \A o \in WatchOrders : pins[o] # NoPin /\ pinFeed[o] # "nothing" =>
    pinFeed[o] = StatusEvent(book[o].status) /\ pins[o] = PinSnapshot(book, o)

\* An add that was answered 201 left its entry, whichever unique index rolled the
\* transaction back on the way.
AcceptedEntryStored == accepted => entry

\* A reader who follows next_cursor to the end gets every event there was when it began,
\* and none twice, while events with equal and with earlier times are being stored.
PagesComplete == ~pager.twice /\ (pager.done => pager.due \subseteq pager.got)

\* A watchlist tells the truth: best prices and pins as the book has them, entries as they were
\* accepted, and pages of events without gap or repetition.
FeedTrue == FeedTellsBest /\ PinFeedTrue /\ AcceptedEntryStored /\ PagesComplete
=============================================================================
