------------------------------- MODULE Market -------------------------------
(***************************************************************************)
(* One market slice (product, delivery point, window) of the exchange: the *)
(* order book, the matching engine, direct trades and their settlement     *)
(* statuses, the inventory reservation ledger, lazy expiry, and the        *)
(* admission changes that withdraw orders.                                 *)
(*                                                                         *)
(* Every mutation takes the slice's advisory lock before it touches an     *)
(* order or a trade and commits once, so a handler is one atomic action,   *)
(* except the matching engine: its fill loop is one step per fill, and     *)
(* while `aggressor' names the order being matched nothing else runs.      *)
(* Values read before the lock (request validation, clock readings) enter  *)
(* an action as parameters that may be stale by up to MaxDelay.            *)
(*                                                                         *)
(* Orders are self-service and of REAL provenance.  Each organization has  *)
(* one buyer and one supplier: principal <<g, "BID">> and <<g, "ASK">>.    *)
(***************************************************************************)
EXTENDS Integers, FiniteSets

CONSTANTS
    Orgs,            \* organizations
    Items,           \* inventory items
    OwnerOf,         \* the organization that owns an inventory item
    Certs,           \* certification schemes
    AnyCert,         \* a bid that names no certification
    KeepCert,        \* an amendment that leaves the certification alone
    NoOrg, NoItem,   \* NULL references
    MaxOrders,       \* bound: rows of orderbook_orders
    MaxTrades,       \* bound: rows of trades
    MaxQty,          \* largest order quantity (100000.00 in the CHECKs)
    MinLot,          \* product.min_lot_size
    Prices,          \* prices a request may carry
    MaxClock,        \* bound: the clock stops here
    MaxDelay,        \* bound: clock ticks between two readings of a request
    MaxOrdinal,      \* bound: acceptance ordinals handed out
    MaxCrossing,     \* MAX_CROSSING_ORDERS_PER_MATCH
    MaxExpiry,       \* MAX_EXPIRY_ROWS_PER_TRANSACTION
    MaxInvalidation, \* MAX_INVALIDATION_ROWS_PER_TRANSACTION
    Expiries,        \* expires_at values a new order may carry, 0 for none
    Amendments,      \* amendment requests; see UpdateOrder
    BidCerts,        \* bound: certifications a new bid may require
    Bidders,         \* bound: organizations that place bids through the API
    Askers,          \* bound: organizations that place asks through the API
    Hitters,         \* bound: organizations that open direct trades
    Sizes,           \* bound: quantities a new order or a direct trade may ask for
    Deliveries,      \* bound: delivered quantities
    StockLevels,     \* bound: current_stock_mt values a supplier may set
    RevocableUsers,  \* bound: principals an administrator rejects
    RevocableOrgs,   \* bound: organizations an administrator rejects
    AutoMatching     \* settings.AUTO_MATCHING_ENABLED

Sides == {"BID", "ASK"}
Live == {"OPEN", "PARTIALLY_FILLED"}
Withdrawn == {"CANCELLED", "EXPIRED"}
OrderStatuses == Live \union Withdrawn \union {"FILLED"}
TradeStatuses == {"PENDING", "CONFIRMED", "DELIVERED", "PAID", "CANCELLED", "DECLINED"}
Orders == 1 .. MaxOrders
Trades == 1 .. MaxTrades
NoOrder == 0
NoExpiry == 0
Principals == Orgs \X Sides

ASSUME MarketConstants ==
    /\ {MaxOrders, MaxTrades, MaxQty, MinLot, MaxClock, MaxDelay} \subseteq Nat
    /\ {MaxOrdinal, MaxCrossing, MaxExpiry, MaxInvalidation} \subseteq Nat
    /\ MinLot >= 1
    /\ Prices \subseteq Nat /\ Sizes \subseteq 1 .. MaxQty /\ Deliveries \subseteq 1 .. MaxQty
    /\ Expiries \subseteq Nat /\ StockLevels \subseteq Nat
    /\ OwnerOf \in [Items -> Orgs]
    /\ NoOrg \notin Orgs /\ NoItem \notin Items
    /\ AutoMatching \in BOOLEAN
    /\ Amendments \subseteq [qty : 0 .. MaxQty, price : Nat, expires : Nat \union {-1},
                             cert : Certs \union {AnyCert, KeepCert}]
    /\ Bidders \union Askers \union Hitters \union RevocableOrgs \subseteq Orgs
    /\ RevocableUsers \subseteq Principals
    /\ BidCerts \subseteq Certs \union {AnyCert}

VARIABLES
    order,      \* orderbook_orders
    trade,      \* trades
    item,       \* inventory_items
    admitted,   \* principals whose user passes execution_party_is_eligible
    approved,   \* organizations with verification_status APPROVED
    ordinal,    \* acceptance ordinal sequence
    clock,      \* wall clock
    aggressor,  \* order inside match_order, or NoOrder
    loaded,     \* history: stock ever entered for an item
    stranded    \* history: reservation an expiry left behind, per order

market == <<order, trade, item>>
admission == <<admitted, approved>>
history == <<loaded, stranded>>
vars == <<order, trade, item, admitted, approved, ordinal, clock, aggressor, loaded, stranded>>

OrderRow == [org : Orgs \union {NoOrg}, side : Sides, item : Items \union {NoItem},
             cert : Certs \union {AnyCert}, qty : Nat, rem : Nat, price : Nat,
             ordinal : Nat, expires : Nat, status : OrderStatuses \union {"ABSENT"}]
TradeRow == [bid : Orders \union {NoOrder}, ask : Orders \union {NoOrder},
             buyer : Orgs \union {NoOrg}, seller : Orgs \union {NoOrg},
             initiator : Sides, qty : Nat, price : Nat, final : Nat,
             status : TradeStatuses \union {"ABSENT"}]
ItemRow == [status : {"ABSENT", "PRESENT"}, current : Nat, reserved : Nat]

AbsentOrder == [org |-> NoOrg, side |-> "BID", item |-> NoItem, cert |-> AnyCert,
                qty |-> 0, rem |-> 0, price |-> 0, ordinal |-> 0,
                expires |-> NoExpiry, status |-> "ABSENT"]
AbsentTrade == [bid |-> NoOrder, ask |-> NoOrder, buyer |-> NoOrg, seller |-> NoOrg,
                initiator |-> "BID", qty |-> 0, price |-> 0, final |-> 0,
                status |-> "ABSENT"]
AbsentItem == [status |-> "ABSENT", current |-> 0, reserved |-> 0]

Init ==
    /\ order = [o \in Orders |-> AbsentOrder]
    /\ trade = [t \in Trades |-> AbsentTrade]
    /\ item = [i \in Items |-> AbsentItem]
    /\ admitted = Principals
    /\ approved = Orgs
    /\ ordinal = 0
    /\ clock = 0
    /\ aggressor = NoOrder
    /\ loaded = [i \in Items |-> 0]
    /\ stranded = [o \in Orders |-> 0]

-----------------------------------------------------------------------------
(* Helpers *)

\* The sum of a function whose values lie in 0..MaxQty, as a count of units.
Units(f) == {u \in (DOMAIN f) \X (1 .. MaxQty) : u[2] <= f[u[1]]}
Total(f) == Cardinality(Units(f))

Least(a, b) == IF a <= b THEN a ELSE b
Opposite(side) == IF side = "BID" THEN "ASK" ELSE "BID"

\* execution_party_is_eligible for the principal of organization g on a side.
Eligible(g, side) == g \in approved /\ <<g, side>> \in admitted

HasExpired(row, now) == row.expires # NoExpiry /\ row.expires <= now

\* Fault: only an expired order counts as withdrawn.
IsWithdrawn_ExpiredOnly(row) == row.status = "EXPIRED"
\* The resting order was withdrawn while a trade on it was pending.
IsWithdrawn(row) == row.status \in Withdrawn

\* next_order_acceptance_ordinal
NextOrdinal == ordinal + 1

\* Rows are numbered in the order they are inserted.
FreshOrder(o) == o \in Orders /\ order[o].status = "ABSENT"
                 /\ \A p \in Orders : p < o => order[p].status # "ABSENT"
FreshTrade(t) == t \in Trades /\ trade[t].status = "ABSENT"
                 /\ \A u \in Trades : u < t => trade[u].status # "ABSENT"

\* The status a fill gives an order, and the one a restored quantity gives it.
FilledStatus(rem) == IF rem = 0 THEN "FILLED" ELSE "PARTIALLY_FILLED"
StatusFor(qty, rem) ==
    IF rem = qty THEN "OPEN" ELSE "PARTIALLY_FILLED"

\* reserve_inventory, consume_inventory and release_inventory on one row.
Reserve(row, q) == [row EXCEPT !.current = @ - q, !.reserved = @ + q]
\* Fault: a fill leaves its reservation in place.
Consume_Forgotten(row, q) == row
Consume(row, q) == [row EXCEPT !.reserved = @ - q]
Release(row, q) == [row EXCEPT !.current = @ + q, !.reserved = @ - q]

\* Release q(i) on every item i; refused as a whole when one row holds less.
CanRelease(q) == \A i \in Items : q[i] > 0 => item[i].status = "PRESENT" /\ item[i].reserved >= q[i]
ReleaseAll(q) == [i \in Items |-> Release(item[i], q[i])]
Nothing == [i \in Items |-> 0]
OnItem(i, q) == IF i = NoItem THEN Nothing ELSE [Nothing EXCEPT ![i] = q]

-----------------------------------------------------------------------------
(* The matching engine *)

Crosses(a, c) == IF a.side = "BID" THEN c.price <= a.price ELSE c.price >= a.price

\* The SQL candidate filter of match_order for order a of the given book.
Crossing(book, a, now) ==
    {c \in Orders : /\ book[c].status \in Live
                    /\ book[c].side = Opposite(book[a].side)
                    /\ book[c].org # book[a].org
                    /\ Crosses(book[a], book[c])
                    /\ ~HasExpired(book[c], now)
                    /\ book[c].org \in approved}

\* orders_execution_compatible: the ask's scheme satisfies the bid.
Compatible(a, c) ==
    LET bid == IF a.side = "BID" THEN a ELSE c
        ask == IF a.side = "BID" THEN c ELSE a
    IN  bid.cert \in {AnyCert, ask.cert}

\* The candidates the fill loop does not skip.
Fillable(book, a, now) ==
    {c \in Crossing(book, a, now) : /\ Compatible(book[a], book[c])
                                    /\ Eligible(book[c].org, book[c].side)
                                    /\ Eligible(book[a].org, book[a].side)}

\* Fault: candidates are taken in order of acceptance whatever their price.
Before_TimeOnly(c, d, book) == book[c].ordinal < book[d].ordinal

\* ORDER BY price, acceptance_ordinal, id.
Before(c, d, book) ==
    \/ book[c].side = "ASK" /\ book[c].price < book[d].price
    \/ book[c].side = "BID" /\ book[c].price > book[d].price
    \/ /\ book[c].price = book[d].price
       /\ \/ book[c].ordinal < book[d].ordinal
          \/ book[c].ordinal = book[d].ordinal /\ c < d

\* The first MaxCrossing candidates, which are all the loop looks at.
Considered(book, a, now) ==
    {c \in Crossing(book, a, now) :
        Cardinality({d \in Crossing(book, a, now) : Before(d, c, book)}) < MaxCrossing}

\* More candidates than the cap, and those within it leave a remainder: the
\* whole transaction is refused with 409.
FanOutExceeded(book, a, now) ==
    /\ Cardinality(Crossing(book, a, now)) > MaxCrossing
    /\ Total([c \in Considered(book, a, now) \intersect Fillable(book, a, now)
              |-> book[c].rem]) < book[a].rem

\* Bound: the match must not need more trade rows than the model has.
RoomForTrades(book, a, now) ==
    Cardinality(Fillable(book, a, now)) <= Cardinality({t \in Trades : trade[t].status = "ABSENT"})

\* match_order up to the fill loop, for row as order o's row: an order whose
\* expiry has passed becomes EXPIRED and is not matched.
ExpiresOnEntry(row, now) == AutoMatching /\ row.rem > 0 /\ HasExpired(row, now)

SubmitForMatching(o, row, now) ==
    LET entered == IF ExpiresOnEntry(row, now) THEN [row EXCEPT !.status = "EXPIRED"] ELSE row
        book == [order EXCEPT ![o] = entered]
        matches == AutoMatching /\ row.rem > 0 /\ ~HasExpired(row, now)
    IN  /\ matches => ~FanOutExceeded(book, o, now) /\ RoomForTrades(book, o, now)
        /\ order' = book
        /\ aggressor' = IF matches THEN o ELSE NoOrder
        /\ stranded' = [stranded EXCEPT
                           ![o] = IF ExpiresOnEntry(row, now) /\ row.item # NoItem
                                  THEN row.rem ELSE @]

FillQuantity(a, c) == Least(order[a].rem, order[c].rem)

\* One iteration of the fill loop: the best fillable candidate c trades with
\* the aggressor at c's price, and the item behind the ask is consumed.
MatchFill(t) ==
    /\ aggressor # NoOrder
    /\ order[aggressor].rem > 0
    /\ FreshTrade(t)
    /\ \E c \in Fillable(order, aggressor, clock) :
        LET a == aggressor
            q == FillQuantity(a, c)
            bid == IF order[a].side = "BID" THEN a ELSE c
            ask == IF order[a].side = "BID" THEN c ELSE a
            i == order[ask].item
            Fill(row) == [row EXCEPT !.rem = @ - q, !.status = FilledStatus(row.rem - q)]
        IN  /\ \A d \in Fillable(order, a, clock) : d # c => Before(c, d, order)
            /\ i # NoItem => item[i].status = "PRESENT" /\ item[i].reserved >= q
            /\ item' = IF i = NoItem THEN item ELSE [item EXCEPT ![i] = Consume(@, q)]
            /\ order' = [order EXCEPT ![a] = Fill(@), ![c] = Fill(@)]
            /\ trade' = [trade EXCEPT ![t] =
                   [bid |-> bid, ask |-> ask, buyer |-> order[bid].org, seller |-> order[ask].org,
                    initiator |-> order[a].side, qty |-> q, price |-> order[c].price,
                    final |-> 0, status |-> "CONFIRMED"]]
    /\ UNCHANGED <<admission, ordinal, clock, aggressor, history>>

\* Fault: the transaction never lets go of the slice.
MatchDone_KeepsLock ==
    /\ aggressor # NoOrder
    /\ order[aggressor].rem = 0 \/ Fillable(order, aggressor, clock) = {}
    /\ UNCHANGED vars

\* The loop ends and the caller commits.
MatchDone ==
    /\ aggressor # NoOrder
    /\ order[aggressor].rem = 0 \/ Fillable(order, aggressor, clock) = {}
    /\ aggressor' = NoOrder
    /\ UNCHANGED <<market, admission, ordinal, clock, history>>

-----------------------------------------------------------------------------
(* Orders *)

\* create_order: the expiry is checked again under the slice lock, and
\* match_order reads the clock once more.
CreateOrder(o, g, side, cert, q, price, expires, now) ==
    /\ aggressor = NoOrder
    /\ FreshOrder(o)
    /\ ordinal < MaxOrdinal
    /\ Eligible(g, side)
    /\ q >= MinLot
    /\ expires = NoExpiry \/ expires > clock
    /\ ordinal' = NextOrdinal
    /\ clock' = now
    /\ SubmitForMatching(o, [org |-> g, side |-> side, item |-> NoItem, cert |-> cert,
                             qty |-> q, rem |-> q, price |-> price, ordinal |-> NextOrdinal,
                             expires |-> expires, status |-> "OPEN"], now)
    /\ UNCHANGED <<trade, item, admission, loaded>>

\* The remaining quantity after the total is amended to qty.
RemainingAfter(row, qty) == qty - (row.qty - row.rem)

\* _amendment_loses_priority
LosesPriority(row, new) ==
    \/ new.price # row.price
    \/ new.qty > row.qty
    \/ row.expires # NoExpiry /\ (new.expires = NoExpiry \/ new.expires > row.expires)
    \/ new.cert # row.cert

\* The row with the requested fields set.  In a request, qty 0, price 0,
\* expires -1 and KeepCert leave the field alone, expires 0 clears it.
Amended(row, req) ==
    LET qty == IF req.qty = 0 THEN row.qty ELSE req.qty
        rem == RemainingAfter(row, qty)
    IN  [row EXCEPT !.qty = qty, !.rem = rem,
                    !.price = IF req.price = 0 THEN @ ELSE req.price,
                    !.expires = IF req.expires = -1 THEN @ ELSE req.expires,
                    !.cert = IF req.cert = KeepCert THEN @ ELSE req.cert,
                    !.status = IF rem = 0 THEN "FILLED" ELSE @]

\* update_order.  The requested expiry was compared with the clock before the
\* slice lock, up to MaxDelay ago.
UpdateOrder(o, req, now) ==
    LET row == order[o]
        terms == Amended(row, req)
        delta == terms.rem - row.rem
        demoted == LosesPriority(row, terms)
    IN  /\ aggressor = NoOrder
        /\ row.status \in Live
        /\ ~HasExpired(row, clock)
        /\ Eligible(row.org, row.side)
        /\ req.expires > 0 => req.expires > clock - MaxDelay
        /\ req.cert = AnyCert => row.side = "BID"
        /\ terms.rem >= 0
        /\ req.qty > 0 => req.qty >= MinLot
        /\ demoted => ordinal < MaxOrdinal
        /\ ordinal' = IF demoted THEN NextOrdinal ELSE ordinal
        /\ IF row.item = NoItem THEN item' = item
           ELSE /\ delta > 0 => item[row.item].current >= delta
                /\ delta < 0 => item[row.item].reserved >= -delta
                /\ item' = [item EXCEPT ![row.item] = Reserve(@, delta)]
        /\ clock' = now
        /\ SubmitForMatching(o, [terms EXCEPT !.ordinal = IF demoted THEN NextOrdinal ELSE @], now)
        /\ UNCHANGED <<trade, admission, loaded>>

\* cancel_order: no expiry check, but the owner must still be eligible.
CancelOrder(o) ==
    LET row == order[o]
    IN  /\ aggressor = NoOrder
        /\ row.status \in Live
        /\ Eligible(row.org, row.side)
        /\ CanRelease(OnItem(row.item, row.rem))
        /\ item' = ReleaseAll(OnItem(row.item, row.rem))
        /\ order' = [order EXCEPT ![o].status = "CANCELLED"]
        /\ UNCHANGED <<trade, admission, ordinal, clock, aggressor, history>>

-----------------------------------------------------------------------------
(* Inventory *)

\* What releasing rem of every order of E returns to each item.
ReleasedBy(E, rem) ==
    [i \in Items |-> Total([o \in {p \in E : order[p].item = i} |-> rem[o]])]

AddInventory(i, q) ==
    /\ aggressor = NoOrder
    /\ item[i].status = "ABSENT"
    /\ Eligible(OwnerOf[i], "ASK")
    /\ item' = [item EXCEPT ![i] = [status |-> "PRESENT", current |-> q, reserved |-> 0]]
    /\ loaded' = [loaded EXCEPT ![i] = @ + q]
    /\ UNCHANGED <<order, trade, admission, ordinal, clock, aggressor, stranded>>

\* assert_inventory_mutable
ListingsOf(i) == {o \in Orders : order[o].item = i}
Mutable(i) ==
    /\ item[i].reserved = 0
    /\ \A o \in ListingsOf(i) : order[o].status \notin Live
    /\ \A t \in Trades : {trade[t].bid, trade[t].ask} \intersect ListingsOf(i) # {}
                            => trade[t].status \notin {"PENDING", "CONFIRMED", "DELIVERED"}

UpdateInventory(i, q) ==
    /\ aggressor = NoOrder
    /\ item[i].status = "PRESENT"
    /\ Eligible(OwnerOf[i], "ASK")
    /\ Mutable(i)
    /\ item' = [item EXCEPT ![i].current = q]
    /\ loaded' = [loaded EXCEPT ![i] = @ + q - item[i].current]
    /\ UNCHANGED <<order, trade, admission, ordinal, clock, aggressor, stranded>>

DeleteInventory(i) ==
    /\ aggressor = NoOrder
    /\ item[i].status = "PRESENT"
    /\ Eligible(OwnerOf[i], "ASK")
    /\ Mutable(i)
    /\ ListingsOf(i) = {}
    /\ item' = [item EXCEPT ![i] = AbsentItem]
    /\ loaded' = [loaded EXCEPT ![i] = @ - item[i].current]
    /\ UNCHANGED <<order, trade, admission, ordinal, clock, aggressor, stranded>>

\* publish_inventory_item, after expire_market_slice_orders: E is the bounded
\* batch of expired asks of the slice that it expires (their UUID order is
\* arbitrary), and their reservations return to stock.  A listing that is
\* still live and unexpired replays the earlier publication and changes
\* nothing.
PublishInventory(o, i, cert, price, E) ==
    LET overdue == {p \in Orders : /\ order[p].status \in Live /\ order[p].side = "ASK"
                                   /\ HasExpired(order[p], clock)}
        released == ReleasedBy(E, [p \in Orders |-> order[p].rem])
        q == item[i].current + released[i]
    IN  /\ aggressor = NoOrder
        /\ item[i].status = "PRESENT"
        /\ Eligible(OwnerOf[i], "ASK")
        /\ \A p \in ListingsOf(i) : order[p].status \in Live => p \in E
        /\ E \subseteq overdue
        /\ Cardinality(E) = Least(MaxExpiry, Cardinality(overdue))
        /\ CanRelease(released)
        /\ q >= MinLot
        /\ q <= MaxQty
        /\ FreshOrder(o)
        /\ ordinal < MaxOrdinal
        /\ ordinal' = NextOrdinal
        /\ LET listing == [org |-> OwnerOf[i], side |-> "ASK", item |-> i, cert |-> cert,
                           qty |-> q, rem |-> q, price |-> price, ordinal |-> NextOrdinal,
                           expires |-> NoExpiry, status |-> "OPEN"]
               book == [p \in Orders |-> IF p = o THEN listing
                                         ELSE IF p \in E THEN [order[p] EXCEPT !.status = "EXPIRED"]
                                         ELSE order[p]]
           IN  /\ AutoMatching => ~FanOutExceeded(book, o, clock) /\ RoomForTrades(book, o, clock)
               /\ order' = book
               /\ aggressor' = IF AutoMatching THEN o ELSE NoOrder
        /\ item' = [ReleaseAll(released) EXCEPT ![i] = Reserve(@, q)]
        /\ UNCHANGED <<trade, admission, clock, history>>

-----------------------------------------------------------------------------
(* Direct trades *)

LinkedOrder(t) == IF trade[t].ask # NoOrder THEN trade[t].ask ELSE trade[t].bid
Party(t, side) == IF side = "BID" THEN trade[t].buyer ELSE trade[t].seller

\* Fault: a party's organization is looked at, its user is not.
PartiesEligible_OrgOnly(t) == {trade[t].buyer, trade[t].seller} \subseteq approved
\* _revalidate_trade_parties
PartiesEligible(t) == Eligible(trade[t].buyer, "BID") /\ Eligible(trade[t].seller, "ASK")

AwaitsAnswer(t) == trade[t].status = "PENDING"

\* create_trade: principal <<g, Opposite(side)>> hits order o.
CreateTrade(t, o, g, q) ==
    LET row == order[o]
        mine == Opposite(row.side)
    IN  /\ aggressor = NoOrder
        /\ FreshTrade(t)
        /\ Eligible(g, mine)
        /\ Eligible(row.org, row.side)
        /\ row.status \in Live
        /\ ~HasExpired(row, clock)
        /\ g # row.org
        /\ q <= row.rem
        /\ trade' = [trade EXCEPT ![t] =
               [bid |-> IF row.side = "BID" THEN o ELSE NoOrder,
                ask |-> IF row.side = "ASK" THEN o ELSE NoOrder,
                buyer |-> IF mine = "BID" THEN g ELSE row.org,
                seller |-> IF mine = "ASK" THEN g ELSE row.org,
                initiator |-> mine, qty |-> q, price |-> row.price, final |-> 0,
                status |-> "PENDING"]]
        /\ order' = [order EXCEPT ![o].rem = @ - q,
                                  ![o].status = FilledStatus(row.rem - q)]
        /\ UNCHANGED <<item, admission, ordinal, clock, aggressor, history>>

\* confirm_trade by the counterparty of the initiator.
ConfirmTrade(t) ==
    LET i == order[LinkedOrder(t)].item
    IN  /\ aggressor = NoOrder
        /\ AwaitsAnswer(t)
        /\ PartiesEligible(t)
        /\ i # NoItem => item[i].status = "PRESENT" /\ item[i].reserved >= trade[t].qty
        /\ trade' = [trade EXCEPT ![t].status = "CONFIRMED"]
        /\ item' = IF i = NoItem THEN item ELSE [item EXCEPT ![i] = Consume(@, trade[t].qty)]
        /\ UNCHANGED <<order, admission, ordinal, clock, aggressor, history>>

\* decline_trade by the counterparty, who need not be eligible any more.
DeclineTrade(t) ==
    LET o == LinkedOrder(t)
        row == order[o]
        q == trade[t].qty
        back == row.rem + q
        withdrawn == IsWithdrawn(row)
        late == ~withdrawn /\ HasExpired(row, clock)
        released == IF withdrawn THEN q ELSE IF late THEN back ELSE 0
    IN  /\ aggressor = NoOrder
        /\ AwaitsAnswer(t)
        /\ CanRelease(OnItem(row.item, released))
        /\ trade' = [trade EXCEPT ![t].status = "DECLINED"]
        /\ item' = ReleaseAll(OnItem(row.item, released))
        /\ order' = IF withdrawn THEN order
                    ELSE [order EXCEPT ![o].rem = back,
                                       ![o].status = IF late THEN "EXPIRED"
                                                     ELSE StatusFor(row.qty, back)]
        /\ UNCHANGED <<admission, ordinal, clock, aggressor, history>>

\* deliver_trade by either party, with the quantity actually delivered.
DeliverTrade(t, q) ==
    /\ aggressor = NoOrder
    /\ trade[t].status = "CONFIRMED"
    /\ PartiesEligible(t)
    /\ q <= trade[t].qty
    /\ trade' = [trade EXCEPT ![t].status = "DELIVERED", ![t].final = q]
    /\ UNCHANGED <<order, item, admission, ordinal, clock, aggressor, history>>

\* pay_trade by the seller.
PayTrade(t) ==
    /\ aggressor = NoOrder
    /\ trade[t].status = "DELIVERED"
    /\ PartiesEligible(t)
    /\ trade' = [trade EXCEPT ![t].status = "PAID"]
    /\ UNCHANGED <<order, item, admission, ordinal, clock, aggressor, history>>

-----------------------------------------------------------------------------
(* Admission *)

\* reject_user: orders and trades stay as they are.
RejectUser(p) ==
    /\ aggressor = NoOrder
    /\ p \in admitted
    /\ admitted' = admitted \ {p}
    /\ UNCHANGED <<market, approved, ordinal, clock, aggressor, history>>

\* approve_user, or any other route back to an eligible user.
AdmitUser(p) ==
    /\ aggressor = NoOrder
    /\ p \notin admitted
    /\ admitted' = admitted \union {p}
    /\ UNCHANGED <<market, approved, ordinal, clock, aggressor, history>>

ApproveOrganization(g) ==
    /\ aggressor = NoOrder
    /\ g \notin approved
    /\ approved' = approved \union {g}
    /\ UNCHANGED <<market, admitted, ordinal, clock, aggressor, history>>

\* What the cancelled trades give back to order o.
RestoredTo(o, cancelled) ==
    Total([t \in {u \in cancelled : LinkedOrder(u) = o} |-> trade[t].qty])

\* reject_organization with invalidate_organization_market_access: pending
\* trades of g are cancelled, their quantity goes back to the linked orders,
\* g's live orders are cancelled, and what is no longer executable is released.
RejectOrganization(g) ==
    LET doomed == {t \in Trades : trade[t].status = "PENDING" /\ g \in {trade[t].buyer, trade[t].seller}}
        owned == {o \in Orders : order[o].status \in Live /\ order[o].org = g}
        linked == {LinkedOrder(t) : t \in doomed}
        restored == [o \in Orders |-> RestoredTo(o, doomed)]
        back == [o \in Orders |-> order[o].rem + restored[o]]
        after == [o \in Orders |->
                    IF o \notin owned \union linked \/ order[o].status \in Withdrawn THEN order[o].status
                    ELSE IF order[o].org = g THEN "CANCELLED"
                    ELSE IF HasExpired(order[o], clock) THEN "EXPIRED"
                    ELSE StatusFor(order[o].qty, back[o])]
        released == [o \in Orders |->
                       IF order[o].status \in Withdrawn THEN restored[o]
                       ELSE IF after[o] \in Withdrawn THEN back[o] ELSE 0]
        returned == ReleasedBy(owned \union linked, released)
    IN  /\ aggressor = NoOrder
        /\ g \in approved
        /\ Cardinality(doomed) <= MaxInvalidation
        /\ Cardinality(owned) <= MaxInvalidation
        /\ \A o \in linked : back[o] <= order[o].qty
        /\ CanRelease(returned)
        /\ trade' = [t \in Trades |-> IF t \in doomed THEN [trade[t] EXCEPT !.status = "CANCELLED"]
                                      ELSE trade[t]]
        /\ order' = [o \in Orders |-> [order[o] EXCEPT !.rem = back[o], !.status = after[o]]]
        /\ item' = ReleaseAll(returned)
        /\ approved' = approved \ {g}
        /\ admitted' = admitted \ ({g} \X Sides)
        /\ UNCHANGED <<ordinal, clock, aggressor, history>>

-----------------------------------------------------------------------------

Tick ==
    /\ aggressor = NoOrder
    /\ clock < MaxClock
    /\ clock' = clock + 1
    /\ UNCHANGED <<market, admission, ordinal, aggressor, history>>

\* A request that fails a check, or only reads, leaves no trace: the session
\* is rolled back.
Refused ==
    /\ aggressor = NoOrder
    /\ UNCHANGED vars

\* A handler's second clock reading.
Later == {n \in clock .. (clock + MaxDelay) : n <= MaxClock}

Book ==
    \/ \E o \in Orders, g \in Bidders, cert \in BidCerts, q \in Sizes,
          price \in Prices, expires \in Expiries, now \in Later :
            CreateOrder(o, g, "BID", cert, q, price, expires, now)
    \/ \E o \in Orders, g \in Askers, cert \in Certs, q \in Sizes,
          price \in Prices, expires \in Expiries, now \in Later :
            CreateOrder(o, g, "ASK", cert, q, price, expires, now)
    \/ \E o \in Orders, req \in Amendments, now \in Later : UpdateOrder(o, req, now)
    \/ \E o \in Orders : CancelOrder(o)
    \/ \E t \in Trades : MatchFill(t)
    \/ MatchDone

Inventory ==
    \/ \E i \in Items, q \in StockLevels : AddInventory(i, q) \/ UpdateInventory(i, q)
    \/ \E i \in Items : DeleteInventory(i)
    \/ \E o \in Orders, i \in Items, cert \in Certs, price \in Prices, E \in SUBSET Orders :
            PublishInventory(o, i, cert, price, E)

Trading ==
    \/ \E t \in Trades, o \in Orders, g \in Hitters, q \in Sizes : CreateTrade(t, o, g, q)
    \/ \E t \in Trades : ConfirmTrade(t) \/ DeclineTrade(t) \/ PayTrade(t)
    \/ \E t \in Trades, q \in Deliveries : DeliverTrade(t, q)

Administration ==
    \/ \E p \in RevocableUsers : RejectUser(p) \/ AdmitUser(p)
    \/ \E g \in RevocableOrgs : RejectOrganization(g) \/ ApproveOrganization(g)

Next == Book \/ Inventory \/ Trading \/ Administration \/ Tick \/ Refused

Spec == Init /\ [][Next]_vars

\* A transaction inside match_order runs on: the loop has no await that
\* depends on another market transaction of the slice.
MatchStep == MatchDone \/ \E t \in Trades : MatchFill(t)
FairSpec == Spec /\ WF_vars(MatchStep)

-----------------------------------------------------------------------------
(* Properties *)

\* Every row has the shape of its table.
TypeOK ==
    /\ order \in [Orders -> OrderRow]
    /\ trade \in [Trades -> TradeRow]
    /\ item \in [Items -> ItemRow]
    /\ admitted \subseteq Principals
    /\ approved \subseteq Orgs
    /\ ordinal \in Nat
    /\ clock \in Nat
    /\ aggressor \in Orders \union {NoOrder}
    /\ loaded \in [Items -> Int]
    /\ stranded \in [Orders -> Nat]

\* A trade row names the order it was made on.
TradesLinked == \A t \in Trades : trade[t].status # "ABSENT" => LinkedOrder(t) \in Orders

\* What each kind of commitment holds of item i's stock.
ListedOf(i) == Total([o \in {p \in ListingsOf(i) : order[p].status \in Live} |-> order[o].rem])
TradesOn(i, statuses) ==
    {t \in Trades : trade[t].status \in statuses /\ LinkedOrder(t) \in ListingsOf(i)}
PendingOn(i) == Total([t \in TradesOn(i, {"PENDING"}) |-> trade[t].qty])
SoldOf(i) == Total([t \in TradesOn(i, {"CONFIRMED", "DELIVERED", "PAID"}) |-> trade[t].qty])
StrandedOf(i) == Total([o \in ListingsOf(i) |-> stranded[o]])

\* The reservation ledger: what an item has reserved is exactly what its live
\* listings still offer, what pending direct trades hold, and what an expiry
\* inside match_order left behind, through amendments, fills, declines,
\* cancellations, expiries and organization rejections in any order.
ReservationLedger ==
    \A i \in Items : item[i].reserved = ListedOf(i) + PendingOn(i) + StrandedOf(i)

\* No stock is sold twice or lost: free stock, reserved stock and sold
\* quantity always add up to the stock the supplier entered.
StockConservation ==
    \A i \in Items : item[i].current + item[i].reserved + SoldOf(i) = loaded[i]

\* The filled part of an order is the sum of its trades that were not
\* declined or cancelled; for a withdrawn order declined quantity may stay
\* counted as filled, but an order never has more trades than filled quantity.
FilledByTrades ==
    \A o \in Orders :
        LET booked == Total([t \in {u \in Trades : /\ o \in {trade[u].bid, trade[u].ask}
                                                 /\ trade[u].status \notin {"ABSENT", "DECLINED", "CANCELLED"}}
                             |-> trade[t].qty])
        IN  /\ order[o].status \in Live \union {"FILLED"} => booked = order[o].qty - order[o].rem
            /\ order[o].status \in Withdrawn => booked <= order[o].qty - order[o].rem

\* The ORDER_LIFECYCLE check constraint is never the thing that stops a
\* handler: every row it would write satisfies it.
OrderLifecycle ==
    \A o \in Orders :
        LET row == order[o]
        IN  /\ row.rem <= row.qty
            /\ row.status = "OPEN" => row.rem = row.qty
            /\ row.status = "PARTIALLY_FILLED" => row.rem > 0 /\ row.rem < row.qty
            /\ row.status = "FILLED" => row.rem = 0

\* The book and the stock balance after every handler: reservations, free stock, filled
\* quantities and order rows agree with each other and with the trades.
LedgerBalances == ReservationLedger /\ StockConservation /\ FilledByTrades /\ OrderLifecycle

\* Declining a trade, rejecting an organization or amending never turns a
\* cancelled or expired order into live liquidity.
NeverRevived ==
    [][\A o \in Orders : order[o].status \in Withdrawn => order'[o].status = order[o].status]_vars

\* A trade becomes binding only between two different organizations that are
\* both approved and whose acting users are both eligible at that moment.
BindingOnlyBetweenEligible ==
    [][\A t \in Trades : trade[t].status # "CONFIRMED" /\ trade'[t].status = "CONFIRMED" =>
        /\ trade'[t].buyer # trade'[t].seller
        /\ {trade'[t].buyer, trade'[t].seller} \subseteq approved
        /\ {<<trade'[t].buyer, "BID">>, <<trade'[t].seller, "ASK">>} \subseteq admitted]_vars

\* Price-time priority: when a resting order is filled by the engine, no other
\* order that could have been filled instead is ahead of it in the queue, and
\* the price lies within both limits.
NoTradeThrough ==
    [][\A t \in Trades : trade[t].status = "ABSENT" /\ trade'[t].status = "CONFIRMED" =>
        LET bid == trade'[t].bid
            ask == trade'[t].ask
            rest == IF trade'[t].initiator = "BID" THEN ask ELSE bid
            taker == IF trade'[t].initiator = "BID" THEN bid ELSE ask
            Rival(d) == /\ order[d].status \in Live
                        /\ order[d].side = order[rest].side
                        /\ order[d].org \notin {order[taker].org, order[rest].org}
                        /\ ~HasExpired(order[d], clock)
                        /\ Eligible(order[d].org, order[d].side)
                        /\ Compatible(order[taker], order[d])
        IN  /\ order[ask].price <= trade'[t].price /\ trade'[t].price <= order[bid].price
            /\ \A d \in Orders : Rival(d) =>
                   \/ IF order[rest].side = "ASK" THEN order[rest].price < order[d].price
                                                 ELSE order[rest].price > order[d].price
                   \/ order[rest].price = order[d].price /\ order[rest].ordinal < order[d].ordinal]_vars

\* Every match comes to an end and its transaction commits.
MatchTerminates == (aggressor # NoOrder) ~> (aggressor = NoOrder)

\* "Expire one exact slice and release every remaining reservation": no
\* reservation outlives the orders and trades it was made for.
ReservationsBacked == \A i \in Items : item[i].reserved = ListedOf(i) + PendingOn(i)
=============================================================================
