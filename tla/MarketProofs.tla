---------------------------- MODULE MarketProofs ----------------------------
(* Theorems about Market, for every value of its constants. *)
EXTENDS Market, FiniteSetTheorems, TLAPS

\* A sum over orders or over trades is a natural number.
LEMMA TotalType ==
    ASSUME NEW S, IsFiniteSet(S), NEW f, DOMAIN f = S
    PROVE  Total(f) \in Nat
<1>1. IsFiniteSet(1 .. MaxQty)
  BY MarketConstants, FS_Interval
<1>2. IsFiniteSet(S \X (1 .. MaxQty))
  BY <1>1, FS_Product
<1>3. Units(f) \subseteq S \X (1 .. MaxQty)
  BY DEF Units
<1>4. IsFiniteSet(Units(f))
  BY <1>2, <1>3, FS_Subset
<1> QED
  BY <1>4, FS_CardinalityType DEF Total

LEMMA RowsFinite == IsFiniteSet(Orders) /\ IsFiniteSet(Trades)
  BY MarketConstants, FS_Interval DEF Orders, Trades

\* A release of at most what is reserved keeps every item row well formed.
LEMMA ReleaseAllType ==
    ASSUME item \in [Items -> ItemRow], NEW q \in [Items -> Nat], CanRelease(q)
    PROVE  ReleaseAll(q) \in [Items -> ItemRow]
<1> SUFFICES ASSUME NEW i \in Items PROVE Release(item[i], q[i]) \in ItemRow
  BY DEF ReleaseAll
<1>1. item[i].reserved >= q[i]
  BY DEF CanRelease, ItemRow
<1>2. item[i] \in ItemRow /\ q[i] \in Nat
  OBVIOUS
<1>3. /\ item[i].current + q[i] \in Nat
      /\ item[i].reserved - q[i] \in Nat
  BY <1>1, <1>2 DEF ItemRow
<1> QED
  BY <1>2, <1>3 DEF Release, ItemRow

LEMMA ConsumeType ==
    ASSUME NEW row \in ItemRow, NEW q \in Nat, row.reserved >= q
    PROVE  Consume(row, q) \in ItemRow
<1>1. row.reserved - q \in Nat
  BY DEF ItemRow
<1> QED
  BY <1>1 DEF Consume, ItemRow

LEMMA ReserveType ==
    ASSUME NEW row \in ItemRow, NEW q \in Int, row.current >= q, row.reserved >= -q
    PROVE  Reserve(row, q) \in ItemRow
<1>1. row.current - q \in Nat /\ row.reserved + q \in Nat
  BY DEF ItemRow
<1> QED
  BY <1>1 DEF Reserve, ItemRow

LEMMA OnItemType ==
    ASSUME NEW i \in Items \union {NoItem}, NEW q \in Nat
    PROVE  OnItem(i, q) \in [Items -> Nat]
  BY DEF OnItem, Nothing

LEMMA ReleasedByType ==
    ASSUME NEW E, E \subseteq Orders, NEW rem
    PROVE  ReleasedBy(E, rem) \in [Items -> Nat]
<1> SUFFICES ASSUME NEW i \in Items
             PROVE  Total([o \in {p \in E : order[p].item = i} |-> rem[o]]) \in Nat
  BY DEF ReleasedBy
<1>1. IsFiniteSet({p \in E : order[p].item = i})
  BY RowsFinite, FS_Subset
<1> QED
  BY <1>1, TotalType

\* The typing invariant needs the order a trade was made on, because declining
\* or confirming a trade updates that order's row and its item.
WellFormed == TypeOK /\ TradesLinked

LEMMA WellFormedInit == Init => WellFormed
<1> SUFFICES ASSUME Init PROVE WellFormed
  OBVIOUS
<1>1. AbsentOrder \in OrderRow
  BY DEF AbsentOrder, OrderRow, Sides, NoExpiry
<1>2. AbsentTrade \in TradeRow
  BY DEF AbsentTrade, TradeRow, Sides, NoOrder
<1>3. AbsentItem \in ItemRow
  BY DEF AbsentItem, ItemRow
<1>4. TypeOK
  BY <1>1, <1>2, <1>3 DEF Init, TypeOK
<1>5. TradesLinked
  BY DEF Init, TradesLinked, AbsentTrade
<1> QED
  BY <1>4, <1>5 DEF WellFormed

\* What match_order's entry does to the order row, for any row it is given.
LEMMA SubmitType ==
    ASSUME WellFormed, NEW o \in Orders, NEW row \in OrderRow, NEW now,
           SubmitForMatching(o, row, now)
    PROVE  /\ order' \in [Orders -> OrderRow]
           /\ aggressor' \in Orders \union {NoOrder}
           /\ stranded' \in [Orders -> Nat]
<1>1. [row EXCEPT !.status = "EXPIRED"] \in OrderRow
  BY DEF OrderRow, OrderStatuses, Withdrawn
<1>2. row.rem \in Nat
  BY DEF OrderRow
<1> QED
  BY <1>1, <1>2 DEF SubmitForMatching, WellFormed, TypeOK

LEMMA CreateOrderType ==
    ASSUME WellFormed, NEW o, NEW g \in Orgs, NEW side \in Sides,
           NEW cert \in Certs \union {AnyCert}, NEW q \in Nat, NEW price \in Nat,
           NEW expires \in Nat, NEW now \in Nat,
           CreateOrder(o, g, side, cert, q, price, expires, now)
    PROVE  WellFormed'
<1> DEFINE row == [org |-> g, side |-> side, item |-> NoItem, cert |-> cert,
                   qty |-> q, rem |-> q, price |-> price, ordinal |-> NextOrdinal,
                   expires |-> expires, status |-> "OPEN"]
<1>1. row \in OrderRow
  BY DEF OrderRow, OrderStatuses, Live, WellFormed, TypeOK, NextOrdinal
<1>2. o \in Orders
  BY DEF CreateOrder, FreshOrder
<1>3. SubmitForMatching(o, row, now)
  BY DEF CreateOrder
<1> HIDE DEF row
<1>4. /\ order' \in [Orders -> OrderRow]
      /\ aggressor' \in Orders \union {NoOrder}
      /\ stranded' \in [Orders -> Nat]
  BY <1>1, <1>2, <1>3, SubmitType
<1> QED
  BY <1>4 DEF CreateOrder, WellFormed, TypeOK, TradesLinked, LinkedOrder, admission, NextOrdinal

LEMMA AmendedType ==
    ASSUME NEW row \in OrderRow, NEW req \in Amendments
    PROVE  /\ Amended(row, req).rem \in Int
           /\ Amended(row, req).rem >= 0 => Amended(row, req) \in OrderRow
           /\ Amended(row, req).status \in {row.status, "FILLED"}
<1> DEFINE qty == IF req.qty = 0 THEN row.qty ELSE req.qty
           rem == RemainingAfter(row, qty)
           price == IF req.price = 0 THEN row.price ELSE req.price
           expires == IF req.expires = -1 THEN row.expires ELSE req.expires
           cert == IF req.cert = KeepCert THEN row.cert ELSE req.cert
           status == IF rem = 0 THEN "FILLED" ELSE row.status
<1>1. Amended(row, req) = [row EXCEPT !.qty = qty, !.rem = rem, !.price = price,
                                      !.expires = expires, !.cert = cert, !.status = status]
  BY DEF Amended
<1>2. req \in [qty : 0 .. MaxQty, price : Nat, expires : Nat \union {-1},
               cert : Certs \union {AnyCert, KeepCert}]
  BY MarketConstants
<1>3. qty \in Nat /\ rem \in Int
  BY <1>2, MarketConstants DEF OrderRow, RemainingAfter
<1>4. /\ price \in Nat
      /\ expires \in Nat
      /\ cert \in Certs \union {AnyCert}
      /\ status \in OrderStatuses \union {"ABSENT"}
      /\ status \in {row.status, "FILLED"}
  BY <1>2 DEF OrderRow, OrderStatuses
<1> HIDE DEF rem, qty, price, expires, cert, status
<1>5. Amended(row, req).rem = rem /\ Amended(row, req).status = status
  BY <1>1 DEF OrderRow
<1>6. rem >= 0 => rem \in Nat
  BY <1>3
<1>7. rem >= 0 => Amended(row, req) \in OrderRow
  BY <1>1, <1>3, <1>4, <1>6 DEF OrderRow
<1> QED BY <1>3, <1>4, <1>5, <1>7

LEMMA UpdateOrderType ==
    ASSUME WellFormed, NEW o \in Orders, NEW req \in Amendments, NEW now \in Nat,
           UpdateOrder(o, req, now)
    PROVE  WellFormed'
<1> DEFINE row == order[o]
           terms == Amended(row, req)
           delta == terms.rem - row.rem
           demoted == LosesPriority(row, terms)
           entry == [terms EXCEPT !.ordinal = IF demoted THEN NextOrdinal ELSE @]
<1>1. row \in OrderRow /\ row.rem \in Nat
  BY DEF WellFormed, TypeOK, OrderRow
<1>2. terms.rem >= 0
  BY DEF UpdateOrder
<1>3. delta \in Int
  BY <1>1, AmendedType
<1>6. terms \in OrderRow
  BY <1>1, <1>2, AmendedType
<1>7. NextOrdinal \in Nat
  BY DEF WellFormed, TypeOK, NextOrdinal
<1>8. entry \in OrderRow
  <2> HIDE DEF terms, demoted
  <2> QED BY <1>6, <1>7 DEF OrderRow
<1>9. /\ SubmitForMatching(o, entry, now)
      /\ ordinal' = IF demoted THEN NextOrdinal ELSE ordinal
      /\ clock' = now
      /\ UNCHANGED <<trade, admission, loaded>>
  BY DEF UpdateOrder
<1>10. item' \in [Items -> ItemRow]
  <2>1. CASE row.item = NoItem
    BY <2>1 DEF UpdateOrder, WellFormed, TypeOK
  <2>2. CASE row.item # NoItem
    <3>1. row.item \in Items /\ item[row.item] \in ItemRow
      BY <1>1, <2>2 DEF OrderRow, WellFormed, TypeOK
    <3>2. /\ delta > 0 => item[row.item].current >= delta
          /\ delta < 0 => item[row.item].reserved >= -delta
          /\ item' = [item EXCEPT ![row.item] = Reserve(@, delta)]
      BY <2>2 DEF UpdateOrder
    <3> HIDE DEF delta, row
    <3>3. item[row.item].current >= delta /\ item[row.item].reserved >= -delta
      BY <1>3, <3>1, <3>2 DEF ItemRow
    <3>4. Reserve(item[row.item], delta) \in ItemRow
      BY <1>3, <3>1, <3>3, ReserveType
    <3> QED BY <3>1, <3>2, <3>4 DEF WellFormed, TypeOK
  <2> QED BY <2>1, <2>2
<1> HIDE DEF entry, demoted
<1>11. /\ order' \in [Orders -> OrderRow]
       /\ aggressor' \in Orders \union {NoOrder}
       /\ stranded' \in [Orders -> Nat]
  BY <1>8, <1>9, SubmitType
<1> QED
  BY <1>7, <1>9, <1>10, <1>11 DEF WellFormed, TypeOK, TradesLinked, LinkedOrder, admission

LEMMA CancelOrderType ==
    ASSUME WellFormed, NEW o \in Orders, CancelOrder(o)
    PROVE  WellFormed'
<1>1. order[o] \in OrderRow
  BY DEF WellFormed, TypeOK
<1>2. order[o].item \in Items \union {NoItem} /\ order[o].rem \in Nat
  BY <1>1 DEF OrderRow
<1>3. OnItem(order[o].item, order[o].rem) \in [Items -> Nat]
  BY <1>2, OnItemType
<1>4. item' \in [Items -> ItemRow]
  BY <1>3, ReleaseAllType DEF CancelOrder, WellFormed, TypeOK
<1>5. [order[o] EXCEPT !.status = "CANCELLED"] \in OrderRow
  BY <1>1 DEF OrderRow, OrderStatuses, Withdrawn
<1>6. order' \in [Orders -> OrderRow]
  BY <1>5 DEF CancelOrder, WellFormed, TypeOK
<1> QED
  BY <1>4, <1>6 DEF CancelOrder, WellFormed, TypeOK, TradesLinked, LinkedOrder, admission, history

LEMMA MatchFillType ==
    ASSUME WellFormed, NEW t \in Trades, MatchFill(t)
    PROVE  WellFormed'
<1> DEFINE a == aggressor
<1>1. PICK c \in Fillable(order, a, clock) :
        LET q == FillQuantity(a, c)
            bid == IF order[a].side = "BID" THEN a ELSE c
            ask == IF order[a].side = "BID" THEN c ELSE a
            i == order[ask].item
            Fill(row) == [row EXCEPT !.rem = @ - q, !.status = FilledStatus(row.rem - q)]
        IN  /\ i # NoItem => item[i].status = "PRESENT" /\ item[i].reserved >= q
            /\ item' = IF i = NoItem THEN item ELSE [item EXCEPT ![i] = Consume(@, q)]
            /\ order' = [order EXCEPT ![a] = Fill(@), ![c] = Fill(@)]
            /\ trade' = [trade EXCEPT ![t] =
                   [bid |-> bid, ask |-> ask, buyer |-> order[bid].org, seller |-> order[ask].org,
                    initiator |-> order[a].side, qty |-> q, price |-> order[c].price,
                    final |-> 0, status |-> "CONFIRMED"]]
  BY DEF MatchFill
<1> DEFINE q == FillQuantity(a, c)
           bid == IF order[a].side = "BID" THEN a ELSE c
           ask == IF order[a].side = "BID" THEN c ELSE a
           i == order[ask].item
           Fill(row) == [row EXCEPT !.rem = @ - q, !.status = FilledStatus(row.rem - q)]
<1>2. a \in Orders /\ c \in Orders /\ bid \in Orders /\ ask \in Orders
  BY DEF MatchFill, WellFormed, TypeOK, Fillable, Crossing
<1>3. order[a] \in OrderRow /\ order[c] \in OrderRow /\ order[ask] \in OrderRow /\ order[bid] \in OrderRow
  BY <1>2 DEF WellFormed, TypeOK
<1>4. q \in Nat /\ q <= order[a].rem /\ q <= order[c].rem
  BY <1>3 DEF OrderRow, FillQuantity, Least
<1>5. Fill(order[a]) \in OrderRow /\ Fill(order[c]) \in OrderRow
  <2>1. order[a].rem - q \in Nat /\ order[c].rem - q \in Nat
    BY <1>3, <1>4 DEF OrderRow
  <2>2. \A r : FilledStatus(r) \in OrderStatuses
    BY DEF FilledStatus, OrderStatuses, Live
  <2> HIDE DEF q
  <2> QED BY <1>3, <2>1, <2>2 DEF OrderRow
<1>6. a # c
  BY <1>2 DEF Fillable, Crossing
<1>7. order' \in [Orders -> OrderRow]
  <2>1. order' = [order EXCEPT ![a] = Fill(order[a]), ![c] = Fill(order[c])]
    BY <1>1, <1>6
  <2> HIDE DEF Fill
  <2> QED BY <2>1, <1>5 DEF WellFormed, TypeOK
<1>8. item' \in [Items -> ItemRow]
  <2>1. CASE i = NoItem
    BY <1>1, <2>1 DEF WellFormed, TypeOK
  <2>2. CASE i # NoItem
    <3>1. i \in Items /\ item[i] \in ItemRow
      BY <1>3, <2>2 DEF OrderRow, WellFormed, TypeOK
    <3>2. Consume(item[i], q) \in ItemRow
      BY <1>1, <1>4, <2>2, <3>1, ConsumeType
    <3> QED BY <1>1, <2>2, <3>1, <3>2 DEF WellFormed, TypeOK
  <2> QED BY <2>1, <2>2
<1> DEFINE new == [bid |-> bid, ask |-> ask, buyer |-> order[bid].org, seller |-> order[ask].org,
                   initiator |-> order[a].side, qty |-> q, price |-> order[c].price,
                   final |-> 0, status |-> "CONFIRMED"]
<1>9. new \in TradeRow
  <2> HIDE DEF bid, ask, q
  <2> QED BY <1>2, <1>3, <1>4 DEF TradeRow, OrderRow, TradeStatuses
<1>10. trade' = [trade EXCEPT ![t] = new]
  BY <1>1
<1>11. new.ask \in Orders /\ new.ask # NoOrder
  BY <1>2, MarketConstants DEF Orders, NoOrder
<1> HIDE DEF new
<1>12. trade' \in [Trades -> TradeRow] /\ TradesLinked'
  BY <1>9, <1>10, <1>11 DEF WellFormed, TypeOK, TradesLinked, LinkedOrder
<1> QED
  BY <1>7, <1>8, <1>12, SMTT(30) DEF MatchFill, WellFormed, TypeOK, admission, history

LEMMA PublishInventoryType ==
    ASSUME WellFormed, NEW o, NEW i \in Items, NEW cert \in Certs, NEW price \in Nat,
           NEW E, E \subseteq Orders, PublishInventory(o, i, cert, price, E)
    PROVE  WellFormed'
<1> DEFINE released == ReleasedBy(E, [p \in Orders |-> order[p].rem])
           q == item[i].current + released[i]
           listing == [org |-> OwnerOf[i], side |-> "ASK", item |-> i, cert |-> cert,
                       qty |-> q, rem |-> q, price |-> price, ordinal |-> NextOrdinal,
                       expires |-> NoExpiry, status |-> "OPEN"]
<1>1. released \in [Items -> Nat]
  BY ReleasedByType
<1>2. item[i] \in ItemRow
  BY DEF WellFormed, TypeOK
<1> HIDE DEF released
<1>3. q \in Nat
  BY <1>1, <1>2 DEF ItemRow
<1>4. NextOrdinal \in Nat /\ OwnerOf[i] \in Orgs
  BY MarketConstants DEF NextOrdinal, WellFormed, TypeOK
<1>5. listing \in OrderRow
  <2> HIDE DEF q
  <2> QED BY <1>3, <1>4 DEF OrderRow, OrderStatuses, Live, Sides, NoExpiry
<1>6. \A p \in Orders : order[p] \in OrderRow /\ [order[p] EXCEPT !.status = "EXPIRED"] \in OrderRow
  BY DEF WellFormed, TypeOK, OrderRow, OrderStatuses, Withdrawn
<1>7. o \in Orders
  BY DEF PublishInventory, FreshOrder
<1>8. /\ order' = [p \in Orders |-> IF p = o THEN listing
                                    ELSE IF p \in E THEN [order[p] EXCEPT !.status = "EXPIRED"]
                                    ELSE order[p]]
      /\ aggressor' = IF AutoMatching THEN o ELSE NoOrder
      /\ item' = [ReleaseAll(released) EXCEPT ![i] = Reserve(@, q)]
      /\ CanRelease(released)
      /\ ordinal' = NextOrdinal
      /\ UNCHANGED <<trade, admission, clock, history>>
  BY DEF PublishInventory, released
<1>9. order' \in [Orders -> OrderRow]
  <2> HIDE DEF listing
  <2> QED BY <1>5, <1>6, <1>8
<1>10. item' \in [Items -> ItemRow]
  <2>1. ReleaseAll(released) \in [Items -> ItemRow]
    BY <1>1, <1>8, ReleaseAllType DEF WellFormed, TypeOK
  <2>2. ReleaseAll(released)[i].current = q
    BY <1>2 DEF ReleaseAll, Release, ItemRow
  <2>3. Reserve(ReleaseAll(released)[i], q) \in ItemRow
    <3> HIDE DEF q
    <3>1. ReleaseAll(released)[i] \in ItemRow
      BY <2>1
    <3>2. ReleaseAll(released)[i].current >= q /\ ReleaseAll(released)[i].reserved >= -q
      BY <1>3, <2>2, <3>1 DEF ItemRow
    <3> QED BY <1>3, <3>1, <3>2, ReserveType
  <2> HIDE DEF q
  <2> QED BY <1>8, <2>1, <2>3
<1> QED
  BY <1>4, <1>7, <1>8, <1>9, <1>10
  DEF WellFormed, TypeOK, TradesLinked, LinkedOrder, admission, history

LEMMA StockEntryType ==
    ASSUME WellFormed, NEW i \in Items, NEW q \in Nat,
           AddInventory(i, q) \/ UpdateInventory(i, q) \/ DeleteInventory(i)
    PROVE  WellFormed'
<1>1. item[i] \in ItemRow /\ item[i].current \in Int
  BY DEF WellFormed, TypeOK, ItemRow
<1>2. /\ [status |-> "PRESENT", current |-> q, reserved |-> 0] \in ItemRow
      /\ [item[i] EXCEPT !.current = q] \in ItemRow
      /\ AbsentItem \in ItemRow
  BY <1>1 DEF ItemRow, AbsentItem
<1>3. CASE AddInventory(i, q)
  BY <1>1, <1>2, <1>3 DEF AddInventory, WellFormed, TypeOK, TradesLinked, LinkedOrder, admission
<1>4. CASE UpdateInventory(i, q)
  BY <1>1, <1>2, <1>4 DEF UpdateInventory, WellFormed, TypeOK, TradesLinked, LinkedOrder, admission
<1>5. CASE DeleteInventory(i)
  BY <1>1, <1>2, <1>5 DEF DeleteInventory, WellFormed, TypeOK, TradesLinked, LinkedOrder, admission
<1> QED BY <1>3, <1>4, <1>5

LEMMA CreateTradeType ==
    ASSUME WellFormed, NEW t \in Trades, NEW o \in Orders, NEW g \in Orgs, NEW q \in Nat,
           CreateTrade(t, o, g, q)
    PROVE  WellFormed'
<1> DEFINE row == order[o]
           mine == Opposite(row.side)
           new == [bid |-> IF row.side = "BID" THEN o ELSE NoOrder,
                   ask |-> IF row.side = "ASK" THEN o ELSE NoOrder,
                   buyer |-> IF mine = "BID" THEN g ELSE row.org,
                   seller |-> IF mine = "ASK" THEN g ELSE row.org,
                   initiator |-> mine, qty |-> q, price |-> row.price, final |-> 0,
                   status |-> "PENDING"]
<1>1. row \in OrderRow
  BY DEF WellFormed, TypeOK
<1>2. new \in TradeRow
  BY <1>1 DEF TradeRow, OrderRow, TradeStatuses, Opposite, Sides
<1>3. (IF new.ask # NoOrder THEN new.ask ELSE new.bid) = o
  BY <1>1, MarketConstants DEF OrderRow, Sides, Orders, NoOrder
<1>4. trade' = [trade EXCEPT ![t] = new]
  BY DEF CreateTrade
<1>5. row.rem - q \in Nat /\ FilledStatus(row.rem - q) \in OrderStatuses
  BY <1>1 DEF CreateTrade, OrderRow, FilledStatus, OrderStatuses, Live
<1>6. [row EXCEPT !.rem = row.rem - q, !.status = FilledStatus(row.rem - q)] \in OrderRow
  BY <1>1, <1>5 DEF OrderRow
<1>7. order' = [order EXCEPT ![o] = [row EXCEPT !.rem = row.rem - q, !.status = FilledStatus(row.rem - q)]]
  BY DEF CreateTrade, WellFormed, TypeOK
<1>8. order' \in [Orders -> OrderRow]
  <2> HIDE DEF row
  <2> QED BY <1>6, <1>7 DEF WellFormed, TypeOK
<1> HIDE DEF new
<1>9. trade' \in [Trades -> TradeRow] /\ TradesLinked'
  BY <1>2, <1>3, <1>4 DEF WellFormed, TypeOK, TradesLinked, LinkedOrder
<1> QED
  BY <1>8, <1>9 DEF CreateTrade, WellFormed, TypeOK, admission, history

\* A change of a trade's status, with or without a delivered quantity.
LEMMA TradeStatusType ==
    ASSUME WellFormed, NEW t \in Trades, NEW s \in TradeStatuses, NEW q \in Nat,
           trade[t].status # "ABSENT",
           \/ trade' = [trade EXCEPT ![t].status = s]
           \/ trade' = [trade EXCEPT ![t].status = s, ![t].final = q]
    PROVE  trade' \in [Trades -> TradeRow] /\ TradesLinked'
<1>1. trade[t] \in TradeRow
  BY DEF WellFormed, TypeOK
<1>2. /\ [trade[t] EXCEPT !.status = s] \in TradeRow
      /\ [trade[t] EXCEPT !.status = s, !.final = q] \in TradeRow
  BY <1>1 DEF TradeRow
<1>3. trade' \in [Trades -> TradeRow]
  BY <1>2 DEF WellFormed, TypeOK
<1>4. \A u \in Trades : /\ trade'[u].ask = trade[u].ask /\ trade'[u].bid = trade[u].bid
                        /\ trade'[u].status # "ABSENT" => trade[u].status # "ABSENT"
  BY DEF WellFormed, TypeOK, TradeRow
<1> QED BY <1>3, <1>4 DEF WellFormed, TradesLinked, LinkedOrder

LEMMA AnswerTradeType ==
    ASSUME WellFormed, NEW t \in Trades, ConfirmTrade(t) \/ DeclineTrade(t)
    PROVE  WellFormed'
<1> DEFINE o == LinkedOrder(t)
           row == order[o]
           q == trade[t].qty
           i == row.item
<1>1. trade[t] \in TradeRow /\ trade[t].status # "ABSENT" /\ q \in Nat
  BY DEF ConfirmTrade, DeclineTrade, AwaitsAnswer, WellFormed, TypeOK, TradeRow
<1>2. o \in Orders /\ row \in OrderRow
  BY <1>1 DEF WellFormed, TypeOK, TradesLinked
<1>3. i \in Items \union {NoItem} /\ row.rem \in Nat
  BY <1>2 DEF OrderRow
<1> HIDE DEF o
<1>4. CASE ConfirmTrade(t)
  <2>1. item' \in [Items -> ItemRow]
    <3>1. CASE i = NoItem
      BY <1>4, <3>1 DEF ConfirmTrade, o, WellFormed, TypeOK
    <3>2. CASE i # NoItem
      <4>1. i \in Items /\ item[i] \in ItemRow
        BY <1>3, <3>2 DEF WellFormed, TypeOK
      <4>2. Consume(item[i], q) \in ItemRow
        BY <1>1, <1>4, <3>2, <4>1, ConsumeType DEF ConfirmTrade, o
      <4> QED BY <1>4, <3>2, <4>1, <4>2 DEF ConfirmTrade, o, WellFormed, TypeOK
    <3> QED BY <3>1, <3>2
  <2>2. trade' \in [Trades -> TradeRow] /\ TradesLinked'
    BY <1>1, <1>4, TradeStatusType DEF ConfirmTrade, TradeStatuses
  <2> QED
    BY <1>4, <2>1, <2>2 DEF ConfirmTrade, WellFormed, TypeOK, admission, history
<1>5. CASE DeclineTrade(t)
  <2> DEFINE back == row.rem + q
             late == ~IsWithdrawn(row) /\ HasExpired(row, clock)
             released == IF IsWithdrawn(row) THEN q ELSE IF late THEN back ELSE 0
             status == IF late THEN "EXPIRED" ELSE StatusFor(row.qty, back)
  <2>1. back \in Nat /\ released \in Nat /\ status \in OrderStatuses
    BY <1>1, <1>3 DEF StatusFor, OrderStatuses, Live, Withdrawn
  <2>2. [row EXCEPT !.rem = back, !.status = status] \in OrderRow
    <3> HIDE DEF back, status
    <3> QED BY <1>2, <2>1 DEF OrderRow
  <2>3. /\ CanRelease(OnItem(i, released))
        /\ item' = ReleaseAll(OnItem(i, released))
        /\ order' = IF IsWithdrawn(row) THEN order
                    ELSE [order EXCEPT ![o].rem = back, ![o].status = status]
        /\ trade' = [trade EXCEPT ![t].status = "DECLINED"]
        /\ UNCHANGED <<admission, ordinal, clock, aggressor, history>>
    BY <1>5 DEF DeclineTrade, o
  <2>4. item' \in [Items -> ItemRow]
    <3> HIDE DEF released
    <3>1. OnItem(i, released) \in [Items -> Nat]
      BY <1>3, <2>1, OnItemType
    <3> QED BY <2>3, <3>1, ReleaseAllType DEF WellFormed, TypeOK
  <2>5. order' \in [Orders -> OrderRow]
    <3> HIDE DEF back, status
    <3> QED BY <1>2, <2>2, <2>3 DEF WellFormed, TypeOK
  <2>6. trade' \in [Trades -> TradeRow] /\ TradesLinked'
    BY <1>1, <2>3, TradeStatusType DEF TradeStatuses
  <2> QED
    BY <2>3, <2>4, <2>5, <2>6 DEF WellFormed, TypeOK, admission, history
<1> QED BY <1>4, <1>5

LEMMA RejectOrganizationType ==
    ASSUME WellFormed, NEW g \in Orgs, RejectOrganization(g)
    PROVE  WellFormed'
<1> DEFINE doomed == {t \in Trades : trade[t].status = "PENDING" /\ g \in {trade[t].buyer, trade[t].seller}}
           owned == {o \in Orders : order[o].status \in Live /\ order[o].org = g}
           linked == {LinkedOrder(t) : t \in doomed}
           restored == [o \in Orders |-> RestoredTo(o, doomed)]
           back == [o \in Orders |-> order[o].rem + restored[o]]
           after == [o \in Orders |->
                       IF o \notin owned \union linked \/ order[o].status \in Withdrawn THEN order[o].status
                       ELSE IF order[o].org = g THEN "CANCELLED"
                       ELSE IF HasExpired(order[o], clock) THEN "EXPIRED"
                       ELSE StatusFor(order[o].qty, back[o])]
           released == [o \in Orders |->
                          IF order[o].status \in Withdrawn THEN restored[o]
                          ELSE IF after[o] \in Withdrawn THEN back[o] ELSE 0]
           returned == ReleasedBy(owned \union linked, released)
<1>1. /\ CanRelease(returned)
      /\ trade' = [t \in Trades |-> IF t \in doomed THEN [trade[t] EXCEPT !.status = "CANCELLED"]
                                    ELSE trade[t]]
      /\ order' = [o \in Orders |-> [order[o] EXCEPT !.rem = back[o], !.status = after[o]]]
      /\ item' = ReleaseAll(returned)
      /\ approved' = approved \ {g}
      /\ admitted' = admitted \ ({g} \X Sides)
      /\ UNCHANGED <<ordinal, clock, aggressor, history>>
  BY DEF RejectOrganization
<1>2. restored \in [Orders -> Nat]
  <2> SUFFICES ASSUME NEW o \in Orders PROVE RestoredTo(o, doomed) \in Nat
    OBVIOUS
  <2>1. IsFiniteSet({u \in doomed : LinkedOrder(u) = o})
    BY RowsFinite, FS_Subset
  <2> HIDE DEF doomed
  <2> QED BY <2>1, TotalType DEF RestoredTo
<1>3. \A o \in Orders : order[o] \in OrderRow
  BY DEF WellFormed, TypeOK
<1>4. back \in [Orders -> Nat]
  <2> HIDE DEF restored
  <2> QED BY <1>2, <1>3 DEF OrderRow
<1>5. after \in [Orders -> OrderStatuses \union {"ABSENT"}]
  <2> HIDE DEF back, owned, linked
  <2> QED BY <1>3 DEF OrderRow, OrderStatuses, Withdrawn, Live, StatusFor
<1>6. \A t \in doomed : LinkedOrder(t) \in Orders
  BY DEF WellFormed, TradesLinked
<1>7. owned \union linked \subseteq Orders
  BY <1>6
<1> HIDE DEF owned, linked, restored, back, after, released
<1>8. item' \in [Items -> ItemRow]
  <2>1. returned \in [Items -> Nat]
    BY <1>7, ReleasedByType
  <2> HIDE DEF returned
  <2> QED BY <1>1, <2>1, ReleaseAllType DEF WellFormed, TypeOK
<1>9. order' \in [Orders -> OrderRow]
  <2> SUFFICES ASSUME NEW o \in Orders
               PROVE  [order[o] EXCEPT !.rem = back[o], !.status = after[o]] \in OrderRow
    BY <1>1
  <2> QED BY <1>3, <1>4, <1>5 DEF OrderRow
<1>10. trade' \in [Trades -> TradeRow] /\ TradesLinked'
  <2>1. \A t \in Trades : trade[t] \in TradeRow /\ [trade[t] EXCEPT !.status = "CANCELLED"] \in TradeRow
    BY DEF WellFormed, TypeOK, TradeRow, TradeStatuses
  <2>2. trade' \in [Trades -> TradeRow]
    BY <1>1, <2>1
  <2>3. \A t \in Trades : /\ trade'[t].ask = trade[t].ask /\ trade'[t].bid = trade[t].bid
                          /\ trade'[t].status # "ABSENT" => trade[t].status # "ABSENT"
    BY <1>1, <2>1 DEF TradeRow
  <2> QED BY <2>2, <2>3 DEF WellFormed, TradesLinked, LinkedOrder
<1> HIDE DEF doomed
<1> QED
  BY <1>1, <1>8, <1>9, <1>10 DEF WellFormed, TypeOK, history

LEMMA WellFormedStep == WellFormed /\ [Next]_vars => WellFormed'
<1> SUFFICES ASSUME WellFormed, [Next]_vars PROVE WellFormed'
  OBVIOUS
<1> USE DEF WellFormed
<1>1. /\ Prices \subseteq Nat /\ Sizes \subseteq Nat /\ Expiries \subseteq Nat
      /\ StockLevels \subseteq Nat /\ Deliveries \subseteq Nat /\ Later \subseteq Nat
      /\ Bidders \subseteq Orgs /\ Askers \subseteq Orgs /\ Hitters \subseteq Orgs
      /\ RevocableOrgs \subseteq Orgs /\ BidCerts \subseteq Certs \union {AnyCert}
  BY MarketConstants DEF Later, TypeOK
<1>2. ASSUME NEW o \in Orders, NEW g \in Orgs, NEW side \in Sides, NEW cert \in Certs \union {AnyCert},
             NEW q \in Sizes, NEW price \in Prices, NEW expires \in Expiries, NEW now \in Later,
             CreateOrder(o, g, side, cert, q, price, expires, now)
      PROVE  WellFormed'
  BY <1>1, <1>2, CreateOrderType
<1>3. CASE Book
  <2>1. CASE \E o \in Orders, g \in Bidders, cert \in BidCerts, q \in Sizes,
                price \in Prices, expires \in Expiries, now \in Later :
                  CreateOrder(o, g, "BID", cert, q, price, expires, now)
    BY <1>1, <1>2, <2>1 DEF Sides
  <2>2. CASE \E o \in Orders, g \in Askers, cert \in Certs, q \in Sizes,
                price \in Prices, expires \in Expiries, now \in Later :
                  CreateOrder(o, g, "ASK", cert, q, price, expires, now)
    BY <1>1, <1>2, <2>2 DEF Sides
  <2>3. CASE \E o \in Orders, req \in Amendments, now \in Later : UpdateOrder(o, req, now)
    BY <1>1, <2>3, UpdateOrderType
  <2>4. CASE \E o \in Orders : CancelOrder(o)
    BY <2>4, CancelOrderType
  <2>5. CASE \E t \in Trades : MatchFill(t)
    BY <2>5, MatchFillType
  <2>6. CASE MatchDone
    BY <2>6 DEF MatchDone, TypeOK, TradesLinked, LinkedOrder, market, admission, history
  <2> QED BY <1>3, <2>1, <2>2, <2>3, <2>4, <2>5, <2>6 DEF Book
<1>4. CASE Inventory
  <2>1. CASE \E i \in Items, q \in StockLevels : AddInventory(i, q) \/ UpdateInventory(i, q)
    BY <1>1, <2>1, StockEntryType
  <2>2. CASE \E i \in Items : DeleteInventory(i)
    BY <2>2, StockEntryType
  <2>3. CASE \E o \in Orders, i \in Items, cert \in Certs, price \in Prices, E \in SUBSET Orders :
               PublishInventory(o, i, cert, price, E)
    BY <1>1, <2>3, PublishInventoryType
  <2> QED BY <1>4, <2>1, <2>2, <2>3 DEF Inventory
<1>5. CASE Trading
  <2>1. CASE \E t \in Trades, o \in Orders, g \in Hitters, q \in Sizes : CreateTrade(t, o, g, q)
    BY <1>1, <2>1, CreateTradeType
  <2>2. CASE \E t \in Trades : ConfirmTrade(t) \/ DeclineTrade(t)
    BY <2>2, AnswerTradeType
  <2>3. CASE \E t \in Trades : PayTrade(t)
    <3>1. PICK t \in Trades : PayTrade(t)
      BY <2>3
    <3>2. trade' \in [Trades -> TradeRow] /\ TradesLinked'
      BY <3>1, TradeStatusType DEF PayTrade, TradeStatuses
    <3> QED BY <3>1, <3>2 DEF PayTrade, TypeOK, admission, history
  <2>4. CASE \E t \in Trades, q \in Deliveries : DeliverTrade(t, q)
    <3>1. PICK t \in Trades, q \in Deliveries : DeliverTrade(t, q)
      BY <2>4
    <3>2. trade' \in [Trades -> TradeRow] /\ TradesLinked'
      BY <1>1, <3>1, TradeStatusType DEF DeliverTrade, TradeStatuses
    <3> QED BY <3>1, <3>2 DEF DeliverTrade, TypeOK, admission, history
  <2> QED BY <1>5, <2>1, <2>2, <2>3, <2>4 DEF Trading
<1>6. CASE Administration
  <2>1. CASE \E p \in RevocableUsers : RejectUser(p) \/ AdmitUser(p)
    BY <2>1, MarketConstants
    DEF RejectUser, AdmitUser, TypeOK, TradesLinked, LinkedOrder, market, history
  <2>2. CASE \E g \in RevocableOrgs : RejectOrganization(g)
    BY <1>1, <2>2, RejectOrganizationType
  <2>3. CASE \E g \in RevocableOrgs : ApproveOrganization(g)
    BY <1>1, <2>3 DEF ApproveOrganization, TypeOK, TradesLinked, LinkedOrder, market, history
  <2> QED BY <1>6, <2>1, <2>2, <2>3 DEF Administration
<1>7. CASE Tick
  BY <1>7 DEF Tick, TypeOK, TradesLinked, LinkedOrder, market, admission, history
<1>8. CASE Refused \/ UNCHANGED vars
  BY <1>8 DEF Refused, TypeOK, TradesLinked, LinkedOrder, vars
<1> QED
  BY <1>3, <1>4, <1>5, <1>6, <1>7, <1>8 DEF Next

\* Every handler leaves every row well formed: quantities, reservations and
\* free stock never go negative, whatever the order of requests.
THEOREM MarketTyped == Spec => []TypeOK
<1>1. Spec => []WellFormed
  BY WellFormedInit, WellFormedStep, PTL DEF Spec
<1>2. WellFormed => TypeOK
  BY DEF WellFormed
<1> QED BY <1>1, <1>2, PTL

-----------------------------------------------------------------------------
(* Action properties *)

LEMMA AlwaysWellFormed == Spec => []WellFormed
  BY WellFormedInit, WellFormedStep, PTL DEF Spec

\* The entry of match_order leaves every other order alone.
LEMMA SubmitOthers ==
    ASSUME WellFormed, NEW o \in Orders, NEW row, NEW now, SubmitForMatching(o, row, now),
           NEW p \in Orders, p # o
    PROVE  order'[p] = order[p]
  BY DEF SubmitForMatching, WellFormed, TypeOK

\* Only a live order is matched; match_order sees to it before the fill loop.
AggressorOnBook == aggressor # NoOrder => order[aggressor].status \notin Withdrawn

LEMMA SubmitAggressor ==
    ASSUME WellFormed, NEW o \in Orders, NEW row, row.status \notin Withdrawn, NEW now,
           SubmitForMatching(o, row, now)
    PROVE  AggressorOnBook'
  BY MarketConstants DEF SubmitForMatching, ExpiresOnEntry, AggressorOnBook, WellFormed, TypeOK

LEMMA AggressorStep == WellFormed /\ AggressorOnBook /\ [Next]_vars => AggressorOnBook'
<1> SUFFICES ASSUME WellFormed, AggressorOnBook, [Next]_vars PROVE AggressorOnBook'
  OBVIOUS
<1>1. order \in [Orders -> OrderRow]
  BY DEF WellFormed, TypeOK
<1>2. CASE Book
  <2>1. ASSUME NEW o \in Orders, NEW g, NEW side, NEW cert, NEW q, NEW price, NEW expires, NEW now,
               CreateOrder(o, g, side, cert, q, price, expires, now)
        PROVE  AggressorOnBook'
    BY <2>1, SubmitAggressor DEF CreateOrder, Withdrawn
  <2>2. ASSUME NEW o \in Orders, NEW req \in Amendments, NEW now, UpdateOrder(o, req, now)
        PROVE  AggressorOnBook'
    <3> DEFINE terms == Amended(order[o], req)
               entry == [terms EXCEPT !.ordinal = IF LosesPriority(order[o], terms) THEN NextOrdinal ELSE @]
    <3>1. SubmitForMatching(o, entry, now) /\ terms.rem >= 0 /\ order[o].status \in Live
      BY <2>2 DEF UpdateOrder
    <3>2. terms \in OrderRow /\ terms.status \in {order[o].status, "FILLED"}
      BY <1>1, <3>1, AmendedType
    <3>3. entry.status = terms.status
      <4> HIDE DEF terms
      <4> QED BY <3>2 DEF OrderRow
    <3>4. entry.status \notin Withdrawn
      BY <3>1, <3>2, <3>3 DEF Live, Withdrawn
    <3> HIDE DEF entry
    <3> QED BY <3>1, <3>4, SubmitAggressor
  <2>3. ASSUME NEW t \in Trades, MatchFill(t)
        PROVE  AggressorOnBook'
    <3>1. aggressor \in Orders /\ aggressor' = aggressor
      BY <2>3 DEF MatchFill, WellFormed, TypeOK
    <3>2. order'[aggressor].status \in {"FILLED", "PARTIALLY_FILLED"}
      <4>1. PICK c \in Fillable(order, aggressor, clock) :
              LET q == FillQuantity(aggressor, c)
                  Fill(row) == [row EXCEPT !.rem = @ - q, !.status = FilledStatus(row.rem - q)]
              IN  order' = [order EXCEPT ![aggressor] = Fill(@), ![c] = Fill(@)]
        BY <2>3 DEF MatchFill
      <4>2. c # aggressor
        BY <3>1 DEF Fillable, Crossing
      <4>3. order[aggressor] \in OrderRow
        BY <1>1, <3>1
      <4>4. order'[aggressor].status = FilledStatus(order[aggressor].rem - FillQuantity(aggressor, c))
        BY <1>1, <3>1, <4>1, <4>2, <4>3 DEF OrderRow
      <4> QED BY <4>4 DEF FilledStatus
    <3> QED BY <3>1, <3>2 DEF AggressorOnBook, Withdrawn
  <2>4. CASE MatchDone
    BY <2>4 DEF MatchDone, AggressorOnBook
  <2>5. ASSUME NEW o \in Orders, CancelOrder(o)
        PROVE  AggressorOnBook'
    BY <2>5 DEF CancelOrder, AggressorOnBook
  <2> QED BY <1>2, <2>1, <2>2, <2>3, <2>4, <2>5 DEF Book
<1>3. CASE Inventory
  <2>1. ASSUME NEW o, NEW i \in Items, NEW cert, NEW price, NEW E,
               PublishInventory(o, i, cert, price, E)
        PROVE  AggressorOnBook'
    <3>1. o \in Orders
      BY <2>1 DEF PublishInventory, FreshOrder
    <3>2. order'[o].status = "OPEN"
      BY <2>1, <3>1 DEF PublishInventory
    <3>3. aggressor' \in {o, NoOrder}
      BY <2>1 DEF PublishInventory
    <3> QED BY <3>2, <3>3 DEF AggressorOnBook, Withdrawn
  <2>2. ASSUME NEW i \in Items, NEW q, AddInventory(i, q) \/ UpdateInventory(i, q) \/ DeleteInventory(i)
        PROVE  AggressorOnBook'
    BY <2>2 DEF AddInventory, UpdateInventory, DeleteInventory, AggressorOnBook
  <2> QED BY <1>3, <2>1, <2>2 DEF Inventory
<1>4. CASE Trading
  BY <1>4, ZenonT(40) DEF Trading, CreateTrade, ConfirmTrade, DeclineTrade, PayTrade, DeliverTrade, AggressorOnBook
<1>5. CASE Administration
  BY <1>5 DEF Administration, RejectUser, AdmitUser, RejectOrganization, ApproveOrganization,
              AggressorOnBook
<1>6. CASE Tick \/ Refused \/ UNCHANGED vars
  BY <1>6 DEF Tick, Refused, vars, AggressorOnBook
<1> QED BY <1>2, <1>3, <1>4, <1>5, <1>6 DEF Next
StaysWithdrawn == \A o \in Orders : order[o].status \in Withdrawn => order'[o].status = order[o].status

LEMMA StaysWithdrawnStep == WellFormed /\ AggressorOnBook /\ [Next]_vars => StaysWithdrawn
<1> SUFFICES ASSUME WellFormed, AggressorOnBook, [Next]_vars,
                    NEW p \in Orders, order[p].status \in Withdrawn
             PROVE  order'[p].status = order[p].status
  BY DEF StaysWithdrawn
<1>1. order \in [Orders -> OrderRow] /\ order[p] \in OrderRow
  BY DEF WellFormed, TypeOK
<1>2. order[p].status \notin Live \union {"ABSENT", "FILLED"}
  BY DEF Withdrawn, Live
<1>3. CASE Book
  <2>1. ASSUME NEW o \in Orders, NEW g, NEW side, NEW cert, NEW q, NEW price, NEW expires, NEW now,
               CreateOrder(o, g, side, cert, q, price, expires, now)
        PROVE  order'[p] = order[p]
    <3>1. p # o
      BY <1>2, <2>1 DEF CreateOrder, FreshOrder
    <3> QED BY <2>1, <3>1, SubmitOthers DEF CreateOrder
  <2>2. ASSUME NEW o \in Orders, NEW req \in Amendments, NEW now, UpdateOrder(o, req, now)
        PROVE  order'[p] = order[p]
    <3>1. p # o
      BY <1>2, <2>2 DEF UpdateOrder
    <3> QED BY <2>2, <3>1, SubmitOthers DEF UpdateOrder
  <2>3. ASSUME NEW o \in Orders, CancelOrder(o)
        PROVE  order'[p] = order[p]
    BY <1>1, <1>2, <2>3 DEF CancelOrder
  <2>4. ASSUME NEW t \in Trades, MatchFill(t)
        PROVE  order'[p] = order[p]
    <3>1. p # aggressor
      BY <2>4 DEF MatchFill, AggressorOnBook
    <3>2. \A c \in Fillable(order, aggressor, clock) : c # p
      BY <1>2 DEF Fillable, Crossing
    <3> QED BY <1>1, <2>4, <3>1, <3>2 DEF MatchFill
  <2>5. CASE MatchDone
    BY <2>5 DEF MatchDone, market
  <2> QED BY <1>3, <2>1, <2>2, <2>3, <2>4, <2>5 DEF Book
<1>4. CASE Inventory
  <2>1. ASSUME NEW o \in Orders, NEW i \in Items, NEW cert, NEW price, NEW E,
               PublishInventory(o, i, cert, price, E)
        PROVE  order'[p] = order[p]
    <3>1. p # o /\ p \notin E
      BY <1>2, <2>1 DEF PublishInventory, FreshOrder
    <3> QED BY <2>1, <3>1 DEF PublishInventory
  <2> QED BY <1>4, <2>1 DEF Inventory, AddInventory, UpdateInventory, DeleteInventory
<1>5. CASE Trading
  <2>1. ASSUME NEW t \in Trades, NEW o \in Orders, NEW g, NEW q, CreateTrade(t, o, g, q)
        PROVE  order'[p] = order[p]
    <3>1. p # o
      BY <1>2, <2>1 DEF CreateTrade
    <3> QED BY <1>1, <2>1, <3>1 DEF CreateTrade
  <2>2. ASSUME NEW t \in Trades, DeclineTrade(t)
        PROVE  order'[p] = order[p]
    <3>1. CASE LinkedOrder(t) = p
      BY <2>2, <3>1 DEF DeclineTrade, IsWithdrawn
    <3>2. CASE LinkedOrder(t) # p
      BY <1>1, <2>2, <3>2 DEF DeclineTrade
    <3> QED BY <3>1, <3>2
  <2> QED BY <1>5, <2>1, <2>2 DEF Trading, ConfirmTrade, PayTrade, DeliverTrade
<1>6. CASE Administration
  <2>1. ASSUME NEW g \in RevocableOrgs, RejectOrganization(g)
        PROVE  order'[p].status = order[p].status
    <3> DEFINE doomed == {t \in Trades : trade[t].status = "PENDING" /\ g \in {trade[t].buyer, trade[t].seller}}
               touched == {o \in Orders : order[o].status \in Live /\ order[o].org = g}
                            \union {LinkedOrder(t) : t \in doomed}
               back == [o \in Orders |-> order[o].rem + [r \in Orders |-> RestoredTo(r, doomed)][o]]
               after == [o \in Orders |->
                           IF o \notin touched \/ order[o].status \in Withdrawn THEN order[o].status
                           ELSE IF order[o].org = g THEN "CANCELLED"
                           ELSE IF HasExpired(order[o], clock) THEN "EXPIRED"
                           ELSE StatusFor(order[o].qty, back[o])]
    <3>1. order' = [o \in Orders |-> [order[o] EXCEPT !.rem = back[o], !.status = after[o]]]
      BY <2>1 DEF RejectOrganization
    <3>2. after[p] = order[p].status
      OBVIOUS
    <3> HIDE DEF back, after
    <3> QED BY <1>1, <3>1, <3>2 DEF OrderRow
  <2> QED BY <1>6, <2>1 DEF Administration, RejectUser, AdmitUser, ApproveOrganization, market
<1>7. CASE Tick \/ Refused \/ UNCHANGED vars
  BY <1>7 DEF Tick, Refused, vars, market
<1> QED BY <1>3, <1>4, <1>5, <1>6, <1>7 DEF Next

\* No interleaving of requests brings a cancelled or expired order back to
\* life: not a decline of a trade made before the withdrawal, not the
\* restoration of quantity when a counterparty is rejected.
THEOREM WithdrawalIsFinal == Spec => NeverRevived
<1>1. Init => AggressorOnBook
  BY DEF Init, AggressorOnBook
<1>2. Spec => [](WellFormed /\ AggressorOnBook)
  BY <1>1, WellFormedInit, WellFormedStep, AggressorStep, PTL DEF Spec
<1>3. WellFormed /\ AggressorOnBook /\ [Next]_vars => [StaysWithdrawn]_vars
  BY StaysWithdrawnStep
<1>4. Spec => [][StaysWithdrawn]_vars
  BY <1>2, <1>3, PTL DEF Spec
<1> QED BY <1>4 DEF NeverRevived, StaysWithdrawn

\* The two sides of a trade that awaits an answer are different organizations.
PartiesDiffer == \A t \in Trades : trade[t].status = "PENDING" => trade[t].buyer # trade[t].seller

\* A row of trades that is binding between eligible parties of this state.
SoundlyBound(row) ==
    /\ row.buyer # row.seller
    /\ {row.buyer, row.seller} \subseteq approved
    /\ {<<row.buyer, "BID">>, <<row.seller, "ASK">>} \subseteq admitted

\* What a step does to one trade, as far as its parties are concerned.
TradeStep(t) ==
    \/ trade'[t] = trade[t]
    \/ trade'[t].status \notin {"PENDING", "CONFIRMED"}
    \/ trade'[t].status = "PENDING" /\ trade'[t].buyer # trade'[t].seller
    \/ trade'[t].status = "CONFIRMED" /\ SoundlyBound(trade'[t])

LEMMA FillBinds ==
    ASSUME WellFormed, NEW t \in Trades, MatchFill(t), NEW u \in Trades
    PROVE  TradeStep(u)
<1> DEFINE a == aggressor
<1>1. PICK c \in Fillable(order, a, clock) :
        LET q == FillQuantity(a, c)
            bid == IF order[a].side = "BID" THEN a ELSE c
            ask == IF order[a].side = "BID" THEN c ELSE a
        IN  trade' = [trade EXCEPT ![t] =
                   [bid |-> bid, ask |-> ask, buyer |-> order[bid].org, seller |-> order[ask].org,
                    initiator |-> order[a].side, qty |-> q, price |-> order[c].price,
                    final |-> 0, status |-> "CONFIRMED"]]
  BY DEF MatchFill
<1>2. a \in Orders /\ c \in Orders
  BY DEF MatchFill, WellFormed, TypeOK, Fillable, Crossing
<1>3. order[a].side \in {"BID", "ASK"} /\ order[c].side = Opposite(order[a].side)
  BY <1>2 DEF WellFormed, TypeOK, OrderRow, Sides, Fillable, Crossing
<1>4. /\ order[a].org # order[c].org
      /\ Eligible(order[a].org, order[a].side) /\ Eligible(order[c].org, order[c].side)
  BY <1>2 DEF Fillable, Crossing
<1>5. CASE u = t
  <2>1. trade'[u].status = "CONFIRMED"
    BY <1>1, <1>5 DEF WellFormed, TypeOK
  <2>2. CASE order[a].side = "BID"
    <3>1. trade'[u].buyer = order[a].org /\ trade'[u].seller = order[c].org
      BY <1>1, <1>5, <2>2 DEF WellFormed, TypeOK
    <3> QED
      BY <1>3, <1>4, <2>1, <2>2, <3>1 DEF TradeStep, SoundlyBound, Eligible, Opposite
  <2>3. CASE order[a].side = "ASK"
    <3>1. trade'[u].buyer = order[c].org /\ trade'[u].seller = order[a].org
      BY <1>1, <1>5, <2>3 DEF WellFormed, TypeOK
    <3> QED
      BY <1>3, <1>4, <2>1, <2>3, <3>1 DEF TradeStep, SoundlyBound, Eligible, Opposite
  <2> QED
    BY <1>3, <2>2, <2>3
<1>6. CASE u # t
  BY <1>1, <1>6 DEF WellFormed, TypeOK, TradeStep
<1> QED
  BY <1>5, <1>6

LEMMA HitBinds ==
    ASSUME WellFormed, NEW t \in Trades, NEW o \in Orders, NEW g, NEW q, CreateTrade(t, o, g, q),
           NEW u \in Trades
    PROVE  TradeStep(u)
<1> DEFINE mine == Opposite(order[o].side)
<1>1. g # order[o].org
  BY DEF CreateTrade
<1>2. CASE u = t
  <2>1. /\ trade'[u].status = "PENDING"
        /\ trade'[u].buyer = IF mine = "BID" THEN g ELSE order[o].org
        /\ trade'[u].seller = IF mine = "ASK" THEN g ELSE order[o].org
    BY <1>2 DEF CreateTrade, WellFormed, TypeOK
  <2>2. mine \in {"BID", "ASK"}
    BY DEF Opposite
  <2> HIDE DEF mine
  <2> QED
    BY <1>1, <2>1, <2>2 DEF TradeStep
<1>3. CASE u # t
  BY <1>3 DEF CreateTrade, WellFormed, TypeOK, TradeStep
<1> QED
  BY <1>2, <1>3

LEMMA AnswerBinds ==
    ASSUME WellFormed, PartiesDiffer, NEW t \in Trades, NEW q,
           ConfirmTrade(t) \/ DeclineTrade(t) \/ PayTrade(t) \/ DeliverTrade(t, q), NEW u \in Trades
    PROVE  TradeStep(u)
<1>1. trade \in [Trades -> TradeRow] /\ trade[t] \in TradeRow
  BY DEF WellFormed, TypeOK
<1>2. CASE u # t
  BY <1>1, <1>2 DEF ConfirmTrade, DeclineTrade, PayTrade, DeliverTrade, TradeStep
<1>3. CASE u = t /\ ConfirmTrade(t)
  <2>1. /\ trade'[u].status = "CONFIRMED"
        /\ trade'[u].buyer = trade[t].buyer /\ trade'[u].seller = trade[t].seller
    BY <1>1, <1>3 DEF ConfirmTrade, TradeRow
  <2>2. trade[t].buyer # trade[t].seller
    BY <1>3 DEF ConfirmTrade, AwaitsAnswer, PartiesDiffer
  <2>3. Eligible(trade[t].buyer, "BID") /\ Eligible(trade[t].seller, "ASK")
    BY <1>3 DEF ConfirmTrade, PartiesEligible
  <2> QED
    BY <2>1, <2>2, <2>3 DEF TradeStep, SoundlyBound, Eligible
<1>4. CASE u = t /\ (DeclineTrade(t) \/ PayTrade(t) \/ DeliverTrade(t, q))
  <2>1. trade'[u].status \in {"DECLINED", "PAID", "DELIVERED"}
    BY <1>1, <1>4 DEF DeclineTrade, PayTrade, DeliverTrade, TradeRow
  <2> QED
    BY <2>1 DEF TradeStep
<1> QED
  BY <1>2, <1>3, <1>4

LEMMA RejectionBinds ==
    ASSUME WellFormed, NEW g, RejectOrganization(g), NEW u \in Trades
    PROVE  TradeStep(u)
<1>1. trade[u] \in TradeRow
  BY DEF WellFormed, TypeOK
<1>2. \/ trade'[u] = trade[u]
      \/ trade'[u] = [trade[u] EXCEPT !.status = "CANCELLED"]
  BY DEF RejectOrganization
<1>3. [trade[u] EXCEPT !.status = "CANCELLED"].status = "CANCELLED"
  BY <1>1 DEF TradeRow
<1> QED
  BY <1>2, <1>3 DEF TradeStep

\* The steps that write the table of trades.
LEMMA TradeWriters ==
    ASSUME [Next]_vars
    PROVE  \/ UNCHANGED trade
           \/ \E t \in Trades : MatchFill(t)
           \/ \E t \in Trades, o \in Orders, g \in Hitters, q \in Sizes : CreateTrade(t, o, g, q)
           \/ \E t \in Trades : ConfirmTrade(t) \/ DeclineTrade(t) \/ PayTrade(t)
           \/ \E t \in Trades, q \in Deliveries : DeliverTrade(t, q)
           \/ \E g \in RevocableOrgs : RejectOrganization(g)
<1>1. CASE Book
  <2>1. ASSUME NEW o \in Orders, NEW g, NEW side, NEW cert, NEW q, NEW price, NEW expires, NEW now,
               CreateOrder(o, g, side, cert, q, price, expires, now)
        PROVE  UNCHANGED trade
    BY <2>1 DEF CreateOrder
  <2>2. ASSUME NEW o \in Orders, NEW req \in Amendments, NEW now, UpdateOrder(o, req, now)
        PROVE  UNCHANGED trade
    BY <2>2 DEF UpdateOrder
  <2>3. ASSUME NEW o \in Orders, CancelOrder(o) PROVE UNCHANGED trade
    BY <2>3 DEF CancelOrder
  <2>4. CASE MatchDone
    BY <2>4 DEF MatchDone, market
  <2> QED
    BY <1>1, <2>1, <2>2, <2>3, <2>4 DEF Book
<1>2. CASE Inventory
  <2>1. ASSUME NEW o, NEW i \in Items, NEW cert, NEW price, NEW E, PublishInventory(o, i, cert, price, E)
        PROVE  UNCHANGED trade
    BY <2>1 DEF PublishInventory
  <2> QED
    BY <1>2, <2>1 DEF Inventory, AddInventory, UpdateInventory, DeleteInventory
<1>3. CASE Trading
  BY <1>3 DEF Trading
<1>4. CASE Administration
  BY <1>4 DEF Administration, RejectUser, AdmitUser, ApproveOrganization, market
<1>5. CASE Tick \/ Refused \/ UNCHANGED vars
  BY <1>5 DEF Tick, Refused, vars, market
<1> QED BY <1>1, <1>2, <1>3, <1>4, <1>5 DEF Next

LEMMA BindingStep ==
    ASSUME WellFormed, PartiesDiffer, [Next]_vars, NEW u \in Trades
    PROVE  TradeStep(u)
<1>1. CASE UNCHANGED trade
  BY <1>1 DEF TradeStep
<1> QED
  BY <1>1, TradeWriters, FillBinds, HitBinds, AnswerBinds, RejectionBinds

\* Whatever is rejected, amended or expires between a proposal and its answer,
\* and whoever the engine pairs, a trade becomes binding only between two
\* different organizations whose users are eligible at that moment.
THEOREM BoundWhenEligible == Spec => BindingOnlyBetweenEligible
<1> DEFINE Binds == \A t \in Trades :
                       trade[t].status # "CONFIRMED" /\ trade'[t].status = "CONFIRMED" =>
                           /\ trade'[t].buyer # trade'[t].seller
                           /\ {trade'[t].buyer, trade'[t].seller} \subseteq approved
                           /\ {<<trade'[t].buyer, "BID">>, <<trade'[t].seller, "ASK">>} \subseteq admitted
<1>1. Init => PartiesDiffer
  BY DEF Init, PartiesDiffer, AbsentTrade
<1>2. WellFormed /\ PartiesDiffer /\ [Next]_vars => PartiesDiffer'
  BY BindingStep DEF TradeStep, PartiesDiffer
<1>3. WellFormed /\ PartiesDiffer /\ [Next]_vars => [Binds]_vars
  BY BindingStep DEF TradeStep, SoundlyBound
<1> QED
  BY WellFormedInit, WellFormedStep, <1>1, <1>2, <1>3, PTL DEF Spec, BindingOnlyBetweenEligible

-----------------------------------------------------------------------------
(* Price-time priority *)

\* Acceptance ordinals come from a counter: none is ahead of it, and no two
\* orders that were ever accepted share one.  A trade is on an accepted order.
Entered(o) == order[o].status # "ABSENT" \/ o = aggressor \/ order[o].ordinal > 0
Queued ==
    /\ \A o \in Orders :
        /\ order[o].ordinal <= ordinal
        /\ Entered(o) => order[o].ordinal > 0
        /\ \A p \in Orders : p # o /\ order[p].ordinal = order[o].ordinal => order[o].ordinal = 0
    /\ \A t \in Trades : trade[t].status # "ABSENT" => order[LinkedOrder(t)].ordinal > 0

\* A trade that exists after a step was there before, on the same order, or is
\* on an order accepted before.
KeepsOrder(t) ==
    trade'[t].status # "ABSENT" =>
        \/ /\ trade[t].status # "ABSENT"
           /\ trade'[t].ask = trade[t].ask /\ trade'[t].bid = trade[t].bid
        \/ LinkedOrder(t)' \in Orders /\ Entered(LinkedOrder(t)')

\* An order keeps its place, or one order takes the next one.
KeepsPlace(p) ==
    /\ order'[p].ordinal = order[p].ordinal
    /\ (order'[p].status # "ABSENT" \/ p = aggressor') => Entered(p)
QueueStep ==
    \/ ordinal' = ordinal /\ \A p \in Orders : KeepsPlace(p)
    \/ /\ ordinal' = ordinal + 1
       /\ \E o \in Orders : /\ order'[o].ordinal = ordinal + 1
                            /\ \A p \in Orders : p # o => KeepsPlace(p)

LEMMA QueuedStep ==
    ASSUME WellFormed, Queued, QueueStep, \A t \in Trades : KeepsOrder(t)
    PROVE  Queued'
<1>1. ordinal \in Nat /\ \A o \in Orders : order[o].ordinal \in Nat
  BY DEF WellFormed, TypeOK, OrderRow
<1>2. \A o \in Orders :
        /\ order'[o].ordinal <= ordinal'
        /\ Entered(o)' => order'[o].ordinal > 0
        /\ \A p \in Orders : p # o /\ order'[p].ordinal = order'[o].ordinal => order'[o].ordinal = 0
  <2>1. CASE ordinal' = ordinal /\ \A p \in Orders : KeepsPlace(p)
    BY <2>1 DEF Queued, KeepsPlace, Entered
  <2>2. CASE ordinal' = ordinal + 1 /\ \E o \in Orders : /\ order'[o].ordinal = ordinal + 1
                                                          /\ \A p \in Orders : p # o => KeepsPlace(p)
    BY <1>1, <2>2 DEF Queued, KeepsPlace, Entered
  <2> QED
    BY <2>1, <2>2 DEF QueueStep
<1>3. \A o \in Orders : order[o].ordinal > 0 => order'[o].ordinal > 0
  BY <1>1 DEF QueueStep, KeepsPlace
<1>4. ASSUME NEW t \in Trades, trade'[t].status # "ABSENT"
      PROVE  order'[LinkedOrder(t)'].ordinal > 0
  <2>1. CASE /\ trade[t].status # "ABSENT"
             /\ trade'[t].ask = trade[t].ask /\ trade'[t].bid = trade[t].bid
    <3>1. LinkedOrder(t)' = LinkedOrder(t)
      BY <2>1 DEF LinkedOrder
    <3>2. LinkedOrder(t) \in Orders /\ order[LinkedOrder(t)].ordinal > 0
      BY <2>1 DEF Queued, WellFormed, TradesLinked
    <3> QED
      BY <1>3, <3>1, <3>2
  <2>2. CASE LinkedOrder(t)' \in Orders /\ Entered(LinkedOrder(t)')
    BY <1>3, <2>2 DEF Queued
  <2> QED
    BY <1>4, <2>1, <2>2 DEF KeepsOrder
<1> QED
  BY <1>2, <1>4 DEF Queued

LEMMA CreatedQueues ==
    ASSUME WellFormed, NEW o, NEW g, NEW side, NEW cert, NEW q, NEW price, NEW expires, NEW now,
           CreateOrder(o, g, side, cert, q, price, expires, now)
    PROVE  QueueStep
<1> DEFINE row == [org |-> g, side |-> side, item |-> NoItem, cert |-> cert,
                   qty |-> q, rem |-> q, price |-> price, ordinal |-> NextOrdinal,
                   expires |-> expires, status |-> "OPEN"]
<1>1. o \in Orders /\ ordinal' = ordinal + 1 /\ SubmitForMatching(o, row, now)
  BY DEF CreateOrder, FreshOrder, NextOrdinal
<1>2. order'[o] \in {row, [row EXCEPT !.status = "EXPIRED"]}
  <2> HIDE DEF row
  <2> QED BY <1>1 DEF SubmitForMatching, WellFormed, TypeOK
<1>3. row.ordinal = ordinal + 1 /\ [row EXCEPT !.status = "EXPIRED"].ordinal = ordinal + 1
  BY DEF NextOrdinal
<1>4. order'[o].ordinal = ordinal + 1
  <2> HIDE DEF row
  <2> QED BY <1>2, <1>3
<1>5. \A p \in Orders : p # o => order'[p] = order[p]
  <2> HIDE DEF row
  <2> QED BY <1>1, SubmitOthers
<1>6. aggressor' \in {o, NoOrder} /\ NoOrder \notin Orders
  <2> HIDE DEF row
  <2> QED BY <1>1, MarketConstants DEF SubmitForMatching, NoOrder, Orders
<1> QED
  BY <1>1, <1>4, <1>5, <1>6 DEF QueueStep, KeepsPlace, Entered

LEMMA AmendedQueues ==
    ASSUME WellFormed, NEW o \in Orders, NEW req \in Amendments, NEW now, UpdateOrder(o, req, now)
    PROVE  QueueStep
<1> DEFINE row == order[o]
           terms == Amended(row, req)
           demoted == LosesPriority(row, terms)
           place == IF demoted THEN NextOrdinal ELSE row.ordinal
           entry == [terms EXCEPT !.ordinal = IF demoted THEN NextOrdinal ELSE @]
<1>1. row \in OrderRow /\ row.status \in Live /\ terms.rem >= 0
  BY DEF UpdateOrder, WellFormed, TypeOK
<1>2. terms \in OrderRow
  BY <1>1, AmendedType
<1>3. terms.ordinal = row.ordinal
  BY <1>1 DEF Amended, OrderRow
<1>4. SubmitForMatching(o, entry, now) /\ ordinal' = IF demoted THEN NextOrdinal ELSE ordinal
  BY DEF UpdateOrder
<1>5. NextOrdinal \in Nat
  BY DEF WellFormed, TypeOK, NextOrdinal
<1>6. entry \in OrderRow /\ entry.ordinal = place
  <2> HIDE DEF terms, demoted
  <2> QED BY <1>2, <1>3, <1>5 DEF OrderRow
<1> HIDE DEF entry, demoted, terms
<1>7. order'[o] \in {entry, [entry EXCEPT !.status = "EXPIRED"]}
  BY <1>4 DEF SubmitForMatching, WellFormed, TypeOK
<1>8. order'[o].ordinal = place
  BY <1>6, <1>7 DEF OrderRow
<1>9. \A p \in Orders : p # o => order'[p] = order[p]
  BY <1>4, SubmitOthers
<1>10. row.status # "ABSENT"
  BY <1>1 DEF Live
<1>11. aggressor' \in {o, NoOrder} /\ NoOrder \notin Orders
  BY <1>4, MarketConstants DEF SubmitForMatching, NoOrder, Orders
<1>12. CASE demoted
  BY <1>4, <1>8, <1>9, <1>11, <1>12 DEF QueueStep, KeepsPlace, Entered, NextOrdinal
<1>13. CASE ~demoted
  BY <1>4, <1>8, <1>9, <1>10, <1>11, <1>13 DEF QueueStep, KeepsPlace, Entered
<1> QED
  BY <1>12, <1>13

LEMMA FillQueues ==
    ASSUME WellFormed, NEW t \in Trades, MatchFill(t)
    PROVE  QueueStep
<1> DEFINE a == aggressor
<1>1. PICK c \in Fillable(order, a, clock) :
        LET q == FillQuantity(a, c)
            Fill(row) == [row EXCEPT !.rem = @ - q, !.status = FilledStatus(row.rem - q)]
        IN  order' = [order EXCEPT ![a] = Fill(@), ![c] = Fill(@)]
  BY DEF MatchFill
<1> DEFINE Fill(row) == [row EXCEPT !.rem = @ - FillQuantity(a, c),
                                    !.status = FilledStatus(row.rem - FillQuantity(a, c))]
<1>2. a \in Orders /\ c \in Orders /\ a # c
  BY DEF MatchFill, WellFormed, TypeOK, Fillable, Crossing
<1>3. \A p \in Orders : order[p] \in OrderRow
  BY DEF WellFormed, TypeOK
<1>4. order' = [order EXCEPT ![a] = Fill(order[a]), ![c] = Fill(order[c])]
  BY <1>1, <1>2
<1>5. \A p \in Orders : Fill(order[p]).ordinal = order[p].ordinal
  BY <1>3 DEF OrderRow
<1>6. order[c].status # "ABSENT"
  BY <1>2 DEF Fillable, Crossing, Live
<1>7. \A p \in Orders : order'[p] \in {order[p], Fill(order[p])}
  <2> HIDE DEF Fill
  <2> QED BY <1>2, <1>4 DEF WellFormed, TypeOK
<1>8. \A p \in Orders : order'[p].ordinal = order[p].ordinal
  <2> HIDE DEF Fill
  <2> QED BY <1>5, <1>7
<1>9. \A p \in Orders : p \notin {a, c} => order'[p] = order[p]
  BY <1>2, <1>4 DEF WellFormed, TypeOK
<1> QED
  BY <1>6, <1>8, <1>9 DEF QueueStep, KeepsPlace, Entered, MatchFill

LEMMA PublishedQueues ==
    ASSUME WellFormed, NEW o, NEW i \in Items, NEW cert, NEW price, NEW E,
           PublishInventory(o, i, cert, price, E)
    PROVE  QueueStep
<1>1. o \in Orders /\ ordinal' = ordinal + 1 /\ aggressor' \in {o, NoOrder} /\ NoOrder \notin Orders
  BY MarketConstants DEF PublishInventory, FreshOrder, NextOrdinal, NoOrder, Orders
<1>2. order'[o].ordinal = ordinal + 1
  BY <1>1 DEF PublishInventory, NextOrdinal
<1>3. \A p \in Orders : p # o => order'[p] \in {order[p], [order[p] EXCEPT !.status = "EXPIRED"]}
  BY DEF PublishInventory
<1>4. \A p \in Orders : p # o /\ p \in E => order[p].status # "ABSENT"
  BY DEF PublishInventory, Live
<1>5. \A p \in Orders : p # o /\ p \notin E => order'[p] = order[p]
  BY DEF PublishInventory
<1>6. \A p \in Orders : [order[p] EXCEPT !.status = "EXPIRED"].ordinal = order[p].ordinal
  BY DEF WellFormed, TypeOK, OrderRow
<1>7. \A p \in Orders : p # o => KeepsPlace(p)
  BY <1>1, <1>3, <1>4, <1>5, <1>6 DEF KeepsPlace, Entered
<1> QED
  BY <1>1, <1>2, <1>7 DEF QueueStep

\* The other handlers change remainder and status of orders they find.
LEMMA OthersQueue ==
    ASSUME WellFormed, NEW o \in Orders, Entered(o), NEW rem, NEW status,
           \/ order' = [order EXCEPT ![o].status = status]
           \/ order' = [order EXCEPT ![o].rem = rem, ![o].status = status],
           UNCHANGED <<ordinal, aggressor>>
    PROVE  QueueStep
<1>1. order \in [Orders -> OrderRow] /\ order[o] \in OrderRow
  BY DEF WellFormed, TypeOK
<1>2. order'[o].ordinal = order[o].ordinal
  BY <1>1 DEF OrderRow
<1>3. \A p \in Orders : p # o => order'[p] = order[p]
  BY <1>1
<1> QED
  BY <1>2, <1>3 DEF QueueStep, KeepsPlace, Entered

LEMMA UntouchedQueue ==
    ASSUME UNCHANGED <<order, ordinal>>, aggressor' \in {aggressor, NoOrder}
    PROVE  QueueStep
<1>1. NoOrder \notin Orders
  BY MarketConstants DEF NoOrder, Orders
<1> QED
  BY <1>1 DEF QueueStep, KeepsPlace, Entered

LEMMA AnswerQueues ==
    ASSUME WellFormed, Queued, NEW t \in Trades, DeclineTrade(t)
    PROVE  QueueStep
<1> DEFINE o == LinkedOrder(t)
           back == order[o].rem + trade[t].qty
<1>1. /\ UNCHANGED <<ordinal, aggressor>> /\ trade[t].status = "PENDING"
      /\ \/ order' = order
         \/ /\ order[o].status \notin Withdrawn
            /\ order' = [order EXCEPT ![o].rem = back,
                                      ![o].status = IF HasExpired(order[o], clock) THEN "EXPIRED"
                                                    ELSE StatusFor(order[o].qty, back)]
  BY DEF DeclineTrade, IsWithdrawn, AwaitsAnswer
<1>2. o \in Orders /\ Entered(o)
  BY <1>1 DEF WellFormed, TradesLinked, Queued, Entered
<1> HIDE DEF o, back
<1>3. CASE order' = order
  BY <1>1, <1>3, UntouchedQueue
<1>4. CASE order' # order
  BY <1>1, <1>2, <1>4, OthersQueue
<1> QED
  BY <1>3, <1>4

LEMMA RejectionQueues ==
    ASSUME WellFormed, Queued, NEW g, RejectOrganization(g)
    PROVE  QueueStep
<1> DEFINE doomed == {t \in Trades : trade[t].status = "PENDING" /\ g \in {trade[t].buyer, trade[t].seller}}
           touched == {o \in Orders : order[o].status \in Live /\ order[o].org = g}
                        \union {LinkedOrder(t) : t \in doomed}
           back == [o \in Orders |-> order[o].rem + [r \in Orders |-> RestoredTo(r, doomed)][o]]
           after == [o \in Orders |->
                       IF o \notin touched \/ order[o].status \in Withdrawn THEN order[o].status
                       ELSE IF order[o].org = g THEN "CANCELLED"
                       ELSE IF HasExpired(order[o], clock) THEN "EXPIRED"
                       ELSE StatusFor(order[o].qty, back[o])]
<1>1. /\ order' = [o \in Orders |-> [order[o] EXCEPT !.rem = back[o], !.status = after[o]]]
      /\ UNCHANGED <<ordinal, aggressor>>
  BY DEF RejectOrganization
<1>2. \A o \in Orders : after[o] = order[o].status \/ o \in touched
  OBVIOUS
<1>3. \A o \in touched : Entered(o)
  <2>1. \A t \in doomed : Entered(LinkedOrder(t))
    BY DEF Queued, Entered
  <2> QED BY <2>1 DEF Entered, Live
<1> HIDE DEF back, after, touched
<1>4. \A o \in Orders : order'[o].ordinal = order[o].ordinal /\ order'[o].status = after[o]
  BY <1>1 DEF WellFormed, TypeOK, OrderRow
<1> QED
  BY <1>1, <1>2, <1>3, <1>4, ZenonT(40) DEF QueueStep, KeepsPlace, Entered

LEMMA NextQueues == WellFormed /\ Queued /\ [Next]_vars => QueueStep
<1> SUFFICES ASSUME WellFormed, Queued, [Next]_vars PROVE QueueStep
  OBVIOUS
<1>1. CASE Book
  <2>1. ASSUME NEW o \in Orders, CancelOrder(o) PROVE QueueStep
    <3>1. /\ Entered(o) /\ UNCHANGED <<ordinal, aggressor>>
          /\ order' = [order EXCEPT ![o].status = "CANCELLED"]
      BY <2>1 DEF CancelOrder, Entered, Live
    <3> QED BY <3>1, OthersQueue
  <2>2. CASE MatchDone
    BY <2>2, UntouchedQueue DEF MatchDone, market
  <2> QED
    BY <1>1, <2>1, <2>2, CreatedQueues, AmendedQueues, FillQueues DEF Book
<1>2. CASE Inventory
  <2>1. ASSUME NEW i \in Items, NEW q, AddInventory(i, q) \/ UpdateInventory(i, q) \/ DeleteInventory(i)
        PROVE  UNCHANGED <<order, ordinal, aggressor>>
    BY <2>1 DEF AddInventory, UpdateInventory, DeleteInventory
  <2> QED
    BY <1>2, <2>1, PublishedQueues, UntouchedQueue DEF Inventory
<1>3. CASE Trading
  <2>1. ASSUME NEW t \in Trades, NEW o \in Orders, NEW g, NEW q, CreateTrade(t, o, g, q)
        PROVE  QueueStep
    <3>1. /\ Entered(o) /\ UNCHANGED <<ordinal, aggressor>>
          /\ order' = [order EXCEPT ![o].rem = order[o].rem - q,
                                    ![o].status = FilledStatus(order[o].rem - q)]
      BY <2>1 DEF CreateTrade, Entered, Live
    <3> QED BY <3>1, OthersQueue
  <2>2. ASSUME NEW t \in Trades, NEW q, ConfirmTrade(t) \/ PayTrade(t) \/ DeliverTrade(t, q)
        PROVE  UNCHANGED <<order, ordinal, aggressor>>
    BY <2>2 DEF ConfirmTrade, PayTrade, DeliverTrade
  <2> QED
    BY <1>3, <2>1, <2>2, AnswerQueues, UntouchedQueue DEF Trading
<1>4. CASE Administration
  <2>1. ASSUME NEW p, RejectUser(p) \/ AdmitUser(p) \/ ApproveOrganization(p)
        PROVE  UNCHANGED <<order, ordinal, aggressor>>
    BY <2>1 DEF RejectUser, AdmitUser, ApproveOrganization, market
  <2> QED
    BY <1>4, <2>1, RejectionQueues, UntouchedQueue DEF Administration
<1>5. CASE Tick \/ Refused \/ UNCHANGED vars
  BY <1>5, UntouchedQueue DEF Tick, Refused, vars, market
<1> QED BY <1>1, <1>2, <1>3, <1>4, <1>5 DEF Next

\* The trade the engine makes at each turn of its loop.
LEMMA EngineTrade ==
    ASSUME WellFormed, NEW t \in Trades, MatchFill(t)
    PROVE  \E c \in Fillable(order, aggressor, clock) :
               /\ \A d \in Fillable(order, aggressor, clock) : d # c => Before(c, d, order)
               /\ trade'[t].initiator = order[aggressor].side
               /\ trade'[t].price = order[c].price
               /\ trade'[t].bid = IF order[aggressor].side = "BID" THEN aggressor ELSE c
               /\ trade'[t].ask = IF order[aggressor].side = "BID" THEN c ELSE aggressor
               /\ \A u \in Trades : u # t => trade'[u] = trade[u]
<1> DEFINE a == aggressor
<1>1. PICK c \in Fillable(order, a, clock) :
        LET q == FillQuantity(a, c)
            bid == IF order[a].side = "BID" THEN a ELSE c
            ask == IF order[a].side = "BID" THEN c ELSE a
        IN  /\ \A d \in Fillable(order, a, clock) : d # c => Before(c, d, order)
            /\ trade' = [trade EXCEPT ![t] =
                   [bid |-> bid, ask |-> ask, buyer |-> order[bid].org, seller |-> order[ask].org,
                    initiator |-> order[a].side, qty |-> q, price |-> order[c].price,
                    final |-> 0, status |-> "CONFIRMED"]]
  BY DEF MatchFill
<1>2. /\ trade'[t].initiator = order[a].side
      /\ trade'[t].price = order[c].price
      /\ trade'[t].bid = IF order[a].side = "BID" THEN a ELSE c
      /\ trade'[t].ask = IF order[a].side = "BID" THEN c ELSE a
      /\ \A u \in Trades : u # t => trade'[u] = trade[u]
  BY <1>1 DEF WellFormed, TypeOK
<1> QED
  BY <1>1, <1>2

LEMMA FillLinks ==
    ASSUME WellFormed, NEW t \in Trades, MatchFill(t), NEW u \in Trades
    PROVE  KeepsOrder(u)
<1>1. PICK c \in Fillable(order, aggressor, clock) :
           /\ trade'[t].bid = IF order[aggressor].side = "BID" THEN aggressor ELSE c
           /\ trade'[t].ask = IF order[aggressor].side = "BID" THEN c ELSE aggressor
           /\ \A v \in Trades : v # t => trade'[v] = trade[v]
  BY EngineTrade
<1>2. aggressor \in Orders /\ c \in Orders /\ NoOrder \notin Orders
  BY MarketConstants DEF MatchFill, WellFormed, TypeOK, Fillable, Crossing, NoOrder, Orders
<1>3. Entered(aggressor) /\ Entered(c)
  BY <1>2 DEF Entered, Fillable, Crossing, Live
<1>4. CASE u = t
  <2>1. LinkedOrder(u)' \in {aggressor, c}
    BY <1>1, <1>2, <1>4 DEF LinkedOrder
  <2> QED
    BY <1>2, <1>3, <2>1 DEF KeepsOrder
<1>5. CASE u # t
  BY <1>1, <1>5 DEF KeepsOrder
<1> QED
  BY <1>4, <1>5

LEMMA TradingLinks ==
    ASSUME WellFormed, NEW t \in Trades, NEW o \in Orders, NEW g, NEW q, NEW u \in Trades,
           \/ CreateTrade(t, o, g, q) \/ ConfirmTrade(t) \/ DeclineTrade(t)
           \/ PayTrade(t) \/ DeliverTrade(t, q)
    PROVE  KeepsOrder(u)
<1>1. trade \in [Trades -> TradeRow] /\ trade[t] \in TradeRow
  BY DEF WellFormed, TypeOK
<1>2. CASE u # t
  BY <1>1, <1>2 DEF CreateTrade, ConfirmTrade, DeclineTrade, PayTrade, DeliverTrade, KeepsOrder
<1>3. CASE u = t /\ CreateTrade(t, o, g, q)
  <2>1. /\ trade'[t].bid = IF order[o].side = "BID" THEN o ELSE NoOrder
        /\ trade'[t].ask = IF order[o].side = "ASK" THEN o ELSE NoOrder
    BY <1>1, <1>3 DEF CreateTrade
  <2>2. order[o].side \in {"BID", "ASK"} /\ o # NoOrder /\ Entered(o)
    BY <1>3, MarketConstants, SMTT(30)
    DEF CreateTrade, WellFormed, TypeOK, OrderRow, Sides, Entered, Live, NoOrder, Orders
  <2>3. LinkedOrder(u)' = o
    BY <1>3, <2>1, <2>2 DEF LinkedOrder
  <2> QED
    BY <2>2, <2>3 DEF KeepsOrder
<1>4. CASE u = t /\ (ConfirmTrade(t) \/ DeclineTrade(t) \/ PayTrade(t) \/ DeliverTrade(t, q))
  <2>1. trade[t].status # "ABSENT"
    BY <1>4 DEF ConfirmTrade, DeclineTrade, PayTrade, DeliverTrade, AwaitsAnswer
  <2>2. trade'[t].ask = trade[t].ask /\ trade'[t].bid = trade[t].bid
    BY <1>1, <1>4 DEF ConfirmTrade, DeclineTrade, PayTrade, DeliverTrade, TradeRow
  <2> QED
    BY <1>4, <2>1, <2>2 DEF KeepsOrder
<1> QED
  BY <1>2, <1>3, <1>4

LEMMA RejectionLinks ==
    ASSUME WellFormed, NEW g, RejectOrganization(g), NEW u \in Trades
    PROVE  KeepsOrder(u)
<1>1. trade[u] \in TradeRow
  BY DEF WellFormed, TypeOK
<1>2. \/ trade'[u] = trade[u]
      \/ trade[u].status = "PENDING" /\ trade'[u] = [trade[u] EXCEPT !.status = "CANCELLED"]
  BY DEF RejectOrganization
<1>3. trade'[u].ask = trade[u].ask /\ trade'[u].bid = trade[u].bid
  BY <1>1, <1>2 DEF TradeRow
<1> QED
  BY <1>2, <1>3, SMTT(30) DEF KeepsOrder

LEMMA NextLinks ==
    ASSUME WellFormed, [Next]_vars, NEW u \in Trades
    PROVE  KeepsOrder(u)
<1>1. CASE UNCHANGED trade
  BY <1>1 DEF KeepsOrder
<1>2. ASSUME NEW t \in Trades, ConfirmTrade(t) \/ DeclineTrade(t) \/ PayTrade(t) PROVE KeepsOrder(u)
  <2>1. CASE trade[t].status # "ABSENT" /\ Orders # {}
    BY <1>2, <2>1, TradingLinks
  <2>2. CASE Orders = {}
    <3>1. trade[t].status = "ABSENT"
      BY <2>2 DEF WellFormed, TradesLinked
    <3> QED
      BY <1>2, <3>1 DEF ConfirmTrade, DeclineTrade, PayTrade, AwaitsAnswer
  <2>3. CASE trade[t].status = "ABSENT"
    BY <1>2, <2>3 DEF ConfirmTrade, DeclineTrade, PayTrade, AwaitsAnswer
  <2> QED
    BY <2>1, <2>2, <2>3
<1>3. ASSUME NEW t \in Trades, NEW q \in Deliveries, DeliverTrade(t, q) PROVE KeepsOrder(u)
  <2>1. LinkedOrder(t) \in Orders
    BY <1>3 DEF DeliverTrade, WellFormed, TradesLinked
  <2> QED
    BY <1>3, <2>1, TradingLinks
<1> QED
  BY <1>1, <1>2, <1>3, FillLinks, TradingLinks, RejectionLinks, TradeWriters

LEMMA QueuedInit == Init => Queued
<1>1. ASSUME Init PROVE Queued
  <2>1. \A o \in Orders : o # NoOrder
    BY MarketConstants DEF Orders, NoOrder
  <2>2. /\ ordinal = 0 /\ aggressor = NoOrder
        /\ \A o \in Orders : order[o].ordinal = 0 /\ order[o].status = "ABSENT"
        /\ \A t \in Trades : trade[t].status = "ABSENT"
    BY <1>1 DEF Init, AbsentOrder, AbsentTrade
  <2> QED
    BY <2>1, <2>2 DEF Queued, Entered
<1> QED
  BY <1>1

\* Price and time decide: what NoTradeThrough says of one trade.
NotTradedThrough(t) ==
    LET bid == trade'[t].bid
        ask == trade'[t].ask
        rest == IF trade'[t].initiator = "BID" THEN ask ELSE bid
        taker == IF trade'[t].initiator = "BID" THEN bid ELSE ask
        Rival(d) == /\ order[d].status \in Live
                    /\ order[d].side = order[rest].side
                    /\ order[d].org \notin {order[taker].org, order[rest].org}
                    /\ ~HasExpired(order[d], clock)
                    /\ Eligible(order[d].org, order[d].side)
                    /\ Compatible(order[taker], order[d])
    IN  /\ order[ask].price <= trade'[t].price /\ trade'[t].price <= order[bid].price
        /\ \A d \in Orders : Rival(d) =>
               \/ IF order[rest].side = "ASK" THEN order[rest].price < order[d].price
                                             ELSE order[rest].price > order[d].price
               \/ order[rest].price = order[d].price /\ order[rest].ordinal < order[d].ordinal

LEMMA BestFirst ==
    ASSUME WellFormed, Queued, NEW t \in Trades, MatchFill(t)
    PROVE  NotTradedThrough(t)
<1> DEFINE a == aggressor
<1>1. PICK c \in Fillable(order, a, clock) :
           /\ \A d \in Fillable(order, a, clock) : d # c => Before(c, d, order)
           /\ trade'[t].initiator = order[a].side
           /\ trade'[t].price = order[c].price
           /\ trade'[t].bid = IF order[a].side = "BID" THEN a ELSE c
           /\ trade'[t].ask = IF order[a].side = "BID" THEN c ELSE a
  BY EngineTrade
<1> DEFINE rest == IF trade'[t].initiator = "BID" THEN trade'[t].ask ELSE trade'[t].bid
           taker == IF trade'[t].initiator = "BID" THEN trade'[t].bid ELSE trade'[t].ask
<1>2. rest = c /\ taker = a
  BY <1>1
<1>3. /\ a \in Orders /\ c \in Orders
      /\ order[c].side = Opposite(order[a].side) /\ order[c].org # order[a].org
      /\ Crosses(order[a], order[c])
      /\ Eligible(order[a].org, order[a].side)
  BY DEF MatchFill, WellFormed, TypeOK, Fillable, Crossing
<1>4. \A d \in Orders : /\ order[d].side \in {"BID", "ASK"} /\ order[d].price \in Nat
                        /\ order[d].ordinal \in Nat
  BY DEF WellFormed, TypeOK, OrderRow, Sides
<1>5. order[trade'[t].ask].price <= trade'[t].price /\ trade'[t].price <= order[trade'[t].bid].price
  BY <1>1, <1>3, <1>4 DEF Crosses
<1>6. ASSUME NEW d \in Orders, order[d].status \in Live, order[d].side = order[c].side,
             order[d].org \notin {order[a].org, order[c].org}, ~HasExpired(order[d], clock),
             Eligible(order[d].org, order[d].side), Compatible(order[a], order[d])
      PROVE  \/ IF order[c].side = "ASK" THEN order[c].price < order[d].price
                                         ELSE order[c].price > order[d].price
             \/ order[c].price = order[d].price /\ order[c].ordinal < order[d].ordinal
  <2>1. d # c
    BY <1>6
  <2>2. order[c].ordinal # order[d].ordinal
    BY <1>3, <1>6, <2>1 DEF Queued, Entered, Live
  <2>3. CASE Crosses(order[a], order[d])
    <3>1. d \in Fillable(order, a, clock)
      BY <1>3, <1>6, <2>3 DEF Fillable, Crossing, Eligible
    <3>2. Before(c, d, order)
      BY <1>1, <2>1, <3>1
    <3> QED
      BY <1>3, <1>4, <2>2, <3>2 DEF Before
  <2>4. CASE ~Crosses(order[a], order[d])
    BY <1>3, <1>4, <1>6, <2>4 DEF Crosses, Opposite
  <2> QED
    BY <2>3, <2>4
<1> HIDE DEF rest, taker
<1> QED
  BY <1>2, <1>5, <1>6 DEF NotTradedThrough, rest, taker

\* For books of any size and any sequence of amendments, the engine fills the
\* best priced candidate, the earliest accepted among equals, at a price within
\* both limits.
THEOREM PriceTimePriority == Spec => NoTradeThrough
<1> DEFINE Step == \A t \in Trades :
                       trade[t].status = "ABSENT" /\ trade'[t].status = "CONFIRMED" => NotTradedThrough(t)
<1>1. WellFormed /\ Queued /\ [Next]_vars => Queued'
  BY NextQueues, NextLinks, QueuedStep
<1>2. ASSUME WellFormed, Queued, [Next]_vars, NEW t \in Trades,
             trade[t].status = "ABSENT", trade'[t].status = "CONFIRMED"
      PROVE  NotTradedThrough(t)
  <2>1. trade \in [Trades -> TradeRow]
    BY <1>2 DEF WellFormed, TypeOK
  <2>2. ASSUME NEW u \in Trades, MatchFill(u) PROVE u = t
    BY <1>2, <2>2, EngineTrade
  <2>3. ASSUME NEW u \in Trades, NEW o \in Orders, NEW g, NEW q, CreateTrade(u, o, g, q) PROVE FALSE
    BY <1>2, <2>1, <2>3 DEF CreateTrade
  <2>4. ASSUME NEW u \in Trades, NEW q,
               ConfirmTrade(u) \/ DeclineTrade(u) \/ PayTrade(u) \/ DeliverTrade(u, q)
        PROVE  FALSE
    BY <1>2, <2>1, <2>4 DEF ConfirmTrade, DeclineTrade, PayTrade, DeliverTrade, AwaitsAnswer
  <2>5. ASSUME NEW g, RejectOrganization(g) PROVE FALSE
    <3>1. \/ trade'[t] = trade[t]
          \/ trade[t].status = "PENDING"
      BY <2>5 DEF RejectOrganization
    <3> QED
      BY <1>2, <3>1, SMTT(30)
  <2>6. \E u \in Trades : MatchFill(u)
    BY <1>2, <2>3, <2>4, <2>5, TradeWriters
  <2> QED
    BY <1>2, <2>2, <2>6, BestFirst
<1>3. WellFormed /\ Queued /\ [Next]_vars => [Step]_vars
  BY <1>2
<1>4. Spec => [][Step]_vars
  BY WellFormedInit, WellFormedStep, QueuedInit, <1>1, <1>3, PTL DEF Spec
<1> QED
  BY <1>4 DEF NoTradeThrough, NotTradedThrough
=============================================================================
