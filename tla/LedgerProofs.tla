---------------------------- MODULE LedgerProofs ----------------------------
(***************************************************************************)
(* The ledger theorem of Market: after every handler the reservations, the *)
(* free stock, the filled quantities and the order rows agree with each    *)
(* other and with the trades.  A sum over rows is a count of units, so how *)
(* it changes with the rows follows from cardinalities alone.              *)
(***************************************************************************)
EXTENDS MarketProofs

-----------------------------------------------------------------------------
(* Sums *)

Amounts == 0 .. MaxQty

\* g is f with one row changed, and h is f and g added row by row.
OffAt(D, f, g, x) ==
    /\ IsFiniteSet(D) /\ f \in [D -> Amounts] /\ g \in [D -> Amounts]
    /\ x \in D /\ \A y \in D : y # x => g[y] = f[y]
AddsUp(D, f, g, h) ==
    /\ IsFiniteSet(D) /\ f \in [D -> Amounts] /\ g \in [D -> Amounts] /\ h \in [D -> Amounts]
    /\ \A x \in D : h[x] = f[x] + g[x]

LEMMA UnitsFinite ==
    ASSUME NEW f, IsFiniteSet(DOMAIN f)
    PROVE  IsFiniteSet(Units(f)) /\ Total(f) = Cardinality(Units(f)) /\ Total(f) \in Nat
<1>1. IsFiniteSet(1 .. MaxQty)
  BY MarketConstants, FS_Interval
<1>2. IsFiniteSet((DOMAIN f) \X (1 .. MaxQty))
  BY <1>1, FS_Product
<1>3. Units(f) \subseteq (DOMAIN f) \X (1 .. MaxQty)
  BY DEF Units
<1>4. IsFiniteSet(Units(f))
  BY <1>2, <1>3, FS_Subset
<1> QED
  BY <1>4, FS_CardinalityType DEF Total

\* The units of one row that holds v.
Column(x, v) == {x} \X (1 .. v)

LEMMA ColumnSize ==
    ASSUME NEW x, NEW v \in Nat
    PROVE  IsFiniteSet(Column(x, v)) /\ Cardinality(Column(x, v)) = v
<1>1. IsFiniteSet(1 .. v) /\ Cardinality(1 .. v) = v
  BY FS_Interval
<1>2. IsFiniteSet({x}) /\ Cardinality({x}) = 1
  BY FS_Singleton
<1> QED
  BY <1>1, <1>2, FS_Product DEF Column

LEMMA DisjointSize ==
    ASSUME NEW S, IsFiniteSet(S), NEW T, IsFiniteSet(T), S \intersect T = {}
    PROVE  Cardinality(S \union T) = Cardinality(S) + Cardinality(T)
<1>1. Cardinality(S) \in Nat /\ Cardinality(T) \in Nat
  BY FS_CardinalityType
<1>2. Cardinality(S \union T) = Cardinality(S) + Cardinality(T) - Cardinality(S \intersect T)
  BY FS_Union
<1>3. Cardinality(S \intersect T) = 0
  BY FS_EmptySet
<1> QED
  BY <1>1, <1>2, <1>3

\* Changing one row changes the sum by the difference.
LEMMA TotalPoint ==
    ASSUME NEW D, NEW f, NEW g, NEW x, OffAt(D, f, g, x)
    PROVE  /\ Total(f) \in Nat /\ Total(g) \in Nat
           /\ f[x] <= Total(f)
           /\ Total(g) = Total(f) - f[x] + g[x]
<1> USE DEF OffAt
<1> DEFINE rest == {u \in Units(f) : u[1] # x}
           F == Column(x, f[x])
           G == Column(x, g[x])
<1>1. f[x] \in Nat /\ g[x] \in Nat /\ f[x] <= MaxQty /\ g[x] <= MaxQty /\ MaxQty \in Nat
  BY MarketConstants DEF Amounts
<1>2. Units(f) = rest \union F
  BY <1>1 DEF Units, Column
<1>3. Units(g) = rest \union G
  BY <1>1 DEF Units, Column
<1>4. rest \intersect F = {} /\ rest \intersect G = {}
  BY DEF Column
<1>5. IsFiniteSet(rest)
  BY UnitsFinite, FS_Subset
<1>6. /\ IsFiniteSet(F) /\ Cardinality(F) = f[x]
      /\ IsFiniteSet(G) /\ Cardinality(G) = g[x]
  <2>1. \A v \in Nat : IsFiniteSet(Column(x, v)) /\ Cardinality(Column(x, v)) = v
    BY ColumnSize
  <2> QED
    BY <1>1, <2>1
<1> HIDE DEF rest, F, G
<1>7. Cardinality(rest \union F) = Cardinality(rest) + f[x]
  BY <1>4, <1>5, <1>6, DisjointSize
<1>8. Cardinality(rest \union G) = Cardinality(rest) + g[x]
  BY <1>4, <1>5, <1>6, DisjointSize
<1>9. Cardinality(rest) \in Nat
  BY <1>5, FS_CardinalityType
<1>10. Total(f) = Cardinality(rest) + f[x] /\ Total(g) = Cardinality(rest) + g[x]
  BY <1>2, <1>3, <1>7, <1>8 DEF Total
<1> QED
  BY <1>1, <1>9, <1>10

\* Rows outside a part count for nothing.
LEMMA TotalOfPart ==
    ASSUME NEW f, NEW S, NEW D, S \subseteq D
    PROVE  Total([x \in S |-> f[x]]) = Total([x \in D |-> IF x \in S THEN f[x] ELSE 0])
<1> DEFINE a == [x \in S |-> f[x]]
           b == [x \in D |-> IF x \in S THEN f[x] ELSE 0]
<1>1. \A u : u \in Units(a) => u \in Units(b)
  BY DEF Units
<1>2. \A u : u \in Units(b) => u \in Units(a)
  BY DEF Units
<1>3. Units(a) = Units(b)
  BY <1>1, <1>2
<1> QED
  BY <1>3 DEF Total

LEMMA TotalOfNothing ==
    ASSUME NEW f, \A x \in DOMAIN f : f[x] = 0
    PROVE  Total(f) = 0
<1>1. Units(f) = {}
  BY MarketConstants DEF Units
<1> QED
  BY <1>1, FS_EmptySet DEF Total

\* The sum of two functions added row by row.
LEMMA TotalPlus ==
    ASSUME NEW D, NEW f, NEW g, NEW h, AddsUp(D, f, g, h)
    PROVE  /\ Total(f) \in Nat /\ Total(g) \in Nat /\ Total(h) \in Nat
           /\ Total(h) = Total(f) + Total(g)
<1> USE DEF AddsUp
<1> DEFINE over == Units(h) \ Units(f)
           lift == [u \in Units(g) |-> <<u[1], f[u[1]] + u[2]>>]
<1>1. \A x \in D : /\ f[x] \in Nat /\ g[x] \in Nat /\ h[x] \in Nat
                   /\ f[x] <= h[x] /\ h[x] <= MaxQty /\ h[x] = f[x] + g[x]
  BY MarketConstants DEF Amounts
<1>2. MaxQty \in Nat
  BY MarketConstants
<1>3. Units(f) \subseteq Units(h)
  BY <1>1, <1>2 DEF Units
<1>4. \A u \in Units(g) : lift[u] \in over
  BY <1>1, <1>2 DEF Units
<1>5. \A u, v \in Units(g) : lift[u] = lift[v] => u = v
  <2> SUFFICES ASSUME NEW u \in Units(g), NEW v \in Units(g), lift[u] = lift[v] PROVE u = v
    OBVIOUS
  <2>1. <<u[1], f[u[1]] + u[2]>> = <<v[1], f[v[1]] + v[2]>>
    OBVIOUS
  <2>2. u = <<u[1], u[2]>> /\ v = <<v[1], v[2]>> /\ u[1] \in D /\ u[2] \in Nat /\ v[2] \in Nat
    BY <1>2 DEF Units
  <2>3. u[2] = v[2]
    <3>1. u[1] = v[1] /\ f[u[1]] + u[2] = f[v[1]] + v[2]
      BY <2>1
    <3>2. f[u[1]] \in Nat /\ f[u[1]] + u[2] = f[u[1]] + v[2]
      BY <1>1, <2>2, <3>1
    <3> QED
      BY <2>2, <3>2
  <2> QED
    BY <2>1, <2>2, <2>3
<1>6. \A w \in over : \E u \in Units(g) : lift[u] = w
  <2> SUFFICES ASSUME NEW w \in over PROVE \E u \in Units(g) : lift[u] = w
    OBVIOUS
  <2>1. w = <<w[1], w[2]>> /\ w[1] \in D /\ w[2] \in 1 .. MaxQty /\ w[2] <= h[w[1]] /\ ~(w[2] <= f[w[1]])
    BY DEF Units
  <2> DEFINE u == <<w[1], w[2] - f[w[1]]>>
  <2>2. u[2] \in 1 .. MaxQty /\ u[2] <= g[w[1]] /\ f[w[1]] + u[2] = w[2]
    BY <1>1, <1>2, <2>1
  <2>3. u \in Units(g)
    BY <2>1, <2>2 DEF Units
  <2> QED
    BY <2>1, <2>2, <2>3
<1>7. lift \in Bijection(Units(g), over)
  <2>1. lift \in [Units(g) -> over]
    BY <1>4
  <2> HIDE DEF lift, over
  <2> QED
    BY <1>5, <1>6, <2>1 DEF Bijection, Injection, IsInjective, Surjection
<1>8. ExistsBijection(Units(g), over)
  BY <1>7 DEF ExistsBijection
<1>9. /\ IsFiniteSet(Units(f)) /\ IsFiniteSet(Units(g)) /\ IsFiniteSet(Units(h))
      /\ Total(f) \in Nat /\ Total(g) \in Nat /\ Total(h) \in Nat
  BY UnitsFinite
<1>10. Cardinality(over) = Total(g)
  BY <1>8, <1>9, FS_Bijection DEF Total
<1>11. Units(h) \intersect Units(f) = Units(f)
  BY <1>3
<1>12. Cardinality(over) = Total(h) - Total(f)
  <2> HIDE DEF over
  <2>1. over = Units(h) \ Units(f)
    BY DEF over
  <2>2. Cardinality(Units(h) \ Units(f)) = Cardinality(Units(h)) - Cardinality(Units(h) \intersect Units(f))
    BY <1>9, FS_Difference
  <2> QED
    BY <1>11, <2>1, <2>2 DEF Total
<1> QED
  BY <1>9, <1>10, <1>12

LEMMA FirstFailure ==
    ASSUME NEW S, S \subseteq Nat, S # {}
    PROVE  \E n \in S : \A m \in S : n <= m
<1> DEFINE R == {p \in Nat \X Nat : p[1] < p[2]}
<1>1. IsWellFoundedOn(R, Nat)
  BY NatLessThanWellFounded DEF OpToRel
<1>2. \A i, j \in Nat : i < j => <<i, j>> \in R
  OBVIOUS
<1> HIDE DEF R
<1>3. PICK n \in S : \A m \in S : ~ (<<m, n>> \in R)
  BY <1>1, WFMin
<1>4. ASSUME NEW m \in S PROVE n <= m
  <2>1. m \in Nat /\ n \in Nat /\ ~ (m < n)
    BY <1>2, <1>3
  <2> QED
    BY <2>1
<1> QED
  BY <1>4

\* Adding trades up order by order is adding them up: r[o] is what the trades
\* of S on order o add up to.
Groups(S, q, link, r) ==
    /\ S \subseteq Trades /\ q \in [Trades -> Amounts] /\ r \in [Orders -> Amounts]
    /\ \A t \in S : link[t] \in Orders
    /\ \A o \in Orders : r[o] = Total([t \in {u \in S : link[u] = o} |-> q[t]])
LEMMA TotalGrouped ==
    ASSUME NEW S, NEW q, NEW link, NEW r, Groups(S, q, link, r), NEW Sel
    PROVE  Total([o \in Orders |-> IF o \in Sel THEN r[o] ELSE 0])
             = Total([t \in Trades |-> IF t \in S /\ link[t] \in Sel THEN q[t] ELSE 0])
<1> USE DEF Groups
<1> DEFINE A(k) == [o \in Orders |-> IF o <= k /\ o \in Sel THEN r[o] ELSE 0]
           B(k) == [t \in Trades |-> IF t \in S /\ link[t] <= k /\ link[t] \in Sel THEN q[t] ELSE 0]
           C(k) == [t \in Trades |-> IF t \in S /\ link[t] = k /\ link[t] \in Sel THEN q[t] ELSE 0]
           bad == {k \in 0 .. MaxOrders : Total(A(k)) # Total(B(k))}
<1>1. MaxOrders \in Nat /\ MaxQty \in Nat /\ 0 \in Amounts /\ Orders = 1 .. MaxOrders
  BY MarketConstants DEF Amounts, Orders
<1>2. Total(A(0)) = 0 /\ Total(B(0)) = 0
  <2>1. \A o \in Orders : ~(o <= 0)
    BY <1>1
  <2>2. \A x \in DOMAIN A(0) : A(0)[x] = 0
    BY <2>1
  <2>3. \A x \in DOMAIN B(0) : B(0)[x] = 0
    BY <2>1
  <2> HIDE DEF A, B
  <2> QED
    BY <2>2, <2>3, TotalOfNothing
<1>3. ASSUME NEW k \in 1 .. MaxOrders, Total(A(k - 1)) = Total(B(k - 1))
      PROVE  Total(A(k)) = Total(B(k))
  <2>1. k \in Orders /\ k - 1 \in Int
    BY <1>1
  <2>2. \A o \in Orders : (o <= k <=> o <= k - 1 \/ o = k) /\ ~(k <= k - 1)
    BY <1>1
  <2>3. /\ A(k - 1) \in [Orders -> Amounts] /\ A(k) \in [Orders -> Amounts]
        /\ B(k - 1) \in [Trades -> Amounts] /\ B(k) \in [Trades -> Amounts]
        /\ C(k) \in [Trades -> Amounts]
    BY <1>1
  <2>4. A(k - 1)[k] = 0 /\ A(k)[k] = (IF k \in Sel THEN r[k] ELSE 0)
    BY <2>1, <2>2, <1>1
  <2>5. \A o \in Orders : o # k => A(k)[o] = A(k - 1)[o]
    BY <2>2
  <2>6. \A t \in Trades : B(k)[t] = B(k - 1)[t] + C(k)[t]
    <3> SUFFICES ASSUME NEW t \in Trades PROVE B(k)[t] = B(k - 1)[t] + C(k)[t]
      OBVIOUS
    <3>1. q[t] \in Nat
      BY <1>1 DEF Amounts
    <3>2. CASE t \in S
      <4>1. link[t] <= k <=> link[t] <= k - 1 \/ link[t] = k
        BY <2>2, <3>2
      <4>2. link[t] = k => ~(link[t] <= k - 1)
        BY <2>2, <3>2
      <4> QED
        BY <3>1, <4>1, <4>2
    <3>3. CASE t \notin S
      BY <3>3
    <3> QED
      BY <3>2, <3>3
  <2>7. Total(C(k)) = IF k \in Sel THEN r[k] ELSE 0
    <3>1. CASE k \in Sel
      <4> DEFINE G == {u \in S : link[u] = k}
      <4>1. C(k) = [t \in Trades |-> IF t \in G THEN q[t] ELSE 0]
        BY <3>1
      <4>2. Total([t \in G |-> q[t]]) = Total([t \in Trades |-> IF t \in G THEN q[t] ELSE 0])
        BY TotalOfPart
      <4>3. r[k] = Total([t \in G |-> q[t]])
        BY <2>1
      <4> HIDE DEF C, G
      <4> QED
        BY <3>1, <4>1, <4>2, <4>3
    <3>2. CASE k \notin Sel
      <4>1. \A x \in DOMAIN C(k) : C(k)[x] = 0
        BY <3>2
      <4> HIDE DEF C
      <4> QED
        BY <3>2, <4>1, TotalOfNothing
    <3> QED
      BY <3>1, <3>2
  <2> HIDE DEF A, B, C
  <2>8. Total(A(k - 1)) \in Nat /\ Total(A(k)) = Total(A(k - 1)) - A(k - 1)[k] + A(k)[k]
    <3>1. OffAt(Orders, A(k - 1), A(k), k)
      BY <2>1, <2>3, <2>5, RowsFinite DEF OffAt
    <3> QED
      BY <3>1, TotalPoint
  <2>9. /\ Total(B(k - 1)) \in Nat /\ Total(C(k)) \in Nat
        /\ Total(B(k)) = Total(B(k - 1)) + Total(C(k))
    <3>1. AddsUp(Trades, B(k - 1), C(k), B(k))
      BY <2>3, <2>6, RowsFinite DEF AddsUp
    <3> QED
      BY <3>1, TotalPlus
  <2> QED
    BY <1>3, <2>4, <2>7, <2>8, <2>9
<1>4. bad = {}
  <2> SUFFICES ASSUME bad # {} PROVE FALSE
    OBVIOUS
  <2>1. bad \subseteq Nat
    BY <1>1
  <2>2. PICK k \in bad : \A m \in bad : k <= m
    BY <2>1, FirstFailure
  <2>3. k \in 0 .. MaxOrders /\ Total(A(k)) # Total(B(k)) /\ k # 0
    BY <1>2
  <2>4. k - 1 \in 0 .. MaxOrders /\ k \in 1 .. MaxOrders /\ ~(k <= k - 1)
    BY <1>1, <2>3
  <2>5. Total(A(k - 1)) = Total(B(k - 1))
    BY <2>2, <2>4
  <2> QED
    BY <1>3, <2>3, <2>4, <2>5
<1>5. Total(A(MaxOrders)) = Total(B(MaxOrders))
  <2> HIDE DEF A, B
  <2> QED
    BY <1>1, <1>4
<1>6. A(MaxOrders) = [o \in Orders |-> IF o \in Sel THEN r[o] ELSE 0]
  BY <1>1
<1>7. B(MaxOrders) = [t \in Trades |-> IF t \in S /\ link[t] \in Sel THEN q[t] ELSE 0]
  <2>1. \A t \in S : link[t] <= MaxOrders
    BY <1>1
  <2> QED
    BY <2>1
<1> HIDE DEF A, B
<1> QED
  BY <1>5, <1>6, <1>7
-----------------------------------------------------------------------------
(* The ledger of a book of orders, rows of trades, stock, what expiries left *)
(* behind and what was entered                                               *)

Standing == Live \union {"FILLED"}
Undone == {"ABSENT", "DECLINED", "CANCELLED"}
Held == {"PENDING"}
Sold == {"CONFIRMED", "DELIVERED", "PAID"}

\* LinkedOrder of a trade row.
Link(r) == IF r.ask # NoOrder THEN r.ask ELSE r.bid

\* What an order row offers of item i, what a trade row holds or took of it,
\* what an expiry left reserved of it, and what a trade row fills of order o.
Offer(row, i) == IF row.item = i /\ row.status \in Live THEN row.rem ELSE 0
Hold(book, r, kinds, i) ==
    IF r.status \in kinds /\ Link(r) \in Orders /\ book[Link(r)].item = i THEN r.qty ELSE 0
Leftover(row, l, i) == IF row.item = i THEN l ELSE 0
Share(r, o) == IF o \in {r.bid, r.ask} /\ r.status \notin Undone THEN r.qty ELSE 0

Offers(book, i) == [o \in Orders |-> Offer(book[o], i)]
Holds(book, rows, kinds, i) == [t \in Trades |-> Hold(book, rows[t], kinds, i)]
Leftovers(book, left, i) == [o \in Orders |-> Leftover(book[o], left[o], i)]
Shares(rows, o) == [t \in Trades |-> Share(rows[t], o)]

\* Shape of the rows: the lifecycle check of an order, with the bounds that
\* keep sums exact; only an ask has an item; only an expired order left
\* something behind; a trade names orders that exist, and a pending one just
\* one of them; an item that is not there holds nothing.
OrderFits(row, l) ==
    /\ row \in OrderRow /\ row.rem <= row.qty /\ row.qty <= MaxQty
    /\ row.status = "OPEN" => row.rem = row.qty /\ row.rem > 0
    /\ row.status = "PARTIALLY_FILLED" => row.rem > 0 /\ row.rem < row.qty
    /\ row.status \in {"FILLED", "ABSENT"} => row.rem = 0
    /\ row.item # NoItem => row.side = "ASK" /\ row.status # "ABSENT"
    /\ l \in Amounts /\ (l # 0 => row.status = "EXPIRED")
TradeFits(book, r) ==
    /\ r \in TradeRow /\ r.qty <= MaxQty
    /\ r.status # "ABSENT" => /\ Link(r) \in Orders
                              /\ \A o \in Orders : o \in {r.bid, r.ask} => book[o].status # "ABSENT"
    /\ r.status = "PENDING" => (r.bid = NoOrder \/ r.ask = NoOrder) /\ r.qty > 0
StockFits(row) == row \in ItemRow /\ (row.status = "ABSENT" => row = AbsentItem)
TradesFit(book, rows) == \A t \in Trades : TradeFits(book, rows[t])
Fits(book, rows, stock, left) ==
    /\ \A o \in Orders : OrderFits(book[o], left[o])
    /\ TradesFit(book, rows)
    /\ \A i \in Items : StockFits(stock[i])

\* The three balances.
ReservedFor(book, rows, left, i) ==
    Total(Offers(book, i)) + Total(Holds(book, rows, Held, i)) + Total(Leftovers(book, left, i))
Filled(book, rows, o) ==
    /\ book[o].status \in Standing => Total(Shares(rows, o)) = book[o].qty - book[o].rem
    /\ book[o].status \in Withdrawn => Total(Shares(rows, o)) <= book[o].qty - book[o].rem
Balanced(book, rows, stock, left, entered) ==
    /\ Fits(book, rows, stock, left)
    /\ \A i \in Items : stock[i].reserved = ReservedFor(book, rows, left, i)
    /\ \A i \in Items : stock[i].current + stock[i].reserved + Total(Holds(book, rows, Sold, i)) = entered[i]
    /\ \A o \in Orders : Filled(book, rows, o)

\* The inductive invariant behind LedgerBalances.
LedgerInv == Balanced(order, trade, item, stranded, loaded)
-----------------------------------------------------------------------------
(* Facts about the ledger's operators *)

LEMMA RowFacts ==
    /\ MaxQty \in Nat /\ MaxOrders \in Nat /\ 0 \in Amounts /\ NoOrder \notin Orders
    /\ Orders \subseteq Nat /\ NoItem \notin Items
    /\ \A n \in Nat : n <= MaxQty => n \in Amounts
    /\ Amounts \subseteq Nat
  BY MarketConstants DEF Amounts, Orders, NoOrder

LEMMA OfferType ==
    ASSUME NEW row, NEW l, OrderFits(row, l), NEW i
    PROVE  /\ Offer(row, i) \in Amounts /\ Leftover(row, l, i) \in Amounts
           /\ row.rem \in Amounts /\ row.rem \in Nat /\ row.qty \in Nat
<1>1. row.rem \in Nat /\ row.qty \in Nat /\ row.rem <= MaxQty
  BY RowFacts DEF OrderFits, OrderRow
<1> QED
  BY <1>1, RowFacts DEF OrderFits, Offer, Leftover

LEMMA HoldType ==
    ASSUME NEW book, NEW r, TradeFits(book, r), NEW book2, NEW kinds, NEW i, NEW o
    PROVE  Hold(book2, r, kinds, i) \in Amounts /\ Share(r, o) \in Amounts /\ r.qty \in Nat /\ r.qty \in Amounts
<1>1. r.qty \in Nat /\ r.qty <= MaxQty
  BY DEF TradeFits, TradeRow
<1> QED
  BY <1>1, RowFacts DEF Hold, Share

\* The sums are natural numbers.
LEMMA TotalsType ==
    ASSUME NEW book, NEW rows, NEW left, NEW i, NEW kinds, NEW o
    PROVE  /\ Total(Offers(book, i)) \in Nat /\ Total(Leftovers(book, left, i)) \in Nat
           /\ Total(Holds(book, rows, kinds, i)) \in Nat /\ Total(Shares(rows, o)) \in Nat
<1>1. /\ DOMAIN Offers(book, i) = Orders /\ DOMAIN Leftovers(book, left, i) = Orders
      /\ DOMAIN Holds(book, rows, kinds, i) = Trades /\ DOMAIN Shares(rows, o) = Trades
  BY DEF Offers, Leftovers, Holds, Shares
<1> QED
  BY <1>1, RowsFinite, TotalType

\* A row that changes changes each sum by the difference.
LEMMA OfferPoint ==
    ASSUME NEW book, NEW left, \A p \in Orders : OrderFits(book[p], left[p]),
           NEW book2, NEW left2, \A p \in Orders : OrderFits(book2[p], left2[p]),
           NEW o \in Orders, NEW i, \A p \in Orders : p # o => Offer(book2[p], i) = Offer(book[p], i)
    PROVE  /\ Total(Offers(book2, i)) = Total(Offers(book, i)) - Offer(book[o], i) + Offer(book2[o], i)
           /\ Offer(book[o], i) <= Total(Offers(book, i))
<1>1. OffAt(Orders, Offers(book, i), Offers(book2, i), o)
  BY OfferType, RowsFinite DEF OffAt, Offers
<1>2. Offers(book, i)[o] = Offer(book[o], i) /\ Offers(book2, i)[o] = Offer(book2[o], i)
  BY DEF Offers
<1> QED
  BY <1>1, <1>2, TotalPoint

LEMMA LeftoverPoint ==
    ASSUME NEW book, NEW left, \A p \in Orders : OrderFits(book[p], left[p]),
           NEW book2, NEW left2, \A p \in Orders : OrderFits(book2[p], left2[p]),
           NEW o \in Orders, NEW i,
           \A p \in Orders : p # o => Leftover(book2[p], left2[p], i) = Leftover(book[p], left[p], i)
    PROVE  Total(Leftovers(book2, left2, i)) = Total(Leftovers(book, left, i))
             - Leftover(book[o], left[o], i) + Leftover(book2[o], left2[o], i)
<1>1. OffAt(Orders, Leftovers(book, left, i), Leftovers(book2, left2, i), o)
  BY OfferType, RowsFinite DEF OffAt, Leftovers
<1>2. /\ Leftovers(book, left, i)[o] = Leftover(book[o], left[o], i)
      /\ Leftovers(book2, left2, i)[o] = Leftover(book2[o], left2[o], i)
  BY DEF Leftovers
<1> QED
  BY <1>1, <1>2, TotalPoint

LEMMA HoldPoint ==
    ASSUME NEW book, NEW rows, TradesFit(book, rows),
           NEW book2, NEW rows2, TradesFit(book2, rows2),
           NEW t \in Trades, NEW kinds, NEW i,
           \A u \in Trades : u # t => Hold(book2, rows2[u], kinds, i) = Hold(book, rows[u], kinds, i)
    PROVE  /\ Total(Holds(book2, rows2, kinds, i)) = Total(Holds(book, rows, kinds, i))
               - Hold(book, rows[t], kinds, i) + Hold(book2, rows2[t], kinds, i)
           /\ Hold(book, rows[t], kinds, i) <= Total(Holds(book, rows, kinds, i))
<1>1. OffAt(Trades, Holds(book, rows, kinds, i), Holds(book2, rows2, kinds, i), t)
  BY HoldType, RowsFinite DEF TradesFit, OffAt, Holds
<1>2. /\ Holds(book, rows, kinds, i)[t] = Hold(book, rows[t], kinds, i)
      /\ Holds(book2, rows2, kinds, i)[t] = Hold(book2, rows2[t], kinds, i)
  BY DEF Holds
<1> QED
  BY <1>1, <1>2, TotalPoint

LEMMA SharePoint ==
    ASSUME NEW book, NEW rows, TradesFit(book, rows),
           NEW book2, NEW rows2, TradesFit(book2, rows2),
           NEW t \in Trades, NEW o, \A u \in Trades : u # t => rows2[u] = rows[u]
    PROVE  /\ Total(Shares(rows2, o)) = Total(Shares(rows, o)) - Share(rows[t], o) + Share(rows2[t], o)
           /\ Share(rows[t], o) <= Total(Shares(rows, o))
<1>1. OffAt(Trades, Shares(rows, o), Shares(rows2, o), t)
  BY HoldType, RowsFinite DEF TradesFit, OffAt, Shares
<1>2. Shares(rows, o)[t] = Share(rows[t], o) /\ Shares(rows2, o)[t] = Share(rows2[t], o)
  BY DEF Shares
<1> QED
  BY <1>1, <1>2, TotalPoint

\* Orders stay what they are listings of.
SameListings(book, book2) ==
    \A p \in Orders : book[p].status # "ABSENT" => book2[p].status # "ABSENT" /\ book2[p].item = book[p].item

LEMMA TradeFitsKept ==
    ASSUME NEW book, NEW r, TradeFits(book, r), NEW book2, SameListings(book, book2)
    PROVE  TradeFits(book2, r)
  BY DEF TradeFits, SameListings

LEMMA HoldKept ==
    ASSUME NEW book, NEW r, TradeFits(book, r), NEW book2, SameListings(book, book2),
           NEW kinds, "ABSENT" \notin kinds, NEW i
    PROVE  Hold(book2, r, kinds, i) = Hold(book, r, kinds, i)
<1>1. r.status # "ABSENT" => Link(r) \in {r.bid, r.ask}
  BY DEF Link
<1> QED
  BY <1>1 DEF TradeFits, SameListings, Hold

LEMMA LeftoverKept ==
    ASSUME NEW row, NEW l, OrderFits(row, l), NEW row2,
           row.status # "ABSENT" => row2.item = row.item, NEW i
    PROVE  Leftover(row2, l, i) = Leftover(row, l, i)
  BY DEF OrderFits, Leftover
\* The invariant's sums are the ones the property is stated with.
LEMMA LedgerSums ==
    ASSUME WellFormed, NEW i \in Items
    PROVE  /\ ListedOf(i) = Total(Offers(order, i))
           /\ PendingOn(i) = Total(Holds(order, trade, Held, i))
           /\ SoldOf(i) = Total(Holds(order, trade, Sold, i))
           /\ StrandedOf(i) = Total(Leftovers(order, stranded, i))
<1>1. ListedOf(i) = Total(Offers(order, i))
  <2> DEFINE S == {p \in ListingsOf(i) : order[p].status \in Live}
             f == [o \in Orders |-> order[o].rem]
  <2>1. S \subseteq Orders
    BY DEF ListingsOf
  <2>2. ListedOf(i) = Total([o \in S |-> f[o]])
    <3>1. [o \in S |-> f[o]] = [o \in S |-> order[o].rem]
      BY <2>1
    <3> QED BY <3>1 DEF ListedOf
  <2>3. [o \in Orders |-> IF o \in S THEN f[o] ELSE 0] = Offers(order, i)
    BY DEF Offers, Offer, ListingsOf
  <2> HIDE DEF S, f
  <2> QED BY <2>1, <2>2, <2>3, TotalOfPart
<1>2. ASSUME NEW kinds, "ABSENT" \notin kinds
      PROVE  Total([t \in TradesOn(i, kinds) |-> trade[t].qty]) = Total(Holds(order, trade, kinds, i))
  <2> DEFINE S == TradesOn(i, kinds)
             f == [t \in Trades |-> trade[t].qty]
  <2>1. S \subseteq Trades
    BY DEF TradesOn
  <2>2. [t \in S |-> f[t]] = [t \in S |-> trade[t].qty]
    BY <2>1
  <2>3. [t \in Trades |-> IF t \in S THEN f[t] ELSE 0] = Holds(order, trade, kinds, i)
    BY DEF Holds, Hold, Link, TradesOn, LinkedOrder, ListingsOf
  <2> HIDE DEF f, S
  <2>4. Total([t \in S |-> f[t]]) = Total([t \in Trades |-> IF t \in S THEN f[t] ELSE 0])
    BY <2>1, TotalOfPart
  <2> USE DEF S
  <2> QED BY <2>2, <2>3, <2>4
<1>3. PendingOn(i) = Total(Holds(order, trade, Held, i))
  BY <1>2 DEF PendingOn, Held
<1>4. SoldOf(i) = Total(Holds(order, trade, Sold, i))
  BY <1>2 DEF SoldOf, Sold
<1>5. StrandedOf(i) = Total(Leftovers(order, stranded, i))
  <2>1. ListingsOf(i) \subseteq Orders
    BY DEF ListingsOf
  <2>2. [o \in Orders |-> IF o \in ListingsOf(i) THEN stranded[o] ELSE 0] = Leftovers(order, stranded, i)
    BY DEF Leftovers, Leftover, ListingsOf
  <2> QED BY <2>1, <2>2, TotalOfPart DEF StrandedOf
<1> QED
  BY <1>1, <1>3, <1>4, <1>5

LEMMA LedgerShares ==
    ASSUME NEW o \in Orders
    PROVE  Total([t \in {u \in Trades : /\ o \in {trade[u].bid, trade[u].ask}
                                        /\ trade[u].status \notin {"ABSENT", "DECLINED", "CANCELLED"}}
                    |-> trade[t].qty]) = Total(Shares(trade, o))
<1> DEFINE S == {u \in Trades : /\ o \in {trade[u].bid, trade[u].ask}
                                /\ trade[u].status \notin {"ABSENT", "DECLINED", "CANCELLED"}}
           f == [t \in Trades |-> trade[t].qty]
<1>1. [t \in S |-> f[t]] = [t \in S |-> trade[t].qty]
  OBVIOUS
<1>2. [t \in Trades |-> IF t \in S THEN f[t] ELSE 0] = Shares(trade, o)
  BY DEF Shares, Share, Undone
<1>3. Total([t \in S |-> f[t]]) = Total([t \in Trades |-> IF t \in S THEN f[t] ELSE 0])
  BY TotalOfPart
<1> HIDE DEF f
<1> QED
  BY <1>1, <1>2, <1>3

LEMMA LedgerImplies == WellFormed /\ LedgerInv => LedgerBalances
<1> SUFFICES ASSUME WellFormed, LedgerInv PROVE LedgerBalances
  OBVIOUS
<1>1. ReservationLedger
  BY LedgerSums DEF LedgerInv, Balanced, ReservedFor, ReservationLedger
<1>2. StockConservation
  BY LedgerSums DEF LedgerInv, Balanced, StockConservation
<1>3. FilledByTrades
  BY LedgerShares DEF LedgerInv, Balanced, Filled, Standing, FilledByTrades
<1>4. OrderLifecycle
  BY DEF LedgerInv, Balanced, Fits, OrderFits, OrderLifecycle
<1> QED
  BY <1>1, <1>2, <1>3, <1>4 DEF LedgerBalances

-----------------------------------------------------------------------------
(* How the balances move *)

\* One order row changes, and no trade: its item is charged what the order
\* offers, or left behind, more than before.
OrderMove(book, book2, left, left2, stock, stock2, o) ==
    /\ o \in Orders
    /\ \A p \in Orders : p # o => book2[p] = book[p] /\ left2[p] = left[p]
    /\ OrderFits(book2[o], left2[o])
    /\ book2[o].status # "ABSENT"
    /\ book[o].status # "ABSENT" => book2[o].item = book[o].item
    /\ \A i \in Items : /\ StockFits(stock2[i])
                        /\ stock2[i].reserved = stock[i].reserved
                             - Offer(book[o], i) + Offer(book2[o], i)
                             - Leftover(book[o], left[o], i) + Leftover(book2[o], left2[o], i)
                        /\ stock2[i].current + stock2[i].reserved = stock[i].current + stock[i].reserved
    /\ \/ book[o].status = "ABSENT" /\ book2[o].rem = book2[o].qty
       \/ /\ book[o].status \in Standing
          /\ book2[o].qty - book2[o].rem = book[o].qty - book[o].rem

LEMMA OrderMoves ==
    ASSUME NEW book, NEW rows, NEW stock, NEW left, NEW entered,
           Balanced(book, rows, stock, left, entered),
           NEW book2, NEW stock2, NEW left2, NEW o,
           OrderMove(book, book2, left, left2, stock, stock2, o)
    PROVE  Balanced(book2, rows, stock2, left2, entered)
<1> USE DEF OrderMove
<1>1. /\ \A p \in Orders : OrderFits(book[p], left[p])
      /\ \A t \in Trades : TradeFits(book, rows[t])
      /\ \A i \in Items : StockFits(stock[i])
  BY DEF Balanced, Fits, TradesFit
<1>2. \A p \in Orders : OrderFits(book2[p], left2[p])
  BY <1>1
<1>3. SameListings(book, book2)
  BY DEF SameListings
<1>4. ASSUME NEW kinds, "ABSENT" \notin kinds, NEW i
      PROVE  Holds(book2, rows, kinds, i) = Holds(book, rows, kinds, i)
  BY <1>1, <1>3, <1>4, HoldKept DEF Holds
<1>5. Fits(book2, rows, stock2, left2)
  <2>1. \A t \in Trades : TradeFits(book2, rows[t])
    BY <1>1, <1>3, TradeFitsKept
  <2> QED BY <1>2, <2>1 DEF Fits, TradesFit
<1>6. ASSUME NEW i \in Items
      PROVE  /\ stock2[i].reserved = ReservedFor(book2, rows, left2, i)
             /\ stock2[i].current + stock2[i].reserved + Total(Holds(book2, rows, Sold, i)) = entered[i]
  <2>1. Total(Offers(book2, i)) = Total(Offers(book, i)) - Offer(book[o], i) + Offer(book2[o], i)
    BY <1>1, <1>2, OfferPoint
  <2>2. Total(Leftovers(book2, left2, i)) = Total(Leftovers(book, left, i))
             - Leftover(book[o], left[o], i) + Leftover(book2[o], left2[o], i)
    <3>1. \A p \in Orders : p # o => Leftover(book2[p], left2[p], i) = Leftover(book[p], left[p], i)
      BY DEF Leftover
    <3> QED
      BY <1>1, <1>2, <3>1, LeftoverPoint
  <2>3. /\ Total(Holds(book2, rows, Held, i)) = Total(Holds(book, rows, Held, i))
        /\ Total(Holds(book2, rows, Sold, i)) = Total(Holds(book, rows, Sold, i))
    BY <1>4 DEF Held, Sold
  <2>4. /\ stock[i].reserved = ReservedFor(book, rows, left, i)
        /\ stock[i].current + stock[i].reserved + Total(Holds(book, rows, Sold, i)) = entered[i]
    BY DEF Balanced
  <2>5. /\ Total(Offers(book, i)) \in Nat /\ Total(Leftovers(book, left, i)) \in Nat
        /\ Total(Holds(book, rows, Held, i)) \in Nat /\ Total(Holds(book, rows, Sold, i)) \in Nat
    BY TotalsType
  <2>6. /\ Offer(book[o], i) \in Nat /\ Offer(book2[o], i) \in Nat
        /\ Leftover(book[o], left[o], i) \in Nat /\ Leftover(book2[o], left2[o], i) \in Nat
    BY <1>1, <1>2, OfferType, RowFacts
  <2>7. stock[i].current \in Nat /\ stock[i].reserved \in Nat
    BY <1>1 DEF StockFits, ItemRow
  <2>8. /\ stock2[i].reserved = stock[i].reserved
                                 - Offer(book[o], i) + Offer(book2[o], i)
                                 - Leftover(book[o], left[o], i) + Leftover(book2[o], left2[o], i)
        /\ stock2[i].current + stock2[i].reserved = stock[i].current + stock[i].reserved
    OBVIOUS
  <2>9. stock2[i].reserved = ReservedFor(book2, rows, left2, i)
    BY <2>1, <2>2, <2>3, <2>4, <2>5, <2>6, <2>8 DEF ReservedFor
  <2> QED
    BY <2>3, <2>4, <2>8, <2>9
<1>7. ASSUME NEW p \in Orders PROVE Filled(book2, rows, p)
  <2>1. Filled(book, rows, p)
    BY DEF Balanced
  <2>2. CASE p # o
    BY <2>1, <2>2 DEF Filled
  <2>3. CASE p = o /\ book[o].status \in Standing
    <3>1. Total(Shares(rows, o)) = book2[o].qty - book2[o].rem
      BY <2>1, <2>3 DEF Filled, Standing, Live
    <3>2. book2[o].qty \in Nat /\ book2[o].rem \in Nat
      BY <1>2, OfferType
    <3> QED BY <2>3, <3>1, <3>2 DEF Filled
  <2>4. CASE p = o /\ book[o].status = "ABSENT"
    <3>1. \A t \in Trades : Shares(rows, o)[t] = 0
      BY <1>1, <2>4 DEF TradeFits, Shares, Share, Undone
    <3>2. Total(Shares(rows, o)) = 0
      BY <3>1, TotalOfNothing DEF Shares
    <3>3. book2[o].qty \in Nat /\ book2[o].rem = book2[o].qty
      BY <1>2, <2>4, OfferType DEF Standing, Live
    <3> QED BY <2>4, <3>2, <3>3 DEF Filled
  <2> QED
    BY <2>2, <2>3, <2>4
<1> QED
  BY <1>5, <1>6, <1>7 DEF Balanced
\* What one trade row's change asks of order p's row.
FillMoves(book, book2, r, r2, p) ==
    /\ book2[p].status \in Standing =>
          /\ book[p].status \in Standing
          /\ book2[p].qty - book2[p].rem = book[p].qty - book[p].rem - Share(r, p) + Share(r2, p)
    /\ book2[p].status \in Withdrawn =>
          /\ book[p].status \in Standing \union Withdrawn
          /\ book2[p].qty - book2[p].rem >= book[p].qty - book[p].rem - Share(r, p) + Share(r2, p)

\* One trade row changes, and what order o offers: their items are charged
\* what they hold more than before, and orders are filled by the trade.
TradeMove(book, book2, rows, rows2, left, stock, stock2, t, o) ==
    /\ t \in Trades /\ o \in Orders
    /\ \A p \in Orders : OrderFits(book2[p], left[p])
    /\ SameListings(book, book2)
    /\ \A u \in Trades : u # t => rows2[u] = rows[u]
    /\ TradeFits(book2, rows2[t])
    /\ \A p \in Orders, i \in Items : p # o => Offer(book2[p], i) = Offer(book[p], i)
    /\ \A i \in Items : /\ StockFits(stock2[i])
                        /\ stock2[i].reserved = stock[i].reserved
                             - Offer(book[o], i) + Offer(book2[o], i)
                             - Hold(book, rows[t], Held, i) + Hold(book2, rows2[t], Held, i)
                        /\ stock2[i].current + stock2[i].reserved + Hold(book2, rows2[t], Sold, i)
                             = stock[i].current + stock[i].reserved + Hold(book, rows[t], Sold, i)
    /\ \A p \in Orders : FillMoves(book, book2, rows[t], rows2[t], p)

LEMMA TradeMoves ==
    ASSUME NEW book, NEW rows, NEW stock, NEW left, NEW entered,
           Balanced(book, rows, stock, left, entered),
           NEW book2, NEW rows2, NEW stock2, NEW t, NEW o,
           TradeMove(book, book2, rows, rows2, left, stock, stock2, t, o)
    PROVE  Balanced(book2, rows2, stock2, left, entered)
<1> USE DEF TradeMove
<1>1. /\ \A p \in Orders : OrderFits(book[p], left[p])
      /\ \A u \in Trades : TradeFits(book, rows[u])
      /\ \A i \in Items : StockFits(stock[i])
  BY DEF Balanced, Fits, TradesFit
<1>2. \A u \in Trades : TradeFits(book2, rows2[u])
  BY <1>1, TradeFitsKept
<1>3. Fits(book2, rows2, stock2, left) /\ TradesFit(book, rows) /\ TradesFit(book2, rows2)
  BY <1>1, <1>2 DEF Fits, TradesFit
<1>4. ASSUME NEW kinds, "ABSENT" \notin kinds, NEW i
      PROVE  /\ Total(Holds(book2, rows2, kinds, i)) = Total(Holds(book, rows, kinds, i))
                  - Hold(book, rows[t], kinds, i) + Hold(book2, rows2[t], kinds, i)
             /\ Hold(book, rows[t], kinds, i) \in Nat /\ Hold(book2, rows2[t], kinds, i) \in Nat
  <2>1. \A u \in Trades : u # t => Hold(book2, rows2[u], kinds, i) = Hold(book, rows[u], kinds, i)
    BY <1>1, <1>4, HoldKept
  <2>2. Hold(book, rows[t], kinds, i) \in Nat /\ Hold(book2, rows2[t], kinds, i) \in Nat
    BY <1>1, HoldType, RowFacts
  <2>3. Total(Holds(book2, rows2, kinds, i)) = Total(Holds(book, rows, kinds, i))
                  - Hold(book, rows[t], kinds, i) + Hold(book2, rows2[t], kinds, i)
    BY <1>3, <2>1, HoldPoint
  <2> QED BY <2>2, <2>3
<1>5. ASSUME NEW i \in Items
      PROVE  /\ stock2[i].reserved = ReservedFor(book2, rows2, left, i)
             /\ stock2[i].current + stock2[i].reserved + Total(Holds(book2, rows2, Sold, i)) = entered[i]
  <2>1. Total(Offers(book2, i)) = Total(Offers(book, i)) - Offer(book[o], i) + Offer(book2[o], i)
    BY <1>1, OfferPoint
  <2>2. Leftovers(book2, left, i) = Leftovers(book, left, i)
    BY <1>1, LeftoverKept DEF Leftovers, SameListings
  <2>3. /\ Total(Holds(book2, rows2, Held, i)) = Total(Holds(book, rows, Held, i))
             - Hold(book, rows[t], Held, i) + Hold(book2, rows2[t], Held, i)
        /\ Hold(book, rows[t], Held, i) \in Nat /\ Hold(book2, rows2[t], Held, i) \in Nat
    BY <1>4 DEF Held
  <2>4. /\ Total(Holds(book2, rows2, Sold, i)) = Total(Holds(book, rows, Sold, i))
             - Hold(book, rows[t], Sold, i) + Hold(book2, rows2[t], Sold, i)
        /\ Hold(book, rows[t], Sold, i) \in Nat /\ Hold(book2, rows2[t], Sold, i) \in Nat
    BY <1>4 DEF Sold
  <2>5. /\ stock[i].reserved = ReservedFor(book, rows, left, i)
        /\ stock[i].current + stock[i].reserved + Total(Holds(book, rows, Sold, i)) = entered[i]
    BY DEF Balanced
  <2>6. /\ Total(Offers(book, i)) \in Nat /\ Total(Leftovers(book, left, i)) \in Nat
        /\ Total(Holds(book, rows, Held, i)) \in Nat /\ Total(Holds(book, rows, Sold, i)) \in Nat
    BY TotalsType
  <2>7. Offer(book[o], i) \in Nat /\ Offer(book2[o], i) \in Nat
    BY <1>1, OfferType, RowFacts
  <2>8. /\ stock[i].current \in Nat /\ stock[i].reserved \in Nat
        /\ stock2[i].current \in Nat /\ stock2[i].reserved \in Nat
    BY <1>1 DEF StockFits, ItemRow
  <2>9. /\ stock2[i].reserved = stock[i].reserved
                                 - Offer(book[o], i) + Offer(book2[o], i)
                                 - Hold(book, rows[t], Held, i) + Hold(book2, rows2[t], Held, i)
        /\ stock2[i].current + stock2[i].reserved + Hold(book2, rows2[t], Sold, i)
             = stock[i].current + stock[i].reserved + Hold(book, rows[t], Sold, i)
    OBVIOUS
  <2>10. stock2[i].reserved = ReservedFor(book2, rows2, left, i)
    BY <2>1, <2>2, <2>3, <2>5, <2>6, <2>7, <2>9 DEF ReservedFor
  <2> QED
    BY <2>4, <2>5, <2>6, <2>8, <2>9, <2>10
<1>6. ASSUME NEW p \in Orders PROVE Filled(book2, rows2, p)
  <2>1. Filled(book, rows, p) /\ FillMoves(book, book2, rows[t], rows2[t], p)
    BY DEF Balanced
  <2>2. Total(Shares(rows2, p)) = Total(Shares(rows, p)) - Share(rows[t], p) + Share(rows2[t], p)
    BY <1>3, SharePoint
  <2>3. /\ Total(Shares(rows, p)) \in Nat /\ Share(rows[t], p) \in Nat /\ Share(rows2[t], p) \in Nat
        /\ book[p].qty \in Nat /\ book[p].rem \in Nat /\ book2[p].qty \in Nat /\ book2[p].rem \in Nat
    <3>1. Total(Shares(rows, p)) \in Nat
      BY TotalsType
    <3>2. Share(rows[t], p) \in Nat /\ Share(rows2[t], p) \in Nat
      BY <1>1, <1>2, HoldType, RowFacts
    <3>3. /\ book[p].qty \in Nat /\ book[p].rem \in Nat /\ book2[p].qty \in Nat /\ book2[p].rem \in Nat
      BY <1>1, OfferType
    <3> QED BY <3>1, <3>2, <3>3
  <2>4. CASE book2[p].status \in Standing
    <3>1. book2[p].status \notin Withdrawn
      BY <2>4 DEF Standing, Live, Withdrawn
    <3> QED BY <2>1, <2>2, <2>3, <2>4, <3>1 DEF Filled, FillMoves
  <2>5. CASE book2[p].status \in Withdrawn
    <3>1. book2[p].status \notin Standing
      BY <2>5 DEF Standing, Live, Withdrawn
    <3>2. Total(Shares(rows, p)) <= book[p].qty - book[p].rem
      BY <2>1, <2>3, <2>5 DEF Filled, FillMoves
    <3>3. book2[p].qty - book2[p].rem >= book[p].qty - book[p].rem - Share(rows[t], p) + Share(rows2[t], p)
      BY <2>1, <2>5 DEF FillMoves
    <3> QED BY <2>2, <2>3, <3>1, <3>2, <3>3 DEF Filled
  <2> QED
    BY <2>4, <2>5 DEF Filled
<1> QED
  BY <1>3, <1>5, <1>6 DEF Balanced
-----------------------------------------------------------------------------
(* The handlers *)

LEMMA LedgerRows ==
    ASSUME LedgerInv
    PROVE  /\ \A p \in Orders : OrderFits(order[p], stranded[p])
           /\ \A u \in Trades : TradeFits(order, trade[u])
           /\ \A i \in Items : StockFits(item[i])
           /\ TradesFit(order, trade)
  BY DEF LedgerInv, Balanced, Fits, TradesFit

\* release_inventory moves stock from reserved to free, on rows that hold it.
LEMMA ReleaseMoves ==
    ASSUME NEW q \in [Items -> Nat], CanRelease(q), NEW i \in Items, StockFits(item[i])
    PROVE  /\ StockFits(ReleaseAll(q)[i])
           /\ ReleaseAll(q)[i].reserved = item[i].reserved - q[i]
           /\ ReleaseAll(q)[i].current = item[i].current + q[i]
<1>1. item[i] \in ItemRow /\ item[i].current \in Nat /\ item[i].reserved \in Nat /\ q[i] \in Nat
  BY DEF StockFits, ItemRow
<1>2. q[i] > 0 => item[i].status = "PRESENT" /\ item[i].reserved >= q[i]
  BY DEF CanRelease
<1>3. ReleaseAll(q)[i] = [item[i] EXCEPT !.current = item[i].current + q[i], !.reserved = item[i].reserved - q[i]]
  BY DEF ReleaseAll, Release
<1>4. item[i].current + q[i] \in Nat /\ item[i].reserved - q[i] \in Nat
  BY <1>1, <1>2
<1>5. item[i].status = "ABSENT" => q[i] = 0 /\ item[i].current = 0 /\ item[i].reserved = 0
  BY <1>1, <1>2 DEF StockFits, AbsentItem
<1>6. ReleaseAll(q)[i] \in ItemRow
  BY <1>1, <1>3, <1>4 DEF ItemRow
<1>7. ReleaseAll(q)[i].status = "ABSENT" => ReleaseAll(q)[i] = AbsentItem
  <2> SUFFICES ASSUME item[i].status = "ABSENT" PROVE ReleaseAll(q)[i] = AbsentItem
    BY <1>1, <1>3 DEF ItemRow
  <2>1. item[i] = AbsentItem
    BY DEF StockFits
  <2>2. ReleaseAll(q)[i] = [AbsentItem EXCEPT !.current = 0, !.reserved = 0]
    <3>1. item[i].current + q[i] = 0 /\ item[i].reserved - q[i] = 0
      BY <1>5
    <3> QED
      BY <1>3, <2>1, <3>1
  <2> QED
    BY <2>2 DEF AbsentItem
<1>8. ReleaseAll(q)[i].reserved = item[i].reserved - q[i] /\ ReleaseAll(q)[i].current = item[i].current + q[i]
  BY <1>1, <1>3 DEF ItemRow
<1> QED
  BY <1>6, <1>7, <1>8 DEF StockFits

LEMMA OnItemAt ==
    ASSUME NEW j, NEW q, NEW i \in Items, j \in Items \union {NoItem}
    PROVE  OnItem(j, q)[i] = IF i = j THEN q ELSE 0
  BY RowFacts DEF OnItem, Nothing

\* consume_inventory on the row of item j, if there is one.
LEMMA ConsumeMoves ==
    ASSUME NEW j \in Items \union {NoItem}, NEW q \in Nat,
           item \in [Items -> ItemRow], NEW i \in Items, StockFits(item[i]),
           j # NoItem => item[j].status = "PRESENT" /\ item[j].reserved >= q,
           NEW stock, stock = (IF j = NoItem THEN item ELSE [item EXCEPT ![j] = Consume(@, q)])
    PROVE  /\ StockFits(stock[i])
           /\ stock[i].reserved = item[i].reserved - (IF i = j THEN q ELSE 0)
           /\ stock[i].current = item[i].current
<1>1. item[i] \in ItemRow /\ item[i].current \in Nat /\ item[i].reserved \in Nat
  BY DEF ItemRow
<1>2. CASE i # j
  <2>1. stock[i] = item[i]
    BY <1>2
  <2> QED BY <1>1, <1>2, <2>1
<1>3. CASE i = j
  <2>1. stock[i] = [item[i] EXCEPT !.reserved = item[i].reserved - q]
    BY <1>3, RowFacts DEF Consume
  <2>2. item[i].status = "PRESENT" /\ item[i].reserved - q \in Nat
    BY <1>1, <1>3, RowFacts
  <2> QED BY <1>1, <1>3, <2>1, <2>2 DEF StockFits, ItemRow
<1> QED
  BY <1>2, <1>3

\* cancel_order returns exactly what the order still offered.
LEMMA CancelBalances ==
    ASSUME WellFormed, LedgerInv, NEW o \in Orders, CancelOrder(o)
    PROVE  LedgerInv'
<1> DEFINE row == order[o]
           new == [row EXCEPT !.status = "CANCELLED"]
<1>1. row.status \in Live /\ OrderFits(row, stranded[o]) /\ row \in OrderRow
  BY LedgerRows DEF CancelOrder, OrderFits
<1>2. order' = [order EXCEPT ![o] = new] /\ order \in [Orders -> OrderRow]
  BY DEF CancelOrder, WellFormed, TypeOK
<1>3. new.status = "CANCELLED" /\ new.item = row.item /\ new.rem = row.rem /\ new.qty = row.qty
  BY <1>1 DEF OrderRow
<1>4. OrderFits(new, stranded[o])
  <2>1. new \in OrderRow /\ new.side = row.side
    BY <1>1 DEF OrderRow, OrderStatuses, Withdrawn
  <2>2. stranded[o] = 0
    BY <1>1 DEF OrderFits, Live
  <2> HIDE DEF new, row
  <2> QED BY <1>1, <1>3, <2>1, <2>2 DEF OrderFits
<1>5. \A i \in Items : Offer(new, i) = 0 /\ Leftover(new, stranded[o], i) = Leftover(row, stranded[o], i)
  BY <1>3 DEF Offer, Leftover, Live
<1>6. ASSUME NEW i \in Items
      PROVE  /\ StockFits(item'[i])
             /\ item'[i].reserved = item[i].reserved - Offer(row, i)
             /\ item'[i].current = item[i].current + Offer(row, i)
             /\ item[i].reserved \in Nat /\ item[i].current \in Nat /\ Offer(row, i) \in Nat
             /\ Leftover(row, stranded[o], i) \in Nat
  <2> DEFINE q == OnItem(row.item, row.rem)
  <2>1. row.item \in Items \union {NoItem} /\ row.rem \in Nat
    BY <1>1 DEF OrderRow
  <2>2. q \in [Items -> Nat] /\ CanRelease(q) /\ item' = ReleaseAll(q)
    BY <2>1, OnItemType DEF CancelOrder
  <2>3. q[i] = Offer(row, i)
    BY <1>1, <2>1, OnItemAt DEF Offer
  <2>4. StockFits(item[i])
    BY LedgerRows
  <2> HIDE DEF q
  <2>5. /\ StockFits(ReleaseAll(q)[i])
        /\ ReleaseAll(q)[i].reserved = item[i].reserved - q[i]
        /\ ReleaseAll(q)[i].current = item[i].current + q[i]
    BY <2>2, <2>4, ReleaseMoves
  <2>6. item[i].reserved \in Nat /\ item[i].current \in Nat /\ Offer(row, i) \in Nat
        /\ Leftover(row, stranded[o], i) \in Nat
    BY <1>1, <2>4, OfferType, RowFacts DEF StockFits, ItemRow
  <2> QED
    BY <2>2, <2>3, <2>5, <2>6
<1>7. \A i \in Items : /\ item'[i].reserved = item[i].reserved - Offer(row, i) + Offer(new, i)
                            - Leftover(row, stranded[o], i) + Leftover(new, stranded[o], i)
                       /\ item'[i].current + item'[i].reserved = item[i].current + item[i].reserved
  BY <1>5, <1>6
<1>8. order'[o] = new /\ \A p \in Orders : p # o => order'[p] = order[p]
  BY <1>2
<1>9. stranded' = stranded /\ trade' = trade /\ loaded' = loaded
  BY DEF CancelOrder, history
<1>10. row.status \in Standing /\ new.qty - new.rem = row.qty - row.rem
  BY <1>1, <1>3 DEF Standing
<1> HIDE DEF new
<1>11. OrderMove(order, order', stranded, stranded, item, item', o)
  BY <1>1, <1>3, <1>4, <1>6, <1>7, <1>8, <1>10 DEF OrderMove
<1> QED
  BY <1>9, <1>11, OrderMoves DEF LedgerInv
\* match_order's entry keeps the books for whatever row it is given: what an
\* expiry inside it takes off the book stays reserved, and is accounted for.
LEMMA SubmitBalances ==
    ASSUME WellFormed, LedgerInv, NEW o \in Orders, NEW row, NEW now,
           SubmitForMatching(o, row, now),
           OrderFits(row, 0), row.status \in Standing,
           order[o].status # "ABSENT" => row.item = order[o].item,
           \/ order[o].status = "ABSENT" /\ row.rem = row.qty
           \/ order[o].status \in Standing /\ row.qty - row.rem = order[o].qty - order[o].rem,
           \A i \in Items : /\ StockFits(item'[i])
                            /\ item'[i].reserved = item[i].reserved - Offer(order[o], i) + Offer(row, i)
                            /\ item'[i].current + item'[i].reserved = item[i].current + item[i].reserved
    PROVE  Balanced(order', trade, item', stranded', loaded)
<1> DEFINE new == order'[o]
           gone == [row EXCEPT !.status = "EXPIRED"]
<1>1. /\ order' = [order EXCEPT ![o] = IF ExpiresOnEntry(row, now) THEN gone ELSE row]
      /\ stranded' = [stranded EXCEPT ![o] = IF ExpiresOnEntry(row, now) /\ row.item # NoItem
                                             THEN row.rem ELSE stranded[o]]
  BY DEF SubmitForMatching
<1>2. order \in [Orders -> OrderRow] /\ stranded \in [Orders -> Nat]
  BY DEF WellFormed, TypeOK
<1>3. row \in OrderRow /\ row.rem \in Nat /\ row.qty \in Nat /\ row.rem \in Amounts
  BY OfferType DEF OrderFits
<1>4. stranded[o] = 0
  BY LedgerRows DEF OrderFits, Standing, Live
<1>5. \A p \in Orders : p # o => order'[p] = order[p] /\ stranded'[p] = stranded[p]
  BY <1>1, <1>2
<1>6. CASE ~ExpiresOnEntry(row, now)
  <2>1. order'[o] = row /\ stranded'[o] = 0
    BY <1>1, <1>2, <1>4, <1>6
  <2>2. \A i \in Items : Leftover(order[o], stranded[o], i) = 0 /\ Leftover(row, stranded'[o], i) = 0
    BY <1>4, <2>1 DEF Leftover
  <2>3. \A i \in Items : item[i].reserved \in Nat /\ Offer(order[o], i) \in Nat /\ Offer(row, i) \in Nat
    BY LedgerRows, OfferType, RowFacts DEF StockFits, ItemRow
  <2>4. \A i \in Items : item'[i].reserved = item[i].reserved - Offer(order[o], i) + Offer(row, i)
                            - Leftover(order[o], stranded[o], i) + Leftover(row, stranded'[o], i)
    BY <2>2, <2>3
  <2>5. row.status # "ABSENT"
    BY DEF Standing, Live
  <2>6. OrderMove(order, order', stranded, stranded', item, item', o)
    BY <1>5, <2>1, <2>4, <2>5 DEF OrderMove
  <2> QED
    BY <2>6, OrderMoves DEF LedgerInv
<1>7. CASE ExpiresOnEntry(row, now)
  <2>1. order'[o] = gone /\ stranded'[o] = IF row.item # NoItem THEN row.rem ELSE 0
    BY <1>1, <1>2, <1>4, <1>7
  <2>2. row.rem > 0
    BY <1>7 DEF ExpiresOnEntry
  <2>3. /\ gone \in OrderRow /\ gone.status = "EXPIRED" /\ gone.item = row.item
        /\ gone.rem = row.rem /\ gone.qty = row.qty /\ gone.side = row.side
    BY <1>3 DEF OrderRow, OrderStatuses, Withdrawn
  <2>4. row.status \in Live
    BY <2>2 DEF Standing, OrderFits
  <2> HIDE DEF gone
  <2>5. OrderFits(gone, stranded'[o])
    <3>1. stranded'[o] \in Amounts
      BY <1>3, <2>1, RowFacts
    <3> QED BY <2>3, <3>1 DEF OrderFits
  <2>6. \A i \in Items : /\ Leftover(order[o], stranded[o], i) = 0
                         /\ Offer(gone, i) = 0 /\ Leftover(gone, stranded'[o], i) = Offer(row, i)
    BY <1>4, <2>1, <2>3, <2>4, RowFacts DEF Leftover, Offer, Live
  <2>7. \A i \in Items : item[i].reserved \in Nat /\ Offer(order[o], i) \in Nat /\ Offer(row, i) \in Nat
    BY LedgerRows, OfferType, RowFacts DEF StockFits, ItemRow
  <2>8. \A i \in Items : item'[i].reserved = item[i].reserved - Offer(order[o], i) + Offer(gone, i)
                            - Leftover(order[o], stranded[o], i) + Leftover(gone, stranded'[o], i)
    BY <2>6, <2>7
  <2>9. OrderMove(order, order', stranded, stranded', item, item', o)
    BY <1>5, <2>1, <2>3, <2>5, <2>8 DEF OrderMove
  <2> QED
    BY <2>9, OrderMoves DEF LedgerInv
<1> QED
  BY <1>6, <1>7

LEMMA CreateBalances ==
    ASSUME WellFormed, LedgerInv, NEW o, NEW g \in Orgs, NEW side \in Sides,
           NEW cert \in Certs \union {AnyCert}, NEW q \in Sizes, NEW price \in Nat,
           NEW expires \in Nat, NEW now \in Nat,
           CreateOrder(o, g, side, cert, q, price, expires, now)
    PROVE  LedgerInv'
<1> DEFINE row == [org |-> g, side |-> side, item |-> NoItem, cert |-> cert,
                   qty |-> q, rem |-> q, price |-> price, ordinal |-> NextOrdinal,
                   expires |-> expires, status |-> "OPEN"]
<1>1. q \in Nat /\ q <= MaxQty /\ q > 0
  BY MarketConstants DEF CreateOrder
<1>2. row \in OrderRow
  BY <1>1 DEF OrderRow, OrderStatuses, Live, WellFormed, TypeOK, NextOrdinal
<1>3. o \in Orders /\ order[o].status = "ABSENT"
  BY DEF CreateOrder, FreshOrder
<1>4. /\ SubmitForMatching(o, row, now)
      /\ item' = item /\ trade' = trade /\ loaded' = loaded
  BY DEF CreateOrder
<1>5. row.item = NoItem /\ row.status = "OPEN" /\ row.rem = q /\ row.qty = q
  OBVIOUS
<1> HIDE DEF row
<1>6. OrderFits(row, 0) /\ row.status \in Standing
  BY <1>1, <1>2, <1>5, RowFacts DEF OrderFits, Standing, Live
<1>7. \A i \in Items : Offer(order[o], i) = 0 /\ Offer(row, i) = 0
  BY <1>3, <1>5, RowFacts DEF Offer, Live
<1>8. \A i \in Items : StockFits(item[i]) /\ item[i].reserved \in Nat
  BY LedgerRows DEF StockFits, ItemRow
<1>9. \A i \in Items : /\ StockFits(item'[i])
                       /\ item'[i].reserved = item[i].reserved - Offer(order[o], i) + Offer(row, i)
                       /\ item'[i].current + item'[i].reserved = item[i].current + item[i].reserved
  BY <1>4, <1>7, <1>8
<1>10. Balanced(order', trade, item', stranded', loaded)
  BY <1>3, <1>4, <1>5, <1>6, <1>9, SubmitBalances
<1> QED
  BY <1>4, <1>10 DEF LedgerInv
\* The amended row of a live order: the filled part stays.
LEMMA AmendedFits ==
    ASSUME NEW row, OrderFits(row, 0), row.status \in Live, NEW req \in Amendments,
           Amended(row, req).rem >= 0
    PROVE  /\ OrderFits(Amended(row, req), 0) /\ Amended(row, req).status \in Standing
           /\ Amended(row, req).item = row.item
           /\ Amended(row, req).qty - Amended(row, req).rem = row.qty - row.rem
<1> DEFINE qty == IF req.qty = 0 THEN row.qty ELSE req.qty
           rem == RemainingAfter(row, qty)
           new == Amended(row, req)
<1>1. row \in OrderRow /\ row.qty \in Nat /\ row.rem \in Nat /\ row.rem <= row.qty /\ row.qty <= MaxQty
  BY DEF OrderFits, OrderRow
<1>2. req.qty \in Nat /\ req.qty <= MaxQty
  BY MarketConstants
<1>3. qty \in Nat /\ qty <= MaxQty /\ rem = qty - (row.qty - row.rem) /\ rem \in Int
  BY <1>1, <1>2 DEF RemainingAfter
<1>4. /\ new.qty = qty /\ new.rem = rem /\ new.item = row.item /\ new.side = row.side
      /\ new.status = IF rem = 0 THEN "FILLED" ELSE row.status
  BY <1>1 DEF Amended, OrderRow
<1>5. new \in OrderRow
  BY <1>1, AmendedType
<1> HIDE DEF new, qty, rem
<1>6. rem \in Nat /\ rem >= 0
  BY <1>3, <1>4 DEF new
<1>7. rem <= qty /\ qty - rem = row.qty - row.rem
  BY <1>1, <1>3
<1>8. new.status \in Standing
  BY <1>4 DEF Standing
<1>9. OrderFits(new, 0)
  <2>1. row.status = "OPEN" => rem = qty
    BY <1>1, <1>7, <1>3 DEF OrderFits
  <2>2. row.status = "PARTIALLY_FILLED" => rem < qty
    BY <1>1, <1>7, <1>3 DEF OrderFits
  <2>3. new.status = "OPEN" => rem = qty /\ rem > 0
    BY <1>4, <1>6, <2>1
  <2>4. new.status = "PARTIALLY_FILLED" => rem < qty /\ rem > 0
    BY <1>4, <1>6, <2>2
  <2>5. new.status \in {"FILLED", "ABSENT"} => rem = 0
    BY <1>4, <1>8 DEF Live, Standing
  <2>6. new.item # NoItem => new.side = "ASK" /\ new.status # "ABSENT"
    BY <1>4, <1>8 DEF OrderFits, Standing, Live
  <2> QED
    BY <1>3, <1>4, <1>5, <1>7, <2>3, <2>4, <2>5, <2>6, RowFacts DEF OrderFits
<1> QED
  BY <1>4, <1>7, <1>8, <1>9 DEF new

\* update_order reserves the difference, or gives it back.
LEMMA UpdateBalances ==
    ASSUME WellFormed, LedgerInv, NEW o \in Orders, NEW req \in Amendments, NEW now \in Nat,
           UpdateOrder(o, req, now)
    PROVE  LedgerInv'
<1> DEFINE row == order[o]
           terms == Amended(row, req)
           delta == terms.rem - row.rem
           demoted == LosesPriority(row, terms)
           entry == [terms EXCEPT !.ordinal = IF demoted THEN NextOrdinal ELSE @]
<1>1. /\ row.status \in Live /\ terms.rem >= 0
      /\ SubmitForMatching(o, entry, now)
      /\ trade' = trade /\ loaded' = loaded
  BY DEF UpdateOrder
<1>2. OrderFits(row, stranded[o]) /\ stranded[o] = 0 /\ row \in OrderRow
  BY <1>1, LedgerRows DEF OrderFits, Live
<1>3. /\ OrderFits(terms, 0) /\ terms.status \in Standing /\ terms.item = row.item
      /\ terms.qty - terms.rem = row.qty - row.rem
  BY <1>1, <1>2, AmendedFits
<1>4. /\ IF row.item = NoItem THEN item' = item
         ELSE /\ delta > 0 => item[row.item].current >= delta
              /\ delta < 0 => item[row.item].reserved >= -delta
              /\ item' = [item EXCEPT ![row.item] = Reserve(@, delta)]
  BY DEF UpdateOrder
<1> HIDE DEF terms
<1>5. /\ OrderFits(entry, 0) /\ entry.status = terms.status /\ entry.item = terms.item
      /\ entry.rem = terms.rem /\ entry.qty = terms.qty
  <2>1. NextOrdinal \in Nat
    BY DEF WellFormed, TypeOK, NextOrdinal
  <2>2. terms \in OrderRow
    BY <1>3 DEF OrderFits
  <2>3. /\ entry \in OrderRow /\ entry.status = terms.status /\ entry.item = terms.item
        /\ entry.rem = terms.rem /\ entry.qty = terms.qty /\ entry.side = terms.side
    <3> HIDE DEF demoted
    <3> QED BY <2>1, <2>2 DEF OrderRow
  <2> HIDE DEF entry
  <2> QED BY <1>3, <2>3 DEF OrderFits
<1> HIDE DEF entry
<1>6. terms.rem \in Nat /\ row.rem \in Nat /\ delta \in Int
  BY <1>2, <1>3, OfferType
<1>7. ASSUME NEW i \in Items
      PROVE  /\ StockFits(item'[i])
             /\ item'[i].reserved = item[i].reserved - Offer(row, i) + Offer(entry, i)
             /\ item'[i].current + item'[i].reserved = item[i].current + item[i].reserved
  <2>1. StockFits(item[i]) /\ item[i] \in ItemRow /\ item[i].reserved \in Nat /\ item[i].current \in Nat
    BY LedgerRows DEF StockFits, ItemRow
  <2>2. Offer(row, i) = IF row.item = i THEN row.rem ELSE 0
    BY <1>1 DEF Offer
  <2>3. Offer(entry, i) = IF row.item = i THEN terms.rem ELSE 0
    BY <1>3, <1>5 DEF Offer, OrderFits, Standing
  <2>4. item \in [Items -> ItemRow]
    BY DEF WellFormed, TypeOK
  <2>5. CASE row.item # i
    <3>1. item'[i] = item[i]
      BY <1>4, <2>4, <2>5
    <3> QED BY <2>1, <2>2, <2>3, <2>5, <3>1
  <2>6. CASE row.item = i
    <3>1. /\ delta > 0 => item[i].current >= delta
          /\ delta < 0 => item[i].reserved >= -delta
          /\ item'[i] = [item[i] EXCEPT !.current = item[i].current - delta, !.reserved = item[i].reserved + delta]
      BY <1>4, <2>4, <2>6, RowFacts DEF Reserve
    <3>2. delta = terms.rem - row.rem
      OBVIOUS
    <3> HIDE DEF delta
    <3>3. item[i].current - delta \in Nat /\ item[i].reserved + delta \in Nat
      BY <1>6, <2>1, <3>1
    <3>4. /\ item'[i] \in ItemRow /\ item'[i].current = item[i].current - delta
          /\ item'[i].reserved = item[i].reserved + delta /\ item'[i].status = item[i].status
      BY <2>1, <3>1, <3>3 DEF ItemRow
    <3>5. item[i].status = "ABSENT" => delta = 0
      <4> SUFFICES ASSUME item[i].status = "ABSENT" PROVE delta = 0
        OBVIOUS
      <4>1. item[i].current = 0 /\ item[i].reserved = 0
        BY <2>1 DEF StockFits, AbsentItem
      <4> QED BY <1>6, <3>1, <4>1
    <3>6. item[i].status = "ABSENT" => item'[i] = AbsentItem
      <4> SUFFICES ASSUME item[i].status = "ABSENT" PROVE item'[i] = AbsentItem
        OBVIOUS
      <4>1. item[i] = AbsentItem /\ item[i].current - delta = 0 /\ item[i].reserved + delta = 0
        BY <2>1, <3>5 DEF StockFits, AbsentItem
      <4>2. item'[i] = [AbsentItem EXCEPT !.current = 0, !.reserved = 0]
        BY <3>1, <4>1
      <4> QED BY <4>2 DEF AbsentItem
    <3>7. StockFits(item'[i])
      BY <3>4, <3>6 DEF StockFits
    <3> QED
      BY <1>6, <2>1, <2>2, <2>3, <2>6, <3>2, <3>4, <3>7
  <2> QED BY <2>5, <2>6
<1>8. row.status \in Standing /\ entry.status \in Standing /\ entry.item = row.item
      /\ entry.qty - entry.rem = row.qty - row.rem
  BY <1>1, <1>3, <1>5 DEF Standing
<1>9. Balanced(order', trade, item', stranded', loaded)
  BY <1>1, <1>5, <1>7, <1>8, SubmitBalances
<1> QED
  BY <1>1, <1>9 DEF LedgerInv
\* A trade row whose status (and delivered quantity) changes is about the same
\* orders and the same quantity.
SameDeal(r, r2) == r2.bid = r.bid /\ r2.ask = r.ask /\ r2.qty = r.qty

\* A binding trade changes status, or a pending one is confirmed and its
\* item's reservation consumed: the book stays as it is.
LEMMA SettleBalances ==
    ASSUME WellFormed, LedgerInv, NEW t \in Trades,
           TradeFits(order, trade'[t]), SameDeal(trade[t], trade'[t]),
           \A u \in Trades : u # t => trade'[u] = trade[u],
           order' = order, stranded' = stranded, loaded' = loaded,
           trade[t].status \in Held \union Sold, trade'[t].status \in Sold,
           \A i \in Items : /\ StockFits(item'[i])
                            /\ item'[i].reserved = item[i].reserved - Hold(order, trade[t], Held, i)
                            /\ item'[i].current = item[i].current
    PROVE  LedgerInv'
<1> DEFINE r == trade[t]
           r2 == trade'[t]
           o == Link(r)
<1>1. o \in Orders /\ Link(r2) = o /\ TradeFits(order, r)
  BY LedgerRows DEF TradeFits, Held, Sold, SameDeal, Link
<1>2. \A i \in Items : /\ Hold(order, r2, Held, i) = 0
                       /\ Hold(order, r2, Sold, i) = Hold(order, r, Held, i) + Hold(order, r, Sold, i)
                       /\ Hold(order, r, Held, i) \in Nat /\ Hold(order, r, Sold, i) \in Nat
                       /\ item[i].reserved \in Nat /\ item[i].current \in Nat /\ Offer(order[o], i) \in Nat
  <2> SUFFICES ASSUME NEW i \in Items
               PROVE  /\ Hold(order, r2, Held, i) = 0
                      /\ Hold(order, r2, Sold, i) = Hold(order, r, Held, i) + Hold(order, r, Sold, i)
                      /\ Hold(order, r, Held, i) \in Nat /\ Hold(order, r, Sold, i) \in Nat
                      /\ item[i].reserved \in Nat /\ item[i].current \in Nat /\ Offer(order[o], i) \in Nat
    OBVIOUS
  <2>1. r.qty \in Nat
    BY <1>1, HoldType
  <2>2. item[i].reserved \in Nat /\ item[i].current \in Nat
    BY LedgerRows DEF StockFits, ItemRow
  <2>3. Offer(order[o], i) \in Nat
    BY <1>1, LedgerRows, OfferType, RowFacts
  <2> HIDE DEF o
  <2>4. /\ Hold(order, r2, Held, i) = 0
        /\ Hold(order, r2, Sold, i) = Hold(order, r, Held, i) + Hold(order, r, Sold, i)
        /\ Hold(order, r, Held, i) \in Nat /\ Hold(order, r, Sold, i) \in Nat
    BY <1>1, <2>1 DEF Hold, Held, Sold, SameDeal, Link
  <2> QED BY <2>2, <2>3, <2>4
<1>3. \A p \in Orders : FillMoves(order, order, r, r2, p)
  <2> SUFFICES ASSUME NEW p \in Orders PROVE FillMoves(order, order, r, r2, p)
    OBVIOUS
  <2>1. Share(r, p) = Share(r2, p) /\ Share(r, p) \in Nat
    <3>1. Share(r, p) = Share(r2, p)
      BY DEF Share, Undone, Held, Sold, SameDeal
    <3>2. Share(r, p) \in Nat
      BY <1>1, HoldType, RowFacts
    <3> QED BY <3>1, <3>2
  <2>2. order[p].qty \in Nat /\ order[p].rem \in Nat
    BY LedgerRows, OfferType
  <2> QED BY <2>1, <2>2 DEF FillMoves
<1>4. SameListings(order, order)
  BY DEF SameListings
<1>5. \A i \in Items : /\ item'[i].reserved = item[i].reserved - Offer(order[o], i) + Offer(order[o], i)
                            - Hold(order, r, Held, i) + Hold(order, r2, Held, i)
                       /\ item'[i].current + item'[i].reserved + Hold(order, r2, Sold, i)
                            = item[i].current + item[i].reserved + Hold(order, r, Sold, i)
  BY <1>2
<1>6. TradeMove(order, order, trade, trade', stranded, item, item', t, o)
  <2> HIDE DEF o
  <2> QED BY <1>1, <1>3, <1>4, <1>5, LedgerRows DEF TradeMove
<1>7. Balanced(order, trade', item', stranded, loaded)
  BY <1>6, TradeMoves DEF LedgerInv
<1> QED
  BY <1>7 DEF LedgerInv

LEMMA ConfirmBalances ==
    ASSUME WellFormed, LedgerInv, NEW t \in Trades, ConfirmTrade(t)
    PROVE  LedgerInv'
<1> DEFINE r == trade[t]
           i0 == order[Link(r)].item
<1>1. /\ r.status = "PENDING" /\ trade' = [trade EXCEPT ![t].status = "CONFIRMED"]
      /\ order' = order /\ stranded' = stranded /\ loaded' = loaded
      /\ i0 # NoItem => item[i0].status = "PRESENT" /\ item[i0].reserved >= r.qty
      /\ item' = IF i0 = NoItem THEN item ELSE [item EXCEPT ![i0] = Consume(@, r.qty)]
  BY DEF ConfirmTrade, AwaitsAnswer, Link, LinkedOrder, history
<1>2. TradeFits(order, r) /\ r \in TradeRow /\ trade \in [Trades -> TradeRow]
  BY LedgerRows DEF TradeFits, WellFormed, TypeOK
<1>3. trade'[t] = [r EXCEPT !.status = "CONFIRMED"] /\ \A u \in Trades : u # t => trade'[u] = trade[u]
  BY <1>1, <1>2
<1>4. TradeFits(order, trade'[t]) /\ SameDeal(r, trade'[t]) /\ trade'[t].status = "CONFIRMED"
  BY <1>1, <1>2, <1>3 DEF TradeFits, TradeRow, TradeStatuses, SameDeal, Link
<1>5. Link(r) \in Orders /\ i0 \in Items \union {NoItem} /\ r.qty \in Nat
  BY <1>1, <1>2, LedgerRows DEF TradeFits, TradeRow, OrderFits, OrderRow
<1>6. \A i \in Items : Hold(order, r, Held, i) = IF i = i0 THEN r.qty ELSE 0
  BY <1>1, <1>5 DEF Hold, Held
<1>7. \A i \in Items : StockFits(item[i])
  BY LedgerRows
<1> HIDE DEF i0
<1>8. \A i \in Items : /\ StockFits(item'[i])
                       /\ item'[i].reserved = item[i].reserved - (IF i = i0 THEN r.qty ELSE 0)
                       /\ item'[i].current = item[i].current
  BY <1>1, <1>5, <1>7, ConsumeMoves DEF WellFormed, TypeOK
<1> QED
  BY <1>1, <1>3, <1>4, <1>6, <1>8, SettleBalances DEF Held, Sold

LEMMA DeliverBalances ==
    ASSUME WellFormed, LedgerInv, NEW t \in Trades, NEW q \in Nat, DeliverTrade(t, q) \/ PayTrade(t)
    PROVE  LedgerInv'
<1> DEFINE r == trade[t]
<1>1. TradeFits(order, r) /\ r \in TradeRow /\ trade \in [Trades -> TradeRow]
  BY LedgerRows DEF TradeFits, WellFormed, TypeOK
<1>2. /\ r.status \in Sold /\ trade'[t].status \in Sold /\ trade'[t] \in TradeRow
      /\ SameDeal(r, trade'[t]) /\ \A u \in Trades : u # t => trade'[u] = trade[u]
  <2>1. CASE DeliverTrade(t, q)
    BY <1>1, <2>1 DEF DeliverTrade, TradeRow, TradeStatuses, Sold, SameDeal
  <2>2. CASE PayTrade(t)
    BY <1>1, <2>2 DEF PayTrade, TradeRow, TradeStatuses, Sold, SameDeal
  <2> QED BY <2>1, <2>2
<1>3. order' = order /\ stranded' = stranded /\ loaded' = loaded /\ item' = item
  BY DEF DeliverTrade, PayTrade, history
<1>4. TradeFits(order, trade'[t])
  BY <1>1, <1>2 DEF TradeFits, SameDeal, Sold, Link
<1>5. \A i \in Items : /\ StockFits(item'[i])
                       /\ item'[i].reserved = item[i].reserved - Hold(order, r, Held, i)
                       /\ item'[i].current = item[i].current
  BY <1>2, <1>3, LedgerRows DEF StockFits, ItemRow, Hold, Held, Sold
<1> QED
  BY <1>2, <1>3, <1>4, <1>5, SettleBalances DEF Sold
\* A row that gets n back, and stays on the book or leaves it.
Restored(row, n, status) == [row EXCEPT !.rem = row.rem + n, !.status = status]

LEMMA RestoredFits ==
    ASSUME NEW row, NEW l, OrderFits(row, l), NEW n \in Nat, row.rem + n <= row.qty, NEW status,
           \/ status = StatusFor(row.qty, row.rem + n) /\ n > 0 /\ row.status \in Standing
           \/ status \in Withdrawn /\ (row.status \in Standing \/ status = row.status),
    row.status # "ABSENT"
    PROVE  /\ OrderFits(Restored(row, n, status), l)
           /\ Restored(row, n, status).item = row.item /\ Restored(row, n, status).qty = row.qty
           /\ Restored(row, n, status).rem = row.rem + n /\ Restored(row, n, status).status = status
           /\ status # "ABSENT"
<1> DEFINE new == Restored(row, n, status)
<1>1. row \in OrderRow /\ row.rem \in Nat /\ row.qty \in Nat /\ row.qty <= MaxQty
  BY DEF OrderFits, OrderRow
<1>2. status \in OrderStatuses /\ status # "ABSENT" /\ status # "FILLED"
  BY DEF StatusFor, OrderStatuses, Live, Withdrawn
<1>3. row.rem + n \in Nat
  BY <1>1
<1>4. /\ new \in OrderRow /\ new.item = row.item /\ new.qty = row.qty /\ new.side = row.side
      /\ new.rem = row.rem + n /\ new.status = status
  BY <1>1, <1>2, <1>3 DEF OrderRow, Restored
<1>5. status = "OPEN" => row.rem + n = row.qty /\ row.rem + n > 0
  BY <1>1 DEF StatusFor, Withdrawn
<1>6. status = "PARTIALLY_FILLED" => row.rem + n < row.qty /\ row.rem + n > 0
  BY <1>1 DEF StatusFor, Withdrawn
<1>7. l \in Amounts /\ (l # 0 => status = "EXPIRED")
  BY DEF OrderFits, Standing, Live
<1> HIDE DEF new
<1>8. OrderFits(new, l)
  BY <1>1, <1>2, <1>4, <1>5, <1>6, <1>7 DEF OrderFits
<1> QED
  BY <1>2, <1>4, <1>8 DEF new

\* What the pending trade on an order still holds was never offered again.
LEMMA PendingWithinOrder ==
    ASSUME LedgerInv, NEW t \in Trades, trade[t].status = "PENDING"
    PROVE  /\ Link(trade[t]) \in Orders /\ trade[t].qty \in Nat /\ trade[t].qty > 0
           /\ order[Link(trade[t])].status \in Standing \union Withdrawn
           /\ order[Link(trade[t])].rem + trade[t].qty <= order[Link(trade[t])].qty
           /\ \A p \in Orders : Share(trade[t], p) = IF p = Link(trade[t]) THEN trade[t].qty ELSE 0
<1> DEFINE r == trade[t]
           o == Link(r)
<1>1. TradeFits(order, r) /\ o \in Orders /\ r.qty \in Nat /\ r.qty > 0
  BY LedgerRows DEF TradeFits, TradeRow
<1>2. \A p \in Orders : p \in {r.bid, r.ask} <=> p = o
  BY <1>1, RowFacts DEF TradeFits, Link
<1>3. order[o].status # "ABSENT" /\ order[o] \in OrderRow
  BY <1>1, <1>2, LedgerRows DEF TradeFits, OrderFits
<1>4. order[o].status \in Standing \union Withdrawn
  BY <1>3 DEF OrderRow, OrderStatuses, Standing
<1>5. \A p \in Orders : Share(r, p) = IF p = o THEN r.qty ELSE 0
  BY <1>2 DEF Share, Undone
<1>6. Share(r, o) <= Total(Shares(trade, o)) /\ Total(Shares(trade, o)) \in Nat
  <2>1. TradesFit(order, trade)
    BY LedgerRows
  <2> QED BY <2>1, SharePoint, TotalsType
<1>7. order[o].rem \in Nat /\ order[o].qty \in Nat
  BY <1>1, LedgerRows, OfferType
<1>8. Total(Shares(trade, o)) <= order[o].qty - order[o].rem
  BY <1>1, <1>4, <1>6, <1>7 DEF LedgerInv, Balanced, Filled
<1>9. Share(r, o) = r.qty
  BY <1>1, <1>5
<1> HIDE DEF o
<1>10. order[o].rem + r.qty <= order[o].qty
  BY <1>1, <1>6, <1>7, <1>8, <1>9
<1> QED
  BY <1>1, <1>4, <1>5, <1>10 DEF o
\* decline_trade: the quantity goes back to the order, or with what the order
\* still offered to the stock.
LEMMA DeclineBalances ==
    ASSUME WellFormed, LedgerInv, NEW t \in Trades, DeclineTrade(t)
    PROVE  LedgerInv'
<1> DEFINE r == trade[t]
           o == Link(r)
           row == order[o]
           q == r.qty
           withdrawn == IsWithdrawn(row)
           late == ~withdrawn /\ HasExpired(row, clock)
           status == IF late THEN "EXPIRED" ELSE StatusFor(row.qty, row.rem + q)
           released == IF withdrawn THEN q ELSE IF late THEN row.rem + q ELSE 0
           r2 == [r EXCEPT !.status = "DECLINED"]
<1>1. /\ r.status = "PENDING" /\ CanRelease(OnItem(row.item, released))
      /\ trade' = [trade EXCEPT ![t].status = "DECLINED"]
      /\ item' = ReleaseAll(OnItem(row.item, released))
      /\ order' = IF withdrawn THEN order
                  ELSE [order EXCEPT ![o].rem = row.rem + q, ![o].status = status]
      /\ stranded' = stranded /\ loaded' = loaded
  BY DEF DeclineTrade, AwaitsAnswer, Link, LinkedOrder, history
<1>2. /\ o \in Orders /\ q \in Nat /\ q > 0 /\ row.status \in Standing \union Withdrawn
      /\ row.rem + q <= row.qty
      /\ \A p \in Orders : Share(r, p) = IF p = o THEN q ELSE 0
  BY <1>1, PendingWithinOrder
<1>3. /\ TradeFits(order, r) /\ r \in TradeRow /\ trade \in [Trades -> TradeRow]
      /\ order \in [Orders -> OrderRow]
  BY LedgerRows DEF TradeFits, WellFormed, TypeOK
<1>4. trade'[t] = r2 /\ \A u \in Trades : u # t => trade'[u] = trade[u]
  BY <1>1, <1>3
<1>5. r2.status = "DECLINED" /\ r2 \in TradeRow /\ SameDeal(r, r2)
  BY <1>3, SMTT(30) DEF TradeRow, TradeStatuses, SameDeal
<1>6. TradeFits(order, r2)
  BY <1>1, <1>3, <1>5 DEF TradeFits, SameDeal, Link
<1> HIDE DEF r2
<1>7. /\ OrderFits(row, stranded[o]) /\ row \in OrderRow /\ row.rem \in Nat /\ row.qty \in Nat
      /\ row.item \in Items \union {NoItem} /\ row.status # "ABSENT"
  BY <1>2, LedgerRows, OfferType DEF OrderFits, OrderRow, Standing, Live, Withdrawn
<1>8. /\ withdrawn => order'[o] = row
      /\ ~withdrawn => order'[o] = Restored(row, q, status) /\ row.status \in Standing
      /\ \A p \in Orders : p # o => order'[p] = order[p]
  BY <1>1, <1>2, <1>3 DEF Restored, IsWithdrawn
<1> HIDE DEF o, row, q
<1>9. ~withdrawn => /\ OrderFits(order'[o], stranded[o]) /\ order'[o].item = row.item
                    /\ order'[o].qty = row.qty /\ order'[o].rem = row.rem + q
                    /\ order'[o].status = status /\ status # "ABSENT"
  BY <1>2, <1>7, <1>8, RestoredFits DEF Withdrawn
<1>10. /\ \A p \in Orders : OrderFits(order'[p], stranded[p])
       /\ SameListings(order, order')
  BY <1>7, <1>8, <1>9, LedgerRows DEF SameListings, row
<1>11. TradeFits(order', r2)
  BY <1>6, <1>10, TradeFitsKept
<1>12. \A i \in Items : Offer(row, i) = IF row.item = i /\ ~withdrawn THEN row.rem ELSE 0
  BY <1>7, <1>8 DEF Offer, IsWithdrawn, Standing, Live, Withdrawn, OrderFits
<1>13. \A i \in Items : Offer(order'[o], i) =
          IF row.item = i /\ ~withdrawn /\ ~late THEN row.rem + q ELSE 0
  BY <1>8, <1>9, <1>12 DEF Offer, IsWithdrawn, Live, Withdrawn, StatusFor
<1>14. \A i \in Items : /\ Hold(order, r, Held, i) = IF row.item = i THEN q ELSE 0
                        /\ Hold(order', r2, Held, i) = 0
                        /\ Hold(order, r, Sold, i) = 0 /\ Hold(order', r2, Sold, i) = 0
  BY <1>1, <1>2, <1>5 DEF Hold, Held, Sold, o, row, q
<1>15. ASSUME NEW i \in Items
       PROVE  /\ StockFits(item'[i])
              /\ item'[i].reserved = item[i].reserved - (IF i = row.item THEN released ELSE 0)
              /\ item'[i].current = item[i].current + (IF i = row.item THEN released ELSE 0)
              /\ item[i].reserved \in Nat /\ item[i].current \in Nat
  <2> DEFINE rel == OnItem(row.item, released)
  <2>1. released \in Nat
    BY <1>2, <1>7
  <2>2. rel \in [Items -> Nat] /\ rel[i] = IF i = row.item THEN released ELSE 0
    <3> HIDE DEF released
    <3> QED BY <1>7, <2>1, OnItemType, OnItemAt
  <2>3. CanRelease(rel) /\ item' = ReleaseAll(rel)
    BY <1>1
  <2>4. StockFits(item[i]) /\ item[i].reserved \in Nat /\ item[i].current \in Nat
    BY LedgerRows DEF StockFits, ItemRow
  <2> HIDE DEF rel, released
  <2> QED BY <2>2, <2>3, <2>4, ReleaseMoves
<1>16. ASSUME NEW i \in Items
       PROVE  /\ item'[i].reserved = item[i].reserved - Offer(row, i) + Offer(order'[o], i)
                     - Hold(order, r, Held, i) + Hold(order', r2, Held, i)
              /\ item'[i].current + item'[i].reserved + Hold(order', r2, Sold, i)
                     = item[i].current + item[i].reserved + Hold(order, r, Sold, i)
  <2>1. released \in Nat
    BY <1>2, <1>7
  <2>2. CASE row.item # i
    BY <1>12, <1>13, <1>14, <1>15, <2>2
  <2>3. CASE row.item = i
    <3>1. released = q - (Offer(order'[o], i) - Offer(row, i))
      BY <1>2, <1>7, <1>12, <1>13, <2>3
    <3>2. Offer(row, i) \in Nat /\ Offer(order'[o], i) \in Nat
      BY <1>2, <1>7, <1>12, <1>13, <2>3
    <3> HIDE DEF released
    <3> QED BY <1>2, <1>14, <1>15, <2>1, <2>3, <3>1, <3>2
  <2> QED BY <2>2, <2>3
<1>17. ASSUME NEW p \in Orders PROVE FillMoves(order, order', r, r2, p)
  <2>1. Share(r2, p) = 0 /\ order[p].qty \in Nat /\ order[p].rem \in Nat
    BY <1>5, LedgerRows, OfferType DEF Share, Undone
  <2>2. CASE p # o
    BY <1>2, <1>8, <2>1, <2>2 DEF FillMoves
  <2>3. CASE p = o /\ withdrawn
    <3>1. row.status \in Withdrawn /\ row.status \notin Standing /\ Share(r, o) = q /\ row = order[o]
      BY <1>2, <2>3 DEF IsWithdrawn, Withdrawn, Standing, Live, row
    <3> QED BY <1>2, <1>7, <1>8, <2>1, <2>3, <3>1 DEF FillMoves
  <2>4. CASE p = o /\ ~withdrawn
    <3>1. row.status \in Standing /\ Share(r, o) = q /\ row = order[o]
      BY <1>2, <1>8, <2>4 DEF row
    <3>2. order'[o].qty - order'[o].rem = row.qty - row.rem - Share(r, o) + Share(r2, o)
      BY <1>2, <1>7, <1>9, <2>1, <2>4, <3>1
    <3>3. order'[o].qty - order'[o].rem >= row.qty - row.rem - Share(r, o) + Share(r2, o)
      BY <1>2, <1>7, <1>9, <2>1, <2>4, <3>1
    <3> QED BY <2>4, <3>1, <3>2, <3>3 DEF FillMoves
  <2> QED BY <2>2, <2>3, <2>4
<1>18. TradeMove(order, order', trade, trade', stranded, item, item', t, o)
  <2>1. \A p \in Orders, i \in Items : p # o => Offer(order'[p], i) = Offer(order[p], i)
    BY <1>8
  <2> HIDE DEF status, released, withdrawn, late
  <2> QED BY <1>2, <1>4, <1>10, <1>11, <1>15, <1>16, <1>17, <2>1 DEF TradeMove, row
<1> QED
  BY <1>1, <1>18, TradeMoves, SMTT(30) DEF LedgerInv
\* A live row of which q is taken.
Taken(row, q) == [row EXCEPT !.rem = row.rem - q, !.status = FilledStatus(row.rem - q)]

LEMMA TakenFits ==
    ASSUME NEW row, NEW l, OrderFits(row, l), row.status \in Live, NEW q \in Nat, q > 0, q <= row.rem
    PROVE  /\ OrderFits(Taken(row, q), l) /\ Taken(row, q).item = row.item
           /\ Taken(row, q).qty = row.qty /\ Taken(row, q).rem = row.rem - q
           /\ Taken(row, q).status \in Standing /\ Taken(row, q).status # "ABSENT"
           /\ \A i \in Items : /\ Offer(Taken(row, q), i) = (IF row.item = i THEN row.rem - q ELSE 0)
                               /\ Offer(row, i) = (IF row.item = i THEN row.rem ELSE 0)
<1> DEFINE new == Taken(row, q)
           status == FilledStatus(row.rem - q)
<1>1. row \in OrderRow /\ row.rem \in Nat /\ row.qty \in Nat /\ row.rem <= row.qty /\ row.qty <= MaxQty
  BY DEF OrderFits, OrderRow
<1>2. row.rem - q \in Nat /\ row.rem - q < row.qty
  BY <1>1
<1>3. /\ status \in Standing /\ status # "ABSENT" /\ status # "OPEN" /\ status \in OrderStatuses
      /\ status = "FILLED" <=> row.rem - q = 0
  BY DEF FilledStatus, Standing, Live, OrderStatuses
<1>4. /\ new \in OrderRow /\ new.item = row.item /\ new.qty = row.qty /\ new.side = row.side
      /\ new.rem = row.rem - q /\ new.status = status
  BY <1>1, <1>2, <1>3 DEF OrderRow, Taken
<1>5. l = 0
  BY DEF OrderFits, Live
<1> HIDE DEF new, status
<1>6. OrderFits(new, l)
  BY <1>1, <1>2, <1>3, <1>4, <1>5, RowFacts DEF OrderFits
<1>7. \A i : Offer(new, i) = IF row.item = i THEN row.rem - q ELSE 0
  BY <1>3, <1>4 DEF Offer, Standing
<1>8. \A i : Offer(row, i) = IF row.item = i THEN row.rem ELSE 0
  BY DEF Offer
<1> QED
  BY <1>3, <1>4, <1>6, <1>7, <1>8 DEF new

\* create_trade moves the quantity from the order's offer to the trade.
LEMMA HitBalances ==
    ASSUME WellFormed, LedgerInv, NEW t \in Trades, NEW o \in Orders, NEW g \in Orgs, NEW q \in Sizes,
           CreateTrade(t, o, g, q)
    PROVE  LedgerInv'
<1> DEFINE row == order[o]
           mine == Opposite(row.side)
           r == trade[t]
           r2 == [bid |-> IF row.side = "BID" THEN o ELSE NoOrder,
                  ask |-> IF row.side = "ASK" THEN o ELSE NoOrder,
                  buyer |-> IF mine = "BID" THEN g ELSE row.org,
                  seller |-> IF mine = "ASK" THEN g ELSE row.org,
                  initiator |-> mine, qty |-> q, price |-> row.price, final |-> 0,
                  status |-> "PENDING"]
<1>1. /\ row.status \in Live /\ q <= row.rem /\ r.status = "ABSENT"
      /\ trade' = [trade EXCEPT ![t] = r2]
      /\ order' = [order EXCEPT ![o].rem = @ - q, ![o].status = FilledStatus(row.rem - q)]
      /\ item' = item /\ stranded' = stranded /\ loaded' = loaded
  BY DEF CreateTrade, FreshTrade, history
<1>2. q \in Nat /\ q > 0 /\ q <= MaxQty
  BY MarketConstants
<1>3. OrderFits(row, stranded[o]) /\ row \in OrderRow /\ row.rem \in Nat /\ row.qty \in Nat
  BY LedgerRows, OfferType DEF OrderFits
<1>4. order'[o] = Taken(row, q) /\ \A p \in Orders : p # o => order'[p] = order[p]
  BY <1>1 DEF WellFormed, TypeOK, Taken
<1>5. /\ OrderFits(order'[o], stranded[o]) /\ order'[o].item = row.item
      /\ order'[o].qty = row.qty /\ order'[o].rem = row.rem - q
      /\ order'[o].status \in Standing /\ order'[o].status # "ABSENT"
      /\ \A i \in Items : /\ Offer(order'[o], i) = (IF row.item = i THEN row.rem - q ELSE 0)
                          /\ Offer(row, i) = (IF row.item = i THEN row.rem ELSE 0)
  <2>1. row.status \in Live /\ q <= row.rem /\ order'[o] = Taken(row, q)
    BY <1>1, <1>4
  <2>2. /\ OrderFits(Taken(row, q), stranded[o]) /\ Taken(row, q).item = row.item
        /\ Taken(row, q).qty = row.qty /\ Taken(row, q).rem = row.rem - q
        /\ Taken(row, q).status \in Standing /\ Taken(row, q).status # "ABSENT"
        /\ \A i \in Items : /\ Offer(Taken(row, q), i) = (IF row.item = i THEN row.rem - q ELSE 0)
                            /\ Offer(row, i) = (IF row.item = i THEN row.rem ELSE 0)
    <3> HIDE DEF row
    <3> QED BY ONLY <1>2, <1>3, <2>1, TakenFits
  <2> QED BY <2>1, <2>2
<1>6. /\ r2 \in TradeRow /\ r2.qty = q /\ r2.status = "PENDING" /\ Link(r2) = o
      /\ r2.bid = NoOrder \/ r2.ask = NoOrder
      /\ \A p \in Orders : p \in {r2.bid, r2.ask} <=> p = o
  <2>1. r2 \in TradeRow
    BY <1>2, <1>3 DEF TradeRow, OrderRow, TradeStatuses, Opposite, Sides
  <2>2. row.side \in {"BID", "ASK"}
    BY <1>3 DEF OrderRow, Sides
  <2> QED BY <2>1, <2>2, RowFacts DEF Link
<1>7. trade'[t] = r2 /\ \A u \in Trades : u # t => trade'[u] = trade[u]
  BY <1>1 DEF WellFormed, TypeOK
<1> HIDE DEF r2
<1>8. TradeFits(order', r2)
  BY <1>2, <1>5, <1>6 DEF TradeFits
<1>9. /\ \A p \in Orders : OrderFits(order'[p], stranded[p])
      /\ SameListings(order, order')
  BY <1>4, <1>5, LedgerRows DEF SameListings
<1>10. \A i \in Items : /\ Hold(order, r, Held, i) = 0 /\ Hold(order, r, Sold, i) = 0
                        /\ Hold(order', r2, Held, i) = (IF row.item = i THEN q ELSE 0)
                        /\ Hold(order', r2, Sold, i) = 0
  BY <1>1, <1>5, <1>6 DEF Hold, Held, Sold
<1>11. \A i \in Items : StockFits(item[i]) /\ item[i].reserved \in Nat /\ item[i].current \in Nat
  BY LedgerRows DEF StockFits, ItemRow
<1>12. ASSUME NEW i \in Items
       PROVE  /\ item'[i].reserved = item[i].reserved - Offer(row, i) + Offer(order'[o], i)
                     - Hold(order, r, Held, i) + Hold(order', r2, Held, i)
              /\ item'[i].current + item'[i].reserved + Hold(order', r2, Sold, i)
                     = item[i].current + item[i].reserved + Hold(order, r, Sold, i)
  <2>1. /\ item'[i] = item[i] /\ item[i].reserved \in Nat /\ item[i].current \in Nat
        /\ Hold(order, r, Held, i) = 0 /\ Hold(order, r, Sold, i) = 0 /\ Hold(order', r2, Sold, i) = 0
    BY <1>1, <1>10, <1>11
  <2>2. CASE row.item = i
    <3>1. /\ Offer(row, i) = row.rem /\ Offer(order'[o], i) = row.rem - q
          /\ Hold(order', r2, Held, i) = q
      BY <1>5, <1>10, <2>2
    <3> QED BY <1>2, <1>3, <2>1, <3>1
  <2>3. CASE row.item # i
    <3>1. Offer(row, i) = 0 /\ Offer(order'[o], i) = 0 /\ Hold(order', r2, Held, i) = 0
      BY <1>5, <1>10, <2>3
    <3> QED BY <2>1, <3>1
  <2> QED BY <2>2, <2>3
<1>13. ASSUME NEW p \in Orders PROVE FillMoves(order, order', r, r2, p)
  <2>1. /\ Share(r, p) = 0 /\ Share(r2, p) = (IF p = o THEN q ELSE 0)
        /\ order[p].qty \in Nat /\ order[p].rem \in Nat
    BY <1>1, <1>6, LedgerRows, OfferType DEF Share, Undone
  <2>2. CASE p # o
    BY <1>4, <2>1, <2>2 DEF FillMoves
  <2>3. CASE p = o
    <3>1. row.status \in Standing /\ order'[o].status \notin Withdrawn
      BY <1>1, <1>5 DEF Standing, Live, Withdrawn
    <3> QED BY <1>2, <1>3, <1>5, <2>1, <2>3, <3>1 DEF FillMoves
  <2> QED BY <2>2, <2>3
<1>14. TradeMove(order, order', trade, trade', stranded, item, item', t, o)
  <2>1. \A p \in Orders, i \in Items : p # o => Offer(order'[p], i) = Offer(order[p], i)
    BY <1>4
  <2> QED BY <1>1, <1>7, <1>8, <1>9, <1>11, <1>12, <1>13, <2>1 DEF TradeMove
<1> QED
  BY <1>1, <1>14, TradeMoves DEF LedgerInv
\* One iteration of the fill loop: the ask's offer and its item's reservation
\* shrink by what is sold, and both orders are filled by the new trade.
LEMMA FillBalances ==
    ASSUME WellFormed, AggressorOnBook, LedgerInv, NEW t \in Trades, MatchFill(t)
    PROVE  LedgerInv'
<1> DEFINE a == aggressor
<1>1. PICK c \in Fillable(order, a, clock) :
        LET q == FillQuantity(a, c)
            bid == IF order[a].side = "BID" THEN a ELSE c
            ask == IF order[a].side = "BID" THEN c ELSE a
            i == order[ask].item
            Fill(row) == [row EXCEPT !.rem = @ - q, !.status = FilledStatus(row.rem - q)]
        IN  /\ i # NoItem => item[i].status = "PRESENT" /\ item[i].reserved >= q
            /\ item' = IF i = NoItem THEN item ELSE [item EXCEPT ![i] = Consume(@, q)]
            /\ order' = [order EXCEPT ![a] = Fill(@), ![c] = Fill(@)]
            /\ trade' = [trade EXCEPT ![t] =
                   [bid |-> bid, ask |-> ask, buyer |-> order[bid].org, seller |-> order[ask].org,
                    initiator |-> order[a].side, qty |-> q, price |-> order[c].price,
                    final |-> 0, status |-> "CONFIRMED"]]
  BY DEF MatchFill
<1> DEFINE q == FillQuantity(a, c)
           bid == IF order[a].side = "BID" THEN a ELSE c
           ask == IF order[a].side = "BID" THEN c ELSE a
           i0 == order[ask].item
           r == trade[t]
           r2 == [bid |-> bid, ask |-> ask, buyer |-> order[bid].org, seller |-> order[ask].org,
                  initiator |-> order[a].side, qty |-> q, price |-> order[c].price,
                  final |-> 0, status |-> "CONFIRMED"]
<1>2. /\ a \in Orders /\ c \in Orders /\ a # c /\ order[a].rem > 0
      /\ order[c].status \in Live /\ order[c].side = Opposite(order[a].side)
      /\ r.status = "ABSENT" /\ stranded' = stranded /\ loaded' = loaded
  BY DEF MatchFill, FreshTrade, WellFormed, TypeOK, Fillable, Crossing, history
<1>3. /\ order[a] \in OrderRow /\ order[c] \in OrderRow
      /\ order[a].rem \in Nat /\ order[c].rem \in Nat /\ order[a].qty \in Nat /\ order[c].qty \in Nat
      /\ OrderFits(order[a], stranded[a]) /\ OrderFits(order[c], stranded[c])
  BY <1>2, LedgerRows, OfferType DEF OrderFits
<1>4. order[a].status \in Live
  BY <1>2, <1>3 DEF AggressorOnBook, OrderFits, OrderRow, OrderStatuses, MatchFill
<1>5. order[c].rem > 0
  BY <1>2, <1>3 DEF OrderFits, Live
<1>6. q \in Nat /\ q > 0 /\ q <= order[a].rem /\ q <= order[c].rem /\ q <= MaxQty
  <2>1. q \in Nat /\ q > 0 /\ q <= order[a].rem /\ q <= order[c].rem
    BY <1>2, <1>3, <1>5 DEF FillQuantity, Least
  <2>2. order[a].rem <= MaxQty /\ MaxQty \in Nat
    BY <1>3, RowFacts DEF OrderFits
  <2> HIDE DEF q
  <2> QED BY <1>3, <2>1, <2>2
<1>7. /\ order'[a] = Taken(order[a], q) /\ order'[c] = Taken(order[c], q)
      /\ \A p \in Orders : p \notin {a, c} => order'[p] = order[p]
  BY <1>1, <1>2 DEF WellFormed, TypeOK, Taken
<1>8. trade'[t] = r2 /\ \A u \in Trades : u # t => trade'[u] = trade[u]
  BY <1>1 DEF WellFormed, TypeOK
<1>9. /\ i0 # NoItem => item[i0].status = "PRESENT" /\ item[i0].reserved >= q
      /\ item' = IF i0 = NoItem THEN item ELSE [item EXCEPT ![i0] = Consume(@, q)]
  BY <1>1
<1>10. /\ {bid, ask} = {a, c} /\ bid \in Orders /\ ask \in Orders /\ bid # ask
       /\ order[bid].side = "BID" /\ order[bid].item = NoItem
  BY <1>2, <1>3 DEF OrderFits, OrderRow, Sides, Opposite
<1> HIDE DEF q
<1>11. ASSUME NEW p \in {a, c}
       PROVE  /\ OrderFits(order'[p], stranded[p]) /\ order'[p].item = order[p].item
              /\ order'[p].qty = order[p].qty /\ order'[p].rem = order[p].rem - q
              /\ order'[p].status \in Standing /\ order'[p].status # "ABSENT"
              /\ \A i \in Items : /\ Offer(order'[p], i) = (IF order[p].item = i THEN order[p].rem - q ELSE 0)
                                  /\ Offer(order[p], i) = (IF order[p].item = i THEN order[p].rem ELSE 0)
  <2>1. /\ order'[p] = Taken(order[p], q) /\ OrderFits(order[p], stranded[p]) /\ order[p].status \in Live
        /\ q \in Nat /\ q > 0 /\ q <= order[p].rem
    BY <1>2, <1>3, <1>4, <1>6, <1>7
  <2> QED BY ONLY <2>1, TakenFits
<1>12. /\ r2 \in TradeRow /\ r2.qty = q /\ r2.status = "CONFIRMED" /\ Link(r2) = ask
       /\ r2.bid = bid /\ r2.ask = ask
  <2> HIDE DEF bid, ask
  <2> QED BY <1>3, <1>6, <1>10, RowFacts DEF TradeRow, OrderRow, TradeStatuses, Link, WellFormed, TypeOK
<1> HIDE DEF r2, bid, ask
<1>13. /\ \A p \in Orders : OrderFits(order'[p], stranded[p])
       /\ SameListings(order, order')
  BY <1>7, <1>11, LedgerRows DEF SameListings
<1>14. TradeFits(order', r2)
  BY <1>6, <1>10, <1>11, <1>12 DEF TradeFits
<1>15. \A i \in Items : /\ Hold(order, r, Held, i) = 0 /\ Hold(order, r, Sold, i) = 0
                        /\ Hold(order', r2, Held, i) = 0
                        /\ Hold(order', r2, Sold, i) = (IF i0 = i THEN q ELSE 0)
  BY <1>2, <1>10, <1>11, <1>12 DEF Hold, Held, Sold
<1>16. i0 \in Items \union {NoItem}
  BY <1>3, <1>10 DEF OrderRow
<1>17. \A i \in Items : StockFits(item[i]) /\ item[i].reserved \in Nat /\ item[i].current \in Nat
  BY LedgerRows DEF StockFits, ItemRow
<1>18. \A i \in Items : /\ StockFits(item'[i])
                        /\ item'[i].reserved = item[i].reserved - (IF i = i0 THEN q ELSE 0)
                        /\ item'[i].current = item[i].current
  <2>1. item \in [Items -> ItemRow]
    BY DEF WellFormed, TypeOK
  <2> HIDE DEF i0
  <2> QED BY <1>6, <1>9, <1>16, <1>17, <2>1, ConsumeMoves
<1>19. ASSUME NEW i \in Items
       PROVE  /\ item'[i].reserved = item[i].reserved - Offer(order[ask], i) + Offer(order'[ask], i)
                     - Hold(order, r, Held, i) + Hold(order', r2, Held, i)
              /\ item'[i].current + item'[i].reserved + Hold(order', r2, Sold, i)
                     = item[i].current + item[i].reserved + Hold(order, r, Sold, i)
  <2>1. /\ Hold(order, r, Held, i) = 0 /\ Hold(order, r, Sold, i) = 0 /\ Hold(order', r2, Held, i) = 0
        /\ item[i].reserved \in Nat /\ item[i].current \in Nat
    BY <1>15, <1>17
  <2>2. order[ask].rem \in Nat
    BY <1>3, <1>10
  <2>3. CASE i0 = i
    <3>1. /\ Offer(order[ask], i) = order[ask].rem /\ Offer(order'[ask], i) = order[ask].rem - q
          /\ Hold(order', r2, Sold, i) = q
          /\ item'[i].reserved = item[i].reserved - q /\ item'[i].current = item[i].current
      BY <1>10, <1>11, <1>15, <1>18, <2>3
    <3> QED BY <1>6, <2>1, <2>2, <3>1
  <2>4. CASE i0 # i
    <3>1. /\ Offer(order[ask], i) = 0 /\ Offer(order'[ask], i) = 0 /\ Hold(order', r2, Sold, i) = 0
          /\ item'[i].reserved = item[i].reserved - 0 /\ item'[i].current = item[i].current
      BY <1>10, <1>11, <1>15, <1>18, <2>4
    <3> QED BY <2>1, <3>1
  <2> QED BY <2>3, <2>4
<1>20. ASSUME NEW p \in Orders PROVE FillMoves(order, order', r, r2, p)
  <2>1. /\ Share(r, p) = 0 /\ Share(r2, p) = (IF p \in {a, c} THEN q ELSE 0)
        /\ order[p].qty \in Nat /\ order[p].rem \in Nat
    BY <1>2, <1>10, <1>12, LedgerRows, OfferType DEF Share, Undone
  <2>2. CASE p \notin {a, c}
    BY <1>7, <2>1, <2>2 DEF FillMoves
  <2>3. CASE p \in {a, c}
    <3>1. order[p].status \in Standing /\ order'[p].status \notin Withdrawn
      BY <1>2, <1>4, <1>11, <2>3 DEF Standing, Live, Withdrawn
    <3>2. order'[p].qty - order'[p].rem = order[p].qty - order[p].rem - Share(r, p) + Share(r2, p)
      BY <1>6, <1>11, <2>1, <2>3
    <3> QED BY <3>1, <3>2 DEF FillMoves
  <2> QED BY <2>2, <2>3
<1>21. \A p \in Orders, i \in Items : p # ask => Offer(order'[p], i) = Offer(order[p], i)
  <2> SUFFICES ASSUME NEW p \in Orders, NEW i \in Items, p # ask
               PROVE  Offer(order'[p], i) = Offer(order[p], i)
    OBVIOUS
  <2>1. CASE p = bid
    BY <1>10, <1>11, <2>1, RowFacts
  <2>2. CASE p # bid
    BY <1>7, <1>10, <2>2
  <2> QED BY <2>1, <2>2
<1>22. TradeMove(order, order', trade, trade', stranded, item, item', t, ask)
  <2> HIDE DEF i0
  <2> QED BY <1>8, <1>10, <1>13, <1>14, <1>18, <1>19, <1>20, <1>21 DEF TradeMove
<1> QED
  BY <1>2, <1>22, TradeMoves DEF LedgerInv
\* Stock a supplier enters, corrects or removes is free stock.
LEMMA StockEntryBalances ==
    ASSUME WellFormed, LedgerInv, NEW i \in Items, NEW q \in Nat,
           AddInventory(i, q) \/ UpdateInventory(i, q) \/ DeleteInventory(i)
    PROVE  LedgerInv'
<1> DEFINE row == item[i]
<1>1. /\ StockFits(row) /\ row \in ItemRow /\ row.current \in Nat /\ row.reserved \in Nat
      /\ item \in [Items -> ItemRow] /\ loaded \in [Items -> Int]
  BY LedgerRows DEF StockFits, ItemRow, WellFormed, TypeOK
<1>2. /\ StockFits(item'[i]) /\ item'[i].reserved = row.reserved /\ item'[i].current \in Nat
      /\ loaded'[i] = loaded[i] + item'[i].current - row.current
      /\ \A j \in Items : j # i => item'[j] = item[j] /\ loaded'[j] = loaded[j]
  <2>1. CASE AddInventory(i, q)
    <3>1. row.current = 0 /\ row.reserved = 0
      BY <1>1, <2>1 DEF AddInventory, StockFits, AbsentItem
    <3>2. /\ item'[i] = [status |-> "PRESENT", current |-> q, reserved |-> 0]
          /\ loaded'[i] = loaded[i] + q /\ loaded[i] \in Int
      BY <1>1, <2>1 DEF AddInventory
    <3>3. StockFits(item'[i]) /\ item'[i].reserved = 0 /\ item'[i].current = q
      BY <3>2 DEF StockFits, ItemRow, AbsentItem
    <3>4. loaded'[i] = loaded[i] + item'[i].current - row.current
      BY <3>1, <3>2, <3>3
    <3> QED BY <1>1, <2>1, <3>1, <3>3, <3>4 DEF AddInventory
  <2>2. CASE UpdateInventory(i, q)
    <3>1. item'[i] = [row EXCEPT !.current = q] /\ loaded'[i] = loaded[i] + q - row.current
      BY <1>1, <2>2 DEF UpdateInventory
    <3>2. row.status = "PRESENT"
      BY <2>2 DEF UpdateInventory
    <3>3. StockFits(item'[i]) /\ item'[i].reserved = row.reserved /\ item'[i].current = q
      BY <1>1, <3>1, <3>2 DEF StockFits, ItemRow
    <3> QED BY <1>1, <2>2, <3>1, <3>3 DEF UpdateInventory
  <2>3. CASE DeleteInventory(i)
    <3>1. item'[i] = AbsentItem /\ loaded'[i] = loaded[i] - row.current /\ row.reserved = 0
      BY <1>1, <2>3 DEF DeleteInventory, Mutable
    <3>2. StockFits(item'[i]) /\ item'[i].reserved = 0 /\ item'[i].current = 0
      BY <3>1 DEF StockFits, ItemRow, AbsentItem
    <3>3. loaded'[i] = loaded[i] + item'[i].current - row.current
      BY <1>1, <3>1, <3>2
    <3> QED BY <1>1, <2>3, <3>1, <3>2, <3>3 DEF DeleteInventory
  <2> QED BY <2>1, <2>2, <2>3
<1>3. order' = order /\ trade' = trade /\ stranded' = stranded
  BY DEF AddInventory, UpdateInventory, DeleteInventory
<1>4. Fits(order, trade, item', stranded)
  BY <1>2, LedgerRows DEF Fits
<1>5. ASSUME NEW j \in Items
      PROVE  /\ item'[j].reserved = ReservedFor(order, trade, stranded, j)
             /\ item'[j].current + item'[j].reserved + Total(Holds(order, trade, Sold, j)) = loaded'[j]
  <2>1. /\ item[j].reserved = ReservedFor(order, trade, stranded, j)
        /\ item[j].current + item[j].reserved + Total(Holds(order, trade, Sold, j)) = loaded[j]
        /\ Total(Holds(order, trade, Sold, j)) \in Nat
    BY TotalsType DEF LedgerInv, Balanced
  <2>2. CASE j # i
    BY <1>2, <2>1, <2>2
  <2>3. CASE j = i
    BY <1>1, <1>2, <2>1, <2>3
  <2> QED BY <2>2, <2>3
<1>6. Balanced(order, trade, item', stranded, loaded')
  BY <1>4, <1>5 DEF LedgerInv, Balanced
<1> QED
  BY <1>3, <1>6 DEF LedgerInv

\* expire_market_slice_orders: what the expired batch offered is released.
LEMMA ExpiryBalances ==
    ASSUME WellFormed, LedgerInv, NEW E, E \subseteq Orders,
           \A p \in E : order[p].status \in Live,
           NEW released, released = ReleasedBy(E, [p \in Orders |-> order[p].rem]),
           CanRelease(released),
           NEW book, \A p \in Orders : book[p] = IF p \in E THEN [order[p] EXCEPT !.status = "EXPIRED"]
                                                 ELSE order[p]
    PROVE  Balanced(book, trade, ReleaseAll(released), stranded, loaded)
<1>1. \A p \in E : /\ OrderFits(book[p], stranded[p]) /\ book[p].status = "EXPIRED"
                   /\ book[p].item = order[p].item /\ book[p].qty = order[p].qty /\ book[p].rem = order[p].rem
  <2> SUFFICES ASSUME NEW p \in E
               PROVE  /\ OrderFits(book[p], stranded[p]) /\ book[p].status = "EXPIRED"
                      /\ book[p].item = order[p].item /\ book[p].qty = order[p].qty /\ book[p].rem = order[p].rem
    OBVIOUS
  <2>1. OrderFits(order[p], stranded[p]) /\ order[p] \in OrderRow /\ order[p].status \in Live
    BY LedgerRows DEF OrderFits
  <2>2. book[p] = [order[p] EXCEPT !.status = "EXPIRED"]
    OBVIOUS
  <2>3. /\ book[p] \in OrderRow /\ book[p].status = "EXPIRED" /\ book[p].side = order[p].side
        /\ book[p].item = order[p].item /\ book[p].qty = order[p].qty /\ book[p].rem = order[p].rem
    BY <2>1, <2>2 DEF OrderRow, OrderStatuses, Withdrawn
  <2> QED BY <2>1, <2>3 DEF OrderFits
<1>2. \A p \in Orders : OrderFits(book[p], stranded[p])
  BY <1>1, LedgerRows
<1>3. SameListings(order, book)
  BY <1>1 DEF SameListings
<1>4. released \in [Items -> Nat]
  BY ReleasedByType
<1>5. Fits(book, trade, ReleaseAll(released), stranded)
  <2>1. TradesFit(book, trade)
    BY <1>3, LedgerRows, TradeFitsKept DEF TradesFit
  <2>2. \A i \in Items : StockFits(ReleaseAll(released)[i])
    BY <1>4, LedgerRows, ReleaseMoves
  <2> QED BY <1>2, <2>1, <2>2 DEF Fits
<1>6. ASSUME NEW i \in Items
      PROVE  /\ ReleaseAll(released)[i].reserved = ReservedFor(book, trade, stranded, i)
             /\ ReleaseAll(released)[i].current + ReleaseAll(released)[i].reserved
                  + Total(Holds(book, trade, Sold, i)) = loaded[i]
  <2> DEFINE S == {p \in E : order[p].item = i}
             f == [p \in Orders |-> order[p].rem]
             X == [p \in Orders |-> IF p \in S THEN f[p] ELSE 0]
  <2>1. released[i] = Total(X)
    <3>1. S \subseteq Orders /\ released[i] = Total([p \in S |-> f[p]])
      BY DEF ReleasedBy
    <3> HIDE DEF S, f
    <3> QED BY <3>1, TotalOfPart
  <2>2. AddsUp(Orders, Offers(book, i), X, Offers(order, i))
    <3>1. \A p \in Orders : /\ Offer(book[p], i) \in Amounts /\ Offer(order[p], i) \in Amounts
                            /\ f[p] \in Amounts /\ f[p] \in Nat
      BY <1>2, LedgerRows, OfferType
    <3>2. X \in [Orders -> Amounts]
      BY <3>1, RowFacts
    <3>3. \A p \in Orders : Offer(order[p], i) = Offer(book[p], i) + X[p]
      <4> SUFFICES ASSUME NEW p \in Orders PROVE Offer(order[p], i) = Offer(book[p], i) + X[p]
        OBVIOUS
      <4>1. CASE p \in S
        <5>1. Offer(book[p], i) = 0 /\ Offer(order[p], i) = f[p] /\ X[p] = f[p]
          BY <1>1, <4>1 DEF Offer, Live
        <5> QED BY <3>1, <5>1
      <4>2. CASE p \notin S
        <5>1. Offer(book[p], i) = Offer(order[p], i) /\ X[p] = 0
          BY <1>1, <4>2 DEF Offer
        <5>2. Offer(order[p], i) \in Nat
          BY <3>1, RowFacts
        <5> QED BY <5>1, <5>2
      <4> QED BY <4>1, <4>2
    <3> HIDE DEF X
    <3> QED BY <3>1, <3>2, <3>3, RowsFinite DEF AddsUp, Offers
  <2> HIDE DEF X
  <2>3. /\ Total(Offers(book, i)) \in Nat /\ Total(X) \in Nat
        /\ Total(Offers(order, i)) = Total(Offers(book, i)) + Total(X)
    BY <2>2, TotalPlus
  <2>4. /\ Holds(book, trade, Held, i) = Holds(order, trade, Held, i)
        /\ Holds(book, trade, Sold, i) = Holds(order, trade, Sold, i)
        /\ Leftovers(book, stranded, i) = Leftovers(order, stranded, i)
    <3>1. \A u \in Trades : /\ Hold(book, trade[u], Held, i) = Hold(order, trade[u], Held, i)
                            /\ Hold(book, trade[u], Sold, i) = Hold(order, trade[u], Sold, i)
      BY <1>3, LedgerRows, HoldKept DEF Held, Sold
    <3>2. \A p \in Orders : Leftover(book[p], stranded[p], i) = Leftover(order[p], stranded[p], i)
      BY <1>1 DEF Leftover
    <3> QED BY <3>1, <3>2 DEF Holds, Leftovers
  <2>5. /\ ReleaseAll(released)[i].reserved = item[i].reserved - released[i]
        /\ ReleaseAll(released)[i].current = item[i].current + released[i]
        /\ item[i].reserved \in Nat /\ item[i].current \in Nat
    BY <1>4, LedgerRows, ReleaseMoves DEF StockFits, ItemRow
  <2>6. /\ item[i].reserved = ReservedFor(order, trade, stranded, i)
        /\ item[i].current + item[i].reserved + Total(Holds(order, trade, Sold, i)) = loaded[i]
    BY DEF LedgerInv, Balanced
  <2>7. Total(Holds(order, trade, Held, i)) \in Nat /\ Total(Leftovers(order, stranded, i)) \in Nat
        /\ Total(Holds(order, trade, Sold, i)) \in Nat
    BY TotalsType
  <2>8. ReleaseAll(released)[i].reserved = ReservedFor(book, trade, stranded, i)
    BY <2>1, <2>3, <2>4, <2>5, <2>6, <2>7 DEF ReservedFor
  <2>9. ReleaseAll(released)[i].current + ReleaseAll(released)[i].reserved
                  + Total(Holds(book, trade, Sold, i)) = loaded[i]
    BY <2>1, <2>3, <2>4, <2>5, <2>6, <2>7
  <2> QED BY <2>8, <2>9
<1>7. ASSUME NEW p \in Orders PROVE Filled(book, trade, p)
  <2>1. Filled(order, trade, p) /\ order[p].qty \in Nat /\ order[p].rem \in Nat
    BY LedgerRows, OfferType DEF LedgerInv, Balanced
  <2>2. CASE p \notin E
    BY <2>1, <2>2 DEF Filled
  <2>3. CASE p \in E
    <3>1. order[p].status \in Standing /\ book[p].status \notin Standing
      BY <1>1, <2>3 DEF Standing, Live
    <3> QED BY <1>1, <2>1, <2>3, <3>1 DEF Filled
  <2> QED BY <2>2, <2>3
<1> QED
  BY <1>5, <1>6, <1>7 DEF Balanced
\* publish_inventory_item: the expired batch first, then a listing of all the
\* item's free stock.
LEMMA PublishBalances ==
    ASSUME WellFormed, LedgerInv, NEW o, NEW i \in Items, NEW cert \in Certs, NEW price \in Nat,
           NEW E, E \subseteq Orders, PublishInventory(o, i, cert, price, E)
    PROVE  LedgerInv'
<1> DEFINE released == ReleasedBy(E, [p \in Orders |-> order[p].rem])
           q == item[i].current + released[i]
           listing == [org |-> OwnerOf[i], side |-> "ASK", item |-> i, cert |-> cert,
                       qty |-> q, rem |-> q, price |-> price, ordinal |-> NextOrdinal,
                       expires |-> NoExpiry, status |-> "OPEN"]
           book == [p \in Orders |-> IF p \in E THEN [order[p] EXCEPT !.status = "EXPIRED"] ELSE order[p]]
           stock == ReleaseAll(released)
<1>1. /\ \A p \in E : order[p].status \in Live
      /\ CanRelease(released) /\ q >= MinLot /\ q <= MaxQty /\ item[i].status = "PRESENT"
      /\ o \in Orders /\ order[o].status = "ABSENT"
      /\ order' = [p \in Orders |-> IF p = o THEN listing
                                    ELSE IF p \in E THEN [order[p] EXCEPT !.status = "EXPIRED"]
                                    ELSE order[p]]
      /\ item' = [ReleaseAll(released) EXCEPT ![i] = Reserve(@, q)]
      /\ trade' = trade /\ stranded' = stranded /\ loaded' = loaded
  BY DEF PublishInventory, FreshOrder, history
<1>2. released \in [Items -> Nat]
  BY ReleasedByType
<1>3. Balanced(book, trade, stock, stranded, loaded)
  <2>1. \A p \in Orders : book[p] = IF p \in E THEN [order[p] EXCEPT !.status = "EXPIRED"] ELSE order[p]
    OBVIOUS
  <2> HIDE DEF book
  <2> QED BY <1>1, <2>1, ExpiryBalances
<1>4. o \notin E /\ book[o] = order[o] /\ \A p \in Orders : p # o => order'[p] = book[p]
  BY <1>1 DEF Live
<1>5. order'[o] = listing
  BY <1>1
<1>6. item[i] \in ItemRow /\ StockFits(item[i]) /\ item[i].current \in Nat
  BY LedgerRows DEF StockFits, ItemRow
<1>7. /\ stock[i].current = q /\ StockFits(stock[i]) /\ stock[i] \in ItemRow /\ stock[i].reserved \in Nat
      /\ stock[i].status = "PRESENT"
  <2>1. StockFits(stock[i]) /\ stock[i].current = q
    BY <1>1, <1>2, <1>6, ReleaseMoves
  <2>2. stock[i].status = item[i].status
    BY <1>2, <1>6 DEF ReleaseAll, Release, ItemRow
  <2> HIDE DEF stock, q
  <2> QED BY <1>1, <2>1, <2>2 DEF StockFits, ItemRow
<1>8. DOMAIN stock = Items /\ \A j \in Items : StockFits(stock[j])
  <2>1. \A j \in Items : StockFits(stock[j])
    BY <1>3 DEF Balanced, Fits
  <2> QED BY <2>1 DEF ReleaseAll
<1> HIDE DEF stock, book
<1>9. /\ item'[i] = Reserve(stock[i], q)
      /\ \A j \in Items : j # i => item'[j] = stock[j]
  BY <1>1, <1>8 DEF stock
<1>10. q \in Nat /\ q > 0
  BY <1>1, <1>2, <1>6, MarketConstants
<1>11. NextOrdinal \in Nat /\ OwnerOf[i] \in Orgs
  BY MarketConstants DEF NextOrdinal, WellFormed, TypeOK
<1> HIDE DEF q, released
<1>12. OrderFits(listing, 0) /\ listing.status = "OPEN" /\ listing.item = i /\ listing.rem = q /\ listing.qty = q
  <2>1. listing \in OrderRow
    BY <1>10, <1>11 DEF OrderRow, OrderStatuses, Live, Sides, NoExpiry
  <2> QED BY <1>1, <1>10, <2>1, RowFacts DEF OrderFits
<1> HIDE DEF listing
<1>13. stranded[o] = 0
  BY <1>1, LedgerRows DEF OrderFits
<1>14. /\ StockFits(item'[i]) /\ item'[i].reserved = stock[i].reserved + q
       /\ item'[i].current = stock[i].current - q
  <2>1. item'[i] = [stock[i] EXCEPT !.current = stock[i].current - q, !.reserved = stock[i].reserved + q]
    BY <1>9 DEF Reserve
  <2>2. stock[i].current - q \in Nat /\ stock[i].reserved + q \in Nat
    BY <1>7, <1>10
  <2> QED BY <1>7, <2>1, <2>2 DEF StockFits, ItemRow
<1>15. \A j \in Items : /\ Offer(book[o], j) = 0 /\ Offer(order'[o], j) = (IF j = i THEN q ELSE 0)
                        /\ Leftover(book[o], stranded[o], j) = 0
                        /\ Leftover(order'[o], stranded[o], j) = 0
  BY <1>1, <1>4, <1>5, <1>12, <1>13 DEF Offer, Leftover, Live
<1>16. ASSUME NEW j \in Items
       PROVE  /\ StockFits(item'[j])
              /\ item'[j].reserved = stock[j].reserved - Offer(book[o], j) + Offer(order'[o], j)
                     - Leftover(book[o], stranded[o], j) + Leftover(order'[o], stranded[o], j)
              /\ item'[j].current + item'[j].reserved = stock[j].current + stock[j].reserved
  <2>1. CASE j = i
    BY <1>7, <1>10, <1>14, <1>15, <2>1
  <2>2. CASE j # i
    <3>1. stock[j].reserved \in Nat /\ StockFits(stock[j])
      BY <1>8 DEF StockFits, ItemRow
    <3> QED BY <1>9, <1>15, <2>2, <3>1
  <2> QED BY <2>1, <2>2
<1>17. OrderMove(book, order', stranded, stranded, stock, item', o)
  BY <1>1, <1>4, <1>5, <1>12, <1>13, <1>16 DEF OrderMove
<1>18. Balanced(order', trade, item', stranded, loaded)
  BY <1>3, <1>17, OrderMoves
<1> QED
  BY <1>1, <1>18 DEF LedgerInv
\* reject_organization: what the cancelled trades held goes back to their
\* orders and, with what the withdrawn orders offered, to the stock.
LEMMA RejectionBalances ==
    ASSUME WellFormed, LedgerInv, NEW g, RejectOrganization(g)
    PROVE  LedgerInv'
<1> DEFINE doomed == {t \in Trades : trade[t].status = "PENDING" /\ g \in {trade[t].buyer, trade[t].seller}}
           owned == {o \in Orders : order[o].status \in Live /\ order[o].org = g}
           linked == {LinkedOrder(t) : t \in doomed}
           restored == [o \in Orders |-> RestoredTo(o, doomed)]
           back == [o \in Orders |-> order[o].rem + restored[o]]
           after == [o \in Orders |->
                       IF o \notin owned \union linked \/ order[o].status \in Withdrawn THEN order[o].status
                       ELSE IF order[o].org = g THEN "CANCELLED"
                       ELSE IF HasExpired(order[o], clock) THEN "EXPIRED"
                       ELSE StatusFor(order[o].qty, back[o])]
           released == [o \in Orders |->
                          IF order[o].status \in Withdrawn THEN restored[o]
                          ELSE IF after[o] \in Withdrawn THEN back[o] ELSE 0]
           touched == owned \union linked
           returned == ReleasedBy(touched, released)
           link == [t \in Trades |-> Link(trade[t])]
           qty == [t \in Trades |-> trade[t].qty]
<1>1. /\ \A o \in linked : back[o] <= order[o].qty
      /\ CanRelease(returned) /\ item' = ReleaseAll(returned)
      /\ trade' = [t \in Trades |-> IF t \in doomed THEN [trade[t] EXCEPT !.status = "CANCELLED"]
                                    ELSE trade[t]]
      /\ order' = [o \in Orders |-> [order[o] EXCEPT !.rem = back[o], !.status = after[o]]]
      /\ stranded' = stranded /\ loaded' = loaded
  BY DEF RejectOrganization, history
<1>2. /\ doomed \subseteq Trades
      /\ \A t \in doomed : /\ trade[t].status = "PENDING" /\ link[t] = Link(trade[t])
                           /\ link[t] \in Orders /\ link[t] \in linked
                           /\ trade[t].qty > 0 /\ order[link[t]].status # "ABSENT"
                           /\ \A p \in Orders : Share(trade[t], p) = IF p = link[t] THEN trade[t].qty ELSE 0
  <2> SUFFICES ASSUME NEW t \in doomed
               PROVE  /\ trade[t].status = "PENDING" /\ link[t] = Link(trade[t])
                      /\ link[t] \in Orders /\ link[t] \in linked
                      /\ trade[t].qty > 0 /\ order[link[t]].status # "ABSENT"
                      /\ \A p \in Orders : Share(trade[t], p) = IF p = link[t] THEN trade[t].qty ELSE 0
    OBVIOUS
  <2>1. trade[t].status = "PENDING" /\ t \in Trades /\ link[t] = Link(trade[t]) /\ Link(trade[t]) = LinkedOrder(t)
    BY DEF Link, LinkedOrder
  <2>2. /\ Link(trade[t]) \in Orders /\ trade[t].qty > 0
        /\ order[Link(trade[t])].status \in Standing \union Withdrawn
        /\ \A p \in Orders : Share(trade[t], p) = IF p = Link(trade[t]) THEN trade[t].qty ELSE 0
    BY <2>1, PendingWithinOrder
  <2>3. order[Link(trade[t])].status # "ABSENT"
    BY <2>2 DEF Standing, Live, Withdrawn
  <2> QED BY <2>1, <2>2, <2>3
<1>3. \A t \in Trades : /\ TradeFits(order, trade[t]) /\ trade[t] \in TradeRow
                        /\ qty[t] \in Amounts /\ qty[t] \in Nat /\ qty[t] = trade[t].qty
  <2>1. \A t \in Trades : TradeFits(order, trade[t])
    BY LedgerRows
  <2>2. \A t \in Trades : trade[t] \in TradeRow
    BY <2>1 DEF TradeFits
  <2>3. \A t \in Trades : trade[t].qty \in Amounts /\ trade[t].qty \in Nat
    BY <2>1, HoldType
  <2> QED BY <2>1, <2>2, <2>3
<1>4. \A o \in Orders : /\ OrderFits(order[o], stranded[o]) /\ order[o] \in OrderRow
                        /\ order[o].rem \in Nat /\ order[o].qty \in Nat /\ order[o].qty <= MaxQty
                        /\ order[o].rem <= order[o].qty
  BY LedgerRows, OfferType DEF OrderFits
<1> HIDE DEF doomed, link, qty
\* What each order gets back.
<1>5. /\ restored \in [Orders -> Nat]
      /\ \A o \in Orders : restored[o] = Total([t \in {u \in doomed : link[u] = o} |-> qty[t]])
  <2> SUFFICES ASSUME NEW o \in Orders
               PROVE  /\ RestoredTo(o, doomed) \in Nat
                      /\ RestoredTo(o, doomed) = Total([t \in {u \in doomed : link[u] = o} |-> qty[t]])
    OBVIOUS
  <2>1. {u \in doomed : LinkedOrder(u) = o} = {u \in doomed : link[u] = o}
    BY <1>2 DEF Link, LinkedOrder
  <2>2. [t \in {u \in doomed : LinkedOrder(u) = o} |-> trade[t].qty]
          = [t \in {u \in doomed : link[u] = o} |-> qty[t]]
    BY <1>2, <1>3, <2>1
  <2>3. IsFiniteSet({u \in doomed : link[u] = o})
    BY <1>2, RowsFinite, FS_Subset
  <2>4. Total([t \in {u \in doomed : link[u] = o} |-> qty[t]]) \in Nat
    BY <2>3, TotalType
  <2> QED BY <2>2, <2>4 DEF RestoredTo
<1> DEFINE part(o) == [t \in Trades |-> IF t \in doomed /\ link[t] = o THEN qty[t] ELSE 0]
<1>6. \A o \in Orders : part(o) \in [Trades -> Amounts] /\ Total(part(o)) = restored[o]
  <2> SUFFICES ASSUME NEW o \in Orders PROVE part(o) \in [Trades -> Amounts] /\ Total(part(o)) = restored[o]
    OBVIOUS
  <2> DEFINE S == {u \in doomed : link[u] = o}
  <2>1. part(o) \in [Trades -> Amounts]
    BY <1>3, RowFacts
  <2>2. part(o) = [t \in Trades |-> IF t \in S THEN qty[t] ELSE 0] /\ S \subseteq Trades
    BY <1>2
  <2>3. restored[o] = Total([t \in S |-> qty[t]])
    BY <1>5
  <2> HIDE DEF S, part, restored
  <2> QED BY <2>1, <2>2, <2>3, TotalOfPart
<1> HIDE DEF restored
<1>7. \A o \in Orders : /\ (o \notin linked => restored[o] = 0)
                        /\ (o \in linked => restored[o] > 0)
  <2> SUFFICES ASSUME NEW o \in Orders
               PROVE  /\ (o \notin linked => restored[o] = 0)
                      /\ (o \in linked => restored[o] > 0)
    OBVIOUS
  <2>1. o \notin linked => restored[o] = 0
    <3> SUFFICES ASSUME o \notin linked PROVE restored[o] = 0
      OBVIOUS
    <3>1. \A t \in DOMAIN part(o) : part(o)[t] = 0
      BY <1>2
    <3> HIDE DEF part
    <3> QED BY <1>6, <3>1, TotalOfNothing
  <2>2. o \in linked => restored[o] > 0
    <3> SUFFICES ASSUME o \in linked PROVE restored[o] > 0
      OBVIOUS
    <3>1. PICK t \in doomed : LinkedOrder(t) = o
      OBVIOUS
    <3>2. t \in Trades /\ link[t] = o /\ qty[t] > 0 /\ qty[t] \in Nat
      BY <1>2, <1>3, <3>1 DEF Link, LinkedOrder
    <3>3. part(o)[t] = qty[t]
      BY <3>1, <3>2
    <3> HIDE DEF part
    <3>4. OffAt(Trades, part(o), part(o), t)
      BY <1>6, <3>2, RowsFinite DEF OffAt
    <3>5. part(o)[t] <= Total(part(o)) /\ Total(part(o)) \in Nat
      BY <3>4, TotalPoint
    <3> QED BY <1>6, <3>2, <3>3, <3>5
  <2> QED BY <2>1, <2>2
<1>8. \A o \in Orders : /\ back[o] = order[o].rem + restored[o] /\ back[o] \in Nat
                        /\ back[o] <= order[o].qty /\ restored[o] \in Nat /\ restored[o] \in Amounts
  <2> SUFFICES ASSUME NEW o \in Orders
               PROVE  /\ back[o] = order[o].rem + restored[o] /\ back[o] \in Nat
                      /\ back[o] <= order[o].qty /\ restored[o] \in Nat /\ restored[o] \in Amounts
    OBVIOUS
  <2>1. back[o] = order[o].rem + restored[o] /\ restored[o] \in Nat
    BY <1>5
  <2>2. back[o] <= order[o].qty
    <3>1. CASE o \in linked
      BY <1>1, <3>1
    <3>2. CASE o \notin linked
      BY <1>4, <1>7, <2>1, <3>2
    <3> QED BY <3>1, <3>2
  <2> HIDE DEF back
  <2> QED BY <1>4, <2>1, <2>2, RowFacts
<1> HIDE DEF back
\* The orders afterwards.
<1>9. \A o \in touched : /\ o \in Orders /\ order[o].status # "ABSENT"
                         /\ order[o].status \in Standing \union Withdrawn
  <2>1. \A o \in linked : o \in Orders /\ order[o].status # "ABSENT"
    BY <1>2 DEF Link, LinkedOrder
  <2>2. \A o \in owned : o \in Orders /\ order[o].status # "ABSENT"
    BY DEF Live
  <2> HIDE DEF owned, linked
  <2> QED BY <1>4, <2>1, <2>2 DEF OrderRow, OrderStatuses, Standing
<1>10. ASSUME NEW o \in Orders, o \notin touched
       PROVE  /\ order'[o] = order[o] /\ after[o] = order[o].status /\ restored[o] = 0
              /\ released[o] \in Amounts
  <2>1. after[o] = order[o].status
    BY <1>10
  <2>2. restored[o] = 0 /\ back[o] = order[o].rem
    BY <1>4, <1>7, <1>8, <1>10
  <2>3. order'[o] = [order[o] EXCEPT !.rem = order[o].rem, !.status = order[o].status]
    BY <1>1, <2>1, <2>2
  <2>4. order[o] \in OrderRow
    BY <1>4
  <2>5. order'[o] = order[o]
    BY <2>3, <2>4 DEF OrderRow
  <2>6. released[o] \in Amounts
    BY <1>4, <1>8, <2>2, RowFacts
  <2> QED BY <2>1, <2>2, <2>5, <2>6
<1>11. ASSUME NEW o \in touched
       PROVE  /\ order'[o] = Restored(order[o], restored[o], after[o])
              /\ \/ /\ order[o].status \in Withdrawn /\ after[o] = order[o].status
                    /\ released[o] = restored[o]
                 \/ /\ order[o].status \in Standing /\ after[o] \in Withdrawn
                    /\ released[o] = back[o]
                 \/ /\ order[o].status \in Standing /\ after[o] \in Live
                    /\ after[o] = StatusFor(order[o].qty, order[o].rem + restored[o])
                    /\ released[o] = 0 /\ restored[o] > 0
  <2>1. /\ o \in Orders /\ order[o].status \in Standing \union Withdrawn
        /\ back[o] = order[o].rem + restored[o]
    BY <1>8, <1>9
  <2>2. order'[o] = Restored(order[o], restored[o], after[o])
    BY <1>1, <2>1 DEF Restored
  <2>3. CASE order[o].status \in Withdrawn
    BY <2>1, <2>2, <2>3
  <2>4. CASE order[o].status \notin Withdrawn
    <3>1. order[o].status \in Standing
      BY <2>1, <2>4
    <3>2. CASE order[o].org = g \/ HasExpired(order[o], clock)
      <4>1. after[o] \in {"CANCELLED", "EXPIRED"}
        BY <2>1, <2>4, <3>2
      <4>2. after[o] \in Withdrawn
        BY <4>1 DEF Withdrawn
      <4>3. released[o] = back[o]
        BY <2>1, <2>4, <4>2
      <4> QED BY <2>2, <3>1, <4>2, <4>3
    <3>3. CASE order[o].org # g /\ ~HasExpired(order[o], clock)
      <4>1. after[o] = StatusFor(order[o].qty, order[o].rem + restored[o])
        BY <2>1, <2>4, <3>3
      <4>2. after[o] \in Live /\ after[o] \notin Withdrawn
        BY <4>1 DEF StatusFor, Live, Withdrawn
      <4>3. o \in linked
        BY <3>3
      <4>4. released[o] = 0 /\ restored[o] > 0
        BY <1>7, <2>1, <2>4, <4>2, <4>3
      <4> QED BY <2>2, <3>1, <4>1, <4>2, <4>4
    <3> QED BY <3>2, <3>3
  <2> QED BY <2>3, <2>4
<1> HIDE DEF after, released, touched, owned, linked
<1>12. ASSUME NEW o \in touched
       PROVE  /\ OrderFits(order'[o], stranded[o]) /\ order'[o].item = order[o].item
              /\ order'[o].qty = order[o].qty /\ order'[o].rem = back[o]
              /\ order'[o].status = after[o] /\ after[o] # "ABSENT"
  <2>1. /\ OrderFits(order[o], stranded[o]) /\ restored[o] \in Nat
        /\ order[o].rem + restored[o] <= order[o].qty /\ order[o].status # "ABSENT"
        /\ back[o] = order[o].rem + restored[o]
    BY <1>4, <1>8, <1>9
  <2>2. \/ /\ after[o] = StatusFor(order[o].qty, order[o].rem + restored[o])
           /\ restored[o] > 0 /\ order[o].status \in Standing
        \/ after[o] \in Withdrawn /\ (order[o].status \in Standing \/ after[o] = order[o].status)
    BY <1>11
  <2>3. /\ OrderFits(Restored(order[o], restored[o], after[o]), stranded[o])
        /\ Restored(order[o], restored[o], after[o]).item = order[o].item
        /\ Restored(order[o], restored[o], after[o]).qty = order[o].qty
        /\ Restored(order[o], restored[o], after[o]).rem = order[o].rem + restored[o]
        /\ Restored(order[o], restored[o], after[o]).status = after[o] /\ after[o] # "ABSENT"
    BY ONLY <2>1, <2>2, RestoredFits
  <2> QED BY <1>11, <2>1, <2>3
<1>13. /\ \A o \in Orders : OrderFits(order'[o], stranded[o])
       /\ SameListings(order, order')
  BY <1>4, <1>10, <1>12 DEF SameListings
<1>14. \A o \in touched : released[o] \in Amounts
  <2> SUFFICES ASSUME NEW o \in touched PROVE released[o] \in Amounts
    OBVIOUS
  <2>1. o \in Orders
    BY <1>9
  <2>2. back[o] \in Amounts /\ restored[o] \in Amounts
    BY <1>4, <1>8, <2>1, RowFacts
  <2> QED BY <1>11, <2>2, RowFacts
<1> DEFINE X(i) == [o \in Orders |-> IF o \in touched /\ order[o].item = i THEN released[o] ELSE 0]
           R(i) == [o \in Orders |-> IF order[o].item = i THEN restored[o] ELSE 0]
           M(i) == [o \in Orders |-> Offer(order[o], i) + R(i)[o]]
<1>15. ASSUME NEW i \in Items, NEW o \in Orders
       PROVE  /\ X(i)[o] \in Amounts /\ R(i)[o] \in Amounts
              /\ Offer(order[o], i) \in Amounts /\ Offer(order'[o], i) \in Amounts
              /\ Offer(order[o], i) + R(i)[o] = Offer(order'[o], i) + X(i)[o]
              /\ Offer(order[o], i) + R(i)[o] \in Amounts
  <2>1. /\ Offer(order[o], i) \in Amounts /\ Offer(order'[o], i) \in Amounts
        /\ Offer(order[o], i) \in Nat /\ Offer(order'[o], i) \in Nat
    BY <1>4, <1>13, OfferType, RowFacts
  <2>2. X(i)[o] \in Amounts /\ R(i)[o] \in Amounts /\ restored[o] \in Nat
    BY <1>8, <1>14, RowFacts
  <2>3. CASE o \notin touched
    <3>1. X(i)[o] = 0 /\ R(i)[o] = 0 /\ order'[o] = order[o]
      BY <1>10, <2>3
    <3> QED BY <2>1, <2>2, <3>1
  <2>4. CASE o \in touched /\ order[o].item # i
    <3>1. X(i)[o] = 0 /\ R(i)[o] = 0 /\ Offer(order[o], i) = 0 /\ Offer(order'[o], i) = 0
      BY <1>12, <2>4 DEF Offer
    <3> QED BY <2>2, <3>1, RowFacts
  <2>5. CASE o \in touched /\ order[o].item = i
    <3>1. X(i)[o] = released[o] /\ R(i)[o] = restored[o]
      BY <2>5
    <3>2. Offer(order'[o], i) = IF after[o] \in Live THEN back[o] ELSE 0
      BY <1>12, <2>5 DEF Offer
    <3>3. Offer(order[o], i) = IF order[o].status \in Withdrawn THEN 0 ELSE order[o].rem
      <4>1. OrderFits(order[o], stranded[o]) /\ order[o].status \in Standing \union Withdrawn
        BY <1>4, <1>9, <2>5
      <4> QED BY <2>5, <4>1 DEF Offer, OrderFits, Standing, Withdrawn, Live
    <3>4. back[o] = order[o].rem + restored[o] /\ back[o] \in Nat /\ order[o].rem \in Nat /\ back[o] <= MaxQty
      BY <1>4, <1>8, RowFacts
    <3>5. \A st \in Withdrawn : st \notin Live /\ st \notin Standing
      BY DEF Withdrawn, Live, Standing
    <3>6. Offer(order[o], i) + restored[o] = Offer(order'[o], i) + released[o]
      BY <1>11, <2>2, <2>5, <3>2, <3>3, <3>4, <3>5
    <3>7. Offer(order[o], i) + restored[o] <= back[o]
      BY <2>2, <3>3, <3>4
    <3>8. Offer(order[o], i) + restored[o] \in Nat
      BY <2>1, <2>2
    <3> QED BY <2>1, <2>2, <3>1, <3>4, <3>6, <3>7, <3>8, RowFacts
  <2> QED BY <2>3, <2>4, <2>5
\* The trades afterwards.
<1>16. ASSUME NEW t \in Trades
       PROVE  /\ TradeFits(order', trade'[t])
              /\ t \notin doomed => trade'[t] = trade[t]
              /\ t \in doomed => trade'[t].status = "CANCELLED" /\ SameDeal(trade[t], trade'[t])
  <2>1. t \notin doomed => trade'[t] = trade[t]
    BY <1>1
  <2>2. ASSUME t \in doomed
        PROVE  /\ trade'[t].status = "CANCELLED" /\ SameDeal(trade[t], trade'[t]) /\ trade'[t] \in TradeRow
    BY <1>1, <1>3, <2>2 DEF TradeRow, TradeStatuses, SameDeal
  <2>3. TradeFits(order, trade'[t])
    <3>1. CASE t \in doomed
      BY <1>2, <1>3, <2>2, <3>1 DEF TradeFits, SameDeal, Link
    <3>2. CASE t \notin doomed
      BY <1>3, <2>1, <3>2
    <3> QED BY <3>1, <3>2
  <2>4. TradeFits(order', trade'[t])
    BY <1>13, <2>3, TradeFitsKept
  <2> QED BY <2>1, <2>2, <2>4
<1>17. returned \in [Items -> Nat]
  <2>1. touched \subseteq Orders
    BY <1>9
  <2> QED BY <2>1, ReleasedByType
<1> HIDE DEF returned
<1>18. Fits(order', trade', item', stranded)
  <2>1. \A i \in Items : StockFits(item'[i])
    BY <1>1, <1>17, LedgerRows, ReleaseMoves
  <2> QED BY <1>13, <1>16, <2>1 DEF Fits, TradesFit
<1>19. ASSUME NEW i \in Items
       PROVE  /\ item'[i].reserved = ReservedFor(order', trade', stranded, i)
              /\ item'[i].current + item'[i].reserved + Total(Holds(order', trade', Sold, i)) = loaded[i]
  <2> DEFINE Sel == {o \in Orders : order[o].item = i}
             D == [t \in Trades |-> IF t \in doomed /\ link[t] \in Sel THEN qty[t] ELSE 0]
  <2>1. returned[i] = Total(X(i))
    <3> DEFINE S == {p \in touched : order[p].item = i}
    <3>1. returned[i] = Total([p \in S |-> released[p]]) /\ S \subseteq Orders
      BY <1>9 DEF returned, ReleasedBy
    <3>2. X(i) = [p \in Orders |-> IF p \in S THEN released[p] ELSE 0]
      OBVIOUS
    <3> HIDE DEF S, X
    <3> QED BY <3>1, <3>2, TotalOfPart
  <2>2. Total(R(i)) = Total(D)
    <3>1. R(i) = [o \in Orders |-> IF o \in Sel THEN restored[o] ELSE 0]
      OBVIOUS
    <3>2. Groups(doomed, qty, link, restored)
      BY <1>2, <1>3, <1>5, <1>8 DEF qty, Groups
    <3> HIDE DEF R, Sel
    <3>3. Total([o \in Orders |-> IF o \in Sel THEN restored[o] ELSE 0]) = Total(D)
      BY <3>2, TotalGrouped
    <3> QED BY <3>1, <3>3
  <2>3. /\ AddsUp(Orders, Offers(order, i), R(i), M(i))
        /\ AddsUp(Orders, Offers(order', i), X(i), M(i))
    <3>1. X(i) \in [Orders -> Amounts] /\ R(i) \in [Orders -> Amounts] /\ M(i) \in [Orders -> Amounts]
      <4>1. /\ X(i) = [o \in Orders |-> X(i)[o]] /\ R(i) = [o \in Orders |-> R(i)[o]]
            /\ \A o \in Orders : M(i)[o] = Offer(order[o], i) + R(i)[o]
            /\ M(i) = [o \in Orders |-> M(i)[o]]
        OBVIOUS
      <4> HIDE DEF X, R, M
      <4> QED BY <1>15, <4>1
    <3>2. /\ Offers(order, i) \in [Orders -> Amounts] /\ Offers(order', i) \in [Orders -> Amounts]
          /\ \A o \in Orders : Offers(order, i)[o] = Offer(order[o], i) /\ Offers(order', i)[o] = Offer(order'[o], i)
      BY <1>15 DEF Offers
    <3>3. \A o \in Orders : M(i)[o] = Offer(order[o], i) + R(i)[o]
      OBVIOUS
    <3> HIDE DEF X, R, M
    <3>4. \A o \in Orders : M(i)[o] = Offer(order'[o], i) + X(i)[o]
      BY <1>15, <3>3
    <3> QED BY <3>1, <3>2, <3>3, <3>4, RowsFinite DEF AddsUp
  <2>4. AddsUp(Trades, Holds(order', trade', Held, i), D, Holds(order, trade, Held, i))
    <3>1. \A t \in Trades : /\ Hold(order', trade'[t], Held, i) \in Amounts
                            /\ Hold(order, trade[t], Held, i) \in Amounts /\ D[t] \in Amounts
      BY <1>3, <1>16, HoldType, RowFacts
    <3>2. \A t \in Trades : Hold(order, trade[t], Held, i) = Hold(order', trade'[t], Held, i) + D[t]
      <4> SUFFICES ASSUME NEW t \in Trades
                   PROVE  Hold(order, trade[t], Held, i) = Hold(order', trade'[t], Held, i) + D[t]
        OBVIOUS
      <4>1. CASE t \in doomed
        <5>1. Hold(order', trade'[t], Held, i) = 0
          BY <1>16, <4>1 DEF Hold, Held
        <5>2. Hold(order, trade[t], Held, i) = D[t]
          BY <1>2, <1>3, <4>1 DEF Hold, Held
        <5>3. D[t] \in Nat
          BY <3>1, RowFacts
        <5> HIDE DEF D
        <5> QED BY <5>1, <5>2, <5>3
      <4>2. CASE t \notin doomed
        <5>1. Hold(order', trade'[t], Held, i) = Hold(order, trade[t], Held, i)
          BY <1>3, <1>13, <1>16, <4>2, HoldKept DEF Held
        <5>2. D[t] = 0 /\ Hold(order, trade[t], Held, i) \in Nat
          BY <3>1, <4>2, RowFacts
        <5> HIDE DEF D
        <5> QED BY <5>1, <5>2
      <4> QED BY <4>1, <4>2
    <3>3. D \in [Trades -> Amounts]
      <4>1. D = [t \in Trades |-> D[t]]
        OBVIOUS
      <4> HIDE DEF D
      <4> QED BY <3>1, <4>1
    <3> HIDE DEF D
    <3> QED BY <3>1, <3>2, <3>3, RowsFinite DEF AddsUp, Holds
  <2>5. Holds(order', trade', Sold, i) = Holds(order, trade, Sold, i)
    <3>1. \A t \in Trades : Hold(order', trade'[t], Sold, i) = Hold(order, trade[t], Sold, i)
      <4> SUFFICES ASSUME NEW t \in Trades
                   PROVE  Hold(order', trade'[t], Sold, i) = Hold(order, trade[t], Sold, i)
        OBVIOUS
      <4>1. CASE t \in doomed
        BY <1>2, <1>16, <4>1 DEF Hold, Sold
      <4>2. CASE t \notin doomed
        BY <1>3, <1>13, <1>16, <4>2, HoldKept DEF Sold
      <4> QED BY <4>1, <4>2
    <3> QED BY <3>1 DEF Holds
  <2>6. Leftovers(order', stranded, i) = Leftovers(order, stranded, i)
    BY <1>4, <1>13, LeftoverKept DEF Leftovers, SameListings
  <2> HIDE DEF X, R, M, D
  <2>7. /\ Total(Offers(order, i)) + Total(R(i)) = Total(Offers(order', i)) + Total(X(i))
        /\ Total(Offers(order, i)) \in Nat /\ Total(R(i)) \in Nat
        /\ Total(Offers(order', i)) \in Nat /\ Total(X(i)) \in Nat
    BY <2>3, TotalPlus
  <2>8. /\ Total(Holds(order, trade, Held, i)) = Total(Holds(order', trade', Held, i)) + Total(D)
        /\ Total(Holds(order', trade', Held, i)) \in Nat /\ Total(D) \in Nat
    BY <2>4, TotalPlus
  <2>9. /\ item'[i].reserved = item[i].reserved - returned[i]
        /\ item'[i].current = item[i].current + returned[i]
        /\ item[i].reserved \in Nat /\ item[i].current \in Nat /\ returned[i] \in Nat
    BY <1>1, <1>17, LedgerRows, ReleaseMoves DEF StockFits, ItemRow
  <2>10. /\ item[i].reserved = ReservedFor(order, trade, stranded, i)
         /\ item[i].current + item[i].reserved + Total(Holds(order, trade, Sold, i)) = loaded[i]
    BY DEF LedgerInv, Balanced
  <2>11. Total(Leftovers(order, stranded, i)) \in Nat /\ Total(Holds(order, trade, Sold, i)) \in Nat
    BY TotalsType
  <2>12. item'[i].reserved = ReservedFor(order', trade', stranded, i)
    BY <2>1, <2>2, <2>6, <2>7, <2>8, <2>9, <2>10, <2>11 DEF ReservedFor
  <2>13. item'[i].current + item'[i].reserved + Total(Holds(order', trade', Sold, i)) = loaded[i]
    BY <2>5, <2>9, <2>10, <2>11
  <2> QED BY <2>12, <2>13
<1>20. ASSUME NEW o \in Orders PROVE Filled(order', trade', o)
  <2>1. AddsUp(Trades, Shares(trade', o), part(o), Shares(trade, o))
    <3>1. \A t \in Trades : Share(trade'[t], o) \in Amounts /\ Share(trade[t], o) \in Amounts
      BY <1>3, <1>16, HoldType
    <3>2. \A t \in Trades : Share(trade[t], o) = Share(trade'[t], o) + part(o)[t]
      <4> SUFFICES ASSUME NEW t \in Trades PROVE Share(trade[t], o) = Share(trade'[t], o) + part(o)[t]
        OBVIOUS
      <4>1. CASE t \in doomed
        <5>1. Share(trade'[t], o) = 0
          BY <1>16, <4>1 DEF Share, Undone
        <5>2. Share(trade[t], o) = part(o)[t] /\ part(o)[t] \in Nat
          BY <1>2, <1>3, <4>1
        <5> HIDE DEF part
        <5> QED BY <5>1, <5>2
      <4>2. CASE t \notin doomed
        <5>1. part(o)[t] = 0 /\ trade'[t] = trade[t] /\ Share(trade[t], o) \in Nat
          BY <1>16, <3>1, <4>2, RowFacts
        <5> HIDE DEF part
        <5> QED BY <5>1
      <4> QED BY <4>1, <4>2
    <3> HIDE DEF part
    <3> QED BY <1>6, <3>1, <3>2, RowsFinite DEF AddsUp, Shares
  <2>2. /\ Total(Shares(trade, o)) = Total(Shares(trade', o)) + restored[o]
        /\ Total(Shares(trade', o)) \in Nat /\ restored[o] \in Nat
    <3> HIDE DEF part
    <3> QED BY <1>6, <1>8, <2>1, TotalPlus
  <2>3. Filled(order, trade, o) /\ order[o].qty \in Nat /\ order[o].rem \in Nat
    BY <1>4 DEF LedgerInv, Balanced
  <2>4. CASE o \notin touched
    BY <1>10, <2>2, <2>3, <2>4 DEF Filled
  <2>5. CASE o \in touched
    <3>1. /\ order'[o].qty = order[o].qty /\ order'[o].rem = order[o].rem + restored[o]
          /\ order'[o].status = after[o]
      BY <1>8, <1>12, <2>5
    <3>2. /\ order[o].status \in Standing \union Withdrawn
          /\ order'[o].status \in Standing => order[o].status \in Standing
      BY <1>9, <1>11, <2>5, <3>1 DEF Standing, Withdrawn, Live
    <3>3. /\ order[o].status \in Standing => Total(Shares(trade', o)) = order'[o].qty - order'[o].rem
          /\ Total(Shares(trade', o)) <= order'[o].qty - order'[o].rem
      BY <2>2, <2>3, <3>1, <3>2 DEF Filled
    <3> QED BY <3>2, <3>3 DEF Filled
  <2> QED BY <2>4, <2>5
<1> QED
  BY <1>1, <1>18, <1>19, <1>20, ZenonT(40) DEF LedgerInv, Balanced
-----------------------------------------------------------------------------
(* The ledger at rest and through a run *)

LEMMA LedgerInit == Init => LedgerInv
<1> SUFFICES ASSUME Init PROVE LedgerInv
  OBVIOUS
<1>1. /\ \A o \in Orders : order[o] = AbsentOrder /\ stranded[o] = 0
      /\ \A t \in Trades : trade[t] = AbsentTrade
      /\ \A i \in Items : item[i] = AbsentItem /\ loaded[i] = 0
  BY DEF Init
<1>2. Fits(order, trade, item, stranded)
  <2>1. OrderFits(AbsentOrder, 0)
    BY RowFacts, MarketConstants
    DEF OrderFits, AbsentOrder, OrderRow, OrderStatuses, Sides, NoExpiry
  <2>2. \A t \in Trades : TradeFits(order, trade[t])
    BY WellFormedInit, RowFacts, <1>1 DEF TradeFits, AbsentTrade, WellFormed, TypeOK
  <2>3. \A i \in Items : StockFits(item[i])
    BY WellFormedInit, <1>1 DEF StockFits, WellFormed, TypeOK
  <2> QED BY <1>1, <2>1, <2>2, <2>3 DEF Fits, TradesFit
<1>3. ASSUME NEW i \in Items
      PROVE  /\ item[i].reserved = ReservedFor(order, trade, stranded, i)
             /\ item[i].current + item[i].reserved + Total(Holds(order, trade, Sold, i)) = loaded[i]
  <2>1. Total(Offers(order, i)) = 0 /\ Total(Leftovers(order, stranded, i)) = 0
    <3>1. \A x \in DOMAIN Offers(order, i) : Offers(order, i)[x] = 0
      BY <1>1 DEF Offers, Offer, AbsentOrder, Live
    <3>2. \A x \in DOMAIN Leftovers(order, stranded, i) : Leftovers(order, stranded, i)[x] = 0
      BY <1>1 DEF Leftovers, Leftover
    <3> QED BY <3>1, <3>2, TotalOfNothing
  <2>2. Total(Holds(order, trade, Held, i)) = 0 /\ Total(Holds(order, trade, Sold, i)) = 0
    <3>1. \A x \in DOMAIN Holds(order, trade, Held, i) : Holds(order, trade, Held, i)[x] = 0
      BY <1>1 DEF Holds, Hold, AbsentTrade, Held
    <3>2. \A x \in DOMAIN Holds(order, trade, Sold, i) : Holds(order, trade, Sold, i)[x] = 0
      BY <1>1 DEF Holds, Hold, AbsentTrade, Sold
    <3> QED BY <3>1, <3>2, TotalOfNothing
  <2> QED BY <1>1, <2>1, <2>2 DEF ReservedFor, AbsentItem
<1>4. ASSUME NEW o \in Orders PROVE Filled(order, trade, o)
  <2>1. order[o].status = "ABSENT"
    BY <1>1 DEF AbsentOrder
  <2> QED BY <2>1 DEF Filled, Standing, Withdrawn, Live
<1> QED
  BY <1>2, <1>3, <1>4 DEF LedgerInv, Balanced

LEMMA LedgerStep == WellFormed /\ AggressorOnBook /\ LedgerInv /\ [Next]_vars => LedgerInv'
<1> SUFFICES ASSUME WellFormed, AggressorOnBook, LedgerInv, [Next]_vars PROVE LedgerInv'
  OBVIOUS
<1>1. /\ Prices \subseteq Nat /\ Expiries \subseteq Nat /\ StockLevels \subseteq Nat
      /\ Deliveries \subseteq Nat /\ Later \subseteq Nat
      /\ Bidders \subseteq Orgs /\ Askers \subseteq Orgs /\ Hitters \subseteq Orgs
      /\ BidCerts \subseteq Certs \union {AnyCert}
  BY MarketConstants DEF Later, WellFormed, TypeOK
<1>2. ASSUME UNCHANGED <<order, trade, item, stranded, loaded>>
      PROVE  LedgerInv'
  BY <1>2 DEF LedgerInv
<1>3. CASE Book
  <2>1. ASSUME NEW o \in Orders, NEW g \in Orgs, NEW side \in Sides, NEW cert \in Certs \union {AnyCert},
               NEW q \in Sizes, NEW price \in Prices, NEW expires \in Expiries, NEW now \in Later,
               CreateOrder(o, g, side, cert, q, price, expires, now)
        PROVE  LedgerInv'
    BY <1>1, <2>1, CreateBalances
  <2>2. CASE \E o \in Orders, g \in Bidders, cert \in BidCerts, q \in Sizes,
                price \in Prices, expires \in Expiries, now \in Later :
                  CreateOrder(o, g, "BID", cert, q, price, expires, now)
    BY <1>1, <2>1, <2>2 DEF Sides
  <2>3. CASE \E o \in Orders, g \in Askers, cert \in Certs, q \in Sizes,
                price \in Prices, expires \in Expiries, now \in Later :
                  CreateOrder(o, g, "ASK", cert, q, price, expires, now)
    BY <1>1, <2>1, <2>3 DEF Sides
  <2>4. CASE \E o \in Orders, req \in Amendments, now \in Later : UpdateOrder(o, req, now)
    BY <1>1, <2>4, UpdateBalances
  <2>5. CASE \E o \in Orders : CancelOrder(o)
    BY <2>5, CancelBalances
  <2>6. CASE \E t \in Trades : MatchFill(t)
    BY <2>6, FillBalances
  <2>7. CASE MatchDone
    BY <1>2, <2>7 DEF MatchDone, market, history
  <2> QED BY <1>3, <2>2, <2>3, <2>4, <2>5, <2>6, <2>7 DEF Book
<1>4. CASE Inventory
  <2>1. CASE \E i \in Items, q \in StockLevels : AddInventory(i, q) \/ UpdateInventory(i, q)
    BY <1>1, <2>1, StockEntryBalances
  <2>2. CASE \E i \in Items : DeleteInventory(i)
    <3>1. PICK i \in Items : DeleteInventory(i)
      BY <2>2
    <3>2. 0 \in Nat
      OBVIOUS
    <3> QED BY <3>1, <3>2, StockEntryBalances
  <2>3. CASE \E o \in Orders, i \in Items, cert \in Certs, price \in Prices, E \in SUBSET Orders :
               PublishInventory(o, i, cert, price, E)
    BY <1>1, <2>3, PublishBalances
  <2> QED BY <1>4, <2>1, <2>2, <2>3 DEF Inventory
<1>5. CASE Trading
  <2>1. CASE \E t \in Trades, o \in Orders, g \in Hitters, q \in Sizes : CreateTrade(t, o, g, q)
    BY <1>1, <2>1, HitBalances
  <2>2. CASE \E t \in Trades : ConfirmTrade(t) \/ DeclineTrade(t)
    BY <2>2, ConfirmBalances, DeclineBalances
  <2>3. CASE \E t \in Trades : PayTrade(t)
    <3>1. PICK t \in Trades : PayTrade(t)
      BY <2>3
    <3>2. 0 \in Nat
      OBVIOUS
    <3> QED BY <3>1, <3>2, DeliverBalances
  <2>4. CASE \E t \in Trades, q \in Deliveries : DeliverTrade(t, q)
    BY <1>1, <2>4, DeliverBalances
  <2> QED BY <1>5, <2>1, <2>2, <2>3, <2>4 DEF Trading
<1>6. CASE Administration
  <2>1. CASE \E p \in RevocableUsers : RejectUser(p) \/ AdmitUser(p)
    BY <1>2, <2>1 DEF RejectUser, AdmitUser, market, history
  <2>2. CASE \E g \in RevocableOrgs : RejectOrganization(g)
    BY <2>2, RejectionBalances
  <2>3. CASE \E g \in RevocableOrgs : ApproveOrganization(g)
    BY <1>2, <2>3 DEF ApproveOrganization, market, history
  <2> QED BY <1>6, <2>1, <2>2, <2>3 DEF Administration
<1>7. CASE Tick
  BY <1>2, <1>7 DEF Tick, market, history
<1>8. CASE Refused \/ UNCHANGED vars
  BY <1>2, <1>8 DEF Refused, vars
<1> QED
  BY <1>3, <1>4, <1>5, <1>6, <1>7, <1>8 DEF Next

\* The stock ledger balances whatever the requests and their order: an item's
\* reserved quantity is the remaining quantity of the live offers listed from
\* it, the pending hits on them and what expired offers left behind, free
\* and reserved stock and what was sold add up to what was entered, and an
\* order on the book has lost exactly what its standing trades bought.
THEOREM LedgerAlwaysBalances == Spec => []LedgerBalances
<1>1. Init => AggressorOnBook
  BY DEF Init, AggressorOnBook
<1>2. Spec => [](WellFormed /\ AggressorOnBook /\ LedgerInv)
  <2>1. Init => WellFormed /\ AggressorOnBook /\ LedgerInv
    BY <1>1, WellFormedInit, LedgerInit
  <2>2. WellFormed /\ AggressorOnBook /\ LedgerInv /\ [Next]_vars
          => (WellFormed /\ AggressorOnBook /\ LedgerInv)'
    BY WellFormedStep, AggressorStep, LedgerStep
  <2> QED BY <2>1, <2>2, PTL DEF Spec
<1>3. WellFormed /\ AggressorOnBook /\ LedgerInv => LedgerBalances
  BY LedgerImplies
<1> QED BY <1>2, <1>3, PTL
=============================================================================
