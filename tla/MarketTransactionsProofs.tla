----------------------- MODULE MarketTransactionsProofs -----------------------
(* Theorems about MarketTransactions, for every catalogue of commands. *)
EXTENDS MarketTransactions, WellFoundedInduction, TLAPS

Kinds == {"user", "org", "slice", "trade", "order", "item", "receipt"}
\* The rows and keys a statement locks.
Locks(s) == {s.kind} \X s.ids
Statements == {s \in [kind : Kinds, ids : SUBSET Nat, check : BOOLEAN] : Locks(s) \subseteq Resources}

\* The statements of a sequence.
Elems(s) == {s[i] : i \in 1 .. Len(s)}

\* s is a sequence of statements that has all of p's.
Includes(s, p) == s \in Seq(Statements) /\ p \in Seq(Statements) /\ Elems(p) \subseteq Elems(s)

LEMMA ConcatElems ==
    ASSUME NEW S, NEW s \in Seq(S), NEW t \in Seq(S)
    PROVE  s \o t \in Seq(S) /\ Elems(s \o t) = Elems(s) \union Elems(t)
<1>1. s \o t \in Seq(S) /\ Len(s \o t) = Len(s) + Len(t) /\ Len(s) \in Nat /\ Len(t) \in Nat
  OBVIOUS
<1>2. \A i \in 1 .. Len(s) : (s \o t)[i] = s[i]
  OBVIOUS
<1>3. \A i \in 1 .. Len(t) : (s \o t)[Len(s) + i] = t[i]
  OBVIOUS
<1>4. \A i \in 1 .. Len(s \o t) : i \in 1 .. Len(s) \/ (i - Len(s) \in 1 .. Len(t) /\ i = Len(s) + (i - Len(s)))
  BY <1>1
<1>5. Elems(s \o t) \subseteq Elems(s) \union Elems(t)
  BY <1>1, <1>2, <1>3, <1>4 DEF Elems
<1>6. Elems(s) \subseteq Elems(s \o t)
  BY <1>1, <1>2 DEF Elems
<1>7. Elems(t) \subseteq Elems(s \o t)
  <2> SUFFICES ASSUME NEW i \in 1 .. Len(t) PROVE t[i] \in Elems(s \o t)
    BY DEF Elems
  <2>1. Len(s) + i \in 1 .. Len(s \o t)
    BY <1>1
  <2> QED
    BY <2>1, <1>3 DEF Elems
<1> QED
  BY <1>1, <1>5, <1>6, <1>7

LEMMA IncludesMore ==
    ASSUME NEW s, NEW p, Includes(s, p), NEW t \in Seq(Statements)
    PROVE  Includes(s \o t, p) /\ Includes(t \o s, p)
  BY ConcatElems DEF Includes

LEMMA ConcatFirst ==
    ASSUME NEW S, NEW s \in Seq(S), NEW t \in Seq(S), Len(s) >= 1
    PROVE  s \o t \in Seq(S) /\ Len(s \o t) >= 1 /\ (s \o t)[1] = s[1]
  OBVIOUS

LEMMA CommandTyped ==
    ASSUME NEW c \in Catalogue
    PROVE  /\ c.op \in Operations /\ c.key \in Keys \union {NoKey}
           /\ c.actor \in Nat /\ c.org \in Nat /\ (c.key \in Keys => c.key \in Nat)
           /\ c.slices \subseteq Nat /\ c.trades \subseteq Nat /\ c.orders \subseteq Nat
           /\ c.crossing \subseteq Nat /\ c.users \subseteq Nat /\ c.orgs \subseteq Nat
           /\ c.items \subseteq Nat
           /\ c.actor \in Users /\ c.org \in Orgs /\ c.slices \subseteq Slices
           /\ c.trades \subseteq Trades /\ c.orders \subseteq Orders /\ c.crossing \subseteq Orders
           /\ c.users \subseteq Users /\ c.orgs \subseteq Orgs /\ c.items \subseteq Items
           /\ c.revokes \subseteq Resources /\ c.body \in Bodies
  BY TransactionConstants DEF Command

LEMMA PiecesTyped ==
    ASSUME NEW c \in Catalogue
    PROVE  /\ Market(c) \in Seq(Statements)
           /\ Revalidate(c) \in Seq(Statements)
           /\ Match(c) \in Seq(Statements)
           /\ Parties(c) \in Seq(Statements)
           /\ <<Lock("order", c.orders)>> \in Seq(Statements)
           /\ <<Lock("item", c.items)>> \in Seq(Statements)
           /\ <<Lock("trade", c.trades), Lock("order", c.orders)>> \in Seq(Statements)
           /\ <<Lock("org", c.orgs), Lock("item", c.items)>> \in Seq(Statements)
           /\ Receipt(c) \in Seq(Statements)
           /\ RejectUser(c) \in Seq(Statements)
           /\ <<Lock("org", {c.org}), Lock("user", c.users)>> \in Seq(Statements)
           /\ <<Lock("trade", c.trades), Lock("order", c.orders), Lock("org", c.orgs),
                Lock("item", c.items)>> \in Seq(Statements)
<1>1. /\ {c.actor} \in SUBSET Nat /\ {c.org} \in SUBSET Nat
      /\ c.slices \in SUBSET Nat /\ c.trades \in SUBSET Nat /\ c.orders \in SUBSET Nat
      /\ c.crossing \in SUBSET Nat /\ c.users \in SUBSET Nat /\ c.orgs \in SUBSET Nat
      /\ c.items \in SUBSET Nat
  BY CommandTyped
<1>2. /\ Lock("slice", c.slices) \in Statements
      /\ Lock("order", c.orders) \in Statements
      /\ Lock("order", c.crossing) \in Statements
      /\ Lock("trade", c.trades) \in Statements
      /\ Lock("item", c.items) \in Statements
      /\ Lock("org", c.orgs) \in Statements /\ Check("org", c.orgs) \in Statements
      /\ Lock("user", c.users) \in Statements /\ Check("user", c.users) \in Statements
      /\ Check("user", {c.actor}) \in Statements /\ Check("org", {c.org}) \in Statements
      /\ Lock("org", {c.org}) \in Statements
  BY <1>1, CommandTyped DEF Lock, Check, Statements, Kinds, Locks, Resources
<1>3. Match(c) \in Seq(Statements)
  <2>1. CASE c.crossing = {}
    BY <2>1, <1>2 DEF Match
  <2>2. CASE c.crossing # {}
    BY <2>2, <1>2 DEF Match
  <2> QED
    BY <2>1, <2>2
<1>4. Parties(c) \in Seq(Statements) /\ Revalidate(c) \in Seq(Statements) /\ Market(c) \in Seq(Statements)
  BY <1>2 DEF Parties, Revalidate, Market
<1>5. Receipt(c) \in Seq(Statements)
  <2>1. CASE c.key = NoKey
    BY <2>1 DEF Receipt
  <2>2. CASE c.key # NoKey
    <3>1. {c.key} \in SUBSET Nat /\ c.key \in Keys
      BY <2>2, CommandTyped
    <3>2. Lock("receipt", {c.key}) \in Statements
      BY <3>1 DEF Lock, Statements, Kinds, Locks, Resources
    <3> QED
      BY <2>2, <3>2 DEF Receipt
  <2> QED
    BY <2>1, <2>2
<1>6. RejectUser(c) \in Seq(Statements)
  BY <1>2 DEF RejectUser
<1> QED
  BY <1>2, <1>3, <1>4, <1>5, <1>6

\* Every handler that reads the Idempotency-Key header takes the key's lock
\* first.
LEMMA ReceiptFirst ==
    ASSUME NEW c \in Catalogue, c.key # NoKey
    PROVE  Len(Plan(c)) >= 1 /\ Len(Plan(c)) \in Nat /\ Plan(c)[1] = Lock("receipt", {c.key})
<1> DEFINE R == <<Lock("receipt", {c.key})>>
           First(s) == s \in Seq(Statements) /\ Len(s) >= 1 /\ s[1] = Lock("receipt", {c.key})
<1>1. Receipt(c) = R
  BY DEF Receipt
<1>2. First(R)
  <2>1. Lock("receipt", {c.key}) \in Statements
    <3>1. {c.key} \in SUBSET Nat /\ c.key \in Keys
      BY CommandTyped
    <3> QED
      BY <3>1 DEF Lock, Statements, Kinds, Locks, Resources
  <2> QED
    BY <2>1
<1>3. ASSUME NEW s, First(s), NEW t \in Seq(Statements)
      PROVE  First(s \o t)
  BY <1>3, ConcatFirst
<1> HIDE DEF First, R
<1>4. First(R \o Market(c))
  BY <1>2, <1>3, PiecesTyped
<1>5. First((R \o Market(c)) \o <<Lock("order", c.orders)>>)
  BY <1>4, <1>3, PiecesTyped
<1>6. First(TradeRows(c))
  BY <1>1, <1>4, <1>3, PiecesTyped DEF TradeRows
<1>7. c.op \in Operations /\ c.op \notin Unkeyed
  BY TransactionConstants, CommandTyped
<1>8. First(Plan(c))
  <2>1. CASE c.op = "create_order"
    <3>1. First(R \o Market(c) \o Revalidate(c))
      BY <1>4, <1>3, PiecesTyped
    <3>2. First(R \o Market(c) \o Revalidate(c) \o Match(c))
      BY <3>1, <1>3, PiecesTyped
    <3> QED
      BY <2>1, <3>2, <1>1 DEF Plan, CreateOrder
  <2>2. CASE c.op = "update_order"
    <3>1. First(R \o Market(c) \o <<Lock("order", c.orders)>> \o Revalidate(c))
      BY <1>5, <1>3, PiecesTyped
    <3>2. First(R \o Market(c) \o <<Lock("order", c.orders)>> \o Revalidate(c) \o <<Lock("item", c.items)>>)
      BY <3>1, <1>3, PiecesTyped
    <3>3. First(R \o Market(c) \o <<Lock("order", c.orders)>> \o Revalidate(c)
                  \o <<Lock("item", c.items)>> \o Match(c))
      BY <3>2, <1>3, PiecesTyped
    <3> QED
      BY <2>2, <3>3, <1>1 DEF Plan, UpdateOrder
  <2>3. CASE c.op = "cancel_order"
    <3>1. First(R \o Market(c) \o <<Lock("order", c.orders)>> \o Revalidate(c))
      BY <1>5, <1>3, PiecesTyped
    <3>2. First(R \o Market(c) \o <<Lock("order", c.orders)>> \o Revalidate(c) \o <<Lock("item", c.items)>>)
      BY <3>1, <1>3, PiecesTyped
    <3> QED
      BY <2>3, <3>2, <1>1 DEF Plan, CancelOrder
  <2>4. CASE c.op = "create_trade"
    <3>1. First(R \o Market(c) \o <<Lock("order", c.orders)>> \o Parties(c))
      BY <1>5, <1>3, PiecesTyped
    <3> QED
      BY <2>4, <3>1, <1>1 DEF Plan, CreateTrade
  <2>5. CASE c.op = "confirm_trade"
    <3>1. First(TradeRows(c) \o Parties(c))
      BY <1>6, <1>3, PiecesTyped
    <3>2. First(TradeRows(c) \o Parties(c) \o <<Lock("item", c.items)>>)
      BY <3>1, <1>3, PiecesTyped
    <3> QED
      BY <2>5, <3>2 DEF Plan, ConfirmTrade
  <2>6. CASE c.op = "settle_trade"
    <3>1. First(TradeRows(c) \o Parties(c))
      BY <1>6, <1>3, PiecesTyped
    <3> QED
      BY <2>6, <3>1 DEF Plan, SettleTrade
  <2>7. CASE c.op = "decline_trade"
    <3>1. First(TradeRows(c) \o <<Lock("org", c.orgs), Lock("item", c.items)>>)
      BY <1>6, <1>3, PiecesTyped
    <3> QED
      BY <2>7, <3>1 DEF Plan, DeclineTrade
  <2>8. CASE c.op = "publish_inventory_item"
    <3>1. First(R \o Revalidate(c))
      BY <1>2, <1>3, PiecesTyped
    <3>2. First(R \o Revalidate(c) \o <<Lock("item", c.items)>>)
      BY <3>1, <1>3, PiecesTyped
    <3>3. First(R \o Revalidate(c) \o <<Lock("item", c.items)>> \o Market(c))
      BY <3>2, <1>3, PiecesTyped
    <3>4. First(R \o Revalidate(c) \o <<Lock("item", c.items)>> \o Market(c) \o <<Lock("order", c.orders)>>)
      BY <3>3, <1>3, PiecesTyped
    <3>5. First(R \o Revalidate(c) \o <<Lock("item", c.items)>> \o Market(c) \o <<Lock("order", c.orders)>>
                  \o Revalidate(c))
      BY <3>4, <1>3, PiecesTyped
    <3>6. First(R \o Revalidate(c) \o <<Lock("item", c.items)>> \o Market(c) \o <<Lock("order", c.orders)>>
                  \o Revalidate(c) \o <<Lock("item", c.items)>>)
      BY <3>5, <1>3, PiecesTyped
    <3>7. First(R \o Revalidate(c) \o <<Lock("item", c.items)>> \o Market(c) \o <<Lock("order", c.orders)>>
                  \o Revalidate(c) \o <<Lock("item", c.items)>> \o Match(c))
      BY <3>6, <1>3, PiecesTyped
    <3> QED
      BY <2>8, <3>7, <1>1 DEF Plan, PublishInventoryItem
  <2> QED
    BY <1>7, <2>1, <2>2, <2>3, <2>4, <2>5, <2>6, <2>7, <2>8 DEF Operations, Unkeyed
<1> QED
  BY <1>8 DEF First

-----------------------------------------------------------------------------
(* A key is applied at most once *)

\* Rows and counters have their types, and a request not delivered yet has run
\* no statement.
Typed ==
    /\ command \in [Deliveries -> Catalogue]
    /\ step \in [Deliveries -> Nat]
    /\ DOMAIN state = Deliveries /\ DOMAIN held = Deliveries
    /\ applied \in [Keys -> Nat]
    /\ \A d \in Deliveries : state[d] = "NEW" => step[d] = 0

\* No lock has two holders.
Exclusive == \A d, e \in Deliveries : d # e => held[d] \intersect held[e] = {}

\* A transaction past its first statement has its key's lock, and the key has
\* no result.
Keyed(d) == Running(d) /\ step[d] >= 2 /\ command[d].key # NoKey
ReceiptHeld ==
    \A d \in Deliveries : Keyed(d) =>
        /\ <<"receipt", command[d].key>> \in held[d]
        /\ \A b \in Bodies : <<command[d].key, b>> \notin receipt

\* A key was applied once if it has a result and never otherwise.
Counted ==
    \A k \in Keys : /\ (\E b \in Bodies : <<k, b>> \in receipt) => applied[k] = 1
                    /\ (\A b \in Bodies : <<k, b>> \notin receipt) => applied[k] = 0

OnceInv == Typed /\ Exclusive /\ ReceiptHeld /\ Counted /\ AnswersOwnRequest

LEMMA KeyOf ==
    ASSUME Typed, NEW d \in Deliveries
    PROVE  /\ command[d] \in Catalogue /\ command[d].body \in Bodies
           /\ command[d].key # NoKey => command[d].key \in Keys
  BY TransactionConstants DEF Typed, Command

LEMMA OnceInit == Init => OnceInv
<1> SUFFICES ASSUME Init PROVE OnceInv
  OBVIOUS
<1>1. Typed
  BY TransactionConstants DEF Init, Typed, NoCommand
<1>2. Exclusive /\ ReceiptHeld /\ Counted /\ AnswersOwnRequest
  BY DEF Init, Exclusive, ReceiptHeld, Counted, AnswersOwnRequest, Keyed, Running
<1> QED
  BY <1>1, <1>2 DEF OnceInv

\* A transaction that ends without committing.
LEMMA OnceEnd ==
    ASSUME OnceInv, NEW d \in Deliveries, NEW answer,
           answer \notin {"NEW", "RUNNING", "APPLIED", "REPLAYED"}, Answer(d, answer),
           UNCHANGED <<receipt, applied>>
    PROVE  OnceInv'
<1>1. Typed'
  BY DEF OnceInv, Typed, Answer
<1>2. Exclusive'
  BY DEF OnceInv, Typed, Exclusive, Answer
<1>3. ReceiptHeld' /\ Counted'
  BY DEF OnceInv, Typed, ReceiptHeld, Counted, Answer, Keyed, Running
<1>4. AnswersOwnRequest'
  BY DEF OnceInv, Typed, AnswersOwnRequest, Answer
<1> QED
  BY <1>1, <1>2, <1>3, <1>4 DEF OnceInv

LEMMA OnceDeliver ==
    ASSUME OnceInv, NEW d \in Deliveries, NEW c \in Catalogue, Deliver(d, c)
    PROVE  OnceInv'
<1> USE DEF OnceInv, Typed, Deliver
<1>1. Typed' /\ Exclusive' /\ Counted'
  BY DEF Exclusive, Counted
<1>2. ReceiptHeld'
  BY DEF ReceiptHeld, Keyed, Running
<1>3. AnswersOwnRequest'
  BY DEF AnswersOwnRequest
<1> QED
  BY <1>1, <1>2, <1>3

\* PostgreSQL grants a lock nobody else has.
LEMMA OnceAcquire ==
    ASSUME OnceInv, NEW d \in Deliveries, Acquire(d)
    PROVE  OnceInv'
<1>1. \A e \in Deliveries : e # d => NextLock(d) \notin held[e]
  BY DEF Acquire, Waiting, WaitsFor
<1>2. /\ held' = [held EXCEPT ![d] = @ \union {NextLock(d)}]
      /\ UNCHANGED <<command, state, attempt, step, receipt, applied, revoked>>
  BY DEF Acquire
<1> DEFINE r == NextLock(d)
<1> HIDE DEF r
<1>3. \A e \in Deliveries : e # d => r \notin held[e]
  BY <1>1 DEF r
<1>4. held' = [held EXCEPT ![d] = @ \union {r}]
  BY <1>2 DEF r
<1>5. Typed'
  BY <1>2, <1>4 DEF OnceInv, Typed
<1>6. Exclusive'
  BY <1>3, <1>4 DEF OnceInv, Typed, Exclusive
<1>7. ReceiptHeld'
  BY <1>2, <1>4 DEF OnceInv, Typed, ReceiptHeld, Keyed, Running
<1>8. Counted' /\ AnswersOwnRequest'
  BY <1>2 DEF OnceInv, Counted, AnswersOwnRequest
<1> QED
  BY <1>5, <1>6, <1>7, <1>8 DEF OnceInv

\* The handler goes on to its next statement, or replays a stored result.
LEMMA OnceProceed ==
    ASSUME OnceInv, NEW d \in Deliveries, Proceed(d)
    PROVE  OnceInv'
<1> DEFINE s == Statement(d)
<1>1. UNCHANGED <<receipt, applied>> /\ Running(d) /\ InPlan(d) /\ Wanted(d) = {}
  BY DEF Proceed
<1>2. CASE Answer(d, "REFUSED")
  BY <1>1, <1>2, OnceEnd
<1>3. CASE Replayed(d) /\ Answer(d, "REPLAYED")
  <2>1. Typed' /\ Exclusive' /\ ReceiptHeld' /\ Counted'
    BY <1>1, <1>3 DEF OnceInv, Typed, Exclusive, ReceiptHeld, Counted, Answer, Keyed, Running
  <2>2. command[d].key # NoKey => <<command[d].key, command[d].body>> \in receipt
                                  /\ applied[command[d].key] = 1
    BY <1>3, KeyOf DEF OnceInv, Replayed, Counted
  <2>3. AnswersOwnRequest'
    BY <1>1, <1>3, <2>2 DEF OnceInv, Typed, AnswersOwnRequest, Answer
  <2> QED
    BY <2>1, <2>3 DEF OnceInv
<1>4. CASE /\ s.kind = "receipt" => ~Replayed(d) /\ ~KeyReused(d)
           /\ step' = [step EXCEPT ![d] = @ + 1]
           /\ UNCHANGED <<command, state, attempt, held>>
  <2>1. Typed'
    BY <1>1, <1>4 DEF OnceInv, Typed, Running
  <2>2. Exclusive' /\ Counted' /\ AnswersOwnRequest'
    BY <1>1, <1>4 DEF OnceInv, Exclusive, Counted, AnswersOwnRequest
  <2>3. ASSUME step[d] = 1, command[d].key # NoKey
        PROVE  /\ <<"receipt", command[d].key>> \in held[d]
               /\ \A b \in Bodies : <<command[d].key, b>> \notin receipt
    <3>1. s = Lock("receipt", {command[d].key})
      BY <2>3, KeyOf, ReceiptFirst DEF OnceInv, Statement
    <3>2. s.kind = "receipt" /\ s.ids = {command[d].key}
      BY <3>1 DEF Lock
    <3>3. <<"receipt", command[d].key>> \in held[d]
      BY <3>2, <1>1 DEF Wanted
    <3>4. ~Replayed(d) /\ ~KeyReused(d)
      BY <3>2, <1>4
    <3> QED
      BY <3>3, <3>4 DEF KeyReused
  <2>4. ReceiptHeld'
    <3> SUFFICES ASSUME NEW e \in Deliveries, Keyed(e)'
                 PROVE  /\ <<"receipt", command[e].key>> \in held[e]
                        /\ \A b \in Bodies : <<command[e].key, b>> \notin receipt
      BY <1>1, <1>4 DEF ReceiptHeld
    <3>1. CASE e # d \/ step[d] >= 2
      BY <3>1, <1>1, <1>4 DEF OnceInv, Typed, ReceiptHeld, Keyed, Running
    <3>2. CASE e = d /\ step[d] < 2
      <4>1. step[d] = 1 /\ command[d].key # NoKey
        BY <3>2, <1>4 DEF OnceInv, Typed, Keyed
      <4> QED
        BY <4>1, <3>2, <2>3
    <3> QED
      BY <3>1, <3>2 DEF OnceInv, Typed
  <2> QED
    BY <2>1, <2>2, <2>4 DEF OnceInv
<1> QED
  BY <1>2, <1>3, <1>4 DEF Proceed

\* The commit of a keyed command finds the key unused and its lock its own.
LEMMA OnceCommit ==
    ASSUME OnceInv, NEW d \in Deliveries, Commit(d)
    PROVE  OnceInv'
<1> DEFINE c == command[d]
<1>1. /\ Running(d) /\ ~InPlan(d) /\ Answer(d, "APPLIED")
      /\ receipt' = IF c.key = NoKey THEN receipt ELSE receipt \union {<<c.key, c.body>>}
      /\ applied' = IF c.key = NoKey THEN applied ELSE [applied EXCEPT ![c.key] = @ + 1]
  BY DEF Commit
<1>2. Exclusive'
  BY <1>1 DEF OnceInv, Typed, Exclusive, Answer
<1>3. CASE c.key = NoKey
  <2>1. Typed' /\ Counted'
    BY <1>1, <1>3 DEF OnceInv, Typed, Counted, Answer
  <2>2. ReceiptHeld' /\ AnswersOwnRequest'
    BY <1>1, <1>3 DEF OnceInv, Typed, ReceiptHeld, AnswersOwnRequest, Keyed, Running, Answer
  <2> QED
    BY <2>1, <2>2, <1>2 DEF OnceInv
<1>4. CASE c.key # NoKey
  <2>1. c \in Catalogue /\ c.key \in Keys /\ c.body \in Bodies
    BY <1>4, KeyOf DEF OnceInv
  <2>2. step[d] >= 2
    <3>1. Len(Plan(c)) >= 1 /\ Len(Plan(c)) \in Nat
      BY <1>4, <2>1, ReceiptFirst
    <3>2. ~(step[d] <= Len(Plan(c)))
      BY <1>1 DEF InPlan
    <3>3. step[d] \in Nat
      BY DEF OnceInv, Typed
    <3> QED
      BY <3>1, <3>2, <3>3
  <2>3. <<"receipt", c.key>> \in held[d] /\ \A b \in Bodies : <<c.key, b>> \notin receipt
    BY <1>1, <1>4, <2>2 DEF OnceInv, ReceiptHeld, Keyed
  <2>4. applied[c.key] = 0
    BY <2>1, <2>3 DEF OnceInv, Counted
  <2>5. /\ receipt' = receipt \union {<<c.key, c.body>>}
        /\ applied' = [applied EXCEPT ![c.key] = 1]
    BY <1>1, <1>4, <2>4, <2>1 DEF OnceInv, Typed
  <2>6. Typed'
    BY <1>1, <2>1, <2>5 DEF OnceInv, Typed, Answer
  <2>7. Counted'
    BY <2>1, <2>5 DEF OnceInv, Typed, Counted
  <2>8. ReceiptHeld'
    <3> SUFFICES ASSUME NEW e \in Deliveries, Keyed(e)'
                 PROVE  /\ <<"receipt", command'[e].key>> \in held'[e]
                        /\ \A b \in Bodies : <<command'[e].key, b>> \notin receipt'
      BY DEF ReceiptHeld
    <3>1. e # d /\ Keyed(e) /\ command'[e] = command[e] /\ held'[e] = held[e]
      BY <1>1 DEF OnceInv, Typed, Keyed, Running, Answer
    <3>2. <<"receipt", command[e].key>> \in held[e]
      BY <3>1 DEF OnceInv, ReceiptHeld
    <3>3. command[e].key # c.key
      BY <3>1, <3>2, <2>3 DEF OnceInv, Exclusive
    <3> QED
      BY <3>1, <3>2, <3>3, <2>5 DEF OnceInv, ReceiptHeld
  <2>9. AnswersOwnRequest'
    <3> SUFFICES ASSUME NEW e \in Deliveries, state'[e] \in {"APPLIED", "REPLAYED"},
                        command'[e].key # NoKey
                 PROVE  /\ <<command'[e].key, command'[e].body>> \in receipt'
                        /\ applied'[command'[e].key] = 1
      BY DEF AnswersOwnRequest
    <3>1. command' = command
      BY <1>1 DEF Answer
    <3>2. CASE e = d
      BY <3>1, <3>2, <2>1, <2>5 DEF OnceInv, Typed
    <3>3. CASE e # d
      <4>1. <<command[e].key, command[e].body>> \in receipt /\ applied[command[e].key] = 1
        BY <1>1, <3>1, <3>3 DEF OnceInv, Typed, AnswersOwnRequest, Answer
      <4>2. command[e].key \in Keys /\ command[e].key # c.key
        BY <4>1, <3>1, <2>4, KeyOf DEF OnceInv
      <4> QED
        BY <4>1, <4>2, <3>1, <2>5 DEF OnceInv, Typed
    <3> QED
      BY <3>2, <3>3
  <2> QED
    BY <1>2, <2>6, <2>7, <2>8, <2>9 DEF OnceInv
<1> QED
  BY <1>3, <1>4

\* The victim of a deadlock starts over without locks, or gives up.
LEMMA OnceVictim ==
    ASSUME OnceInv, NEW d \in Deliveries, DeadlockVictim(d)
    PROVE  OnceInv'
<1>1. UNCHANGED <<receipt, applied>>
  BY DEF DeadlockVictim
<1>2. CASE Answer(d, "UNAVAILABLE")
  BY <1>1, <1>2, OnceEnd
<1>3. CASE /\ step[d] > 0
           /\ step' = [step EXCEPT ![d] = 1]
           /\ held' = [held EXCEPT ![d] = {}]
           /\ UNCHANGED <<command, state>>
  <2>1. Typed'
    BY <1>1, <1>3 DEF OnceInv, Typed
  <2>2. Exclusive' /\ ReceiptHeld'
    BY <1>1, <1>3 DEF OnceInv, Typed, Exclusive, ReceiptHeld, Keyed, Running
  <2>3. Counted' /\ AnswersOwnRequest'
    BY <1>1, <1>3 DEF OnceInv, Counted, AnswersOwnRequest
  <2> QED
    BY <2>1, <2>2, <2>3 DEF OnceInv
<1> QED
  BY <1>2, <1>3 DEF DeadlockVictim

LEMMA OnceStep == OnceInv /\ [Next]_vars => OnceInv'
<1> SUFFICES ASSUME OnceInv, [Next]_vars PROVE OnceInv'
  OBVIOUS
<1>1. CASE UNCHANGED vars
  BY <1>1 DEF vars, OnceInv, Typed, Exclusive, ReceiptHeld, Counted, AnswersOwnRequest, Keyed, Running
<1>2. ASSUME NEW d \in Deliveries, NEW c \in Catalogue, Deliver(d, c) PROVE OnceInv'
  BY <1>2, OnceDeliver
<1>3. ASSUME NEW d \in Deliveries, Acquire(d) PROVE OnceInv'
  BY <1>3, OnceAcquire
<1>4. ASSUME NEW d \in Deliveries, Proceed(d) PROVE OnceInv'
  BY <1>4, OnceProceed
<1>5. ASSUME NEW d \in Deliveries, Commit(d) PROVE OnceInv'
  BY <1>5, OnceCommit
<1>6. ASSUME NEW d \in Deliveries, LockTimeout(d) PROVE OnceInv'
  BY <1>6, OnceEnd DEF LockTimeout
<1>7. ASSUME NEW d \in Deliveries, DeadlockVictim(d) PROVE OnceInv'
  BY <1>7, OnceVictim
<1>8. ASSUME NEW d \in Deliveries, Refuse(d) PROVE OnceInv'
  BY <1>8, OnceEnd DEF Refuse
<1>9. ASSUME NEW d \in Deliveries, Vanish(d) PROVE OnceInv'
  BY <1>9, OnceEnd DEF Vanish
<1> QED
  BY <1>1, <1>2, <1>3, <1>4, <1>5, <1>6, <1>7, <1>8, <1>9 DEF Next, Step

\* record_command_success runs under the key's advisory lock: whatever the
\* commands, the number of deliveries, crashes and deadlocks, a key is applied
\* at most once.
THEOREM KeyAppliedOnce == Spec => []AppliedOnce
<1>1. OnceInv => AppliedOnce
  <2> SUFFICES ASSUME OnceInv, NEW k \in Keys PROVE applied[k] <= 1
    BY DEF AppliedOnce
  <2>1. applied[k] = 0 \/ applied[k] = 1
    BY DEF OnceInv, Counted
  <2> QED
    BY <2>1
<1> QED
  BY OnceInit, OnceStep, <1>1, PTL DEF Spec

\* prepare_command_attempt: a replayed or applied answer is about the body that
\* was sent.
THEOREM OwnRequestAnswered == Spec => []AnswersOwnRequest
<1>1. OnceInv => AnswersOwnRequest
  BY DEF OnceInv
<1> QED
  BY OnceInit, OnceStep, <1>1, PTL DEF Spec

-----------------------------------------------------------------------------
(* Nothing commits for a party whose rejection has committed *)

OwnParty == {"create_order", "update_order", "cancel_order", "publish_inventory_item", "edit_inventory"}
BothParties == {"create_trade", "confirm_trade", "settle_trade"}

LEMMA IncludesSelf ==
    ASSUME NEW s \in Seq(Statements)
    PROVE  Includes(s, s)
  BY DEF Includes

LEMMA OwnPartyPlan ==
    ASSUME NEW c \in Catalogue, c.op \in OwnParty
    PROVE  Includes(Plan(c), Revalidate(c))
<1> DEFINE Has(s) == Includes(s, Revalidate(c))
           O == <<Lock("order", c.orders)>>
           I == <<Lock("item", c.items)>>
<1>1. /\ Receipt(c) \in Seq(Statements) /\ Market(c) \in Seq(Statements)
      /\ O \in Seq(Statements) /\ I \in Seq(Statements) /\ Match(c) \in Seq(Statements)
      /\ Has(Revalidate(c))
  BY PiecesTyped, IncludesSelf
<1>2. ASSUME NEW s, Has(s), NEW t \in Seq(Statements)
      PROVE  Has(s \o t) /\ Has(t \o s)
  BY <1>2, IncludesMore
<1>3. ASSUME NEW s \in Seq(Statements), NEW t \in Seq(Statements)
      PROVE  s \o t \in Seq(Statements)
  BY ConcatElems
<1> HIDE DEF Has, O, I
<1>4. Receipt(c) \o Market(c) \in Seq(Statements)
  BY <1>1, <1>3
<1>5. Receipt(c) \o Market(c) \o O \in Seq(Statements)
  BY <1>1, <1>3, <1>4
<1>6. Has(Receipt(c) \o Market(c) \o O \o Revalidate(c) \o I)
  <2>1. Has(Receipt(c) \o Market(c) \o O \o Revalidate(c))
    BY <1>1, <1>2, <1>5
  <2> QED
    BY <2>1, <1>1, <1>2
<1>7. CASE c.op = "create_order"
  <2>1. Has(Receipt(c) \o Market(c) \o Revalidate(c))
    BY <1>1, <1>2, <1>4
  <2>2. Has(Receipt(c) \o Market(c) \o Revalidate(c) \o Match(c))
    BY <2>1, <1>1, <1>2
  <2> QED
    BY <1>7, <2>2 DEF Plan, CreateOrder, Has
<1>8. CASE c.op = "update_order"
  <2>1. Has(Receipt(c) \o Market(c) \o O \o Revalidate(c) \o I \o Match(c))
    BY <1>6, <1>1, <1>2
  <2> QED
    BY <1>8, <2>1 DEF Plan, UpdateOrder, Has, O, I
<1>9. CASE c.op = "cancel_order"
  BY <1>9, <1>6 DEF Plan, CancelOrder, Has, O, I
<1>10. CASE c.op = "publish_inventory_item"
  <2>1. Has(Receipt(c) \o Revalidate(c))
    BY <1>1, <1>2
  <2>2. Has(Receipt(c) \o Revalidate(c) \o I)
    BY <2>1, <1>1, <1>2
  <2>3. Has(Receipt(c) \o Revalidate(c) \o I \o Market(c))
    BY <2>2, <1>1, <1>2
  <2>4. Has(Receipt(c) \o Revalidate(c) \o I \o Market(c) \o O)
    BY <2>3, <1>1, <1>2
  <2>5. Has(Receipt(c) \o Revalidate(c) \o I \o Market(c) \o O \o Revalidate(c))
    <3>1. Revalidate(c) \in Seq(Statements)
      BY PiecesTyped
    <3> QED
      BY <3>1, <2>4, <1>2
  <2>6. Has(Receipt(c) \o Revalidate(c) \o I \o Market(c) \o O \o Revalidate(c) \o I)
    BY <2>5, <1>1, <1>2
  <2>7. Has(Receipt(c) \o Revalidate(c) \o I \o Market(c) \o O \o Revalidate(c) \o I \o Match(c))
    BY <2>6, <1>1, <1>2
  <2> QED
    BY <1>10, <2>7 DEF Plan, PublishInventoryItem, Has, O, I
<1>11. CASE c.op = "edit_inventory"
  <2>1. Has(Revalidate(c) \o I)
    BY <1>1, <1>2
  <2> QED
    BY <1>11, <2>1 DEF Plan, EditInventory, Has, I
<1> QED
  BY <1>7, <1>8, <1>9, <1>10, <1>11 DEF OwnParty

LEMMA BothPartiesPlan ==
    ASSUME NEW c \in Catalogue, c.op \in BothParties
    PROVE  Includes(Plan(c), Parties(c))
<1> DEFINE Has(s) == Includes(s, Parties(c))
           O == <<Lock("order", c.orders)>>
           I == <<Lock("item", c.items)>>
           T == <<Lock("trade", c.trades), Lock("order", c.orders)>>
<1>1. /\ Receipt(c) \in Seq(Statements) /\ Market(c) \in Seq(Statements)
      /\ O \in Seq(Statements) /\ I \in Seq(Statements) /\ T \in Seq(Statements)
      /\ Has(Parties(c))
  BY PiecesTyped, IncludesSelf
<1>2. ASSUME NEW s, Has(s), NEW t \in Seq(Statements)
      PROVE  Has(s \o t) /\ Has(t \o s)
  BY <1>2, IncludesMore
<1>3. ASSUME NEW s \in Seq(Statements), NEW t \in Seq(Statements)
      PROVE  s \o t \in Seq(Statements)
  BY ConcatElems
<1> HIDE DEF Has, O, I, T
<1>4. Receipt(c) \o Market(c) \in Seq(Statements)
  BY <1>1, <1>3
<1>5. TradeRows(c) \in Seq(Statements)
  BY <1>1, <1>3, <1>4 DEF TradeRows, T
<1>6. Has(TradeRows(c) \o Parties(c))
  BY <1>1, <1>2, <1>5
<1>7. CASE c.op = "create_trade"
  <2>1. Receipt(c) \o Market(c) \o O \in Seq(Statements)
    BY <1>1, <1>3, <1>4
  <2>2. Has(Receipt(c) \o Market(c) \o O \o Parties(c))
    BY <2>1, <1>1, <1>2
  <2> QED
    BY <1>7, <2>2 DEF Plan, CreateTrade, Has, O
<1>8. CASE c.op = "confirm_trade"
  <2>1. Has(TradeRows(c) \o Parties(c) \o I)
    BY <1>6, <1>1, <1>2
  <2> QED
    BY <1>8, <2>1 DEF Plan, ConfirmTrade, Has, I
<1>9. CASE c.op = "settle_trade"
  BY <1>9, <1>6 DEF Plan, SettleTrade, Has
<1> QED
  BY <1>7, <1>8, <1>9 DEF BothParties

LEMMA CleanupPlan ==
    ASSUME NEW c \in Catalogue
    PROVE  /\ c.op = "decline_trade" => Plan(c) \in Seq(Statements)
           /\ c.op = "reject_organization" =>
                Includes(Plan(c), <<Lock("org", {c.org}), Lock("user", c.users)>>)
           /\ c.op = "reject_user" => Includes(Plan(c), RejectUser(c))
<1>1. c.op = "decline_trade" => Plan(c) \in Seq(Statements)
  <2> SUFFICES ASSUME c.op = "decline_trade" PROVE DeclineTrade(c) \in Seq(Statements)
    BY DEF Plan
  <2>1. Receipt(c) \o Market(c) \in Seq(Statements)
    BY PiecesTyped, ConcatElems
  <2>2. TradeRows(c) \in Seq(Statements)
    BY <2>1, PiecesTyped, ConcatElems DEF TradeRows
  <2> QED
    BY <2>2, PiecesTyped, ConcatElems DEF DeclineTrade
<1>2. c.op = "reject_organization" =>
        Includes(Plan(c), <<Lock("org", {c.org}), Lock("user", c.users)>>)
  <2> DEFINE H == <<Lock("org", {c.org}), Lock("user", c.users)>>
             T == <<Lock("trade", c.trades), Lock("order", c.orders), Lock("org", c.orgs),
                    Lock("item", c.items)>>
  <2>1. H \in Seq(Statements) /\ T \in Seq(Statements) /\ Market(c) \in Seq(Statements)
    BY PiecesTyped
  <2>2. RejectOrganization(c) = H \o Market(c) \o T
    BY DEF RejectOrganization
  <2> HIDE DEF H, T
  <2>3. Includes(H \o Market(c), H)
    BY <2>1, IncludesSelf, IncludesMore
  <2>4. Includes(H \o Market(c) \o T, H)
    BY <2>1, <2>3, IncludesMore
  <2> QED
    BY <2>4, <2>2 DEF Plan, H
<1>3. c.op = "reject_user" => Includes(Plan(c), RejectUser(c))
  BY PiecesTyped, IncludesSelf DEF Plan
<1> QED
  BY <1>1, <1>2, <1>3

LEMMA PlanTyped ==
    ASSUME NEW c \in Catalogue
    PROVE  Plan(c) \in Seq(Statements)
<1>1. c.op \in OwnParty \union BothParties \union {"decline_trade", "reject_organization", "reject_user"}
  BY CommandTyped DEF Operations, OwnParty, BothParties
<1> QED
  BY <1>1, OwnPartyPlan, BothPartiesPlan, CleanupPlan DEF Includes

\* Every party a command answers for is checked under its row lock.
LEMMA AccountableChecked ==
    ASSUME NEW c \in Catalogue, NEW r \in Service!Accountable(c)
    PROVE  \E i \in 1 .. Len(Plan(c)) : Plan(c)[i].check /\ r \in Locks(Plan(c)[i])
<1> SUFFICES \E s \in Elems(Plan(c)) : s.check /\ r \in Locks(s)
  BY DEF Elems
<1>1. c.op \in OwnParty \union BothParties \union {"decline_trade", "reject_organization", "reject_user"}
  BY CommandTyped DEF Operations, OwnParty, BothParties
<1>2. CASE c.op \in OwnParty
  <2>1. r = <<"user", c.actor>> \/ r = <<"org", c.org>>
    BY <1>2 DEF Service!Accountable, OwnParty
  <2>2. /\ Check("user", {c.actor}) \in Elems(Revalidate(c))
        /\ Check("org", {c.org}) \in Elems(Revalidate(c))
    <3>1. Len(Revalidate(c)) = 2 /\ Revalidate(c)[1] = Check("user", {c.actor})
          /\ Revalidate(c)[2] = Check("org", {c.org})
      BY DEF Revalidate
    <3> QED
      BY <3>1 DEF Elems
  <2>3. Elems(Revalidate(c)) \subseteq Elems(Plan(c))
    BY <1>2, OwnPartyPlan DEF Includes
  <2>4. /\ Check("user", {c.actor}).check /\ <<"user", c.actor>> \in Locks(Check("user", {c.actor}))
        /\ Check("org", {c.org}).check /\ <<"org", c.org>> \in Locks(Check("org", {c.org}))
    BY DEF Check, Locks
  <2> QED
    BY <2>1, <2>2, <2>3, <2>4
<1>3. CASE c.op \in BothParties
  <2>1. \/ r = <<"user", c.actor>>
        \/ \E u \in c.users : r = <<"user", u>>
        \/ \E o \in c.orgs : r = <<"org", o>>
    BY <1>3 DEF Service!Accountable, BothParties
  <2>2. /\ Check("user", {c.actor}) \in Elems(Parties(c))
        /\ Check("org", c.orgs) \in Elems(Parties(c))
        /\ Check("user", c.users) \in Elems(Parties(c))
    <3>1. Len(Parties(c)) = 4 /\ Parties(c)[1] = Check("user", {c.actor})
          /\ Parties(c)[2] = Check("org", c.orgs) /\ Parties(c)[3] = Check("user", c.users)
      BY DEF Parties
    <3> QED
      BY <3>1 DEF Elems
  <2>3. Elems(Parties(c)) \subseteq Elems(Plan(c))
    BY <1>3, BothPartiesPlan DEF Includes
  <2>4. /\ Check("user", {c.actor}).check /\ <<"user", c.actor>> \in Locks(Check("user", {c.actor}))
        /\ Check("user", c.users).check /\ \A u \in c.users : <<"user", u>> \in Locks(Check("user", c.users))
        /\ Check("org", c.orgs).check /\ \A o \in c.orgs : <<"org", o>> \in Locks(Check("org", c.orgs))
    BY DEF Check, Locks
  <2> QED
    BY <2>1, <2>2, <2>3, <2>4
<1>4. CASE c.op \in {"decline_trade", "reject_organization", "reject_user"}
  BY <1>4 DEF Service!Accountable
<1> QED
  BY <1>1, <1>2, <1>3, <1>4

\* A rejection locks the rows of everyone it rejects.
LEMMA RevokesLocked ==
    ASSUME NEW c \in Catalogue, NEW r \in c.revokes
    PROVE  \E i \in 1 .. Len(Plan(c)) : r \in Locks(Plan(c)[i])
<1> SUFFICES \E s \in Elems(Plan(c)) : r \in Locks(s)
  BY DEF Elems
<1>1. c.revokes \subseteq CASE c.op = "reject_organization" -> ({"user"} \X c.users) \union {<<"org", c.org>>}
                            [] c.op = "reject_user" -> {"user"} \X c.users
                            [] OTHER -> {}
  BY TransactionConstants
<1>2. CASE c.op = "reject_organization"
  <2> DEFINE H == <<Lock("org", {c.org}), Lock("user", c.users)>>
  <2>1. r \in {"user"} \X c.users \/ r = <<"org", c.org>>
    BY <1>1, <1>2
  <2>2. Lock("org", {c.org}) \in Elems(H) /\ Lock("user", c.users) \in Elems(H)
    <3>1. Len(H) = 2 /\ H[1] = Lock("org", {c.org}) /\ H[2] = Lock("user", c.users)
      OBVIOUS
    <3> QED
      BY <3>1 DEF Elems
  <2>3. Elems(H) \subseteq Elems(Plan(c))
    BY <1>2, CleanupPlan DEF Includes
  <2>4. {"user"} \X c.users \subseteq Locks(Lock("user", c.users)) /\ <<"org", c.org>> \in Locks(Lock("org", {c.org}))
    BY DEF Lock, Locks
  <2> QED
    BY <2>1, <2>2, <2>3, <2>4
<1>3. CASE c.op = "reject_user"
  <2>1. r \in {"user"} \X c.users
    BY <1>1, <1>3
  <2>2. Lock("user", c.users) \in Elems(RejectUser(c))
    <3>1. Len(RejectUser(c)) = 1 /\ RejectUser(c)[1] = Lock("user", c.users)
      BY DEF RejectUser
    <3> QED
      BY <3>1 DEF Elems
  <2>3. Elems(RejectUser(c)) \subseteq Elems(Plan(c))
    BY <1>3, CleanupPlan DEF Includes
  <2>4. {"user"} \X c.users \subseteq Locks(Lock("user", c.users))
    BY DEF Lock, Locks
  <2> QED
    BY <2>1, <2>2, <2>3, <2>4
<1>4. CASE c.op \notin {"reject_organization", "reject_user"}
  BY <1>1, <1>4
<1> QED
  BY <1>2, <1>3, <1>4

\* A transaction keeps the locks of the statements it has passed, and whom it
\* has found admitted under a lock stays so while it runs.
LocksKept ==
    \A d \in Deliveries : Running(d) =>
        \A i \in 1 .. Len(Plan(command[d])) : i < step[d] =>
            /\ Locks(Plan(command[d])[i]) \subseteq held[d]
            /\ Plan(command[d])[i].check => Locks(Plan(command[d])[i]) \intersect revoked = {}

AdmissionInv == OnceInv /\ LocksKept

LEMMA PlanLen ==
    ASSUME Typed, NEW d \in Deliveries
    PROVE  Len(Plan(command[d])) \in Nat /\ step[d] \in Nat /\ command[d] \in Catalogue
  BY PlanTyped DEF Typed

\* At its commit a delivery holds the rows it revokes, and the parties it
\* answers for are admitted.
LEMMA AtCommit ==
    ASSUME AdmissionInv, NEW d \in Deliveries, Commit(d)
    PROVE  /\ command[d].revokes \subseteq held[d]
           /\ Service!Accountable(command[d]) \intersect revoked = {}
<1>1. \A i \in 1 .. Len(Plan(command[d])) : i < step[d]
  BY PlanLen DEF AdmissionInv, OnceInv, Commit, InPlan
<1>2. \A i \in 1 .. Len(Plan(command[d])) :
            /\ Locks(Plan(command[d])[i]) \subseteq held[d]
            /\ Plan(command[d])[i].check => Locks(Plan(command[d])[i]) \intersect revoked = {}
  BY <1>1 DEF AdmissionInv, LocksKept, Commit
<1>3. command[d] \in Catalogue
  BY DEF AdmissionInv, OnceInv, Typed
<1> QED
  BY <1>2, <1>3, AccountableChecked, RevokesLocked

LEMMA AdmissionInit == Init => AdmissionInv
  BY OnceInit DEF Init, AdmissionInv, LocksKept, Running

LEMMA AdmissionEnd ==
    ASSUME AdmissionInv, NEW d \in Deliveries, NEW answer, answer # "RUNNING", Answer(d, answer), UNCHANGED revoked
    PROVE  LocksKept'
  BY DEF AdmissionInv, OnceInv, Typed, LocksKept, Answer, Running

LEMMA AdmissionStep == AdmissionInv /\ [Next]_vars => AdmissionInv'
<1> SUFFICES ASSUME AdmissionInv, [Next]_vars PROVE LocksKept'
  BY OnceStep DEF AdmissionInv
<1> USE DEF AdmissionInv
<1>1. CASE UNCHANGED vars
  BY <1>1 DEF vars, LocksKept, Running
<1>2. ASSUME NEW d \in Deliveries, NEW c \in Catalogue, Deliver(d, c) PROVE LocksKept'
  <2>1. step[d] = 0 /\ step' = step
    BY <1>2 DEF Deliver, OnceInv, Typed
  <2>2. \A e \in Deliveries : e # d => (Running(e)' <=> Running(e)) /\ command'[e] = command[e]
    BY <1>2 DEF Deliver, OnceInv, Typed, Running
  <2>3. \A i \in 1 .. Len(Plan(command'[d])) : ~(i < step'[d])
    BY <2>1
  <2> QED
    BY <1>2, <2>1, <2>2, <2>3 DEF Deliver, LocksKept
<1>3. ASSUME NEW d \in Deliveries, Acquire(d) PROVE LocksKept'
  <2>1. \A e \in Deliveries : held[e] \subseteq held'[e]
    BY <1>3 DEF Acquire, OnceInv, Typed
  <2> QED
    BY <1>3, <2>1 DEF Acquire, LocksKept, Running
<1>4. ASSUME NEW d \in Deliveries, Proceed(d) PROVE LocksKept'
  <2> DEFINE s == Statement(d)
  <2>1. UNCHANGED revoked /\ Running(d) /\ InPlan(d) /\ Locks(s) \subseteq held[d]
    BY <1>4 DEF Proceed, Wanted, Locks
  <2>2. CASE Answer(d, "REFUSED") \/ Answer(d, "REPLAYED")
    BY <2>1, <2>2, AdmissionEnd
  <2>3. CASE /\ s.check => Locks(s) \intersect revoked = {}
             /\ step' = [step EXCEPT ![d] = @ + 1]
             /\ UNCHANGED <<command, state, attempt, held>>
    <3> SUFFICES ASSUME NEW e \in Deliveries, Running(e), NEW i \in 1 .. Len(Plan(command[e])), i < step'[e]
                 PROVE  /\ Locks(Plan(command[e])[i]) \subseteq held[e]
                        /\ Plan(command[e])[i].check => Locks(Plan(command[e])[i]) \intersect revoked = {}
      BY <2>1, <2>3 DEF LocksKept, Running
    <3>1. CASE i < step[e]
      BY <3>1 DEF LocksKept
    <3>2. CASE e = d /\ i = step[d]
      <4>1. Statement(d) = Plan(command[d])[i]
        BY <3>2 DEF Statement
      <4> QED
        BY <4>1, <3>2, <2>1, <2>3
    <3>3. e # d => step'[e] = step[e]
      BY <2>3 DEF OnceInv, Typed
    <3>4. e = d => step'[e] = step[e] + 1
      BY <2>3 DEF OnceInv, Typed
    <3>5. step[e] \in Nat /\ i \in Int
      BY DEF OnceInv, Typed
    <3> QED
      BY <3>1, <3>2, <3>3, <3>4, <3>5
  <2> QED
    BY <1>4, <2>2, <2>3 DEF Proceed, Locks
<1>5. ASSUME NEW d \in Deliveries, Commit(d) PROVE LocksKept'
  <2>1. /\ Answer(d, "APPLIED")
        /\ revoked' = revoked \union command[d].revokes
        /\ command[d].revokes \subseteq held[d]
    BY <1>5, AtCommit DEF Commit
  <2> SUFFICES ASSUME NEW e \in Deliveries, Running(e)', NEW i \in 1 .. Len(Plan(command[e])), i < step[e]
               PROVE  /\ Locks(Plan(command[e])[i]) \subseteq held'[e]
                      /\ Plan(command[e])[i].check => Locks(Plan(command[e])[i]) \intersect revoked' = {}
    BY <2>1 DEF LocksKept, Answer
  <2>2. e # d /\ Running(e) /\ held'[e] = held[e]
    BY <2>1 DEF Answer, Running, OnceInv, Typed
  <2>3. held[e] \intersect held[d] = {}
    BY <2>2 DEF OnceInv, Exclusive
  <2>4. /\ Locks(Plan(command[e])[i]) \subseteq held[e]
        /\ Plan(command[e])[i].check => Locks(Plan(command[e])[i]) \intersect revoked = {}
    BY <2>2 DEF LocksKept
  <2> QED
    BY <2>1, <2>2, <2>3, <2>4
<1>6. ASSUME NEW d \in Deliveries, LockTimeout(d) PROVE LocksKept'
  BY <1>6, AdmissionEnd DEF LockTimeout
<1>7. ASSUME NEW d \in Deliveries, DeadlockVictim(d) PROVE LocksKept'
  <2>1. CASE Answer(d, "UNAVAILABLE")
    BY <1>7, <2>1, AdmissionEnd DEF DeadlockVictim
  <2>2. CASE /\ step' = [step EXCEPT ![d] = 1]
             /\ held' = [held EXCEPT ![d] = {}]
             /\ UNCHANGED <<command, state, revoked>>
    <3>1. step'[d] = 1 /\ \A e \in Deliveries : e # d => step'[e] = step[e] /\ held'[e] = held[e]
      BY <2>2 DEF OnceInv, Typed
    <3>2. \A i \in 1 .. Len(Plan(command[d])) : ~(i < step'[d])
      BY <3>1
    <3> QED
      BY <2>2, <3>1, <3>2 DEF LocksKept, Running
  <2> QED
    BY <1>7, <2>1, <2>2 DEF DeadlockVictim
<1>8. ASSUME NEW d \in Deliveries, Refuse(d) PROVE LocksKept'
  BY <1>8, AdmissionEnd DEF Refuse
<1>9. ASSUME NEW d \in Deliveries, Vanish(d) PROVE LocksKept'
  BY <1>9, AdmissionEnd DEF Vanish
<1> QED
  BY <1>1, <1>2, <1>3, <1>4, <1>5, <1>6, <1>7, <1>8, <1>9 DEF Next, Step

\* Only a commit answers APPLIED.
LEMMA AppliedByCommit ==
    ASSUME OnceInv, [Next]_vars, NEW d \in Deliveries, state[d] # "APPLIED", state'[d] = "APPLIED"
    PROVE  Commit(d)
<1>1. ASSUME NEW e \in Deliveries, NEW answer, answer # "APPLIED", Answer(e, answer) PROVE FALSE
  BY <1>1 DEF Answer, OnceInv, Typed
<1>2. CASE UNCHANGED vars
  BY <1>2 DEF vars
<1>3. ASSUME NEW e \in Deliveries, NEW c \in Catalogue, Deliver(e, c) PROVE FALSE
  BY <1>3 DEF Deliver, OnceInv, Typed
<1>4. ASSUME NEW e \in Deliveries, Acquire(e) PROVE FALSE
  BY <1>4 DEF Acquire
<1>5. ASSUME NEW e \in Deliveries, Proceed(e) PROVE FALSE
  BY <1>5, <1>1 DEF Proceed
<1>6. ASSUME NEW e \in Deliveries, Commit(e) PROVE Commit(d)
  <2>1. e = d
    BY <1>6 DEF Commit, Answer, OnceInv, Typed
  <2> QED
    BY <1>6, <2>1
<1>7. ASSUME NEW e \in Deliveries, LockTimeout(e) PROVE FALSE
  BY <1>7, <1>1 DEF LockTimeout
<1>8. ASSUME NEW e \in Deliveries, DeadlockVictim(e) PROVE FALSE
  BY <1>8, <1>1 DEF DeadlockVictim
<1>9. ASSUME NEW e \in Deliveries, Refuse(e) \/ Vanish(e) PROVE FALSE
  BY <1>9, <1>1 DEF Refuse, Vanish
<1> QED
  BY <1>2, <1>3, <1>4, <1>5, <1>6, <1>7, <1>8, <1>9 DEF Next, Step

\* lock_and_load_market_organizations and _revalidate_trade_parties recheck the
\* parties under row locks that last until the commit, so that no command
\* commits for a party whose rejection has committed, retried or not.
THEOREM AdmittedWhenCommitted == Spec => AdmittedAtCommit
<1>1. ASSUME AdmissionInv, [Next]_vars
      PROVE  [\A d \in Deliveries : state[d] # "APPLIED" /\ state'[d] = "APPLIED"
                  => Service!Accountable(command[d]) \intersect revoked = {}]_vars
  BY <1>1, AppliedByCommit, AtCommit DEF AdmissionInv
<1> QED
  BY <1>1, AdmissionInit, AdmissionStep, PTL DEF Spec, AdmittedAtCommit

-----------------------------------------------------------------------------
(* Types *)

Answers == {"NEW", "RUNNING", "APPLIED", "REPLAYED", "REFUSED", "BUSY", "UNAVAILABLE", "LOST"}

\* The locks a statement waits for are rows and keys.
LEMMA WantedTyped ==
    ASSUME Typed, NEW d \in Deliveries, InPlan(d)
    PROVE  Wanted(d) \subseteq Resources
<1>1. command[d] \in Catalogue /\ step[d] \in Nat
  BY DEF Typed
<1>2. CASE step[d] = 0
  <2>1. command[d].actor \in Users
    BY <1>1, CommandTyped
  <2> QED
    BY <1>2, <2>1 DEF Wanted, Statement, Authenticate, Resources
<1>3. CASE step[d] # 0
  <2>1. Plan(command[d]) \in Seq(Statements) /\ step[d] \in 1 .. Len(Plan(command[d]))
    BY <1>1, <1>3, PlanTyped DEF InPlan
  <2>2. Statement(d) \in Statements
    BY <1>3, <2>1 DEF Statement
  <2> QED
    BY <2>2 DEF Statements, Locks, Wanted
<1> QED
  BY <1>2, <1>3

\* Some wanted lock has the least id.
LEMMA NextLockWanted ==
    ASSUME Typed, NEW d \in Deliveries, InPlan(d), Wanted(d) # {}
    PROVE  NextLock(d) \in Wanted(d)
<1> DEFINE T == {r[2] : r \in Wanted(d)}
           R == {ss \in Nat \X Nat : ss[1] < ss[2]}
<1>1. T \subseteq Nat /\ T # {}
  BY WantedTyped, TransactionConstants DEF Resources
<1>2. \E n \in T : \A m \in T : ~(<<m, n>> \in R)
  <2>1. IsWellFoundedOn(R, Nat)
    BY NatLessThanWellFounded, Zenon DEF OpToRel
  <2> QED
    BY <1>1, <2>1, WFMin
<1>3. PICK n \in T : \A m \in T : ~(<<m, n>> \in R)
  BY <1>2
<1>4. \A m \in T : n <= m
  <2> TAKE m \in T
  <2>1. m \in Nat /\ n \in Nat
    BY <1>1
  <2>2. ~(m < n)
    BY <2>1, <1>3
  <2> QED
    BY <2>1, <2>2
<1>5. \E r \in Wanted(d) : \A q \in Wanted(d) : r[2] <= q[2]
  BY <1>3, <1>4
<1> QED
  BY <1>5 DEF NextLock

\* A transaction that ends.
LEMMA TypeEnd ==
    ASSUME TypeOK, NEW d \in Deliveries, NEW answer \in Answers, Answer(d, answer),
           UNCHANGED <<receipt, applied, revoked>>
    PROVE  TypeOK'
  BY DEF TypeOK, Answers, Answer

LEMMA TypeStep == Typed /\ TypeOK /\ [Next]_vars => TypeOK'
<1> SUFFICES ASSUME Typed, TypeOK, [Next]_vars PROVE TypeOK'
  OBVIOUS
<1>1. CASE UNCHANGED vars
  BY <1>1 DEF vars, TypeOK
<1>2. ASSUME NEW d \in Deliveries, NEW c \in Catalogue, Deliver(d, c) PROVE TypeOK'
  BY <1>2, TransactionConstants DEF Deliver, TypeOK
<1>3. ASSUME NEW d \in Deliveries, Acquire(d) PROVE TypeOK'
  <2>1. NextLock(d) \in Resources
    BY <1>3, NextLockWanted, WantedTyped DEF Acquire, Requests
  <2>2. held' = [held EXCEPT ![d] = @ \union {NextLock(d)}]
        /\ UNCHANGED <<command, state, attempt, step, receipt, applied, revoked>>
    BY <1>3 DEF Acquire
  <2> QED
    BY <2>1, <2>2 DEF TypeOK
<1>4. ASSUME NEW d \in Deliveries, Proceed(d) PROVE TypeOK'
  <2>1. UNCHANGED <<receipt, applied, revoked>>
    BY <1>4 DEF Proceed
  <2>2. CASE Answer(d, "REFUSED") \/ Answer(d, "REPLAYED")
    BY <2>1, <2>2, TypeEnd DEF Answers
  <2>3. CASE step' = [step EXCEPT ![d] = @ + 1] /\ UNCHANGED <<command, state, attempt, held>>
    BY <2>1, <2>3 DEF TypeOK
  <2> QED
    BY <1>4, <2>2, <2>3 DEF Proceed
<1>5. ASSUME NEW d \in Deliveries, Commit(d) PROVE TypeOK'
  <2> DEFINE c == command[d]
  <2>1. /\ Answer(d, "APPLIED")
        /\ receipt' = IF c.key = NoKey THEN receipt ELSE receipt \union {<<c.key, c.body>>}
        /\ applied' = IF c.key = NoKey THEN applied ELSE [applied EXCEPT ![c.key] = @ + 1]
        /\ revoked' = revoked \union c.revokes
    BY <1>5 DEF Commit
  <2>2. c.key \in Keys \union {NoKey} /\ c.body \in Bodies /\ c.revokes \subseteq Resources
    BY CommandTyped DEF Typed
  <2>3. /\ command' \in [Deliveries -> Catalogue]
        /\ state' \in [Deliveries -> Answers]
        /\ attempt' \in [Deliveries -> 0 .. MaxAttempts]
        /\ step' \in [Deliveries -> Nat]
        /\ held' \in [Deliveries -> SUBSET Resources]
    BY <2>1 DEF TypeOK, Answer, Answers
  <2>4. receipt' \subseteq Keys \X Bodies /\ revoked' \subseteq Resources /\ applied' \in [Keys -> Nat]
    BY <2>1, <2>2 DEF TypeOK
  <2> QED
    BY <2>3, <2>4 DEF TypeOK, Answers
<1>6. ASSUME NEW d \in Deliveries, LockTimeout(d) PROVE TypeOK'
  BY <1>6, TypeEnd DEF LockTimeout, Answers
<1>7. ASSUME NEW d \in Deliveries, DeadlockVictim(d) PROVE TypeOK'
  <2>1. UNCHANGED <<receipt, applied, revoked>>
    BY <1>7 DEF DeadlockVictim
  <2>2. CASE Answer(d, "UNAVAILABLE")
    BY <2>1, <2>2, TypeEnd DEF Answers
  <2>3. CASE /\ attempt[d] < MaxAttempts
             /\ attempt' = [attempt EXCEPT ![d] = @ + 1]
             /\ step' = [step EXCEPT ![d] = 1]
             /\ held' = [held EXCEPT ![d] = {}]
             /\ UNCHANGED <<command, state>>
    <3>1. attempt[d] + 1 \in 0 .. MaxAttempts
      BY <2>3, TransactionConstants DEF TypeOK
    <3> QED
      BY <2>1, <2>3, <3>1 DEF TypeOK
  <2> QED
    BY <1>7, <2>2, <2>3 DEF DeadlockVictim, MayRetry
<1>8. ASSUME NEW d \in Deliveries, Refuse(d) PROVE TypeOK'
  BY <1>8, TypeEnd DEF Refuse, Answers
<1>9. ASSUME NEW d \in Deliveries, Vanish(d) PROVE TypeOK'
  BY <1>9, TypeEnd DEF Vanish, Answers
<1> QED
  BY <1>1, <1>2, <1>3, <1>4, <1>5, <1>6, <1>7, <1>8, <1>9 DEF Next, Step

\* A retry is counted and never starts beyond the last attempt, and only rows
\* and keys are ever locked, for every catalogue of commands.
THEOREM TransactionTypes == Spec => []TypeOK
<1>1. Init => TypeOK
  BY TransactionConstants DEF Init, TypeOK, NoCommand
<1>2. OnceInv => Typed
  BY DEF OnceInv
<1> QED
  BY <1>1, <1>2, OnceInit, OnceStep, TypeStep, PTL DEF Spec

-----------------------------------------------------------------------------
(* The handlers implement indivisible commands *)

LEMMA ServiceStart == Init => Service!ServiceInit
  BY TransactionConstants DEF Init, Service!ServiceInit, NoCommand

\* A transaction that ends without effect.
LEMMA ServiceFail ==
    ASSUME NEW d \in Deliveries, Running(d),
           NEW answer \in {"REFUSED", "BUSY", "UNAVAILABLE", "LOST"}, Answer(d, answer),
           UNCHANGED <<receipt, applied, revoked>>
    PROVE  Service!ServiceNext
<1>1. Service!Ends(d, answer)
  BY DEF Service!Ends, Answer, Running
<1>2. Service!Fail(d)
  BY <1>1 DEF Service!Fail
<1> QED
  BY <1>2 DEF Service!ServiceNext

LEMMA ServiceStep ==
    ASSUME AdmissionInv, TypeOK, [Next]_vars
    PROVE  [Service!ServiceNext]_Service!serviceVars
<1>1. CASE UNCHANGED vars
  BY <1>1 DEF vars, Service!serviceVars
<1>2. ASSUME NEW d \in Deliveries, NEW c \in Catalogue, Deliver(d, c) PROVE Service!ServiceNext
  <2>1. Service!Receive(d, c)
    BY <1>2 DEF Deliver, Service!Receive
  <2> QED
    BY <2>1 DEF Service!ServiceNext
<1>3. ASSUME NEW d \in Deliveries, Acquire(d) PROVE UNCHANGED Service!serviceVars
  BY <1>3 DEF Acquire, Service!serviceVars
<1>4. ASSUME NEW d \in Deliveries, Proceed(d) PROVE [Service!ServiceNext]_Service!serviceVars
  <2>1. Running(d) /\ UNCHANGED <<receipt, applied, revoked>>
    BY <1>4 DEF Proceed
  <2>2. CASE Answer(d, "REFUSED")
    BY <2>1, <2>2, ServiceFail
  <2>3. CASE Replayed(d) /\ Answer(d, "REPLAYED")
    <3>1. Service!Ends(d, "REPLAYED")
      BY <2>1, <2>3 DEF Service!Ends, Answer, Running
    <3>2. command[d].key # NoKey
      BY <2>3, TransactionConstants DEF Replayed, TypeOK
    <3>3. Service!Replay(d)
      BY <3>1, <3>2, <2>1, <2>3 DEF Service!Replay, Replayed
    <3> QED
      BY <3>3 DEF Service!ServiceNext
  <2>4. CASE UNCHANGED <<command, state, attempt, held>>
    BY <2>1, <2>4 DEF Service!serviceVars
  <2> QED
    BY <1>4, <2>2, <2>3, <2>4 DEF Proceed
<1>5. ASSUME NEW d \in Deliveries, Commit(d) PROVE Service!ServiceNext
  <2> DEFINE c == command[d]
  <2>1. /\ Running(d) /\ ~InPlan(d) /\ Answer(d, "APPLIED")
        /\ receipt' = IF c.key = NoKey THEN receipt ELSE receipt \union {<<c.key, c.body>>}
        /\ revoked' = revoked \union c.revokes
    BY <1>5 DEF Commit
  <2>2. Service!Ends(d, "APPLIED")
    BY <2>1 DEF Service!Ends, Answer, Running
  <2>3. Service!Accountable(c) \intersect revoked = {}
    BY <1>5, AtCommit
  <2>4. \A b \in Bodies : <<c.key, b>> \notin receipt
    <3>1. CASE c.key = NoKey
      BY <3>1, TransactionConstants DEF TypeOK
    <3>2. CASE c.key # NoKey
      <4>1. Len(Plan(c)) >= 1 /\ Len(Plan(c)) \in Nat /\ step[d] \in Nat
        BY <3>2, KeyOf, ReceiptFirst DEF AdmissionInv, OnceInv, Typed
      <4>2. step[d] >= 2
        BY <2>1, <4>1 DEF InPlan
      <4> QED
        BY <2>1, <3>2, <4>2 DEF AdmissionInv, OnceInv, ReceiptHeld, Keyed
    <3> QED
      BY <3>1, <3>2
  <2>5. Service!Execute(d)
    BY <2>1, <2>2, <2>3, <2>4 DEF Service!Execute
  <2> QED
    BY <2>5 DEF Service!ServiceNext
<1>6. ASSUME NEW d \in Deliveries, LockTimeout(d) PROVE Service!ServiceNext
  <2>1. Running(d)
    BY <1>6 DEF LockTimeout, TimesOut, Waiting, WaitsFor, Requests
  <2> QED
    BY <1>6, <2>1, ServiceFail DEF LockTimeout
<1>7. ASSUME NEW d \in Deliveries, DeadlockVictim(d) PROVE [Service!ServiceNext]_Service!serviceVars
  <2>1. Running(d)
    BY <1>7 DEF DeadlockVictim, Deadlocked, WaitsFor, Requests
  <2>2. UNCHANGED <<receipt, applied, revoked>>
    BY <1>7 DEF DeadlockVictim
  <2>3. CASE Answer(d, "UNAVAILABLE")
    BY <2>1, <2>2, <2>3, ServiceFail
  <2>4. CASE UNCHANGED <<command, state>>
    BY <2>2, <2>4 DEF Service!serviceVars
  <2> QED
    BY <1>7, <2>3, <2>4 DEF DeadlockVictim
<1>8. ASSUME NEW d \in Deliveries, Refuse(d) PROVE Service!ServiceNext
  BY <1>8, ServiceFail DEF Refuse
<1>9. ASSUME NEW d \in Deliveries, Vanish(d) PROVE Service!ServiceNext
  BY <1>9, ServiceFail DEF Vanish
<1> QED
  BY <1>1, <1>2, <1>3, <1>4, <1>5, <1>6, <1>7, <1>8, <1>9 DEF Next, Step

\* The statement-by-statement execution with its lock waits, timeouts, deadlock
\* retries, receipts and lost workers implements CommandService: every command
\* looks as if it ran alone, at its commit, or not at all.
THEOREM TransactionsAreLinear == Spec => Linearized
<1>1. AdmissionInv /\ TypeOK /\ [Next]_vars => [Service!ServiceNext]_Service!serviceVars
  BY ServiceStep
<1> QED
  BY <1>1, ServiceStart, AdmissionInit, AdmissionStep, TransactionTypes, PTL
     DEF Spec, Linearized, Service!ServiceSpec
=============================================================================
