------------------------- MODULE MarketTransactions -------------------------
(***************************************************************************)
(* How market requests run as PostgreSQL transactions: the row locks and   *)
(* advisory locks each handler takes and in which order, lock timeouts,    *)
(* deadlocks and the bounded retry, idempotency receipts, and the          *)
(* revalidation of parties under their row locks.                          *)
(*                                                                         *)
(* A client may deliver a command more than once, also while an earlier    *)
(* delivery still runs.  A handler is the sequence of its locking          *)
(* statements; what it writes appears at commit.  A statement locks its    *)
(* rows one at a time in ascending id order.  What the handlers write to   *)
(* the book is the subject of module Market; here a commit counts as one   *)
(* application of its command, and withdraws the admissions it revokes.    *)
(***************************************************************************)
EXTENDS Integers, Sequences, FiniteSets

CONSTANTS
    Deliveries,     \* bound: HTTP requests
    Catalogue,      \* the commands clients send; see Command
    Users, Orgs, Slices, Trades, Orders, Items,   \* row ids and slice keys
    Keys,           \* idempotency keys, each with its scope and operation
    NoKey,          \* no Idempotency-Key header
    Bodies,         \* request bodies
    MaxAttempts     \* DEFAULT_MARKET_TRANSACTION_ATTEMPTS

Operations == {"create_order", "update_order", "cancel_order", "create_trade", "confirm_trade",
               "settle_trade", "decline_trade", "publish_inventory_item", "edit_inventory",
               "reject_organization", "reject_user"}

\* Their handlers do not read the Idempotency-Key header.
Unkeyed == {"edit_inventory", "reject_organization", "reject_user"}

Resources ==
    ({"user"} \X Users) \union ({"org"} \X Orgs) \union ({"slice"} \X Slices)
    \union ({"trade"} \X Trades) \union ({"order"} \X Orders) \union ({"item"} \X Items)
    \union ({"receipt"} \X Keys)

\* A command and the rows its handler locks: target rows, the resting orders
\* it may match, the users and organizations of all parties.
Command == [op : Operations, actor : Users, org : Orgs, key : Keys \union {NoKey}, body : Bodies,
            slices : SUBSET Slices, trades : SUBSET Trades, orders : SUBSET Orders,
            crossing : SUBSET Orders, users : SUBSET Users, orgs : SUBSET Orgs,
            items : SUBSET Items, revokes : SUBSET Resources]

ASSUME TransactionConstants ==
    /\ Catalogue \subseteq Command /\ Catalogue # {}
    /\ \A c \in Catalogue : c.op \in Unkeyed => c.key = NoKey
    /\ Users \union Orgs \union Slices \union Trades \union Orders \union Items \union Keys \subseteq Nat
    /\ NoKey \notin Keys
    /\ \A c \in Catalogue :
           c.revokes \subseteq CASE c.op = "reject_organization" -> ({"user"} \X c.users) \union {<<"org", c.org>>}
                                [] c.op = "reject_user" -> {"user"} \X c.users
                                [] OTHER -> {}
    /\ MaxAttempts \in Nat \ {0}

VARIABLES
    command,    \* the command of a delivery
    state,      \* NEW, RUNNING or the answer that ended it
    attempt,    \* attempts started
    step,       \* 0 for the authentication query, then the handler's statements
    held,       \* locks of the delivery's transaction
    receipt,    \* stored command results: <<key, body>>
    applied,    \* history: how often a key's command was committed
    revoked     \* users and organizations whose admission was withdrawn

vars == <<command, state, attempt, step, held, receipt, applied, revoked>>

NoCommand == CHOOSE c \in Catalogue : TRUE

Init ==
    /\ command = [d \in Deliveries |-> NoCommand]
    /\ state = [d \in Deliveries |-> "NEW"]
    /\ attempt = [d \in Deliveries |-> 0]
    /\ step = [d \in Deliveries |-> 0]
    /\ held = [d \in Deliveries |-> {}]
    /\ receipt = {}
    /\ applied = [k \in Keys |-> 0]
    /\ revoked = {}

-----------------------------------------------------------------------------
(* The locking statements of the handlers, in the order they are issued *)

\* SELECT ... FOR UPDATE, or an advisory lock; Check also refuses the request
\* when a locked party is no longer admitted.
Lock(kind, ids) == [kind |-> kind, ids |-> ids, check |-> FALSE]
Check(kind, ids) == [kind |-> kind, ids |-> ids, check |-> TRUE]

\* The auth dependency locks the actor's row in the handler's transaction.
\* Cleanup routes admit rejected users.
Authenticate(c) ==
    [kind |-> "user", ids |-> {c.actor}, check |-> c.op \notin {"cancel_order", "decline_trade"}]

Receipt(c) == IF c.key = NoKey THEN <<>> ELSE <<Lock("receipt", {c.key})>>

\* lock_and_load_market_organizations for the actor and its organization.
Revalidate(c) == <<Check("user", {c.actor}), Check("org", {c.org})>>

\* match_order: an owner who is not admitted is skipped, not refused.
Match(c) ==
    IF c.crossing = {} THEN <<Check("org", {c.org})>>
    ELSE <<Lock("order", c.crossing), Check("org", c.orgs), Lock("user", c.users),
           Lock("org", c.orgs), Lock("item", c.items)>>

Market(c) == <<Lock("slice", c.slices)>>

CreateOrder(c) == Receipt(c) \o Market(c) \o Revalidate(c) \o Match(c)
UpdateOrder(c) == Receipt(c) \o Market(c) \o <<Lock("order", c.orders)>> \o Revalidate(c)
                  \o <<Lock("item", c.items)>> \o Match(c)
CancelOrder(c) == Receipt(c) \o Market(c) \o <<Lock("order", c.orders)>> \o Revalidate(c)
                  \o <<Lock("item", c.items)>>

\* _revalidate_trade_parties, after the actor and both organizations.
Parties(c) == <<Check("user", {c.actor}), Check("org", c.orgs), Check("user", c.users),
                Check("org", c.orgs)>>
CreateTrade(c) == Receipt(c) \o Market(c) \o <<Lock("order", c.orders)>> \o Parties(c)
TradeRows(c) == Receipt(c) \o Market(c) \o <<Lock("trade", c.trades), Lock("order", c.orders)>>
ConfirmTrade(c) == TradeRows(c) \o Parties(c) \o <<Lock("item", c.items)>>
SettleTrade(c) == TradeRows(c) \o Parties(c)
DeclineTrade(c) == TradeRows(c) \o <<Lock("org", c.orgs), Lock("item", c.items)>>

\* The item is locked once before the slice and again after it.
PublishInventoryItem(c) ==
    Receipt(c) \o Revalidate(c) \o <<Lock("item", c.items)>> \o Market(c)
    \o <<Lock("order", c.orders)>> \o Revalidate(c) \o <<Lock("item", c.items)>> \o Match(c)
EditInventory(c) == Revalidate(c) \o <<Lock("item", c.items)>>

\* The organization and its members are locked before the slices.
RejectOrganization(c) == <<Lock("org", {c.org}), Lock("user", c.users)>> \o Market(c)
                         \o <<Lock("trade", c.trades), Lock("order", c.orders),
                              Lock("org", c.orgs), Lock("item", c.items)>>
RejectUser(c) == <<Lock("user", c.users)>>

Plan(c) ==
    CASE c.op = "create_order" -> CreateOrder(c)
      [] c.op = "update_order" -> UpdateOrder(c)
      [] c.op = "cancel_order" -> CancelOrder(c)
      [] c.op = "create_trade" -> CreateTrade(c)
      [] c.op = "confirm_trade" -> ConfirmTrade(c)
      [] c.op = "settle_trade" -> SettleTrade(c)
      [] c.op = "decline_trade" -> DeclineTrade(c)
      [] c.op = "publish_inventory_item" -> PublishInventoryItem(c)
      [] c.op = "edit_inventory" -> EditInventory(c)
      [] c.op = "reject_organization" -> RejectOrganization(c)
      [] c.op = "reject_user" -> RejectUser(c)

-----------------------------------------------------------------------------
(* Locks *)

Running(d) == state[d] = "RUNNING"
Statement(d) == IF step[d] = 0 THEN Authenticate(command[d]) ELSE Plan(command[d])[step[d]]
InPlan(d) == step[d] <= Len(Plan(command[d]))

\* The locks the current statement still has to take, and the first of them.
Wanted(d) == ({Statement(d).kind} \X Statement(d).ids) \ held[d]
NextLock(d) == CHOOSE r \in Wanted(d) : \A q \in Wanted(d) : r[2] <= q[2]
Requests(d) == Running(d) /\ InPlan(d) /\ Wanted(d) # {}

WaitsFor(d, e) == d # e /\ Requests(d) /\ NextLock(d) \in held[e]
Waiting(d) == \E e \in Deliveries : WaitsFor(d, e)

\* d is in a set of transactions that all wait for each other.
Deadlocked(d) ==
    \E S \in SUBSET Deliveries : d \in S /\ \A e \in S : \E f \in S : WaitsFor(e, f)

\* An advisory lock statement has set the 500 ms lock_timeout for the rest of
\* the transaction; before it the role's 3 s apply.
Bounded(d) == \E i \in 1 .. step[d] : i <= Len(Plan(command[d]))
                                      /\ Plan(command[d])[i].kind \in {"receipt", "slice"}

-----------------------------------------------------------------------------
(* The life of a delivery *)

Deliver(d, c) ==
    /\ state[d] = "NEW"
    /\ command' = [command EXCEPT ![d] = c]
    /\ state' = [state EXCEPT ![d] = "RUNNING"]
    /\ attempt' = [attempt EXCEPT ![d] = 1]
    /\ UNCHANGED <<step, held, receipt, applied, revoked>>

\* The transaction ends and the client is answered.
Answer(d, answer) ==
    /\ state' = [state EXCEPT ![d] = answer]
    /\ held' = [held EXCEPT ![d] = {}]
    /\ UNCHANGED <<command, attempt, step>>

Acquire(d) ==
    /\ Requests(d)
    /\ ~Waiting(d)
    /\ held' = [held EXCEPT ![d] = @ \union {NextLock(d)}]
    /\ UNCHANGED <<command, state, attempt, step, receipt, applied, revoked>>

\* prepare_command_attempt and the replay lookups of create_order,
\* create_trade and publish_inventory_item.
Replayed(d) == <<command[d].key, command[d].body>> \in receipt
KeyReused(d) == ~Replayed(d) /\ \E b \in Bodies : <<command[d].key, b>> \in receipt

\* A statement whose locks are all held returns, and the handler looks at it.
Proceed(d) ==
    LET s == Statement(d)
    IN  /\ Running(d) /\ InPlan(d) /\ Wanted(d) = {}
        /\ \/ /\ s.kind = "receipt"
              /\ Replayed(d)
              /\ Answer(d, "REPLAYED")
           \/ /\ s.kind = "receipt" /\ KeyReused(d)
              /\ Answer(d, "REFUSED")
           \/ /\ s.check
              /\ ({s.kind} \X s.ids) \intersect revoked # {}
              /\ Answer(d, "REFUSED")
           \/ /\ s.kind = "receipt" => ~Replayed(d) /\ ~KeyReused(d)
              /\ s.check => ({s.kind} \X s.ids) \intersect revoked = {}
              /\ step' = [step EXCEPT ![d] = @ + 1]
              /\ UNCHANGED <<command, state, attempt, held>>
        /\ UNCHANGED <<receipt, applied, revoked>>

\* A check of the handler that needs no lock fails.
Refuse(d) ==
    /\ Running(d) /\ step[d] > 0
    /\ Answer(d, "REFUSED")
    /\ UNCHANGED <<receipt, applied, revoked>>

\* The handler commits its writes and its receipt together.
Commit(d) ==
    LET c == command[d]
    IN  /\ Running(d) /\ ~InPlan(d)
        /\ Answer(d, "APPLIED")
        /\ receipt' = IF c.key = NoKey THEN receipt ELSE receipt \union {<<c.key, c.body>>}
        /\ applied' = IF c.key = NoKey THEN applied ELSE [applied EXCEPT ![c.key] = @ + 1]
        /\ revoked' = revoked \union c.revokes

\* Fault: the advisory lock statements set no limit for what follows.
TimesOut_BeforeAdvisory(d) == Waiting(d) /\ ~Bounded(d)
TimesOut(d) == Waiting(d)

\* Fault: a rejection commits the account's status before it locks the slices.
LockTimeout_Partial(d) ==
    /\ TimesOut(d)
    /\ Answer(d, "BUSY")
    /\ revoked' = revoked \union command[d].revokes
    /\ UNCHANGED <<receipt, applied>>
\* 55P03: 409 for a slice, 503 otherwise; never retried.
LockTimeout(d) ==
    /\ TimesOut(d)
    /\ Answer(d, "BUSY")
    /\ UNCHANGED <<receipt, applied, revoked>>

\* retry_market_transaction; reject_user is not decorated.
MayRetry(d) == command[d].op # "reject_user" /\ attempt[d] < MaxAttempts

\* 40P01: rolled back and run again without the authentication query.  A wait
\* of 500 ms ends before PostgreSQL looks for a deadlock after 1 s, so only a
\* wait under the role's lock_timeout is ever the victim.
DeadlockVictim(d) ==
    /\ Deadlocked(d) /\ ~Bounded(d)
    /\ IF MayRetry(d) /\ step[d] > 0
       THEN /\ attempt' = [attempt EXCEPT ![d] = @ + 1]
            /\ step' = [step EXCEPT ![d] = 1]
            /\ held' = [held EXCEPT ![d] = {}]
            /\ UNCHANGED <<command, state>>
       ELSE Answer(d, "UNAVAILABLE")
    /\ UNCHANGED <<receipt, applied, revoked>>

\* The worker or its connection dies; PostgreSQL rolls back.
Vanish(d) ==
    /\ Running(d)
    /\ Answer(d, "LOST")
    /\ UNCHANGED <<receipt, applied, revoked>>

Step(d) == Acquire(d) \/ Proceed(d) \/ Commit(d) \/ LockTimeout(d) \/ DeadlockVictim(d)

Next == \E d \in Deliveries : (\E c \in Catalogue : Deliver(d, c)) \/ Step(d) \/ Refuse(d) \/ Vanish(d)

Spec == Init /\ [][Next]_vars

\* A request that can run does run, and PostgreSQL ends a wait at its limit.
FairSpec == Spec /\ \A d \in Deliveries : WF_vars(Step(d))

-----------------------------------------------------------------------------
(* Properties *)

TypeOK ==
    /\ command \in [Deliveries -> Catalogue]
    /\ state \in [Deliveries -> {"NEW", "RUNNING", "APPLIED", "REPLAYED", "REFUSED", "BUSY",
                                 "UNAVAILABLE", "LOST"}]
    /\ attempt \in [Deliveries -> 0 .. MaxAttempts]
    /\ step \in [Deliveries -> Nat]
    /\ held \in [Deliveries -> SUBSET Resources]
    /\ receipt \subseteq Keys \X Bodies
    /\ applied \in [Keys -> Nat]
    /\ revoked \subseteq Resources

\* A command with an Idempotency-Key takes effect at most once, however often
\* it is delivered, interrupted, retried after a deadlock or repeated by a
\* client that never saw the answer.
AppliedOnce == \A k \in Keys : applied[k] <= 1

\* A successful answer is about the request that was sent: the key was applied
\* with this very body, by this delivery or by an earlier one.
AnswersOwnRequest ==
    \A d \in Deliveries : state[d] \in {"APPLIED", "REPLAYED"} /\ command[d].key # NoKey
                            => <<command[d].key, command[d].body>> \in receipt /\ applied[command[d].key] = 1

\* What the handlers promise together, see CommandService.
Service == INSTANCE CommandService WITH answer <- state, stored <- receipt

\* The locks, timeouts, retries and receipts below implement commands that
\* happen in one step each: a delivery takes effect as a whole at its commit,
\* for parties admitted then, at most once per key, or not at all.
Linearized == Service!ServiceSpec

\* Admission under locks: no market command commits after a rejection of the
\* actor, of its organization or, for a direct trade, of either party has
\* committed.  The retry does not hold the actor's row from authentication on,
\* so its rechecks carry this alone.
AdmittedAtCommit ==
    [][\A d \in Deliveries : state[d] # "APPLIED" /\ state'[d] = "APPLIED"
                                => Service!Accountable(command[d]) \intersect revoked = {}]_vars

\* "Market operations never wait indefinitely": every delivery is answered,
\* although handlers wait for each other in cycles.
EveryDeliveryEnds == \A d \in Deliveries : Running(d) ~> ~Running(d)
=============================================================================
