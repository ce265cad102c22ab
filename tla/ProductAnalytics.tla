------------------------- MODULE ProductAnalytics -------------------------
(***************************************************************************)
(* The facts product analytics is computed from and the figures it shows   *)
(* (app/services/product_analytics.py, app/services/user_status_transition *)
(* .py, scripts/prune_product_analytics.py).                               *)
(*                                                                         *)
(* Time is counted in half days, so a period may start or end at midday    *)
(* and a date is an instant divided by two.  Three separate groups of      *)
(* actions share the clock: sign-ins and their daily facts, orders and     *)
(* trades with the figures over a period, and the account-status history;  *)
(* a fourth is the sixty-second cache in front of every figure.            *)
(***************************************************************************)
EXTENDS Integers, Sequences, FiniteSets, FiniteSetsExt

CONSTANTS
    Members,      \* Buyer and Supplier users of companies that are not demo
    SignIns,      \* authentication requests in flight
    MaxInstant,   \* the last half day
    MaxLogins,    \* sign-ins of one behaviour
    Retained,     \* RETAINED_DATES, 800 in the code
    FactOrders,   \* orders
    FactTrades,   \* trades
    OrgOf(_),      \* OrgOf(o): the organization of an order
    SideOf(_),     \* SideOf(o): "BID" or "ASK"
    ClassOf(_),    \* ClassOf(g): the provenance stored with an organization's rows
    CacheTTL,     \* _AUTHORITATIVE_CACHE_TTL_SECONDS
    CacheSize,    \* _AUTHORITATIVE_CACHE_MAX_ENTRIES
    Queries,      \* normalized filter keys
    Readers       \* dashboard requests

ASSUME AnalyticsAssumption ==
    /\ MaxInstant \in Nat /\ MaxLogins \in Nat /\ IsFiniteSet(FactTrades)
    /\ Retained \in Nat \ {0, 1}   \* or a sign-in of last night would find its date pruned
    /\ CacheTTL \in Nat \ {0} /\ CacheSize \in Nat \ {0}

VARIABLES
    instant,      \* now, in half days
    signingIn,    \* a sign-in between reading the clock and its upsert
    loginDay,     \* UserLoginDay rows by member and date
    happened,     \* every committed sign-in, by member and instant
    placed,       \* OrderBookOrder rows
    traded,       \* Trade rows
    recognized,   \* organizations with an approved Buyer or Supplier
    account,      \* User.status
    history,      \* the latest UserStatusTransition of each member
    cache,        \* _AUTHORITATIVE_CACHE
    reader,       \* dashboard requests
    lru           \* the cache's keys, least recently used first

loginVars == <<signingIn, loginDay, happened>>
marketVars == <<placed, traded, recognized>>
historyVars == <<account, history>>
cacheVars == <<cache, reader, lru>>
analyticsVars == <<instant, loginVars, marketVars, historyVars, cacheVars>>

None == [none |-> TRUE]
Instants == 0..MaxInstant
Date(t) == t \div 2
Dates == 0..Date(MaxInstant)
Windows == {w \in [start : Instants, end : Instants] : w.start < w.end}

-----------------------------------------------------------------------------
(* Sign-ins and the daily facts *)

\* Time passes; an upsert follows its clock reading within half a day.
HalfDay ==
    /\ instant < MaxInstant
    /\ \A s \in SignIns : signingIn[s] # None => signingIn[s].at = instant
    /\ instant' = instant + 1
    /\ UNCHANGED <<loginVars, marketVars, historyVars, cacheVars>>

ReadClock(s, m) ==
    /\ signingIn[s] = None
    /\ signingIn' = [signingIn EXCEPT ![s] = [user |-> m, at |-> instant]]
    /\ UNCHANGED <<instant, loginDay, happened, marketVars, historyVars, cacheVars>>

\* The one atomic INSERT .. ON CONFLICT DO UPDATE of record_login_day.
Upserted(row, at) ==
    IF row = None THEN [count |-> 1, first |-> at, last |-> at]
    ELSE [count |-> row.count + 1, first |-> Min({row.first, at}), last |-> Max({row.last, at})]

RecordLoginDay(s) ==
    LET login == signingIn[s] IN
    /\ login # None
    /\ MapThenSumSet(LAMBDA m : MapThenSumSet(LAMBDA t : happened[m][t], Instants), Members)
         < MaxLogins
    /\ loginDay' = [loginDay EXCEPT ![login.user][Date(login.at)] = Upserted(@, login.at)]
    /\ happened' = [happened EXCEPT ![login.user][login.at] = @ + 1]
    /\ signingIn' = [signingIn EXCEPT ![s] = None]
    /\ UNCHANGED <<instant, marketVars, historyVars, cacheVars>>

\* prune_login_days: today - (RETAINED_DATES - 1) is the first date kept.
Cutoff(today) == today - (Retained - 1)
PruneLoginDays ==
    /\ loginDay' = [m \in Members |-> [d \in Dates |->
                      IF d < Cutoff(Date(instant)) THEN None ELSE loginDay[m][d]]]
    /\ UNCHANGED <<instant, signingIn, happened, marketVars, historyVars, cacheVars>>

\* _date_window: a midday start leaves its date out, a midday end takes its in.
DateWindow(w) == [lower |-> Date(w.start + 1), upper |-> Date(w.end + 1)]

HasRow(m, lower, upper) == \E d \in Dates : lower <= d /\ d < upper /\ loginDay[m][d] # None

\* login_day_facts_stmt and _parse_login_facts: the coverage start is the
\* earliest member row before the period's upper date.
CoverageStart(upper) ==
    LET kept == {d \in Dates : d < upper /\ \E m \in Members : loginDay[m][d] # None}
    IN IF kept = {} THEN None ELSE [date |-> Min(kept)]
ActiveBetween(lower, upper) == Cardinality({m \in Members : HasRow(m, lower, upper)})

Covered_Upper(from, upper) ==
    CoverageStart(upper) # None /\ upper >= CoverageStart(upper).date
Covered(from, upper) ==
    CoverageStart(upper) # None /\ from >= CoverageStart(upper).date

\* _login_metric, and the rolling DAU, WAU and MAU of engagement.
LoginMetric(w) ==
    LET b == DateWindow(w)
    IN IF Covered(b.lower, b.upper) THEN [value |-> ActiveBetween(b.lower, b.upper)] ELSE None
RollingMetric(w, days) ==
    LET upper == DateWindow(w).upper
    IN IF Covered(upper - days, upper)
       THEN [value |-> ActiveBetween(upper - days, upper)] ELSE None
\* The returning members of retention, covered when the previous period is.
ReturningMembers(w, p) ==
    LET b == DateWindow(w)
        q == DateWindow(p)
        first == {d \in Dates : \E m \in Members : loginDay[m][d] # None}
    IN IF first # {} /\ q.lower >= Min(first)
       THEN [value |-> Cardinality({m \in Members :
                         HasRow(m, b.lower, b.upper) /\ HasRow(m, q.lower, q.upper)})]
       ELSE None

LoginNext ==
    \/ HalfDay
    \/ \E s \in SignIns, m \in Members : ReadClock(s, m)
    \/ \E s \in SignIns : RecordLoginDay(s)
    \/ PruneLoginDays

-----------------------------------------------------------------------------
(* Orders, trades and the figures of a period *)

ConfirmedStatuses == {"CONFIRMED", "DELIVERED", "PAID"}

PlaceOrder(o) ==
    /\ placed[o] = None
    /\ placed' = [placed EXCEPT ![o] = [created |-> instant]]
    /\ UNCHANGED <<instant, traded, recognized, loginVars, historyVars, cacheVars>>

MakeTrade(t, b, a) ==
    /\ traded[t] = None /\ placed[b] # None /\ placed[a] # None
    /\ SideOf(b) = "BID" /\ SideOf(a) = "ASK"
    /\ traded' = [traded EXCEPT ![t] = [bid |-> b, ask |-> a, status |-> "PENDING",
                                       created |-> instant, confirmed |-> None]]
    /\ UNCHANGED <<instant, placed, recognized, loginVars, historyVars, cacheVars>>

ConfirmTrade(t) ==
    /\ traded[t] # None /\ traded[t].status = "PENDING"
    /\ traded' = [traded EXCEPT ![t].status = "CONFIRMED", ![t].confirmed = [at |-> instant]]
    /\ UNCHANGED <<instant, placed, recognized, loginVars, historyVars, cacheVars>>

\* Rows confirmed before confirmed_at existed carry the status alone.
LegacyTrade(t, b, a) ==
    /\ traded[t] = None /\ placed[b] # None /\ placed[a] # None
    /\ SideOf(b) = "BID" /\ SideOf(a) = "ASK"
    /\ traded' = [traded EXCEPT ![t] = [bid |-> b, ask |-> a, status |-> "CONFIRMED",
                                       created |-> instant, confirmed |-> None]]
    /\ UNCHANGED <<instant, placed, recognized, loginVars, historyVars, cacheVars>>

\* The last approved member of an organization comes or goes.
Recognize(g) ==
    /\ ClassOf(g) # "demo"
    /\ recognized' = IF g \in recognized THEN recognized \ {g} ELSE recognized \cup {g}
    /\ UNCHANGED <<instant, placed, traded, loginVars, historyVars, cacheVars>>

OrderClass(o) == ClassOf(OrgOf(o))
\* trade_provenance_case: one demo side makes the trade demo.
TradeClass(t) ==
    LET sides == {OrderClass(traded[t].bid), OrderClass(traded[t].ask)}
    IN IF "demo" \in sides THEN "demo" ELSE IF sides = {"live"} THEN "live" ELSE "unknown"

In(t, w) == w.start <= t /\ t < w.end
Settled(t) == traded[t] # None /\ traded[t].status \in ConfirmedStatuses
Strict(t) == Settled(t) /\ traded[t].confirmed # None
\* coalesce(confirmed_at, created_at), the instant a trade is counted at.
EconomicAt(t) == IF Strict(t) THEN traded[t].confirmed.at ELSE traded[t].created

OrdersCreated(w, class) ==
    {o \in FactOrders : placed[o] # None /\ In(placed[o].created, w) /\ OrderClass(o) = class}

\* executed_before of orders_aggregate_stmt.
ExecutedBefore(o, asOf) ==
    \E t \in FactTrades : /\ Strict(t) /\ o \in {traded[t].bid, traded[t].ask}
                          /\ traded[t].confirmed.at < asOf
ExecutedOrders(w, class) == {o \in OrdersCreated(w, class) : ExecutedBefore(o, w.end)}

\* trades_aggregate_stmt: strict plus legacy rows of the period.
ConfirmedTrades(w, class) ==
    {t \in FactTrades : /\ Settled(t) /\ TradeClass(t) = class
                        /\ \/ Strict(t) /\ In(traded[t].confirmed.at, w)
                           \/ ~Strict(t) /\ In(traded[t].created, w)}
\* trades_daily_stmt, live rows by the date they are counted at.
TradesDaily(w, d) ==
    Cardinality({t \in FactTrades : /\ Settled(t) /\ TradeClass(t) = "live"
                                    /\ In(EconomicAt(t), w) /\ Date(EconomicAt(t)) = d})

\* _dense_series: the last date is in when the period ends after its midnight.
SeriesDates(w) ==
    {d \in Dates : /\ Date(w.start) <= d
                   /\ (d < Date(w.end) \/ (d = Date(w.end) /\ w.end % 2 # 0))}

\* _org_activity_union: creations of recognized organizations' orders and the
\* confirmations of live trades, for both parties.
ActiveAt(g) ==
    {placed[o].created : o \in {p \in FactOrders :
        placed[p] # None /\ OrgOf(p) = g /\ g \in recognized}}
    \cup {traded[t].confirmed.at : t \in {u \in FactTrades :
            /\ Strict(u) /\ TradeClass(u) = "live"
            /\ g \in {OrgOf(traded[u].bid), OrgOf(traded[u].ask)}}}
FactOrgs == {OrgOf(o) : o \in FactOrders}

Previous(w) == [start |-> w.start - (w.end - w.start), end |-> w.start]
Seen(g, w) == \E t \in ActiveAt(g) : In(t, w)

\* "earlier": active before the period that precedes the previous one.
ActiveEarlier(g, w) == \E t \in ActiveAt(g) : t < Previous(Previous(w)).start
\* The retained and reactivated counts of org_activity_buckets_stmt.
Retention(w) ==
    [retained |-> {g \in FactOrgs : Seen(g, w) /\ Seen(g, Previous(w))},
     reactivated |-> {g \in FactOrgs : /\ Seen(g, w) /\ ~Seen(g, Previous(w))
                                       /\ (Seen(g, Previous(Previous(w))) \/ ActiveEarlier(g, w))}]

\* The figures overview and _activity_section assemble for a period, as far as
\* they are read back from the facts above.
ActivitySection(w, class) ==
    [created |-> OrdersCreated(w, class), executed |-> ExecutedOrders(w, class)]
Overview(w) ==
    [confirmed |-> Cardinality(ConfirmedTrades(w, "live")),
     series |-> [d \in SeriesDates(w) |-> TradesDaily(w, d)]]

MarketFactsNext ==
    \/ HalfDay
    \/ \E o \in FactOrders : PlaceOrder(o)
    \/ \E t \in FactTrades, b \in FactOrders, a \in FactOrders : MakeTrade(t, b, a)
    \/ \E t \in FactTrades, b \in FactOrders, a \in FactOrders : LegacyTrade(t, b, a)
    \/ \E t \in FactTrades : ConfirmTrade(t)
    \/ \E g \in FactOrgs : Recognize(g)

-----------------------------------------------------------------------------
(* The account-status history *)

\* record_status_transition: a no-op writes nothing.
Recorded(m, to) == IF account[m] = to THEN history ELSE [history EXCEPT ![m] = to]

ApproveAccount(m) ==
    /\ account' = [account EXCEPT ![m] = "APPROVED"]
    /\ history' = Recorded(m, "APPROVED")
    /\ UNCHANGED <<instant, loginVars, marketVars, cacheVars>>

\* The administration list's rejection, admin_analytics.reject_user.
RejectFromList(m) ==
    /\ account' = [account EXCEPT ![m] = "REJECTED"]
    /\ history' = Recorded(m, "REJECTED")
    /\ UNCHANGED <<instant, loginVars, marketVars, cacheVars>>

\* PUT /auth/reject/{user_id} assigns the status and records no transition.
RejectAccount(m) ==
    /\ account' = [account EXCEPT ![m] = "REJECTED"]
    /\ UNCHANGED <<instant, history, loginVars, marketVars, cacheVars>>

\* qualified_as_of: the members whose latest transition is an approval.
Qualified == {m \in Members : history[m] = "APPROVED"}

HistoryNext ==
    \E m \in Members : ApproveAccount(m) \/ RejectFromList(m) \/ RejectAccount(m)

-----------------------------------------------------------------------------
(* The cache *)

ReaderIdle == [phase |-> "idle"]

\* A request reads the clock and the cache in one turn of the event loop.
Lookup(r, q) ==
    /\ reader[r].phase = "idle"
    /\ IF cache[q] # None /\ instant < cache[q].expires
       THEN /\ reader' = [reader EXCEPT ![r] =
                            [phase |-> "served", key |-> q, read |-> cache[q].read]]
            /\ lru' = Append(SelectSeq(lru, LAMBDA k : k # q), q)
       ELSE /\ reader' = [reader EXCEPT ![r] = [phase |-> "asked", key |-> q, at |-> instant]]
            /\ UNCHANGED lru
    /\ UNCHANGED <<instant, cache, loginVars, marketVars, historyVars>>

\* The statements of the wrapped method read the database at some later time.
ReadDatabase(r) ==
    /\ reader[r].phase = "asked"
    /\ reader' = [reader EXCEPT ![r] = [phase |-> "computed", key |-> @.key, at |-> @.at,
                                        read |-> instant]]
    /\ UNCHANGED <<instant, cache, lru, loginVars, marketVars, historyVars>>

\* The lifetime counts from the clock reading before the method ran.
Expires(r) == reader[r].at + CacheTTL

\* Store the result and drop the least recently used keys beyond the limit.
Store(r) ==
    LET q == reader[r].key
        order == Append(SelectSeq(lru, LAMBDA k : k # q), q)
        kept == IF Len(order) > CacheSize
                THEN SubSeq(order, Len(order) - CacheSize + 1, Len(order)) ELSE order
    IN /\ reader[r].phase = "computed"
       /\ lru' = kept
       /\ cache' = [k \in Queries |->
                      IF k \notin {kept[i] : i \in DOMAIN kept} THEN None
                      ELSE IF k = q THEN [read |-> reader[r].read, expires |-> Expires(r)]
                      ELSE cache[k]]
       /\ reader' = [reader EXCEPT ![r] = [phase |-> "served", key |-> q, read |-> @.read]]
       /\ UNCHANGED <<instant, loginVars, marketVars, historyVars>>

Shown(r) ==
    /\ reader[r].phase = "served"
    /\ reader' = [reader EXCEPT ![r] = ReaderIdle]
    /\ UNCHANGED <<instant, cache, lru, loginVars, marketVars, historyVars>>

CacheNext ==
    \/ HalfDay
    \/ \E r \in Readers, q \in Queries : Lookup(r, q)
    \/ \E r \in Readers : ReadDatabase(r) \/ Store(r) \/ Shown(r)

-----------------------------------------------------------------------------
AnalyticsInit ==
    /\ instant = 0
    /\ signingIn = [s \in SignIns |-> None]
    /\ loginDay = [m \in Members |-> [d \in Dates |-> None]]
    /\ happened = [m \in Members |-> [t \in Instants |-> 0]]
    /\ placed = [o \in FactOrders |-> None]
    /\ traded = [t \in FactTrades |-> None]
    /\ recognized = {}
    /\ account = [m \in Members |-> "PENDING"]
    /\ history = [m \in Members |-> "PENDING"]
    /\ cache = [q \in Queries |-> None]
    /\ reader = [r \in Readers |-> ReaderIdle]
    /\ lru = <<>>

AnalyticsNext == LoginNext \/ MarketFactsNext \/ HistoryNext \/ CacheNext
AnalyticsSpec == AnalyticsInit /\ [][AnalyticsNext]_analyticsVars

-----------------------------------------------------------------------------
(* Properties *)

\* The sign-ins of a half day; the last date may have one only.
SignedIn(m, t) == IF t \in Instants THEN happened[m][t] ELSE 0

\* A retained login-day row says exactly what happened on its date: how often
\* the member signed in, first and last, in whatever order the concurrent
\* sign-ins reached the database.
LoginDayExact ==
    \A m \in Members, d \in Dates :
        LET on == {t \in Instants : Date(t) = d /\ happened[m][t] > 0}
        IN loginDay[m][d] # None =>
             loginDay[m][d] = [count |-> SignedIn(m, 2 * d) + SignedIn(m, 2 * d + 1),
                               first |-> Min(on), last |-> Max(on)]

Really(m, w) == \E t \in Instants : happened[m][t] > 0 /\ In(2 * Date(t), w)

\* A figure about active or returning members is either withheld or counts the
\* members whose sign-in dates fall in the period, however much of the history
\* has been pruned, for every period and for the rolling windows.
CoverageHonest ==
    CoverageStart(Date(MaxInstant) + 1) # None => \A w \in Windows :
        /\ LoginMetric(w) \in {None, [value |-> Cardinality({m \in Members : Really(m, w)})]}
        /\ \A days \in 1..3 :
              RollingMetric(w, days) \in {None, [value |-> Cardinality({m \in Members :
                  Really(m, [start |-> 2 * (DateWindow(w).upper - days), end |-> w.end])})]}
        /\ Previous(w) \in Windows =>
              ReturningMembers(w, Previous(w)) \in {None, [value |-> Cardinality({m \in Members :
                  Really(m, w) /\ Really(m, Previous(w))})]}

\* Once a period is over, no later confirmation makes one more of its orders
\* count as executed, and its order count no longer moves.
ClosedPeriodFixed ==
    [][\A end \in 1..instant : \A start \in 0..(end - 1), c \in {"live", "demo", "unknown"} :
          LET w == [start |-> start, end |-> end] IN
          /\ ActivitySection(w, c)'.executed \subseteq ActivitySection(w, c).executed
          /\ ActivitySection(w, c)'.created = ActivitySection(w, c).created]_analyticsVars

\* The trades of a daily series, each as its date and its number on that date.
InSeries(series) == UNION {{d} \X (1..series[d]) : d \in DOMAIN series}

\* The daily series of confirmed trades adds up to the headline count of the
\* same period, also when the period ends in the middle of a day.
TradesSeriesAgree ==
    (\E t \in FactTrades : Settled(t)) => \A w \in Windows :
        Cardinality(InSeries(Overview(w).series)) = Overview(w).confirmed

\* An organization counts as reactivated exactly when it is active in the
\* period, was silent in the one before and was active at any time before that.
ReactivatedExactly ==
    \A g \in {h \in FactOrgs : ActiveAt(h) # {}} : \A w \in Windows :
        g \in Retention(w).reactivated <=>
            /\ \E t \in ActiveAt(g) : In(t, w)
            /\ \A t \in ActiveAt(g) : ~In(t, Previous(w))
            /\ \E t \in ActiveAt(g) : t < Previous(w).start

\* A figure taken from the cache describes the database as it was less than the
\* cache's lifetime ago, even when a slow computation stored it late.
CacheFresh ==
    [][\A r \in Readers, q \in Queries :
         (reader[r].phase = "idle" /\ reader'[r].phase = "served" /\ reader'[r].key = q)
            => instant - reader'[r].read < CacheTTL]_analyticsVars

\* The figures are true (product_analytics.py): withheld or exact, consistent with each other,
\* fixed once their period is over, and never older than the cache's lifetime.
FiguresTrue ==
    /\ [](LoginDayExact /\ CoverageHonest /\ TradesSeriesAgree /\ ReactivatedExactly)
    /\ ClosedPeriodFixed /\ CacheFresh

\* The members the qualification figure counts are the approved ones: the
\* history it is rebuilt from has every change of status ("Every user-creation
\* and status-mutation path routes through these helpers",
\* app/services/user_status_transition.py).
StatusHistoryTrue == Qualified = {m \in Members : account[m] = "APPROVED"}
=============================================================================
