----------------------------- MODULE DeskProofs -----------------------------
(***************************************************************************)
(* The modules around the order book, for any numbers of tabs, clients,    *)
(* orders, prices, events, runs and members: assisted order entry stays    *)
(* within its authority (MarketSupport), a watchlist tells the truth       *)
(* (Watchlists), public screens and direct hits agree with the book        *)
(* (MarketViews), prices rest on the evidence they name (ForwardMarks),    *)
(* and the operators' corrections are exact (Remediation).                 *)
(***************************************************************************)
EXTENDS MarketSupport, Watchlists, MarketViews, ForwardMarks, Remediation,
        FiniteSetTheorems, WellFoundedInduction, TLAPS

-----------------------------------------------------------------------------
(* Least and greatest numbers *)

LEMMA LeastNat ==
    ASSUME NEW S, S \subseteq Nat, S # {}
    PROVE  \E n \in S : \A m \in S : n <= m
<1> DEFINE R == {p \in Nat \X Nat : p[1] < p[2]}
<1>1. IsWellFoundedOn(R, Nat)
  BY NatLessThanWellFounded DEF OpToRel
<1>2. \A i, j \in Nat : i < j => <<i, j>> \in R
  OBVIOUS
<1> HIDE DEF R
<1>3. PICK n \in S : \A m \in S : ~ (<<m, n>> \in R)
  BY <1>1, WFMin
<1>4. ASSUME NEW m \in S PROVE n <= m
  <2>1. m \in Nat /\ n \in Nat /\ ~ (m < n)
    BY <1>2, <1>3
  <2> QED
    BY <2>1
<1> QED
  BY <1>4

LEMMA GreatestNat ==
    ASSUME NEW S, S \subseteq Nat, S # {}, NEW K \in Nat, \A n \in S : n <= K
    PROVE  \E n \in S : \A m \in S : m <= n
<1> DEFINE above == {k \in Nat : \A n \in S : n <= k}
<1>1. PICK k \in above : \A j \in above : k <= j
  BY LeastNat
<1>2. k \in S
  <2> SUFFICES ASSUME k \notin S PROVE FALSE
    OBVIOUS
  <2>1. \A n \in S : n <= k - 1
    BY <1>1
  <2>2. k - 1 \in Nat
    <3>1. PICK n \in S : TRUE
      OBVIOUS
    <3> QED
      BY <1>1, <2>1, <3>1
  <2> QED
    BY <1>1, <2>1, <2>2
<1> QED
  BY <1>1, <1>2

-----------------------------------------------------------------------------
(* Assisted order entry *)

Context == [client : Clients, status : {"ACTIVE", "REVOKED", "EXITED", "EXPIRED"}, late : BOOLEAN]

\* The types of the variables the support routes read and write.
SupportTyped ==
    /\ capable \in [Capabilities -> {"none", "granted", "expired", "revoked"}]
    /\ context \in Seq(Context)
    /\ opening \in [Tabs -> [client : Clients \union {"none"}, ends : SUBSET Nat]]

\* One create_context at a time has the capability rows locked, and what it read is still so
\* when it commits.
OpeningAlone == \A t, u \in Tabs : opening[t] # NotOpening /\ opening[u] # NotOpening => t = u
OpeningCurrent ==
    \A t \in Tabs : opening[t] # NotOpening =>
        /\ opening[t].client \in Clients
        /\ opening[t].ends = ActiveContexts
        /\ \A c \in Capabilities : capable[c] # "revoked"

\* All active contexts are one.
ActiveAlone == \A i, j \in ActiveContexts : i = j

\* The one listing, if any, was published by somebody entitled to and rested.
ListingRests ==
    assisted # <<>> =>
        /\ {"open", "crossed", "entitled"} \subseteq DOMAIN assisted[1]
        /\ assisted[1].crossed = {}
        /\ assisted[1].entitled = TRUE

SupportInv ==
    /\ SupportTyped /\ OpeningAlone /\ OpeningCurrent /\ ActiveAlone /\ RevocationEndsContexts
    /\ ListingRests

LEMMA SupportInvInit == SupportInit => SupportInv
  BY DEF SupportInit, SupportInv, SupportTyped, OpeningAlone, OpeningCurrent, ActiveAlone, RevocationEndsContexts,
         ListingRests, ActiveContexts, NotOpening, Capabilities, Context

LEMMA OneOfAll ==
    ASSUME NEW S, \A x, y \in S : x = y
    PROVE  IsFiniteSet(S) /\ Cardinality(S) <= 1
<1>1. CASE S = {}
  BY <1>1, FS_EmptySet
<1>2. CASE S # {}
  <2>1. PICK x \in S : S = {x}
    BY <1>2
  <2>2. IsFiniteSet({x}) /\ Cardinality({x}) = 1
    BY FS_Singleton
  <2> QED
    BY <2>1, <2>2
<1> QED BY <1>1, <1>2

\* Ending contexts leaves the rows a sequence, and only the ones not ended active.
LEMMA EndContextsEnds ==
    ASSUME context \in Seq(Context), NEW S, NEW s \in {"REVOKED", "EXITED", "EXPIRED"}
    PROVE  /\ EndContexts(S, s) \in Seq(Context)
           /\ DOMAIN EndContexts(S, s) = DOMAIN context
           /\ {i \in DOMAIN EndContexts(S, s) : EndContexts(S, s)[i].status = "ACTIVE"} = ActiveContexts \ S
<1> DEFINE f == EndContexts(S, s)
<1>1. \A i \in DOMAIN context : context[i] \in Context
  OBVIOUS
<1>2. \A i \in DOMAIN context : f[i] \in Context /\ (f[i].status = "ACTIVE" <=> i \notin S /\ context[i].status = "ACTIVE")
  BY <1>1 DEF EndContexts, Context
<1>3. f \in [1 .. Len(context) -> Context] /\ Len(context) \in Nat /\ DOMAIN f = DOMAIN context
  BY <1>2 DEF EndContexts
<1> QED
  BY <1>2, <1>3 DEF ActiveContexts

\* A step that leaves contexts, capabilities and openings alone keeps what is said of them.
LEMMA ContextsKept ==
    ASSUME SupportInv, UNCHANGED <<capable, context, opening>>
    PROVE  SupportTyped' /\ OpeningAlone' /\ OpeningCurrent' /\ ActiveAlone' /\ RevocationEndsContexts'
  BY DEF SupportInv, SupportTyped, OpeningAlone, OpeningCurrent, ActiveAlone, RevocationEndsContexts, ActiveContexts

LEMMA ListingKept ==
    ASSUME SupportInv, UNCHANGED assisted
    PROVE  ListingRests'
  BY DEF SupportInv, ListingRests

LEMMA SupportStep == SupportInv /\ [SupportNext]_supportVars => SupportInv'
<1> SUFFICES ASSUME SupportInv, [SupportNext]_supportVars
             PROVE  SupportInv'
  OBVIOUS
<1> USE DEF SupportInv
<1>1. ASSUME NEW c \in Capabilities, GrantCapability(c) PROVE SupportInv'
  <2>1. ListingRests'
    BY <1>1, ListingKept DEF GrantCapability
  <2>2. ActiveContexts' = ActiveContexts
    BY <1>1 DEF GrantCapability, ActiveContexts
  <2>3. \A d \in Capabilities : capable'[d] = "revoked" => capable[d] = "revoked"
    BY <1>1 DEF GrantCapability, SupportTyped
  <2> QED
    BY <1>1, <2>1, <2>2, <2>3
       DEF GrantCapability, SupportTyped, OpeningAlone, OpeningCurrent, ActiveAlone, RevocationEndsContexts
<1>2. ASSUME NEW c \in Capabilities, CapabilityExpires(c) PROVE SupportInv'
  <2>1. ListingRests'
    BY <1>2, ListingKept DEF CapabilityExpires
  <2>2. ActiveContexts' = ActiveContexts
    BY <1>2 DEF CapabilityExpires, ActiveContexts
  <2>3. \A d \in Capabilities : capable'[d] = "revoked" => capable[d] = "revoked"
    BY <1>2 DEF CapabilityExpires, SupportTyped
  <2> QED
    BY <1>2, <2>1, <2>2, <2>3
       DEF CapabilityExpires, SupportTyped, OpeningAlone, OpeningCurrent, ActiveAlone, RevocationEndsContexts
<1>3. ASSUME NEW c \in Capabilities, RevokeCapability(c) PROVE SupportInv'
  <2>1. ListingRests'
    BY <1>3, ListingKept DEF RevokeCapability
  <2>2. context' \in Seq(Context) /\ ActiveContexts' = {}
    BY <1>3, EndContextsEnds DEF RevokeCapability, ActiveContexts, SupportTyped
  <2>3. \A t \in Tabs : opening'[t] = NotOpening
    BY <1>3 DEF RevokeCapability, Unlocked
  <2> QED
    BY <1>3, <2>1, <2>2, <2>3
       DEF RevokeCapability, SupportTyped, OpeningAlone, OpeningCurrent, ActiveAlone, RevocationEndsContexts
<1>4. ASSUME NEW o \in Clients, ClientDecision(o) PROVE SupportInv'
  BY <1>4, ContextsKept, ListingKept DEF ClientDecision
<1>5. ASSUME NEW o \in Clients, NEW t \in Tabs, CreateContextReads(t, o) PROVE SupportInv'
  <2>1. ListingRests'
    BY <1>5, ListingKept DEF CreateContextReads
  <2>2. ActiveContexts' = ActiveContexts /\ ActiveContexts \subseteq Nat
    BY <1>5 DEF CreateContextReads, ActiveContexts, SupportTyped
  <2>3. opening' \in [Tabs -> [client : Clients \union {"none"}, ends : SUBSET Nat]]
    BY <1>5, <2>2 DEF CreateContextReads, SupportTyped
  <2>4. \A u \in Tabs : opening'[u] # NotOpening => u = t /\ opening'[u].client \in Clients /\ opening'[u].ends = ActiveContexts
    BY <1>5 DEF CreateContextReads, MayOpen, Unlocked, SupportTyped
  <2>5. \A c \in Capabilities : capable'[c] # "revoked"
    BY <1>5 DEF CreateContextReads, MayOpen, Holds
  <2> QED
    BY <1>5, <2>1, <2>2, <2>3, <2>4, <2>5
       DEF CreateContextReads, SupportTyped, OpeningAlone, OpeningCurrent, ActiveAlone, RevocationEndsContexts
<1>6. ASSUME NEW i \in DOMAIN context, ContextExpires(i) PROVE SupportInv'
  <2>1. ListingRests'
    BY <1>6, ListingKept DEF ContextExpires
  <2>2. context' \in Seq(Context) /\ ActiveContexts' = ActiveContexts
    <3>1. context[i] \in Context
      BY DEF SupportTyped
    <3>2. [context[i] EXCEPT !.late = TRUE] \in Context /\ [context[i] EXCEPT !.late = TRUE].status = context[i].status
      BY <3>1 DEF Context
    <3>3. context' = [context EXCEPT ![i] = [context[i] EXCEPT !.late = TRUE]]
      BY <1>6 DEF ContextExpires
    <3> QED
      BY <3>2, <3>3 DEF ActiveContexts, SupportTyped
  <2> QED
    BY <1>6, <2>1, <2>2
       DEF ContextExpires, SupportTyped, OpeningAlone, OpeningCurrent, ActiveAlone, RevocationEndsContexts
<1>7. ASSUME NEW i \in DOMAIN context, ExitContext(i) PROVE SupportInv'
  <2>1. ListingRests'
    BY <1>7, ListingKept DEF ExitContext
  <2>2. context' \in Seq(Context) /\ ActiveContexts' = ActiveContexts \ {i}
    BY <1>7, EndContextsEnds DEF ExitContext, ActiveContexts, SupportTyped
  <2>3. \A t \in Tabs : opening'[t] = NotOpening
    BY <1>7 DEF ExitContext, Unlocked
  <2> QED
    BY <1>7, <2>1, <2>2, <2>3
       DEF ExitContext, SupportTyped, OpeningAlone, OpeningCurrent, ActiveAlone, RevocationEndsContexts
<1>8. ASSUME NEW i \in DOMAIN context, NEW t \in Tabs, NEW p \in BidPrices, ResolveParty(t, i, p) PROVE SupportInv'
  BY <1>8, ContextsKept, ListingKept DEF ResolveParty
<1>9. ASSUME NEW t \in Tabs, CreateContextCommits(t) PROVE SupportInv'
  <2> DEFINE how(i) == IF context[i].late THEN "EXPIRED" ELSE "EXITED"
             ended == [i \in DOMAIN context |->
                          IF i \in opening[t].ends THEN [context[i] EXCEPT !.status = how(i)] ELSE context[i]]
             new == [client |-> opening[t].client, status |-> "ACTIVE", late |-> FALSE]
             n == Len(context)
  <2>1. ListingRests'
    BY <1>9, ListingKept DEF CreateContextCommits
  <2>2. n \in Nat /\ DOMAIN context = 1 .. n /\ \A i \in 1 .. n : context[i] \in Context
    BY DEF SupportTyped
  <2>3. \A i \in 1 .. n : ended[i] \in Context /\ ended[i].status # "ACTIVE"
    BY <1>9, <2>2 DEF CreateContextCommits, OpeningCurrent, ActiveContexts, Context
  <2>4. context' = Append(ended, new)
    BY <1>9 DEF CreateContextCommits
  <2>5. ended \in Seq(Context) /\ Len(ended) = n
    <3>1. ended \in [1 .. n -> Context]
      BY <2>2, <2>3
    <3> QED
      BY <2>2, <3>1
  <2> HIDE DEF ended, new
  <2>6. DOMAIN context' = 1 .. n + 1 /\ context'[n + 1] = new /\ \A i \in 1 .. n : context'[i] = ended[i]
    BY <2>2, <2>4, <2>5
  <2>7. ActiveContexts' \subseteq {n + 1}
    BY <2>2, <2>3, <2>6 DEF ActiveContexts
  <2>8. \A u \in Tabs : opening'[u] = NotOpening
    BY <1>9 DEF CreateContextCommits, OpeningAlone, SupportTyped
  <2>9. \A c \in Capabilities : capable'[c] # "revoked"
    BY <1>9 DEF CreateContextCommits, OpeningCurrent
  <2>10. opening' \in [Tabs -> [client : Clients \union {"none"}, ends : SUBSET Nat]]
    BY <1>9 DEF CreateContextCommits, SupportTyped, NotOpening
  <2>11. context' \in Seq(Context)
    <3>1. opening[t].client \in Clients
      BY <1>9 DEF CreateContextCommits, OpeningCurrent
    <3>2. new \in Context
      BY <3>1 DEF new, Context
    <3> QED
      BY <2>4, <2>5, <3>2
  <2> QED
    BY <1>9, <2>1, <2>7, <2>8, <2>9, <2>10, <2>11
       DEF CreateContextCommits, SupportTyped, OpeningAlone, OpeningCurrent, ActiveAlone, RevocationEndsContexts
<1>10. ASSUME NEW t \in Tabs, AssistedCreate(t) PROVE SupportInv'
  <2>1. SupportTyped' /\ OpeningAlone' /\ OpeningCurrent' /\ ActiveAlone' /\ RevocationEndsContexts'
    BY <1>10, ContextsKept DEF AssistedCreate
  <2> DEFINE i == request[t].context
             p == request[t].price
             entitled == Holds /\ UsableContext(i) /\ context[i].client \in clientOk
             listing == [client |-> context[i].client, price |-> p, open |-> TRUE,
                         crossed |-> Executable(p), entitled |-> entitled]
  <2>2. CASE assisted' = assisted
    BY <2>1, <2>2, ListingKept
  <2>3. CASE assisted' # assisted
    <3>1. assisted' = <<listing>> /\ StillParty(t) /\ context[i].client \in clientOk /\ MayRest(p)
      BY <1>10, <2>3 DEF AssistedCreate
    <3>2. entitled = TRUE
      BY <3>1 DEF StillParty
    <3>3. Executable(p) = {}
      BY <3>1 DEF MayRest
    <3> HIDE DEF entitled, i, p
    <3>4. assisted'[1] = [client |-> context[i].client, price |-> p, open |-> TRUE, crossed |-> {}, entitled |-> TRUE]
      BY <3>1, <3>2, <3>3
    <3>5. ListingRests'
      BY <3>4 DEF ListingRests
    <3> QED
      BY <2>1, <3>5
  <2> QED BY <2>2, <2>3
<1>11. ASSUME NEW t \in Tabs, AssistedCancel(t) PROVE SupportInv'
  <2>1. SupportTyped' /\ OpeningAlone' /\ OpeningCurrent' /\ ActiveAlone' /\ RevocationEndsContexts'
    BY <1>11, ContextsKept DEF AssistedCancel
  <2>2. CASE assisted' = assisted
    BY <2>1, <2>2, ListingKept
  <2>3. CASE assisted' # assisted
    <3>1. assisted' = <<[assisted[1] EXCEPT !.open = FALSE]>> /\ assisted # <<>>
      BY <1>11, <2>3 DEF AssistedCancel
    <3>2. assisted'[1] = [assisted[1] EXCEPT !.open = FALSE] /\ assisted' # <<>>
      BY <3>1
    <3>3. /\ {"open", "crossed", "entitled"} \subseteq DOMAIN assisted'[1]
          /\ assisted'[1].crossed = {}
      BY <3>1, <3>2 DEF ListingRests
    <3>4. assisted'[1].entitled = TRUE
      BY <3>1, <3>2 DEF ListingRests
    <3>5. ListingRests'
      BY <3>3, <3>4 DEF ListingRests
    <3> QED
      BY <2>1, <3>5
  <2> QED BY <2>2, <2>3
<1>12. ASSUME NEW q \in BidPrices, BidMoves(q) PROVE SupportInv'
  BY <1>12, ContextsKept, ListingKept DEF BidMoves
<1>13. CASE UNCHANGED supportVars
  BY <1>13, ContextsKept, ListingKept DEF supportVars
<1> QED
  BY <1>1, <1>2, <1>3, <1>4, <1>5, <1>6, <1>7, <1>8, <1>9, <1>10, <1>11, <1>12, <1>13 DEF SupportNext

\* The administrator acts for one client at a time and for none while a capability is revoked,
\* and publishes only what rests and what the context entitles to at the commit, with any
\* number of tabs, clients and contexts (create_context, resolve_request_party,
\* lock_request_party_context, assess_locked_order).
THEOREM AssistanceAlwaysBounded == SupportSpec => []AssistanceBounded
<1>1. SupportInv => AssistanceBounded
  <2> SUFFICES ASSUME SupportInv PROVE AssistanceBounded
    OBVIOUS
  <2>1. OneActiveContext
    BY OneOfAll DEF SupportInv, ActiveAlone, OneActiveContext
  <2>2. PublishedByEntitled /\ AssistedRests
    <3>1. CASE assisted = <<>>
      BY <3>1 DEF PublishedByEntitled, AssistedRests
    <3>2. CASE assisted # <<>>
      <4>2. assisted[1].entitled = TRUE /\ assisted[1].crossed = {}
        BY <3>2 DEF SupportInv, ListingRests
      <4> QED
        BY <4>2 DEF PublishedByEntitled, AssistedRests
    <3> QED BY <3>1, <3>2
  <2> QED
    BY <2>1, <2>2 DEF SupportInv, AssistanceBounded
<1> QED BY <1>1, SupportInvInit, SupportStep, PTL DEF SupportSpec

-----------------------------------------------------------------------------
(* The public projection and what a client does with it *)

ViewRow == [side : Sides \union {"none"}, window : {"none", "SPOT", "MONTH"},
            prov : {"none", "REAL", "DEMO", "UNKNOWN"}, price : Nat, left : Nat,
            live : BOOLEAN, due : BOOLEAN, owner : BOOLEAN]

\* What a public read returns of a row, and what a client sends back.
Quote == [id : ViewRows, price : Nat, left : Nat]

\* An order has a side, a window and a price of its market, and a live one something left.
RowSound(r) ==
    /\ r \in ViewRow
    /\ r.live => r.left > 0
    /\ r # NoRow => r.side \in Sides /\ r.price \in ViewPrices /\ r.window \in {"SPOT", "MONTH"}

ViewTyped ==
    /\ rows \in [ViewRows -> ViewRow]
    /\ \A i \in ViewRows : RowSound(rows[i])
    /\ screen \subseteq Quote
    /\ hit = NoHit \/ hit \in Quote

ViewInv == ViewTyped /\ ScreenTrueOrTold

\* What the client shows of rows that have not passed their expiry.
Current == {s \in screen : ~ rows[s.id].due}

LEMMA ViewInvInit == ViewInit => ViewInv
<1> SUFFICES ASSUME ViewInit PROVE ViewInv
  OBVIOUS
<1>1. NoRow \in ViewRow /\ NoRow.live = FALSE
  BY DEF NoRow, ViewRow
<1>2. ViewTyped
  BY <1>1 DEF ViewInit, ViewTyped, RowSound
<1>3. Projection = {}
  BY <1>1 DEF ViewInit, Projection, PublicIds, Public
<1>4. ScreenTrueOrTold
  BY <1>3 DEF ViewInit, ScreenTrueOrTold
<1> QED BY <1>2, <1>4 DEF ViewInv

\* A row replaced by a sound one leaves the rows typed.
LEMMA RowReplaced ==
    ASSUME ViewTyped, NEW i \in ViewRows, NEW r, RowSound(r), rows' = [rows EXCEPT ![i] = r],
           UNCHANGED <<screen, hit>>
    PROVE  ViewTyped'
  BY DEF ViewTyped, RowSound

\* A change between rows that no public read returns is seen by nobody.
LEMMA UnseenChange ==
    ASSUME ViewTyped, NEW i \in ViewRows, NEW r, rows' = [rows EXCEPT ![i] = r],
           ~ Public(rows[i]), ~ Public(r), r.due = rows[i].due, UNCHANGED screen
    PROVE  Projection' = Projection /\ Current' = Current
<1>1. \A j \in ViewRows : j # i => rows'[j] = rows[j]
  BY DEF ViewTyped
<1>2. rows'[i] = r
  BY DEF ViewTyped
<1>3. PublicIds' = PublicIds /\ i \notin PublicIds
  BY <1>1, <1>2 DEF PublicIds, Public
<1>4. \A j \in PublicIds : rows'[j] = rows[j]
  BY <1>1, <1>3 DEF PublicIds
<1>5. Projection' = Projection
  BY <1>3, <1>4 DEF Projection
<1>6. \A s \in screen : s.id \in ViewRows
  BY DEF ViewTyped, Quote
<1>7. \A s \in screen : rows'[s.id].due = rows[s.id].due
  BY <1>1, <1>2, <1>6
<1> QED
  BY <1>5, <1>7 DEF Current

\* A handler that tells when the row was public or is.
LEMMA ChangeTold ==
    ASSUME ViewInv, NEW i \in ViewRows, NEW r, RowSound(r), r.due = rows[i].due, Change(i, r)
    PROVE  ViewInv'
<1>1. ViewTyped'
  BY RowReplaced DEF ViewInv, Change
<1>2. CASE Public(rows[i]) \/ Public(r)
  BY <1>1, <1>2 DEF ViewInv, Change, Marks, ScreenTrueOrTold
<1>3. CASE ~ Public(rows[i]) /\ ~ Public(r)
  <2>1. Projection' = Projection /\ Current' = Current
    BY <1>3, UnseenChange DEF ViewInv, Change
  <2> QED
    BY <1>1, <2>1 DEF ViewInv, Change, ScreenTrueOrTold, Current
<1> QED BY <1>2, <1>3

\* A change without the marker of a row that was not public, or is not afterwards.
LEMMA ChangeMissed ==
    ASSUME ViewInv, NEW i \in ViewRows, NEW r, RowSound(r), r.due = rows[i].due, Unmarked(i, r),
           ~ Public(rows[i]) \/ ~ Public(r)
    PROVE  ViewInv'
<1>1. ViewTyped'
  BY RowReplaced DEF ViewInv, Unmarked
<1>2. Public(r) \in BOOLEAN /\ Public(rows[i]) \in BOOLEAN
  BY DEF ViewInv, ViewTyped, RowSound, ViewRow, Public
<1>3. CASE Public(r) # Public(rows[i])
  BY <1>1, <1>3 DEF ViewInv, Unmarked, ScreenTrueOrTold
<1>4. CASE Public(r) = Public(rows[i])
  <2>1. ~ Public(rows[i]) /\ ~ Public(r)
    BY <1>2, <1>4
  <2>2. Projection' = Projection /\ Current' = Current
    BY <2>1, UnseenChange DEF ViewInv, Unmarked
  <2> QED
    BY <1>1, <1>4, <2>2 DEF ViewInv, Unmarked, ScreenTrueOrTold, Current
<1> QED BY <1>3, <1>4

\* The row is sound when a handler has changed its remainder, or its price too.
LEMMA RefilledSound ==
    ASSUME NEW r \in ViewRow, r.price \in ViewPrices, r.side \in Sides, r.window \in {"SPOT", "MONTH"},
           NEW n \in Nat, NEW live \in BOOLEAN, live => n > 0
    PROVE  /\ RowSound([r EXCEPT !.left = n, !.live = live])
           /\ [r EXCEPT !.left = n, !.live = live].due = r.due
<1> DEFINE e == [r EXCEPT !.left = n, !.live = live]
<1>1. e \in ViewRow
  BY DEF ViewRow
<1>2. e.live = live
  BY DEF ViewRow
<1>3. e.left = n /\ e.price = r.price /\ e.side = r.side /\ e.window = r.window
  BY DEF ViewRow
<1>4. e.due = r.due
  BY DEF ViewRow
<1> HIDE DEF e
<1>5. RowSound(e) /\ e.due = r.due
  BY <1>1, <1>2, <1>3, <1>4 DEF RowSound
<1> QED BY <1>5 DEF e

LEMMA RepricedSound ==
    ASSUME NEW r \in ViewRow, r.side \in Sides, r.window \in {"SPOT", "MONTH"}, NEW p \in ViewPrices,
           NEW n \in Nat, NEW live \in BOOLEAN, live => n > 0
    PROVE  /\ RowSound([r EXCEPT !.price = p, !.left = n, !.live = live])
           /\ [r EXCEPT !.price = p, !.left = n, !.live = live].due = r.due
<1> DEFINE e == [r EXCEPT !.price = p, !.left = n, !.live = live]
<1>1. e \in ViewRow
  BY ViewAssumption DEF ViewRow
<1>2. e.live = live
  BY DEF ViewRow
<1>3. e.left = n /\ e.price = p /\ e.side = r.side /\ e.window = r.window
  BY DEF ViewRow
<1>4. e.due = r.due
  BY DEF ViewRow
<1> HIDE DEF e
<1>5. RowSound(e) /\ e.due = r.due
  BY <1>1, <1>2, <1>3, <1>4 DEF RowSound
<1> QED BY <1>5 DEF e

LEMMA ViewStep == ViewInv /\ [BookNext \/ ScreenNext]_viewVars => ViewInv'
<1> SUFFICES ASSUME ViewInv, [BookNext \/ ScreenNext]_viewVars
             PROVE  ViewInv'
  OBVIOUS
<1>0. \A i \in ViewRows : RowSound(rows[i]) /\ rows[i] \in ViewRow
  BY DEF ViewInv, ViewTyped
<1>1. ASSUME NEW i \in ViewRows, CreateAny(i) PROVE ViewInv'
  <2>1. PICK s \in Sides, k \in DOMAIN ViewWindows, c \in ViewClasses \cup {"UNKNOWN"}, p \in ViewPrices, n \in 1 .. 2 :
          CreateRow(i, s, ViewWindows[k], c, p, n)
    BY <1>1 DEF CreateAny
  <2> DEFINE r == [side |-> s, window |-> ViewWindows[k], prov |-> c, price |-> p, left |-> n,
                   live |-> TRUE, due |-> FALSE, owner |-> TRUE]
  <2>2. ViewWindows[k] \in {"SPOT", "MONTH"}
    BY DEF ViewWindows
  <2>3. RowSound(r) /\ r.due = FALSE
    BY <2>2, ViewAssumption DEF RowSound, ViewRow, ViewClasses
  <2>4. rows[i].due = FALSE /\ Change(i, r)
    BY <2>1 DEF CreateRow, NoRow
  <2> QED
    BY <2>3, <2>4, ChangeTold
<1>2. ASSUME NEW i \in ViewRows, NEW p \in ViewPrices, NEW n \in 0 .. 2, AmendRow(i, p, n) PROVE ViewInv'
  <2> DEFINE r == [rows[i] EXCEPT !.price = p, !.left = n, !.live = n > 0]
  <2>0. (n > 0) \in BOOLEAN /\ n \in Nat /\ rows[i].side \in Sides /\ rows[i].window \in {"SPOT", "MONTH"}
    BY <1>0, <1>2 DEF AmendRow, Public, RowSound, NoRow
  <2>1. RowSound(r) /\ r.due = rows[i].due
    <3>1. \A live \in BOOLEAN : (live => n > 0) =>
              /\ RowSound([rows[i] EXCEPT !.price = p, !.left = n, !.live = live])
              /\ [rows[i] EXCEPT !.price = p, !.left = n, !.live = live].due = rows[i].due
      BY <1>0, <2>0, RepricedSound
    <3> QED
      BY <2>0, <3>1, ZenonT(20)
  <2> QED
    BY <1>2, <2>1, ChangeTold DEF AmendRow
<1>3. ASSUME NEW i \in ViewRows, CancelRow(i) PROVE ViewInv'
  <2>0. rows[i].price \in ViewPrices /\ rows[i].side \in Sides /\ rows[i].window \in {"SPOT", "MONTH"}
    BY <1>0, <1>3 DEF CancelRow, RowSound, NoRow
  <2>1. RowSound([rows[i] EXCEPT !.live = FALSE]) /\ [rows[i] EXCEPT !.live = FALSE].due = rows[i].due
    BY <1>0, <2>0 DEF RowSound, ViewRow
  <2> QED
    BY <1>3, <2>1, ChangeTold DEF CancelRow
<1>4. ASSUME NEW i \in ViewRows, DeclineRow(i) PROVE ViewInv'
  <2> DEFINE r == [rows[i] EXCEPT !.left = 1, !.live = TRUE]
  <2>1. rows[i].price \in ViewPrices /\ rows[i].side \in Sides /\ rows[i].window \in {"SPOT", "MONTH"}
    BY <1>0, <1>4 DEF DeclineRow, RowSound
  <2>0. 1 \in Nat /\ 2 \in Nat /\ 1 > 0 /\ 2 > 0
    OBVIOUS
  <2>2. RowSound(r) /\ r.due = rows[i].due
    BY <1>0, <2>0, <2>1, RefilledSound, ZenonT(20)
  <2> QED
    BY <1>4, <2>2, ChangeTold DEF DeclineRow
<1>5. ASSUME NEW i \in ViewRows, OwnerDecided(i) PROVE ViewInv'
  <2> DEFINE r == [rows[i] EXCEPT !.owner = ~ rows[i].owner]
  <2>0. rows[i].price \in ViewPrices /\ rows[i].side \in Sides /\ rows[i].window \in {"SPOT", "MONTH"}
    BY <1>0, <1>5 DEF OwnerDecided, RowSound, NoRow
  <2>1. RowSound(r) /\ r.due = rows[i].due
    BY <1>0, <2>0 DEF RowSound, ViewRow
  <2> QED
    BY <1>5, <2>1, ChangeTold DEF OwnerDecided
<1>6. ASSUME NEW i \in ViewRows, RowDue(i) PROVE ViewInv'
  <2> DEFINE r == [rows[i] EXCEPT !.due = TRUE]
  <2>0. rows[i].price \in ViewPrices /\ rows[i].side \in Sides /\ rows[i].window \in {"SPOT", "MONTH"}
    BY <1>0, <1>6 DEF RowDue, RowSound, NoRow
  <2>1. RowSound(r) /\ r.due = TRUE
    BY <1>0, <2>0 DEF RowSound, ViewRow
  <2>2. rows' = [rows EXCEPT ![i] = r]
    BY <1>6 DEF RowDue
  <2>3. ViewTyped'
    BY <1>6, <2>1, <2>2, RowReplaced DEF RowDue, ViewInv
  <2> HIDE DEF r
  <2>4. (\A j \in ViewRows : j # i => rows'[j] = rows[j]) /\ rows'[i] = r
    BY <2>2 DEF ViewInv, ViewTyped
  <2>5. PublicIds' = PublicIds \ {i}
    BY <2>1, <2>4 DEF PublicIds, Public
  <2>6. Projection' = {q \in Projection : q.id # i}
    <3>1. \A j \in PublicIds' : rows'[j] = rows[j] /\ j \in PublicIds /\ j # i
      BY <2>4, <2>5 DEF PublicIds
    <3> QED
      BY <2>5, <3>1 DEF Projection
  <2>7. Current' = {q \in Current : q.id # i}
    <3>1. \A s \in screen : s.id \in ViewRows
      BY DEF ViewInv, ViewTyped, Quote
    <3> QED
      BY <1>6, <2>1, <2>4, <3>1 DEF Current, RowDue
  <2> QED
    BY <1>6, <2>3, <2>6, <2>7 DEF ViewInv, RowDue, ScreenTrueOrTold, Current
<1>7. ASSUME NEW i \in ViewRows, SweepRow(i) PROVE ViewInv'
  <2> DEFINE r == [rows[i] EXCEPT !.live = FALSE]
  <2>0. rows[i].price \in ViewPrices /\ rows[i].side \in Sides /\ rows[i].window \in {"SPOT", "MONTH"}
    BY <1>0, <1>7 DEF SweepRow, RowSound, NoRow
  <2>1. RowSound(r) /\ r.due = rows[i].due /\ r.live = FALSE
    BY <1>0, <2>0 DEF RowSound, ViewRow
  <2>2. rows' = [rows EXCEPT ![i] = r]
    BY <1>7 DEF SweepRow
  <2>3. ViewTyped'
    BY <1>7, <2>1, <2>2, RowReplaced DEF SweepRow, ViewInv
  <2>4. ~ Public(rows[i]) /\ ~ Public(r)
    BY <1>7, <2>1 DEF SweepRow, Public
  <2>5. Projection' = Projection /\ Current' = Current
    BY <1>7, <2>1, <2>2, <2>4, UnseenChange DEF SweepRow, ViewInv
  <2> QED
    BY <1>7, <2>3, <2>5 DEF ViewInv, SweepRow, ScreenTrueOrTold, Current
<1>8. ASSUME NEW i \in ViewRows, AdminRejects(i) PROVE ViewInv'
  <2> DEFINE r == [rows[i] EXCEPT !.owner = FALSE]
  <2>0. rows[i].price \in ViewPrices /\ rows[i].side \in Sides /\ rows[i].window \in {"SPOT", "MONTH"}
    BY <1>0, <1>8 DEF AdminRejects, RowSound, NoRow
  <2>1. RowSound(r) /\ r.due = rows[i].due /\ ~ Public(r)
    BY <1>0, <2>0 DEF RowSound, ViewRow, Public
  <2> QED
    BY <1>8, <2>1, ChangeMissed DEF AdminRejects
<1>9. ASSUME NEW i \in ViewRows, CounterpartyRejected(i) PROVE ViewInv'
  <2> DEFINE r == [rows[i] EXCEPT !.left = 2, !.live = TRUE]
  <2>1. rows[i].price \in ViewPrices /\ rows[i].side \in Sides /\ rows[i].window \in {"SPOT", "MONTH"}
    BY <1>0, <1>9 DEF CounterpartyRejected, RowSound
  <2>0. 1 \in Nat /\ 2 \in Nat /\ 1 > 0 /\ 2 > 0
    OBVIOUS
  <2>2. RowSound(r) /\ r.due = rows[i].due
    BY <1>0, <2>0, <2>1, RefilledSound, ZenonT(20)
  <2>3. ~ Public(rows[i])
    BY <1>0, <1>9 DEF CounterpartyRejected, Public, RowSound
  <2> QED
    BY <1>9, <2>2, <2>3, ChangeMissed DEF CounterpartyRejected
<1>10. CASE ReadAgain
  <2>1. Projection \subseteq Quote
    BY <1>0 DEF Projection, PublicIds, Quote, ViewRow
  <2>2. Projection' = Projection /\ PublicIds' = PublicIds
    BY <1>10 DEF ReadAgain, Projection, PublicIds
  <2>3. \A q \in Projection : ~ rows[q.id].due
    BY DEF Projection, PublicIds, Public
  <2> QED
    BY <1>10, <2>1, <2>2, <2>3 DEF ReadAgain, ViewInv, ViewTyped, ScreenTrueOrTold
<1>11. ASSUME NEW s \in screen, SendHit(s) PROVE ViewInv'
  <2>1. Projection' = Projection
    BY <1>11 DEF SendHit, Projection, PublicIds
  <2> QED
    BY <1>11, <2>1 DEF SendHit, ViewInv, ViewTyped, ScreenTrueOrTold
<1>12. CASE HitArrives
  <2> DEFINE r == rows[hit.id]
  <2>1. hit \in Quote /\ hit.id \in ViewRows
    BY <1>12 DEF HitArrives, ViewInv, ViewTyped, Quote
  <2>2. CASE UNCHANGED <<rows, told>>
    <3>1. Projection' = Projection
      BY <2>2 DEF Projection, PublicIds
    <3> QED
      BY <1>12, <2>2, <3>1 DEF HitArrives, ViewInv, ViewTyped, ScreenTrueOrTold
  <2>3. CASE ~ UNCHANGED <<rows, told>>
    <3>1. PICK n \in 1 .. r.left : /\ rows' = [rows EXCEPT ![hit.id].left = @ - n, ![hit.id].live = n < r.left]
                                   /\ Public(r) /\ told' = (told \/ Marks(Public(r), Public(rows'[hit.id])))
      BY <1>12, <2>3 DEF HitArrives
    <3>2. told' = TRUE
      BY <3>1 DEF Marks
    <3>3. RowSound(r) /\ r.left \in Nat /\ r.price \in ViewPrices /\ r.side \in Sides /\ r.window \in {"SPOT", "MONTH"}
      BY <1>0, <2>1, <3>1 DEF RowSound, ViewRow, Public, NoRow
    <3> DEFINE h == hit.id
               q == [r EXCEPT !.left = r.left - n, !.live = n < r.left]
    <3>4. RowSound(q)
      <4>1. r \in ViewRow /\ r.left - n \in Nat /\ (n < r.left) \in BOOLEAN /\ (n < r.left => r.left - n > 0)
        BY <3>3 DEF RowSound
      <4> QED
        BY <3>3, <4>1, RefilledSound
    <3>5. rows' = [rows EXCEPT ![h] = q]
      BY <2>1, <3>1 DEF ViewInv, ViewTyped
    <3> HIDE DEF q, h
    <3>6. h \in ViewRows /\ screen' = screen /\ hit' = NoHit
      BY <1>12, <2>1 DEF h, HitArrives
    <3>7. ViewTyped'
      BY <3>4, <3>5, <3>6 DEF ViewInv, ViewTyped, RowSound
    <3> QED
      BY <3>2, <3>7 DEF ViewInv, ScreenTrueOrTold
  <2> QED BY <2>2, <2>3
<1>13. CASE UNCHANGED viewVars
  <2>1. Projection' = Projection
    BY <1>13 DEF viewVars, Projection, PublicIds
  <2> QED
    BY <1>13, <2>1 DEF viewVars, ViewInv, ViewTyped, ScreenTrueOrTold
<1>14. CASE ScreenNext
  BY <1>1, <1>2, <1>3, <1>4, <1>5, <1>6, <1>7, <1>8, <1>9, <1>10, <1>11, <1>12, <1>14, ViewAssumption DEF ScreenNext
<1> QED
  BY <1>1, <1>13, <1>14 DEF BookNext

\* A public client whose screen differs from the book in rows that have not passed their expiry
\* has been told, with any number of rows, prices and changes, unless the change is one of the
\* two that enqueue no marker (public_market_invalidation of every handler).
THEOREM ScreensAlwaysTold == ViewSpec => []ScreenTrueOrTold
<1>1. ViewInv => ScreenTrueOrTold
  BY DEF ViewInv
<1> QED BY <1>1, ViewInvInit, ViewStep, PTL DEF ViewSpec

\* Only the arrival of a hit ends it and changes the book in one step.
LEMMA HitStep ==
    ASSUME ViewInv, [BookNext \/ ScreenNext]_viewVars, hit # NoHit, hit' = NoHit, rows' # rows
    PROVE  [id |-> hit.id, price |-> rows'[hit.id].price, left |-> rows[hit.id].left] = hit
<1>1. HitArrives
  <2>1. \A i : CreateAny(i) => hit' = hit
    BY DEF CreateAny, CreateRow, Change
  <2>2. \A i : CancelRow(i) \/ DeclineRow(i) \/ OwnerDecided(i) \/ RowDue(i) \/ SweepRow(i) => hit' = hit
    BY DEF CancelRow, DeclineRow, OwnerDecided, RowDue, SweepRow, Change
  <2>3. \A i : AdminRejects(i) \/ CounterpartyRejected(i) => hit' = hit
    BY DEF AdminRejects, CounterpartyRejected, Unmarked
  <2>4. \A i, p, n : AmendRow(i, p, n) => hit' = hit
    BY DEF AmendRow, Change
  <2>5. (ReadAgain \/ \E s \in screen : SendHit(s)) => rows' = rows
    BY DEF ReadAgain, SendHit
  <2> QED
    BY <2>1, <2>2, <2>3, <2>4, <2>5 DEF BookNext, ScreenNext, viewVars
<1>2. hit \in Quote /\ hit.id \in ViewRows
  BY DEF ViewInv, ViewTyped, Quote
<1> DEFINE h == hit.id
           r == rows[h]
<1>3. PICK n \in 1 .. r.left : /\ rows' = [rows EXCEPT ![h].left = @ - n, ![h].live = n < r.left]
                               /\ TermsMatch(hit, r)
  BY <1>1 DEF HitArrives
<1>4. r \in ViewRow
  BY <1>2 DEF ViewInv, ViewTyped
<1>5. rows'[h] = [r EXCEPT !.left = r.left - n, !.live = n < r.left]
  BY <1>2, <1>3 DEF ViewInv, ViewTyped
<1>6. rows'[h].price = r.price
  BY <1>4, <1>5 DEF ViewRow
<1>7. hit.price = r.price /\ hit.left = r.left
  BY <1>3 DEF TermsMatch
<1> HIDE DEF r
<1>8. hit = [id |-> hit.id, price |-> hit.price, left |-> hit.left]
  BY <1>2 DEF Quote
<1> QED
  BY <1>6, <1>7, <1>8 DEF r

\* A direct hit executes the terms its sender reviewed (order_terms_digest compared under the
\* locks of create_trade), with any number of rows and whatever happened to them on the way.
THEOREM HitsAlwaysAsReviewed == ViewSpec => HitAsReviewed
<1>1. ViewInv /\ [BookNext \/ ScreenNext]_viewVars =>
        (hit # NoHit /\ hit' = NoHit /\ rows' # rows =>
           [id |-> hit.id, price |-> rows'[hit.id].price, left |-> rows[hit.id].left] = hit)
  BY HitStep
<1> QED BY <1>1, ViewInvInit, ViewStep, PTL DEF ViewSpec, HitAsReviewed

\* The best price of a side among more rows is at least as good.
LEMMA BestExtremes ==
    ASSUME NEW P, P \subseteq ViewPrices, P # {}
    PROVE  /\ Max(P) \in P /\ \A p \in P : p <= Max(P)
           /\ Min(P) \in P /\ \A p \in P : Min(P) <= p
<1>1. P \subseteq Nat
  BY ViewAssumption
<1>2. PICK top \in Nat : \A p \in P : p <= top
  BY ViewAssumption
<1>3. PICK x \in P : \A y \in P : y <= x
  BY <1>1, <1>2, GreatestNat
<1>4. PICK z \in P : \A y \in P : z <= y
  BY <1>1, LeastNat
<1>5. \E a \in P : \A b \in P : a >= b
  BY <1>1, <1>3
<1>6. Max(P) \in P /\ \A b \in P : Max(P) >= b
  BY <1>5 DEF Max
<1>7. Min(P) \in P /\ \A b \in P : Min(P) =< b
  BY <1>4 DEF Min
<1> QED
  BY <1>1, <1>6, <1>7

LEMMA MoreRowsCross ==
    ASSUME ViewInv, NEW S, NEW T, S \subseteq T, T \subseteq PublicIds, NEW side \in Sides, NEW price \in Nat,
           IsCrossed(side, price, BestPrice(Opposing(side), S))
    PROVE  IsCrossed(side, price, BestPrice(Opposing(side), T))
<1> DEFINE P == {rows[i].price : i \in S}
           Q == {rows[i].price : i \in T}
<1>1. \A i \in T : rows[i].price \in ViewPrices
  BY DEF ViewInv, ViewTyped, RowSound, PublicIds, Public, NoRow
<1>2. P \subseteq Q /\ Q \subseteq ViewPrices /\ Q \subseteq Nat \ {0}
  BY <1>1, ViewAssumption
<1>3. P # {}
  BY DEF IsCrossed, BestPrice, NoQuote
<1> HIDE DEF P, Q
<1>4. /\ Max(P) \in P /\ Min(P) \in P /\ Max(Q) \in Q /\ Min(Q) \in Q
      /\ \A p \in Q : p <= Max(Q) /\ Min(Q) <= p
  BY <1>2, <1>3, BestExtremes
<1>5. Max(P) <= Max(Q) /\ Min(Q) <= Min(P) /\ {Max(P), Min(P), Max(Q), Min(Q)} \subseteq Nat \ {0}
  BY <1>2, <1>4
<1>6. CASE side = "BID"
  <2>1. BestPrice("ASK", S) = Min(P) /\ BestPrice("ASK", T) = Min(Q)
    BY <1>2, <1>3 DEF BestPrice, P, Q
  <2> QED
    BY <1>5, <1>6, <2>1 DEF IsCrossed, Opposing, NoQuote
<1>7. CASE side = "ASK"
  <2>1. BestPrice("BID", S) = Max(P) /\ BestPrice("BID", T) = Max(Q)
    BY <1>2, <1>3 DEF BestPrice, P, Q
  <2> QED
    BY <1>5, <1>7, <2>1 DEF IsCrossed, Opposing, NoQuote
<1> QED BY <1>6, <1>7 DEF Sides

\* A crossing of the snapshot is a crossing of the lists, with any depth and any book
\* (get_orderbook_snapshot, _load_best_opposing_prices, compute_is_crossed).
THEOREM SnapshotCrossingsAlwaysReal == ViewSpec => []SnapshotCrossingsReal
<1>1. ViewInv => SnapshotCrossingsReal
  <2> SUFFICES ASSUME ViewInv, NEW k \in DOMAIN ViewWindows, NEW i \in SnapshotRows(ViewWindows[k]),
                      SnapshotCrossed(ViewWindows[k], i)
               PROVE  ListCrossed(i)
    BY DEF SnapshotCrossingsReal
  <2> DEFINE w == ViewWindows[k]
             side == rows[i].side
             S == {j \in SnapshotRows(w) : rows[j].side = Opposing(side) /\ rows[j].prov = rows[i].prov}
             T == {j \in PublicIds : rows[j].side = Opposing(side) /\ SameMarket(i, j)}
  <2>1. i \in PublicIds /\ rows[i].window = w /\ \A j \in SnapshotRows(w) : j \in PublicIds /\ rows[j].window = w
    BY DEF SnapshotRows
  <2>2. S \subseteq T /\ T \subseteq PublicIds
    BY <2>1 DEF SameMarket
  <2>3. side \in Sides /\ rows[i].price \in Nat
    BY <2>1 DEF ViewInv, ViewTyped, ViewRow, RowSound, PublicIds, Public, NoRow
  <2>4. IsCrossed(side, rows[i].price, BestPrice(Opposing(side), S))
    BY DEF SnapshotCrossed
  <2>5. IsCrossed(side, rows[i].price, BestPrice(Opposing(side), T))
    BY <2>2, <2>3, <2>4, MoreRowsCross
  <2> QED
    BY <2>5 DEF ListCrossed, ListOpposing
<1> QED BY <1>1, ViewInvInit, ViewStep, PTL DEF ViewSpec

-----------------------------------------------------------------------------
(* The compact map, put together from the groups of the aggregate *)

LEMMA PublicRows ==
    ASSUME ViewInv
    PROVE  /\ PublicIds \subseteq ViewRows /\ IsFiniteSet(PublicIds)
           /\ \A i \in PublicIds : /\ rows[i].price \in ViewPrices /\ rows[i].left \in Nat
                                   /\ rows[i].side \in Sides /\ rows[i].window \in {"SPOT", "MONTH"}
                                   /\ rows[i].prov \in ViewClasses
<1>1. PublicIds \subseteq ViewRows /\ IsFiniteSet(PublicIds)
  BY ViewAssumption, FS_Subset DEF PublicIds
<1>2. \A i \in PublicIds : rows[i] \in ViewRow /\ RowSound(rows[i]) /\ rows[i] # NoRow /\ rows[i].prov \in ViewClasses
  BY DEF ViewInv, ViewTyped, PublicIds, Public, NoRow
<1>3. \A i \in PublicIds : rows[i].left \in Nat
  BY <1>2 DEF ViewRow
<1> QED BY <1>1, <1>2, <1>3 DEF RowSound

\* A set of rows and the units left of them can be counted.
LEMMA RowsCounted ==
    ASSUME ViewInv, NEW S, S \subseteq PublicIds
    PROVE  /\ IsFiniteSet(S) /\ IsFiniteSet(Units(S))
           /\ Cardinality(S) \in Nat /\ Left(S) \in Nat
<1>1. IsFiniteSet(S)
  BY PublicRows, FS_Subset
<1> DEFINE U == {{i} \X (1 .. rows[i].left) : i \in S}
           f == [i \in S |-> {i} \X (1 .. rows[i].left)]
<1>2. \A i \in S : IsFiniteSet(f[i])
  <2> SUFFICES ASSUME NEW i \in S PROVE IsFiniteSet({i} \X (1 .. rows[i].left))
    OBVIOUS
  <2>1. rows[i].left \in Int /\ 1 \in Int
    BY PublicRows
  <2>2. IsFiniteSet(1 .. rows[i].left) /\ IsFiniteSet({i})
    BY <2>1, FS_Interval, FS_Singleton
  <2> QED BY <2>2, FS_Product
<1>3. f \in Surjection(S, U)
  BY DEF Surjection
<1>4. IsFiniteSet(U)
  BY <1>1, <1>3, FS_Surjection
<1>5. \A T \in U : IsFiniteSet(T)
  BY <1>2
<1> HIDE DEF U, f
<1>6. IsFiniteSet(UNION U)
  BY <1>4, <1>5, FS_UNION
<1> QED
  BY <1>1, <1>6, FS_CardinalityType DEF U, Units, Left

\* Quantities and counts of separate rows add up.
LEMMA LeftAdds ==
    ASSUME ViewInv, NEW S, NEW T, S \subseteq PublicIds, T \subseteq PublicIds, S \cap T = {}
    PROVE  /\ Left(S \cup T) = Left(S) + Left(T)
           /\ Cardinality(S \cup T) = Cardinality(S) + Cardinality(T)
<1>1. IsFiniteSet(S) /\ IsFiniteSet(T) /\ IsFiniteSet(Units(S)) /\ IsFiniteSet(Units(T))
  BY RowsCounted
<1>0. \A A, u : u \in Units(A) <=> \E i \in A : u \in {i} \X (1 .. rows[i].left)
  BY ZenonT(20) DEF Units
<1>2. Units(S \cup T) = Units(S) \cup Units(T)
  <2>1. ASSUME NEW u PROVE u \in Units(S \cup T) <=> u \in Units(S) \/ u \in Units(T)
    <3>1. u \in Units(S \cup T) <=> \E i \in S \cup T : u \in {i} \X (1 .. rows[i].left)
      BY <1>0, ZenonT(20)
    <3>2. u \in Units(S) <=> \E i \in S : u \in {i} \X (1 .. rows[i].left)
      BY <1>0, ZenonT(20)
    <3>3. u \in Units(T) <=> \E i \in T : u \in {i} \X (1 .. rows[i].left)
      BY <1>0, ZenonT(20)
    <3> QED BY <3>1, <3>2, <3>3
  <2> QED BY <2>1
<1>3. Units(S) \cap Units(T) = {}
  <2>1. \A i, u : u \in {i} \X (1 .. rows[i].left) => u[1] = i
    OBVIOUS
  <2>2. ASSUME NEW u, u \in Units(S), u \in Units(T) PROVE FALSE
    <3>1. PICK i \in S : u \in {i} \X (1 .. rows[i].left)
      BY <1>0, <2>2, ZenonT(20)
    <3>2. PICK j \in T : u \in {j} \X (1 .. rows[j].left)
      BY <1>0, <2>2, ZenonT(20)
    <3> QED BY <2>1, <3>1, <3>2
  <2> QED BY <2>2
<1>4. /\ Cardinality(S) \in Nat /\ Cardinality(T) \in Nat /\ Cardinality(Units(S)) \in Nat
      /\ Cardinality(Units(T)) \in Nat /\ Cardinality({}) = 0
  BY <1>1, FS_CardinalityType, FS_EmptySet
<1>5. Cardinality(S \cup T) = Cardinality(S) + Cardinality(T) - Cardinality(S \cap T)
  BY <1>1, FS_Union
<1>6. Cardinality(Units(S) \cup Units(T))
        = Cardinality(Units(S)) + Cardinality(Units(T)) - Cardinality(Units(S) \cap Units(T))
  BY <1>1, FS_Union
<1>7. Cardinality(Units(S) \cap Units(T)) = 0 /\ Cardinality(S \cap T) = 0
  BY <1>3, <1>4
<1> DEFINE a == Cardinality(Units(S))
           b == Cardinality(Units(T))
           d == Cardinality(S)
           e == Cardinality(T)
<1>8. a \in Nat /\ b \in Nat /\ d \in Nat /\ e \in Nat
  BY <1>4
<1>9. Left(S) = a /\ Left(T) = b /\ Left(S \cup T) = a + b - 0
  BY <1>2, <1>6, <1>7 DEF Left
<1>10. Cardinality(S \cup T) = d + e - 0
  BY <1>5, <1>7
<1> HIDE DEF a, b, d, e
<1>11. a + b - 0 = a + b /\ d + e - 0 = d + e
  BY <1>8
<1> QED
  BY <1>9, <1>10, <1>11 DEF d, e

LEMMA NoRowsNoQuote == \A side : BestPrice(side, {}) = NoQuote
  BY DEF BestPrice

\* The quotes of rows and of more rows.
LEMMA BestOfBoth ==
    ASSUME ViewInv, NEW S, NEW T, S \subseteq PublicIds, T \subseteq PublicIds, T # {}
    PROVE  /\ BestPrice("ASK", S \cup T) = Lower(BestPrice("ASK", S), BestPrice("ASK", T))
           /\ BestPrice("BID", S \cup T) = Higher(BestPrice("BID", S), BestPrice("BID", T))
           /\ {BestPrice("ASK", S), BestPrice("BID", S), BestPrice("ASK", T), BestPrice("BID", T)} \subseteq Nat
<1> DEFINE P == {rows[i].price : i \in S}
           Q == {rows[i].price : i \in T}
           R == {rows[i].price : i \in S \cup T}
<1>1. P \subseteq ViewPrices /\ Q \subseteq ViewPrices /\ R = P \cup Q /\ Q # {} /\ R # {}
  BY PublicRows
<1>2. BestPrice("ASK", T) = Min(Q) /\ BestPrice("BID", T) = Max(Q)
  BY <1>1 DEF BestPrice
<1>3. BestPrice("ASK", S \cup T) = Min(R) /\ BestPrice("BID", S \cup T) = Max(R)
  BY <1>1 DEF BestPrice
<1>4. P # {} => BestPrice("ASK", S) = Min(P) /\ BestPrice("BID", S) = Max(P)
  BY DEF BestPrice
<1>5. P = {} => BestPrice("ASK", S) = 0 /\ BestPrice("BID", S) = 0
  BY DEF BestPrice, NoQuote
<1> HIDE DEF P, Q, R
<1>6. ViewPrices \subseteq Nat \ {0}
  BY ViewAssumption
<1>7. Max(Q) \in Q /\ Min(Q) \in Q /\ \A q \in Q : q <= Max(Q) /\ Min(Q) <= q
  BY <1>1, BestExtremes
<1>8. Max(R) \in R /\ Min(R) \in R /\ \A q \in R : q <= Max(R) /\ Min(R) <= q
  BY <1>1, BestExtremes
<1>9. P # {} => Max(P) \in P /\ Min(P) \in P /\ \A q \in P : q <= Max(P) /\ Min(P) <= q
  BY <1>1, BestExtremes
<1>10. CASE P = {}
  <2>1. R = Q
    BY <1>1, <1>10
  <2>2. {Min(Q), Max(Q)} \subseteq Nat
    BY <1>1, <1>6, <1>7
  <2>3. Lower(0, Min(Q)) = Min(Q) /\ Higher(0, Max(Q)) = Max(Q)
    BY DEF Lower, Higher, NoQuote
  <2> QED
    BY <1>2, <1>3, <1>5, <1>10, <2>1, <2>2, <2>3
<1>11. CASE P # {}
  <2>1. /\ {Min(P), Max(P), Min(Q), Max(Q), Min(R), Max(R)} \subseteq Nat
        /\ Min(P) # 0 /\ Max(P) # 0
    BY <1>1, <1>6, <1>7, <1>8, <1>9, <1>11
  <2>2. Min(R) = Lower(Min(P), Min(Q))
    BY <1>1, <1>7, <1>8, <1>9, <1>11, <2>1 DEF Lower, NoQuote
  <2>3. Max(R) = Higher(Max(P), Max(Q))
    BY <1>1, <1>7, <1>8, <1>9, <1>11, <2>1 DEF Higher, NoQuote
  <2> QED
    BY <1>2, <1>3, <1>4, <1>11, <2>1, <2>2, <2>3
<1> QED BY <1>10, <1>11

MapMarket == [low : [Sides -> Nat], high : [Sides -> Nat], total : [Sides -> Nat],
              count : [Sides -> Nat], spot : [Sides -> Nat]]

\* What a market of the map says of one side is what the rows of A say.
Says(m, s, A) ==
    /\ m.count[s] = Cardinality(A) /\ m.total[s] = Left(A)
    /\ m.low[s] = BestPrice("ASK", A) /\ m.high[s] = BestPrice("BID", A)
    /\ m.spot[s] = BestPrice(s, {i \in A : rows[i].window = "SPOT"})

\* A group is counted, has a quantity, and has quotes when it has a row.
LEMMA GroupFigures ==
    ASSUME ViewInv, NEW w, NEW s \in Sides, NEW c
    PROVE  LET g == Group(w, s, c) S == GroupRows(w, s, c) IN
           /\ S \subseteq PublicIds
           /\ g.window = w /\ g.side = s
           /\ g.count \in Nat /\ g.total \in Nat /\ g.min \in Nat /\ g.max \in Nat
           /\ g.count = Cardinality(S) /\ g.total = Left(S)
           /\ g.min = BestPrice("ASK", S) /\ g.max = BestPrice("BID", S)
           /\ g.count = 0 <=> S = {}
<1> DEFINE S == GroupRows(w, s, c)
<1>1. S \subseteq PublicIds
  BY DEF GroupRows
<1>2. IsFiniteSet(S) /\ Cardinality(S) \in Nat /\ Left(S) \in Nat
  BY <1>1, RowsCounted
<1>3. Cardinality(S) = 0 <=> S = {}
  BY <1>2, FS_EmptySet
<1>4. BestPrice("ASK", S) \in Nat /\ BestPrice("BID", S) \in Nat
  <2>1. CASE S = {}
    BY <2>1, NoRowsNoQuote DEF NoQuote
  <2>2. CASE S # {}
    BY <1>1, <2>2, BestOfBoth
  <2> QED BY <2>1, <2>2
<1> HIDE DEF S
<1>5. Group(w, s, c) = [window |-> w, side |-> s, count |-> Cardinality(S),
                        min |-> BestPrice("ASK", S), max |-> BestPrice("BID", S), total |-> Left(S)]
  BY DEF Group, S
<1>6. LET g == Group(w, s, c) IN
           /\ S \subseteq PublicIds
           /\ g.window = w /\ g.side = s
           /\ g.count \in Nat /\ g.total \in Nat /\ g.min \in Nat /\ g.max \in Nat
           /\ g.count = Cardinality(S) /\ g.total = Left(S)
           /\ g.min = BestPrice("ASK", S) /\ g.max = BestPrice("BID", S)
           /\ g.count = 0 <=> S = {}
  BY <1>1, <1>2, <1>3, <1>4, <1>5
<1> QED BY <1>6 DEF S

\* A group of one side is counted on that side and leaves the other as it is.
LEMMA GroupAdded ==
    ASSUME NEW m \in MapMarket, NEW g, g.side \in Sides, g.count \in Nat, g.total \in Nat, g.min \in Nat, g.max \in Nat
    PROVE  LET n == AddGroup(m, g) IN
           /\ n \in MapMarket
           /\ n.low[g.side] = Lower(m.low[g.side], g.min)
           /\ n.high[g.side] = Higher(m.high[g.side], g.max)
           /\ n.total[g.side] = m.total[g.side] + g.total
           /\ n.count[g.side] = m.count[g.side] + g.count
           /\ g.window # "SPOT" => n.spot = m.spot
           /\ g.window = "SPOT" /\ g.side = "BID" => n.spot["BID"] = Higher(m.spot["BID"], g.max)
           /\ g.window = "SPOT" /\ g.side = "ASK" => n.spot["ASK"] = Lower(m.spot["ASK"], g.min)
           /\ \A s \in Sides : s # g.side => /\ n.low[s] = m.low[s] /\ n.high[s] = m.high[s]
                                             /\ n.total[s] = m.total[s] /\ n.count[s] = m.count[s]
                                             /\ n.spot[s] = m.spot[s]
<1> DEFINE low == [m.low EXCEPT ![g.side] = Lower(@, g.min)]
           high == [m.high EXCEPT ![g.side] = Higher(@, g.max)]
           total == [m.total EXCEPT ![g.side] = @ + g.total]
           count == [m.count EXCEPT ![g.side] = @ + g.count]
           best == IF g.side = "BID" THEN Higher(m.spot[g.side], g.max) ELSE Lower(m.spot[g.side], g.min)
           spot == IF g.window # "SPOT" THEN m.spot ELSE [m.spot EXCEPT ![g.side] = best]
           n == AddGroup(m, g)
<1>1. /\ m.low \in [Sides -> Nat] /\ m.high \in [Sides -> Nat] /\ m.total \in [Sides -> Nat]
      /\ m.count \in [Sides -> Nat] /\ m.spot \in [Sides -> Nat]
  BY DEF MapMarket
<1>2. \A a \in Nat, b \in Nat : Lower(a, b) \in Nat /\ Higher(a, b) \in Nat
  BY DEF Lower, Higher
<1>3. low \in [Sides -> Nat] /\ high \in [Sides -> Nat] /\ total \in [Sides -> Nat] /\ count \in [Sides -> Nat]
  <2>1. Lower(m.low[g.side], g.min) \in Nat /\ Higher(m.high[g.side], g.max) \in Nat
    BY <1>1, <1>2
  <2>2. m.total[g.side] + g.total \in Nat /\ m.count[g.side] + g.count \in Nat
    BY <1>1
  <2>3. low \in [Sides -> Nat] /\ high \in [Sides -> Nat]
    BY <1>1, <2>1
  <2>4. total \in [Sides -> Nat] /\ count \in [Sides -> Nat]
    BY <1>1, <2>2
  <2> QED BY <2>3, <2>4
<1>4. best \in Nat
  BY <1>1, <1>2
<1>5. spot \in [Sides -> Nat]
  BY <1>1, <1>4
<1>6. n = [low |-> low, high |-> high, total |-> total, count |-> count, spot |-> spot]
  BY <1>1, ZenonT(20) DEF AddGroup
<1>7. /\ low[g.side] = Lower(m.low[g.side], g.min) /\ high[g.side] = Higher(m.high[g.side], g.max)
      /\ total[g.side] = m.total[g.side] + g.total /\ count[g.side] = m.count[g.side] + g.count
      /\ g.window = "SPOT" => spot[g.side] = best
      /\ g.window # "SPOT" => spot = m.spot
  BY <1>1
<1>8. \A s \in Sides : s # g.side => /\ low[s] = m.low[s] /\ high[s] = m.high[s]
                                     /\ total[s] = m.total[s] /\ count[s] = m.count[s] /\ spot[s] = m.spot[s]
  BY <1>1
<1>9. g.side = "BID" => best = Higher(m.spot["BID"], g.max)
  OBVIOUS
<1>10. g.side = "ASK" => best = Lower(m.spot["ASK"], g.min)
  OBVIOUS
<1> HIDE DEF low, high, total, count, spot, best, n
<1>11. n \in MapMarket
  BY <1>3, <1>5, <1>6 DEF MapMarket
<1>12. n.low = low /\ n.high = high /\ n.total = total /\ n.count = count /\ n.spot = spot
  BY <1>6
<1>13.     /\ n \in MapMarket
           /\ n.low[g.side] = Lower(m.low[g.side], g.min)
           /\ n.high[g.side] = Higher(m.high[g.side], g.max)
           /\ n.total[g.side] = m.total[g.side] + g.total
           /\ n.count[g.side] = m.count[g.side] + g.count
           /\ g.window # "SPOT" => n.spot = m.spot
           /\ g.window = "SPOT" /\ g.side = "BID" => n.spot["BID"] = Higher(m.spot["BID"], g.max)
           /\ g.window = "SPOT" /\ g.side = "ASK" => n.spot["ASK"] = Lower(m.spot["ASK"], g.min)
           /\ \A s \in Sides : s # g.side => /\ n.low[s] = m.low[s] /\ n.high[s] = m.high[s]
                                             /\ n.total[s] = m.total[s] /\ n.count[s] = m.count[s]
                                             /\ n.spot[s] = m.spot[s]
  BY <1>7, <1>8, <1>9, <1>10, <1>11, <1>12
<1> QED BY <1>13 DEF n

\* A group met on a side adds its rows to what the market says of that side.
LEMMA MetSame ==
    ASSUME ViewInv, NEW m \in MapMarket, NEW w \in {"SPOT", "MONTH"}, NEW s \in Sides, NEW c, NEW A,
           A \subseteq PublicIds, A \cap GroupRows(w, s, c) = {}, Says(m, s, A)
    PROVE  /\ Met(m, Group(w, s, c)) \in MapMarket
           /\ Says(Met(m, Group(w, s, c)), s, A \cup GroupRows(w, s, c))
<1> DEFINE g == Group(w, s, c)
           S == GroupRows(w, s, c)
           n == AddGroup(m, g)
           Spot(B) == {i \in B : rows[i].window = "SPOT"}
<1>1. /\ S \subseteq PublicIds /\ g.window = w /\ g.side = s
      /\ g.count \in Nat /\ g.total \in Nat /\ g.min \in Nat /\ g.max \in Nat
      /\ g.count = Cardinality(S) /\ g.total = Left(S)
      /\ g.min = BestPrice("ASK", S) /\ g.max = BestPrice("BID", S)
      /\ g.count = 0 <=> S = {}
  BY GroupFigures
<1>2. w = "SPOT" => Spot(A \cup S) = Spot(A) \cup S
  BY DEF GroupRows
<1>3. w = "MONTH" => Spot(A \cup S) = Spot(A)
  BY DEF GroupRows
<1>4. Spot(A) \subseteq PublicIds
  OBVIOUS
<1>5. A \cap S = {}
  OBVIOUS
<1> HIDE DEF g, S, n
<1>6. CASE g.count = 0
  <2>1. Met(m, g) = m /\ A \cup S = A
    BY <1>1, <1>6 DEF Met
  <2> QED BY <2>1 DEF g, S
<1>7. CASE g.count # 0
  <2>1. Met(m, g) = n /\ S # {}
    BY <1>1, <1>7 DEF Met, n
  <2>2. /\ n \in MapMarket
        /\ n.low[s] = Lower(m.low[s], g.min) /\ n.high[s] = Higher(m.high[s], g.max)
        /\ n.total[s] = m.total[s] + g.total /\ n.count[s] = m.count[s] + g.count
        /\ w # "SPOT" => n.spot = m.spot
        /\ w = "SPOT" /\ s = "BID" => n.spot["BID"] = Higher(m.spot["BID"], g.max)
        /\ w = "SPOT" /\ s = "ASK" => n.spot["ASK"] = Lower(m.spot["ASK"], g.min)
    BY <1>1, GroupAdded DEF n
  <2>3. /\ Left(A \cup S) = Left(A) + Left(S) /\ Cardinality(A \cup S) = Cardinality(A) + Cardinality(S)
    BY <1>1, <1>5, LeftAdds
  <2>4. /\ BestPrice("ASK", A \cup S) = Lower(BestPrice("ASK", A), g.min)
        /\ BestPrice("BID", A \cup S) = Higher(BestPrice("BID", A), g.max)
    BY <1>1, <2>1, BestOfBoth
  <2>5. n.spot[s] = BestPrice(s, Spot(A \cup S))
    <3>0. m.spot[s] = BestPrice(s, Spot(A))
      BY DEF Says
    <3>1. CASE w = "MONTH"
      BY <1>3, <2>2, <3>0, <3>1
    <3>2. CASE w = "SPOT"
      <4>1. /\ BestPrice("ASK", Spot(A) \cup S) = Lower(BestPrice("ASK", Spot(A)), g.min)
            /\ BestPrice("BID", Spot(A) \cup S) = Higher(BestPrice("BID", Spot(A)), g.max)
        BY <1>1, <1>4, <2>1, BestOfBoth
      <4> HIDE DEF Spot
      <4>2. CASE s = "BID"
        BY <1>2, <2>2, <3>0, <3>2, <4>1, <4>2
      <4>3. CASE s = "ASK"
        BY <1>2, <2>2, <3>0, <3>2, <4>1, <4>3
      <4> QED BY <4>2, <4>3 DEF Sides
    <3> QED BY <3>1, <3>2
  <2>6. Says(n, s, A \cup S)
    BY <1>1, <2>2, <2>3, <2>4, <2>5 DEF Says
  <2> QED BY <2>1, <2>2, <2>6 DEF g, S
<1> QED BY <1>6, <1>7

\* A group met on one side says nothing of the other.
LEMMA MetOther ==
    ASSUME ViewInv, NEW m \in MapMarket, NEW w, NEW t \in Sides, NEW c, NEW s \in Sides, s # t, NEW A, Says(m, s, A)
    PROVE  /\ Met(m, Group(w, t, c)) \in MapMarket
           /\ Says(Met(m, Group(w, t, c)), s, A)
<1> DEFINE g == Group(w, t, c)
           n == AddGroup(m, g)
<1>1. /\ g.side = t /\ g.count \in Nat /\ g.total \in Nat /\ g.min \in Nat /\ g.max \in Nat
  BY GroupFigures
<1> HIDE DEF g, n
<1>2. /\ n \in MapMarket
      /\ n.low[s] = m.low[s] /\ n.high[s] = m.high[s]
      /\ n.total[s] = m.total[s] /\ n.count[s] = m.count[s] /\ n.spot[s] = m.spot[s]
  BY <1>1, GroupAdded DEF n
<1>3. Met(m, g) = m \/ Met(m, g) = n
  BY DEF Met, n
<1>4. Says(n, s, A)
  BY <1>2 DEF Says
<1>5. Met(m, g) \in MapMarket /\ Says(Met(m, g), s, A)
  BY <1>2, <1>3, <1>4
<1> QED BY <1>5 DEF g

\* The rows of one side and class.
SideRows(c, s) == {i \in PublicIds : rows[i].prov = c /\ rows[i].side = s}

\* The market of a class says of both sides what its rows say.
LEMMA MarketSays ==
    ASSUME ViewInv, NEW c \in ViewClasses, NEW s \in Sides
    PROVE  Says(CompactMarket(c), s, SideRows(c, s))
<1> DEFINE g == Groups(c)
           m0 == NoMarket
           m1 == Met(m0, g[1])
           m2 == Met(m1, g[2])
           m3 == Met(m2, g[3])
           m4 == Met(m3, g[4])
<1>1. /\ g[1] = Group("MONTH", "ASK", c) /\ g[2] = Group("MONTH", "BID", c)
      /\ g[3] = Group("SPOT", "ASK", c) /\ g[4] = Group("SPOT", "BID", c)
  BY DEF Groups
<1>2. CompactMarket(c) = m4
  BY DEF CompactMarket
<1>3. m0 \in MapMarket
  BY DEF NoMarket, MapMarket, NoQuote
<1>4. Says(m0, s, {})
  <2>1. Units({}) = {}
    BY DEF Units
  <2>2. Left({}) = 0 /\ Cardinality({}) = 0
    BY <2>1, FS_EmptySet DEF Left
  <2>3. {i \in {} : rows[i].window = "SPOT"} = {}
    OBVIOUS
  <2>4. /\ NoMarket.low[s] = NoQuote /\ NoMarket.high[s] = NoQuote /\ NoMarket.spot[s] = NoQuote
        /\ NoMarket.total[s] = 0 /\ NoMarket.count[s] = 0
    BY DEF NoMarket
  <2> QED
    BY <2>2, <2>3, <2>4, NoRowsNoQuote DEF Says
<1> DEFINE M == GroupRows("MONTH", s, c)
           P == GroupRows("SPOT", s, c)
<1>5. M \subseteq PublicIds /\ P \subseteq PublicIds /\ M \cap P = {} /\ M \cup P = SideRows(c, s)
  <2>1. \A i \in PublicIds : rows[i].window \in {"SPOT", "MONTH"}
    BY PublicRows
  <2> QED BY <2>1 DEF GroupRows, SideRows
<1>6. {} \subseteq PublicIds /\ {} \cap M = {} /\ {} \cup M = M
  OBVIOUS
<1> HIDE DEF m0, m1, m2, m3, m4, g, M, P
<1>7. CASE s = "ASK"
  <2>1. m1 \in MapMarket /\ Says(m1, s, M)
    <3>1. m1 = Met(m0, Group("MONTH", s, c))
      BY <1>1, <1>7 DEF m1
    <3>2. {} \cap GroupRows("MONTH", s, c) = {}
      OBVIOUS
    <3>3. Met(m0, Group("MONTH", s, c)) \in MapMarket /\ Says(Met(m0, Group("MONTH", s, c)), s, {} \cup GroupRows("MONTH", s, c))
      BY <1>3, <1>4, <1>6, <3>2, MetSame
    <3> QED BY <1>6, <3>1, <3>3 DEF M
  <2>2. m2 \in MapMarket /\ Says(m2, s, M)
    <3>1. m2 = Met(m1, Group("MONTH", "BID", c)) /\ "BID" \in Sides /\ s # "BID"
      BY <1>1, <1>7 DEF m2, Sides
    <3> QED BY <2>1, <3>1, MetOther
  <2>3. m3 \in MapMarket /\ Says(m3, s, M \cup P)
    <3>1. m3 = Met(m2, Group("SPOT", s, c))
      BY <1>1, <1>7 DEF m3
    <3> QED BY <1>5, <2>2, <3>1, MetSame DEF P
  <2>4. m4 \in MapMarket /\ Says(m4, s, M \cup P)
    <3>1. m4 = Met(m3, Group("SPOT", "BID", c)) /\ "BID" \in Sides /\ s # "BID"
      BY <1>1, <1>7 DEF m4, Sides
    <3> QED BY <2>3, <3>1, MetOther
  <2> QED BY <1>2, <1>5, <2>4
<1>8. CASE s = "BID"
  <2>1. m1 \in MapMarket /\ Says(m1, s, {})
    <3>1. m1 = Met(m0, Group("MONTH", "ASK", c)) /\ "ASK" \in Sides /\ s # "ASK"
      BY <1>1, <1>8 DEF m1, Sides
    <3> QED BY <1>3, <1>4, <3>1, MetOther
  <2>2. m2 \in MapMarket /\ Says(m2, s, M)
    <3>1. m2 = Met(m1, Group("MONTH", s, c))
      BY <1>1, <1>8 DEF m2
    <3>2. {} \cap GroupRows("MONTH", s, c) = {}
      OBVIOUS
    <3>3. Met(m1, Group("MONTH", s, c)) \in MapMarket /\ Says(Met(m1, Group("MONTH", s, c)), s, {} \cup GroupRows("MONTH", s, c))
      BY <1>6, <2>1, <3>2, MetSame
    <3> QED BY <1>6, <3>1, <3>3 DEF M
  <2>3. m3 \in MapMarket /\ Says(m3, s, M)
    <3>1. m3 = Met(m2, Group("SPOT", "ASK", c)) /\ "ASK" \in Sides /\ s # "ASK"
      BY <1>1, <1>8 DEF m3, Sides
    <3> QED BY <2>2, <3>1, MetOther
  <2>4. m4 \in MapMarket /\ Says(m4, s, M \cup P)
    <3>1. m4 = Met(m3, Group("SPOT", s, c))
      BY <1>1, <1>8 DEF m4
    <3> QED BY <1>5, <2>3, <3>1, MetSame DEF P
  <2> QED BY <1>2, <1>5, <2>4
<1> QED BY <1>7, <1>8 DEF Sides

LEMMA MapAlwaysMatches == ViewInv => MapMatchesBook
<1> SUFFICES ASSUME ViewInv PROVE MapMatchesBook
  OBVIOUS
<1>1. ASSUME NEW s \in Sides, NEW c \in ViewClasses
      PROVE  LET S == {i \in PublicIds : rows[i].prov = c /\ rows[i].side = s}
                 m == CompactMarket(c)
             IN /\ m.count[s] = Cardinality(S)
                /\ m.total[s] = Left(S)
                /\ m.low[s] = BestPrice("ASK", S) /\ m.high[s] = BestPrice("BID", S)
                /\ m.spot[s] = BestPrice(s, {i \in S : rows[i].window = "SPOT"})
  BY MarketSays DEF Says, SideRows
<1>2. ASSUME NEW s \in Sides
      PROVE  BenchmarkTotal("SPOT", s) + BenchmarkTotal("MONTH", s)
               = CompactMarket("REAL").total[s] + CompactMarket("DEMO").total[s]
  <2> DEFINE P == BenchmarkRows("SPOT", s)
             M == BenchmarkRows("MONTH", s)
             R == SideRows("REAL", s)
             D == SideRows("DEMO", s)
  <2>1. \A i \in PublicIds : rows[i].window \in {"SPOT", "MONTH"} /\ rows[i].prov \in {"REAL", "DEMO"}
    BY PublicRows DEF ViewClasses
  <2>2. /\ P \subseteq PublicIds /\ M \subseteq PublicIds /\ R \subseteq PublicIds /\ D \subseteq PublicIds
        /\ P \cap M = {} /\ R \cap D = {}
    BY DEF BenchmarkRows, SideRows
  <2>3. P \cup M = R \cup D
    BY <2>1 DEF BenchmarkRows, SideRows
  <2>4. CompactMarket("REAL").total[s] = Left(R) /\ CompactMarket("DEMO").total[s] = Left(D)
    BY MarketSays DEF Says, ViewClasses
  <2> HIDE DEF P, M, R, D
  <2>5. Left(P \cup M) = Left(P) + Left(M)
    BY <2>2, LeftAdds
  <2>6. Left(R \cup D) = Left(R) + Left(D)
    BY <2>2, LeftAdds
  <2> QED
    BY <2>3, <2>4, <2>5, <2>6 DEF BenchmarkTotal, P, M
<1> QED
  BY <1>1, <1>2 DEF MapMatchesBook

LEMMA WindowRanks == Rank("SPOT") = 1 /\ Rank("MONTH") = 2
<1>1. DOMAIN ViewWindows = {1, 2} /\ ViewWindows[1] = "SPOT" /\ ViewWindows[2] = "MONTH"
  BY DEF ViewWindows
<1> QED BY <1>1 DEF Rank

\* What the selection does with the next group.
LEMMA DemoSelected ==
    ASSUME NEW sel, NEW g
    PROVE  /\ g.count = 0 => SelectDemo(sel, g) = sel
           /\ g.count # 0 /\ sel = <<>> => SelectDemo(sel, g) = <<g>>
           /\ g.count # 0 /\ g.window = "SPOT" /\ sel[1].window = "MONTH" => SelectDemo(sel, g) = <<g>>
           /\ g.count # 0 /\ sel # <<>> /\ g.window \in {"SPOT", "MONTH"} /\ sel[1].window = g.window
                => SelectDemo(sel, g) = Append(sel, g)
<1>1. g.count = 0 => SelectDemo(sel, g) = sel
  BY DEF SelectDemo
<1>2. g.count # 0 /\ sel = <<>> => SelectDemo(sel, g) = <<g>>
  BY DEF SelectDemo
<1>3. g.count # 0 /\ g.window = "SPOT" /\ sel[1].window = "MONTH" => SelectDemo(sel, g) = <<g>>
  BY WindowRanks DEF SelectDemo
<1>4. g.count # 0 /\ sel # <<>> /\ g.window \in {"SPOT", "MONTH"} /\ sel[1].window = g.window
        => SelectDemo(sel, g) = Append(sel, g)
  BY WindowRanks DEF SelectDemo
<1> QED BY <1>1, <1>2, <1>3, <1>4

LEMMA OneMore ==
    ASSUME NEW S, NEW u \in Seq(S), NEW y \in S, Len(u) = 1
    PROVE  Append(u, y) \in Seq(S) /\ Len(Append(u, y)) = 2
  OBVIOUS

LEMMA OneAppended ==
    ASSUME NEW S, NEW u \in Seq(S), NEW y \in S, Len(u) = 1, NEW v, v = Append(u, y)
    PROVE  v \in Seq(S) /\ Len(v) = 2 /\ v[1] = u[1] /\ v[2] = y
<1>1. v \in Seq(S) /\ Len(v) = 2
  BY OneMore
<1>2. v[1] = u[1]
  BY <1>1
<1>3. v[2] = y
  BY <1>1
<1> QED BY <1>1, <1>2, <1>3

LEMMA PairAppended == \A x, y : <<x>> # <<>> /\ <<x>>[1] = x /\ Append(<<x>>, y) = <<x, y>>
<1> TAKE x, y
<1>1. Len(<<x>>) = 1 /\ Len(<<>>) = 0 /\ <<x>>[1] = x
  OBVIOUS
<1>2. Append(<<x>>, y) = <<x, y>>
  <2> DEFINE u == <<x>>
             v == Append(u, y)
  <2>1. u \in Seq({x, y}) /\ Len(u) = 1 /\ u[1] = x
    OBVIOUS
  <2>2. v \in Seq({x, y}) /\ Len(v) = 2 /\ v[1] = u[1] /\ v[2] = y
    <3> HIDE DEF u
    <3>1. v = Append(u, y)
      OBVIOUS
    <3> HIDE DEF v
    <3> QED BY <2>1, <3>1, OneAppended
  <2> HIDE DEF u, v
  <2>3. v = <<x, y>>
    BY <2>1, <2>2
  <2> QED BY <2>3 DEF u, v
<1> QED BY <1>1, <1>2

LEMMA DemoAlwaysNearest == ViewInv => DemoGroupsNearest
<1> SUFFICES ASSUME ViewInv, PublicIds # {} PROVE DemoGroupsNearest
  BY DEF DemoGroupsNearest
<1> DEFINE G(w, s) == Group(w, s, "DEMO")
           a == G("MONTH", "ASK")
           b == G("MONTH", "BID")
           c == G("SPOT", "ASK")
           d == G("SPOT", "BID")
           s1 == SelectDemo(<<>>, a)
           s2 == SelectDemo(s1, b)
           s3 == SelectDemo(s2, c)
           s4 == SelectDemo(s3, d)
           demo == {i \in PublicIds : rows[i].prov = "DEMO"}
           Quoted(w) == {rows[i].side : i \in {j \in demo : rows[j].window = w}}
<1>1. DemoGroups = s4
  BY DEF DemoGroups, Groups
<1>2. a.window = "MONTH" /\ b.window = "MONTH" /\ c.window = "SPOT" /\ d.window = "SPOT"
  BY DEF Group
<1>3. /\ a.count # 0 <=> "ASK" \in Quoted("MONTH")
      /\ b.count # 0 <=> "BID" \in Quoted("MONTH")
      /\ c.count # 0 <=> "ASK" \in Quoted("SPOT")
      /\ d.count # 0 <=> "BID" \in Quoted("SPOT")
  <2>1. \A w, s : s \in Quoted(w) <=> GroupRows(w, s, "DEMO") # {}
    BY DEF GroupRows
  <2>2. \A w : \A s \in Sides : Group(w, s, "DEMO").count = 0 <=> GroupRows(w, s, "DEMO") = {}
    BY GroupFigures
  <2> HIDE DEF Quoted
  <2>3. a.count # 0 <=> "ASK" \in Quoted("MONTH")
    BY <2>1, <2>2 DEF Sides
  <2>4. b.count # 0 <=> "BID" \in Quoted("MONTH")
    BY <2>1, <2>2 DEF Sides
  <2>5. c.count # 0 <=> "ASK" \in Quoted("SPOT")
    BY <2>1, <2>2 DEF Sides
  <2>6. d.count # 0 <=> "BID" \in Quoted("SPOT")
    BY <2>1, <2>2 DEF Sides
  <2> QED BY <2>3, <2>4, <2>5, <2>6
<1>4. Quoted("MONTH") \subseteq {"ASK", "BID"} /\ Quoted("SPOT") \subseteq {"ASK", "BID"}
  BY PublicRows DEF Sides
<1>6. (\E i \in demo : rows[i].window = "SPOT") <=> Quoted("SPOT") # {}
  OBVIOUS
<1> DEFINE near == IF Quoted("SPOT") # {} THEN "SPOT" ELSE "MONTH"
           Shown(w) == {G(w, s) : s \in Quoted(w)}
<1>7. SUFFICES ToSet(s4) = Shown(near)
  BY <1>1, <1>6 DEF DemoGroupsNearest
<1>8. Shown("MONTH") = {x \in {a, b} : x.count # 0}
  BY <1>3, <1>4
<1>9. Shown("SPOT") = {x \in {c, d} : x.count # 0}
  BY <1>3, <1>4
<1>10. Quoted("SPOT") = {} <=> c.count = 0 /\ d.count = 0
  BY <1>3, <1>4
<1> HIDE DEF G, a, b, c, d, s1, s2, s3, s4, demo, Quoted, Shown
<1>11. /\ a.count = 0 => s1 = <<>>
       /\ a.count # 0 => s1 = <<a>>
  BY DemoSelected DEF s1
<1>12. /\ a.count = 0 /\ b.count = 0 => s2 = <<>>
       /\ a.count # 0 /\ b.count = 0 => s2 = <<a>>
       /\ a.count = 0 /\ b.count # 0 => s2 = <<b>>
       /\ a.count # 0 /\ b.count # 0 => s2 = <<a, b>>
  <2>1. b.count = 0 => s2 = s1
    BY DemoSelected DEF s2
  <2>2. b.count # 0 /\ s1 = <<>> => s2 = <<b>>
    BY DemoSelected DEF s2
  <2>3. b.count # 0 /\ s1 = <<a>> => s2 = <<a, b>>
    <3>1. <<a>> # <<>> /\ <<a>>[1] = a /\ Append(<<a>>, b) = <<a, b>>
      BY PairAppended
    <3>2. <<a>>[1].window = b.window /\ b.window \in {"SPOT", "MONTH"}
      BY <1>2, <3>1
    <3>3. b.count # 0 => SelectDemo(<<a>>, b) = Append(<<a>>, b)
      BY <3>1, <3>2, DemoSelected
    <3> QED BY <3>1, <3>3 DEF s2
  <2> QED BY <1>11, <2>1, <2>2, <2>3
<1>13. s2 = <<>> \/ s2[1].window = "MONTH"
  BY <1>2, <1>12
<1>14. /\ c.count = 0 => s3 = s2
       /\ c.count # 0 => s3 = <<c>>
  BY <1>2, <1>13, DemoSelected DEF s3
<1>15. /\ d.count = 0 => s4 = s3
       /\ c.count = 0 /\ d.count # 0 => s4 = <<d>>
       /\ c.count # 0 /\ d.count # 0 => s4 = <<c, d>>
  <2>1. d.count = 0 => s4 = s3
    BY DemoSelected DEF s4
  <2>2. d.count # 0 /\ s3 = s2 => s4 = <<d>>
    BY <1>2, <1>13, DemoSelected DEF s4
  <2>3. d.count # 0 /\ s3 = <<c>> => s4 = <<c, d>>
    <3>1. <<c>> # <<>> /\ <<c>>[1] = c /\ Append(<<c>>, d) = <<c, d>>
      BY PairAppended
    <3>2. <<c>>[1].window = d.window /\ d.window \in {"SPOT", "MONTH"}
      BY <1>2, <3>1
    <3>3. d.count # 0 => SelectDemo(<<c>>, d) = Append(<<c>>, d)
      BY <3>1, <3>2, DemoSelected
    <3> QED BY <3>1, <3>3 DEF s4
  <2> QED BY <1>14, <2>1, <2>2, <2>3
<1>16. /\ ToSet(<<>>) = {} /\ \A x : ToSet(<<x>>) = {x}
       /\ \A x, y : ToSet(<<x, y>>) = {x, y}
  BY DEF ToSet
<1>17. CASE Quoted("SPOT") = {}
  <2>1. ToSet(s4) = {x \in {a, b} : x.count # 0}
    BY <1>10, <1>12, <1>14, <1>15, <1>16, <1>17
  <2> QED BY <1>8, <1>17, <2>1 DEF near
<1>18. CASE Quoted("SPOT") # {}
  <2>1. ToSet(s4) = {x \in {c, d} : x.count # 0}
    BY <1>10, <1>14, <1>15, <1>16, <1>18
  <2> QED BY <1>9, <1>18, <2>1 DEF near
<1> QED BY <1>17, <1>18

\* The projections of the book agree with it and with each other, with any number of rows and
\* prices, any depth and any changes: a stale screen has been told, a crossing of the snapshot
\* is one of the lists, and the compact map and the benchmarks say of every side and class what
\* its rows say (get_orderbook_snapshot, _aggregate_orderbook, _compact_map_groups,
\* _calculate_live_slice_benchmarks).
THEOREM ViewsAlwaysAgree == ViewSpec => []ViewsAgree
<1>1. ViewInv => ScreenTrueOrTold /\ MapMatchesBook /\ DemoGroupsNearest
  BY MapAlwaysMatches, DemoAlwaysNearest DEF ViewInv
<1>2. ViewInv /\ SnapshotCrossingsReal => ViewsAgree
  BY <1>1 DEF ViewsAgree
<1> QED BY <1>2, SnapshotCrossingsAlwaysReal, ViewInvInit, ViewStep, PTL DEF ViewSpec

-----------------------------------------------------------------------------
(* The operators' corrections *)

JobStages == {"inspected", "sliced", "locked", "verified"}
QRow == [alive : BOOLEAN, version : Nat]
Dependency == [kind : {"trade", "negotiation", "round", "pin"}, of : SUBSET QOrders]

QuarantineTyped ==
    /\ qrow \in [QOrders -> QRow]
    /\ qdeps \subseteq Dependency

\* An order with an audit copy is gone for good.
ArchivedGone == \A a \in archived : \A o \in QOrders : a.source = o => qrow[o].alive = FALSE

\* A quarantine in progress keeps what it was asked and what it read.
JobShape ==
    \/ qjob = NoJob
    \/ /\ qjob.pc \in JobStages
       /\ {"pc", "what", "ids", "report"} \subseteq DOMAIN qjob
       /\ qjob.what = "orders" \/ (qjob.what = "rfqs" /\ "bind" \in DOMAIN qjob /\ qjob.bind \in [Rfqs -> Rfqs \union {"none"}]
                                     /\ qjob.ids \subseteq Rfqs)

\* A report on orders that was not refused: the rows asked for were there or are archived, and
\* no dependency reaches beyond them.
ReportClosed ==
    qjob.pc \in JobStages /\ qjob.what = "orders" =>
        /\ qjob.ids \subseteq QOrders
        /\ qjob.report.found \subseteq qjob.ids
        /\ qjob.ids \subseteq qjob.report.found \union qjob.report.already
        /\ \A o \in qjob.report.already : o \in QOrders => qrow[o].alive = FALSE
        /\ \A d \in qjob.report.deps : d.of \subseteq qjob.ids

\* Under the locks the report is what the tables say.
ReportCurrent ==
    qjob.pc = "verified" /\ qjob.what = "orders" =>
        /\ \A o \in qjob.ids : Live(o) => o \in qjob.report.found /\ qjob.report.content[o] = qrow[o].version
        /\ DependencyRows(qjob.ids) \subseteq qjob.report.deps

QuarantineInv == QuarantineTyped /\ ArchivedGone /\ JobShape /\ ReportClosed /\ ReportCurrent

LEMMA QuarantineInit == RemedyInit => QuarantineInv
  BY DEF RemedyInit, QuarantineInv, QuarantineTyped, ArchivedGone, JobShape, ReportClosed, ReportCurrent,
         QRow, NoJob, JobStages

\* A step that leaves orders, their dependencies, the archive and the job alone.
LEMMA QuarantineKept ==
    ASSUME QuarantineInv, UNCHANGED <<qrow, qdeps, archived, qjob>>
    PROVE  QuarantineInv'
  BY DEF QuarantineInv, QuarantineTyped, ArchivedGone, JobShape, ReportClosed, ReportCurrent, Live, DependencyRows

\* What an inspection that was not refused says.
LEMMA InspectionClosed ==
    ASSUME QuarantineTyped, ArchivedGone, NEW ids \in SUBSET QOrders, MayQuarantine(Inspect(ids), ids)
    PROVE  /\ Inspect(ids).found \subseteq ids
           /\ ids \subseteq Inspect(ids).found \union Inspect(ids).already
           /\ \A o \in Inspect(ids).already : o \in QOrders => qrow[o].alive = FALSE
           /\ \A d \in Inspect(ids).deps : d.of \subseteq ids
<1>1. Inspect(ids).external = (UNION {d.of : d \in DependencyRows(ids)}) \ ids
  BY DEF Inspect
<1>2. Inspect(ids).deps = DependencyRows(ids)
  BY DEF Inspect
<1>3. \A d \in DependencyRows(ids) : d.of \subseteq ids
  <2> DEFINE all == UNION {d.of : d \in DependencyRows(ids)}
  <2>1. all \ ids = {}
    BY <1>1 DEF MayQuarantine
  <2>2. ASSUME NEW d \in DependencyRows(ids), NEW o \in d.of PROVE o \in all
    BY <2>2
  <2> HIDE DEF all
  <2>3. all \subseteq ids
    BY <2>1
  <2> QED
    BY <2>2, <2>3
<1>4. Inspect(ids).found = {o \in ids : Live(o)} /\ Inspect(ids).already = {o \in ids : \E a \in archived : a.source = o}
  BY DEF Inspect
<1> QED
  BY <1>2, <1>3, <1>4 DEF MayQuarantine, ArchivedGone

LEMMA QuarantineStep == QuarantineInv /\ [RemedyNext]_remedyVars => QuarantineInv'
<1> SUFFICES ASSUME QuarantineInv, [RemedyNext]_remedyVars
             PROVE  QuarantineInv'
  OBVIOUS
<1>0. qjob.pc = "idle" => qjob = NoJob
  BY DEF QuarantineInv, JobShape, JobStages
<1>1. ASSUME NEW o \in QOrders, AmendOrder(o) PROVE QuarantineInv'
  <2>1. qrow' \in [QOrders -> QRow] /\ \A x \in QOrders : qrow'[x].alive = qrow[x].alive
    BY <1>1 DEF AmendOrder, QuarantineInv, QuarantineTyped, QRow
  <2>2. qjob.pc # "verified"
    BY <1>1 DEF AmendOrder, SliceFree
  <2> QED
    BY <1>1, <2>1, <2>2
       DEF AmendOrder, QuarantineInv, QuarantineTyped, ArchivedGone, JobShape, ReportClosed, ReportCurrent
<1>2. ASSUME NEW o \in QOrders, Unpin(o) PROVE QuarantineInv'
  BY <1>2 DEF Unpin, QuarantineInv, QuarantineTyped, ArchivedGone, JobShape, ReportClosed, ReportCurrent, Live, DependencyRows
<1>3. ASSUME NEW of \in SUBSET QOrders \ {{}}, NEW kind \in {"trade", "negotiation", "round", "pin"}, Refer(kind, of)
      PROVE  QuarantineInv'
  <2>1. Row(kind, of) \in Dependency /\ Row(kind, of).of = of
    BY DEF Row, Dependency
  <2>2. qjob.pc = "verified" => of \cap qjob.ids = {}
    BY <1>3 DEF Refer, SliceFree, RowFree
  <2>3. qjob.pc = "verified" => DependencyRows(qjob.ids)' = DependencyRows(qjob.ids)
    BY <1>3, <2>1, <2>2 DEF Refer, DependencyRows
  <2> QED
    BY <1>3, <2>1, <2>3
       DEF Refer, QuarantineInv, QuarantineTyped, ArchivedGone, JobShape, ReportClosed, ReportCurrent, Live
<1>4. ASSUME NEW ids \in SUBSET QOrders, QuarantineInspects(ids) PROVE QuarantineInv'
  <2>1. qjob' = [pc |-> "inspected", what |-> "orders", ids |-> ids, report |-> Inspect(ids)]
    BY <1>4 DEF QuarantineInspects
  <2>2. qjob'.pc = "inspected" /\ qjob'.what = "orders" /\ qjob'.ids = ids /\ qjob'.report = Inspect(ids)
    BY <2>1
  <2>3. {"pc", "what", "ids", "report"} \subseteq DOMAIN qjob'
    BY <2>1
  <2>4. /\ Inspect(ids).found \subseteq ids
        /\ ids \subseteq Inspect(ids).found \union Inspect(ids).already
        /\ \A o \in Inspect(ids).already : o \in QOrders => qrow[o].alive = FALSE
        /\ \A d \in Inspect(ids).deps : d.of \subseteq ids
    BY <1>4, InspectionClosed DEF QuarantineInspects, QuarantineInv
  <2>5. ReportClosed'
    BY <1>4, <2>2, <2>4 DEF ReportClosed, QuarantineInspects
  <2> QED
    BY <1>4, <2>2, <2>3, <2>5
       DEF QuarantineInspects, QuarantineInv, QuarantineTyped, ArchivedGone, JobShape, ReportCurrent, JobStages
<1>5. CASE QuarantineLocks
  <2>1. qjob # NoJob
    BY <1>5 DEF QuarantineLocks, NoJob
  <2>2. /\ qjob'.pc \in {"sliced", "locked"} /\ qjob'.what = qjob.what /\ qjob'.ids = qjob.ids
        /\ qjob'.report = qjob.report /\ DOMAIN qjob' = DOMAIN qjob
    BY <1>5, <2>1 DEF QuarantineLocks, QuarantineInv, JobShape
  <2>3. "bind" \in DOMAIN qjob => qjob'.bind = qjob.bind
    BY <1>5 DEF QuarantineLocks
  <2> QED
    BY <1>5, <2>1, <2>2, <2>3
       DEF QuarantineLocks, QuarantineInv, QuarantineTyped, ArchivedGone, JobShape, ReportClosed, ReportCurrent, JobStages
<1>6. CASE QuarantineVerifies
  <2>1. UNCHANGED <<qrow, qdeps, archived>>
    BY <1>6 DEF QuarantineVerifies
  <2>2. CASE ~ StillHolds
    <3>1. qjob' = NoJob /\ qjob'.pc = "idle"
      BY <1>6, <2>2 DEF QuarantineVerifies, NoJob
    <3> QED
      BY <2>1, <3>1 DEF QuarantineInv, QuarantineTyped, ArchivedGone, JobShape, ReportClosed, ReportCurrent, JobStages
  <2>3. CASE StillHolds
    <3>1. qjob # NoJob
      BY <1>6 DEF QuarantineVerifies, NoJob
    <3>2. /\ qjob'.pc = "verified" /\ qjob'.what = qjob.what /\ qjob'.ids = qjob.ids
          /\ qjob'.report = qjob.report /\ DOMAIN qjob' = DOMAIN qjob
      BY <1>6, <2>3, <3>1 DEF QuarantineVerifies, QuarantineInv, JobShape
    <3>3. "bind" \in DOMAIN qjob => qjob'.bind = qjob.bind
      BY <1>6, <2>3 DEF QuarantineVerifies
    <3>4. ASSUME qjob.what = "orders"
          PROVE  /\ \A o \in qjob.ids : Live(o) => o \in qjob.report.found /\ qjob.report.content[o] = qrow[o].version
                 /\ DependencyRows(qjob.ids) \subseteq qjob.report.deps
      BY <2>3, <3>4 DEF StillHolds, Inspect
    <3>5. ReportCurrent'
      BY <2>1, <3>2, <3>4 DEF ReportCurrent, Live, DependencyRows
    <3>6. ReportClosed'
      BY <1>6, <2>1, <3>2 DEF ReportClosed, QuarantineVerifies, QuarantineInv, JobStages
    <3> QED
      BY <2>1, <3>1, <3>2, <3>3, <3>5, <3>6 DEF QuarantineInv, QuarantineTyped, ArchivedGone, JobShape, JobStages
  <2> QED BY <2>2, <2>3
<1>7. CASE QuarantineApplies
  <2>1. qjob' = NoJob /\ qjob'.pc = "idle"
    BY <1>7 DEF QuarantineApplies, NoJob
  <2>2. CASE UNCHANGED <<qrow, qdeps, archived>>
    BY <2>1, <2>2 DEF QuarantineInv, QuarantineTyped, ArchivedGone, JobShape, ReportClosed, ReportCurrent, JobStages
  <2>3. CASE ~ UNCHANGED <<qrow, qdeps, archived>>
    <3> DEFINE gone == qjob.report.found
               left == qdeps \ qjob.report.deps
               copies == {[source |-> o, content |-> qjob.report.content[o],
                           deps |-> {d \in qjob.report.deps : o \in d.of}] : o \in gone}
    <3>1. /\ archived' = Archived(copies)
          /\ qdeps' = {IF d.kind = "negotiation" THEN [d EXCEPT !.of = @ \ gone] ELSE d : d \in left}
          /\ qrow' = [o \in QOrders |-> IF o \in gone THEN [qrow[o] EXCEPT !.alive = FALSE] ELSE qrow[o]]
      BY <1>7, <2>3 DEF QuarantineApplies
    <3>2. \A c \in copies : c.source \in gone
      OBVIOUS
    <3> HIDE DEF gone, copies
    <3>3. /\ qrow' \in [QOrders -> QRow]
          /\ \A o \in QOrders : o \in gone => qrow'[o].alive = FALSE
          /\ \A o \in QOrders : qrow[o].alive = FALSE => qrow'[o].alive = FALSE
      BY <3>1 DEF QuarantineInv, QuarantineTyped, QRow
    <3>4. qdeps' \subseteq Dependency
      BY <3>1 DEF QuarantineInv, QuarantineTyped, Dependency
    <3>5. ArchivedGone'
      BY <3>1, <3>2, <3>3 DEF Archived, ArchivedGone, QuarantineInv
    <3> QED
      BY <2>1, <3>3, <3>4, <3>5 DEF QuarantineInv, QuarantineTyped, JobShape, ReportClosed, ReportCurrent, JobStages
  <2> QED BY <2>2, <2>3
<1>8. ASSUME NEW r \in Rfqs, AcceptRfqOf(r) PROVE QuarantineInv'
  BY <1>8, QuarantineKept DEF AcceptRfqOf
<1>9. ASSUME NEW ids \in SUBSET Rfqs, NEW bind \in [Rfqs -> Rfqs \cup {"none"}], RfqQuarantineInspects(ids, bind)
      PROVE  QuarantineInv'
  <2>1. qjob' = [pc |-> "inspected", what |-> "rfqs", ids |-> ids, bind |-> bind, report |-> InspectRfqs(ids)]
    BY <1>9 DEF RfqQuarantineInspects
  <2>2. qjob'.pc = "inspected" /\ qjob'.what = "rfqs" /\ qjob'.ids = ids /\ qjob'.bind = bind
    BY <2>1
  <2>3. {"pc", "what", "ids", "report", "bind"} \subseteq DOMAIN qjob'
    BY <2>1
  <2> QED
    BY <1>9, <2>2, <2>3
       DEF RfqQuarantineInspects, QuarantineInv, QuarantineTyped, ArchivedGone, JobShape, ReportClosed, ReportCurrent, JobStages
<1>10. CASE RfqQuarantineApplies
  <2>1. qjob' = NoJob /\ qjob'.pc = "idle" /\ UNCHANGED <<qrow, qdeps>>
    BY <1>10 DEF RfqQuarantineApplies, NoJob
  <2>2. ArchivedGone'
    <3>1. CASE archived' = archived
      BY <2>1, <3>1 DEF QuarantineInv, ArchivedGone
    <3>2. CASE archived' # archived
      <4> DEFINE trades == {qjob.bind[r] : r \in qjob.ids} \ {"none"}
                 copies == {[source |-> <<"rfq", r>>] : r \in qjob.ids} \cup {[source |-> <<"trade", t>>] : t \in trades}
      <4>1. archived' = Archived(copies)
        BY <1>10, <3>2 DEF RfqQuarantineApplies
      <4>2. qjob.ids \subseteq Rfqs /\ trades \subseteq Rfqs
        BY <1>10 DEF RfqQuarantineApplies, QuarantineInv, JobShape, NoJob
      <4>3. \A c \in copies : c.source \notin QOrders
        BY <4>2, RemedyAssumption
      <4> HIDE DEF copies
      <4> QED
        BY <2>1, <4>1, <4>3 DEF Archived, ArchivedGone, QuarantineInv
    <3> QED BY <3>1, <3>2
  <2> QED
    BY <2>1, <2>2 DEF QuarantineInv, QuarantineTyped, JobShape, ReportClosed, ReportCurrent, JobStages
<1>11. CASE ApprovalNext
  <2>1. UNCHANGED quarantineVars
    BY <1>11 DEF ApprovalNext, MemberTurns, AdminDecides, UnknownOrder, ReviewOrganization, ApproveReal, ApprovalRest
  <2> QED
    BY <2>1, QuarantineKept DEF quarantineVars
<1>12. CASE DemoNext
  <2>1. UNCHANGED quarantineVars
    BY <1>12 DEF DemoNext, TickPasses, PruneDemo, DemoLooks, DemoGenerates, PinDemo, DemoRest
  <2> QED
    BY <2>1, QuarantineKept DEF quarantineVars
<1>13. CASE UNCHANGED remedyVars
  BY <1>13, QuarantineKept DEF remedyVars, quarantineVars
<1> QED
  BY <1>1, <1>2, <1>3, <1>4, <1>5, <1>6, <1>7, <1>8, <1>9, <1>10, <1>11, <1>12, <1>13
     DEF RemedyNext, OrderQuarantineNext, RfqQuarantineNext

\* A quarantine that applies what it verified: audited and exact.
LEMMA AppliesAudited ==
    ASSUME QuarantineInv, QuarantineApplies
    PROVE  /\ \A o \in QOrders : Live(o) /\ ~qrow'[o].alive =>
                \E a \in archived' : a.source = o /\ a.content = qrow[o].version /\ DependencyRows({o}) \subseteq a.deps
           /\ \A d \in qdeps \ qdeps' : d.kind = "pin" \/ \A o \in d.of : ~qrow'[o].alive
<1> DEFINE gone == qjob.report.found
           left == qdeps \ qjob.report.deps
           copy(o) == [source |-> o, content |-> qjob.report.content[o],
                       deps |-> {d \in qjob.report.deps : o \in d.of}]
           copies == {copy(o) : o \in gone}
<1>1. CASE UNCHANGED <<qrow, qdeps, archived>>
  BY <1>1 DEF Live
<1>2. CASE ~ UNCHANGED <<qrow, qdeps, archived>>
  <2>1. /\ archived' = Archived(copies)
        /\ qdeps' = {IF d.kind = "negotiation" THEN [d EXCEPT !.of = @ \ gone] ELSE d : d \in left}
        /\ qrow' = [o \in QOrders |-> IF o \in gone THEN [qrow[o] EXCEPT !.alive = FALSE] ELSE qrow[o]]
    BY <1>2 DEF QuarantineApplies
  <2>2. /\ qjob.ids \subseteq QOrders /\ gone \subseteq qjob.ids
        /\ qjob.ids \subseteq gone \union qjob.report.already
        /\ \A o \in qjob.report.already : o \in QOrders => qrow[o].alive = FALSE
        /\ \A d \in qjob.report.deps : d.of \subseteq qjob.ids
        /\ \A o \in qjob.ids : Live(o) => qjob.report.content[o] = qrow[o].version
        /\ DependencyRows(qjob.ids) \subseteq qjob.report.deps
    BY DEF QuarantineInv, ReportClosed, ReportCurrent, QuarantineApplies, JobStages
  <2>3. \A o \in QOrders : /\ o \in gone => qrow'[o].alive = FALSE
                           /\ o \notin gone => qrow'[o].alive = qrow[o].alive
    BY <2>1 DEF QuarantineInv, QuarantineTyped, QRow
  <2>4. ASSUME NEW o \in QOrders, Live(o), ~ qrow'[o].alive
        PROVE  \E a \in archived' : a.source = o /\ a.content = qrow[o].version /\ DependencyRows({o}) \subseteq a.deps
    <3>1. o \in gone /\ o \in qjob.ids
      BY <2>2, <2>3, <2>4 DEF Live
    <3>2. copy(o) \in copies /\ copy(o).source = o /\ copy(o).content = qjob.report.content[o]
          /\ copy(o).deps = {d \in qjob.report.deps : o \in d.of}
      BY <3>1
    <3>3. \A a \in archived : a.source # o
      BY <2>4 DEF QuarantineInv, ArchivedGone, Live
    <3>4. DependencyRows({o}) \subseteq {d \in qjob.report.deps : o \in d.of}
      BY <2>2, <3>1 DEF DependencyRows
    <3> HIDE DEF copy, copies
    <3>5. copy(o) \in archived'
      BY <2>1, <3>2, <3>3 DEF Archived
    <3> QED
      BY <2>2, <2>4, <3>1, <3>2, <3>4, <3>5
  <2>5. ASSUME NEW d \in qdeps, d \notin qdeps' PROVE \A o \in d.of : ~ qrow'[o].alive
    <3>1. d \in Dependency
      BY DEF QuarantineInv, QuarantineTyped
    <3>2. CASE d \in qjob.report.deps
      <4>1. \A o \in d.of : o \in QOrders /\ (o \in gone \/ qrow[o].alive = FALSE)
        BY <2>2, <3>2
      <4> QED
        BY <2>3, <4>1
    <3>3. CASE d \notin qjob.report.deps
      <4>1. d.of \cap gone = {}
        BY <2>2, <3>3 DEF DependencyRows
      <4>2. [d EXCEPT !.of = d.of \ gone] = d
        BY <3>1, <4>1 DEF Dependency
      <4>3. d \in left
        BY <3>3
      <4> HIDE DEF gone, left
      <4>4. d \in qdeps'
        BY <2>1, <4>2, <4>3
      <4> QED
        BY <2>5, <4>4
    <3> QED BY <3>2, <3>3
  <2> QED
    BY <2>4, <2>5
<1> QED BY <1>1, <1>2

LEMMA QuarantineSound ==
    ASSUME QuarantineInv, [RemedyNext]_remedyVars
    PROVE  /\ \A o \in QOrders : Live(o) /\ ~qrow'[o].alive =>
                \E a \in archived' : a.source = o /\ a.content = qrow[o].version /\ DependencyRows({o}) \subseteq a.deps
           /\ \A d \in qdeps \ qdeps' : d.kind = "pin" \/ \A o \in d.of : ~qrow'[o].alive
<1> DEFINE Same == (\A o \in QOrders : Live(o) => qrow'[o].alive) /\ (\A d \in qdeps \ qdeps' : d.kind = "pin")
<1>1. ASSUME NEW o \in QOrders, AmendOrder(o) PROVE Same
  BY <1>1 DEF AmendOrder, QuarantineInv, QuarantineTyped, QRow, Live
<1>2. ASSUME NEW o \in QOrders, Unpin(o) PROVE Same
  BY <1>2 DEF Unpin, Live, Row
<1>3. ASSUME NEW of, NEW kind, Refer(kind, of) PROVE Same
  BY <1>3 DEF Refer, Live
<1>4. ASSUME UNCHANGED <<qrow, qdeps>> PROVE Same
  BY <1>4 DEF Live
<1>5. \A ids : QuarantineInspects(ids) => UNCHANGED <<qrow, qdeps>>
  BY DEF QuarantineInspects
<1>6. QuarantineLocks \/ QuarantineVerifies \/ RfqQuarantineNext => UNCHANGED <<qrow, qdeps>>
  BY DEF QuarantineLocks, QuarantineVerifies, RfqQuarantineNext, AcceptRfqOf, RfqQuarantineInspects, RfqQuarantineApplies
<1>7. ApprovalNext => UNCHANGED <<qrow, qdeps>>
  BY DEF ApprovalNext, MemberTurns, AdminDecides, UnknownOrder, ReviewOrganization, ApproveReal, ApprovalRest, quarantineVars
<1>8. DemoNext => UNCHANGED <<qrow, qdeps>>
  BY DEF DemoNext, TickPasses, PruneDemo, DemoLooks, DemoGenerates, PinDemo, DemoRest, quarantineVars
<1>9. UNCHANGED remedyVars => UNCHANGED <<qrow, qdeps>>
  BY DEF remedyVars, quarantineVars
<1>10. Same \/ QuarantineApplies
  <2> HIDE DEF Same
  <2> QED
    BY <1>1, <1>2, <1>3, <1>4, <1>5, <1>6, <1>7, <1>8, <1>9 DEF RemedyNext, OrderQuarantineNext
<1>11. CASE Same
  BY <1>11
<1>12. CASE QuarantineApplies
  BY <1>12, AppliesAudited
<1> QED BY <1>10, <1>11, <1>12

-----------------------------------------------------------------------------
(* Approval as REAL *)

FirmTyped == firm \in [status : {"PENDING", "APPROVED", "REJECTED"}, members : SUBSET Traders,
                       prov : {"UNKNOWN", "REAL"}, unknown : BOOLEAN, record : SUBSET [members : SUBSET Traders]]

LEMMA FirmStep == FirmTyped /\ [RemedyNext]_remedyVars => FirmTyped'
<1> SUFFICES ASSUME FirmTyped, [RemedyNext]_remedyVars
             PROVE  FirmTyped'
  OBVIOUS
<1>1. ASSUME NEW m \in Traders, MemberTurns(m) PROVE FirmTyped'
  <2>1. SymDiff(firm.members, {m}) \in SUBSET Traders
    BY DEF SymDiff, FirmTyped
  <2> QED
    BY <1>1, <2>1 DEF MemberTurns, FirmTyped
<1>2. CASE AdminDecides("APPROVED") \/ AdminDecides("REJECTED")
  BY <1>2 DEF AdminDecides, FirmTyped
<1>3. CASE UnknownOrder(TRUE) \/ UnknownOrder(FALSE)
  BY <1>3 DEF UnknownOrder, FirmTyped
<1>4. CASE ApproveReal
  <2>1. {Snapshot} \in SUBSET [members : SUBSET Traders]
    BY DEF FirmTyped, Snapshot
  <2> QED
    BY <1>4, <2>1 DEF ApproveReal, FirmTyped
<1>5. CASE UNCHANGED approvalVars
  BY <1>5 DEF approvalVars, FirmTyped
<1>6. CASE ReviewOrganization
  BY <1>6 DEF ReviewOrganization, FirmTyped
<1>7. OrderQuarantineNext \/ RfqQuarantineNext => UNCHANGED approvalVars
  BY DEF OrderQuarantineNext, RfqQuarantineNext, AmendOrder, Unpin, Refer, QuarantineInspects, QuarantineLocks, QuarantineVerifies,
         QuarantineApplies, AcceptRfqOf, RfqQuarantineInspects, RfqQuarantineApplies, QuarantineRest
<1>8. DemoNext => UNCHANGED approvalVars
  BY DEF DemoNext, TickPasses, PruneDemo, DemoLooks, DemoGenerates, PinDemo, DemoRest
<1> QED
  BY <1>1, <1>2, <1>3, <1>4, <1>5, <1>6, <1>7, <1>8 DEF RemedyNext, ApprovalNext, remedyVars

LEMMA ApprovalSound ==
    ASSUME FirmTyped, [RemedyNext]_remedyVars, firm.prov # "REAL", firm'.prov = "REAL"
    PROVE  reviewed = {[members |-> firm'.members]} /\ ~firm'.unknown /\ firm.status # "REJECTED"
<1>1. ApproveReal
  <2>1. \A m : MemberTurns(m) => firm'.prov = firm.prov
    BY DEF MemberTurns, FirmTyped
  <2>2. \A s : AdminDecides(s) => firm'.prov = firm.prov
    BY DEF AdminDecides, FirmTyped
  <2>3. \A b \in BOOLEAN : UnknownOrder(b) => firm'.prov = firm.prov
    BY DEF UnknownOrder, FirmTyped
  <2>4. ReviewOrganization \/ UNCHANGED approvalVars => firm'.prov = firm.prov
    BY DEF ReviewOrganization, approvalVars
  <2>5. OrderQuarantineNext \/ RfqQuarantineNext => UNCHANGED approvalVars
    BY DEF OrderQuarantineNext, RfqQuarantineNext, AmendOrder, Unpin, Refer, QuarantineInspects, QuarantineLocks, QuarantineVerifies,
           QuarantineApplies, AcceptRfqOf, RfqQuarantineInspects, RfqQuarantineApplies, QuarantineRest
  <2>6. DemoNext => UNCHANGED approvalVars
    BY DEF DemoNext, TickPasses, PruneDemo, DemoLooks, DemoGenerates, PinDemo, DemoRest
  <2> QED
    BY <2>1, <2>2, <2>3, <2>4, <2>5, <2>6 DEF RemedyNext, ApprovalNext, remedyVars
<1>2. firm'.members = firm.members
  BY <1>1 DEF ApproveReal, FirmTyped
<1>3. firm'.unknown = firm.unknown /\ ~ firm.unknown
  BY <1>1 DEF ApproveReal, Approvable, FirmTyped
<1> QED
  BY <1>1, <1>2, <1>3 DEF ApproveReal, Approvable, AsReviewed, Snapshot

-----------------------------------------------------------------------------
(* Demo activity *)

DemoTyped ==
    /\ demoTick \in Nat
    /\ demoTrades \subseteq Nat \X Runners /\ IsFiniteSet(demoTrades)
    /\ demoPins \subseteq demoTrades
    /\ \A w \in Runners : demoRun[w].pc = "waiting" => demoRun[w].tick \in Nat
    /\ DOMAIN demoRun = Runners

DemoInv == DemoTyped /\ OnePairPerTick

LEMMA DemoInvInit == RemedyInit => DemoInv
  BY FS_EmptySet DEF RemedyInit, DemoInv, DemoTyped, OnePairPerTick, Resting

LEMMA DemoKept ==
    ASSUME DemoInv, UNCHANGED demoVars
    PROVE  DemoInv'
  BY DEF DemoInv, DemoTyped, OnePairPerTick, demoVars

\* Of a finite set of trades the n oldest are all of them, or at least n.
LEMMA OldestEnough ==
    ASSUME NEW S, S \subseteq Nat \X Runners, IsFiniteSet(S), NEW n \in Nat
    PROVE  LET oldest == {t \in S : Cardinality({u \in S : u[1] < t[1]}) < n} IN
           oldest = S \/ Cardinality(oldest) >= n
<1> DEFINE oldest == {t \in S : Cardinality({u \in S : u[1] < t[1]}) < n}
           ticks == {t[1] : t \in S \ oldest}
<1>1. CASE oldest = S
  BY <1>1
<1>2. CASE oldest # S
  <2>1. ticks # {} /\ ticks \subseteq Nat
    BY <1>2
  <2> HIDE DEF oldest
  <2>2. PICK k \in ticks : \A m \in ticks : k <= m
    BY <2>1, LeastNat
  <2>3. PICK t \in S \ oldest : t[1] = k
    BY <2>2
  <2> DEFINE below == {u \in S : u[1] < t[1]}
  <2>4. below \subseteq oldest
    <3> SUFFICES ASSUME NEW u \in S, u[1] < t[1], u \notin oldest PROVE FALSE
      OBVIOUS
    <3>1. u[1] \in ticks /\ u[1] \in Nat /\ k \in Nat
      BY <2>1
    <3> QED
      BY <2>2, <2>3, <3>1
  <2>5. ~ (Cardinality(below) < n)
    BY <2>3 DEF oldest
  <2>6. IsFiniteSet(oldest) /\ oldest \subseteq S
    <3>1. oldest \subseteq S
      BY DEF oldest
    <3> QED
      BY <3>1, FS_Subset
  <2> HIDE DEF below
  <2>7. IsFiniteSet(below) /\ Cardinality(below) <= Cardinality(oldest)
    BY <2>4, <2>6, FS_Subset
  <2>8. Cardinality(below) \in Nat /\ Cardinality(oldest) \in Nat
    BY <2>6, <2>7, FS_CardinalityType
  <2>9. Cardinality(oldest) >= n
    BY <2>5, <2>7, <2>8
  <2> QED
    BY <2>9 DEF oldest
<1> QED BY <1>1, <1>2

LEMMA PruneSound ==
    ASSUME DemoInv, PruneDemo
    PROVE  /\ Cardinality(demoTrades') <= DemoCap \/ demoTrades' \subseteq demoPins
           /\ demoPins \subseteq demoTrades'
<1> DEFINE S == demoTrades \ demoPins
           n == Cardinality(demoTrades) - DemoCap
           stale == Stale(n)
<1>1. IsFiniteSet(demoTrades) /\ demoPins \subseteq demoTrades /\ demoTrades \subseteq Nat \X Runners
  BY DEF DemoInv, DemoTyped
<1>2. IsFiniteSet(S) /\ S \subseteq Nat \X Runners
  BY <1>1, FS_Subset
<1>3. Cardinality(demoTrades) \in Nat /\ n \in Nat
  BY <1>1, FS_CardinalityType, RemedyAssumption DEF PruneDemo
<1>4. stale \subseteq S /\ demoTrades' = demoTrades \ stale
  BY DEF Stale, PruneDemo
<1>5. stale = S \/ Cardinality(stale) >= n
  BY <1>2, <1>3, OldestEnough DEF Stale
<1> HIDE DEF stale
<1>6. demoPins \subseteq demoTrades'
  BY <1>1, <1>4
<1>7. CASE stale = S
  BY <1>4, <1>6, <1>7
<1>8. CASE Cardinality(stale) >= n
  <2>1. demoTrades \cap stale = stale
    BY <1>4
  <2>2. Cardinality(demoTrades') = Cardinality(demoTrades) - Cardinality(stale)
    BY <1>1, <1>4, <2>1, FS_Difference
  <2>3. IsFiniteSet(stale)
    BY <1>2, <1>4, FS_Subset
  <2>4. Cardinality(stale) \in Nat
    BY <2>3, FS_CardinalityType
  <2> QED
    BY <1>3, <1>6, <1>8, <2>2, <2>4, RemedyAssumption
<1> QED BY <1>5, <1>7, <1>8

LEMMA DemoStep == DemoInv /\ [RemedyNext]_remedyVars => DemoInv'
<1> SUFFICES ASSUME DemoInv, [RemedyNext]_remedyVars
             PROVE  DemoInv'
  OBVIOUS
<1>1. CASE TickPasses
  BY <1>1 DEF TickPasses, DemoInv, DemoTyped, OnePairPerTick
<1>2. CASE PruneDemo
  <2>1. demoTrades' \subseteq demoTrades /\ demoPins \subseteq demoTrades'
    BY <1>2, PruneSound DEF PruneDemo
  <2>2. IsFiniteSet(demoTrades')
    BY <2>1, FS_Subset DEF DemoInv, DemoTyped
  <2> QED
    BY <1>2, <2>1, <2>2 DEF PruneDemo, DemoInv, DemoTyped, OnePairPerTick
<1>3. ASSUME NEW w \in Runners, DemoLooks(w) PROVE DemoInv'
  BY <1>3 DEF DemoLooks, DemoInv, DemoTyped, OnePairPerTick
<1>4. ASSUME NEW w \in Runners, DemoGenerates(w) PROVE DemoInv'
  <2>1. \A x \in Runners : demoRun'[x].pc = "waiting" => demoRun'[x].tick \in Nat
    BY <1>4 DEF DemoGenerates, DemoInv, DemoTyped, Resting
  <2>2. CASE ~ MakesPair(w)
    BY <1>4, <2>1, <2>2 DEF DemoGenerates, DemoInv, DemoTyped, OnePairPerTick
  <2>3. CASE MakesPair(w)
    <3> DEFINE new == <<demoRun[w].tick, w>>
    <3>1. demoTrades' = demoTrades \union {new} /\ new \in Nat \X Runners /\ new[1] = demoRun[w].tick
      BY <1>4, <2>3 DEF DemoGenerates, DemoInv, DemoTyped
    <3>2. \A x \in demoTrades : x[1] # new[1]
      BY <2>3, <3>1 DEF MakesPair, TickTradeExists
    <3> HIDE DEF new
    <3>3. IsFiniteSet(demoTrades')
      BY <3>1, FS_AddElement DEF DemoInv, DemoTyped
    <3>4. OnePairPerTick'
      BY <3>1, <3>2 DEF DemoInv, OnePairPerTick
    <3> QED
      BY <1>4, <2>1, <3>1, <3>3, <3>4 DEF DemoGenerates, DemoInv, DemoTyped
  <2> QED BY <2>2, <2>3
<1>5. ASSUME NEW t \in demoTrades, PinDemo(t) PROVE DemoInv'
  BY <1>5 DEF PinDemo, DemoInv, DemoTyped, OnePairPerTick
<1>6. OrderQuarantineNext \/ RfqQuarantineNext => UNCHANGED demoVars
  BY DEF OrderQuarantineNext, RfqQuarantineNext, AmendOrder, Unpin, Refer, QuarantineInspects, QuarantineLocks, QuarantineVerifies,
         QuarantineApplies, AcceptRfqOf, RfqQuarantineInspects, RfqQuarantineApplies, QuarantineRest
<1>7. ApprovalNext => UNCHANGED demoVars
  BY DEF ApprovalNext, MemberTurns, AdminDecides, UnknownOrder, ReviewOrganization, ApproveReal, ApprovalRest
<1>8. CASE UNCHANGED demoVars
  BY <1>8, DemoKept
<1> QED
  BY <1>1, <1>2, <1>3, <1>4, <1>5, <1>6, <1>7, <1>8 DEF RemedyNext, DemoNext, remedyVars

\* The operators' jobs remove and change what was inspected under the locks and nothing else,
\* with an audit copy; an organization becomes REAL as it was reviewed; a demo tick is made once,
\* and pruning ends at the cap without touching a pin: for any orders, RFQs, members and
\* overlapping runs (market_quarantine.py, demo_activity.py).
THEOREM CorrectionsAlwaysExact == RemedySpec => CorrectionsExact
<1> DEFINE Audited ==
             \A o \in QOrders : Live(o) /\ ~qrow'[o].alive =>
               \E a \in archived' : a.source = o /\ a.content = qrow[o].version /\ DependencyRows({o}) \subseteq a.deps
           Exact == \A d \in qdeps \ qdeps' : d.kind = "pin" \/ \A o \in d.of : ~qrow'[o].alive
           Reviewed == firm.prov # "REAL" /\ firm'.prov = "REAL" =>
                         reviewed = {[members |-> firm'.members]} /\ ~firm'.unknown /\ firm.status # "REJECTED"
           Pruned == PruneDemo => /\ Cardinality(demoTrades') <= DemoCap \/ demoTrades' \subseteq demoPins
                                  /\ demoPins \subseteq demoTrades'
<1>1. RemedyInit => QuarantineInv /\ FirmTyped /\ DemoInv
  <2>1. RemedyInit => FirmTyped
    BY DEF RemedyInit, FirmTyped
  <2> QED
    BY <2>1, QuarantineInit, DemoInvInit
<1>2. QuarantineInv /\ [RemedyNext]_remedyVars => Audited /\ Exact
  BY QuarantineSound
<1>3. FirmTyped /\ [RemedyNext]_remedyVars => Reviewed
  BY ApprovalSound
<1>4. DemoInv => Pruned
  BY PruneSound
<1>5. DemoInv => OnePairPerTick
  BY DEF DemoInv
<1> HIDE DEF Audited, Exact, Reviewed, Pruned
<1>6. RemedySpec => [][Audited]_quarantineVars
  BY <1>1, <1>2, QuarantineStep, PTL DEF RemedySpec
<1>7. RemedySpec => [][Exact]_quarantineVars
  BY <1>1, <1>2, QuarantineStep, PTL DEF RemedySpec
<1>8. RemedySpec => [][Reviewed]_approvalVars
  BY <1>1, <1>3, FirmStep, PTL DEF RemedySpec
<1>9. RemedySpec => [][Pruned]_demoVars
  BY <1>1, <1>4, DemoStep, PTL DEF RemedySpec
<1>10. RemedySpec => []OnePairPerTick
  BY <1>1, <1>5, DemoStep, PTL DEF RemedySpec
<1> QED
  BY <1>6, <1>7, <1>8, <1>9, <1>10, PTL
     DEF CorrectionsExact, QuarantineAudited, QuarantineExact, ApprovedAsReviewed, PruneReachesCap,
         Audited, Exact, Reviewed, Pruned

-----------------------------------------------------------------------------
(* The market radar *)

OrderStatuses == {"none", "OPEN", "PARTIALLY_FILLED", "FILLED", "CANCELLED", "EXPIRED"}
WatchedRow == [status : OrderStatuses, price : WatchPrices \union {NoPrice}, left : Int, hidden : {"no", "due", "owner"}]

RadarTyped ==
    /\ book \in [WatchOrders -> WatchedRow]
    /\ DOMAIN pins = WatchOrders /\ DOMAIN pinFeed = WatchOrders
    /\ DOMAIN pinning = PinTabs
    /\ {"told", "silent"} \subseteq DOMAIN feed

\* A pin, stored or about to be, is of an order that exists.
PinsOfOrders ==
    /\ \A o \in WatchOrders : pins[o] # NoPin => book[o].status # "none"
    /\ \A t \in PinTabs : pinning[t] # NotPinning =>
          pinning[t].order \in WatchOrders /\ book[pinning[t].order].status # "none"

RadarInv == RadarTyped /\ PinsOfOrders /\ FeedTellsBest /\ PinFeedTrue /\ AcceptedEntryStored

LEMMA RadarInvInit == WatchInit => RadarInv
<1> SUFFICES ASSUME WatchInit PROVE RadarInv
  OBVIOUS
<1>1. RadarTyped
  BY DEF WatchInit, RadarTyped, WatchedRow, OrderStatuses, NoPrice, NothingTold
<1>2. PinsOfOrders /\ PinFeedTrue
  BY DEF WatchInit, PinsOfOrders, PinFeedTrue
<1>3. FeedTellsBest /\ AcceptedEntryStored
  BY DEF WatchInit, FeedTellsBest, AcceptedEntryStored
<1> QED BY <1>1, <1>2, <1>3 DEF RadarInv

\* A step that leaves the radar's tables alone.
LEMMA RadarKept ==
    ASSUME RadarInv, UNCHANGED <<entry, slice, pins, pinning, accepted, book, feed, pinFeed>>
    PROVE  RadarInv'
<1>1. BestOf(book)' = BestOf(book)
  BY DEF BestOf, Visible
<1> QED
  BY <1>1 DEF RadarInv, RadarTyped, PinsOfOrders, FeedTellsBest, PinFeedTrue, AcceptedEntryStored, PinSnapshot

\* What a handler does to one order, as far as its pin must tell it.
Edit(o, r) ==
    /\ o \in WatchOrders /\ r \in WatchedRow /\ r.status # "none"
    /\ \/ r.left = book[o].left /\ r.status = book[o].status
       \/ r.left # book[o].left
       \/ r.status # book[o].status /\ r.status \notin WatchLive
       \/ book[o].status = "none"

LEMMA PinsFollow ==
    ASSUME RadarInv, NEW o, NEW r, Edit(o, r), book' = [book EXCEPT ![o] = r], PinUpdated(book', o),
           UNCHANGED pinning
    PROVE  PinsOfOrders' /\ PinFeedTrue' /\ book' \in [WatchOrders -> WatchedRow]
           /\ DOMAIN pins' = WatchOrders /\ DOMAIN pinFeed' = WatchOrders
<1>1. o \in WatchOrders /\ r \in WatchedRow /\ book \in [WatchOrders -> WatchedRow]
      /\ DOMAIN pins = WatchOrders /\ DOMAIN pinFeed = WatchOrders
  BY DEF Edit, RadarInv, RadarTyped
<1>2. book' \in [WatchOrders -> WatchedRow] /\ book'[o] = r /\ \A x \in WatchOrders : x # o => book'[x] = book[x]
  BY <1>1
<1>3. DOMAIN pins' = WatchOrders /\ DOMAIN pinFeed' = WatchOrders
  BY <1>1 DEF PinUpdated
<1>4. \A x \in WatchOrders : x # o => pins'[x] = pins[x] /\ pinFeed'[x] = pinFeed[x]
  BY <1>1 DEF PinUpdated
<1>5. \A x \in WatchOrders : book[x].status # "none" => book'[x].status # "none"
  BY <1>2 DEF Edit
<1>6. pins'[o] # NoPin => pins[o] # NoPin
  BY <1>1 DEF PinUpdated
<1>7. PinsOfOrders'
  BY <1>4, <1>5, <1>6 DEF RadarInv, PinsOfOrders
<1>8. ASSUME pins'[o] # NoPin, pinFeed'[o] # "nothing"
      PROVE  pinFeed'[o] = StatusEvent(book'[o].status) /\ pins'[o] = PinSnapshot(book', o)
  <2>1. pins[o] # NoPin /\ book[o].status # "none"
    BY <1>1, <1>6, <1>8 DEF RadarInv, PinsOfOrders
  <2>2. pins'[o] = PinSnapshot(book', o)
    BY <1>1, <2>1 DEF PinUpdated
  <2>3. CASE book'[o].left # book[o].left \/ (book'[o].status # book[o].status /\ book'[o].status \notin WatchLive)
    <3>1. pinFeed'[o] = StatusEvent(book'[o].status)
      BY <1>1, <2>1, <2>3 DEF PinUpdated
    <3> QED
      BY <2>2, <3>1
  <2>4. CASE ~ (book'[o].left # book[o].left \/ (book'[o].status # book[o].status /\ book'[o].status \notin WatchLive))
    <3>1. pinFeed'[o] = pinFeed[o] /\ book'[o].status = book[o].status
      BY <1>2, <2>1, <2>4 DEF PinUpdated, Edit
    <3> QED
      BY <1>1, <1>8, <2>1, <2>2, <3>1 DEF RadarInv, PinFeedTrue
  <2> QED BY <2>3, <2>4
<1>9. \A x \in WatchOrders : x # o => PinSnapshot(book', x) = PinSnapshot(book, x)
  BY <1>2 DEF PinSnapshot
<1>10. PinFeedTrue'
  BY <1>2, <1>4, <1>8, <1>9 DEF RadarInv, PinFeedTrue
<1> QED
  BY <1>2, <1>3, <1>7, <1>10

LEMMA AnnounceKeeps ==
    ASSUME RadarInv, NEW o, NEW r, Edit(o, r),
           Announce([book EXCEPT ![o] = r], o) \/ AnnounceUnpriced([book EXCEPT ![o] = r], o)
    PROVE  RadarInv'
<1>1. book' = [book EXCEPT ![o] = r] /\ PinUpdated(book', o) /\ UNCHANGED <<pinning, slice, accepted, entry>>
  BY DEF Announce, AnnounceUnpriced
<1>2. PinsOfOrders' /\ PinFeedTrue' /\ book' \in [WatchOrders -> WatchedRow]
      /\ DOMAIN pins' = WatchOrders /\ DOMAIN pinFeed' = WatchOrders
  BY <1>1, PinsFollow
<1> DEFINE b == BestOf(book)
           c == BestOf(book')
           news == [told |-> c, silent |-> FALSE]
<1>3. \/ feed' = news
      \/ feed' = feed /\ (slice => c = b)
      \/ feed' = [feed EXCEPT !.silent = TRUE]
  <2>1. CASE Announce([book EXCEPT ![o] = r], o)
    BY <1>1, <2>1 DEF Announce, PriceTold
  <2>2. CASE AnnounceUnpriced([book EXCEPT ![o] = r], o)
    BY <1>1, <2>2 DEF AnnounceUnpriced, PriceTold
  <2> QED BY <2>1, <2>2
<1>4. BestOf(book)' = c
  BY DEF BestOf, Visible
<1> HIDE DEF b, c
<1>5. {"told", "silent"} \subseteq DOMAIN feed'
  BY <1>3 DEF RadarInv, RadarTyped
<1>6. FeedTellsBest'
  <2>1. CASE feed' = news
    BY <1>4, <2>1 DEF FeedTellsBest
  <2>2. CASE feed' = feed /\ (slice => c = b)
    BY <1>1, <1>4, <2>2 DEF RadarInv, FeedTellsBest, b
  <2>3. CASE feed' = [feed EXCEPT !.silent = TRUE]
    <3>1. feed'.silent = TRUE
      BY <2>3 DEF RadarInv, RadarTyped
    <3> QED
      BY <3>1 DEF FeedTellsBest
  <2> QED BY <1>3, <2>1, <2>2, <2>3
<1> QED
  BY <1>1, <1>2, <1>5, <1>6 DEF RadarInv, RadarTyped, AcceptedEntryStored

LEMMA RadarStep == RadarInv /\ [RadarNext \/ FeedNext \/ PagesNext]_watchVars => RadarInv'
<1> SUFFICES ASSUME RadarInv, [RadarNext \/ FeedNext \/ PagesNext]_watchVars
             PROVE  RadarInv'
  OBVIOUS
<1>0. book \in [WatchOrders -> WatchedRow] /\ \A o \in WatchOrders : book[o] \in WatchedRow
  BY DEF RadarInv, RadarTyped
<1>1. ASSUME NEW o \in WatchOrders, NEW p \in WatchPrices, WatchedCreated(o, p) PROVE RadarInv'
  <2> DEFINE r == [status |-> "OPEN", price |-> p, left |-> WatchQuantity, hidden |-> "no"]
  <2>1. Edit(o, r)
    BY <1>1, WatchAssumption DEF Edit, WatchedCreated, WatchedRow, OrderStatuses
  <2> QED
    BY <1>1, <2>1, AnnounceKeeps DEF WatchedCreated
<1>2. ASSUME NEW o \in WatchOrders, NEW p \in WatchPrices, WatchedAmended(o, p) PROVE RadarInv'
  <2> DEFINE r == [book[o] EXCEPT !.price = p]
  <2>1. Edit(o, r)
    BY <1>0, <1>2 DEF Edit, WatchedAmended, WatchedRow, Visible, WatchLive
  <2>2. [book EXCEPT ![o].price = p] = [book EXCEPT ![o] = r]
    BY <1>0
  <2> QED
    BY <1>2, <2>1, <2>2, AnnounceKeeps DEF WatchedAmended
<1>3. ASSUME NEW o \in WatchOrders, WatchedFilled(o) PROVE RadarInv'
  <2> DEFINE left == book[o].left - 1
             r == [book[o] EXCEPT !.left = left, !.status = StatusOfLeft(left)]
  <2>1. StatusOfLeft(left) \in OrderStatuses \ {"none"} /\ left \in Int /\ left # book[o].left
    BY <1>0 DEF StatusOfLeft, OrderStatuses, WatchedRow
  <2>2. Edit(o, r)
    BY <1>0, <2>1 DEF Edit, WatchedRow
  <2>3. [book EXCEPT ![o].left = left, ![o].status = StatusOfLeft(left)] = [book EXCEPT ![o] = r]
    BY <1>0
  <2> QED
    BY <1>3, <2>2, <2>3, AnnounceKeeps DEF WatchedFilled
<1>4. ASSUME NEW o \in WatchOrders, WatchedDeclined(o) PROVE RadarInv'
  <2> DEFINE left == book[o].left + 1
             s == IF book[o].hidden = "due" THEN "EXPIRED" ELSE StatusOfLeft(left)
             r == [book[o] EXCEPT !.left = left, !.status = s]
  <2>1. s \in OrderStatuses \ {"none"} /\ left \in Int /\ left # book[o].left
    BY <1>0 DEF StatusOfLeft, OrderStatuses, WatchedRow
  <2>2. Edit(o, r)
    BY <1>0, <2>1 DEF Edit, WatchedRow
  <2>3. [book EXCEPT ![o].left = left, ![o].status = s] = [book EXCEPT ![o] = r]
    BY <1>0
  <2> QED
    BY <1>4, <2>2, <2>3, AnnounceKeeps DEF WatchedDeclined
<1>5. ASSUME NEW o \in WatchOrders, WatchedCancelled(o) PROVE RadarInv'
  <2> DEFINE r == [book[o] EXCEPT !.status = "CANCELLED"]
  <2>1. Edit(o, r)
    BY <1>0, <1>5 DEF Edit, WatchedCancelled, WatchedRow, Visible, WatchLive, OrderStatuses
  <2>2. [book EXCEPT ![o].status = "CANCELLED"] = [book EXCEPT ![o] = r]
    BY <1>0
  <2> QED
    BY <1>5, <2>1, <2>2, AnnounceKeeps DEF WatchedCancelled
<1>6. ASSUME NEW o \in WatchOrders, WatchedExpired(o) PROVE RadarInv'
  <2> DEFINE r == [book[o] EXCEPT !.status = "EXPIRED"]
  <2>1. Edit(o, r)
    BY <1>0, <1>6 DEF Edit, WatchedExpired, WatchedRow, WatchLive, OrderStatuses
  <2>2. [book EXCEPT ![o].status = "EXPIRED"] = [book EXCEPT ![o] = r]
    BY <1>0
  <2> QED
    BY <1>6, <2>1, <2>2, AnnounceKeeps DEF WatchedExpired
<1>7. ASSUME NEW o \in WatchOrders, WatchedInvalidated(o) PROVE RadarInv'
  <2>1. PICK left \in book[o].left .. WatchQuantity :
          AnnounceUnpriced([book EXCEPT ![o].left = left, ![o].status = "CANCELLED"], o)
    BY <1>7 DEF WatchedInvalidated
  <2> DEFINE r == [book[o] EXCEPT !.left = left, !.status = "CANCELLED"]
  <2>2. left \in Int
    BY <1>0, WatchAssumption DEF WatchedRow
  <2>3. Edit(o, r)
    BY <1>0, <1>7, <2>2 DEF Edit, WatchedInvalidated, WatchedRow, WatchLive, OrderStatuses
  <2>4. [book EXCEPT ![o].left = left, ![o].status = "CANCELLED"] = [book EXCEPT ![o] = r]
    BY <1>0
  <2> QED
    BY <2>1, <2>3, <2>4, AnnounceKeeps
<1>8. ASSUME NEW o \in WatchOrders, NEW h \in {"no", "due", "owner"}, WatchedHidden(o, h) PROVE RadarInv'
  <2> DEFINE r == [book[o] EXCEPT !.hidden = h]
             b == BestOf(book)
             c == BestOf(book')
  <2>1. book' = [book EXCEPT ![o] = r] /\ UNCHANGED <<entry, slice, pins, pinning, accepted, pinFeed>>
    BY <1>0, <1>8 DEF WatchedHidden, Silently
  <2>2. r \in WatchedRow /\ r.status = book[o].status /\ r.left = book[o].left
    BY <1>0 DEF WatchedRow
  <2> HIDE DEF r
  <2>3. book' \in [WatchOrders -> WatchedRow]
        /\ \A x \in WatchOrders : book'[x].status = book[x].status /\ book'[x].left = book[x].left
    BY <1>0, <2>1, <2>2
  <2>4. \A x \in WatchOrders : PinSnapshot(book', x) = PinSnapshot(book, x)
    BY <2>3 DEF PinSnapshot
  <2>5. PinsOfOrders' /\ PinFeedTrue' /\ AcceptedEntryStored'
    BY <2>1, <2>3, <2>4 DEF RadarInv, PinsOfOrders, PinFeedTrue, AcceptedEntryStored
  <2>6. feed' = IF c # b THEN [feed EXCEPT !.silent = TRUE] ELSE feed
    BY <1>8 DEF WatchedHidden, Silently
  <2>7. BestOf(book)' = c
    BY DEF BestOf, Visible
  <2> HIDE DEF b, c
  <2>8. {"told", "silent"} \subseteq DOMAIN feed' /\ (c # b => feed'.silent = TRUE)
    BY <2>6 DEF RadarInv, RadarTyped
  <2>9. FeedTellsBest'
    BY <2>1, <2>6, <2>7, <2>8 DEF RadarInv, FeedTellsBest, b
  <2> QED
    BY <2>1, <2>3, <2>5, <2>8, <2>9 DEF RadarInv, RadarTyped
<1>10. UNCHANGED book => BestOf(book)' = BestOf(book)
  BY DEF BestOf, Visible
<1>11. CASE EnsureRadar \/ \E t \in WatchTabs : AddEntryReads(t)
  BY <1>11, RadarKept DEF EnsureRadar, AddEntryReads
<1>12. {"told", "silent"} \subseteq DOMAIN NothingTold /\ ~ (NothingTold.told >= 0)
  BY DEF NothingTold
<1>13. ASSUME NEW t \in WatchTabs, AddEntryCommits(t) PROVE RadarInv'
  <2>1. UNCHANGED <<pins, pinning, book, pinFeed>>
    BY <1>13 DEF AddEntryCommits
  <2>2. PinsOfOrders' /\ PinFeedTrue'
    BY <2>1 DEF RadarInv, PinsOfOrders, PinFeedTrue, PinSnapshot
  <2>3. CASE entry
    BY <1>10, <1>13, <2>1, <2>2, <2>3 DEF AddEntryCommits, RadarInv, RadarTyped, FeedTellsBest, AcceptedEntryStored
  <2>4. CASE ~ entry
    <3>1. ~ accepted
      BY <2>4 DEF RadarInv, AcceptedEntryStored
    <3>2. AcceptedEntryStored'
      BY <1>13, <2>4, <3>1 DEF AddEntryCommits, AcceptedEntryStored, EntryKept
    <3>3. feed' = IF slice THEN feed ELSE NothingTold
      BY <1>13, <2>4 DEF AddEntryCommits
    <3>4. FeedTellsBest' /\ {"told", "silent"} \subseteq DOMAIN feed'
      BY <1>10, <1>12, <2>1, <3>3 DEF RadarInv, RadarTyped, FeedTellsBest
    <3> QED
      BY <2>1, <2>2, <3>2, <3>4 DEF RadarInv, RadarTyped
  <2> QED BY <2>3, <2>4
<1>14. CASE RemoveEntry
  BY <1>12, <1>14 DEF RemoveEntry, RadarInv, RadarTyped, PinsOfOrders, FeedTellsBest, PinFeedTrue, AcceptedEntryStored, PinSnapshot
<1>15. CASE SaveSlice
  BY <1>12, <1>15 DEF SaveSlice, RadarInv, RadarTyped, PinsOfOrders, FeedTellsBest, PinFeedTrue, AcceptedEntryStored, PinSnapshot
<1>16. ASSUME NEW t \in PinTabs, NEW o \in WatchOrders, PinReads(t, o) PROVE RadarInv'
  BY <1>10, <1>16 DEF PinReads, RadarInv, RadarTyped, PinsOfOrders, FeedTellsBest, PinFeedTrue, AcceptedEntryStored, PinSnapshot
<1>17. ASSUME NEW t \in PinTabs, PinCommits(t) PROVE RadarInv'
  <2> DEFINE r == pinning[t]
  <2>1. r # NotPinning /\ r.order \in WatchOrders /\ book[r.order].status # "none"
        /\ pinning' = [pinning EXCEPT ![t] = NotPinning] /\ UNCHANGED <<entry, accepted, book>>
    BY <1>17 DEF PinCommits, RadarInv, PinsOfOrders
  <2>2. CASE UNCHANGED <<slice, pins, feed, pinFeed>>
    BY <1>10, <2>1, <2>2 DEF RadarInv, RadarTyped, PinsOfOrders, FeedTellsBest, PinFeedTrue, AcceptedEntryStored, PinSnapshot
  <2>3. CASE ~ UNCHANGED <<slice, pins, feed, pinFeed>>
    <3>1. /\ pins' = [pins EXCEPT ![r.order] = r.snap]
          /\ pinFeed' = [pinFeed EXCEPT ![r.order] = "nothing"]
          /\ feed' = IF slice THEN feed ELSE NothingTold
      BY <1>17, <2>3 DEF PinCommits
    <3>2. FeedTellsBest' /\ {"told", "silent"} \subseteq DOMAIN feed'
      BY <1>10, <1>12, <2>1, <3>1 DEF RadarInv, RadarTyped, FeedTellsBest
    <3>3. DOMAIN pins' = WatchOrders /\ DOMAIN pinFeed' = WatchOrders /\ DOMAIN pinning' = PinTabs
      BY <2>1, <3>1 DEF RadarInv, RadarTyped
    <3>4. PinsOfOrders' /\ PinFeedTrue'
      BY <2>1, <3>1 DEF RadarInv, RadarTyped, PinsOfOrders, PinFeedTrue, PinSnapshot
    <3> QED
      BY <2>1, <3>2, <3>3, <3>4 DEF RadarInv, RadarTyped, AcceptedEntryStored
  <2> QED BY <2>2, <2>3
<1>18. CASE DeleteSlice
  BY <1>12, <1>18 DEF DeleteSlice, RadarInv, RadarTyped, PinsOfOrders, FeedTellsBest, PinFeedTrue, AcceptedEntryStored, PinSnapshot
<1>19. ASSUME NEW o \in WatchOrders, DeletePin(o) PROVE RadarInv'
  BY <1>10, <1>19 DEF DeletePin, RadarInv, RadarTyped, PinsOfOrders, FeedTellsBest, PinFeedTrue, AcceptedEntryStored, PinSnapshot
<1>20. CASE PagesNext \/ UNCHANGED watchVars
  BY <1>20, RadarKept DEF PagesNext, ReadPage, EventStored, watchVars, radarVars
<1>21. CASE RadarNext
  BY <1>11, <1>13, <1>14, <1>15, <1>18, <1>21 DEF RadarNext
<1>22. CASE FeedNext
  BY <1>1, <1>2, <1>3, <1>4, <1>5, <1>6, <1>7, <1>8, <1>11, <1>15, <1>16, <1>17, <1>18, <1>19, <1>22 DEF FeedNext
<1> QED
  BY <1>20, <1>21, <1>22

-----------------------------------------------------------------------------
(* Pages of the feed *)

Stamp == [at : Nat, id : Nat]

\* The stored events are finitely many, each with its id.
LogTyped ==
    /\ log \subseteq Stamp /\ IsFiniteSet(log)
    /\ \A e \in log : e.at \in WatchTimes
    /\ \A e, f \in log : e.id = f.id => e = f

\* A reader has got nothing beyond its cursor, and whatever it must get and has not got is.
PagerBehind ==
    /\ pager.cursor \in Stamp
    /\ pager.twice = FALSE
    /\ pager.got \subseteq log /\ pager.due \subseteq log
    /\ \A e \in pager.got : ~ After(pager.cursor, e)
    /\ \A e \in pager.due : e \in pager.got \/ After(pager.cursor, e)
    /\ pager.done = TRUE => pager.due \subseteq pager.got
    /\ pager.done \in BOOLEAN

PageInv == LogTyped /\ PagerBehind

\* The order of the feed is a strict order, total on stored events.
LEMMA FeedOrder ==
    ASSUME NEW a \in Stamp, NEW b \in Stamp, NEW c \in Stamp
    PROVE  /\ After(a, b) /\ After(b, c) => After(a, c)
           /\ After(a, b) => ~ After(b, a)
           /\ a.id # b.id => After(a, b) \/ After(b, a)
<1>1. a.at \in Nat /\ a.id \in Nat /\ b.at \in Nat /\ b.id \in Nat /\ c.at \in Nat /\ c.id \in Nat
  BY DEF Stamp
<1>2. After(a, b) /\ After(b, c) => After(a, c)
  BY <1>1 DEF After
<1>3. After(a, b) => ~ After(b, a)
  BY <1>1 DEF After
<1>4. a.id # b.id => After(a, b) \/ After(b, a)
  BY <1>1 DEF After
<1> QED BY <1>2, <1>3, <1>4

LEMMA TimesTop == Max(WatchTimes) \in Nat /\ \A t \in WatchTimes : t < Max(WatchTimes) + 1
<1>1. \E a \in WatchTimes : \A b \in WatchTimes : a >= b
  BY WatchAssumption
<1>2. Max(WatchTimes) \in WatchTimes /\ \A b \in WatchTimes : Max(WatchTimes) >= b
  BY <1>1 DEF Max
<1>3. PICK m \in WatchTimes : m = Max(WatchTimes) /\ \A b \in WatchTimes : m >= b
  BY <1>2
<1>4. WatchTimes \subseteq Nat
  BY WatchAssumption
<1>5. m \in Nat /\ \A t \in WatchTimes : t < m + 1
  BY <1>3, <1>4
<1> QED
  BY <1>3, <1>5

LEMMA PageInvInit == WatchInit => PageInv
<1> SUFFICES ASSUME WatchInit PROVE PageInv
  OBVIOUS
<1>1. LogTyped
  BY FS_EmptySet DEF WatchInit, LogTyped
<1>2. Start \in Stamp
  BY TimesTop DEF Start, Stamp
<1>3. PagerBehind
  BY <1>2 DEF WatchInit, PagerBehind, NewReader
<1> QED BY <1>1, <1>3 DEF PageInv

\* A page that is not empty has a last row.
LEMMA LastOfPage ==
    ASSUME NEW S, S \subseteq Stamp, S # {}, \A e, f \in S : e.id = f.id => e = f
    PROVE  \E e \in S : \A f \in S : f = e \/ After(f, e)
<1> DEFINE times == {e.at : e \in S}
<1>1. times \subseteq Nat /\ times # {}
  BY DEF Stamp
<1>2. PICK t \in times : \A u \in times : t <= u
  BY <1>1, LeastNat
<1> DEFINE ids == {e.id : e \in {f \in S : f.at = t}}
<1>3. ids \subseteq Nat /\ ids # {}
  BY <1>2 DEF Stamp
<1>4. PICK i \in ids : \A j \in ids : i <= j
  BY <1>3, LeastNat
<1>5. PICK e \in S : e.at = t /\ e.id = i
  BY <1>4
<1>6. ASSUME NEW f \in S PROVE f = e \/ After(f, e)
  <2>1. f.at \in times /\ (f.at = t => f.id \in ids)
    OBVIOUS
  <2>2. t <= f.at /\ (f.at = t => i <= f.id) /\ t \in Nat /\ i \in Nat /\ f.at \in Nat /\ f.id \in Nat
    BY <1>1, <1>2, <1>3, <1>4, <2>1 DEF Stamp
  <2>3. f.id = e.id => f = e
    OBVIOUS
  <2> HIDE DEF times, ids
  <2> QED
    BY <1>5, <2>2, <2>3 DEF After
<1> QED
  BY <1>5, <1>6

\* The rows of a page come before every row selected with it that is left for later.
LEMMA PageFirst ==
    ASSUME NEW rest, rest \subseteq Stamp, IsFiniteSet(rest), NEW e \in rest, NEW g \in rest, After(g, e),
           Cardinality({f \in rest : After(f, e)}) < PageSize
    PROVE  Cardinality({f \in rest : After(f, g)}) < PageSize
<1> DEFINE E == {f \in rest : After(f, e)}
           G == {f \in rest : After(f, g)}
<1>1. G \subseteq E
  BY FeedOrder
<1>2. IsFiniteSet(E)
  BY FS_Subset
<1> HIDE DEF E, G
<1>3. IsFiniteSet(G) /\ Cardinality(G) <= Cardinality(E)
  BY <1>1, <1>2, FS_Subset
<1>4. Cardinality(G) \in Nat /\ Cardinality(E) \in Nat
  BY <1>2, <1>3, FS_CardinalityType
<1>5. Cardinality(E) < PageSize
  BY DEF E
<1>6. Cardinality(G) < PageSize
  BY <1>3, <1>4, <1>5, WatchAssumption
<1> QED
  BY <1>6 DEF G

LEMMA PageStep == PageInv /\ [RadarNext \/ FeedNext \/ PagesNext]_watchVars => PageInv'
<1> SUFFICES ASSUME PageInv, [RadarNext \/ FeedNext \/ PagesNext]_watchVars
             PROVE  PageInv'
  OBVIOUS
<1>1. CASE UNCHANGED pageVars
  BY <1>1 DEF pageVars, PageInv, LogTyped, PagerBehind
<1>2. RadarNext => UNCHANGED pageVars
  BY ZenonT(40) DEF RadarNext, EnsureRadar, SaveSlice, DeleteSlice, RemoveEntry, AddEntryReads, AddEntryCommits
<1>3. FeedNext => UNCHANGED pageVars
  BY ZenonT(40) DEF FeedNext, EnsureRadar, SaveSlice, DeleteSlice, PinCommits, PinReads, DeletePin, WatchedFilled, WatchedDeclined,
         WatchedCancelled, WatchedExpired, WatchedInvalidated, WatchedCreated, WatchedAmended, WatchedHidden,
         Announce, AnnounceUnpriced, Silently
<1>4. ASSUME NEW at \in WatchTimes, EventStored(at) PROVE PageInv'
  <2>1. PICK id \in 1 .. MaxWatchLog : (\A e \in log : e.id # id) /\ log' = log \union {[at |-> at, id |-> id]}
    BY <1>4 DEF EventStored
  <2> DEFINE new == [at |-> at, id |-> id]
  <2>2. new \in Stamp /\ new.at = at /\ new.id = id
    BY WatchAssumption DEF Stamp
  <2> HIDE DEF new
  <2>3. log' = log \union {new}
    BY <2>1 DEF new
  <2>4. LogTyped'
    BY <2>1, <2>2, <2>3, FS_AddElement DEF PageInv, LogTyped
  <2> QED
    BY <1>4, <2>3, <2>4 DEF EventStored, PageInv, PagerBehind
<1>5. CASE ReadPage
  <2> DEFINE c == pager.cursor
             rest == {e \in log : After(c, e)}
             page == {e \in rest : Cardinality({f \in rest : After(f, e)}) < PageSize}
             last == IF page = {} THEN c ELSE CHOOSE e \in page : \A f \in page : f = e \/ After(f, e)
             due == IF c = Start THEN log ELSE pager.due
  <2>1. /\ pager' = [cursor |-> last, got |-> pager.got \union page,
                     twice |-> pager.twice \/ pager.got \cap page # {}, due |-> due, done |-> page = rest]
        /\ log' = log
    BY <1>5 DEF ReadPage, BeyondCursor
  <2>2. rest \subseteq log /\ rest \subseteq Stamp /\ IsFiniteSet(rest) /\ page \subseteq rest
    BY FS_Subset DEF PageInv, LogTyped
  <2>3. \A e \in rest, g \in rest : After(g, e) /\ e \in page => g \in page
    BY <2>2, PageFirst
  <2>4. \A e \in rest : After(c, e)
    OBVIOUS
  <2>5. c \in Stamp /\ \A e \in log : e \in rest \/ ~ After(c, e)
    BY DEF PageInv, PagerBehind
  <2>6. \A e \in due : e \in log /\ (e \in pager.got \/ e \in rest)
    <3>1. CASE c = Start
      <4>1. \A e \in log : After(Start, e)
        BY TimesTop DEF PageInv, LogTyped, Start, After, Stamp
      <4> QED
        BY <3>1, <4>1
    <3>2. CASE c # Start
      BY <3>2 DEF PageInv, PagerBehind
    <3> QED BY <3>1, <3>2
  <2>7. \A e, f \in log : e.id = f.id => e = f
    BY DEF PageInv, LogTyped
  <2>8. \A e \in pager.got : e \in log /\ ~ After(c, e)
    BY DEF PageInv, PagerBehind
  <2> HIDE DEF rest, page, due
  <2>9. pager.got \cap page = {}
    BY <2>2, <2>4, <2>8
  <2>10. CASE page = {}
    <3>1. last = c
      BY <2>10
    <3> HIDE DEF last
    <3>2. /\ pager'.cursor = c /\ pager'.got = pager.got /\ pager'.due = due
      BY <2>1, <2>10, <3>1
    <3>3. pager'.twice = FALSE
      BY <2>1, <2>9 DEF PageInv, PagerBehind
    <3>4. pager'.done = (page = rest)
      BY <2>1
    <3>5. pager'.done = TRUE => due \subseteq pager.got
      BY <2>6, <2>10, <3>4
    <3>6. PagerBehind'
      BY <2>1, <2>4, <2>5, <2>6, <2>8, <3>2, <3>3, <3>4, <3>5 DEF PagerBehind
    <3> QED
      BY <2>1, <3>6 DEF PageInv, LogTyped
  <2>11. CASE page # {}
    <3>1. \E e \in page : \A f \in page : f = e \/ After(f, e)
      BY <2>2, <2>7, <2>11, LastOfPage
    <3>2. last \in page /\ \A f \in page : f = last \/ After(f, last)
      BY <2>11, <3>1
    <3> HIDE DEF last
    <3>3. last \in Stamp /\ last \in rest /\ After(c, last)
      BY <2>2, <2>4, <3>2
    <3>4. \A e \in pager.got \union page : e \in log /\ e \in Stamp /\ ~ After(last, e)
      <4>1. ASSUME NEW e \in pager.got PROVE ~ After(last, e)
        BY <2>5, <2>8, <3>3, FeedOrder DEF PageInv, LogTyped
      <4>2. ASSUME NEW e \in page PROVE ~ After(last, e)
        <5>1. ~ After(last, last)
          BY <3>3, FeedOrder
        <5> QED
          BY <2>2, <3>2, <3>3, <5>1, FeedOrder
      <4> QED
        BY <2>2, <2>8, <4>1, <4>2 DEF PageInv, LogTyped
    <3>5. \A e \in rest : e \in page \/ After(last, e)
      <4> SUFFICES ASSUME NEW e \in rest, e \notin page PROVE After(last, e)
        OBVIOUS
      <4>1. ~ After(e, last)
        BY <2>3, <3>2, <3>3
      <4>2. e.id # last.id
        BY <2>2, <2>7, <3>2, <3>3
      <4> QED
        BY <2>2, <3>3, <4>1, <4>2, FeedOrder
    <3>6. /\ pager'.cursor = last /\ pager'.got = pager.got \union page /\ pager'.due = due
      BY <2>1
    <3>7. pager'.twice = FALSE
      BY <2>1, <2>9 DEF PageInv, PagerBehind
    <3>8. pager'.done = (page = rest)
      BY <2>1
    <3>9. pager'.done = TRUE => due \subseteq pager.got \union page
      BY <2>6, <3>8
    <3>10. PagerBehind'
      BY <2>1, <2>6, <3>3, <3>4, <3>5, <3>6, <3>7, <3>8, <3>9 DEF PagerBehind
    <3> QED
      BY <2>1, <3>10 DEF PageInv, LogTyped
  <2> QED BY <2>10, <2>11
<1> QED
  BY <1>1, <1>2, <1>3, <1>4, <1>5 DEF PagesNext, watchVars

\* A watchlist tells the truth, with any number of tabs, orders, prices, events and pages: the
\* best price and the pin events as the book has them, entries as they were accepted, and pages
\* of events without gap or repetition (watchlist_events.py, add_watchlist_entry,
\* create_watchlist_target, list_watchlist_events).
THEOREM FeedAlwaysTrue == WatchSpec => []FeedTrue
<1>1. RadarInv /\ PageInv => FeedTrue
  BY DEF RadarInv, PageInv, PagerBehind, FeedTrue, PagesComplete
<1> QED BY <1>1, RadarInvInit, RadarStep, PageInvInit, PageStep, PTL DEF WatchSpec

(***************************************************************************)
(* Forward marks: the cell, the summary and the signals                    *)
(***************************************************************************)
DealtTyped ==
  /\ markTime \in Nat
  /\ dealt \in [MarkTrades -> [at : Nat, class : MarkClasses \cup {"none"}, committed : BOOLEAN]]

\* What a committed trade is stays as it is.
TradesKept ==
  \A t \in MarkTrades : dealt[t].committed =>
    dealt'[t].committed /\ dealt'[t].at = dealt[t].at /\ dealt'[t].class = dealt[t].class

\* Stamping or committing a trade changes no committed one (confirmed_at is written once).
LEMMA TradeStep ==
  ASSUME DealtTyped, NEW t \in MarkTrades,
         TradeCommits(t) \/ \E c \in MarkClasses : TradeStamped(t, c)
  PROVE  DealtTyped' /\ TradesKept
<1>1. CASE TradeCommits(t)
  <2>1. dealt' = [dealt EXCEPT ![t] = [dealt[t] EXCEPT !.committed = TRUE]] /\ markTime' = markTime
    BY <1>1 DEF TradeCommits, DealtTyped
  <2>2. [dealt[t] EXCEPT !.committed = TRUE] \in [at : Nat, class : MarkClasses \cup {"none"}, committed : BOOLEAN]
    BY DEF DealtTyped
  <2>3. DealtTyped'
    BY <2>1, <2>2 DEF DealtTyped
  <2>4. ~ dealt[t].committed
    BY <1>1 DEF TradeCommits
  <2>5. \A u \in MarkTrades : dealt[u].committed => dealt'[u] = dealt[u]
    BY <2>1, <2>4 DEF DealtTyped
  <2> QED BY <2>3, <2>5 DEF TradesKept
<1>2. CASE \E c \in MarkClasses : TradeStamped(t, c)
  <2>1. PICK c \in MarkClasses : TradeStamped(t, c)
    BY <1>2
  <2>2. /\ dealt' = [dealt EXCEPT ![t] = [at |-> markTime, class |-> c, committed |-> FALSE]]
        /\ dealt[t] = Undealt /\ markTime' = markTime
    BY <2>1 DEF TradeStamped
  <2>3. DealtTyped'
    BY <2>2 DEF DealtTyped
  <2>4. ~ dealt[t].committed
    BY <2>2 DEF Undealt
  <2>5. \A u \in MarkTrades : dealt[u].committed => dealt'[u] = dealt[u]
    BY <2>2, <2>4 DEF DealtTyped
  <2> QED BY <2>3, <2>5 DEF TradesKept
<1> QED BY <1>1, <1>2

\* Committed evidence stays evidence (trade_evidence_clause).
LEMMA EvidenceGrows ==
  ASSUME DealtTyped, TradesKept, NEW c, NEW cutoff
  PROVE  Evidence(c, cutoff) \subseteq Evidence(c, cutoff)'
BY DEF DealtTyped, TradesKept, Evidence, Committed

CellFields == {"pc", "book", "trade", "backing", "mark", "backed"}

\* What a load that found the slice backed has in hand at each of its steps.
LoadInv ==
  /\ CellFields \subseteq DOMAIN loading
  /\ loading.pc \in {"idle", "first", "second", "references", "cell", "done"}
  /\ loading.trade \in {"none", "REAL", "DEMO"}
  /\ loading.pc = "second" /\ loading.backed =>
       TwoSided(loading.book, "REAL") \/ Evidence("REAL", 0) \cup Evidence("DEMO", 0) # {}
  /\ loading.pc \in {"references", "cell", "done"} /\ loading.backed =>
       TwoSided(loading.book, "REAL") \/ loading.trade # "none"
  /\ loading.pc = "done" => loading.mark = PrimaryMark(loading.book, loading.trade, loading.backing)

\* What _primary_mark returns: a real trade first, a book that is there, and a reference only
\* when there is neither a trade nor a two-sided real book.
LEMMA PrimaryMarkSound ==
  ASSUME NEW quotes, NEW trade \in {"none", "REAL", "DEMO"}, NEW backing
  PROVE  LET mark == PrimaryMark(quotes, trade, backing) IN
         /\ TwoSided(quotes, "REAL") \/ trade # "none" => mark.kind \in {"book", "trade"}
         /\ mark.class = "REAL" => trade = "REAL" \/ TwoSided(quotes, "REAL")
         /\ mark.executable => TwoSided(quotes, "REAL") /\ trade # "REAL"
         /\ trade = "REAL" => mark.class = "REAL"
<1> DEFINE preferred == PrefersManaged(quotes, trade)
           mark == PrimaryMark(quotes, trade, backing)
           real == TwoSided(quotes, "REAL")
           demo == TwoSided(quotes, "DEMO") /\ Count(quotes, "REAL") = 0
<1>1. preferred => demo /\ trade \in {"none", "DEMO"}
  BY DEF PrefersManaged, SelectClass
<1>2. trade # "none" /\ ~preferred => mark = [kind |-> "trade", class |-> trade, executable |-> FALSE]
  BY DEF PrimaryMark
<1>3. (trade = "none" \/ preferred) /\ real => mark = [kind |-> "book", class |-> "REAL", executable |-> TRUE]
  BY DEF PrimaryMark
<1>4. (trade = "none" \/ preferred) /\ ~real /\ demo => mark = [kind |-> "book", class |-> "DEMO", executable |-> FALSE]
  BY DEF PrimaryMark
<1>5. (trade = "none" \/ preferred) /\ ~real /\ ~demo =>
        mark \in {NoMark, [kind |-> "reference", class |-> "none", executable |-> FALSE]}
  BY DEF PrimaryMark
<1> HIDE DEF preferred, mark, real, demo
<1>6. /\ real \/ trade # "none" => mark.kind \in {"book", "trade"}
      /\ mark.class = "REAL" => trade = "REAL" \/ real
      /\ mark.executable => real /\ trade # "REAL"
      /\ trade = "REAL" => mark.class = "REAL"
  BY <1>1, <1>2, <1>3, <1>4, <1>5 DEF NoMark
<1> QED BY <1>6 DEF mark, real

\* A load in progress, or finished, has what MarkSurvivesTrade and RealMarkIsReal ask for
\* (load_many, _primary_mark).
LEMMA LoadHolds == LoadInv => MarkSurvivesTrade /\ RealMarkIsReal
<1> SUFFICES ASSUME LoadInv, loading.pc = "done"
    PROVE /\ loading.backed => loading.mark.kind \in {"book", "trade"}
          /\ loading.mark.class = "REAL" => loading.trade = "REAL" \/ TwoSided(loading.book, "REAL")
          /\ loading.mark.executable => TwoSided(loading.book, "REAL") /\ loading.trade # "REAL"
          /\ loading.trade = "REAL" => loading.mark.class = "REAL"
  BY DEF MarkSurvivesTrade, RealMarkIsReal
<1>1. /\ loading.mark = PrimaryMark(loading.book, loading.trade, loading.backing)
      /\ loading.trade \in {"none", "REAL", "DEMO"}
      /\ loading.backed => TwoSided(loading.book, "REAL") \/ loading.trade # "none"
  BY DEF LoadInv
<1> QED BY <1>1, PrimaryMarkSound

\* Trades and quotes that commit between two statements of a load take nothing from it.
LEMMA LoadKept ==
  ASSUME LoadInv, DealtTyped, TradesKept, loading' = loading
  PROVE  LoadInv'
<1>1. Evidence("REAL", 0) \subseteq Evidence("REAL", 0)' /\ Evidence("DEMO", 0) \subseteq Evidence("DEMO", 0)'
  BY EvidenceGrows
<1>2. Evidence("REAL", 0) \cup Evidence("DEMO", 0) # {} => Evidence("REAL", 0)' \cup Evidence("DEMO", 0)' # {}
  BY <1>1
<1>3. /\ loading'.pc = "second" /\ loading'.backed =>
           TwoSided(loading.book, "REAL") \/ (Evidence("REAL", 0) \cup Evidence("DEMO", 0) # {})'
  BY <1>2 DEF LoadInv
<1> QED BY <1>3 DEF LoadInv, CellFields, TwoSided, PrimaryMark, PrefersManaged, SelectClass, Count, ManagedBook, NoMark

\* Every step of load_many keeps what the load has in hand.
LEMMA LoadStep ==
  ASSUME LoadInv, DealtTyped, LoadBegins \/ LoadFirst \/ LoadSecond \/ LoadReferences \/ BuildCell
  PROVE  LoadInv'
<1>1. dealt' = dealt /\ resting' = resting
  BY DEF LoadBegins, LoadFirst, LoadSecond, LoadReferences, BuildCell
<1>2. CASE LoadBegins
  <2>1. loading' = [Unloaded EXCEPT !.pc = "first", !.backed = Backed]
    BY <1>2 DEF LoadBegins
  <2>2. CellFields \subseteq DOMAIN loading' /\ loading'.pc = "first" /\ loading'.trade = "none"
    BY <2>1 DEF Unloaded, CellFields
  <2> QED BY <2>2 DEF LoadInv
<1>3. CASE LoadFirst
  <2>1. loading' = [[loading EXCEPT !.book = resting, !.backed = @ /\ Backed] EXCEPT !.pc = "second"]
    BY <1>3 DEF LoadFirst, Reads, ReadBook, LoadOrder
  <2>2. /\ CellFields \subseteq DOMAIN loading' /\ loading'.pc = "second"
        /\ loading'.trade = loading.trade /\ loading'.book = resting
    BY <2>1 DEF LoadInv, CellFields
  <2>3. loading'.backed = (loading.backed /\ Backed)
    BY <2>1 DEF LoadInv, CellFields
  <2>4. Evidence("REAL", 0)' = Evidence("REAL", 0) /\ Evidence("DEMO", 0)' = Evidence("DEMO", 0)
    BY <1>1 DEF Evidence, Committed
  <2>5. loading'.backed => TwoSided(loading'.book, "REAL") \/ Evidence("REAL", 0)' \cup Evidence("DEMO", 0)' # {}
    BY <2>2, <2>3, <2>4 DEF Backed
  <2> QED BY <2>2, <2>5 DEF LoadInv, TwoSided
<1>4. CASE LoadSecond
  <2> DEFINE print == IF Evidence("REAL", 0) # {} THEN "REAL" ELSE IF Evidence("DEMO", 0) # {} THEN "DEMO" ELSE "none"
  <2>1. loading' = [[loading EXCEPT !.backed = @ /\ Backed, !.trade = print] EXCEPT !.pc = "references"]
    BY <1>4 DEF LoadSecond, Reads, ReadTrades, LoadOrder
  <2>2. print \in {"none", "REAL", "DEMO"}
    OBVIOUS
  <2>3. Evidence("REAL", 0) \cup Evidence("DEMO", 0) # {} => print # "none"
    OBVIOUS
  <2> HIDE DEF print
  <2>4. /\ CellFields \subseteq DOMAIN loading' /\ loading'.pc = "references"
        /\ loading'.trade = print /\ loading'.book = loading.book
    BY <2>1 DEF LoadInv, CellFields
  <2>5. loading'.backed = (loading.backed /\ Backed)
    BY <2>1 DEF LoadInv, CellFields
  <2>6. loading'.backed => TwoSided(loading'.book, "REAL") \/ loading'.trade # "none"
    BY <1>4, <2>3, <2>4, <2>5 DEF LoadSecond, LoadInv
  <2> QED BY <2>2, <2>4, <2>6 DEF LoadInv, TwoSided
<1>5. CASE LoadReferences
  <2>1. loading' = [loading EXCEPT !.pc = "cell", !.backing = references] /\ loading.pc = "references"
    BY <1>5 DEF LoadReferences
  <2>2. /\ CellFields \subseteq DOMAIN loading' /\ loading'.pc = "cell"
        /\ loading'.trade = loading.trade /\ loading'.book = loading.book /\ loading'.backed = loading.backed
    BY <2>1 DEF LoadInv, CellFields
  <2> QED BY <2>1, <2>2 DEF LoadInv, TwoSided
<1>6. CASE BuildCell
  <2> DEFINE mark == PrimaryMark(loading.book, loading.trade, loading.backing)
  <2>1. loading' = [loading EXCEPT !.pc = "done", !.mark = mark] /\ loading.pc = "cell"
    BY <1>6 DEF BuildCell
  <2> HIDE DEF mark
  <2>2. /\ CellFields \subseteq DOMAIN loading' /\ loading'.pc = "done" /\ loading'.mark = mark
        /\ loading'.trade = loading.trade /\ loading'.book = loading.book /\ loading'.backed = loading.backed
        /\ loading'.backing = loading.backing
    BY <2>1 DEF LoadInv, CellFields
  <2>3. PrimaryMark(loading.book, loading.trade, loading.backing)' = mark
    BY <2>2 DEF mark, PrimaryMark, PrefersManaged, SelectClass, Count, ManagedBook, TwoSided, NoMark
  <2> QED BY <2>1, <2>2, <2>3 DEF LoadInv, TwoSided
<1> QED BY <1>2, <1>3, <1>4, <1>5, <1>6

SummaryFields == {"pc", "scope", "cutoff", "row", "unknown"}
SummaryScopes == {"REAL", "DEMO"}

\* Every trade of a row is committed, and so is a last price as late as it.
RowTold(c) ==
  \A t \in summing.row[c].counted : \E l \in summing.row[c].last :
    dealt[t].committed /\ dealt[l].committed /\ dealt[l].at >= dealt[t].at

\* The row between its two statements counts only evidence; every other row is told.
SummaryInv ==
  /\ SummaryFields \subseteq DOMAIN summing
  /\ summing.scope \in SummaryScopes
  /\ summing.row \in [SummaryScopes -> [counted : SUBSET MarkTrades, last : SUBSET MarkTrades]]
  /\ \A c \in SummaryScopes :
       IF summing.pc = "latest" /\ c = summing.scope
       THEN summing.row[c].counted \subseteq Evidence(c, summing.cutoff)
       ELSE RowTold(c)

\* A finished summary is told (price_discovery.py).
LEMMA SummaryHolds == SummaryInv => SummaryLastIsLatest
BY DEF SummaryInv, SummaryLastIsLatest, SummaryScopes, RowTold

\* Trades that commit while a summary is read take nothing from it.
LEMMA SummaryKept ==
  ASSUME SummaryInv, DealtTyped, TradesKept, summing' = summing
  PROVE  SummaryInv'
<1>1. ASSUME NEW c \in SummaryScopes, RowTold(c) PROVE RowTold(c)'
  <2> SUFFICES ASSUME NEW t \in summing.row[c].counted
      PROVE \E l \in summing.row[c].last : dealt'[t].committed /\ dealt'[l].committed /\ dealt'[l].at >= dealt'[t].at
    BY DEF RowTold
  <2>1. PICK l \in summing.row[c].last : dealt[t].committed /\ dealt[l].committed /\ dealt[l].at >= dealt[t].at
    BY <1>1 DEF RowTold
  <2>2. t \in MarkTrades /\ l \in MarkTrades
    BY <1>1 DEF SummaryInv
  <2>3. /\ dealt'[t].committed /\ dealt'[l].committed
        /\ dealt'[t].at = dealt[t].at /\ dealt'[l].at = dealt[l].at
    BY <2>1, <2>2 DEF TradesKept
  <2> QED BY <2>1, <2>3
<1>2. \A c \in SummaryScopes : Evidence(c, summing.cutoff) \subseteq Evidence(c, summing.cutoff)'
  <2> SUFFICES ASSUME NEW c \in SummaryScopes, NEW t \in Evidence(c, summing.cutoff)
      PROVE t \in Evidence(c, summing.cutoff)'
    OBVIOUS
  <2>1. t \in MarkTrades /\ dealt[t].committed /\ dealt[t].class = c /\ dealt[t].at >= summing.cutoff
    BY DEF Evidence, Committed
  <2>2. dealt'[t].committed /\ dealt'[t].class = c /\ dealt'[t].at >= summing'.cutoff
    BY <2>1 DEF TradesKept
  <2> QED BY <2>1, <2>2 DEF Evidence, Committed
<1> QED BY <1>1, <1>2 DEF SummaryInv, SummaryFields, SummaryScopes

\* Every statement of the summary keeps its rows told.
LEMMA SummaryStep ==
  ASSUME SummaryInv, DealtTyped,
         SummaryBegins \/ SummaryAggregates \/ SummaryReadsLatest \/ SummaryQuarantine
  PROVE  SummaryInv'
<1>1. dealt' = dealt
  BY DEF SummaryBegins, SummaryAggregates, SummaryReadsLatest, SummaryQuarantine
<1>2. CASE SummaryBegins
  <2>1. summing' = [NoSummary EXCEPT !.pc = "aggregate", !.cutoff = markTime - Lookback]
    BY <1>2 DEF SummaryBegins
  <2>2. /\ SummaryFields \subseteq DOMAIN summing' /\ summing'.scope = "REAL" /\ summing'.pc = "aggregate"
        /\ summing'.row = [c \in {"REAL", "DEMO"} |-> Unread]
    BY <2>1 DEF NoSummary, SummaryFields
  <2>3. \A c \in SummaryScopes : summing'.row[c].counted = {}
    BY <2>2 DEF SummaryScopes, Unread
  <2> QED BY <2>2, <2>3 DEF SummaryInv, SummaryScopes, RowTold, Unread
<1>3. CASE SummaryAggregates
  <2>0. PICK s \in SummaryScopes : s = summing.scope
    BY DEF SummaryInv
  <2> DEFINE found == Evidence(s, summing.cutoff)
  <2>1. /\ summing' = [summing EXCEPT !.pc = "latest", !.row[s].counted = found]
        /\ summing.pc = "aggregate"
    BY <1>3, <2>0 DEF SummaryAggregates
  <2>2. found \in SUBSET MarkTrades
    BY DEF Evidence, Committed
  <2> HIDE DEF found
  <2>4. /\ SummaryFields \subseteq DOMAIN summing' /\ summing'.pc = "latest"
        /\ summing'.scope = s /\ summing'.cutoff = summing.cutoff
    BY <2>0, <2>1 DEF SummaryInv, SummaryFields
  <2>7. summing'.row = [summing.row EXCEPT ![s] = [summing.row[s] EXCEPT !.counted = found]]
    BY <2>1 DEF SummaryInv, SummaryFields
  <2>3. found = Evidence(s, summing.cutoff)'
    BY <1>1, <2>4 DEF Evidence, Committed, found
  <2>5. /\ summing'.row \in [SummaryScopes -> [counted : SUBSET MarkTrades, last : SUBSET MarkTrades]]
        /\ summing'.row[s].counted = found
        /\ \A c \in SummaryScopes : c # s => summing'.row[c] = summing.row[c]
    BY <2>2, <2>7 DEF SummaryInv
  <2>6. \A c \in SummaryScopes : c # s => RowTold(c)'
    BY <1>1, <2>0, <2>1, <2>5 DEF SummaryInv, RowTold
  <2> QED BY <2>3, <2>4, <2>5, <2>6 DEF SummaryInv
<1>4. CASE SummaryReadsLatest
  <2>0. PICK s \in SummaryScopes : s = summing.scope
    BY DEF SummaryInv
  <2> DEFINE prints == Evidence(s, summing.cutoff)
  <2>1. PICK last \in IF prints = {} THEN {{}} ELSE {{t} : t \in Latest(prints)} :
          summing' = [summing EXCEPT !.row[s].last = last,
                        !.pc = IF s = "REAL" THEN "aggregate" ELSE "quarantine", !.scope = "DEMO"]
    BY <1>4, <2>0 DEF SummaryReadsLatest, LatestSince
  <2>2. summing.pc = "latest"
    BY <1>4 DEF SummaryReadsLatest
  <2>3. prints \subseteq MarkTrades /\ \A t \in prints : dealt[t].committed
    BY DEF Evidence, Committed
  <2>4. summing.row[s].counted \subseteq prints
    BY <2>0, <2>2 DEF SummaryInv
  <2>5. last \subseteq prints /\ \A t \in prints : \E l \in last : dealt[l].at >= dealt[t].at
    <3>1. CASE prints = {}
      BY <3>1
    <3>2. CASE prints # {}
      <4>1. PICK l \in Latest(prints) : last = {l}
        BY <3>2
      <4>2. l \in prints /\ \A t \in prints : dealt[t].at <= dealt[l].at
        BY <4>1 DEF Latest
      <4>3. \A t \in prints : dealt[t].at \in Nat
        BY <2>3 DEF DealtTyped
      <4> QED BY <4>1, <4>2, <4>3
    <3> QED BY <3>1, <3>2
  <2> HIDE DEF prints
  <2>6. SummaryFields \subseteq DOMAIN summing' /\ summing'.scope = "DEMO"
    BY <2>1 DEF SummaryInv, SummaryFields
  <2>12. summing'.row = [summing.row EXCEPT ![s] = [summing.row[s] EXCEPT !.last = last]]
    BY <2>1 DEF SummaryInv, SummaryFields
  <2>7. summing'.pc # "latest"
    BY <2>1 DEF SummaryInv, SummaryFields
  <2>8. /\ summing'.row \in [SummaryScopes -> [counted : SUBSET MarkTrades, last : SUBSET MarkTrades]]
        /\ summing'.row[s].counted = summing.row[s].counted /\ summing'.row[s].last = last
        /\ \A c \in SummaryScopes : c # s => summing'.row[c] = summing.row[c]
    BY <2>3, <2>5, <2>12 DEF SummaryInv
  <2>9. \A c \in SummaryScopes : c # s => RowTold(c)'
    BY <1>1, <2>0, <2>8 DEF SummaryInv, RowTold
  <2>10. RowTold(s)'
    BY <1>1, <2>3, <2>4, <2>5, <2>8 DEF RowTold
  <2>11. \A c \in SummaryScopes : RowTold(c)'
    BY <2>9, <2>10
  <2> QED BY <2>6, <2>7, <2>8, <2>11 DEF SummaryInv, SummaryScopes
<1>5. CASE SummaryQuarantine
  <2>1. /\ summing' = [summing EXCEPT !.pc = "done", !.unknown = Evidence("UNKNOWN", summing.cutoff)]
        /\ summing.pc = "quarantine"
    BY <1>5 DEF SummaryQuarantine
  <2>2. /\ SummaryFields \subseteq DOMAIN summing' /\ summing'.pc = "done"
        /\ summing'.scope = summing.scope /\ summing'.row = summing.row
    BY <2>1 DEF SummaryInv, SummaryFields
  <2>3. \A c \in SummaryScopes : RowTold(c)'
    BY <1>1, <2>1, <2>2 DEF SummaryInv, RowTold
  <2> QED BY <2>2, <2>3 DEF SummaryInv
<1> QED BY <1>2, <1>3, <1>4, <1>5

(***************************************************************************)
(* Signals                                                                 *)
(***************************************************************************)
SignalRows == [event : Nat, by : Ingests \cup {"seed"}, committed : BOOLEAN, trusted : BOOLEAN]
IngestStates == [pc : {"idle", "inserting", "closed", "ended", "failed"}, upto : Nat, inserted : Nat,
                 skipped : SUBSET Nat, run : {"none", "open", "verified"}]

SignalTyped ==
  /\ signals \subseteq SignalRows
  /\ ingest \in [Ingests -> IngestStates]

\* The unique index, the rows of the seed, and the rows of ended runs.
RowsSound ==
  /\ \A r, s \in signals : r.event = s.event => r = s
  /\ \A s \in signals : IF s.by = "seed" THEN s.event \in SeedEvents /\ s.committed ELSE s.event \in FileEvents
  /\ \A s \in signals : s.by # "seed" /\ s.committed => s.trusted

\* An uncommitted row belongs to a run that is in progress and counted it.
RowsOfRuns ==
  \A s \in signals : s.by # "seed" /\ ~s.committed =>
    ingest[s.by].pc \in {"inserting", "closed"} /\ ingest[s.by].inserted > 0

\* The event is stored, or the run itself is about to commit it.
Kept(e, w) == \E s \in signals : s.event = e /\ s.by # "seed" /\ (s.committed \/ s.by = w)

\* What a run has passed in its file is kept, and what it ended with is stored.
RunsSound ==
  \A w \in Ingests :
    /\ ingest[w].pc = "closed" /\ ingest[w].inserted > 0 => ingest[w].run = "verified"
    /\ ingest[w].pc = "inserting" => \A i \in Planned(w) : i <= ingest[w].upto => Kept(File(w)[i], w)
    /\ ingest[w].pc = "closed" => \A i \in Planned(w) : Kept(File(w)[i], w)
    /\ ingest[w].pc = "ended" =>
         \A i \in Planned(w) : \E s \in signals : s.committed /\ s.event = File(w)[i] /\ s.by # "seed"

SignalInv == SignalTyped /\ RowsSound /\ RowsOfRuns /\ RunsSound

\* The events of a file are natural numbers and none of them is one of the seed.
LEMMA PlannedEvents ==
  ASSUME NEW w \in Ingests, NEW i \in Planned(w)
  PROVE  i \in Nat \ {0} /\ File(w)[i] \in FileEvents /\ File(w)[i] \in Nat /\ File(w)[i] \notin SeedEvents
<1>1. File(w) \in Seq(Nat) /\ i \in DOMAIN File(w)
  BY ForwardAssumption DEF Planned
<1>2. i \in Nat \ {0} /\ File(w)[i] \in Nat
  BY <1>1
<1>3. File(w)[i] \in FileEvents
  BY <1>1 DEF FileEvents
<1> QED BY <1>2, <1>3, EventAssumption

\* Rows by their kind: a stored real row is trusted and what an ended run read is stored.
LEMMA SignalHolds == SignalInv => IngestedIsStored /\ StoredIsTrusted
<1> SUFFICES ASSUME SignalInv PROVE IngestedIsStored /\ StoredIsTrusted
  OBVIOUS
<1>1. StoredIsTrusted
  BY DEF SignalInv, RowsSound, StoredIsTrusted, Stored
<1>2. ASSUME NEW w \in Ingests, ingest[w].pc = "ended", NEW i \in Planned(w)
      PROVE  \E s \in Stored : s.event = File(w)[i] /\ s.by # "seed"
  BY <1>2 DEF SignalInv, RunsSound, Stored
<1> QED BY <1>1, <1>2 DEF IngestedIsStored

\* A focus leads with the latest real row and has then no room for a demo row
\* (_ranked_latest_stmt, _load_preferred_focus_rows).
LEMMA FocusHolds == SignalInv => FocusShowsReal
<1> DEFINE real == {s \in Stored : s.by # "seed" /\ s.trusted}
<1> SUFFICES ASSUME SignalInv, real # {}
    PROVE  /\ \A s \in ShownToFocus : s.by # "seed"
           /\ \E s \in ShownToFocus : \A r \in real : r.event <= s.event
  BY DEF FocusShowsReal
<1>1. /\ \A s \in Stored : s.event \in Nat /\ (s.by # "seed" => s.event \in FileEvents)
      /\ \A r, s \in Stored : r.event = s.event => r = s
  BY DEF SignalInv, SignalTyped, SignalRows, RowsSound, Stored
<1>2. PICK best \in real : \A r \in real : r.event <= best.event
  <2> DEFINE events == {s.event : s \in real}
  <2>1. events \subseteq Nat /\ events # {} /\ events \subseteq FileEvents
    BY <1>1 DEF SignalInv, SignalTyped, SignalRows, RowsSound, Stored
  <2>2. PICK top \in {0} \cup FileEvents \cup SeedEvents : \A e \in FileEvents \cup SeedEvents : e <= top
    BY EventAssumption
  <2>3. top \in Nat
    <3>1. FileEvents \subseteq Nat
      BY ForwardAssumption DEF FileEvents
    <3> QED BY <2>2, <3>1, EventAssumption
  <2>4. \A e \in events : e <= top
    BY <2>1, <2>2
  <2>5. PICK e \in events : \A f \in events : f <= e
    BY <2>1, <2>3, <2>4, GreatestNat
  <2> QED BY <2>5
<1> DEFINE ranked == Ranked(ShownSignals(Stored))
           within == {s \in ranked : Cardinality({r \in ranked : Before(r, s)}) < FocusLimit}
           first == {s \in within : \A r \in within \ {s} : Before(s, r)}
<1>3. ShownToFocus = {s \in within : \E f \in first : (s.by = "seed") = (f.by = "seed")}
  BY DEF ShownToFocus, FocusRows
<1>4. \A r \in ranked : r \in Stored /\ (r.by # "seed" => r \in real)
  BY DEF Ranked, ShownSignals
<1>5. best \in Stored /\ best.by # "seed" /\ best.trusted /\ best.event \in Nat
  BY <1>1, <1>2
<1>6. best \in ranked
  BY <1>2, <1>5 DEF Ranked, ShownSignals
<1>7. \A r \in ranked : ~Before(r, best)
  <2> SUFFICES ASSUME NEW r \in ranked, Before(r, best) PROVE FALSE
    OBVIOUS
  <2>1. r.by # "seed" /\ r.event > best.event
    BY <1>5 DEF Before
  <2>2. r \in real /\ r.event \in Nat
    BY <1>1, <1>4, <2>1
  <2> QED BY <1>2, <1>5, <2>1, <2>2
<1>8. best \in within
  <2>1. {r \in ranked : Before(r, best)} = {}
    BY <1>7
  <2>2. Cardinality({r \in ranked : Before(r, best)}) = 0
    BY <2>1, FS_EmptySet
  <2> QED BY <1>6, <2>2, ForwardAssumption
<1>9. best \in first
  <2> SUFFICES ASSUME NEW r \in within, r # best PROVE Before(best, r)
    BY <1>8
  <2>1. CASE r.by = "seed"
    BY <1>5, <2>1 DEF Before
  <2>2. CASE r.by # "seed"
    <3>1. r \in real /\ r \in Stored /\ r.event \in Nat
      BY <1>1, <1>4, <2>2
    <3>2. r.event <= best.event /\ r.event # best.event
      BY <1>1, <1>2, <1>5, <3>1
    <3> QED BY <1>5, <2>2, <3>1, <3>2 DEF Before
  <2> QED BY <2>1, <2>2
<1>10. \A f \in first : f = best
  BY <1>7, <1>8
<1> HIDE DEF ranked, within, first
<1>11. \A s \in ShownToFocus : s.by # "seed"
  BY <1>3, <1>5, <1>10
<1>12. best \in ShownToFocus
  BY <1>3, <1>8, <1>9
<1> QED BY <1>2, <1>11, <1>12

\* A run starts with no row of its own (ingest_signals opens its run record first).
LEMMA IngestBeginsStep ==
  ASSUME SignalInv, NEW w \in Ingests, IngestBegins(w)
  PROVE  SignalInv'
<1> DEFINE start == [NoIngest EXCEPT !.pc = IF Planned(w) = {} THEN "ended" ELSE "inserting",
                                     !.run = IF Planned(w) = {} THEN "none" ELSE "open"]
<1>1. /\ ingest[w].pc \in {"idle", "ended", "failed"} /\ signals' = signals
      /\ ingest' = [ingest EXCEPT ![w] = start]
  BY DEF IngestBegins
<1>2. start \in IngestStates /\ start.upto = 0
  BY DEF NoIngest, IngestStates
<1>3. start.pc = IF Planned(w) = {} THEN "ended" ELSE "inserting"
  BY DEF NoIngest
<1> HIDE DEF start
<1>4. ingest'[w] = start /\ \A v \in Ingests : v # w => ingest'[v] = ingest[v]
  BY <1>1 DEF SignalInv, SignalTyped
<1>5. SignalTyped'
  BY <1>1, <1>2 DEF SignalInv, SignalTyped
<1>6. RowsSound'
  BY <1>1 DEF SignalInv, RowsSound
<1>7. RowsOfRuns'
  <2> SUFFICES ASSUME NEW s \in signals, s.by # "seed", ~s.committed
      PROVE ingest'[s.by].pc \in {"inserting", "closed"} /\ ingest'[s.by].inserted > 0
    BY <1>1 DEF RowsOfRuns
  <2>1. s.by \in Ingests
    BY DEF SignalInv, SignalTyped, SignalRows
  <2>2. ingest[s.by].pc \in {"inserting", "closed"} /\ ingest[s.by].inserted > 0
    BY DEF SignalInv, RowsOfRuns
  <2>3. s.by # w
    BY <1>1, <2>2
  <2> QED BY <1>4, <2>1, <2>2, <2>3
<1>8. RunsSound'
  <2>1. \A i \in Planned(w) : ~(i <= 0)
    BY PlannedEvents
  <2>2. \A v \in Ingests : \A i \in Planned(v) : Kept(File(v)[i], v)' = Kept(File(v)[i], v)
    BY <1>1 DEF Kept
  <2> QED BY <1>1, <1>2, <1>3, <1>4, <2>1, <2>2 DEF SignalInv, RunsSound
<1> QED BY <1>5, <1>6, <1>7, <1>8 DEF SignalInv

\* A row is inserted, or it is there: stored, or inserted by this run (the savepoint of
\* ingest_signals and the unique index).
LEMMA InsertRowStep ==
  ASSUME SignalInv, NEW w \in Ingests, InsertRow(w)
  PROVE  SignalInv'
<1>1. PICK i \in Pending(w) : i = Min(Pending(w)) /\ \A j \in Pending(w) : i <= j
  <2>1. Pending(w) \subseteq Nat /\ Pending(w) # {}
    BY PlannedEvents DEF Pending, InsertRow
  <2>2. PICK n \in Pending(w) : \A m \in Pending(w) : n <= m
    BY <2>1, LeastNat
  <2> QED BY <2>2 DEF Min
<1>2. PICK e : e = File(w)[i]
  OBVIOUS
<1>3. i \in Planned(w) /\ i \in Nat /\ e \in FileEvents /\ e \in Nat /\ e \notin SeedEvents
  BY <1>1, <1>2, PlannedEvents DEF Pending
<1> DEFINE again == Duplicate(e, w)
<1>4. /\ ingest[w].pc = "inserting"
      /\ again \/ Holder(e) = {}
      /\ signals' = IF again THEN signals ELSE signals \cup {SignalRow(e, w)}
      /\ ingest' = [ingest EXCEPT ![w].upto = i, ![w].inserted = IF again THEN @ ELSE @ + 1,
                                  ![w].skipped = IF again THEN @ \cup {e} ELSE @]
  BY <1>1, <1>2 DEF InsertRow
<1> DEFINE was == ingest[w]  now == ingest'[w]
<1>5. was \in IngestStates
  BY DEF SignalInv, SignalTyped
<1>6. /\ \A v \in Ingests : v # w => ingest'[v] = ingest[v]
      /\ DOMAIN ingest' = Ingests /\ ingest' = [v \in Ingests |-> ingest'[v]]
  BY <1>4 DEF SignalInv, SignalTyped
<1>7. /\ now.pc = was.pc /\ now.run = was.run /\ now.upto = i
      /\ now.inserted = IF again THEN was.inserted ELSE was.inserted + 1
  BY <1>4, <1>5 DEF SignalInv, SignalTyped, IngestStates
<1>8. now \in IngestStates
  <2> DEFINE count == IF again THEN was.inserted ELSE was.inserted + 1
             skips == IF again THEN was.skipped \cup {e} ELSE was.skipped
  <2>1. now = [was EXCEPT !.upto = i, !.inserted = count, !.skipped = skips]
    BY <1>4 DEF SignalInv, SignalTyped
  <2>2. count \in Nat
    BY <1>5 DEF IngestStates
  <2>3. skips \in SUBSET Nat
    BY <1>3, <1>5 DEF IngestStates
  <2> HIDE DEF count, skips, was, now
  <2> QED BY <1>3, <1>5, <2>1, <2>2, <2>3 DEF IngestStates
<1>9. again => \E s \in signals : s.event = e /\ s.by # "seed" /\ (s.committed \/ s.by = w)
  BY <1>3 DEF Duplicate, SignalInv, RowsSound
<1>10. ~again => \A s \in signals : s.event # e
  BY <1>4 DEF Holder
<1>11. SignalRow(e, w) \in SignalRows
  BY <1>3 DEF SignalRow, SignalRows
<1>12. /\ SignalRow(e, w).event = e /\ SignalRow(e, w).by = w
       /\ SignalRow(e, w).committed = FALSE
  BY DEF SignalRow
<1>13. w # "seed"
  BY ForwardAssumption
<1> HIDE DEF again, was, now
<1>14. SignalTyped'
  <2>1. signals' \subseteq SignalRows
    BY <1>4, <1>11 DEF SignalInv, SignalTyped
  <2>2. \A v \in Ingests : ingest'[v] \in IngestStates
    BY <1>6, <1>8 DEF SignalInv, SignalTyped, now
  <2> QED BY <1>6, <2>1, <2>2 DEF SignalTyped
<1>15. RowsSound'
  <2>1. CASE again
    BY <1>4, <2>1 DEF SignalInv, RowsSound
  <2>2. CASE ~again
    <3>1. \A s \in signals' : s \in signals \/ s = SignalRow(e, w)
      BY <1>4, <2>2
    <3>2. \A r, s \in signals' : r.event = s.event => r = s
      BY <1>10, <1>12, <2>2, <3>1 DEF SignalInv, RowsSound
    <3>3. \A s \in signals' : IF s.by = "seed" THEN s.event \in SeedEvents /\ s.committed ELSE s.event \in FileEvents
      BY <1>3, <1>12, <1>13, <3>1 DEF SignalInv, RowsSound
    <3>4. \A s \in signals' : s.by # "seed" /\ s.committed => s.trusted
      BY <1>12, <3>1 DEF SignalInv, RowsSound
    <3> QED BY <3>2, <3>3, <3>4 DEF RowsSound
  <2> QED BY <2>1, <2>2
<1>16. RowsOfRuns'
  <2> SUFFICES ASSUME NEW s \in signals', s.by # "seed", ~s.committed
      PROVE ingest'[s.by].pc \in {"inserting", "closed"} /\ ingest'[s.by].inserted > 0
    BY DEF RowsOfRuns
  <2>1. CASE s \in signals
    <3>1. s.by \in Ingests
      BY <2>1 DEF SignalInv, SignalTyped, SignalRows
    <3>2. ingest[s.by].pc \in {"inserting", "closed"} /\ ingest[s.by].inserted > 0
      BY <2>1 DEF SignalInv, RowsOfRuns
    <3>3. was.inserted \in Nat
      BY <1>5 DEF IngestStates
    <3> QED BY <1>6, <1>7, <3>1, <3>2, <3>3 DEF was, now
  <2>2. CASE s \notin signals
    <3>1. s = SignalRow(e, w) /\ ~again
      BY <1>4, <2>2
    <3>2. was.inserted \in Nat
      BY <1>5 DEF IngestStates
    <3>3. now.pc = "inserting" /\ now.inserted > 0
      BY <1>4, <1>7, <3>1, <3>2 DEF was
    <3>4. s.by = w
      BY <1>12, <3>1
    <3> QED BY <3>3, <3>4 DEF now
  <2> QED BY <2>1, <2>2
<1>17. RunsSound'
  <2>1. \A f \in Nat : \A v \in Ingests : Kept(f, v) => Kept(f, v)'
    BY <1>4 DEF Kept
  <2>2. Kept(e, w)'
    BY <1>4, <1>9, <1>12, <1>13 DEF Kept
  <2>3. \A j \in Planned(w) : j <= i => Kept(File(w)[j], w)'
    <3> SUFFICES ASSUME NEW j \in Planned(w), j <= i PROVE Kept(File(w)[j], w)'
      OBVIOUS
    <3>1. j \in Nat /\ File(w)[j] \in Nat /\ was.upto \in Nat
      BY <1>5, PlannedEvents DEF IngestStates
    <3>2. CASE j = i
      BY <1>2, <2>2, <3>2
    <3>3. CASE j # i
      <4>1. j \notin Pending(w)
        BY <1>1, <1>3, <3>1, <3>3
      <4>2. j <= was.upto
        BY <3>1, <4>1 DEF Pending, was
      <4>3. Kept(File(w)[j], w)
        BY <1>4, <4>2 DEF SignalInv, RunsSound, was
      <4> QED BY <2>1, <3>1, <4>3
    <3> QED BY <3>2, <3>3
  <2>4. \A v \in Ingests : \A j \in Planned(v) : File(v)[j] \in Nat
    BY PlannedEvents
  <2>5. signals \subseteq signals'
    BY <1>4
  <2>6. now.pc = "inserting" /\ now.upto = i
    BY <1>4, <1>7 DEF was
  <2> SUFFICES ASSUME NEW v \in Ingests
      PROVE /\ ingest'[v].pc = "closed" /\ ingest'[v].inserted > 0 => ingest'[v].run = "verified"
            /\ ingest'[v].pc = "inserting" => \A j \in Planned(v) : j <= ingest'[v].upto => Kept(File(v)[j], v)'
            /\ ingest'[v].pc = "closed" => \A j \in Planned(v) : Kept(File(v)[j], v)'
            /\ ingest'[v].pc = "ended" =>
                 \A j \in Planned(v) : \E s \in signals' : s.committed /\ s.event = File(v)[j] /\ s.by # "seed"
    BY DEF RunsSound, Planned
  <2>7. CASE v = w
    BY <2>3, <2>6, <2>7 DEF now
  <2>8. CASE v # w
    BY <1>6, <2>1, <2>4, <2>5, <2>8 DEF SignalInv, RunsSound
  <2> QED BY <2>7, <2>8
<1> QED BY <1>14, <1>15, <1>16, <1>17 DEF SignalInv

\* A run closes behind the last row of its file, and is verified when it stored one.
LEMMA CloseRunStep ==
  ASSUME SignalInv, NEW w \in Ingests, CloseRun(w)
  PROVE  SignalInv'
<1> DEFINE was == ingest[w]  now == ingest'[w]
           run == IF Verifies(was) THEN "verified" ELSE IF was.inserted > 0 THEN "open" ELSE "none"
<1>1. /\ was.pc = "inserting" /\ Pending(w) = {} /\ signals' = signals
      /\ ingest' = [ingest EXCEPT ![w].pc = "closed", ![w].run = run]
  BY DEF CloseRun
<1>2. was \in IngestStates /\ run \in {"none", "open", "verified"}
  BY DEF SignalInv, SignalTyped
<1>3. was.inserted > 0 => run = "verified"
  BY DEF Verifies
<1>4. /\ \A v \in Ingests : v # w => ingest'[v] = ingest[v]
      /\ ingest' = [v \in Ingests |-> ingest'[v]]
      /\ now = [was EXCEPT !.pc = "closed", !.run = run]
  BY <1>1 DEF SignalInv, SignalTyped
<1> HIDE DEF was, now, run
<1>5. now \in IngestStates /\ now.pc = "closed" /\ now.run = run /\ now.inserted = was.inserted
  BY <1>2, <1>4 DEF IngestStates
<1>6. SignalTyped'
  <2>1. \A v \in Ingests : ingest'[v] \in IngestStates
    BY <1>4, <1>5 DEF SignalInv, SignalTyped, now
  <2> QED BY <1>1, <1>4, <2>1 DEF SignalInv, SignalTyped
<1>7. RowsSound'
  BY <1>1 DEF SignalInv, RowsSound
<1>8. RowsOfRuns'
  <2> SUFFICES ASSUME NEW s \in signals, s.by # "seed", ~s.committed
      PROVE ingest'[s.by].pc \in {"inserting", "closed"} /\ ingest'[s.by].inserted > 0
    BY <1>1 DEF RowsOfRuns
  <2>1. s.by \in Ingests
    BY DEF SignalInv, SignalTyped, SignalRows
  <2>2. ingest[s.by].pc \in {"inserting", "closed"} /\ ingest[s.by].inserted > 0
    BY DEF SignalInv, RowsOfRuns
  <2> QED BY <1>4, <1>5, <2>1, <2>2 DEF was, now
<1>9. RunsSound'
  <2>1. \A v \in Ingests : \A i \in Planned(v) : Kept(File(v)[i], v) => Kept(File(v)[i], v)'
    BY <1>1 DEF Kept
  <2>2. \A i \in Planned(w) : i <= was.upto
    <3> SUFFICES ASSUME NEW i \in Planned(w) PROVE i <= was.upto
      OBVIOUS
    <3>1. i \in Nat /\ was.upto \in Nat /\ i \notin Pending(w)
      BY <1>1, <1>2, PlannedEvents DEF IngestStates
    <3> QED BY <3>1 DEF Pending, was
  <2>3. \A i \in Planned(w) : Kept(File(w)[i], w)
    BY <1>1, <2>2 DEF SignalInv, RunsSound, was
  <2> SUFFICES ASSUME NEW v \in Ingests
      PROVE /\ ingest'[v].pc = "closed" /\ ingest'[v].inserted > 0 => ingest'[v].run = "verified"
            /\ ingest'[v].pc = "inserting" => \A j \in Planned(v) : j <= ingest'[v].upto => Kept(File(v)[j], v)'
            /\ ingest'[v].pc = "closed" => \A j \in Planned(v) : Kept(File(v)[j], v)'
            /\ ingest'[v].pc = "ended" =>
                 \A j \in Planned(v) : \E s \in signals' : s.committed /\ s.event = File(v)[j] /\ s.by # "seed"
    BY DEF RunsSound, Planned
  <2>4. CASE v = w
    BY <1>3, <1>5, <2>1, <2>3, <2>4 DEF now
  <2>5. CASE v # w
    <3>1. ingest'[v] = ingest[v]
      BY <1>4, <2>5
    <3> QED BY <1>1, <2>1, <3>1 DEF SignalInv, RunsSound
  <2> QED BY <2>4, <2>5
<1> QED BY <1>6, <1>7, <1>8, <1>9 DEF SignalInv

\* The commit stores every row of the run and shows it as verified.
LEMMA CommandEndsStep ==
  ASSUME SignalInv, NEW w \in Ingests, CommandEnds(w)
  PROVE  SignalInv'
<1> DEFINE was == ingest[w]  now == ingest'[w]
           Committing(s) == IF s.by = w /\ ~s.committed
                        THEN [s EXCEPT !.committed = TRUE, !.trusted = was.run = "verified"] ELSE s
<1>1. /\ was.pc = "closed" /\ signals' = {Committing(s) : s \in signals}
      /\ ingest' = [ingest EXCEPT ![w].pc = "ended"]
  BY DEF CommandEnds
<1>2. was \in IngestStates
  BY DEF SignalInv, SignalTyped
<1>3. /\ \A v \in Ingests : v # w => ingest'[v] = ingest[v]
      /\ ingest' = [v \in Ingests |-> ingest'[v]]
      /\ now = [was EXCEPT !.pc = "ended"]
  BY <1>1 DEF SignalInv, SignalTyped
<1>4. now \in IngestStates /\ now.pc = "ended"
  BY <1>2, <1>3 DEF IngestStates
<1>5. w # "seed"
  BY ForwardAssumption
<1>6. ASSUME NEW s \in signals
      PROVE  /\ Committing(s) \in SignalRows
             /\ Committing(s).event = s.event /\ Committing(s).by = s.by
             /\ s.by # w => Committing(s) = s
             /\ s.committed => Committing(s) = s
             /\ s.by = w => Committing(s).committed
             /\ s.by # "seed" /\ Committing(s).committed => Committing(s).trusted
  <2>1. s \in SignalRows
    BY DEF SignalInv, SignalTyped
  <2>2. CASE s.by = w /\ ~s.committed
    <3>1. was.run = "verified"
      BY <1>1, <1>5, <2>2 DEF SignalInv, RowsOfRuns, RunsSound
    <3>2. Committing(s) = [s EXCEPT !.committed = TRUE, !.trusted = TRUE]
      BY <2>2, <3>1
    <3> HIDE DEF Committing
    <3>3. /\ Committing(s) \in SignalRows /\ Committing(s).event = s.event /\ Committing(s).by = s.by
      BY <2>1, <3>2 DEF SignalRows
    <3>4. Committing(s).committed = TRUE /\ Committing(s).trusted = TRUE
      BY <2>1, <3>2 DEF SignalRows
    <3> QED BY <2>2, <3>3, <3>4
  <2>3. CASE ~(s.by = w /\ ~s.committed)
    BY <2>1, <2>3 DEF SignalInv, RowsSound
  <2> QED BY <2>2, <2>3
<1> HIDE DEF was, now, Committing
<1>7. SignalTyped'
  <2>1. \A v \in Ingests : ingest'[v] \in IngestStates
    BY <1>3, <1>4 DEF SignalInv, SignalTyped, now
  <2>2. signals' \subseteq SignalRows
    BY <1>1, <1>6
  <2> QED BY <1>3, <2>1, <2>2 DEF SignalTyped
<1>8. RowsSound'
  <2>1. \A r, s \in signals' : r.event = s.event => r = s
    BY <1>1, <1>6 DEF SignalInv, RowsSound
  <2>2. \A s \in signals' : IF s.by = "seed" THEN s.event \in SeedEvents /\ s.committed ELSE s.event \in FileEvents
    BY <1>1, <1>5, <1>6 DEF SignalInv, RowsSound
  <2>3. \A s \in signals' : s.by # "seed" /\ s.committed => s.trusted
    BY <1>1, <1>6
  <2> QED BY <2>1, <2>2, <2>3 DEF RowsSound
<1>9. RowsOfRuns'
  <2> SUFFICES ASSUME NEW s \in signals, Committing(s).by # "seed", ~Committing(s).committed
      PROVE ingest'[s.by].pc \in {"inserting", "closed"} /\ ingest'[s.by].inserted > 0
    BY <1>1, <1>6 DEF RowsOfRuns
  <2>1. s.by \in Ingests /\ s.by # w /\ ~s.committed
    BY <1>6 DEF SignalInv, SignalTyped, SignalRows
  <2>2. ingest[s.by].pc \in {"inserting", "closed"} /\ ingest[s.by].inserted > 0
    BY <1>6, <2>1 DEF SignalInv, RowsOfRuns
  <2> QED BY <1>3, <2>1, <2>2
<1>10. RunsSound'
  <2>1. \A f \in Nat : \A v \in Ingests : Kept(f, v) => Kept(f, v)'
    BY <1>1, <1>6 DEF Kept
  <2>2. \A f \in Nat : Kept(f, w) => \E s \in signals' : s.committed /\ s.event = f /\ s.by # "seed"
    BY <1>1, <1>6 DEF Kept
  <2>3. \A v \in Ingests : \A j \in Planned(v) : File(v)[j] \in Nat
    BY PlannedEvents
  <2>4. \A s \in signals : s.committed => s \in signals'
    BY <1>1, <1>6
  <2>5. \A j \in Planned(w) : Kept(File(w)[j], w)
    BY <1>1 DEF SignalInv, RunsSound, was
  <2> SUFFICES ASSUME NEW v \in Ingests
      PROVE /\ ingest'[v].pc = "closed" /\ ingest'[v].inserted > 0 => ingest'[v].run = "verified"
            /\ ingest'[v].pc = "inserting" => \A j \in Planned(v) : j <= ingest'[v].upto => Kept(File(v)[j], v)'
            /\ ingest'[v].pc = "closed" => \A j \in Planned(v) : Kept(File(v)[j], v)'
            /\ ingest'[v].pc = "ended" =>
                 \A j \in Planned(v) : \E s \in signals' : s.committed /\ s.event = File(v)[j] /\ s.by # "seed"
    BY DEF RunsSound, Planned
  <2>6. CASE v = w
    BY <1>4, <2>2, <2>3, <2>5, <2>6 DEF now
  <2>7. CASE v # w
    BY <1>3, <2>1, <2>3, <2>4, <2>7 DEF SignalInv, RunsSound
  <2> QED BY <2>6, <2>7
<1> QED BY <1>7, <1>8, <1>9, <1>10 DEF SignalInv

\* A run that fails takes its own uncommitted rows with it and no row another run relies on.
LEMMA IngestFailsStep ==
  ASSUME SignalInv, NEW w \in Ingests, IngestFails(w)
  PROVE  SignalInv'
<1> DEFINE fail == [NoIngest EXCEPT !.pc = "failed"]
<1>1. /\ signals' = {s \in signals : s.by # w \/ s.committed}
      /\ ingest' = [ingest EXCEPT ![w] = fail]
  BY DEF IngestFails
<1>2. fail \in IngestStates /\ fail.pc = "failed"
  BY DEF NoIngest, IngestStates
<1> HIDE DEF fail
<1>3. ingest'[w] = fail /\ \A v \in Ingests : v # w => ingest'[v] = ingest[v]
  BY <1>1 DEF SignalInv, SignalTyped
<1>4. SignalTyped'
  BY <1>1, <1>2 DEF SignalInv, SignalTyped
<1>5. RowsSound'
  BY <1>1 DEF SignalInv, RowsSound
<1>6. RowsOfRuns'
  <2> SUFFICES ASSUME NEW s \in signals, s.by # w \/ s.committed, s.by # "seed", ~s.committed
      PROVE ingest'[s.by].pc \in {"inserting", "closed"} /\ ingest'[s.by].inserted > 0
    BY <1>1 DEF RowsOfRuns
  <2>1. s.by \in Ingests
    BY DEF SignalInv, SignalTyped, SignalRows
  <2>2. ingest[s.by].pc \in {"inserting", "closed"} /\ ingest[s.by].inserted > 0
    BY DEF SignalInv, RowsOfRuns
  <2> QED BY <1>3, <2>1, <2>2
<1>7. RunsSound'
  <2>1. \A f \in Nat : \A v \in Ingests : v # w /\ Kept(f, v) => Kept(f, v)'
    BY <1>1 DEF Kept
  <2>2. \A v \in Ingests : \A j \in Planned(v) : File(v)[j] \in Nat
    BY PlannedEvents
  <2>3. \A s \in signals : s.committed => s \in signals'
    BY <1>1
  <2> SUFFICES ASSUME NEW v \in Ingests
      PROVE /\ ingest'[v].pc = "closed" /\ ingest'[v].inserted > 0 => ingest'[v].run = "verified"
            /\ ingest'[v].pc = "inserting" => \A j \in Planned(v) : j <= ingest'[v].upto => Kept(File(v)[j], v)'
            /\ ingest'[v].pc = "closed" => \A j \in Planned(v) : Kept(File(v)[j], v)'
            /\ ingest'[v].pc = "ended" =>
                 \A j \in Planned(v) : \E s \in signals' : s.committed /\ s.event = File(v)[j] /\ s.by # "seed"
    BY DEF RunsSound, Planned
  <2>4. CASE v = w
    BY <1>2, <1>3, <2>4
  <2>5. CASE v # w
    BY <1>3, <2>1, <2>2, <2>3, <2>5 DEF SignalInv, RunsSound
  <2> QED BY <2>4, <2>5
<1> QED BY <1>4, <1>5, <1>6, <1>7 DEF SignalInv

\* The seed replaces its own rows alone (seed_forward_monitoring_demo_data).
LEMMA SeedSignalsStep == ASSUME SignalInv, SeedSignals PROVE SignalInv'
<1>1. PICK on \in SUBSET SeedEvents :
        signals' = {s \in signals : s.by # "seed"} \cup
          {[event |-> e, by |-> "seed", committed |-> TRUE, trusted |-> FALSE] : e \in on}
  BY DEF SeedSignals
<1>2. ingest' = ingest
  BY DEF SeedSignals
<1>3. \A s \in signals' : IF s.by = "seed"
        THEN s.event \in on /\ s = [event |-> s.event, by |-> "seed", committed |-> TRUE, trusted |-> FALSE]
        ELSE s \in signals
  BY <1>1
<1>4. \A s \in signals : s.by # "seed" => s \in signals'
  BY <1>1
<1>5. ASSUME NEW s \in signals' PROVE s \in SignalRows
  <2>1. CASE s.by = "seed"
    <3>1. PICK e \in on : s = [event |-> e, by |-> "seed", committed |-> TRUE, trusted |-> FALSE]
      BY <1>1, <2>1
    <3>2. e \in Nat
      BY <1>1, EventAssumption
    <3> QED BY <3>1, <3>2 DEF SignalRows
  <2>2. CASE s.by # "seed"
    BY <1>3, <2>2 DEF SignalInv, SignalTyped
  <2> QED BY <2>1, <2>2
<1>6. SignalTyped'
  BY <1>2, <1>5 DEF SignalInv, SignalTyped
<1>7. RowsSound'
  <2>1. \A s \in signals' : IF s.by = "seed" THEN s.event \in SeedEvents /\ s.committed ELSE s.event \in FileEvents
    <3> SUFFICES ASSUME NEW s \in signals'
        PROVE IF s.by = "seed" THEN s.event \in SeedEvents /\ s.committed ELSE s.event \in FileEvents
      OBVIOUS
    <3>1. CASE s.by = "seed"
      <4>1. s.event \in on /\ s.committed
        BY <1>3, <3>1
      <4> QED BY <1>1, <3>1, <4>1
    <3>2. CASE s.by # "seed"
      BY <1>3, <3>2 DEF SignalInv, RowsSound
    <3> QED BY <3>1, <3>2
  <2>2. \A r, s \in signals' : r.event = s.event => r = s
    <3> SUFFICES ASSUME NEW r \in signals', NEW s \in signals', r.event = s.event PROVE r = s
      OBVIOUS
    <3>1. CASE r.by = "seed" /\ s.by = "seed"
      BY <1>3, <3>1
    <3>2. CASE r.by # "seed" /\ s.by # "seed"
      BY <1>3, <3>2 DEF SignalInv, RowsSound
    <3>3. (r.by = "seed") = (s.by = "seed")
      BY <2>1, EventAssumption
    <3> QED BY <3>1, <3>2, <3>3
  <2>3. \A s \in signals' : s.by # "seed" /\ s.committed => s.trusted
    BY <1>3 DEF SignalInv, RowsSound
  <2> QED BY <2>1, <2>2, <2>3 DEF RowsSound
<1>8. RowsOfRuns'
  BY <1>2, <1>3 DEF SignalInv, RowsOfRuns
<1>9. RunsSound'
  <2>1. \A f \in Nat : \A v \in Ingests : Kept(f, v) => Kept(f, v)'
    BY <1>4 DEF Kept
  <2>2. \A v \in Ingests : \A j \in Planned(v) : File(v)[j] \in Nat
    BY PlannedEvents
  <2> QED BY <1>2, <1>4, <2>1, <2>2 DEF SignalInv, RunsSound
<1> QED BY <1>6, <1>7, <1>8, <1>9 DEF SignalInv

MarkInv == DealtTyped /\ LoadInv /\ SummaryInv /\ SignalInv

LEMMA MarkInvInit == ForwardInit => MarkInv
<1> SUFFICES ASSUME ForwardInit PROVE MarkInv
  OBVIOUS
<1>1. DealtTyped
  BY DEF ForwardInit, DealtTyped, Undealt
<1>2. LoadInv
  BY DEF ForwardInit, LoadInv, Unloaded, CellFields
<1>3. SummaryInv
  <2>1. /\ SummaryFields \subseteq DOMAIN summing /\ summing.scope = "REAL" /\ summing.pc = "idle"
        /\ summing.row = [c \in {"REAL", "DEMO"} |-> Unread]
    BY DEF ForwardInit, NoSummary, SummaryFields
  <2> QED BY <2>1 DEF SummaryInv, SummaryScopes, RowTold, Unread
<1>4. SignalInv
  BY DEF ForwardInit, SignalInv, SignalTyped, RowsSound, RowsOfRuns, RunsSound, NoIngest, IngestStates
<1> QED BY <1>1, <1>2, <1>3, <1>4 DEF MarkInv

\* Nothing of the signals moves: what is known of them stays.
LEMMA SignalKept == ASSUME SignalInv, UNCHANGED signalVars PROVE SignalInv'
<1>1. signals' = signals /\ ingest' = ingest
  BY DEF signalVars
<1>2. \A f \in Nat : \A v \in Ingests : Kept(f, v) => Kept(f, v)'
  BY <1>1 DEF Kept
<1>3. \A v \in Ingests : \A j \in Planned(v) : File(v)[j] \in Nat
  BY PlannedEvents
<1>4. RunsSound'
  BY <1>1, <1>2, <1>3 DEF SignalInv, RunsSound
<1> QED BY <1>1, <1>4 DEF SignalInv, SignalTyped, RowsSound, RowsOfRuns

LEMMA MarkInvStep == MarkInv /\ [CurveNext \/ SummaryNext \/ SignalNext]_forwardVars => MarkInv'
<1> SUFFICES ASSUME MarkInv, [CurveNext \/ SummaryNext \/ SignalNext]_forwardVars PROVE MarkInv'
  OBVIOUS
<1> USE DEF MarkInv
<1>1. ASSUME dealt' = dealt PROVE TradesKept
  BY <1>1 DEF TradesKept
<1>2. ASSUME dealt' = dealt, markTime' = markTime PROVE DealtTyped'
  BY <1>2 DEF DealtTyped
<1>3. ASSUME TradeNext(MarkTrades) \/ TradeNext(CurveTrades) PROVE MarkInv'
  <2>1. PICK t \in MarkTrades : TradeCommits(t) \/ \E c \in MarkClasses : TradeStamped(t, c)
    BY <1>3, ForwardAssumption DEF TradeNext
  <2>2. loading' = loading /\ summing' = summing /\ UNCHANGED signalVars
    BY <2>1 DEF TradeCommits, TradeStamped, curveVars
  <2> QED BY <2>1, <2>2, TradeStep, LoadKept, SummaryKept, SignalKept
<1>4. ASSUME LoadBegins \/ LoadFirst \/ LoadSecond \/ LoadReferences \/ BuildCell PROVE MarkInv'
  <2>1. dealt' = dealt /\ markTime' = markTime /\ summing' = summing /\ UNCHANGED signalVars
    BY <1>4 DEF LoadBegins, LoadFirst, LoadSecond, LoadReferences, BuildCell
  <2> QED BY <1>1, <1>2, <1>4, <2>1, LoadStep, SummaryKept, SignalKept
<1>5. ASSUME NEW k, QuoteRests(k) \/ QuoteLeaves(k) \/ ReferenceChanges(k) PROVE MarkInv'
  <2>1. dealt' = dealt /\ markTime' = markTime /\ summing' = summing /\ loading' = loading /\ UNCHANGED signalVars
    BY <1>5 DEF QuoteRests, QuoteLeaves, ReferenceChanges
  <2> QED BY <1>1, <1>2, <2>1, LoadKept, SummaryKept, SignalKept
<1>6. ASSUME MarkTick PROVE MarkInv'
  <2>1. dealt' = dealt /\ summing' = summing /\ loading' = loading /\ UNCHANGED signalVars
    BY <1>6 DEF MarkTick, curveVars
  <2>2. DealtTyped'
    BY <1>6, <2>1 DEF MarkTick, DealtTyped
  <2> QED BY <1>1, <2>1, <2>2, LoadKept, SummaryKept, SignalKept
<1>7. ASSUME SummaryBegins \/ SummaryAggregates \/ SummaryReadsLatest \/ SummaryQuarantine PROVE MarkInv'
  <2>1. dealt' = dealt /\ markTime' = markTime /\ loading' = loading /\ UNCHANGED signalVars
    BY <1>7 DEF SummaryBegins, SummaryAggregates, SummaryReadsLatest, SummaryQuarantine, curveVars
  <2> QED BY <1>1, <1>2, <1>7, <2>1, LoadKept, SummaryStep, SignalKept
<1>8. ASSUME SignalNext PROVE MarkInv'
  <2>1. dealt' = dealt /\ markTime' = markTime /\ loading' = loading /\ summing' = summing
    BY <1>8 DEF SignalNext, IngestBegins, InsertRow, CloseRun, CommandEnds, IngestFails, SeedSignals, curveVars
  <2>2. SignalInv'
    BY <1>8, IngestBeginsStep, InsertRowStep, CloseRunStep, CommandEndsStep, IngestFailsStep, SeedSignalsStep
    DEF SignalNext
  <2> QED BY <1>1, <1>2, <2>1, <2>2, LoadKept, SummaryKept, SMTT(30)
<1>9. ASSUME UNCHANGED forwardVars PROVE MarkInv'
  <2>1. dealt' = dealt /\ markTime' = markTime /\ loading' = loading /\ summing' = summing /\ UNCHANGED signalVars
    BY <1>9 DEF forwardVars, curveVars, signalVars
  <2> QED BY <1>1, <1>2, <2>1, LoadKept, SummaryKept, SignalKept
<1>10. ASSUME CurveNext PROVE MarkInv'
  BY <1>3, <1>4, <1>5, <1>10 DEF CurveNext
<1>11. ASSUME SummaryNext PROVE MarkInv'
  BY <1>3, <1>6, <1>7, <1>11 DEF SummaryNext
<1> QED BY <1>8, <1>9, <1>10, <1>11

\* Prices rest on the evidence they name, with any trades, quotes, files and interleavings: a
\* slice that was backed all through a load is marked by a book or a trade, a real mark is
\* real, the last price of a summary is as late as what it counts, and the signals of an ended
\* run are stored, trusted and shown before the demo's (forward_curve_market_slices.py,
\* price_discovery.py, market_signal_ingestion.py, forward_monitoring.py).
THEOREM EvidenceAlwaysTrue == ForwardSpec => []EvidenceTrue
<1>1. MarkInv => EvidenceTrue
  BY LoadHolds, SummaryHolds, SignalHolds, FocusHolds DEF MarkInv, EvidenceTrue
<1> QED BY <1>1, MarkInvInit, MarkInvStep, PTL DEF ForwardSpec
=============================================================================
