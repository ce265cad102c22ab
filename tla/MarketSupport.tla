---------------------------- MODULE MarketSupport ----------------------------
(***************************************************************************)
(* Assisted order entry: app/routers/market_support.py (capabilities and   *)
(* contexts), app/services/request_party.py (who a request acts for),      *)
(* app/services/market_support_post_only.py and the assisted branches of   *)
(* create_order and cancel_order in app/routers/orderbook.py, for one      *)
(* administrator.  A request resolves its party first and locks it only    *)
(* after the market slice; in between the operator may revoke a            *)
(* capability, the context may end and the organization may be rejected.   *)
(* The older routes that create and publish authorizations answer 404 or   *)
(* 410 in every configuration and change nothing.                          *)
(***************************************************************************)
EXTENDS Integers, Sequences, FiniteSets

CONSTANTS
  Tabs,         \* concurrent requests of the administrator
  Clients,      \* organizations acted for
  MaxContexts,  \* bound on contexts
  BidPrices,    \* prices at which a bid may rest in the slice
  MaxCrossing   \* MAX_CROSSING_ORDERS_PER_MATCH

VARIABLES
  capable,    \* state of the administrator's capability rows
  context,    \* market_support_contexts in the order of creation
  clientOk,   \* approved real organizations
  opening,    \* per tab, a create_context between its reads and its commit
  request,    \* per tab, an order request between resolve_request_party and its locks
  bids,       \* resting bids: price -> "none", or whether its owner may execute
  assisted    \* assisted listings

supportVars == <<capable, context, clientOk, opening, request, bids, assisted>>

Capabilities == {"AUTHORIZATIONS", "LISTINGS"}
NotOpening == [client |-> "none", ends |-> {}]
NoRequest == [context |-> 0, price |-> 0]
Holds == \A c \in Capabilities : capable[c] = "granted"
ActiveContexts == {i \in DOMAIN context : context[i].status = "ACTIVE"}
\* The capability rows are locked by a create_context in progress.
Unlocked == \A t \in Tabs : opening[t] = NotOpening

\* create_capability_assignment, by the bootstrap operator.
GrantCapability(c) ==
  /\ Unlocked
  /\ capable' = [capable EXCEPT ![c] = "granted"]
  /\ UNCHANGED <<context, clientOk, opening, request, bids, assisted>>

\* expires_at of the assignment passes; no row changes.
CapabilityExpires(c) ==
  /\ capable[c] = "granted"
  /\ capable' = [capable EXCEPT ![c] = "expired"]
  /\ UNCHANGED <<context, clientOk, opening, request, bids, assisted>>

EndContexts(S, s) ==
  [i \in DOMAIN context |-> IF i \in S THEN [context[i] EXCEPT !.status = s] ELSE context[i]]

\* revoke_capability_assignment: the capability row first, then every active context.
RevokeCapability(c) ==
  /\ Unlocked
  /\ capable[c] # "none"
  /\ capable' = [capable EXCEPT ![c] = "revoked"]
  /\ context' = EndContexts(ActiveContexts, "REVOKED")
  /\ UNCHANGED <<clientOk, opening, request, bids, assisted>>

MayOpen(t) == Unlocked /\ Holds

\* create_context: capabilities, organization and the active contexts.  An active one of
\* the same client is returned as it is; one of another client is replaced on confirmation.
CreateContextReads(t, o) ==
  /\ MayOpen(t) /\ o \in clientOk
  /\ Len(context) < MaxContexts
  /\ \A i \in ActiveContexts : context[i].late \/ context[i].client # o
  /\ opening' = [opening EXCEPT ![t] = [client |-> o, ends |-> ActiveContexts]]
  /\ UNCHANGED <<capable, context, clientOk, request, bids, assisted>>

CreateContextCommits(t) ==
  /\ opening[t] # NotOpening
  /\ Len(context) < MaxContexts
  /\ context' = Append([i \in DOMAIN context |->
                          IF i \in opening[t].ends
                          THEN [context[i] EXCEPT !.status = IF context[i].late THEN "EXPIRED" ELSE "EXITED"]
                          ELSE context[i]],
                       [client |-> opening[t].client, status |-> "ACTIVE", late |-> FALSE])
  /\ opening' = [opening EXCEPT ![t] = NotOpening]
  /\ UNCHANGED <<capable, clientOk, request, bids, assisted>>

\* expires_at of a context passes; the row changes when somebody looks at it.
ContextExpires(i) ==
  /\ i \in ActiveContexts /\ ~context[i].late
  /\ context' = [context EXCEPT ![i].late = TRUE]
  /\ UNCHANGED <<capable, clientOk, opening, request, bids, assisted>>

\* exit_context, and active_context or get_context on one that has expired.
ExitContext(i) ==
  /\ Unlocked /\ Holds /\ i \in ActiveContexts
  /\ context' = EndContexts({i}, IF context[i].late THEN "EXPIRED" ELSE "EXITED")
  /\ UNCHANGED <<capable, clientOk, opening, request, bids, assisted>>

\* approve_organization and reject_organization of a client.
ClientDecision(o) ==
  /\ clientOk' = IF o \in clientOk THEN clientOk \ {o} ELSE clientOk \cup {o}
  /\ UNCHANGED <<capable, context, opening, request, bids, assisted>>

(***************************************************************************)
(* Orders under a context                                                  *)
(***************************************************************************)
UsableContext(i) == i \in ActiveContexts /\ ~context[i].late

\* resolve_request_party reads capabilities, context and organization without locks; an
\* expired context is marked as such and refused.
ResolveParty(t, i, p) ==
  /\ request[t] = NoRequest
  /\ Holds /\ UsableContext(i) /\ context[i].client \in clientOk
  /\ request' = [request EXCEPT ![t] = [context |-> i, price |-> p]]
  /\ UNCHANGED <<capable, context, clientOk, opening, bids, assisted>>

\* Resting bids that an ask at price p would reach, executable or not.
Crossing(p) == {q \in BidPrices : bids[q] # "none" /\ q >= p}
Executable(p) == {q \in Crossing(p) : bids[q] = "eligible"}

\* assess_locked_order: too many crossing orders to look at, or one that may execute,
\* refuse the order.
MayRest(p) == Cardinality(Crossing(p)) <= MaxCrossing /\ Executable(p) = {}

\* The request goes on with what resolve_request_party read.
StillParty_Resolved(t) == Unlocked
\* lock_request_party_context, after the slice lock: capabilities and context once more.
StillParty(t) == Unlocked /\ Holds /\ UsableContext(request[t].context)

\* create_order: the organization is locked and admitted again; the order rests without
\* matching, or everything is refused.
AssistedCreate(t) ==
  LET i == request[t].context  p == request[t].price IN
  /\ request[t] # NoRequest /\ Unlocked
  /\ request' = [request EXCEPT ![t] = NoRequest]
  /\ assisted' = IF StillParty(t) /\ context[i].client \in clientOk /\ MayRest(p) /\ assisted = <<>>
                 THEN <<[client |-> context[i].client, price |-> p, open |-> TRUE,
                         crossed |-> Executable(p),
                         entitled |-> Holds /\ UsableContext(i) /\ context[i].client \in clientOk]>>
                 ELSE assisted
  /\ UNCHANGED <<capable, context, clientOk, opening, bids>>

\* cancel_order under a context: any listing of the context's client.
AssistedCancel(t) ==
  LET i == request[t].context IN
  /\ request[t] # NoRequest /\ Unlocked
  /\ request' = [request EXCEPT ![t] = NoRequest]
  /\ assisted' = IF StillParty(t) /\ assisted # <<>> /\ assisted[1].client = context[i].client
                 THEN <<[assisted[1] EXCEPT !.open = FALSE]>>
                 ELSE assisted
  /\ UNCHANGED <<capable, context, clientOk, opening, bids>>

\* Bids come and go, and their owners are admitted or rejected.
BidMoves(q) ==
  /\ bids' \in {[bids EXCEPT ![q] = s] : s \in {"none", "eligible", "ineligible"} \ {bids[q]}}
  /\ UNCHANGED <<capable, context, clientOk, opening, request, assisted>>

SupportInit ==
  /\ capable = [c \in Capabilities |-> "none"]
  /\ context = <<>>
  /\ clientOk = Clients
  /\ opening = [t \in Tabs |-> NotOpening]
  /\ request = [t \in Tabs |-> NoRequest]
  /\ bids = [q \in BidPrices |-> "none"]
  /\ assisted = <<>>

SupportNext ==
  \/ \E c \in Capabilities : GrantCapability(c) \/ CapabilityExpires(c) \/ RevokeCapability(c)
  \/ \E o \in Clients : ClientDecision(o) \/ \E t \in Tabs : CreateContextReads(t, o)
  \/ \E i \in DOMAIN context :
       \/ ContextExpires(i) \/ ExitContext(i)
       \/ \E t \in Tabs, p \in BidPrices : ResolveParty(t, i, p)
  \/ \E t \in Tabs : CreateContextCommits(t) \/ AssistedCreate(t) \/ AssistedCancel(t)
  \/ \E q \in BidPrices : BidMoves(q)

SupportSpec == SupportInit /\ [][SupportNext]_supportVars

(***************************************************************************)
(* Properties                                                              *)
(***************************************************************************)
\* No assisted listing is published by an administrator whose capability was revoked or
\* expired, whose context ended, or for a rejected client, between the resolution of the
\* request and its commit.
PublishedByEntitled == assisted # <<>> => assisted[1].entitled

\* The administrator acts for one client at a time, however many tabs open a context.
OneActiveContext == Cardinality(ActiveContexts) <= 1

\* While a capability is revoked there is no active context to act under.
RevocationEndsContexts ==
  (\E c \in Capabilities : capable[c] = "revoked") => ActiveContexts = {}

\* An assisted listing rests: none of the bids it crosses could have executed with it.
AssistedRests == assisted # <<>> => assisted[1].crossed = {}

\* Assistance stays within its authority (request_party.py, market_support_post_only.py): one
\* client at a time, nothing after a revocation, nothing published that would have executed.
AssistanceBounded ==
  PublishedByEntitled /\ OneActiveContext /\ RevocationEndsContexts /\ AssistedRests
=============================================================================
