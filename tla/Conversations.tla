---------------------------- MODULE Conversations ----------------------------
(***************************************************************************)
(* The non-executable conversations beside the book: negotiations, whose   *)
(* two parties propose prices in turn, and requests for quotes.  Neither   *)
(* becomes a trade: both accept routes answer 409.                         *)
(*                                                                         *)
(* A handler reads its target without a lock, waits for the slice lock,    *)
(* reads the row again for update, locks actor and organizations and       *)
(* commits.  Everything after the wait is one step: whoever could disturb  *)
(* it needs a lock it holds.  Between the two steps anything may happen to *)
(* the rows, the parties and the clock.                                    *)
(*                                                                         *)
(* A user belongs to one organization or, after its rejection, to none.    *)
(***************************************************************************)
EXTENDS Integers, Sequences, FiniteSets

CONSTANTS
    Clients,            \* bound: requests in flight at a time
    Users, Orgs,
    OrgOf,              \* the organization a user joins
    RoleOf,             \* BUYER or SUPPLIER
    Slices, ProductOf,  \* market slices and the product of each
    Prices,
    Lifetime,           \* expires_in_hours
    MaxRounds,          \* MAX_ROUNDS
    MaxNegotiations,    \* bound: rows of negotiations
    MaxRfqs,            \* bound: rows of rfqs
    MaxClock,           \* bound: the clock stops here
    Makers,             \* bound: users with orders on the book
    RevocableUsers,     \* bound: users an administrator rejects
    RevocableOrgs,      \* bound: organizations an administrator rejects
    NoUser              \* no row

Idle == [op |-> "none"]
Negotiations == 1 .. MaxNegotiations
Rfqs == 1 .. MaxRfqs
Active == {"OPEN", "COUNTERED"}
Quotable == {"OPEN", "QUOTED"}

ASSUME ConversationConstants ==
    /\ OrgOf \in [Users -> Orgs] /\ RoleOf \in [Users -> {"BUYER", "SUPPLIER"}]
    /\ \A u, v \in Users : OrgOf[u] = OrgOf[v] => RoleOf[u] = RoleOf[v]
    /\ Prices \subseteq Nat /\ Orgs # {} /\ Slices # {}
    /\ {Lifetime, MaxRounds, MaxNegotiations, MaxRfqs, MaxClock} \subseteq Nat
    /\ MaxRounds >= 1
    /\ Makers \union RevocableUsers \subseteq Users /\ RevocableOrgs \subseteq Orgs
    /\ NoUser \notin Users

VARIABLES
    negotiation,    \* negotiations
    rounds,         \* negotiation_rounds, in the order of their insertion
    rfq,            \* rfqs
    quote,          \* rfq_quotes: the status of an organization's quote, or NONE
    admitted,       \* users with an approved account
    members,        \* users whose organization_id is set
    approved,       \* organizations with verification_status APPROVED
    resting,        \* live orders with capacity: <<owner, slice>>
    clock,
    request         \* requests that wait for their slice lock

rows == <<negotiation, rounds, rfq, quote>>
admission == <<admitted, members, approved>>
vars == <<negotiation, rounds, rfq, quote, admitted, members, approved, resting, clock, request>>

NegotiationRow == [initiator : Users \union {NoUser}, partner : Users \union {NoUser}, slice : Slices,
                   status : Active \union {"ABSENT", "DECLINED"}, price : Nat, last : Orgs,
                   expires : Nat]
Round == [number : 1 .. MaxRounds, org : Orgs, price : Nat]
RfqRow == [buyer : Users \union {NoUser}, slice : Slices,
           status : Quotable \union {"ABSENT", "CANCELLED"}, expires : Nat]

NoNegotiation == [initiator |-> NoUser, partner |-> NoUser, slice |-> CHOOSE s \in Slices : TRUE,
                  status |-> "ABSENT", price |-> 0, last |-> CHOOSE g \in Orgs : TRUE, expires |-> 0]
NoRfq == [buyer |-> NoUser, slice |-> CHOOSE s \in Slices : TRUE, status |-> "ABSENT", expires |-> 0]

Init ==
    /\ negotiation = [n \in Negotiations |-> NoNegotiation]
    /\ rounds = [n \in Negotiations |-> <<>>]
    /\ rfq = [f \in Rfqs |-> NoRfq]
    /\ quote = [f \in Rfqs |-> [g \in Orgs |-> "NONE"]]
    /\ admitted = Users /\ members = Users /\ approved = Orgs
    /\ resting = {}
    /\ clock = 0
    /\ request = [c \in Clients |-> Idle]

-----------------------------------------------------------------------------
(* Admission *)

\* execution_party_is_eligible
Eligible(u) == u \in admitted /\ u \in members /\ OrgOf[u] \in approved

\* lock_and_load_market_organizations with the actor's ownership.
Admitted(u, orgs) == orgs \subseteq approved /\ Eligible(u)

Parties(row) == {row.initiator, row.partner}
PartyOrgs(row) == {OrgOf[u] : u \in Parties(row)}

\* Fault: only the actor, already checked, is looked at.
PartiesEligible_ActorOnly(row) == TRUE
\* _revalidate_negotiation_parties
PartiesEligible(row) == \A u \in Parties(row) : Eligible(u)

-----------------------------------------------------------------------------
(* Requests *)

Observe(c, r) == request[c] = Idle /\ request' = [request EXCEPT ![c] = r]
Finish(c) == request' = [request EXCEPT ![c] = Idle]

\* Fault: without populate_existing the session returns the row it has.
LockedNegotiation_Stale(c) == request[c].seen
LockedRfq_Stale(c) == request[c].seen
\* The second load: FOR UPDATE and populate_existing.
LockedNegotiation(c) == negotiation[request[c].id]
LockedRfq(c) == rfq[request[c].id]

\* The lock was taken for the slice the row is in.
SameSlice(c, row) == row.slice = request[c].seen.slice

-----------------------------------------------------------------------------
(* Negotiations *)

\* _assert_active
Actionable(row) == row.status \in Active /\ row.expires > clock

\* Fault: the opening proposal may be answered by its own author.
OthersTurn_Opening(row, g) == row.status = "OPEN" \/ row.last # g
\* _assert_counterparty_turn
OthersTurn(row, g) == row.last # g

RoundsLeft(n) == Len(rounds[n]) < MaxRounds

\* Fault: a negotiation that was countered is not seen.
Duplicate_OpenOnly(u, partner, s) ==
    \E n \in Negotiations :
        LET row == negotiation[n]
        IN  /\ row.status = "OPEN"
            /\ ProductOf[row.slice] = ProductOf[s]
            /\ PartyOrgs(row) = {OrgOf[u], OrgOf[partner]}
\* The query before the insert and the index uq_negotiations_active_pair_product.
Duplicate(u, partner, s) ==
    \E n \in Negotiations :
        LET row == negotiation[n]
        IN  /\ row.status \in Active
            /\ ProductOf[row.slice] = ProductOf[s]
            /\ PartyOrgs(row) = {OrgOf[u], OrgOf[partner]}

\* _load_and_validate_negotiation_orders: the counterparty's order is live.
CanNegotiate(u, partner, s) ==
    /\ OrgOf[u] # OrgOf[partner] /\ RoleOf[u] # RoleOf[partner]
    /\ <<partner, s>> \in resting

ObserveOrders(c, u, partner, s, p) ==
    /\ Eligible(u)
    /\ CanNegotiate(u, partner, s)
    /\ Observe(c, [op |-> "create_negotiation", user |-> u, partner |-> partner, slice |-> s, price |-> p])
    /\ UNCHANGED <<rows, admission, resting, clock>>

CreateNegotiation(c, n) ==
    LET r == request[c]
    IN  /\ r.op = "create_negotiation"
        /\ negotiation[n].status = "ABSENT"
        /\ CanNegotiate(r.user, r.partner, r.slice)
        /\ Admitted(r.user, {OrgOf[r.user], OrgOf[r.partner]})
        /\ Eligible(r.partner)
        /\ ~Duplicate(r.user, r.partner, r.slice)
        /\ negotiation' = [negotiation EXCEPT ![n] =
               [initiator |-> r.user, partner |-> r.partner, slice |-> r.slice, status |-> "OPEN",
                price |-> r.price, last |-> OrgOf[r.user], expires |-> clock + Lifetime]]
        /\ rounds' = [rounds EXCEPT ![n] = <<[number |-> 1, org |-> OrgOf[r.user], price |-> r.price]>>]
        /\ Finish(c)
        /\ UNCHANGED <<rfq, quote, admission, resting, clock>>

\* _load_negotiation shows a row to members of either organization.
ObserveNegotiation(c, op, u, n, p) ==
    /\ op = "counter_negotiation" => Eligible(u)
    /\ u \in members
    /\ negotiation[n].status # "ABSENT" /\ OrgOf[u] \in PartyOrgs(negotiation[n])
    /\ Observe(c, [op |-> op, user |-> u, id |-> n, price |-> p, seen |-> negotiation[n]])
    /\ UNCHANGED <<rows, admission, resting, clock>>

CounterNegotiation(c) ==
    LET r == request[c]
        row == LockedNegotiation(c)
    IN  /\ r.op = "counter_negotiation"
        /\ SameSlice(c, row)
        /\ Admitted(r.user, PartyOrgs(row))
        /\ r.user \in Parties(row)
        /\ PartiesEligible(row)
        /\ Actionable(row)
        /\ OthersTurn(row, OrgOf[r.user])
        /\ RoundsLeft(r.id)
        /\ rounds' = [rounds EXCEPT ![r.id] =
               Append(@, [number |-> Len(@) + 1, org |-> OrgOf[r.user], price |-> r.price])]
        /\ negotiation' = [negotiation EXCEPT ![r.id] =
               [@ EXCEPT !.status = "COUNTERED", !.price = r.price, !.last = OrgOf[r.user]]]
        /\ Finish(c)
        /\ UNCHANGED <<rfq, quote, admission, resting, clock>>

\* What decline_negotiation requires once it has its locks.
MayDecline(u, row) == Admitted(u, PartyOrgs(row)) /\ u \in Parties(row) /\ Actionable(row)

DeclineNegotiation(c) ==
    LET r == request[c]
    IN  /\ r.op = "decline_negotiation"
        /\ SameSlice(c, LockedNegotiation(c))
        /\ MayDecline(r.user, LockedNegotiation(c))
        /\ negotiation' = [negotiation EXCEPT ![r.id].status = "DECLINED"]
        /\ Finish(c)
        /\ UNCHANGED <<rounds, rfq, quote, admission, resting, clock>>

-----------------------------------------------------------------------------
(* Requests for quotes *)

CreateRfq(u, f, s) ==
    /\ rfq[f].status = "ABSENT"
    /\ RoleOf[u] = "BUYER"
    /\ Admitted(u, {OrgOf[u]})
    /\ rfq' = [rfq EXCEPT ![f] = [buyer |-> u, slice |-> s, status |-> "OPEN",
                                  expires |-> clock + Lifetime]]
    /\ UNCHANGED <<negotiation, rounds, quote, admission, resting, clock, request>>

\* _rfq_visibility_filters for a supplier at a reading of the clock.
VisibleTo(u, row, now) ==
    /\ u \in members
    /\ row.status \in Quotable
    /\ row.expires > now
    /\ OrgOf[row.buyer] # OrgOf[u]

ObserveRfq(c, u, f) ==
    /\ Eligible(u) /\ RoleOf[u] = "SUPPLIER"
    /\ VisibleTo(u, rfq[f], clock)
    /\ Observe(c, [op |-> "submit_quote", user |-> u, id |-> f, now |-> clock, seen |-> rfq[f]])
    /\ UNCHANGED <<rows, admission, resting, clock>>

\* The visibility filter is the one built before the wait; the expiry is
\* compared with the clock again.
SubmitQuote(c) ==
    LET r == request[c]
        row == LockedRfq(c)
        seller == OrgOf[r.user]
    IN  /\ r.op = "submit_quote"
        /\ VisibleTo(r.user, row, r.now)
        /\ SameSlice(c, row)
        /\ Admitted(r.user, {OrgOf[row.buyer], seller})
        /\ row.expires > clock
        /\ quote[r.id][seller] = "NONE"
        /\ quote' = [quote EXCEPT ![r.id][seller] = "PENDING"]
        /\ rfq' = [rfq EXCEPT ![r.id].status = IF row.status = "OPEN" THEN "QUOTED" ELSE @]
        /\ Finish(c)
        /\ UNCHANGED <<negotiation, rounds, admission, resting, clock>>

ObserveOwnRfq(c, u, f) ==
    /\ rfq[f].status # "ABSENT"
    /\ Observe(c, [op |-> "cancel_rfq", user |-> u, id |-> f, seen |-> rfq[f]])
    /\ UNCHANGED <<rows, admission, resting, clock>>

\* What cancel_rfq requires once it has its locks; an actor of another
\* organization fails in the ownership lookup.
MayCancel(u, row) ==
    /\ Admitted(u, {OrgOf[row.buyer]})
    /\ row.buyer = u
    /\ row.status \in Quotable

CancelRfq(c) ==
    LET r == request[c]
    IN  /\ r.op = "cancel_rfq"
        /\ SameSlice(c, LockedRfq(c))
        /\ MayCancel(r.user, LockedRfq(c))
        /\ rfq' = [rfq EXCEPT ![r.id].status = "CANCELLED"]
        /\ quote' = [quote EXCEPT ![r.id] =
               [g \in Orgs |-> IF @[g] = "PENDING" THEN "WITHDRAWN" ELSE @[g]]]
        /\ Finish(c)
        /\ UNCHANGED <<negotiation, rounds, admission, resting, clock>>

\* A check fails, a lock times out or the client goes away.
Refuse(c) ==
    /\ request[c] # Idle
    /\ Finish(c)
    /\ UNCHANGED <<rows, admission, resting, clock>>

-----------------------------------------------------------------------------
(* The book and the administration, as far as conversations see them *)

OrderArrives(u, s) ==
    /\ Eligible(u)
    /\ resting' = resting \union {<<u, s>>}
    /\ UNCHANGED <<rows, admission, clock, request>>

\* Cancelled, filled or expired.
OrderLeaves(u, s) ==
    /\ resting' = resting \ {<<u, s>>}
    /\ UNCHANGED <<rows, admission, clock, request>>

RejectUser(u) ==
    /\ admitted' = admitted \ {u}
    /\ UNCHANGED <<rows, members, approved, resting, clock, request>>

ApproveUser(u) ==
    /\ admitted' = admitted \union {u}
    /\ UNCHANGED <<rows, members, approved, resting, clock, request>>

\* The members lose their membership and the invalidator cancels the orders;
\* conversations stay as they are.
RejectOrganization(g) ==
    LET gone == {u \in Users : OrgOf[u] = g}
    IN  /\ approved' = approved \ {g}
        /\ members' = members \ gone
        /\ resting' = {o \in resting : o[1] \notin gone}
        /\ UNCHANGED <<rows, admitted, clock, request>>

ApproveOrganization(g) ==
    /\ approved' = approved \union {g}
    /\ UNCHANGED <<rows, admitted, members, resting, clock, request>>

ApproveOrganizationJoin(u) ==
    /\ u \in admitted /\ OrgOf[u] \in approved
    /\ members' = members \union {u}
    /\ UNCHANGED <<rows, admitted, approved, resting, clock, request>>

Tick ==
    /\ clock < MaxClock
    /\ clock' = clock + 1
    /\ UNCHANGED <<rows, admission, resting, request>>

-----------------------------------------------------------------------------

Arrive(c) ==
    \E u \in Users :
        \/ \E v \in Users, s \in Slices, p \in Prices : ObserveOrders(c, u, v, s, p)
        \/ \E n \in Negotiations, p \in Prices : ObserveNegotiation(c, "counter_negotiation", u, n, p)
        \/ \E n \in Negotiations : ObserveNegotiation(c, "decline_negotiation", u, n, 0)
        \/ \E f \in Rfqs : ObserveRfq(c, u, f) \/ ObserveOwnRfq(c, u, f)

Apply(c) ==
    \/ \E n \in Negotiations : CreateNegotiation(c, n)
    \/ CounterNegotiation(c)
    \/ DeclineNegotiation(c)
    \/ SubmitQuote(c)
    \/ CancelRfq(c)

Administer ==
    \/ \E u \in RevocableUsers : RejectUser(u) \/ ApproveUser(u)
    \/ \E u \in Users : ApproveOrganizationJoin(u)
    \/ \E g \in RevocableOrgs : RejectOrganization(g) \/ ApproveOrganization(g)

Next ==
    \/ \E c \in Clients : Arrive(c) \/ Apply(c) \/ Refuse(c)
    \/ \E u \in Users, f \in Rfqs, s \in Slices : CreateRfq(u, f, s)
    \/ \E u \in Makers, s \in Slices : OrderArrives(u, s) \/ OrderLeaves(u, s)
    \/ Administer
    \/ Tick

Spec == Init /\ [][Next]_vars

-----------------------------------------------------------------------------
(* Properties *)

TypeOK ==
    /\ negotiation \in [Negotiations -> NegotiationRow]
    /\ rounds \in [Negotiations -> Seq(Round)]
    /\ rfq \in [Rfqs -> RfqRow]
    /\ quote \in [Rfqs -> [Orgs -> {"NONE", "PENDING", "WITHDRAWN"}]]
    /\ admitted \subseteq Users /\ members \subseteq Users /\ approved \subseteq Orgs
    /\ resting \subseteq Users \X Slices
    /\ clock \in Nat
    /\ DOMAIN request = Clients

\* The rounds of a negotiation, in the order in which they were said.
Alternates(row, said) ==
    /\ Len(said) \in 1 .. MaxRounds
    /\ said[1].org = OrgOf[row.initiator]
    /\ \A i \in 1 .. Len(said) : said[i].number = i /\ said[i].org \in PartyOrgs(row)
    /\ \A i \in 2 .. Len(said) : said[i].org # said[i - 1].org
    /\ row.last = said[Len(said)].org /\ row.price = said[Len(said)].price

\* _assert_counterparty_turn and the round cap: the two sides speak in turn,
\* the initiator first, in numbered rounds; the price on the table is the last
\* one proposed, and its proposer is the one who waits.
TurnsAlternate ==
    \A n \in Negotiations : negotiation[n].status # "ABSENT" => Alternates(negotiation[n], rounds[n])

\* Two organizations have at most one active negotiation about a product,
\* whoever opened it and in whichever slices of the product the orders rest:
\* the slice locks of two requests differ, their organizations' rows do not.
ActivePairUnique ==
    \A m, n \in Negotiations :
        /\ m # n
        /\ negotiation[m].status \in Active /\ negotiation[n].status \in Active
        /\ ProductOf[negotiation[m].slice] = ProductOf[negotiation[n].slice]
        => PartyOrgs(negotiation[m]) # PartyOrgs(negotiation[n])

\* A cancelled request for quotes has no quote pending and stays as it is,
\* whichever quotes were on their way when it was cancelled; an open one has
\* no quote and a quoted one has one to offer.
QuotesFollowRfq ==
    [][\A f \in Rfqs :
           LET pending == {g \in Orgs : quote'[f][g] = "PENDING"}
           IN  /\ rfq[f].status = "CANCELLED" => rfq'[f] = rfq[f] /\ quote'[f] = quote[f]
               /\ rfq'[f].status \in {"ABSENT", "OPEN", "CANCELLED"} => pending = {}
               /\ rfq'[f].status = "QUOTED" => pending # {}]_vars

\* A declined negotiation stays as it was: a counter-offer that read it before
\* the decline does not bring it back, nor does it change price or rounds.
DeclineIsFinal ==
    [][\A n \in Negotiations : negotiation[n].status = "DECLINED" =>
           negotiation'[n] = negotiation[n] /\ rounds'[n] = rounds[n]]_vars

\* A proposal is made only while both concrete users and their organizations
\* are admitted and the negotiation has not run out.
ProposesWhileAdmitted ==
    [][\A n \in Negotiations : rounds'[n] # rounds[n] =>
           /\ \A u \in Parties(negotiation'[n]) : Eligible(u)
           /\ rounds[n] # <<>> => negotiation[n].expires > clock]_vars
=============================================================================
