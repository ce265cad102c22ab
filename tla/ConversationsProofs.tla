------------------------- MODULE ConversationsProofs -------------------------
(* Theorems about Conversations, for any number of users, slices, clients   *)
(* and rows.                                                                *)
EXTENDS Conversations, TLAPS

\* What a waiting request carries.
RequestTyped ==
    \A c \in Clients :
        LET r == request[c]
        IN  /\ r.op = "create_negotiation" =>
                   r.user \in Users /\ r.partner \in Users /\ r.slice \in Slices /\ r.price \in Nat
            /\ r.op = "counter_negotiation" =>
                   r.user \in Users /\ r.id \in Negotiations /\ r.price \in Nat
            /\ r.op = "decline_negotiation" => r.id \in Negotiations
            /\ r.op = "submit_quote" => r.user \in Users /\ r.id \in Rfqs
            /\ r.op = "cancel_rfq" => r.id \in Rfqs
RowsTyped ==
    /\ negotiation \in [Negotiations -> NegotiationRow]
    /\ rounds \in [Negotiations -> Seq(Round)]
    /\ rfq \in [Rfqs -> RfqRow]
    /\ quote \in [Rfqs -> [Orgs -> {"NONE", "PENDING", "WITHDRAWN"}]]
WorldTyped ==
    /\ admitted \subseteq Users /\ members \subseteq Users /\ approved \subseteq Orgs
    /\ resting \subseteq Users \X Slices
    /\ clock \in Nat
    /\ DOMAIN request = Clients
Typed == RowsTyped /\ WorldTyped /\ RequestTyped

LEMMA ConstantsTyped ==
    /\ \A u \in Users : OrgOf[u] \in Orgs
    /\ \A p \in Prices : p \in Nat
    /\ MaxRounds \in Nat /\ MaxRounds >= 1 /\ Lifetime \in Nat
    /\ Makers \subseteq Users
  BY ConversationConstants

LEMMA Observed ==
    ASSUME Typed, NEW c \in Clients, NEW r, Observe(c, r), UNCHANGED <<rows, admission, resting, clock>>,
           r.op = "create_negotiation" =>
               r.user \in Users /\ r.partner \in Users /\ r.slice \in Slices /\ r.price \in Nat,
           r.op = "counter_negotiation" => r.user \in Users /\ r.id \in Negotiations /\ r.price \in Nat,
           r.op = "decline_negotiation" => r.id \in Negotiations,
           r.op = "submit_quote" => r.user \in Users /\ r.id \in Rfqs,
           r.op = "cancel_rfq" => r.id \in Rfqs
    PROVE  Typed'
<1>1. RowsTyped' /\ WorldTyped'
  BY DEF Typed, RowsTyped, WorldTyped, rows, admission, Observe
<1>2. RequestTyped'
  BY DEF Typed, WorldTyped, RequestTyped, Observe
<1> QED
  BY <1>1, <1>2 DEF Typed

LEMMA Finished ==
    ASSUME Typed, NEW c \in Clients, Finish(c)
    PROVE  RequestTyped' /\ DOMAIN request' = Clients
  BY DEF Typed, WorldTyped, RequestTyped, Finish, Idle

LEMMA CreateTyped ==
    ASSUME Typed, NEW c \in Clients, NEW n \in Negotiations, CreateNegotiation(c, n)
    PROVE  Typed'
<1>1. /\ request[c].user \in Users /\ request[c].partner \in Users
      /\ request[c].slice \in Slices /\ request[c].price \in Nat
      /\ OrgOf[request[c].user] \in Orgs
  BY ConstantsTyped DEF Typed, RequestTyped, CreateNegotiation
<1>2. negotiation' \in [Negotiations -> NegotiationRow]
  BY <1>1, ConstantsTyped DEF Typed, RowsTyped, WorldTyped, CreateNegotiation, NegotiationRow, Active
<1>3. rounds' \in [Negotiations -> Seq(Round)]
  <2>1. [number |-> 1, org |-> OrgOf[request[c].user], price |-> request[c].price] \in Round
    BY <1>1, ConstantsTyped DEF Round
  <2>2. <<[number |-> 1, org |-> OrgOf[request[c].user], price |-> request[c].price]>> \in Seq(Round)
    BY <2>1
  <2> QED
    BY <2>2 DEF Typed, RowsTyped, CreateNegotiation
<1>4. RowsTyped'
  BY <1>2, <1>3 DEF Typed, RowsTyped, CreateNegotiation
<1>5. WorldTyped'
  BY Finished DEF Typed, WorldTyped, CreateNegotiation, admission
<1> QED
  BY <1>4, <1>5, Finished DEF Typed, CreateNegotiation

LEMMA CounterTyped ==
    ASSUME Typed, NEW c \in Clients, CounterNegotiation(c)
    PROVE  Typed'
<1>1. /\ request[c].user \in Users /\ request[c].id \in Negotiations /\ request[c].price \in Nat
      /\ OrgOf[request[c].user] \in Orgs
  BY ConstantsTyped DEF Typed, RequestTyped, CounterNegotiation
<1>2. negotiation' \in [Negotiations -> NegotiationRow]
  <2> DEFINE row == negotiation[request[c].id]
             new == [row EXCEPT !.status = "COUNTERED", !.price = request[c].price,
                                !.last = OrgOf[request[c].user]]
  <2>1. row \in NegotiationRow
    BY <1>1 DEF Typed, RowsTyped
  <2>2. new \in NegotiationRow
    BY <1>1, <2>1 DEF NegotiationRow, Active
  <2>3. negotiation' = [negotiation EXCEPT ![request[c].id] = new]
    BY DEF CounterNegotiation
  <2> QED
    BY <2>2, <2>3 DEF Typed, RowsTyped
<1>3. rounds' \in [Negotiations -> Seq(Round)]
  <2> DEFINE said == rounds[request[c].id]
             new == [number |-> Len(said) + 1, org |-> OrgOf[request[c].user], price |-> request[c].price]
  <2>1. said \in Seq(Round) /\ Len(said) < MaxRounds
    BY <1>1 DEF Typed, RowsTyped, CounterNegotiation, RoundsLeft
  <2>2. Len(said) \in Nat
    BY <2>1
  <2>3. new \in Round
    BY <1>1, <2>1, <2>2, ConstantsTyped DEF Round
  <2>4. Append(said, new) \in Seq(Round)
    BY <2>1, <2>3
  <2>5. rounds' = [rounds EXCEPT ![request[c].id] = Append(said, new)]
    BY DEF CounterNegotiation
  <2> QED
    BY <2>4, <2>5 DEF Typed, RowsTyped
<1>4. RowsTyped' /\ WorldTyped'
  BY <1>2, <1>3, Finished DEF Typed, RowsTyped, WorldTyped, CounterNegotiation, admission
<1> QED
  BY <1>4, Finished DEF Typed, CounterNegotiation

LEMMA DeclineTyped ==
    ASSUME Typed, NEW c \in Clients, DeclineNegotiation(c)
    PROVE  Typed'
<1>1. request[c].id \in Negotiations
  BY DEF Typed, RequestTyped, DeclineNegotiation
<1>2. RowsTyped'
  BY <1>1, ZenonT(40) DEF Typed, RowsTyped, DeclineNegotiation, NegotiationRow
<1>3. WorldTyped'
  BY Finished DEF Typed, WorldTyped, DeclineNegotiation, admission
<1> QED
  BY <1>2, <1>3, Finished DEF Typed, DeclineNegotiation

LEMMA QuoteTyped ==
    ASSUME Typed, NEW c \in Clients, SubmitQuote(c)
    PROVE  Typed'
<1>1. request[c].user \in Users /\ request[c].id \in Rfqs /\ OrgOf[request[c].user] \in Orgs
  BY ConstantsTyped DEF Typed, RequestTyped, SubmitQuote
<1>2. rfq' \in [Rfqs -> RfqRow]
  BY <1>1, ZenonT(40) DEF Typed, RowsTyped, SubmitQuote, RfqRow, Quotable
<1>3. quote' \in [Rfqs -> [Orgs -> {"NONE", "PENDING", "WITHDRAWN"}]]
  BY <1>1 DEF Typed, RowsTyped, SubmitQuote
<1>4. RowsTyped' /\ WorldTyped'
  BY <1>2, <1>3, Finished DEF Typed, RowsTyped, WorldTyped, SubmitQuote, admission
<1> QED
  BY <1>4, Finished DEF Typed, SubmitQuote

LEMMA CancelTyped ==
    ASSUME Typed, NEW c \in Clients, CancelRfq(c)
    PROVE  Typed'
<1>1. request[c].id \in Rfqs
  BY DEF Typed, RequestTyped, CancelRfq
<1>2. rfq' \in [Rfqs -> RfqRow]
  BY <1>1 DEF Typed, RowsTyped, CancelRfq, RfqRow, Quotable
<1>3. quote' \in [Rfqs -> [Orgs -> {"NONE", "PENDING", "WITHDRAWN"}]]
  BY <1>1 DEF Typed, RowsTyped, CancelRfq
<1>4. RowsTyped' /\ WorldTyped'
  BY <1>2, <1>3, Finished DEF Typed, RowsTyped, WorldTyped, CancelRfq, admission
<1> QED
  BY <1>4, Finished DEF Typed, CancelRfq

LEMMA RfqTyped ==
    ASSUME Typed, NEW u \in Users, NEW f \in Rfqs, NEW s \in Slices, CreateRfq(u, f, s)
    PROVE  Typed'
<1>1. rfq' \in [Rfqs -> RfqRow]
  BY ConstantsTyped DEF Typed, RowsTyped, WorldTyped, CreateRfq, RfqRow, Quotable
<1>2. RowsTyped' /\ WorldTyped' /\ RequestTyped'
  BY <1>1 DEF Typed, RowsTyped, WorldTyped, RequestTyped, CreateRfq, admission
<1> QED
  BY <1>2 DEF Typed

\* The book, the administration and the clock.
LEMMA WorldStep ==
    ASSUME Typed, UNCHANGED rows, UNCHANGED request, WorldTyped'
    PROVE  Typed'
  BY DEF Typed, RowsTyped, RequestTyped, rows

LEMMA TypedInit == Init => Typed
<1> SUFFICES ASSUME Init PROVE Typed
  OBVIOUS
<1>1. (CHOOSE s \in Slices : TRUE) \in Slices /\ (CHOOSE g \in Orgs : TRUE) \in Orgs
  BY ConversationConstants
<1>2. NoNegotiation \in NegotiationRow /\ NoRfq \in RfqRow
  BY <1>1 DEF NoNegotiation, NoRfq, NegotiationRow, RfqRow
<1>3. RowsTyped
  BY <1>2 DEF Init, RowsTyped
<1>4. WorldTyped /\ RequestTyped
  BY DEF Init, WorldTyped, RequestTyped, Idle
<1> QED
  BY <1>3, <1>4 DEF Typed

LEMMA ArriveTyped ==
    ASSUME Typed, NEW c \in Clients, Arrive(c)
    PROVE  Typed'
<1>1. ASSUME NEW u \in Users, NEW v \in Users, NEW s \in Slices, NEW p \in Prices,
             ObserveOrders(c, u, v, s, p)
      PROVE  Typed'
  BY <1>1, Observed, ConstantsTyped DEF ObserveOrders
<1>2. ASSUME NEW u \in Users, NEW n \in Negotiations, NEW p \in Nat,
             NEW op \in {"counter_negotiation", "decline_negotiation"}, ObserveNegotiation(c, op, u, n, p)
      PROVE  Typed'
  BY <1>2, Observed DEF ObserveNegotiation
<1>3. ASSUME NEW u \in Users, NEW f \in Rfqs, ObserveRfq(c, u, f) PROVE Typed'
  BY <1>3, Observed DEF ObserveRfq
<1>4. ASSUME NEW u \in Users, NEW f \in Rfqs, ObserveOwnRfq(c, u, f) PROVE Typed'
  BY <1>4, Observed DEF ObserveOwnRfq
<1> QED
  BY <1>1, <1>2, <1>3, <1>4, ConstantsTyped DEF Arrive

LEMMA ApplyTyped ==
    ASSUME Typed, NEW c \in Clients, Apply(c)
    PROVE  Typed'
  BY CreateTyped, CounterTyped, DeclineTyped, QuoteTyped, CancelTyped DEF Apply

LEMMA RefuseTyped ==
    ASSUME Typed, NEW c \in Clients, Refuse(c)
    PROVE  Typed'
<1>1. RowsTyped' /\ WorldTyped'
  BY Finished DEF Typed, RowsTyped, WorldTyped, Refuse, rows, admission
<1> QED
  BY <1>1, Finished DEF Typed, Refuse

\* Orders come and go, administrators decide, time passes.
World ==
    \/ \E u \in Makers, s \in Slices : OrderArrives(u, s) \/ OrderLeaves(u, s)
    \/ Administer
    \/ Tick

LEMMA WorldTypes ==
    ASSUME Typed, World
    PROVE  Typed' /\ UNCHANGED rows
<1> USE DEF Typed, WorldTyped
<1>1. ASSUME NEW u \in Makers, NEW s \in Slices, OrderArrives(u, s)
      PROVE  WorldTyped' /\ UNCHANGED rows /\ UNCHANGED request
  BY <1>1, ConstantsTyped DEF OrderArrives, admission
<1>2. ASSUME NEW u \in Makers, NEW s \in Slices, OrderLeaves(u, s)
      PROVE  WorldTyped' /\ UNCHANGED rows /\ UNCHANGED request
  BY <1>2 DEF OrderLeaves, admission
<1>3. ASSUME Administer
      PROVE  WorldTyped' /\ UNCHANGED rows /\ UNCHANGED request
  <2>1. ASSUME NEW u \in RevocableUsers, RejectUser(u) \/ ApproveUser(u)
        PROVE  WorldTyped' /\ UNCHANGED rows /\ UNCHANGED request
    BY <2>1, ConversationConstants DEF RejectUser, ApproveUser
  <2>2. ASSUME NEW u \in Users, ApproveOrganizationJoin(u)
        PROVE  WorldTyped' /\ UNCHANGED rows /\ UNCHANGED request
    BY <2>2 DEF ApproveOrganizationJoin
  <2>3. ASSUME NEW g \in RevocableOrgs, RejectOrganization(g)
        PROVE  WorldTyped' /\ UNCHANGED rows /\ UNCHANGED request
    BY <2>3 DEF RejectOrganization
  <2>4. ASSUME NEW g \in RevocableOrgs, ApproveOrganization(g)
        PROVE  WorldTyped' /\ UNCHANGED rows /\ UNCHANGED request
    BY <2>4, ConversationConstants DEF ApproveOrganization
  <2> QED
    BY <1>3, <2>1, <2>2, <2>3, <2>4 DEF Administer
<1>4. ASSUME Tick
      PROVE  WorldTyped' /\ UNCHANGED rows /\ UNCHANGED request
  BY <1>4 DEF Tick, admission
<1>5. WorldTyped' /\ UNCHANGED rows /\ UNCHANGED request
  BY <1>1, <1>2, <1>3, <1>4 DEF World
<1> QED
  BY <1>5, WorldStep

LEMMA TypedStep == Typed /\ [Next]_vars => Typed'
<1> SUFFICES ASSUME Typed, [Next]_vars PROVE Typed'
  OBVIOUS
<1>1. CASE UNCHANGED vars
  BY <1>1 DEF vars, Typed, RowsTyped, WorldTyped, RequestTyped
<1>2. ASSUME NEW c \in Clients, Arrive(c) \/ Apply(c) \/ Refuse(c) PROVE Typed'
  BY <1>2, ArriveTyped, ApplyTyped, RefuseTyped
<1>3. ASSUME NEW u \in Users, NEW f \in Rfqs, NEW s \in Slices, CreateRfq(u, f, s) PROVE Typed'
  BY <1>3, RfqTyped
<1>4. CASE World
  BY <1>4, WorldTypes
<1> QED
  BY <1>1, <1>2, <1>3, <1>4 DEF Next, World

-----------------------------------------------------------------------------

\* Two organizations never have two active negotiations about a product:
\* create_negotiation looks for either direction while it holds both
\* organizations' rows, and no other handler makes a negotiation active.
LEMMA PairsInit == Init => ActivePairUnique
  BY DEF Init, ActivePairUnique, NoNegotiation, Active

LEMMA PairsKept ==
    ASSUME ActivePairUnique, UNCHANGED negotiation
    PROVE  ActivePairUnique'
  BY DEF ActivePairUnique, PartyOrgs, Parties

\* A step that leaves parties and slices alone and activates nothing.
LEMMA PairsShrink ==
    ASSUME ActivePairUnique,
           \A n \in Negotiations :
               /\ negotiation'[n].initiator = negotiation[n].initiator
               /\ negotiation'[n].partner = negotiation[n].partner
               /\ negotiation'[n].slice = negotiation[n].slice
               /\ negotiation'[n].status \in Active => negotiation[n].status \in Active
    PROVE  ActivePairUnique'
<1>1. \A n \in Negotiations : PartyOrgs(negotiation'[n]) = PartyOrgs(negotiation[n])
  BY DEF PartyOrgs, Parties
<1> SUFFICES ASSUME NEW m \in Negotiations, NEW n \in Negotiations, m # n,
                    negotiation'[m].status \in Active, negotiation'[n].status \in Active,
                    ProductOf[negotiation'[m].slice] = ProductOf[negotiation'[n].slice]
             PROVE  PartyOrgs(negotiation'[m]) # PartyOrgs(negotiation'[n])
  BY DEF ActivePairUnique, PartyOrgs, Parties
<1> QED
  BY <1>1 DEF ActivePairUnique

LEMMA PairsCreate ==
    ASSUME Typed, ActivePairUnique, NEW c \in Clients, NEW k \in Negotiations, CreateNegotiation(c, k)
    PROVE  ActivePairUnique'
<1> DEFINE r == request[c]
<1>1. \A n \in Negotiations : n # k => negotiation'[n] = negotiation[n]
  BY DEF Typed, RowsTyped, CreateNegotiation
<1>2. /\ negotiation'[k].initiator = r.user /\ negotiation'[k].partner = r.partner
      /\ negotiation'[k].slice = r.slice
  BY DEF Typed, RowsTyped, CreateNegotiation
<1>3. \A n \in Negotiations : negotiation[n].status \in Active
                                /\ ProductOf[negotiation[n].slice] = ProductOf[r.slice]
                              => PartyOrgs(negotiation[n]) # {OrgOf[r.user], OrgOf[r.partner]}
  BY DEF CreateNegotiation, Duplicate
<1>4. PartyOrgs(negotiation'[k]) = {OrgOf[r.user], OrgOf[r.partner]}
  BY <1>2 DEF PartyOrgs, Parties
<1> SUFFICES ASSUME NEW m \in Negotiations, NEW n \in Negotiations, m # n,
                    negotiation'[m].status \in Active, negotiation'[n].status \in Active,
                    ProductOf[negotiation'[m].slice] = ProductOf[negotiation'[n].slice]
             PROVE  PartyOrgs(negotiation'[m]) # PartyOrgs(negotiation'[n])
  BY DEF ActivePairUnique, PartyOrgs, Parties
<1>5. CASE m # k /\ n # k
  BY <1>5, <1>1 DEF ActivePairUnique
<1>6. CASE m = k
  BY <1>6, <1>1, <1>2, <1>3, <1>4
<1>7. CASE n = k
  BY <1>7, <1>1, <1>2, <1>3, <1>4
<1> QED
  BY <1>5, <1>6, <1>7

LEMMA PairsCounter ==
    ASSUME Typed, ActivePairUnique, NEW c \in Clients, CounterNegotiation(c) \/ DeclineNegotiation(c)
    PROVE  ActivePairUnique'
<1> DEFINE id == request[c].id
           row == negotiation[id]
<1>1. id \in Negotiations
  BY DEF Typed, RequestTyped, CounterNegotiation, DeclineNegotiation
<1>2. row \in NegotiationRow
  BY <1>1 DEF Typed, RowsTyped
<1>3. row.status \in Active
  BY DEF CounterNegotiation, DeclineNegotiation, Actionable, MayDecline, LockedNegotiation
<1>4. /\ negotiation'[id].initiator = row.initiator /\ negotiation'[id].partner = row.partner
      /\ negotiation'[id].slice = row.slice
  <2>1. CASE CounterNegotiation(c)
    <3>1. negotiation'[id] = [row EXCEPT !.status = "COUNTERED", !.price = request[c].price,
                                         !.last = OrgOf[request[c].user]]
      BY <1>1, <2>1 DEF Typed, RowsTyped, CounterNegotiation
    <3> QED
      BY <1>2, <3>1 DEF NegotiationRow
  <2>2. CASE DeclineNegotiation(c)
    <3>1. negotiation'[id] = [row EXCEPT !.status = "DECLINED"]
      BY <1>1, <2>2 DEF Typed, RowsTyped, DeclineNegotiation
    <3> QED
      BY <1>2, <3>1 DEF NegotiationRow
  <2> QED
    BY <2>1, <2>2
<1>5. \A n \in Negotiations : n # id => negotiation'[n] = negotiation[n]
  BY <1>1 DEF Typed, RowsTyped, CounterNegotiation, DeclineNegotiation
<1> QED
  BY <1>3, <1>4, <1>5, PairsShrink

LEMMA PairsStep == Typed /\ ActivePairUnique /\ [Next]_vars => ActivePairUnique'
<1> SUFFICES ASSUME Typed, ActivePairUnique, [Next]_vars PROVE ActivePairUnique'
  OBVIOUS
<1>1. CASE UNCHANGED vars
  BY <1>1, PairsKept DEF vars
<1>2. ASSUME NEW c \in Clients, Arrive(c) PROVE UNCHANGED negotiation
  BY <1>2 DEF Arrive, ObserveOrders, ObserveNegotiation, ObserveRfq, ObserveOwnRfq, rows
<1>3. ASSUME NEW c \in Clients, Refuse(c) PROVE UNCHANGED negotiation
  BY <1>3 DEF Refuse, rows
<1>4. ASSUME NEW c \in Clients, Apply(c) PROVE ActivePairUnique'
  <2>1. CASE \E n \in Negotiations : CreateNegotiation(c, n)
    BY <2>1, PairsCreate
  <2>2. CASE CounterNegotiation(c) \/ DeclineNegotiation(c)
    BY <2>2, PairsCounter
  <2>3. CASE SubmitQuote(c) \/ CancelRfq(c)
    BY <2>3, PairsKept DEF SubmitQuote, CancelRfq
  <2> QED
    BY <1>4, <2>1, <2>2, <2>3 DEF Apply
<1>5. ASSUME NEW u \in Users, NEW f \in Rfqs, NEW s \in Slices, CreateRfq(u, f, s)
      PROVE  UNCHANGED negotiation
  BY <1>5 DEF CreateRfq
<1>6. CASE World
  BY <1>6, WorldTypes, PairsKept DEF rows
<1> QED
  BY <1>1, <1>2, <1>3, <1>4, <1>5, <1>6, PairsKept DEF Next, World

\* The parties speak in turn: an opening is one round by the initiator, and a
\* counter-offer appends a round by the side that did not speak last.
LEMMA OpeningAlternates ==
    ASSUME NEW row, NEW p, row.last = OrgOf[row.initiator], row.price = p
    PROVE  Alternates(row, <<[number |-> 1, org |-> OrgOf[row.initiator], price |-> p]>>)
  BY ConstantsTyped DEF Alternates, PartyOrgs, Parties

LEMMA CounterAlternates ==
    ASSUME NEW row, NEW new, NEW said \in Seq(Round), NEW g \in Orgs, NEW p \in Nat,
           Alternates(row, said), Len(said) < MaxRounds, g \in PartyOrgs(row), row.last # g,
           new.initiator = row.initiator, new.partner = row.partner, new.last = g, new.price = p
    PROVE  Alternates(new, Append(said, [number |-> Len(said) + 1, org |-> g, price |-> p]))
<1> DEFINE latest == [number |-> Len(said) + 1, org |-> g, price |-> p]
           more == Append(said, latest)
<1>1. Len(said) \in Nat /\ Len(said) >= 1 /\ MaxRounds \in Nat
  BY ConstantsTyped DEF Alternates
<1>2. latest \in Round
  BY <1>1 DEF Round
<1>3. /\ Len(more) = Len(said) + 1
      /\ \A i \in 1 .. Len(said) : more[i] = said[i]
      /\ more[Len(said) + 1] = latest
  BY <1>1, <1>2
<1>4. PartyOrgs(new) = PartyOrgs(row)
  BY DEF PartyOrgs, Parties
<1>5. Len(more) \in 1 .. MaxRounds /\ more[1].org = OrgOf[new.initiator]
  BY <1>1, <1>3 DEF Alternates
<1>6. \A i \in 1 .. Len(more) : more[i].number = i /\ more[i].org \in PartyOrgs(new)
  BY <1>1, <1>3, <1>4 DEF Alternates
<1>7. ASSUME NEW i \in 2 .. Len(more) PROVE more[i].org # more[i - 1].org
  <2>1. CASE i = Len(said) + 1
    <3>1. more[i].org = g /\ more[i - 1] = said[Len(said)]
      BY <1>1, <1>3, <2>1
    <3> QED
      BY <3>1 DEF Alternates
  <2>2. CASE i # Len(said) + 1
    <3>1. i \in 2 .. Len(said) /\ i - 1 \in 1 .. Len(said) /\ i \in 1 .. Len(said)
      BY <1>1, <1>3, <2>2
    <3> QED
      BY <3>1, <1>3 DEF Alternates
  <2> QED
    BY <2>1, <2>2
<1>8. new.last = more[Len(more)].org /\ new.price = more[Len(more)].price
  BY <1>3
<1> HIDE DEF more
<1> QED
  BY <1>5, <1>6, <1>7, <1>8 DEF Alternates, more

LEMMA TurnsKept ==
    ASSUME TurnsAlternate, UNCHANGED <<negotiation, rounds>>
    PROVE  TurnsAlternate'
<1> SUFFICES ASSUME NEW n \in Negotiations, negotiation'[n].status # "ABSENT"
             PROVE  Alternates(negotiation'[n], rounds'[n])
  BY DEF TurnsAlternate, Alternates, PartyOrgs, Parties
<1> QED
  BY DEF TurnsAlternate

LEMMA TurnsApply ==
    ASSUME Typed, TurnsAlternate, NEW c \in Clients, Apply(c)
    PROVE  TurnsAlternate'
<1> DEFINE r == request[c]
<1> SUFFICES ASSUME NEW n \in Negotiations, negotiation'[n].status # "ABSENT"
             PROVE  Alternates(negotiation'[n], rounds'[n])
  BY DEF TurnsAlternate, Alternates, PartyOrgs, Parties
<1>1. CASE negotiation'[n] = negotiation[n] /\ rounds'[n] = rounds[n]
  BY <1>1 DEF TurnsAlternate
<1>2. ASSUME NEW k \in Negotiations, CreateNegotiation(c, k)
      PROVE  Alternates(negotiation'[n], rounds'[n])
  <2>1. CASE n = k
    <3>1. /\ negotiation'[n].initiator = r.user /\ negotiation'[n].last = OrgOf[r.user]
          /\ negotiation'[n].price = r.price
          /\ rounds'[n] = <<[number |-> 1, org |-> OrgOf[r.user], price |-> r.price]>>
      BY <1>2, <2>1 DEF Typed, RowsTyped, CreateNegotiation
    <3> QED
      BY <3>1, OpeningAlternates
  <2>2. CASE n # k
    BY <1>1, <1>2, <2>2 DEF Typed, RowsTyped, CreateNegotiation
  <2> QED
    BY <2>1, <2>2
<1>3. ASSUME CounterNegotiation(c) PROVE Alternates(negotiation'[n], rounds'[n])
  <2> DEFINE row == negotiation[n]
             said == rounds[n]
             g == OrgOf[r.user]
  <2>1. CASE n = r.id
    <3>1. /\ r.user \in Users /\ r.price \in Nat /\ g \in Orgs
      BY <1>3, ConstantsTyped DEF Typed, RequestTyped, CounterNegotiation
    <3>2. row \in NegotiationRow /\ said \in Seq(Round)
      BY DEF Typed, RowsTyped
    <3>3. /\ negotiation'[n] = [row EXCEPT !.status = "COUNTERED", !.price = r.price, !.last = g]
          /\ rounds'[n] = Append(said, [number |-> Len(said) + 1, org |-> g, price |-> r.price])
      BY <1>3, <2>1 DEF Typed, RowsTyped, CounterNegotiation
    <3>4. /\ negotiation'[n].initiator = row.initiator /\ negotiation'[n].partner = row.partner
          /\ negotiation'[n].last = g /\ negotiation'[n].price = r.price
      BY <3>2, <3>3 DEF NegotiationRow
    <3>5. /\ row.last # g /\ Len(said) < MaxRounds /\ g \in PartyOrgs(row)
          /\ row.status \in Active
      BY <1>3, <2>1 DEF CounterNegotiation, LockedNegotiation, OthersTurn, RoundsLeft, PartyOrgs, Actionable
    <3>6. Alternates(row, said)
      BY <3>5 DEF TurnsAlternate, Active
    <3>7. Alternates(negotiation'[n], Append(said, [number |-> Len(said) + 1, org |-> g, price |-> r.price]))
      <4> HIDE DEF row, said, g
      <4> QED
        BY <3>1, <3>2, <3>4, <3>5, <3>6, CounterAlternates
    <3> QED
      BY <3>3, <3>7
  <2>2. CASE n # r.id
    BY <1>1, <1>3, <2>2 DEF Typed, RowsTyped, CounterNegotiation
  <2> QED
    BY <2>1, <2>2
<1>4. ASSUME DeclineNegotiation(c) PROVE Alternates(negotiation'[n], rounds'[n])
  <2>1. rounds'[n] = rounds[n]
    BY <1>4 DEF DeclineNegotiation
  <2>2. negotiation[n] \in NegotiationRow
    BY DEF Typed, RowsTyped
  <2>3. /\ negotiation'[n].initiator = negotiation[n].initiator
        /\ negotiation'[n].partner = negotiation[n].partner
        /\ negotiation'[n].last = negotiation[n].last /\ negotiation'[n].price = negotiation[n].price
    BY <1>4, <2>2 DEF DeclineNegotiation, Typed, RowsTyped, NegotiationRow
  <2>4. negotiation[n].status # "ABSENT"
    <3>1. CASE n = r.id
      BY <1>4, <3>1 DEF DeclineNegotiation, MayDecline, Actionable, LockedNegotiation, Active
    <3>2. CASE n # r.id
      BY <1>4, <3>2 DEF DeclineNegotiation, Typed, RowsTyped
    <3> QED
      BY <3>1, <3>2
  <2>5. PartyOrgs(negotiation'[n]) = PartyOrgs(negotiation[n])
    BY <2>3 DEF PartyOrgs, Parties
  <2>6. Alternates(negotiation[n], rounds[n])
    BY <2>4 DEF TurnsAlternate
  <2> QED
    BY <2>1, <2>3, <2>5, <2>6 DEF Alternates
<1>5. CASE SubmitQuote(c) \/ CancelRfq(c)
  BY <1>1, <1>5 DEF SubmitQuote, CancelRfq
<1> QED
  BY <1>2, <1>3, <1>4, <1>5 DEF Apply

LEMMA TurnsStep == Typed /\ TurnsAlternate /\ [Next]_vars => TurnsAlternate'
<1> SUFFICES ASSUME Typed, TurnsAlternate, [Next]_vars PROVE TurnsAlternate'
  OBVIOUS
<1>1. CASE UNCHANGED vars
  BY <1>1, TurnsKept DEF vars
<1>2. ASSUME NEW c \in Clients, Arrive(c) \/ Refuse(c) PROVE UNCHANGED <<negotiation, rounds>>
  <2>1. CASE Arrive(c)
    BY <2>1 DEF Arrive, ObserveOrders, ObserveNegotiation, ObserveRfq, ObserveOwnRfq, rows
  <2>2. CASE Refuse(c)
    BY <2>2 DEF Refuse, rows
  <2> QED
    BY <1>2, <2>1, <2>2
<1>3. ASSUME NEW u \in Users, NEW f \in Rfqs, NEW s \in Slices, CreateRfq(u, f, s)
      PROVE  UNCHANGED <<negotiation, rounds>>
  BY <1>3 DEF CreateRfq
<1>4. CASE World
  BY <1>4, WorldTypes, TurnsKept DEF rows
<1> QED
  BY <1>1, <1>2, <1>3, <1>4, TurnsApply, TurnsKept DEF Next, World

\* A decline is the last word: a counter-offer re-reads the row under its lock
\* and finds it no longer active.
LEMMA DeclineStep ==
    ASSUME Typed, [Next]_vars, NEW n \in Negotiations, negotiation[n].status = "DECLINED"
    PROVE  negotiation'[n] = negotiation[n] /\ rounds'[n] = rounds[n]
<1>1. CASE UNCHANGED vars
  BY <1>1 DEF vars
<1>2. ASSUME NEW c \in Clients, Arrive(c) \/ Refuse(c) PROVE UNCHANGED <<negotiation, rounds>>
  <2>1. CASE Arrive(c)
    BY <2>1 DEF Arrive, ObserveOrders, ObserveNegotiation, ObserveRfq, ObserveOwnRfq, rows
  <2>2. CASE Refuse(c)
    BY <2>2 DEF Refuse, rows
  <2> QED
    BY <1>2, <2>1, <2>2
<1>3. ASSUME NEW c \in Clients, Apply(c)
      PROVE  negotiation'[n] = negotiation[n] /\ rounds'[n] = rounds[n]
  <2>1. ASSUME NEW k \in Negotiations, CreateNegotiation(c, k)
        PROVE  negotiation'[n] = negotiation[n] /\ rounds'[n] = rounds[n]
    BY <2>1 DEF CreateNegotiation, Typed, RowsTyped
  <2>2. CASE CounterNegotiation(c) \/ DeclineNegotiation(c)
    <3>1. request[c].id # n
      BY <2>2 DEF CounterNegotiation, DeclineNegotiation, Actionable, MayDecline, LockedNegotiation, Active
    <3> QED
      BY <2>2, <3>1 DEF CounterNegotiation, DeclineNegotiation, Typed, RowsTyped
  <2>3. CASE SubmitQuote(c) \/ CancelRfq(c)
    BY <2>3 DEF SubmitQuote, CancelRfq
  <2> QED
    BY <1>3, <2>1, <2>2, <2>3 DEF Apply
<1>4. ASSUME NEW u \in Users, NEW f \in Rfqs, NEW s \in Slices, CreateRfq(u, f, s)
      PROVE  UNCHANGED <<negotiation, rounds>>
  BY <1>4 DEF CreateRfq
<1>5. CASE World
  BY <1>5, WorldTypes DEF rows
<1> QED
  BY <1>1, <1>2, <1>3, <1>4, <1>5 DEF Next, World

\* Every row of both conversations is well formed at all times, and no
\* negotiation has more rounds than MAX_ROUNDS.
THEOREM ConversationsTyped == Spec => []TypeOK
<1>1. Typed => TypeOK
  BY DEF Typed, RowsTyped, WorldTyped, TypeOK
<1> QED
  BY TypedInit, TypedStep, <1>1, PTL DEF Spec

\* However many requests of both organizations run at once, they have one
\* active negotiation per product.
THEOREM OneActiveNegotiation == Spec => []ActivePairUnique
  BY TypedInit, TypedStep, PairsInit, PairsStep, PTL DEF Spec

\* For every MAX_ROUNDS and however requests interleave, the parties of a
\* negotiation propose in turn and the stored price is the last one said.
THEOREM PartiesTakeTurns == Spec => []TurnsAlternate
<1>1. Init => TurnsAlternate
  BY DEF Init, TurnsAlternate, NoNegotiation
<1> QED
  BY TypedInit, TypedStep, TurnsStep, <1>1, PTL DEF Spec

\* No interleaving of requests changes a declined negotiation.
THEOREM DeclineIsLastWord == Spec => DeclineIsFinal
<1>1. Typed /\ [Next]_vars => [\A n \in Negotiations : negotiation[n].status = "DECLINED" =>
                                  negotiation'[n] = negotiation[n] /\ rounds'[n] = rounds[n]]_vars
  BY DeclineStep
<1> QED
  BY TypedInit, TypedStep, <1>1, PTL DEF Spec, DeclineIsFinal
\* A negotiation that does not exist yet has no rounds.
UnopenedSilent == \A n \in Negotiations : negotiation[n].status = "ABSENT" => rounds[n] = <<>>

\* What a step does to one negotiation: nothing to its rounds and nothing that
\* makes it absent, or a proposal among admitted parties within its lifetime.
Proposal(n) ==
    \/ rounds'[n] = rounds[n] /\ (negotiation'[n].status = "ABSENT" => negotiation[n].status = "ABSENT")
    \/ /\ \A u \in Parties(negotiation'[n]) : Eligible(u)
       /\ negotiation[n].status # "ABSENT" => negotiation[n].expires > clock
       /\ negotiation'[n].status # "ABSENT"

LEMMA ProposalStep ==
    ASSUME Typed, [Next]_vars, NEW n \in Negotiations
    PROVE  Proposal(n)
<1>1. ASSUME UNCHANGED <<negotiation, rounds>> PROVE Proposal(n)
  BY <1>1 DEF Proposal
<1>2. ASSUME NEW c \in Clients, Apply(c) PROVE Proposal(n)
  <2> DEFINE r == request[c]
  <2>1. ASSUME NEW k \in Negotiations, CreateNegotiation(c, k) PROVE Proposal(n)
    <3>1. CASE n = k
      <4>1. /\ negotiation'[n].initiator = r.user /\ negotiation'[n].partner = r.partner
            /\ negotiation'[n].status = "OPEN" /\ negotiation[n].status = "ABSENT"
        BY <2>1, <3>1 DEF Typed, RowsTyped, CreateNegotiation
      <4>2. Eligible(r.user) /\ Eligible(r.partner)
        BY <2>1 DEF CreateNegotiation, Admitted
      <4> QED
        BY <4>1, <4>2 DEF Proposal, Parties
    <3>2. CASE n # k
      BY <2>1, <3>2 DEF Typed, RowsTyped, CreateNegotiation, Proposal
    <3> QED
      BY <3>1, <3>2
  <2>2. ASSUME CounterNegotiation(c) PROVE Proposal(n)
    <3>1. CASE n = r.id
      <4>1. negotiation[n] \in NegotiationRow
        BY DEF Typed, RowsTyped
      <4>2. /\ negotiation'[n].initiator = negotiation[n].initiator
            /\ negotiation'[n].partner = negotiation[n].partner
            /\ negotiation'[n].status = "COUNTERED"
        BY <2>2, <3>1, <4>1 DEF Typed, RowsTyped, CounterNegotiation, NegotiationRow
      <4>3. \A u \in Parties(negotiation[n]) : Eligible(u)
        BY <2>2, <3>1 DEF CounterNegotiation, LockedNegotiation, PartiesEligible
      <4>4. negotiation[n].expires > clock
        BY <2>2, <3>1 DEF CounterNegotiation, LockedNegotiation, Actionable
      <4> QED
        BY <4>2, <4>3, <4>4 DEF Proposal, Parties
    <3>2. CASE n # r.id
      BY <2>2, <3>2 DEF Typed, RowsTyped, CounterNegotiation, Proposal
    <3> QED
      BY <3>1, <3>2
  <2>3. CASE DeclineNegotiation(c)
    <3>1. rounds'[n] = rounds[n]
      BY <2>3 DEF DeclineNegotiation
    <3>2. negotiation'[n].status = "ABSENT" => negotiation[n].status = "ABSENT"
      <4>1. CASE n = r.id
        BY <2>3, <4>1 DEF DeclineNegotiation, Typed, RowsTyped, NegotiationRow
      <4>2. CASE n # r.id
        BY <2>3, <4>2 DEF DeclineNegotiation, Typed, RowsTyped
      <4> QED
        BY <4>1, <4>2
    <3> QED
      BY <3>1, <3>2 DEF Proposal
  <2>4. CASE SubmitQuote(c) \/ CancelRfq(c)
    BY <1>1, <2>4 DEF SubmitQuote, CancelRfq
  <2> QED
    BY <1>2, <2>1, <2>2, <2>3, <2>4 DEF Apply
<1>3. ASSUME NEW c \in Clients, Arrive(c) \/ Refuse(c) PROVE UNCHANGED <<negotiation, rounds>>
  <2>1. CASE Arrive(c)
    BY <2>1 DEF Arrive, ObserveOrders, ObserveNegotiation, ObserveRfq, ObserveOwnRfq, rows
  <2>2. CASE Refuse(c)
    BY <2>2 DEF Refuse, rows
  <2> QED
    BY <1>3, <2>1, <2>2
<1>4. ASSUME NEW u \in Users, NEW f \in Rfqs, NEW s \in Slices, CreateRfq(u, f, s)
      PROVE  UNCHANGED <<negotiation, rounds>>
  BY <1>4 DEF CreateRfq
<1>5. CASE World
  BY <1>1, <1>5, WorldTypes DEF rows
<1>6. CASE UNCHANGED vars
  BY <1>1, <1>6 DEF vars
<1> QED
  BY <1>1, <1>2, <1>3, <1>4, <1>5, <1>6 DEF Next, World

\* A request for quotes offers something exactly if it says so.
PendingShown(row, quotes) ==
    /\ row.status \in {"ABSENT", "OPEN", "CANCELLED"} => \A g \in Orgs : quotes[g] # "PENDING"
    /\ row.status = "QUOTED" => \E g \in Orgs : quotes[g] = "PENDING"
OffersShown == \A f \in Rfqs : PendingShown(rfq[f], quote[f])

\* What a step does to one request for quotes.
RfqKept(f) ==
    /\ rfq[f].status = "CANCELLED" => rfq'[f] = rfq[f] /\ quote'[f] = quote[f]
    /\ PendingShown(rfq'[f], quote'[f])

LEMMA QuoteStep ==
    ASSUME Typed, OffersShown, NEW c \in Clients, SubmitQuote(c), NEW f \in Rfqs
    PROVE  RfqKept(f)
<1> DEFINE r == request[c]
           seller == OrgOf[r.user]
<1>1. CASE f = r.id
  <2>1. /\ seller \in Orgs /\ rfq[f] \in RfqRow
        /\ quote[f] \in [Orgs -> {"NONE", "PENDING", "WITHDRAWN"}]
    BY ConstantsTyped DEF Typed, RowsTyped, RequestTyped, SubmitQuote
  <2>2. rfq[f].status \in {"OPEN", "QUOTED"}
    BY <1>1 DEF SubmitQuote, LockedRfq, VisibleTo, Quotable
  <2>3. quote'[f] = [quote[f] EXCEPT ![seller] = "PENDING"]
    BY <1>1 DEF SubmitQuote, Typed, RowsTyped
  <2>4. rfq'[f].status = "QUOTED"
    BY <1>1, <2>1, <2>2 DEF SubmitQuote, LockedRfq, Typed, RowsTyped, RfqRow
  <2>5. quote'[f][seller] = "PENDING"
    BY <2>1, <2>3
  <2> QED
    BY <2>1, <2>2, <2>4, <2>5 DEF RfqKept, PendingShown
<1>2. CASE f # r.id
  BY <1>2 DEF SubmitQuote, Typed, RowsTyped, RfqKept, OffersShown
<1> QED
  BY <1>1, <1>2

LEMMA CancelStep ==
    ASSUME Typed, OffersShown, NEW c \in Clients, CancelRfq(c), NEW f \in Rfqs
    PROVE  RfqKept(f)
<1> DEFINE r == request[c]
<1>1. CASE f = r.id
  <2>1. rfq[f] \in RfqRow /\ rfq[f].status \in {"OPEN", "QUOTED"}
    BY <1>1 DEF CancelRfq, MayCancel, LockedRfq, Quotable, Typed, RowsTyped
  <2>2. rfq'[f].status = "CANCELLED"
    BY <1>1, <2>1 DEF CancelRfq, Typed, RowsTyped, RfqRow
  <2>3. quote'[f] = [g \in Orgs |-> IF quote[f][g] = "PENDING" THEN "WITHDRAWN" ELSE quote[f][g]]
    BY <1>1 DEF CancelRfq, Typed, RowsTyped
  <2>4. \A g \in Orgs : quote'[f][g] # "PENDING"
    BY <2>3
  <2> QED
    BY <2>1, <2>2, <2>4 DEF RfqKept, PendingShown
<1>2. CASE f # r.id
  BY <1>2 DEF CancelRfq, Typed, RowsTyped, RfqKept, OffersShown
<1> QED
  BY <1>1, <1>2

LEMMA RfqStep ==
    ASSUME Typed, OffersShown, [Next]_vars, NEW f \in Rfqs
    PROVE  RfqKept(f)
<1>1. ASSUME UNCHANGED <<rfq, quote>> PROVE RfqKept(f)
  BY <1>1 DEF RfqKept, OffersShown
<1>2. ASSUME NEW c \in Clients, Apply(c) PROVE RfqKept(f)
  <2>1. ASSUME NEW k \in Negotiations, CreateNegotiation(c, k) PROVE UNCHANGED <<rfq, quote>>
    BY <2>1 DEF CreateNegotiation
  <2>2. CASE CounterNegotiation(c) \/ DeclineNegotiation(c)
    BY <1>1, <2>2 DEF CounterNegotiation, DeclineNegotiation
  <2> QED
    BY <1>1, <1>2, <2>1, <2>2, QuoteStep, CancelStep DEF Apply
<1>3. ASSUME NEW c \in Clients, Arrive(c) \/ Refuse(c) PROVE UNCHANGED <<rfq, quote>>
  <2>1. CASE Arrive(c)
    BY <2>1 DEF Arrive, ObserveOrders, ObserveNegotiation, ObserveRfq, ObserveOwnRfq, rows
  <2>2. CASE Refuse(c)
    BY <2>2 DEF Refuse, rows
  <2> QED
    BY <1>3, <2>1, <2>2
<1>4. ASSUME NEW u \in Users, NEW k \in Rfqs, NEW s \in Slices, CreateRfq(u, k, s) PROVE RfqKept(f)
  <2>1. CASE f = k
    <3>1. /\ rfq[f].status = "ABSENT" /\ rfq'[f].status = "OPEN" /\ quote'[f] = quote[f]
      BY <1>4, <2>1 DEF CreateRfq, Typed, RowsTyped
    <3> QED
      BY <3>1 DEF RfqKept, PendingShown, OffersShown
  <2>2. CASE f # k
    BY <1>4, <2>2 DEF CreateRfq, Typed, RowsTyped, RfqKept, OffersShown
  <2> QED
    BY <2>1, <2>2
<1>5. CASE World
  BY <1>1, <1>5, WorldTypes DEF rows
<1>6. CASE UNCHANGED vars
  BY <1>1, <1>6 DEF vars
<1> QED
  BY <1>1, <1>2, <1>3, <1>4, <1>5, <1>6 DEF Next, World

\* However stale the read a request starts from, a proposal is recorded only
\* while both users and their organizations are admitted and the negotiation
\* has not run out.
THEOREM ProposersAdmitted == Spec => ProposesWhileAdmitted
<1> DEFINE Step == \A n \in Negotiations : rounds'[n] # rounds[n] =>
                       /\ \A u \in Parties(negotiation'[n]) : Eligible(u)
                       /\ rounds[n] # <<>> => negotiation[n].expires > clock
<1>1. Init => UnopenedSilent
  BY DEF Init, UnopenedSilent
<1>2. Typed /\ UnopenedSilent /\ [Next]_vars => UnopenedSilent'
  BY ProposalStep DEF Proposal, UnopenedSilent
<1>3. Typed /\ UnopenedSilent /\ [Next]_vars => [Step]_vars
  BY ProposalStep DEF Proposal, UnopenedSilent
<1> QED
  BY TypedInit, TypedStep, <1>1, <1>2, <1>3, PTL DEF Spec, ProposesWhileAdmitted

\* A cancelled request for quotes keeps no pending quote and is never touched
\* again by a quote that was on its way; a quoted one has a quote to offer.
THEOREM CancelledStaysQuiet == Spec => QuotesFollowRfq
<1> DEFINE Step == \A f \in Rfqs :
                       LET pending == {g \in Orgs : quote'[f][g] = "PENDING"}
                       IN  /\ rfq[f].status = "CANCELLED" => rfq'[f] = rfq[f] /\ quote'[f] = quote[f]
                           /\ rfq'[f].status \in {"ABSENT", "OPEN", "CANCELLED"} => pending = {}
                           /\ rfq'[f].status = "QUOTED" => pending # {}
<1>1. Init => OffersShown
  BY DEF Init, OffersShown, PendingShown, NoRfq
<1>2. Typed /\ OffersShown /\ [Next]_vars => OffersShown'
  BY RfqStep DEF RfqKept, OffersShown, PendingShown
<1>3. Typed /\ OffersShown /\ [Next]_vars => [Step]_vars
  BY RfqStep DEF RfqKept, PendingShown
<1> QED
  BY TypedInit, TypedStep, <1>1, <1>2, <1>3, PTL DEF Spec, QuotesFollowRfq
=============================================================================
