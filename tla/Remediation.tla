---------------------------- MODULE Remediation ----------------------------
(***************************************************************************)
(* The jobs an operator runs beside the live application                   *)
(* (scripts/remediate_market_data.py over services/market_quarantine.py)   *)
(* and the job that keeps the demo market alive (services/demo_activity.py *)
(* run by scripts/run_demo_activity.py).  A job is one transaction at READ *)
(* COMMITTED: it inspects, locks, inspects again and applies, and the      *)
(* application goes on in between wherever no lock stops it.               *)
(***************************************************************************)
EXTENDS Integers, FiniteSets, FiniteSetsExt

CONSTANTS
  QOrders,      \* orders of one market slice
  MaxVersion,   \* amendments of an order
  Rfqs,         \* accepted or open RFQs of one buyer, seller, quantity and price
  Traders,      \* members an organization may have
  Runners,      \* runs of the demo job that overlap
  MaxTicks,
  DemoCap       \* MAX_GENERATED_TRADES

\* The quarantine table tells copies of orders, RFQs and trades apart by their tables.
ASSUME RemedyAssumption ==
  /\ DemoCap \in Nat
  /\ \A o \in QOrders, r \in Rfqs : o \notin {<<"rfq", r>>, <<"trade", r>>}

VARIABLES
  qrow,      \* orders: alive and version of the content
  qdeps,     \* rows that refer to orders: trades, negotiations, rounds, pins
  rfq,       \* RFQs: state and whether the row records its trade
  rfqTrades, \* trades of RFQs, named for the RFQ they were made from
  archived,  \* market_row_quarantines
  qjob,      \* the quarantine in progress
  firm,      \* an organization before its approval as REAL
  reviewed,  \* the snapshot an operator has reviewed in a dry run
  demoTick, demoRun, demoTrades, demoPins

quarantineVars == <<qrow, qdeps, rfq, rfqTrades, archived, qjob>>
approvalVars == <<firm, reviewed>>
demoVars == <<demoTick, demoRun, demoTrades, demoPins>>
remedyVars == <<quarantineVars, approvalVars, demoVars>>

NoJob == [pc |-> "idle"]
Row(kind, of) == [kind |-> kind, of |-> of]
Live(o) == qrow[o].alive

(***************************************************************************)
(* The application beside a quarantine                                     *)
(***************************************************************************)
\* Commands of the market take the lock of the slice, what refers to an order the key of its
\* row, and an RFQ's acceptance the lock of its slice.
SliceFree == qjob.pc \notin {"sliced", "locked", "verified"}
RowFree(o) == qjob.pc \in {"locked", "verified"} => o \notin qjob.ids

AmendOrder(o) ==
  /\ SliceFree /\ Live(o) /\ qrow[o].version < MaxVersion
  /\ qrow' = [qrow EXCEPT ![o].version = @ + 1]
  /\ UNCHANGED <<qdeps, rfq, rfqTrades, archived, qjob, approvalVars, demoVars>>
Refer(kind, of) ==
  /\ IF kind = "pin" THEN Cardinality(of) = 1 /\ \A o \in of : RowFree(o) ELSE SliceFree
  /\ kind = "trade" => of = QOrders
  /\ kind = "round" => Row("negotiation", of) \in qdeps
  /\ \A o \in of : Live(o)
  /\ qdeps' = qdeps \cup {Row(kind, of)}
  /\ UNCHANGED <<qrow, rfq, rfqTrades, archived, qjob, approvalVars, demoVars>>
Unpin(o) ==
  /\ Row("pin", {o}) \in qdeps
  /\ qdeps' = qdeps \ {Row("pin", {o})}
  /\ UNCHANGED <<qrow, rfq, rfqTrades, archived, qjob, approvalVars, demoVars>>
AcceptRfqOf(r) ==
  /\ SliceFree /\ rfq[r].state = "open"
  /\ rfq' = [rfq EXCEPT ![r] = [state |-> "accepted", linked |-> TRUE]]
  /\ rfqTrades' = rfqTrades \cup {r}
  /\ UNCHANGED <<qrow, qdeps, archived, qjob, approvalVars, demoVars>>

(***************************************************************************)
(* Quarantine of orders                                                    *)
(***************************************************************************)
\* _dependency_rows and _belongs_to_order.
DependencyRows(ids) == {d \in qdeps : d.of \cap ids # {}}
\* inspect_order_quarantine.
Inspect(ids) ==
  [found |-> {o \in ids : Live(o)},
   content |-> [o \in {x \in ids : Live(x)} |-> qrow[o].version],
   deps |-> DependencyRows(ids),
   external |-> (UNION {d.of : d \in DependencyRows(ids)}) \ ids,
   already |-> {o \in ids : \E a \in archived : a.source = o}]

\* The refusals of quarantine_orders: missing rows and companions outside the explicit set.
MayQuarantine(r, ids) == ids \subseteq r.found \cup r.already /\ r.external = {}

QuarantineRest == UNCHANGED <<approvalVars, demoVars>>
QuarantineInspects(ids) ==
  /\ qjob.pc = "idle" /\ ids # {}
  /\ MayQuarantine(Inspect(ids), ids)
  /\ qjob' = [pc |-> "inspected", what |-> "orders", ids |-> ids, report |-> Inspect(ids)]
  /\ QuarantineRest /\ UNCHANGED <<qrow, qdeps, rfq, rfqTrades, archived>>

\* _acquire_quarantine_locks, the slices first and the rows after them.
QuarantineLocks ==
  /\ qjob.pc \in {"inspected", "sliced"}
  /\ qjob' = [qjob EXCEPT !.pc = IF @ = "inspected" THEN "sliced" ELSE "locked"]
  /\ QuarantineRest /\ UNCHANGED <<qrow, qdeps, rfq, rfqTrades, archived>>

\* The report of before the locks is taken to hold.
StillHolds_Assumed == TRUE
\* inspect_accepted_rfq_quarantine: the trades that could be the RFQ's.
Candidates == rfqTrades
InspectRfqs(ids) == [states |-> [r \in ids |-> rfq[r]], candidates |-> Candidates]
\* The inspection under the locks answers what the first one did.
StillHolds ==
  IF qjob.what = "orders" THEN Inspect(qjob.ids) = qjob.report
  ELSE InspectRfqs(qjob.ids) = qjob.report
QuarantineVerifies ==
  /\ qjob.pc = "locked"
  /\ qjob' = IF StillHolds THEN [qjob EXCEPT !.pc = "verified"] ELSE NoJob
  /\ QuarantineRest /\ UNCHANGED <<qrow, qdeps, rfq, rfqTrades, archived>>

\* A copy that is there already stays: ON CONFLICT DO NOTHING.
Archived(copies) == archived \cup {c \in copies : \A a \in archived : a.source # c.source}

\* Archive and delete.  What refers to a deleted order and is not on the list makes the
\* database refuse, but for negotiations, which lose the reference.
QuarantineApplies ==
  LET r == qjob.report
      gone == r.found
      left == qdeps \ r.deps
      refused == \E d \in left : d.kind # "negotiation" /\ d.of \cap gone # {}
      copies == {[source |-> o, content |-> r.content[o], deps |-> {d \in r.deps : o \in d.of}] : o \in gone}
  IN
  /\ qjob.pc = "verified" /\ qjob.what = "orders"
  /\ IF refused THEN UNCHANGED <<qrow, qdeps, archived>>
     ELSE /\ archived' = Archived(copies)
          /\ qdeps' = {IF d.kind = "negotiation" THEN [d EXCEPT !.of = @ \ gone] ELSE d : d \in left}
          /\ qrow' = [o \in QOrders |-> IF o \in gone THEN [qrow[o] EXCEPT !.alive = FALSE] ELSE qrow[o]]
  /\ qjob' = NoJob
  /\ QuarantineRest /\ UNCHANGED <<rfq, rfqTrades>>

(***************************************************************************)
(* Quarantine of accepted RFQs                                             *)
(***************************************************************************)
\* The operator binds an RFQ to a trade of the same terms, or attests that there is none.
RfqQuarantineInspects(ids, bind) ==
  /\ qjob.pc = "idle" /\ ids # {}
  /\ \A r \in ids : rfq[r].state = "accepted"
  /\ \A r \in ids : IF bind[r] = "none" THEN Candidates = {} ELSE bind[r] \in Candidates
  /\ qjob' = [pc |-> "inspected", what |-> "rfqs", ids |-> ids, bind |-> bind, report |-> InspectRfqs(ids)]
  /\ QuarantineRest /\ UNCHANGED <<qrow, qdeps, rfq, rfqTrades, archived>>

\* The trades go before the RFQs, so that a row that records its trade makes the database
\* refuse.
RfqQuarantineApplies ==
  LET trades == {qjob.bind[r] : r \in qjob.ids} \ {"none"}
      refused == \E r \in Rfqs : rfq[r].state = "accepted" /\ rfq[r].linked /\ r \in trades
  IN
  /\ qjob.pc = "verified" /\ qjob.what = "rfqs"
  /\ IF refused THEN UNCHANGED <<rfq, rfqTrades, archived>>
     ELSE /\ archived' = Archived({[source |-> <<"rfq", r>>] : r \in qjob.ids} \cup {[source |-> <<"trade", t>>] : t \in trades})
          /\ rfqTrades' = rfqTrades \ trades
          /\ rfq' = [r \in Rfqs |-> IF r \in qjob.ids THEN [rfq[r] EXCEPT !.state = "gone"] ELSE rfq[r]]
  /\ qjob' = NoJob
  /\ QuarantineRest /\ UNCHANGED <<qrow, qdeps>>

(***************************************************************************)
(* Approval of an organization as REAL                                     *)
(***************************************************************************)
ApprovalRest == UNCHANGED <<quarantineVars, demoVars>>
Snapshot == [members |-> firm.members]

MemberTurns(m) ==
  /\ firm' = [firm EXCEPT !.members = SymDiff(@, {m})]
  /\ ApprovalRest /\ UNCHANGED reviewed
\* An administrator decides about the organization; its traders place and withdraw orders.
AdminDecides(s) ==
  /\ firm' = [firm EXCEPT !.status = s]
  /\ ApprovalRest /\ UNCHANGED reviewed
UnknownOrder(b) ==
  /\ firm.prov = "UNKNOWN" /\ firm' = [firm EXCEPT !.unknown = b]
  /\ ApprovalRest /\ UNCHANGED reviewed

\* The first half of approve_real_organizations.
Approvable == firm.status # "REJECTED" /\ firm.members # {} /\ ~firm.unknown
\* A recorded approval must be the one that would be recorded now.
Drifted == firm.record # {} /\ firm.record # {Snapshot}
ReviewOrganization ==
  /\ Approvable /\ ~Drifted
  /\ reviewed' = {Snapshot}
  /\ ApprovalRest /\ UNCHANGED firm

AsReviewed == reviewed = {Snapshot}
\* The second half, in a transaction that has locked the organization, its members and its
\* orders.
ApproveReal ==
  /\ Approvable /\ ~Drifted /\ AsReviewed
  /\ firm' = [firm EXCEPT !.status = "APPROVED", !.prov = "REAL", !.record = IF @ = {} THEN {Snapshot} ELSE @]
  /\ ApprovalRest /\ UNCHANGED reviewed

(***************************************************************************)
(* Demo activity                                                           *)
(***************************************************************************)
Resting == [pc |-> "idle"]
DemoRest == UNCHANGED <<quarantineVars, approvalVars>>
\* _tick_trade_exists; a trade is the tick and the run that made it.
TickTradeExists(t) == \E x \in demoTrades : x[1] = t
TickPasses ==
  /\ demoTick < MaxTicks /\ demoTick' = demoTick + 1
  /\ DemoRest /\ UNCHANGED <<demoRun, demoTrades, demoPins>>
\* generate_demo_market_activity looks before it waits for the lock of the tick's slice.
DemoLooks(w) ==
  /\ demoRun[w].pc = "idle" /\ ~TickTradeExists(demoTick)
  /\ demoRun' = [demoRun EXCEPT ![w] = [pc |-> "waiting", tick |-> demoTick]]
  /\ DemoRest /\ UNCHANGED <<demoTick, demoTrades, demoPins>>
MakesPair(w) == demoRun[w].pc = "waiting" /\ ~TickTradeExists(demoRun[w].tick)
DemoGenerates(w) ==
  /\ demoRun[w].pc = "waiting"
  /\ demoTrades' = IF MakesPair(w) THEN demoTrades \cup {<<demoRun[w].tick, w>>} ELSE demoTrades
  /\ demoRun' = [demoRun EXCEPT ![w] = Resting]
  /\ DemoRest /\ UNCHANGED <<demoTick, demoPins>>
PinDemo(t) ==
  /\ t \in demoTrades
  /\ demoPins' = IF t \in demoPins THEN demoPins \ {t} ELSE demoPins \cup {t}
  /\ DemoRest /\ UNCHANGED <<demoTick, demoRun, demoTrades>>

\* prune_demo_activity: the oldest of the rows nothing refers to, as many as are beyond the cap.
Stale(n) == {t \in demoTrades \ demoPins : Cardinality({u \in demoTrades \ demoPins : u[1] < t[1]}) < n}
PruneDemo ==
  /\ Cardinality(demoTrades) > DemoCap
  /\ demoTrades' = demoTrades \ Stale(Cardinality(demoTrades) - DemoCap)
  /\ DemoRest /\ UNCHANGED <<demoTick, demoRun, demoPins>>

(***************************************************************************)
(* Specification                                                           *)
(***************************************************************************)
\* RFQs accepted before the integrity migration do not record their trade.
RemedyInit ==
  /\ qrow = [o \in QOrders |-> [alive |-> TRUE, version |-> 0]] /\ qdeps = {}
  /\ rfq = [r \in Rfqs |-> IF r = CHOOSE x \in Rfqs : TRUE THEN [state |-> "accepted", linked |-> FALSE]
                            ELSE [state |-> "open", linked |-> FALSE]]
  /\ rfqTrades = {CHOOSE x \in Rfqs : TRUE}
  /\ archived = {} /\ qjob = NoJob
  /\ firm = [status |-> "PENDING", members |-> {}, prov |-> "UNKNOWN", unknown |-> FALSE, record |-> {}]
  /\ reviewed = {}
  /\ demoTick = 1 /\ demoTrades = {} /\ demoPins = {}
  /\ demoRun = [w \in Runners |-> Resting]

OrderQuarantineNext ==
  \/ \E o \in QOrders : AmendOrder(o) \/ Unpin(o)
  \/ \E of \in SUBSET QOrders \ {{}}, kind \in {"trade", "negotiation", "round", "pin"} : Refer(kind, of)
  \/ \E ids \in SUBSET QOrders : QuarantineInspects(ids)
  \/ QuarantineLocks \/ QuarantineVerifies \/ QuarantineApplies
RfqQuarantineNext ==
  \/ \E r \in Rfqs : AcceptRfqOf(r)
  \/ \E ids \in SUBSET Rfqs, bind \in [Rfqs -> Rfqs \cup {"none"}] : RfqQuarantineInspects(ids, bind)
  \/ QuarantineLocks \/ QuarantineVerifies \/ RfqQuarantineApplies
ApprovalNext ==
  \/ \E m \in Traders : MemberTurns(m)
  \/ AdminDecides("APPROVED") \/ AdminDecides("REJECTED") \/ UnknownOrder(TRUE) \/ UnknownOrder(FALSE)
  \/ ReviewOrganization \/ ApproveReal
DemoNext ==
  \/ TickPasses \/ PruneDemo
  \/ \E w \in Runners : DemoLooks(w) \/ DemoGenerates(w)
  \/ \E t \in demoTrades : PinDemo(t)

RemedyNext == OrderQuarantineNext \/ RfqQuarantineNext \/ ApprovalNext \/ DemoNext
RemedySpec == RemedyInit /\ [][RemedyNext]_remedyVars

(***************************************************************************)
(* Properties                                                              *)
(***************************************************************************)
\* quarantine_orders removes an order only with an audit copy of the row as it was and of
\* everything that referred to it, whatever the application did between the inspection and
\* the locks.
QuarantineAudited ==
  [][\A o \in QOrders : Live(o) /\ ~qrow'[o].alive =>
       \E a \in archived' : a.source = o /\ a.content = qrow[o].version /\ DependencyRows({o}) \subseteq a.deps]_quarantineVars

\* It is exact: a trade, negotiation or round is removed or changed only if all its orders
\* are removed with it.
QuarantineExact ==
  [][\A d \in qdeps \ qdeps' : d.kind = "pin" \/ \A o \in d.of : ~qrow'[o].alive]_quarantineVars

\* An organization becomes REAL only with the members an operator has reviewed, and none of
\* its orders of unknown provenance is live.
ApprovedAsReviewed ==
  [][firm.prov # "REAL" /\ firm'.prov = "REAL" =>
       reviewed = {[members |-> firm'.members]} /\ ~firm'.unknown /\ firm.status # "REJECTED"]_approvalVars

\* Two runs of the demo job never make two pairs for one tick.
OnePairPerTick == \A x, y \in demoTrades : x[1] = y[1] => x = y

\* Pruning ends below the cap, or with nothing left that it may remove, and never removes
\* what a customer has pinned.
PruneReachesCap ==
  [][PruneDemo => /\ Cardinality(demoTrades') <= DemoCap \/ demoTrades' \subseteq demoPins
                  /\ demoPins \subseteq demoTrades']_demoVars

\* The operators' corrections (market_quarantine.py, demo_activity.py) touch what was reviewed and
\* nothing else, with an audit copy of what they remove; a demo tick is made once and pruned.
CorrectionsExact ==
  QuarantineAudited /\ QuarantineExact /\ ApprovedAsReviewed /\ PruneReachesCap /\ []OnePairPerTick
=============================================================================
