---------------------------- MODULE ForwardMarks ----------------------------
(***************************************************************************)
(* The public price of one market slice: the cell of the forward curve,    *)
(* which forward_curve_market_slices.py reads in several statements of a   *)
(* READ COMMITTED transaction while orders and trades commit; the price    *)
(* summary of price_discovery.py; and the market signals that              *)
(* market_signal_ingestion.py stores and forward_monitoring.py shows.      *)
(***************************************************************************)
EXTENDS Integers, Sequences, FiniteSets, SequencesExt

CONSTANTS
  MarkTrades,    \* trades of the slice
  CurveTrades,   \* the ones that happen while a cell is read
  QuoteKinds,    \* kinds of quote: side, class, and whether DEMO_COVERAGE keeps it
  References,    \* of "indication", "band" and "benchmark"
  Lookback,      \* how long a trade counts
  MaxMarkTime,
  Ingests,       \* runs of the ingestion command
  File(_),       \* the events of a run's file in order; 0 is a row that does not validate
  PartOf(_),     \* the indication side or stem an event is about
  SeedEvents,    \* events of the demo seed
  FocusLimit     \* rows a focus shows

ASSUME ForwardAssumption ==
  /\ CurveTrades \subseteq MarkTrades
  /\ Lookback \in Nat \ {0}
  /\ FocusLimit \in Nat \ {0}
  /\ QuoteKinds \subseteq [side : {"bid", "ask"}, class : {"REAL", "DEMO", "UNKNOWN"}, managed : BOOLEAN]
  /\ \A w \in Ingests : File(w) \in Seq(Nat)
  /\ "seed" \notin Ingests

FileEvents == UNION {{File(w)[i] : i \in DOMAIN File(w)} : w \in Ingests}
\* The ids of the demo seed have a prefix of their own.
ASSUME EventAssumption ==
  /\ SeedEvents \subseteq Nat /\ FileEvents \cap SeedEvents = {}
  /\ \E top \in {0} \cup FileEvents \cup SeedEvents : \A e \in FileEvents \cup SeedEvents : e <= top

VARIABLES
  markTime,
  resting,     \* kinds of quote resting in the slice
  dealt,       \* trade -> its stamp, its class and whether it committed
  references,  \* what stands behind a mark without book or trade
  loading,     \* a load of the cell
  summing,     \* a reader of the price summary
  ingest,      \* ingestion runs
  signals      \* signal rows, uncommitted ones included

curveVars == <<resting, references, loading>>
signalVars == <<ingest, signals>>
forwardVars == <<markTime, dealt, summing, curveVars, signalVars>>

(***************************************************************************)
(* The market behind the marks                                             *)
(***************************************************************************)
MarkClasses == {"REAL", "DEMO", "UNKNOWN"}
Undealt == [at |-> 0, class |-> "none", committed |-> FALSE]
Committed == {t \in MarkTrades : dealt[t].committed}

QuoteRests(k) ==
  /\ k \notin resting
  /\ resting' = resting \cup {k}
  /\ UNCHANGED <<markTime, dealt, references, loading, summing, signalVars>>

\* Cancelled, expired, or taken by a hit that waits for its confirmation.
QuoteLeaves(k) ==
  /\ k \in resting
  /\ resting' = resting \ {k}
  /\ UNCHANGED <<markTime, dealt, references, loading, summing, signalVars>>

\* A match or a confirmation stamps confirmed_at inside its transaction.
TradeStamped(t, c) ==
  /\ dealt[t] = Undealt
  /\ dealt' = [dealt EXCEPT ![t] = [at |-> markTime, class |-> c, committed |-> FALSE]]
  /\ UNCHANGED <<markTime, summing, curveVars, signalVars>>

\* Its commit shows the trade and, when it was a match, takes the quote it filled.
TradeCommits(t) ==
  /\ dealt[t] # Undealt /\ ~dealt[t].committed
  /\ dealt' = [dealt EXCEPT ![t].committed = TRUE]
  /\ \E filled \in {{}} \cup {{k} : k \in {q \in resting : q.class = dealt[t].class}} :
       resting' = resting \ filled
  /\ UNCHANGED <<markTime, references, loading, summing, signalVars>>

\* The slice's benchmark, fair band and indications come and go.
ReferenceChanges(r) ==
  /\ references' = IF r \in references THEN references \ {r} ELSE references \cup {r}
  /\ UNCHANGED <<markTime, dealt, resting, loading, summing, signalVars>>

MarkTick ==
  /\ markTime < MaxMarkTime
  /\ markTime' = markTime + 1
  /\ UNCHANGED <<dealt, summing, curveVars, signalVars>>

(***************************************************************************)
(* Evidence                                                                *)
(***************************************************************************)
\* trade_evidence_clause: both parties of one class, confirmed since the cutoff.
Evidence(c, cutoff) == {t \in Committed : dealt[t].class = c /\ dealt[t].at >= cutoff}

\* The latest print of a class; prints of one instant are told apart by their ids.
Latest(trades) == {t \in trades : \A u \in trades : dealt[u].at <= dealt[t].at}

\* select_aggregate_evidence: REAL if there is any, else DEMO, else nothing is priced.
SelectClass(real, demo, unknown) ==
  CASE real > 0 -> "REAL"
    [] real = 0 /\ demo > 0 -> "DEMO"
    [] OTHER -> IF unknown > 0 THEN "UNKNOWN" ELSE "none"

Count(book, c) == Cardinality({k \in book : k.class = c})
TwoSided(book, c) == \A s \in {"bid", "ask"} : \E k \in book : k.side = s /\ k.class = c
ManagedBook(book) == \A k \in book : k.class = "DEMO" => k.managed

(***************************************************************************)
(* The cell                                                                *)
(***************************************************************************)
NoMark == [kind |-> "none", class |-> "none", executable |-> FALSE]
Unloaded == [pc |-> "idle", book |-> {}, trade |-> "none", backing |-> {},
             mark |-> NoMark, backed |-> FALSE]

\* The slice has a price of its own at this moment.
Backed == TwoSided(resting, "REAL") \/ Evidence("REAL", 0) \cup Evidence("DEMO", 0) # {}

LoadBegins ==
  /\ loading.pc \in {"idle", "done"}
  /\ loading' = [Unloaded EXCEPT !.pc = "first", !.backed = Backed]
  /\ UNCHANGED <<markTime, dealt, resting, references, summing, signalVars>>

\* The prints before the book.
LoadOrder_TradesFirst == <<"trade", "book">>
\* load_many: the book, then the prints.
LoadOrder == <<"book", "trade">>

\* _load_orderbook: one statement over the resting quotes.
ReadBook == [loading EXCEPT !.book = resting, !.backed = @ /\ Backed]
\* _load_latest_trades: the latest REAL print, else the latest DEMO print.
ReadTrades ==
  [loading EXCEPT !.backed = @ /\ Backed,
     !.trade = IF Evidence("REAL", 0) # {} THEN "REAL" ELSE IF Evidence("DEMO", 0) # {} THEN "DEMO" ELSE "none"]
Reads(step) == IF step = "book" THEN ReadBook ELSE ReadTrades

LoadFirst ==
  /\ loading.pc = "first"
  /\ loading' = [Reads(LoadOrder[1]) EXCEPT !.pc = "second"]
  /\ UNCHANGED <<markTime, dealt, resting, references, summing, signalVars>>

LoadSecond ==
  /\ loading.pc = "second"
  /\ loading' = [Reads(LoadOrder[2]) EXCEPT !.pc = "references"]
  /\ UNCHANGED <<markTime, dealt, resting, references, summing, signalVars>>

\* _load_persisted_benchmarks and the signal loaders.
LoadReferences ==
  /\ loading.pc = "references"
  /\ loading' = [loading EXCEPT !.pc = "cell", !.backing = references]
  /\ UNCHANGED <<markTime, dealt, resting, references, summing, signalVars>>

\* A fully managed two-sided demo book stands before demo prints, never before a real one.
PrefersManaged(book, trade) ==
  /\ SelectClass(Count(book, "REAL"), Count(book, "DEMO"), Count(book, "UNKNOWN")) = "DEMO"
  /\ ManagedBook(book) /\ TwoSided(book, "DEMO")
  /\ trade \in {"none", "DEMO"}

\* _primary_mark: print, real book, demo book, indication, band, benchmark.
PrimaryMark(book, trade, backing) ==
  CASE trade # "none" /\ ~PrefersManaged(book, trade) ->
         [kind |-> "trade", class |-> trade, executable |-> FALSE]
    [] (trade = "none" \/ PrefersManaged(book, trade)) /\ TwoSided(book, "REAL") ->
         [kind |-> "book", class |-> "REAL", executable |-> TRUE]
    [] OTHER ->
         IF TwoSided(book, "DEMO") /\ Count(book, "REAL") = 0
         THEN [kind |-> "book", class |-> "DEMO", executable |-> FALSE]
         ELSE IF backing = {} THEN NoMark
         ELSE [kind |-> "reference", class |-> "none", executable |-> FALSE]

BuildCell ==
  /\ loading.pc = "cell"
  /\ loading' = [loading EXCEPT !.pc = "done", !.mark = PrimaryMark(loading.book, loading.trade, loading.backing)]
  /\ UNCHANGED <<markTime, dealt, resting, references, summing, signalVars>>

(***************************************************************************)
(* The price summary: REAL, then DEMO, each an aggregate and a latest price*)
(***************************************************************************)
Unread == [counted |-> {}, last |-> {}]
NoSummary == [pc |-> "idle", scope |-> "REAL", cutoff |-> 0,
              row |-> [c \in {"REAL", "DEMO"} |-> Unread], unknown |-> {}]

SummaryBegins ==
  /\ summing.pc \in {"idle", "done"}
  /\ summing' = [NoSummary EXCEPT !.pc = "aggregate", !.cutoff = markTime - Lookback]
  /\ UNCHANGED <<markTime, dealt, curveVars, signalVars>>

\* The aggregate of a scope.
SummaryAggregates ==
  /\ summing.pc = "aggregate"
  /\ summing' = [summing EXCEPT !.pc = "latest", !.row[summing.scope].counted = Evidence(summing.scope, summing.cutoff)]
  /\ UNCHANGED <<markTime, dealt, curveVars, signalVars>>

\* Both statements use the cutoff computed at the start.
LatestSince == summing.cutoff

\* The latest price of the scope; of prints of one instant the database returns any.
SummaryReadsLatest ==
  /\ summing.pc = "latest"
  /\ LET prints == Evidence(summing.scope, LatestSince) IN
     \E last \in IF prints = {} THEN {{}} ELSE {{t} : t \in Latest(prints)} :
       summing' = [summing EXCEPT !.row[summing.scope].last = last,
                     !.pc = IF summing.scope = "REAL" THEN "aggregate" ELSE "quarantine",
                     !.scope = "DEMO"]
  /\ UNCHANGED <<markTime, dealt, curveVars, signalVars>>

\* Unknown and mismatched prints are counted and not priced.
SummaryQuarantine ==
  /\ summing.pc = "quarantine"
  /\ summing' = [summing EXCEPT !.pc = "done", !.unknown = Evidence("UNKNOWN", summing.cutoff)]
  /\ UNCHANGED <<markTime, dealt, curveVars, signalVars>>

(***************************************************************************)
(* Ingestion of signals                                                    *)
(***************************************************************************)
NoIngest == [pc |-> "idle", upto |-> 0, inserted |-> 0, skipped |-> {}, run |-> "none"]
SignalRow(e, w) == [event |-> e, by |-> w, committed |-> FALSE, trusted |-> FALSE]
Stored == {s \in signals : s.committed}

\* The planner drops the rows that do not validate; the run has come as far as upto.
Planned(w) == {i \in DOMAIN File(w) : File(w)[i] # 0}
Pending(w) == {i \in Planned(w) : i > ingest[w].upto}

\* A file without a valid row writes nothing.
IngestBegins(w) ==
  /\ ingest[w].pc \in {"idle", "ended", "failed"}
  /\ ingest' = [ingest EXCEPT ![w] =
       [NoIngest EXCEPT !.pc = IF Planned(w) = {} THEN "ended" ELSE "inserting",
                        !.run = IF Planned(w) = {} THEN "none" ELSE "open"]]
  /\ UNCHANGED <<markTime, dealt, summing, curveVars, signals>>

Holder(e) == {s.by : s \in {r \in signals : r.event = e}}

\* The unique index answers once the other transaction has ended.
Duplicate(e, w) == \E s \in signals : s.event = e /\ (s.committed \/ s.by = w)

\* Insert one row in a savepoint; a duplicate is skipped.
InsertRow(w) ==
  /\ ingest[w].pc = "inserting" /\ Pending(w) # {}
  /\ LET i == Min(Pending(w))  e == File(w)[i] IN
     /\ Duplicate(e, w) \/ Holder(e) = {}
     /\ signals' = IF Duplicate(e, w) THEN signals ELSE signals \cup {SignalRow(e, w)}
     /\ ingest' = [ingest EXCEPT ![w].upto = i,
          ![w].inserted = IF Duplicate(e, w) THEN @ ELSE @ + 1,
          ![w].skipped = IF Duplicate(e, w) THEN @ \cup {e} ELSE @]
  /\ UNCHANGED <<markTime, dealt, summing, curveVars>>

\* A run that stored a row.
Verifies(run) == run.inserted > 0

\* The run is verified, or removed when it stored nothing.
CloseRun(w) ==
  /\ ingest[w].pc = "inserting" /\ Pending(w) = {}
  /\ ingest' = [ingest EXCEPT ![w].pc = "closed",
       ![w].run = IF Verifies(ingest[w]) THEN "verified" ELSE IF ingest[w].inserted > 0 THEN "open" ELSE "none"]
  /\ UNCHANGED <<markTime, dealt, summing, curveVars, signals>>

\* The command commits what it stored and rolls back when that is nothing.
CommandEnds(w) ==
  /\ ingest[w].pc = "closed"
  /\ signals' = {IF s.by = w /\ ~s.committed
                 THEN [s EXCEPT !.committed = TRUE, !.trusted = ingest[w].run = "verified"] ELSE s : s \in signals}
  /\ ingest' = [ingest EXCEPT ![w].pc = "ended"]
  /\ UNCHANGED <<markTime, dealt, summing, curveVars>>

\* The process dies, or the database picks it as the victim of two runs that
\* wait for each other's rows: everything it wrote is gone.
IngestFails(w) ==
  /\ ingest[w].pc \in {"inserting", "closed"}
  /\ signals' = {s \in signals : s.by # w \/ s.committed}
  /\ ingest' = [ingest EXCEPT ![w] = [NoIngest EXCEPT !.pc = "failed"]]
  /\ UNCHANGED <<markTime, dealt, summing, curveVars>>

\* seed_forward_monitoring_demo_data: the demo rows are replaced in one commit.
SeedSignals ==
  /\ \E on \in SUBSET SeedEvents :
       signals' = {s \in signals : s.by # "seed"} \cup
         {[event |-> e, by |-> "seed", committed |-> TRUE, trusted |-> FALSE] : e \in on}
  /\ UNCHANGED <<markTime, dealt, summing, curveVars, ingest>>

(***************************************************************************)
(* What a focus shows of the signals (a later event was observed later)    *)
(***************************************************************************)
ShownSignals(rows) == {s \in rows : s.by = "seed" \/ s.trusted}
\* _ranked_latest_stmt: the latest row of every part and class.
Ranked(rows) ==
  {s \in rows : \A r \in rows : (PartOf(r.event) = PartOf(s.event) /\ (r.by = "seed") = (s.by = "seed"))
                                   => r.event <= s.event}

\* REAL before DEMO, then the latest.
Before(r, s) ==
  \/ r.by # "seed" /\ s.by = "seed"
  \/ (r.by = "seed") = (s.by = "seed") /\ r.event > s.event

\* _load_preferred_focus_rows: the first FocusLimit rows, of the class of the first.
FocusRows(rows) ==
  LET ranked == Ranked(ShownSignals(rows))
      within == {s \in ranked : Cardinality({r \in ranked : Before(r, s)}) < FocusLimit}
      first == {s \in within : \A r \in within \ {s} : Before(s, r)}
  IN {s \in within : \E f \in first : (s.by = "seed") = (f.by = "seed")}

\* load_slice reads the focus from the rows committed when it runs.
ShownToFocus == FocusRows(Stored)

(***************************************************************************)
ForwardInit ==
  /\ markTime = 1
  /\ resting = {} /\ references = {}
  /\ dealt = [t \in MarkTrades |-> Undealt]
  /\ loading = Unloaded
  /\ summing = NoSummary
  /\ ingest = [w \in Ingests |-> NoIngest]
  /\ signals = {}

TradeNext(trades) ==
  \E t \in trades : TradeCommits(t) \/ \E c \in MarkClasses : TradeStamped(t, c)

CurveNext ==
  \/ \E k \in QuoteKinds : QuoteRests(k) \/ QuoteLeaves(k)
  \/ \E r \in References : ReferenceChanges(r)
  \/ TradeNext(CurveTrades)
  \/ LoadBegins \/ LoadFirst \/ LoadSecond \/ LoadReferences \/ BuildCell

SummaryNext ==
  \/ MarkTick
  \/ TradeNext(MarkTrades)
  \/ SummaryBegins \/ SummaryAggregates \/ SummaryReadsLatest \/ SummaryQuarantine

SignalNext ==
  \/ \E w \in Ingests :
       IngestBegins(w) \/ InsertRow(w) \/ CloseRun(w) \/ CommandEnds(w) \/ IngestFails(w)
  \/ SeedSignals

ForwardSpec == ForwardInit /\ [][CurveNext \/ SummaryNext \/ SignalNext]_forwardVars

(***************************************************************************)
(* Properties                                                              *)
(***************************************************************************)
\* A cell of a slice that had a two-sided real book or a confirmed trade all
\* the time it was read is marked by a book or by a trade: the match that
\* empties the book between two statements is not lost to a benchmark.
MarkSurvivesTrade ==
  loading.pc = "done" /\ loading.backed => loading.mark.kind \in {"book", "trade"}

\* A mark of class REAL, and the executable flag, rest on real evidence alone,
\* and a real trade is never hidden behind demo liquidity.
RealMarkIsReal ==
  loading.pc = "done" =>
    /\ loading.mark.class = "REAL" => loading.trade = "REAL" \/ TwoSided(loading.book, "REAL")
    /\ loading.mark.executable => TwoSided(loading.book, "REAL") /\ loading.trade # "REAL"
    /\ loading.trade = "REAL" => loading.mark.class = "REAL"

\* The last price of a summary is at least as late as every trade it counts,
\* although the two come from different statements.
SummaryLastIsLatest ==
  summing.pc = "done" => \A c \in {"REAL", "DEMO"} : \A t \in summing.row[c].counted :
    \E l \in summing.row[c].last : dealt[l].at >= dealt[t].at

\* When a run has ended, every valid event of its file is stored: one it
\* skipped as a duplicate is not lost with the other run's transaction.
IngestedIsStored ==
  \A w \in Ingests : ingest[w].pc = "ended" =>
    \A i \in Planned(w) : \E s \in Stored : s.event = File(w)[i] /\ s.by # "seed"

\* A stored real row belongs to a verified run, so that it is shown as real.
StoredIsTrusted == \A s \in Stored : s.by # "seed" => s.trusted

\* Demo rows are shown only when no real row is, and the latest real row of
\* the slice is always among the rows shown.
FocusShowsReal ==
  LET real == {s \in Stored : s.by # "seed" /\ s.trusted}
      shown == ShownToFocus IN
  real # {} =>
    /\ \A s \in shown : s.by # "seed"
    /\ \E s \in shown : \A r \in real : r.event <= s.event

\* Prices shown rest on the evidence they name, although each is put together from statements
\* that see different moments, and signals that were ingested are there and trusted.
EvidenceTrue ==
  /\ MarkSurvivesTrade /\ RealMarkIsReal /\ SummaryLastIsLatest /\ FocusShowsReal
  /\ IngestedIsStored /\ StoredIsTrusted
=============================================================================
