------------------------------ MODULE Providers ------------------------------
(***************************************************************************)
(* The calls the backend makes to others: the threads of Gemini calls and  *)
(* their capacity (gemini_provider.py, ai_service.py, kyc.py), the news    *)
(* refresh with its circuit breaker (news_feed.py, cli/refresh_news.py),   *)
(* and the Umami client with its token and its window cache                *)
(* (behavioral_analytics.py).                                              *)
(***************************************************************************)
EXTENDS Integers, Sequences, FiniteSets, SequencesExt

CONSTANTS
  Calls,          \* requests that call Gemini
  CallLimit,      \* the limit of ProviderCapacity
  CallBudget,     \* seconds a call may take in all, in units of PROVIDER_RETRY_DELAY_SECONDS
  MaxCallTime,
  NewsRuns,       \* invocations of the refresh
  NewsBatches,    \* what the news providers may answer: sequences of <<url, source and title>>,
                  \* with url 0 for a record that fails validation
  MaxEntries,     \* RSS_MAX_ENTRIES_PER_RUN
  BreakAfter,     \* threshold of the breaker
  BreakFor,       \* its cooldown
  MaxNewsCalls,   \* NEWS_MAX_PROVIDER_CALLS_PER_RUN
  MaxNewsTime,
  Gets,           \* requests that read from Umami
  TokenLife,      \* _TOKEN_TTL_SECONDS
  MaxEpoch,       \* how often Umami forgets its tokens
  WindowLife,     \* success_cache_seconds
  MaxUmamiTime

ASSUME ProviderAssumption ==
  /\ CallLimit \in Nat \ {0} /\ CallBudget \in Nat
  /\ BreakAfter \in Nat \ {0} /\ BreakFor \in Nat /\ MaxNewsCalls \in Nat
  /\ NewsBatches \subseteq Seq(Nat \X Nat) /\ "none" \notin NewsRuns
  /\ TokenLife \in Nat /\ WindowLife \in Nat \ {0}
  /\ IsFiniteSet(Gets) /\ "none" \notin Gets

VARIABLES
  callTime,   \* the clock of the Gemini calls
  freeSlots,  \* the semaphore of ProviderCapacity
  geminiCall,
  newsTime,
  newsLock,   \* the advisory lock of the refresh
  newsTable,  \* URLs stored
  worked,     \* how many committed runs have categorized a URL
  newsRun,
  umamiTime,
  epoch,      \* tokens Umami issued in an earlier epoch are refused
  token,      \* _token and _token_expires_at
  tokenLock,
  umamiGet,
  issued,     \* the last token stored, kept when _token is cleared
  windowEntry, \* the cache entry of one window: when it expires
  windowLock, \* the lock object in _window_locks; 0 when there is none
  windowHeld, \* lock object -> the request that holds it
  windowRead

geminiVars == <<callTime, freeSlots, geminiCall>>
newsVars == <<newsTime, newsLock, newsTable, worked, newsRun>>
tokenVars == <<epoch, token, tokenLock, umamiGet, issued>>
windowVars == <<windowEntry, windowLock, windowHeld, windowRead>>
providerVars == <<geminiVars, newsVars, umamiTime, tokenVars, windowVars>>

(***************************************************************************)
(* Gemini calls                                                            *)
(***************************************************************************)
NoCall == [thread |-> "none", caller |-> "none", deadline |-> 0, until |-> 0]
Occupied == {c \in Calls : geminiCall[c].thread \in {"queued", "running"}}

\* _request_options: two attempts and the delay between them share the budget.
AttemptTimeout(budget) == (budget - 1) \div 2

\* run_provider_call: a slot is taken without waiting and the thread is queued.
BeginCall(c) ==
  /\ geminiCall[c].thread = "none"
  /\ IF freeSlots > 0
     THEN /\ geminiCall' = [geminiCall EXCEPT ![c] = [thread |-> "queued", caller |-> "waiting",
                                                      deadline |-> callTime + CallBudget, until |-> 0]]
          /\ freeSlots' = freeSlots - 1
     ELSE geminiCall' = [geminiCall EXCEPT ![c].caller = "busy"] /\ UNCHANGED freeSlots
  /\ UNCHANGED callTime

\* _call_and_release: the thread ends, and only then is the slot free.
ThreadEnds(c, outcome) ==
  /\ geminiCall' = [geminiCall EXCEPT ![c].thread = "ended",
                                      ![c].caller = IF @ = "waiting" THEN outcome ELSE @]
  /\ freeSlots' = freeSlots + 1

\* generate_content within what is left of the budget, in _chat_sync, _categorize_headline_sync
\* or one of the models of _verify_document_with_gemini_sync; too late, nothing is sent.
Attempts(c, stage) ==
  LET left == geminiCall[c].deadline - callTime IN
  /\ geminiCall[c].thread = stage
  /\ IF AttemptTimeout(left) >= 1
     THEN /\ geminiCall' = [geminiCall EXCEPT ![c].thread = "running",
                                              ![c].until = callTime + 2 * AttemptTimeout(left) + 1]
          /\ UNCHANGED freeSlots
     ELSE ThreadEnds(c, "unavailable")
  /\ UNCHANGED callTime
StartThread(c) == Attempts(c, "queued")
\* A model that is not found: the next one is tried.
NextModel(c) == Attempts(c, "running")

Returns(c) ==
  /\ geminiCall[c].thread = "running"
  /\ \E outcome \in {"answered", "unavailable"} : ThreadEnds(c, outcome)
  /\ UNCHANGED callTime

\* The caller's timeout also gives the slot back.
CallerTimesOut_Releasing(c) ==
  /\ geminiCall[c].caller = "waiting" /\ callTime >= geminiCall[c].deadline
  /\ geminiCall' = [geminiCall EXCEPT ![c].caller = "unavailable"]
  /\ freeSlots' = IF freeSlots < CallLimit THEN freeSlots + 1 ELSE freeSlots
  /\ UNCHANGED callTime
\* wait_for gives up on the shielded worker.
CallerTimesOut(c) ==
  /\ geminiCall[c].caller = "waiting" /\ callTime >= geminiCall[c].deadline
  /\ geminiCall' = [geminiCall EXCEPT ![c].caller = "unavailable"]
  /\ UNCHANGED <<callTime, freeSlots>>
\* The awaiting request is cancelled.
CallerCancelled(c) ==
  /\ geminiCall[c].caller = "waiting"
  /\ geminiCall' = [geminiCall EXCEPT ![c].caller = "cancelled"]
  /\ UNCHANGED <<callTime, freeSlots>>
\* The same client calls again.
CallsAgain(c) ==
  /\ geminiCall[c].thread \in {"none", "ended"} /\ geminiCall[c].caller \notin {"none", "waiting"}
  /\ geminiCall' = [geminiCall EXCEPT ![c] = NoCall]
  /\ UNCHANGED <<callTime, freeSlots>>

\* The SDK ends every attempt at its timeout.
CallTick ==
  /\ callTime < MaxCallTime
  /\ \A c \in Calls : geminiCall[c].thread = "running" => callTime < geminiCall[c].until
  /\ callTime' = callTime + 1
  /\ UNCHANGED <<freeSlots, geminiCall>>

GeminiNext ==
  /\ \/ \E c \in Calls : BeginCall(c) \/ StartThread(c) \/ NextModel(c) \/ Returns(c)
                         \/ CallerTimesOut(c) \/ CallerCancelled(c) \/ CallsAgain(c)
     \/ CallTick
  /\ UNCHANGED <<newsVars, umamiTime, tokenVars, windowVars>>

(***************************************************************************)
(* News refresh                                                            *)
(***************************************************************************)
NewsIdle == [pc |-> "idle", batch |-> <<>>, todo |-> {}, rows |-> {}, left |-> MaxNewsCalls, enabled |-> TRUE,
             failures |-> 0, opened |-> 0, log |-> <<>>]
NewsOver == [NewsIdle EXCEPT !.pc = "over"]
Urls == (UNION {{b[i][1] : i \in DOMAIN b} : b \in NewsBatches}) \ {0}

\* pg_try_advisory_xact_lock.
TryNewsLock(w) == newsLock = "none" /\ newsLock' = w

RefreshStarts(w) ==
  /\ newsRun[w].pc = "idle"
  /\ TryNewsLock(w)
  /\ newsRun' = [newsRun EXCEPT ![w].pc = "fetching"]
  /\ UNCHANGED <<newsTime, newsTable, worked>>
\* NewsRefreshInProgress.
RefreshRefused(w) ==
  /\ newsRun[w].pc = "idle" /\ newsLock # "none"
  /\ newsRun' = [newsRun EXCEPT ![w] = NewsOver]
  /\ UNCHANGED <<newsTime, newsLock, newsTable, worked>>

\* Places in what was fetched of the records with a title and a link that may be shown.
ValidatedPosts(raw) == {i \in DOMAIN raw : raw[i][1] # 0}
ValidatedEntries(raw) == {i \in DOMAIN raw : raw[i][1] # 0}

\* _dedupe_fetched_items: a record is dropped for an earlier one that was kept and has its URL
\* or, from the same publisher, its headline.
DedupeFetched(raw, valid) ==
  LET unique == CHOOSE kept \in SUBSET valid : \A i \in valid :
        i \in kept <=> ~ \E j \in kept : j < i /\ (raw[j][1] = raw[i][1] \/ raw[j][2] = raw[i][2])
  IN {i \in valid : i \in unique /\ Cardinality({j \in unique : j < i}) < MaxEntries}

\* What was fetched, without what is stored already.
Categorize(w, raw, valid) ==
  newsRun' = [newsRun EXCEPT ![w].pc = "categorizing", ![w].batch = raw,
                             ![w].todo = {i \in DedupeFetched(raw, valid) : raw[i][1] \notin newsTable}]
\* fetch_webz_items; the feeds are read when Webz is not configured, fails or has nothing.
FetchWebz(w, raw) ==
  /\ newsRun[w].pc = "fetching"
  /\ IF ValidatedPosts(raw) = {}
     THEN newsRun' = [newsRun EXCEPT ![w].pc = "feeds"]
     ELSE Categorize(w, raw, ValidatedPosts(raw))
  /\ UNCHANGED <<newsTime, newsLock, newsTable, worked>>
\* fetch_all_feeds.
FetchFeeds(w, raw) ==
  /\ newsRun[w].pc = "feeds"
  /\ Categorize(w, raw, ValidatedEntries(raw))
  /\ UNCHANGED <<newsTime, newsLock, newsTable, worked>>

\* allow, and the run's own limits.
MayAsk(r) == r.enabled /\ r.left > 0 /\ newsTime >= r.opened
\* The next headline; a call is counted whether the breaker lets it through or not.
Headline(r) == [r EXCEPT !.todo = @ \ {Min(r.todo)}, !.rows = @ \cup {r.batch[Min(r.todo)][1]},
                         !.left = IF r.enabled /\ @ > 0 THEN @ - 1 ELSE @]
\* failure.
BreakerFailed(r) ==
  [r EXCEPT !.failures = @ + 1, !.opened = IF r.failures + 1 >= BreakAfter THEN newsTime + BreakFor ELSE @]

\* categorize_headline: by the provider, or locally when the call is not made or fails.
AskProvider(w, answer) ==
  LET r == newsRun[w]
      asked == [Headline(r) EXCEPT !.log = Append(@, [at |-> newsTime, answer |-> answer])] IN
  /\ r.pc = "categorizing" /\ r.todo # {} /\ MayAsk(r)
  /\ newsRun' = [newsRun EXCEPT ![w] =
       CASE answer = "ok" -> [asked EXCEPT !.failures = 0, !.opened = 0]
         [] answer = "error" -> BreakerFailed(asked)
         [] answer = "auth" -> [BreakerFailed(asked) EXCEPT !.enabled = FALSE]]
  /\ UNCHANGED <<newsTime, newsLock, newsTable, worked>>
CategorizeLocally(w) ==
  LET r == newsRun[w] IN
  /\ r.pc = "categorizing" /\ r.todo # {} /\ ~ MayAsk(r)
  /\ newsRun' = [newsRun EXCEPT ![w] = Headline(r)]
  /\ UNCHANGED <<newsTime, newsLock, newsTable, worked>>

ReleaseNewsLock(w) == newsLock' = IF newsLock = w THEN "none" ELSE newsLock
\* The insert, which skips what is stored, and the commit.
CommitNews(w) ==
  LET r == newsRun[w] IN
  /\ r.pc = "categorizing" /\ r.todo = {}
  /\ newsTable' = newsTable \cup r.rows
  /\ worked' = [u \in Urls |-> IF u \in r.rows THEN worked[u] + 1 ELSE worked[u]]
  /\ newsRun' = [newsRun EXCEPT ![w] = NewsOver]
  /\ ReleaseNewsLock(w) /\ UNCHANGED newsTime
\* The process dies or the database fails: the transaction and its lock go.
NewsFails(w) ==
  /\ newsRun[w].pc \in {"fetching", "feeds", "categorizing"}
  /\ newsRun' = [newsRun EXCEPT ![w] = NewsOver]
  /\ ReleaseNewsLock(w) /\ UNCHANGED <<newsTime, newsTable, worked>>
NewsTick ==
  /\ newsTime < MaxNewsTime /\ newsTime' = newsTime + 1
  /\ UNCHANGED <<newsLock, newsTable, worked, newsRun>>

NewsNext ==
  /\ \/ \E w \in NewsRuns :
          \/ RefreshStarts(w) \/ RefreshRefused(w) \/ CategorizeLocally(w) \/ CommitNews(w) \/ NewsFails(w)
          \/ \E raw \in NewsBatches : FetchWebz(w, raw) \/ FetchFeeds(w, raw)
          \/ \E answer \in {"ok", "error", "auth"} : AskProvider(w, answer)
     \/ NewsTick
  /\ UNCHANGED <<geminiVars, umamiTime, tokenVars, windowVars>>

(***************************************************************************)
(* The Umami token                                                         *)
(***************************************************************************)
NoToken == [of |-> 0, expires |-> 0]
GetIdle == [pc |-> "idle", of |-> 0, attempt |-> 0, since |-> 0]

TokenLives == token.of # 0 /\ umamiTime < token.expires
\* _authenticate without the lock: the token there is, or the queue for the lock.
Authenticate(g) == IF TokenLives THEN [g EXCEPT !.pc = "sending", !.of = token.of] ELSE [g EXCEPT !.pc = "waiting"]

GetBegins(g) ==
  /\ umamiGet[g].pc \in {"idle", "answered", "refused", "failed"}
  /\ umamiGet' = [umamiGet EXCEPT ![g] = Authenticate([GetIdle EXCEPT !.since = epoch])]
  /\ UNCHANGED <<umamiTime, epoch, token, tokenLock, issued>>

\* The second look at the token, behind the lock.
TokenRecheck == TokenLives

TakeTokenLock(g) ==
  /\ umamiGet[g].pc = "waiting" /\ tokenLock = "none"
  /\ IF TokenRecheck
     THEN umamiGet' = [umamiGet EXCEPT ![g] = Authenticate(@)] /\ UNCHANGED tokenLock
     ELSE umamiGet' = [umamiGet EXCEPT ![g].pc = "login"] /\ tokenLock' = g
  /\ UNCHANGED <<umamiTime, epoch, token, issued>>
\* Umami answers the login with a token of its epoch, and then the answer arrives.
LoginAnswered(g) ==
  /\ umamiGet[g].pc = "login"
  /\ umamiGet' = [umamiGet EXCEPT ![g].pc = "storing", ![g].of = epoch]
  /\ UNCHANGED <<umamiTime, epoch, token, tokenLock, issued>>
LoginStored(g) ==
  /\ umamiGet[g].pc = "storing"
  /\ token' = [of |-> umamiGet[g].of, expires |-> umamiTime + TokenLife] /\ issued' = token'
  /\ umamiGet' = [umamiGet EXCEPT ![g].pc = "sending"]
  /\ tokenLock' = "none"
  /\ UNCHANGED <<umamiTime, epoch>>
LoginFails(g) ==
  /\ umamiGet[g].pc = "login"
  /\ umamiGet' = [umamiGet EXCEPT ![g].pc = "failed"] /\ tokenLock' = "none"
  /\ UNCHANGED <<umamiTime, epoch, token, issued>>

\* The refused token is thrown away if nobody has replaced it.
Discarded(of) == IF token.of = of THEN [token EXCEPT !.of = 0] ELSE token

\* _authorized_get: an answer, or a refusal of the token, once with another try.
GetAnswered(g) ==
  /\ umamiGet[g].pc = "sending" /\ umamiGet[g].of = epoch
  /\ umamiGet' = [umamiGet EXCEPT ![g].pc = "answered"]
  /\ UNCHANGED <<umamiTime, epoch, token, tokenLock, issued>>
GetRefused(g) ==
  LET r == umamiGet[g] IN
  /\ r.pc = "sending" /\ r.of # epoch
  /\ IF r.attempt = 0
     THEN /\ token' = Discarded(r.of)
          /\ umamiGet' = [umamiGet EXCEPT ![g] =
               [r EXCEPT !.attempt = 1,
                         !.pc = IF token'.of # 0 /\ umamiTime < token'.expires THEN "sending" ELSE "waiting",
                         !.of = token'.of]]
     ELSE umamiGet' = [umamiGet EXCEPT ![g].pc = "refused"] /\ UNCHANGED token
  /\ UNCHANGED <<umamiTime, epoch, tokenLock, issued>>
\* Umami is restarted or its secret is changed.
UmamiForgets ==
  /\ epoch < MaxEpoch /\ epoch' = epoch + 1
  /\ UNCHANGED <<umamiTime, token, tokenLock, umamiGet, issued>>

\* Clock steps are shared with the window cache: a request that can run does so before
\* seconds pass on the event loop.
Runnable(w) ==
  windowRead[w].pc = "waiting" /\ windowHeld[windowRead[w].lock] = "none"
UmamiTick ==
  /\ umamiTime < MaxUmamiTime /\ \A w \in Gets : ~ Runnable(w)
  /\ umamiTime' = umamiTime + 1 /\ UNCHANGED <<tokenVars, windowVars>>

TokenNext ==
  /\ \/ \E g \in Gets : GetBegins(g) \/ TakeTokenLock(g) \/ LoginAnswered(g) \/ LoginStored(g) \/ LoginFails(g)
                        \/ GetAnswered(g) \/ GetRefused(g)
     \/ UmamiForgets
     \/ UmamiTick
  /\ UNCHANGED <<geminiVars, newsVars, windowVars>>

(***************************************************************************)
(* The window cache                                                        *)
(***************************************************************************)
LockIds == 1 .. Cardinality(Gets)
ReadIdle == [pc |-> "idle", lock |-> 0]
EntryLives == umamiTime < windowEntry
\* A lock object nobody refers to.
NewLock == CHOOSE l \in LockIds : l # windowLock /\ \A w \in Gets : windowRead[w].lock # l

\* get_window_aggregate: the entry, or the lock of the window.
ReadWindow(w) ==
  /\ windowRead[w].pc = "idle" /\ ~ EntryLives
  /\ windowLock' = IF windowLock = 0 THEN NewLock ELSE windowLock
  /\ windowRead' = [windowRead EXCEPT ![w] = [pc |-> "waiting", lock |-> windowLock']]
  /\ UNCHANGED <<umamiTime, windowEntry, windowHeld>>

\* The second look at the cache, behind the lock.
WindowRecheck == EntryLives

\* The entry another request has stored, or the fetch.  Every way out drops the lock from the table.
TakeWindowLock(w) ==
  /\ Runnable(w)
  /\ IF WindowRecheck
     THEN windowRead' = [windowRead EXCEPT ![w] = ReadIdle] /\ windowLock' = 0 /\ UNCHANGED windowHeld
     ELSE /\ windowRead' = [windowRead EXCEPT ![w].pc = "fetching"]
          /\ windowHeld' = [windowHeld EXCEPT ![windowRead[w].lock] = w]
          /\ UNCHANGED windowLock
  /\ UNCHANGED <<umamiTime, windowEntry>>
\* _fetch_window: the aggregates must all arrive, a breakdown by property may be missing.
FetchWindow(aggregates, breakdowns) ==
  IF ~ aggregates THEN "unavailable" ELSE IF breakdowns THEN "available" ELSE "partial"
\* The result; anything but a complete one lives for less time.
WindowFetched(w) ==
  /\ windowRead[w].pc = "fetching"
  /\ \E aggregates, breakdowns \in BOOLEAN :
       windowEntry' = umamiTime + (IF FetchWindow(aggregates, breakdowns) = "available" THEN WindowLife ELSE 1)
  /\ windowRead' = [windowRead EXCEPT ![w] = ReadIdle]
  /\ windowHeld' = [windowHeld EXCEPT ![windowRead[w].lock] = "none"]
  /\ windowLock' = 0
  /\ UNCHANGED umamiTime

WindowNext ==
  /\ \/ \E w \in Gets : ReadWindow(w) \/ TakeWindowLock(w) \/ WindowFetched(w)
     \/ UmamiTick
  /\ UNCHANGED <<geminiVars, newsVars, tokenVars>>

ProviderInit ==
  /\ callTime = 0 /\ freeSlots = CallLimit /\ geminiCall = [c \in Calls |-> NoCall]
  /\ newsTime = 0 /\ newsLock = "none" /\ newsTable = {} /\ worked = [u \in Urls |-> 0]
  /\ newsRun = [w \in NewsRuns |-> NewsIdle]
  /\ umamiTime = 0 /\ epoch = 1 /\ token = NoToken /\ tokenLock = "none" /\ issued = NoToken
  /\ umamiGet = [g \in Gets |-> GetIdle]
  /\ windowEntry = 0 /\ windowLock = 0 /\ windowHeld = [l \in LockIds |-> "none"]
  /\ windowRead = [w \in Gets |-> ReadIdle]

ProviderSpec == ProviderInit /\ [][GeminiNext \/ NewsNext \/ TokenNext \/ WindowNext]_providerVars

(***************************************************************************)
(* Properties                                                              *)
(***************************************************************************)
\* However callers time out, are cancelled and call again, no more threads work for the
\* provider than ProviderCapacity allows, and every slot comes back with its thread
\* (run_provider_call, _call_and_release).
SlotsMatchThreads == freeSlots = CallLimit - Cardinality(Occupied)

\* A provider thread is done by the deadline of the request that started it: the attempts,
\* the delay between them and the second model fit in what was left (_request_options,
\* _verify_document_with_gemini_sync).
ThreadsMeetDeadline == \A c \in Calls : geminiCall[c].thread = "running" => callTime <= geminiCall[c].deadline

\* No headline is worked on by two refreshes that both store their work (refresh_news).
NewsWorkedOnce == \A u \in Urls : worked[u] <= 1

\* A provider that has failed BreakAfter times running is left alone for the cooldown each
\* time it fails again, a provider that refused the key is not asked again in the run
\* (_BoundedCircuitBreaker, _RefreshProviderState).
ProviderSpared ==
  \A w \in NewsRuns : LET log == newsRun[w].log IN
    \A i \in DOMAIN log :
      /\ \A j \in 1 .. i - 1 : log[j].answer # "auth"
      /\ (i > BreakAfter /\ \A j \in i - BreakAfter .. i - 1 : log[j].answer # "ok")
           => log[i].at >= log[i - 1].at + BreakFor

\* A login that stores a token was needed: the token stored before it had expired, or Umami
\* no longer took it (_authenticate, _authorized_get).
LoginNeeded ==
  [][token'.of # 0 /\ token' # token =>
       \/ issued.of # token'.of \/ issued.expires <= umamiTime]_tokenVars

\* A read is refused for its credentials only if Umami forgot its tokens while the read was
\* under way (_authorized_get).
RefusalIsFresh == \A g \in Gets : umamiGet[g].pc = "refused" => epoch > umamiGet[g].since

\* Requests for one window share a fetch: none starts while another is under way or its
\* result is in the cache (get_window_aggregate).
WindowFetchShared ==
  [][\A w \in Gets : windowRead[w].pc # "fetching" /\ windowRead'[w].pc = "fetching" =>
       ~ EntryLives /\ \A v \in Gets : windowRead[v].pc # "fetching"]_windowVars

\* Outside services are used within bounds: threads within slots and deadlines, failing providers
\* left alone, and news, logins and windows fetched once for all who wait for them.
ProvidersSpared ==
  /\ [](SlotsMatchThreads /\ ThreadsMeetDeadline /\ NewsWorkedOnce /\ ProviderSpared /\ RefusalIsFresh)
  /\ LoginNeeded /\ WindowFetchShared
=============================================================================
