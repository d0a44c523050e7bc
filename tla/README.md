# A verification project for the IDX Smart Money Decision Engine

The repository is a decision-support system for the Indonesian stock exchange. A *worker* polls an
upstream market-data API within a daily request budget, runs a screening funnel during the session and,
once per trading day after the close, a *deep funnel* that scores candidates, persists signals and trade
plans, publishes alerts and keeps a forward test ("shadow mode"). A *web* application serves signals over
REST and a server-sent-event stream. A *backtest* package replays history and simulates fills. It never
places orders.

This directory holds TLA+ models of that code, the TLC configurations that check them on small instances,
and theorems that TLAPS proves for every instance.

## 1. Inventory

Paths are relative to the repository's root (`src/` in `PROJECT.json`).

| Component | State | Operations | Hard behaviour | What makes it correct |
|---|---|---|---|---|
| Scheduler `apps/worker/src/index.ts` | Redis day flag and canary key; the process | `tick`, `runTopAndMidFunnel`, `maybeRunDeepFunnelOnceToday` | `setInterval` does not await: ticks overlap; crash after the flag; two publication clocks; midnight | at most one deep run per day, only after both publications, on post-publication data; a run that is started is finished |
| Request budget `apps/worker/src/cache/budget.ts` | Redis counters per UTC day | `reserveRequest`, `getBudgetStatus`, `recordLedgerEntry` | INCR, check and DECR of several callers interleave; failure between them; midnight | grants never pass the ceilings; counters exact |
| Single-flight cache `apps/worker/src/cache/cache.ts`, `ttl.ts` | cache, stale copy and lease of each key | `getOrFetch`, `purgeCachedEndpoints` | leader and followers; lease that expires under its holder; stale fallback; purge during a fetch | one fetch per lease, cache never regresses, `stale` exactly when degraded |
| Circuit breaker and HTTP client `apps/worker/src/adapter/circuitBreaker.ts`, `httpClient.ts` | breaker state, failure count, opening time; attempt of each call | `isOpen`, `recordSuccess`, `recordFailure`, `callUpstream` | concurrent calls share one breaker; retries and stragglers act on a breaker others moved | breaker state consistent, no call admitted during the cooldown, recovery |
| Adapter `apps/worker/src/adapter/endpoints.ts`, `envelope.ts`, `archive.ts`, `normalize.ts` | raw archive rows | fetch, validate, archive, normalise | failed validation after archiving; page walk | every response archived; envelope staleness |
| Top, mid and deep funnel `apps/worker/src/funnel/*` | none between runs | `runTopFunnel`, `runMidFunnel`, `runDeepFunnel` | per-symbol failure; stale inputs; two-pass scoring; a write that stops half-way | only eligible data drives active signals; bounded watchlist and plan list |
| Persistence `apps/worker/src/persist/snapshots.ts` | Postgres snapshot, signal and plan tables | idempotent upserts | re-runs, check-then-insert, partial failure | one row per key; plan belongs to its signal |
| Alerts `apps/worker/src/alerts/index.ts` | `alert_log`, cooldown keys | `maybePublishCategoryChangeAlert` | dedupe by key and cooldown; crash between insert and publish; previous category read after the upsert | every category change announced at most once, and announced |
| Shadow mode `apps/worker/src/shadow/*` | `shadow_plan`, outcomes | `persistShadowPlans`, `evaluateShadowOutcomes` | bounded pending queue; plans whose bars never arrive; an outcome is final | every evaluable plan is evaluated, on the sessions that came next |
| Worker health `apps/worker/src/health.ts` | health key | `computeWorkerHealth` | read of a budget others move | status reflects its inputs |
| Session calendar, config `packages/config/src/*` | none | `isWithinSession`, tick sizes, env | boundaries | minutes partitioned; prices on the tick grid |
| Domain engine `packages/domain/src/engine/*` | none | gates, scoring, categories, risk plan, signal | boundary and rounding arithmetic | gates imply categories; stop < entry < target; size within risk |
| Replay `packages/backtest/src/fillSimulation.ts`, `replayEngine.ts`, `signalFromHistory.ts`, `dataSource/*`, `backfill.ts`, `paramSweep.ts`, `phase0d.ts`, `phase0e.ts`, `diagnose.ts` | positions of a simulated trade; otherwise none, it reads `daily_bar`, `market_snapshot`, `broker_snapshot` | entry and exit simulation, as-of reads, leak guard, the engine on archived days | same-bar ambiguity, partial fills, gaps; rows that later runs replace or backfills date back | exits conserve lots; conservative fills; no look-ahead |
| Price studies `packages/backtest/src/baselines.ts`, `phase0d.ts`, `phase0f.ts`, `phase0g.ts`, `phase0h.ts` | none | indicators, signals, entries and exits at an index of an array | one index off is a look-ahead; a bar that reaches two levels; ties | decisions do not depend on later bars; exits are the worst possible; plans are sound |
| Archive `packages/backtest/src/backfillFundamentals.ts`, `backfillBrokerWeekly.ts`, `backfillBrokerSummary.ts` | `raw_payload_archive` | resumable backfills under `--max-requests` and `--min-remaining` | runs that end anywhere; the quota shared with the worker, known from headers | the reserve is kept; everything is archived in the end |
| Fundamental studies `apps/web/app/api/fundamentals/route.ts`, `packages/backtest/src/watchlist.ts`, `phase0i.ts`, `phase0j.ts` | none, they read the archive | figures, percentiles and categories at a date | statements of one symbol that were fetched at different times | no conclusion from a statement that is not public |
| Database `packages/db` | schema, unique indexes | migrations, seed | - | modelled through the operations that use it |
| SSE stream `apps/web/app/api/sse/route.ts`, `lib/sseBatch.ts`, `lib/hooks.ts` | poll cursor; client batch; reconnect timer | `pollDb`, Redis relay, batcher, reconnect | cursor over timestamps shared by rows inserted later; reconnect | every new signal reaches every connected client |
| Journal and read API `apps/web/app/api/*` | `journal_entry` | create, patch, list | any subset of fields in any order | a closed entry has a result |
| Web pages, scripts, docs | - | rendering, experiments | - | not modelled |

The worker is the only writer of signals; the web application reads Postgres and relays Redis messages. The
worker's components meet in Redis (counters, cache, lease, flags, cooldowns) and in the upstream API behind
the breaker; nothing else coordinates two workers or two overlapping ticks. The backtest package runs beside
it from the command line: its backfills write to the same tables and spend the same upstream quota, its
replays and studies only read.

## 2. Modules and their code

| Module | Code | State | Actions |
|---|---|---|---|
| `RequestBudget` | `cache/budget.ts` `reserveRequest` | the Redis counters of each UTC day and their expiry; for each caller its next command, the day bucket it computed and the value its INCR returned; as history the reservations granted and the increments failed callers left | `Call`, `Incr`, `Expire`, `CountEndpoint` (with the check against the ceiling), `RollBack`, one awaited command each; `Fail` at any of them; `NextDay` |
| `Quota` | what the budget promises, as an atomic object | units taken per day and kind of traffic | `Take`, `Forfeit` |
| `CircuitBreaker` | `adapter/circuitBreaker.ts` | `state`, `consecutiveFailures`, the age of `openedAt` | operators `Admit`, `RecordSuccess`, `RecordFailure`, one per method, and `Elapse` |
| `UpstreamCalls` | `adapter/httpClient.ts` over `CircuitBreaker` | program counter and attempt of each concurrent call, the upstream's health | `Begin`, `Succeed`, `Reject`, `Transient`, `Retry`, `Restart`, `Tick`, `UpstreamChanges` |
| `SingleFlight` | `cache/cache.ts` `getOrFetch`, `purgeCachedEndpoints` | entry, stale copy and lease of one key; next command, response and polls left of each call; a purge in progress | `Miss`, `Acquire`; the leader's `Answer`, `FetchFails`, `SetCache`, `SetStale`, `GetStale`, `Release`; the follower's `PollCache`, `PollLease`, `Direct`; `Abandon`; `PurgeScan`, `PurgeDelete`; `ExpireLease`, `ExpireEntry`; `Publish` |
| `DeepFunnelSchedule` | `index.ts` `tick`, `maybeRunDeepFunnelOnceToday`; `funnel/schedule.ts`; the reads of `funnel/deep.ts`; `envelope.ts` `isEnvelopeStale` | day flags, canary keys and entries in Redis; step and day of each overlapping tick, the clock, data and mark of its run; what the upstream has published of the canary and of a candidate | `Start`, `CheckFlag`, `TakeCanary`, `ProbePrice`, `ProbeBroker`, `SetFlag`, `Purge`, `Read`, `ReadStale`, `Skip`, `Score`, `Alerts`, `Shadow`, `Fail`, `Crash`; expiries; `Publish`, `Clock`, `Disturb` |
| `SignalDelivery` | the persistence loop of `funnel/deep.ts`, the alert loop of `index.ts` with `alerts/index.ts`, the polls of `apps/web/app/api/sse/route.ts` | tables `signal` (unique by symbol and date) and `alert_log`, the channel, the worker's loops; of each connection its cursor, the answers of its polls in progress and the updates sent | `StartRun`, `Persist`, `BeginAlerts`, `LogAlert`, `NoAlert`, `Publish`, `Finish`, `Abort`; `Open`, `Select`, `Announce`, `PollFails`, `Close`; `Tick` |
| `FillSimulation` | `packages/backtest/src/fillSimulation.ts` on the plans of `packages/domain/src/engine/risk.ts` | the plan, the fill, the position (`ExitState` with its legs), the bars walked | `NoFill`, `Enter`; `Walk`, one bar by `StepBar`; `Expire` |
| `RiskEngine` | `packages/domain/src/engine/risk.ts`, `packages/config/src/priceFraction.ts` | none | operators: `BuildRiskPlan` and the rounding to ticks |
| `SignalEngine` | `feature.ts`, `scoring.ts`, `signal.ts` of the domain engine; its callers `funnel/deep.ts`, `signalFromHistory.ts`, `diagnose.ts`, `phase0e.ts` | the sessions of one symbol with bar and book, the days whose book is archived, the decision of the last day | `Session`, `DeepFunnel`, `Backfill`; the replays are operators of the archive |
| `PriceStudies` | `baselines.ts`, `phase0d.ts`, `phase0f.ts`, `phase0g.ts`, `phase0h.ts` | the bars of one symbol | `AddBar`; every study is an operator of the whole array and an index |
| `Records` | `funnel/top.ts`, `mid.ts`, `deep.ts`, `persist/snapshots.ts`, `shadow/*`; `backfill.ts`; `dataSource/postgres.ts`, `leakGuard.ts` under `replayEngine.ts`, `paramSweep.ts`, `phase0d.ts` | the tables `daily_bar`, `market_snapshot`, `broker_snapshot`, `trade_plan`, `shadow_plan` as the day each row was received; the step of the daily run | `Session`, `DeepFunnel`, `PersistShadowPlans`, `EvaluateShadowOutcomes`, `ShadowFails`, `RunAgain`, `Backfill`; the replays are operators of the tables |
| `Archive` | `backfillFundamentals.ts`, `backfillBrokerWeekly.ts`, `backfillBrokerSummary.ts` and the worker's calls on the same quota | what is archived, the script that runs with its pending items and what it was told, the upstream's quota and releases | `Start`, `Fetch` with any answer, `Stop`, `OtherCall`, `NewDay`, `Release` |
| `Fundamentals` | `api/fundamentals/route.ts`, `watchlist.ts`, `phase0i.ts`, `phase0j.ts` | that of `Archive` | operators of the archive: `Screener`, `Watchlist`, `Study` |

The `MC...` modules give the constants of a run that a cfg cannot write: symmetry sets, bars, books, reports.
Each `...Proofs` module extends the module it is about: `AdapterProofs` extends `UpstreamCalls` and `SingleFlight`,
`EngineProofs` `SignalEngine` and `PriceStudies` on `RiskEngine`, `ArchiveProofs` `Fundamentals` on `Archive`.

The modules meet where the code's components do. `UpstreamCalls` is composed with `CircuitBreaker`, whose
operators it calls as the client calls the methods. `RequestBudget` is shown to implement `Quota` by the
refinement mapping `QuotaUsed`: a unit counts as taken from the moment the INCR that is within the ceiling
is carried out, and is forfeited when its caller then fails. `DeepFunnelSchedule` uses the cache through
what `SingleFlight` establishes of it (entries that expire, a stale copy when the fetch fails), and
`SignalDelivery` starts where the schedule lets a run begin: at most one run per day (`OneRunPerDay`) is why
its runs do not overlap, nor those of `Records`. `SignalEngine` and `PriceStudies` are built on `RiskEngine`, so
that a plan of the live engine and one of a study are made by the same operator, and `Fundamentals` reads the
archive as the runs of `Archive` leave it, after every step of them.

**Abstractions.** A response is the version or the trading day of the data in it, a signal its category, a
message its run and symbol.

- `RequestBudget`: the counter per endpoint is written and never read back for a decision; it is kept as a
  count per day.
- `SingleFlight`: one endpoint and parameter key, as keys share nothing. `ttlSeconds = 0` is the constant
  `Cached = FALSE`; the theorems cover both, the run the cached case.
- `DeepFunnelSchedule`: two symbols are told apart, the canary and one candidate, which is published on clocks of
  its own. The day flag lives 20 hours, longer than the window of
  its day, and does not expire in the model. The four fetches of `Promise.all` are read one after another,
  in one order, which leaves the same sets of answers. `insiders` stands for the inputs whose day nothing
  checks. "Older than one day" (`isEnvelopeStale`), measured from a clock read when the run begins, in the evening,
  is "dated before that day". A stale copy is any day's. The upstream's answers are always declared final, so that
  the status adds nothing to `dataStale`.
- `SignalDelivery`: a run is named by its `generatedAt`, and its day by the same instant. A signal is dated by the last
  bar of its history, so that a run may write the row of an earlier date again. The alert cooldown of 15 minutes is over when the
  next run comes, and a poll's limit of 200 rows is twenty runs; both are left out. The relay forwards
  `signal_update` and `health_update` (`route.ts:110`), the worker publishes `signal.category_changed`
  (`alerts/index.ts:109`), so that a message reaches no client and clients learn from polls alone.
- `FillSimulation`: prices are counted in ticks, the volume of the entry bar is the number of lots it lets
  be filled, a plan is any stop < entry < target 1 <= target 2 with the split of its lots that the engine
  makes. Fees, slippage and profit are sums over the legs and are left out. A leg is kept by its reason, as no
  reason sells twice (`LotsConserved` would fail if one did).
- `RiskEngine`: money per share of a lot, in units that make every fee whole; the stop in hundredths.
- `SignalEngine`: one symbol, so that ranking and slices are not modelled here (they are in `Records`). Shares and
  ratios are compared exactly; scores are kept in thousandths, rounded down. Confidence, flags for display and
  the eligibility for the liquidity list are left out. The worker passes neither news nor open risk and one
  segment, so three of the nine gates always pass. The entry is the last close, which `bAvg * (1 + pctAboveBAvg)`
  equals up to floating point.
- `PriceStudies`: the windows are constants and are kept in the code's order; price and liquidity floors of the
  studies share two constants. Statistics over events, the top five by score, the calibration of the placebo and
  the grid of parameters are left out.
- `Records`: a row is the day it was received, so that a history is a set of days; what rankings and floors read
  of a symbol is a constant profile, different in every field; the random pick is any pick of that size. Plans
  are inserted source by source and updated oldest first, and either may stop in between; the order within a source or
  a day is any. Only the default entry, in the next session, is modelled.
- `Archive`: one script at a time; 429 only without calls left; a call of the worker counts on the quota and what
  it archives is left out, but for the listed shares, a constant. Insider and seasonal payloads go like the others.
- `Fundamentals`: ratios are pairs of integers. A day is a week and a quarter six of them, as is the lag.
  Price filters, trends, the liquidity option and split detection are constant sets; size, the placebo, the margin
  trend, rank correlations and fields for display are left out.

## 3. Runs

| Run | Bounds | What it shows |
|---|---|---|
| `request_budget` | 3 callers, budget 2, reserve 1, 2 days, 3 calls per day, 1 lost increment | grants never pass a ceiling, the counter is exact, it expires, and the counters implement `Quota` |
| `upstream_calls` | 3 calls, the code's threshold 5 and 3 attempts, cooldown of 2 instants | the breaker's fields stay consistent, no call starts within a cooldown, the circuit recovers |
| `single_flight` | 2 callers, 3 polls, 2 versions | one leader while leases hold, no entry older than a purge, no regression, followers stop polling |
| `deep_funnel_schedule` | 2 overlapping ticks, a day of trading and a holiday, a canary and a candidate of two kinds of data | one run per day, on what was published when it began; a candidate is marked stale only for being later than the canary or for midnight; a day that is published in time gets its run |
| `signal_delivery` | 2 symbols, 2 categories, last bars of the day or the day before, 1 connection with 2 overlapping polls, 2 runs on a table that may hold older rows | no run is passed by a cursor unannounced, cursors never move back, each run arrives, nothing is alerted on twice |
| `fill_simulation` | 6 prices, 3 lots, first target 60 % (the code's default), 2 bars; all plans, fills and bars | no lot is lost, each bar is what resting orders make of open, low, high; entries and the legs of a bar are at prices traded in it; without a gap nothing below the stop, nor below the fill after the first target |
| `signal_engine` | 8 kinds of session around the thresholds, 3 days, any days archived | a buy of the deep funnel or the replay passed every gate and has a sound plan; a past day is decided on nothing after it |
| `price_studies` | 4 kinds of bar around a change of tick, 7 sessions, windows of 1 to 3 | no study looks ahead, exits are the worst possible, plans are sound, ranks are fair |
| `records` | 2 symbols, 4 days, responses of 2 bars, 3 pending plans per evaluation, 1 backfill | no replay decides on what was not known, an outcome skips a session only if it was more than a response back, pending plans are evaluated |
| `archive` | 3 symbols (one a bank), 2 days, 2 requests per run, a quota of 4, 1 item that always fails | the reserve is kept, everything is archived, no figure, flag or rank rests on a statement that is not public |
| `deep_funnel_lost_day` | 2 ticks, 1 day | *violated*: a failure after the flag is set loses the day |
| `replay_conservative` | as `signal_engine` | *violated*: the replay, which has the books of several days, buys where the live engine, which is handed one, never does |

**Why the bounds are enough.** The races need two actors and are resolved by what a third sees: three
callers are an incrementer, one that is refused in between and one that profits. Two days make a midnight
fall between any two commands and let yesterday's entries meet today's run; three days would add nothing
that an action looks at, as no action compares days further apart than two. A budget of 2 with a reserve of 1 has
both ceilings and the difference between them. With two versions a response is current or outdated. Two
overlapping polls overtake each other, and connections share nothing that they write, so one suffices. The
bounds `MaxCalls`, `MaxLost`, `LastDay`, `MaxVersion`, `MaxPolls` of `SignalDelivery` and `MaxTime` end
counters that the code does not bound; deadlock is checked except in the runs where reaching such a bound
ends the behaviour (`request_budget`, `signal_delivery`, `signal_engine`, `price_studies`) and in
`fill_simulation`, whose positions are closed in the end. Six prices put two plan levels above the entry and leave prices between and beyond
all four levels for a bar to open, turn and close at; two bars are the first target's and a later one's. The theorems hold for all of them.
In `signal_engine` the sessions hold many buyers, one buyer, a top buyer that turns seller, a close far above what
was paid and a price whose costs eat the reward; persistence asks for two days, so that three days make it, lose
it and meet an archive with holes. In `price_studies` seven bars put a signal, its purchase, its longest exit and one
more session behind the longest window: that session is what a complete trade must not change with. In `records` symbol `a` comes through the screener on the first and the fourth day and `b` lives from the
backfill alone. A response is two bars, so that the second session of `a` is out of reach when it comes back, and in
reach when the last session is listed late: outcomes with and without a hole, and with the backfill's rows in it, are
all reached. In `archive` one symbol's statements are due
for a new fetch and the next quarter is released while they are, which tears its three statements apart.

**Fairness.** Liveness is claimed under what the runtime guarantees and no more.

- `UpstreamCalls`: polling never stops (`setInterval`), a fetch settles, backoff timers fire, time passes.
- `SingleFlight`: a follower whose timer fires runs on. No fetch need settle and no lease need expire.
- `DeepFunnelSchedule`: ticks keep starting, awaited commands settle, Redis expires the canary key. The
  clock, the upstream and the failures owe nothing: the properties say "once nothing fails any more".
- `SignalDelivery`: weak fairness of the polls' SELECT (`setInterval`) and strong fairness of an answer, as
  a database that is asked again every few seconds answers in the end even if answers fail in between.
  Runs and clients owe nothing.
- `Records`: the daily runs go on, and an evaluation that is due again and again does not fail every time. The
  property is claimed while fewer plans than the limit wait for bars that do not come.
- `Archive`: now and then a day begins with no run going and each script is started first on it, and an item that
  can be answered is, in the end. The quota is otherwise anyone's; whoever never starts a script archives nothing.

## 4. Proofs

Every safety invariant and action property that a passing run checks is also a theorem, for every value of the
constants that the assumptions of the modules allow:

| Module | Theorems | Argument |
|---|---|---|
| `RequestBudgetProofs` | `TypeCorrect`, `CounterIsExact`, `BudgetIsRespected`, `CountersExpire`, `CountersImplementQuota` | The ceilings are not inductive: a reservation is decided by its INCR and granted two commands later. `TakenWithinCeilings` counts the promised ones too, and `CountExact` ties them to the counter that the next INCR reads. The same count, `UnitsTaken`, is the mapping to `Quota`: the INCR within the ceilings is the one step that takes a unit, a failure after it forfeits it, and every other command stutters. |
| `AdapterProofs` | `CallsTypeCorrect`, `BreakerIsConsistent`, `CooldownIsRespected` | `OpenedByAFailure`: `openedAt` is never older than the last failure, else the cooldown could end early; `AttemptLeft` keeps the attempts bounded. |
| | `TypeCorrect`, `LeaderIsExclusive`, `PurgeIsEffective`, `EntriesMoveForward` | `Newest`: a leader about to write holds a response no older than what is there; `AboveFloor` and `Bounded` say the same of the last purge and of the upstream. |
| `DeepFunnelScheduleProofs` | `TypeCorrect`, `RunIsUnique`, `DataAreOwn` | `RunsAreFlagged` for uniqueness; for the data, what each tick has seen of the canary by the step it is at (`Seen`), that no entry older than what was published at the purge is met after it, whoever filled it (`Since`), and that both dated inputs are read before the score (`HasRead`). |
| `SignalDeliveryProofs` | `TypeCorrect`, `StreamSkipsNoRun`, `AlertsAreSingle`, `CursorMovesForward` | `CursorsAreAnnounced`: a cursor stands where its connection was opened or at an update that went out; the alert about to be published is logged, and its key was in no message before (`AlertIsNew`). |
| `FillSimulationProofs` | `TypeCorrect`, `LotsAreConserved`, `RemainderIsSafe`, `LossIsBounded`, `PathIsFollowed`, `PricesAreTraded` | `Live`: an open position has sold at the first target only and its stop stands where the stage wants it; `Bearable`: the last close is above that stop, else the expiry could sell below it. `PathIsFollowed` goes through the ways of one bar: what is sold is what the open, the low and the high reach in that order. |
| `EngineProofs` | `LossWithinBudget`, `CostWithinCapital`, `PlanIsSoundAlways` | About `BuildRiskPlan` for every entry, stop and configuration. The lots are a floored quotient, and the loss they risk is at most what was divided. The loop that widens the stop ends, as every turn lowers it by a tick (`WalkEnds`); where it ends the stop is on a tick and far enough (`StopIsFarEnough`), and the targets follow in order. |
| | `TheDeepFunnelNeverBuys`, `BuysAreTradable`, `DecisionsLookBackAlways` | One book is at most one day of persistence. A category to buy has passed all gates with the reward assumed, so it is decided again on the plan's own. The days of a replay are those up to its own on any two histories that agree so far. |
| | `StudyPlansAreSound`, `ExitsArePessimistic`, `RanksAreFairAlways`, `DecisionsStandAlways` | Sums over windows are whole, so that every stop is. The exit loop and the worst path end on the same bars (`OneBar`: whatever the levels, the stop, read first, is what the worse path gets), so they pay the same. The rank that the code doubles is counted (`RankCounts`), and the fifths of n ranks are cut at the multiples of n / 5, rounded up. What is computed at a bar reads windows that end there. |
| `ArchiveProofs` | `ReserveIsKept`, `OnlyPublicStatementsAlways` | `Unpaid`: while a run believes there are more calls than there are, one call it was not told of has not yet been paid for by a request beyond the reserve. `Payloads`: a payload lists no quarter that was not released when it came, so a reader who drops what its date does not know drops nothing it had used. The names of a study are taken as given: they are chosen by quarters that need not be public (section 5). |
| `RecordsProofs` | `RecordsInvariant`, `OutcomesFollowThePlan`, `TheReplayLooksBack` | `Gaps`: bars are written oldest first and a response has the last sessions together, so a session is missing before a stored one only where it was out of reach when that one was written, whatever write stops half-way; `Vouched`: a row was first written by the day it was last received, unless the backfill wrote it. |

Each proof about a machine shows `Init => IInv`, `IInv /\ [Next]_vars => IInv'` by one lemma per action, and the
theorem from `IInv`. The action properties (`CooldownIsRespected`, `EntriesMoveForward`, `CursorMovesForward`,
`DecisionsStandAlways`) follow from the invariant in the step's first state.

The assumptions are those of the code's configuration: finitely many callers; positive bounds; sentinels outside the
sets they extend; fees, caps and multiples as `RiskConfig` has them; sessions and bars with whole prices, a positive
close and a low, an open and a high in order (`SessionsArePriced`, `BarsArePriced`); a stop of at most a hundred percent
(`SettingsOK`); the windows of the studies in the code's order (`WindowsOrdered`); payloads that list what was
released (`PayloadAssumption`), with the readers' lag (`ReadersAssumption`); profiles that differ in every ranked field
(`RecordsAssumption`). TLC evaluates them in the runs of the same modules.

Nothing here is proved by an induction theorem of the library, which would need an operator as argument. Where an
induction is needed (sums, the widening stop, the walk along the bars, the order of a set of days) the proof
takes the least natural number at which the claim fails (`LeastNatural`) and finds a smaller one. A recursive function
is used through the equation that it takes a solution of: a solution is shown to exist, and any solution to have the
value claimed. tlapm cannot take the library's sorts nor quantifiers over pairs; where a model needs an order it
says what the order is (`Ascending` in `SignalEngine`, `Place` in `PriceStudies`).

Model-checked only: the liveness properties `Recovers`, `NoStall`, `RunsWhenReady`, `RunIsAnnounced`,
`ReadyPlansAreEvaluated` and `EverythingIsArchived`, which rest on fairness and so on ENABLED, out of the prover's
reach.

## 5. Behaviour worth knowing that no run is about

Worker and stream:

- `cache/budget.ts:76-78` reasons that at most one of the concurrent callers rolls back. With three callers
  above a ceiling two do; nothing is harmed, as `CountExact` shows. A caller that is about to be refused counts
  until its DECR, so another may be refused although a unit is free.
  The call that creates a day's counter and fails before its EXPIRE (line 80) leaves a key that never expires; nothing
  else does (`CounterExpires`).
- The worker reserves a request for the intraday screener (`index.ts:110`) only; the calls of the deep funnel and of
  shadow mode are not counted.
- In the half-open state every concurrent call is let through (`circuitBreaker.ts:38-39`), where the comment of
  line 35 speaks of one trial. A success recorded by a straggler closes an open circuit before its cooldown is
  over (line 46).
- A leader that outlives its lease deletes the lease of the next one (`cache.ts:96`), so that two calls hold one. A
  leader whose SET of the stale copy fails returns an older stale copy although its fetch succeeded
  (`cache.ts:84-92`). A caller that reads the entry before, and takes the lease after, another leader finished
  fetches once more (`cache.ts:70-77`).
- A stale copy of insider transactions enters a candidate that counts as fresh (`deep.ts:99`), against the warning of
  `cache.ts:14-15`.
- A row inserted after a poll of its own run is never announced one by one (`sse/route.ts:62`); its run is.
- `alerts/index.ts:53-54` says that an alert is published when the category "changed since the last known category for
  that trading date". The category it is compared with is that of any row of the symbol, of any date, in no order
  (`index.ts:215-219`), read after `insertSignal` has overwritten the row of that date (`snapshots.ts:226`): a change
  may be compared with itself and stay unannounced, and a category that stays the same be announced because an old row
  has another. An alert logged before a failure is never published.
- Three of the nine gates never bite in the worker: `runDeepFunnel` is called without news and open risk, and the
  segment is always known. With the default of three days of persistence and the book of one day (`deep.ts:166`),
  no live signal is a buy (`TheDeepFunnelNeverBuys`).
- The plan of an AVOID or NO_TRADE signal is stored like any other and `signal_driven` replays it unless its reward is
  too small.

Replay and studies:

- A position filled on the last session of the data has no bar to be sold in; it counts as filled, with fees
  and no exit leg (`fillSimulation.ts:186`, `replayEngine.ts:83-84`).
- A bar that reaches the first target and dips to the fill price does not stop the remainder
  (`fillSimulation.ts:268-277`): the bar is taken to fall first and rise afterwards, as `FollowsPath` says. The
  comment of line 162, that the order assumed "never overstates", is true of the path open, low, high only.
- An entry bar that opens below the plan's stop fills below it (`fillSimulation.ts:107`); the first target
  then lowers the stop to the fill price. `LossIsPlanned` excepts such fills.
- Every run moves `receivedAt` of all the bars it upserts (`snapshots.ts:134`), so that a replay of an earlier date no
  longer sees them and falls back to snapshots of one price, without a word. The replay's universe is as of
  the midnight before the date, its histories as of the end of it; its book is the last archived one even when
  the day's own is missing.
- A shadow plan is evaluated with four bars (`shadow/evaluate.ts:70`), where `docs/SHADOW_MODE.md:42-45` speaks of
  three, and for good, though a position may be held for twenty sessions. Shadow plans are dated by the day of the
  run, though the history they rest on may end earlier. Plans whose bars never come fill the 500 of an
  evaluation in the end (`ReadyPlansAreEvaluated` excepts that).
- A symbol that is no candidate for longer than a history response reaches back (some 120 sessions) leaves a hole in
  `daily_bar`. A shadow plan that waits across the hole is entered in the first session after it, not in the next one
  as `evaluate.ts:10-17` has it; `OutcomeOnNextSessions` says that nothing else makes an outcome skip a session.

Archive and fundamentals:

- `watchlist.ts` takes net income and cash flow each to its own latest quarter, the screener both to the latest quarter
  of any statement. After a fetch of one kind only, the screener's figures of that symbol are unknown, and an unknown
  growth counts towards "caution" (`route.ts:484`).
- `backfillFundamentals.ts` stores whatever comes with status 200, an empty payload too: it hides the good one
  and counts as done for 30 days. Readers take every row with status 200, those the worker archived as invalid
  included.
- The studies use today's quarters, shares and bars for every past date, which their headers say, and rank only
  names whose later bars are there. `phase0j.ts` looks a weekly book up by its end date: a week that ends before
  its weekly bar's date has no flow.
- `phase0i.ts:17-19` promises "NO LOOK-AHEAD: a quarter's statements are usable only" ninety days after its end. Which
  symbols are studied is decided otherwise: `phase0i.ts:248` (and `phase0j.ts:259`) drops those with fewer than
  five archived quarters, public or not, for every past date. A symbol may so be ranked at a date, and shift the ranks
  of others, only because statements came after it. In the model the same study of public statements alone has
  other names; `OnlyPublicStatements` says that, the names being given, nothing else depends on such statements.
- Items that are answered with an error, and books with few rows, are asked for again by every run.

## 6. What is not modelled, and the plan

Not modelled:

- the stream's client: it keeps no state but a list that it reads again every 30 s whatever the stream says;
- the journal and the read API: single statements of one request each, of fields nothing computes with;
- worker health: a read of counters, whose result nothing decides upon;
- rendering, scripts, migrations, and the conversion of one response (`normalize.ts`, the schemas): I/O or pure
  functions of one value;
- statistics of the studies (means, t-values, rank correlations) and the confidence of a signal: floating-point sums
  without control flow.

Left for later: a signal and its plan as two writes; the safety that the liveness properties rest on (what each step
of a fair action uses up) as theorems of its own.
