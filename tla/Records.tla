------------------------------- MODULE Records -------------------------------
(***************************************************************************)
(* The tables of daily data and those who write and read them.             *)
(*                                                                         *)
(* Writers: the daily run of the worker (funnel/top.ts, mid.ts, deep.ts    *)
(* with persist/snapshots.ts), its shadow step (shadow/persist.ts,         *)
(* screeners.ts) and its evaluation (shadow/evaluate.ts), and the one-off  *)
(* backfill (backfill.ts).  Readers: the replay data source                *)
(* (dataSource/postgres.ts, leakGuard.ts) under replayEngine.ts,           *)
(* paramSweep.ts and phase0d.ts.                                           *)
(*                                                                         *)
(* Days are numbers.  A row is the day it was received, 0 when there is no *)
(* row; its prices are left out, so that a history is a set of days.  What *)
(* the selections need of prices and of the screener's statistics is a     *)
(* constant: a profile per symbol, and the sessions at whose close the     *)
(* technical rules hold and a stop or a tradable plan exists.  Profiles    *)
(* differ in every ranked field, so a ranking needs no tie-break.          *)
(***************************************************************************)
EXTENDS Integers, FiniteSets, FiniteSetsExt

CONSTANTS
    Symbols,
    Screens,       \* per day, the sets of symbols the screener may return
    Openings,      \* the sets of symbols that may trade in a session
    Laggards,      \* the sets of symbols the upstream may list a session late
    Profile,       \* what the rankings and the floors read of a symbol
    Breakouts,     \* <<symbol, day>>: the technical rules hold at that close
    Stops,         \* <<symbol, day>>: the 5-day low is below that close
    Worth,         \* those of Stops whose plan the risk engine does not reject
    MaxDay,        \* bound of the model: days
    Window,        \* bars of a history response, about 120
    HistoryBars,   \* bars of a replayed history, 40
    SnapshotBars,  \* bars of a history made of snapshots, 20
    UniverseBars,  \* bars a symbol of the universe has, 5
    SweepBars,     \* bars the sweep asks for, 15
    ShadowBars,    \* bars the screens ask for, 30
    MinForward,    \* bars after the entry session an evaluation waits for, 3
    MaxHolding,    \* 20
    Limit,         \* pending plans of one evaluation, 500
    TopMax,        \* topFunnelTargetMax
    MidMax,        \* midFunnelTargetMax
    WatchlistMax,  \* deepFunnelWatchlistMax
    PlanMax,       \* deepFunnelTradePlanMax
    Shortlist,     \* names of a screen, 5
    TechSize,      \* names of the technical universe, 60
    PoolSize,      \* names of the baseline pools, 40
    MinPrice, MinTurnover, MinLiquid, MinRatio, MinCap, MaxCap,
    BackfillTop

ASSUME RecordsAssumption ==
    /\ Openings \subseteq SUBSET Symbols /\ Screens \in [1..MaxDay -> SUBSET SUBSET Symbols]
    /\ MaxDay \in Nat \ {0} /\ Window \in Nat /\ HistoryBars \in Nat \ {0}
    /\ MinForward \in Nat /\ MaxHolding \in Nat /\ Limit \in Nat
    /\ \A s, t \in Symbols : s # t =>
         \A f \in DOMAIN Profile[s] \ {"price", "trap"} : Profile[s][f] # Profile[t][f]

Days    == 1..MaxDay
Sources == {"live", "baseline_volume", "baseline_random", "screener_arjum",
            "screener_marketcap", "screener_technical", "screener_flow", "screener_consensus"}

VARIABLES
    today,     \* the day, 0 before the first
    phase,     \* the next step of the daily run
    traded,    \* environment: sessions in which a symbol traded
    late,      \* environment: symbols whose session of today is not listed yet
    rows,      \* screener rows of today's run
    live,      \* symbols whose signal of today's run has a plan
    bar,       \* table daily_bar: day received, per symbol and day
    snapshot,  \* table market_snapshot
    book,      \* table broker_snapshot
    plans,     \* table trade_plan: <<symbol, day>> of the plans worth taking
    shadow,    \* table shadow_plan
    backfills, \* backfills run
    since,     \* history: day a row of daily_bar was first written
    filled     \* history: rows of daily_bar the backfill wrote

market  == <<today, traded, late>>
tables  == <<bar, snapshot, book, plans, since, filled>>
vars    == <<market, phase, rows, live, tables, shadow, backfills>>

Empty == [s \in Symbols |-> [d \in Days |-> 0]]

Init ==
    /\ today = 0 /\ phase = "idle"
    /\ traded = [s \in Symbols |-> {}] /\ late = {}
    /\ rows = {} /\ live = {}
    /\ bar = Empty /\ snapshot = Empty /\ book = Empty
    /\ plans = {} /\ shadow = {} /\ backfills = 0
    /\ since = Empty /\ filled = {}

\* The n last, and the n first, days of a set.
LastOf(D, n)  == {d \in D : Cardinality({e \in D : e > d}) < n}
FirstOf(D, n) == {d \in D : Cardinality({e \in D : e < d}) < n}

\* The n symbols that rank first by a field of their profile.
Best(S, field, n) ==
    {s \in S : Cardinality({t \in S : Profile[t][field] > Profile[s][field]}) < n}

-----------------------------------------------------------------------------
(* The daily run: the funnel and what it stores.                           *)

\* A trading day ends; some symbols did not trade, and the upstream lists the
\* session of some a day late.
Session(T, L) ==
    /\ phase = "idle" /\ today < MaxDay
    /\ today' = today + 1 /\ phase' = "funnel"
    /\ traded' = [s \in Symbols |-> traded[s] \cup (IF s \in T THEN {today + 1} ELSE {})]
    /\ late' = L \cap T
    /\ UNCHANGED <<rows, live, tables, shadow, backfills>>

\* Distribution and trap buckets are dropped, the rest ranked and cut.
TopFunnel(rs) == Best({s \in rs : ~Profile[s].trap}, "edge", TopMax)

\* Ranked again, with a penalty for the drawdown.
MidFunnel(rs) == Best(TopFunnel(rs), "penalized", MidMax)

\* The sessions the upstream lists today.
Listed(s) == traded[s] \ {d \in {today} : s \in late}

\* The history it returns.
Response(s) == LastOf(Listed(s), Window)

LastDay(s) == Max(Response(s))

AboveFloors(s) ==
    /\ Response(s) # {}
    /\ Profile[s].price >= MinPrice
    /\ Profile[s].turnover >= MinTurnover

\* check-then-insert: the first row of a day stays.
InsertSnapshots(C) ==
    snapshot' = [s \in Symbols |-> [d \in Days |->
        IF s \in C /\ d = LastDay(s) /\ snapshot[s][d] = 0 THEN today ELSE snapshot[s][d]]]

\* The book of the last session, received today, over any there was.
UpsertBooks(C) ==
    book' = [s \in Symbols |-> [d \in Days |->
        IF s \in C /\ d = LastDay(s) THEN today ELSE book[s][d]]]

\* MUTANT: the bars are written as received, the newest first.
MutWritten(s, t, k) == IF s = t THEN LastOf(Response(s), k) ELSE Response(s)

\* The bars of s that are written when the upsert of t fails after k bars:
\* they go oldest first.
Written(s, t, k) == IF s = t THEN FirstOf(Response(s), k) ELSE Response(s)

\* Every bar of the response, those already there included, is received today.
UpsertBars(C, t, k) ==
    /\ bar' = [s \in Symbols |-> [d \in Days |->
                  IF s \in C /\ d \in Written(s, t, k) THEN today ELSE bar[s][d]]]
    /\ since' = [s \in Symbols |-> [d \in Days |->
                  IF s \in C /\ d \in Written(s, t, k) /\ since[s][d] = 0
                  THEN today ELSE since[s][d]]]

\* The candidates C pass the floors with all their data, and the writing of
\* one of them, t, may stop after k bars: that one is skipped.
DeepFunnel(rs, C, t, k) ==
    LET enriched == IF Written(t, t, k) = Response(t) THEN C ELSE C \ {t}
        watched  == Best(enriched, "score", WatchlistMax)
        planned  == Best(watched, "score", PlanMax)
    IN  /\ phase = "funnel" /\ rs \in Screens[today]
        /\ C \subseteq {s \in MidFunnel(rs) : AboveFloors(s)}
        /\ InsertSnapshots(C) /\ UpsertBooks(C) /\ UpsertBars(C, t, k)
        /\ plans' = plans \cup {<<s, LastDay(s)>> : s \in {p \in planned : <<p, LastDay(p)>> \in Worth}}
        /\ rows' = rs /\ live' = planned
        /\ phase' = "shadow"
        /\ UNCHANGED <<market, shadow, backfills, filled>>

-----------------------------------------------------------------------------
(* The shadow step.  H are the symbols whose history could be fetched, F   *)
(* those of the technical universe whose book could be.                    *)

TechnicalUniverse ==
    Best({s \in Symbols : Profile[s].price >= MinPrice /\ Profile[s].ratio > 0}, "ratio", TechSize)

HasEnoughHistory(s, H) == s \in H /\ Cardinality(Response(s)) >= ShadowBars

Pool(H) == {s \in rows : HasEnoughHistory(s, H)}

ArjumShortlist(H) == Best(Pool(H), "edge", Shortlist)

MarketcapShortlist(H) ==
    Best({s \in Pool(H) : /\ Profile[s].cap >= MinCap /\ Profile[s].cap <= MaxCap
                          /\ Profile[s].ratio >= MinRatio}, "ratio", Shortlist)

TechnicalShortlist(H) ==
    Best({s \in TechnicalUniverse : HasEnoughHistory(s, H) /\ <<s, LastDay(s)>> \in Breakouts},
         "momentum", Shortlist)

\* Net over gross buying; positive only.
FlowShortlist(H, F) ==
    Best({s \in TechnicalUniverse \cap F : Profile[s].imbalance > 0 /\ HasEnoughHistory(s, H)},
         "imbalance", Shortlist)

\* Names that two of the three lists have, by their votes; where these are equal
\* the order is that in which the lists name them.
ConsensusShortlist(H) ==
    LET lists == <<ArjumShortlist(H), MarketcapShortlist(H), TechnicalShortlist(H)>>
        ranks == <<"edge", "ratio", "momentum">>
        votes(s) == {i \in 1..3 : s \in lists[i]}
        \* smaller is earlier
        place(s) == <<-Cardinality(votes(s)), Min(votes(s)), -Profile[s][ranks[Min(votes(s))]]>>
        earlier(s, t) == \E i \in 1..3 : place(s)[i] < place(t)[i] /\ \A j \in 1..(i - 1) : place(s)[j] = place(t)[j]
        agreed == {s \in Symbols : Cardinality(votes(s)) >= 2}
    IN  {s \in agreed : Cardinality({t \in agreed : earlier(t, s)}) < Shortlist}

\* The picks of each source; random is the seeded pick R.
Picks(H, F, R) ==
    [source \in Sources |->
        CASE source = "live"               -> live
          [] source = "baseline_volume"    -> Best(Pool(H), "volume", PlanMax)
          [] source = "baseline_random"    -> R
          [] source = "screener_arjum"     -> ArjumShortlist(H)
          [] source = "screener_marketcap" -> MarketcapShortlist(H)
          [] source = "screener_technical" -> TechnicalShortlist(H)
          [] source = "screener_flow"      -> FlowShortlist(H, F)
          [] source = "screener_consensus" -> ConsensusShortlist(H)]

SameRow(p, q) == p.source = q.source /\ p.symbol = q.symbol /\ p.day = q.day

\* ON CONFLICT DO NOTHING.
Insert(new) == shadow' = shadow \cup {p \in new : ~\E q \in shadow : SameRow(p, q)}

\* A plan per pick, dated today, if the history has a stop; a live signal
\* brings its own.
NewPlans(H, F, R) ==
    {[source |-> p[1], symbol |-> p[2], day |-> today, used |-> {}] :
        p \in {q \in Sources \X Symbols :
            /\ q[2] \in Picks(H, F, R)[q[1]]
            /\ q[1] = "live" \/ <<q[2], LastDay(q[2])>> \in Stops}}

\* The sources in the order they are written.
Order == <<"live", "baseline_volume", "baseline_random", "screener_arjum", "screener_marketcap",
           "screener_technical", "screener_flow", "screener_consensus">>

Before(p, q) == \E i, j \in DOMAIN Order : i < j /\ Order[i] = p.source /\ Order[j] = q.source

\* The plans are inserted one by one; when an insert fails, those before it stay
\* and the step ends, the evaluation with it.
PersistShadowPlans(H, F, R) ==
    /\ phase = "shadow"
    /\ H \subseteq rows \cup TechnicalUniverse /\ F \subseteq TechnicalUniverse
    /\ R \subseteq Pool(H) /\ Cardinality(R) = Min({PlanMax, Cardinality(Pool(H))})
    /\ \E inserted \in SUBSET NewPlans(H, F, R) :
          /\ \A q \in inserted, p \in NewPlans(H, F, R) : Before(p, q) => p \in inserted
          /\ Insert(inserted)
          /\ phase' = IF inserted = NewPlans(H, F, R) THEN "evaluate" ELSE "idle"
    /\ rows' = {} /\ live' = {}
    /\ UNCHANGED <<market, tables, backfills>>

\* A call or query that fails outside of the loops ends the run.
ShadowFails ==
    /\ phase \in {"funnel", "shadow"}
    /\ phase' = "idle" /\ rows' = {} /\ live' = {}
    /\ UNCHANGED <<market, tables, shadow, backfills>>

Pending == {p \in shadow : p.used = {}}

\* The bars after the plan's day: the entry session and the exit walk.
Forward(p) == FirstOf({d \in Days : bar[p.symbol][d] # 0 /\ d > p.day}, MaxHolding + 1)

Ready(p) == Cardinality(Forward(p)) >= MinForward + 1

\* MUTANT: the first plan that waits ends the pass.
MutEvaluated(chosen) ==
    {p \in chosen : Ready(p) /\ \A q \in chosen : q.day <= p.day => Ready(q)}

\* A plan that waits is passed over.
Evaluated(chosen) == {p \in chosen : Ready(p)}

\* The Limit oldest pending plans, those of a day in any order; what an
\* evaluated plan got stays.  They are updated one by one, oldest first, and a
\* failure leaves those not yet done for the next time.
EvaluateShadowOutcomes(chosen, done) ==
    /\ phase = "evaluate"
    /\ chosen \subseteq Pending
    /\ Cardinality(chosen) = Min({Limit, Cardinality(Pending)})
    /\ \A p \in chosen, q \in Pending \ chosen : p.day <= q.day
    /\ done \subseteq Evaluated(chosen)
    /\ \A p \in done, q \in Evaluated(chosen) \ done : p.day <= q.day
    /\ shadow' = (shadow \ done) \cup {[p EXCEPT !.used = Forward(p)] : p \in done}
    /\ phase' = "idle"
    /\ UNCHANGED <<market, rows, live, tables, backfills>>

\* The bound stops the calendar, not the daily runs.
RunAgain ==
    /\ phase = "idle" /\ today = MaxDay
    /\ phase' = "evaluate"
    /\ UNCHANGED <<market, rows, live, tables, shadow, backfills>>

-----------------------------------------------------------------------------
(* The backfill: rows dated as received on their own day, where there are  *)
(* none.  S are the symbols whose calls succeed.                           *)

Universe == Best({s \in Symbols : Profile[s].price >= MinPrice /\ Profile[s].cap > 0}, "turnover", BackfillTop)

Backfill(S) ==
    LET new == {p \in S \X Days : p[2] \in Response(p[1]) /\ bar[p[1]][p[2]] = 0}
    IN  /\ backfills = 0 /\ today > 0
        /\ S \subseteq Universe
        /\ bar' = [s \in Symbols |-> [d \in Days |-> IF <<s, d>> \in new THEN d ELSE bar[s][d]]]
        /\ since' = [s \in Symbols |-> [d \in Days |-> IF <<s, d>> \in new THEN today ELSE since[s][d]]]
        /\ filled' = filled \cup new
        /\ book' = [s \in Symbols |-> [d \in Days |->
                       IF s \in S /\ d \in Response(s) /\ book[s][d] = 0 THEN d ELSE book[s][d]]]
        /\ backfills' = 1
        /\ UNCHANGED <<market, phase, rows, live, snapshot, plans, shadow>>

Next ==
    \/ \E T \in Openings, L \in Laggards : Session(T, L)
    \/ /\ phase = "funnel"
       /\ \E rs \in Screens[today], C \in SUBSET Symbols, t \in Symbols, k \in 0..Window : DeepFunnel(rs, C, t, k)
    \/ \E H, F, R \in SUBSET Symbols : PersistShadowPlans(H, F, R)
    \/ ShadowFails
    \/ \E chosen \in SUBSET Pending : \E done \in SUBSET chosen : EvaluateShadowOutcomes(chosen, done)
    \/ RunAgain
    \/ \E S \in SUBSET Symbols : Backfill(S)

Evaluation == \E chosen \in SUBSET Pending : EvaluateShadowOutcomes(chosen, Evaluated(chosen))

\* The worker keeps running, and the evaluation does not fail every day.
Fairness == WF_vars(Next) /\ WF_vars(RunAgain) /\ SF_vars(Evaluation)

Spec     == Init /\ [][Next]_vars
FairSpec == Spec /\ Fairness

-----------------------------------------------------------------------------
(* The replay data source.  An as-of is a date and the last day whose      *)
(* receptions it sees: a bare date is its midnight.                        *)

EndOf(d)   == [date |-> d, known |-> d]
StartOf(d) == [date |-> d, known |-> d - 1]

\* MUTANT: the day received is not looked at.
MutSeen(table, s, asOf) == {d \in Days : table[s][d] # 0 /\ d <= asOf.date}

\* Rows of a table dated and received by then.
Seen(table, s, asOf) == {d \in Days : table[s][d] # 0 /\ d <= asOf.date /\ table[s][d] <= asOf.known}

ListTradingDates ==
    LET dates(table) == {d \in Days : \E s \in Symbols : table[s][d] # 0}
    IN  IF dates(bar) # {} THEN dates(bar) ELSE dates(snapshot)

\* A symbol without a bar by then is read from its snapshots.
HistoryAsOf(s, asOf) ==
    IF Seen(bar, s, asOf) # {}
    THEN LastOf(Seen(bar, s, asOf), HistoryBars)
    ELSE LastOf(Seen(snapshot, s, asOf), SnapshotBars)

\* The snapshots count only while no symbol has a bar by then.
UniverseAsOf(asOf) ==
    LET table == IF \E s \in Symbols : Seen(bar, s, asOf) # {} THEN bar ELSE snapshot
    IN  {s \in Symbols : Cardinality(Seen(table, s, asOf)) >= UniverseBars}

LiquidCandidates(S) == {s \in S : Profile[s].turnover >= MinLiquid}

\* Bars for the simulation, whenever they were received.
SimulationBars(s, day, n) ==
    LET after(table) == {d \in Days : table[s][d] # 0 /\ d > day}
    IN  FirstOf(IF after(bar) # {} THEN after(bar) ELSE after(snapshot), n)

\* A plan the harnesses take: its stop is below its close, the risk engine
\* accepts it.
Takes(s, history) == history # {} /\ <<s, Max(history)>> \in Worth

Simulation(s, day, history) == [symbol |-> s, seen |-> history, bars |-> SimulationBars(s, day, MaxHolding + 1)]

\* The baselines and the reconstructed signals of a date: the universe is
\* that of its midnight, the histories those of its end.
ReplayOn(day) ==
    LET universe   == UniverseAsOf(StartOf(day))
        history(s) == HistoryAsOf(s, EndOf(day))
        liquid     == LiquidCandidates(universe)
        picked     == liquid \cup {s \in universe : Seen(book, s, EndOf(day)) # {}}
    IN  {Simulation(s, day, history(s)) : s \in {p \in picked : Takes(p, history(p))}}

\* The stored plans of a date.
SignalDriven(day) == {Simulation(p[1], day, {}) : p \in {q \in plans : q[2] = day}}

\* The sweep's candidates of a date.
SweepOn(day) ==
    LET pool       == Best(LiquidCandidates(UniverseAsOf(EndOf(day))), "volume", 2 * PoolSize)
        history(s) == HistoryAsOf(s, EndOf(day))
    IN  {Simulation(s, day, history(s)) :
            s \in {p \in pool : Cardinality(history(p)) >= SweepBars /\ Takes(p, history(p))}}

\* The technical screen and its baselines.
TechnicalOn(day) ==
    LET universe   == LiquidCandidates(UniverseAsOf(EndOf(day)))
        history(s) == HistoryAsOf(s, EndOf(day))
        enough     == {s \in universe : Cardinality(history(s)) >= ShadowBars}
        technical  == {s \in Best(universe, "turnover", TechSize) \cap enough : <<s, Max(history(s))>> \in Breakouts}
        pool       == Best(universe, "volume", PoolSize) \cap enough
    IN  {Simulation(s, day, history(s)) : s \in {p \in technical \cup pool : Takes(p, history(p))}}

\* What withLeakGuard throws on: an envelope received, or a bar dated, later.
Leaks(s, asOf) ==
    LET seen == HistoryAsOf(s, asOf)
    IN  \/ \E d \in seen : d > asOf.date
        \/ Seen(bar, s, asOf) # {} /\ bar[s][Max(seen)] > asOf.known

-----------------------------------------------------------------------------
(* Properties.                                                             *)

\* Sessions up to a day of which a row was there by the end of that day, or
\* that the backfill vouches for.
KnownBy(s, day) ==
    {d \in 1..day : \/ since[s][d] \in 1..day
                    \/ <<s, d>> \in filled
                    \/ snapshot[s][d] \in 1..day}

\* dataSource/types.ts:13-16, 26-27: whatever was stored, stored again or filled
\* in since, a harness decides for a day on what the worker had by its end, the
\* guard never fires, and the trade is filled on later sessions.
ReplayDecidesOnThePast ==
    \A day \in ListTradingDates :
        \A trade \in SignalDriven(day) \cup ReplayOn(day) \cup SweepOn(day) \cup TechnicalOn(day) :
            /\ trade.seen \subseteq KnownBy(trade.symbol, day)
            /\ \A d \in trade.bars : d > day
            /\ ~Leaks(trade.symbol, EndOf(day))

\* By the end of that day the session d was too far back for a response.
OutOfReach(s, d, day) == Cardinality({x \in traded[s] : d <= x /\ x <= day}) > Window

\* evaluate.ts:10-17: a shadow plan is entered in the first session after its day
\* and walked through the next ones, though bars come only with the runs that have
\* the symbol as a candidate, a write may stop half-way, and the outcome is never
\* revised.  A session is skipped only when nothing from it on was stored until
\* it was more than a response back: then the first bar after it comes too late.
OutcomeOnNextSessions ==
    \A p \in shadow : \A e \in p.used :
        /\ e > p.day
        /\ \A d \in traded[p.symbol] :
              p.day < d /\ d < e /\ d \notin p.used => OutOfReach(p.symbol, d, since[p.symbol][e])

\* Plans that wait for bars fill an evaluation.
Blocked == Cardinality({p \in Pending : ~Ready(p)}) >= Limit

\* While they do not, every plan with enough bars is evaluated in the end, though
\* runs fail and later plans keep coming.
ReadyPlansAreEvaluated == []~Blocked => []<>(\A p \in Pending : ~Ready(p))

=============================================================================
