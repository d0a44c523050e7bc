----------------------------- MODULE Fundamentals -----------------------------
(***************************************************************************)
(* The readers of the archive: the fundamental screener                    *)
(* (api/fundamentals/route.ts), the review watchlist (watchlist.ts) and    *)
(* the studies of fundamentals and of weekly books (phase0i.ts, phase0j.ts)*)
(*                                                                         *)
(* A reader is an operator of what the archive holds: the quarters of each *)
(* statement of each symbol.  A statement is public only Lag days after    *)
(* its quarter, whenever the upstream released it.  Ratios are pairs of    *)
(* integers with a positive denominator, None when they are not known.     *)
(* Prices, which no statement depends on, are constants.                   *)
(***************************************************************************)
EXTENDS Archive

CONSTANTS
    Report,       \* [ni, rev, equity, assets, ocf] of a symbol and quarter
    Banks,
    Lag,          \* PUBLICATION_LAG_DAYS
    Listed,       \* symbols the price filters of the screener leave
    Alphabet,     \* their order
    Return20,     \* return of the last 20 sessions
    Cap,          \* market capitalization, or None
    DerMax,       \* DER_MAX_NONBANK
    BestMax,      \* BEST_OVERALL_MAX
    Watched,      \* symbols the filters of the watchlist leave
    Trending,     \* those in an upward trend
    Flow,         \* net-flow imbalance of a symbol and day, a ratio
    WeekFlow,     \* the same of a symbol and week
    Traded,       \* weeks in which a symbol traded
    Close,        \* price of a symbol and week
    Shares,       \* listed shares of a symbol, or None
    Splits,       \* symbols whose weekly bars look like a split
    WeeksOfMonth, MinBars, MinQuarters, MinXs, Horizons

ASSUME ReadersAssumption ==
    /\ Listed \subseteq Symbols /\ Watched \subseteq Symbols
    /\ Lag \in Nat
    /\ \A s \in Symbols : \A w \in Traded[s] : w \in Int

Statements == {Income, Balance, CashFlow}

-----------------------------------------------------------------------------
(* Statements.                                                             *)

\* The newest payload of each.
Held ==
    [s \in Symbols |-> [k \in Statements |->
        LET item == <<"fundamentals", s, k>>
        IN  IF item \in DOMAIN stored
            THEN {q \in 0..released : q < stored[item].until /\ q >= stored[item].until - PayloadQuarters}
            ELSE {}]]

QuartersOf(held, s) == UNION {held[s][k] : k \in Statements}

IsPublic(q, t) == QuarterEnd(q) + Lag <= t

\* A payload shows what the upstream had, and reaches back past the lag.
IsPayload(until, has, t) ==
    /\ until \in 0..has
    /\ until = 0 \/ \E q \in 0..(until - 1) : q >= until - PayloadQuarters /\ IsPublic(q, t)

\* The quarters released are over, and twelve are longer than ninety days.
ASSUME PayloadAssumption ==
    /\ FirstDay \in Int /\ MaxDay \in Int /\ FirstDay <= MaxDay
    /\ QuarterDays \in Nat /\ PayloadQuarters \in Nat \ {0}
    /\ Released \in Nat /\ QuarterEnd(Released - 1) < FirstDay
    /\ QuarterEnd(0) + Lag <= FirstDay
    /\ Lag <= (PayloadQuarters - 1) * QuarterDays
    /\ \A item \in DOMAIN Initial : IsPayload(Initial[item].until, Released, FirstDay)

Public(held, t) == [s \in Symbols |-> [k \in Statements |-> {q \in held[s][k] : IsPublic(q, t)}]]

Newest(quarters) == IF quarters = {} THEN -1 ELSE Max(quarters)

\* MUTANT: a quarter counts from its end.
MutLatest(held, s, t) == Newest({q \in QuartersOf(held, s) : QuarterEnd(q) <= t})

\* The latest public quarter of any statement of a symbol, -1 if none.
Latest(held, s, t) == Newest({q \in QuartersOf(held, s) : IsPublic(q, t)})

IsBank(held, s) == s \in Banks /\ held[s][Balance] # {}

Figure(held, s, k, f, q) == IF q \in held[s][k] THEN Report[s][q][f] ELSE None

\* Sum of four quarters up to L, if all are there.
TtmTo(held, s, k, f, L) ==
    LET figure(i) == Figure(held, s, k, f, L - i)
    IN  IF L < 0 \/ \E i \in 0..3 : figure(i) = None
        THEN None ELSE figure(0) + figure(1) + figure(2) + figure(3)

Ttm(held, s, t, k, f) == TtmTo(held, s, k, f, Latest(held, s, t))

\* n over d, if both are known and d is positive.
Over(n, d) == IF n = None \/ d = None THEN None ELSE IF d > 0 THEN <<n, d>> ELSE None

AtMost(x, y) == x[1] * y[2] <= y[1] * x[2]

Magnitude(n) == IF n < 0 THEN -n ELSE n

\* Growth over the same quarter of the year before, within bounds.
Yoy(held, s, t, f, bound) ==
    LET L    == Latest(held, s, t)
        cur  == Figure(held, s, Income, f, L)
        base == Figure(held, s, Income, f, L - 4)
        d    == Magnitude(base)
    IN  IF L < 0 \/ cur = None \/ base = None THEN None
        ELSE IF d = 0 THEN None
        ELSE <<Max({-bound * d, Min({bound * d, cur - base})}), d>>

-----------------------------------------------------------------------------
(* The screener.                                                           *)

\* Profitable, with cash, and not leveraged too much, as far as known.
IsSound(held, s, niTtm, ocfTtm, equity, assets) ==
    /\ niTtm > 0 /\ ocfTtm > 0
    /\ \/ IsBank(held, s)
       \/ assets = None
       \/ assets <= equity
       \/ assets - equity <= DerMax * equity

\* The figures of a listed symbol.
Company(held, s, t) ==
    LET L      == Latest(held, s, t)
        ni     == Ttm(held, s, t, Income, "ni")
        ocf    == Ttm(held, s, t, CashFlow, "ocf")
        equity == Figure(held, s, Balance, "equity", L)
        assets == Figure(held, s, Balance, "assets", L)
        roe    == Over(ni, equity)
        whole  == ni # None /\ ocf # None /\ roe # None
    IN  [symbol |-> s, bank |-> IsBank(held, s), cap |-> Cap[s], ret20 |-> Return20[s],
         roe    |-> roe,
         bp     |-> IF Over(0, equity) = None THEN None ELSE Over(equity, Cap[s]),
         ep     |-> Over(ni, Cap[s]),
         niYoy  |-> Yoy(held, s, t, "ni", 3),
         revYoy |-> Yoy(held, s, t, "rev", 3),
         quality |-> IF ~whole THEN "unknown"
                     ELSE IF IsSound(held, s, ni, ocf, equity, assets) THEN "good" ELSE "poor"]

Positive(x) == x # None /\ x[1] > 0

\* Fraction of the peers, banks or others, whose value is at most that of r.
Percentile(rows, r, f) ==
    LET peers == {p \in rows : p.bank = r.bank /\ p[f] # None}
    IN  <<Cardinality({p \in peers : AtMost(p[f], r[f])}), Cardinality(peers)>>

InTopThird(rows, r, f) == r[f] # None /\ AtMost(<<2, 3>>, Percentile(rows, r, f))

\* No more than half of the values are smaller.
WithinMedian(rows, r, f) == Cardinality({p \in rows : p[f] < r[f]}) <= Cardinality(rows) \div 2

Plus(x, y) == <<x[1] * y[2] + y[1] * x[2], x[2] * y[2]>>

CompositeScore(rows, r) ==
    Plus(Plus(Percentile(rows, r, "roe"), Percentile(rows, r, "bp")),
         Plus(Percentile(rows, r, "ep"), Percentile(rows, r, "niYoy")))

\* Names that pass on every count, by the mean of four percentiles.
BestOverall(rows) ==
    LET candidates == {r \in rows : r.quality = "good" /\ \A f \in {"roe", "bp", "ep", "niYoy"} : r[f] # None}
        scored == {[symbol |-> r.symbol, score |-> CompositeScore(rows, r)] : r \in candidates}
        better(p, r) == IF AtMost(p.score, r.score)
                        THEN AtMost(r.score, p.score) /\ Alphabet[p.symbol] < Alphabet[r.symbol] ELSE TRUE
    IN  {r \in scored : Cardinality({p \in scored \ {r} : better(p, r)}) < BestMax}

Screener(held, t) ==
    LET rows    == {Company(held, s, t) : s \in Listed}
        capped  == {r \in rows : r.cap # None}
        value   == {r \in rows : InTopThird(rows, r, "bp") /\ Positive(r.ep)}
        quality == {r \in rows : r.quality = "good"}
        hot     == {r \in rows : 10 * Cardinality({p \in rows : p.ret20 <= r.ret20}) >= 9 * Cardinality(rows)}
        flagged == [growth  |-> {r \in rows : InTopThird(rows, r, "revYoy") /\ Positive(r.revYoy) /\ Positive(r.niYoy)},
                    value   |-> value,
                    quality |-> quality,
                    hiddenGem |-> {r \in quality \cap value \cap capped :
                                      WithinMedian(capped, r, "cap") /\ WithinMedian(rows, r, "ret20")},
                    caution |-> {r \in hot : ~Positive(r.niYoy) \/ r.quality = "poor"},
                    bestOverall |-> BestOverall(rows)]
    IN  [category \in DOMAIN flagged |-> {r.symbol : r \in flagged[category]}]

-----------------------------------------------------------------------------
(* The watchlist: each statement to its own latest quarter.                *)

LatestOf(held, s, k, t) == Newest({q \in held[s][k] : IsPublic(q, t)})

Hygiene(held, s, t) ==
    LET ni  == TtmTo(held, s, Income, "ni", LatestOf(held, s, Income, t))
        ocf == TtmTo(held, s, CashFlow, "ocf", LatestOf(held, s, CashFlow, t))
    IN  ni # None /\ ocf # None /\ ni > 0 /\ ocf > 0

HasBook(s, t) == <<"books", s, t>> \in DOMAIN stored /\ stored[<<"books", s, t>>].whole

\* The flow counts in the top 30% of those with a whole book of the day.
FlowTop(s, t) ==
    LET booked == {r \in Watched : HasBook(r, t)}
    IN  /\ s \in booked
        /\ Cardinality({r \in booked : AtMost(Flow[r][t], Flow[s][t])}) > (7 * Cardinality(booked)) \div 10

Watchlist(held, t) ==
    [s \in Watched |-> [trend |-> s \in Trending, flow |-> FlowTop(s, t), quality |-> Hygiene(held, s, t)]]

-----------------------------------------------------------------------------
(* The studies.                                                            *)

WeeklyBars(s) ==
    LET item == <<"fundamentals", s, History>>
    IN  IF item \in DOMAIN stored THEN {w \in Traded[s] : w <= stored[item].at} ELSE {}

\* The names a study is about: its quarters are counted whenever they are public.
StudyUniverse(held) ==
    {s \in Symbols \ Splits : /\ Cardinality(QuartersOf(held, s)) >= MinQuarters
                              /\ Shares[s] # None
                              /\ Cardinality(WeeklyBars(s)) >= MinBars}

\* The first weekly bar of each month.
Rebalance(universe) ==
    LET weeks == UNION {WeeklyBars(s) : s \in universe}
    IN  {w \in weeks : ~\E v \in weeks : v < w /\ v \div WeeksOfMonth = w \div WeeksOfMonth}

\* The weeks a holding of h weeks is bought and sold: none when one is missing.
Forward(s, t, h) ==
    LET after == {w \in WeeklyBars(s) : w > t}
        nth(n) == CHOOSE w \in after : Cardinality({v \in after : v < w}) = n
    IN  IF Cardinality(after) > h THEN <<nth(0), nth(h)>> ELSE None

Observed(universe, held, t) ==
    {s \in universe : /\ t \in WeeklyBars(s) /\ Latest(held, s, t) >= 0
                      /\ \E h \in Horizons : Forward(s, t, h) # None}

\* A book of the week, read at its end date.
FlowAt(s, t) == IF <<"weekly", s, t>> \in DOMAIN stored THEN WeekFlow[s][t] ELSE None

\* An observation: the factors of a symbol at a date.  Size and the placebo, which
\* no statement enters, are left out.
Factors(held, s, t) ==
    LET L      == Latest(held, s, t)
        ni     == Ttm(held, s, t, Income, "ni")
        equity == Figure(held, s, Balance, "equity", L)
        mcap   == Close[s][t] * Shares[s]
    IN  [symbol |-> s,
         roe    |-> Over(ni, equity),
         roa    |-> Over(ni, Figure(held, s, Balance, "assets", L)),
         ep     |-> Over(ni, mcap),
         bp     |-> IF Over(0, equity) = None THEN None ELSE <<equity, mcap>>,
         cfp    |-> Over(Ttm(held, s, t, CashFlow, "ocf"), mcap),
         niYoy  |-> Yoy(held, s, t, "ni", 2),
         flow   |-> FlowAt(s, t)]

\* Those of a cross-section that have all of some factors, if there are enough.
Having(rows, factors) ==
    LET known == {r \in rows : \A f \in factors : r[f] # None}
    IN  IF Cardinality(known) < MinXs THEN {} ELSE known

\* Twice the rank by a factor, ties sharing the mean.
Rank(rows, r, f) ==
    LET below == Cardinality({p \in rows : ~AtMost(r[f], p[f])})
        same  == Cardinality({p \in rows : AtMost(r[f], p[f]) /\ AtMost(p[f], r[f])})
    IN  2 * below + same + 1

\* The composite of three ranks.
QualityValue(all) ==
    LET rows == Having(all, {"roe", "ep", "cfp"})
    IN  {[symbol |-> r.symbol, flow |-> r.flow,
          qv |-> <<Rank(rows, r, "roe") + Rank(rows, r, "ep") + Rank(rows, r, "cfp"), 1>>] : r \in rows}

\* Ranked again among the names that have both.
Combined(qualityValue) ==
    LET rows == Having(qualityValue, {"flow"})
    IN  {<<r.symbol, Rank(rows, r, "qv") + Rank(rows, r, "flow")>> : r \in rows}

\* The fifth, 0 to 4, of a name by a factor.
Quintile(rows, r, f) == Min({4, (5 * (Rank(rows, r, f) - 2)) \div (2 * Cardinality(rows))})

Study(universe, held, t) ==
    LET all    == {Factors(held, s, t) : s \in Observed(universe, held, t)}
        fifths(f, h) == LET rows == Having({r \in all : Forward(r.symbol, t, h) # None}, {f})
                        IN  {<<r.symbol, f, h, Quintile(rows, r, f)>> : r \in rows}
        qv     == QualityValue(all)
    IN  [factors   |-> all, qv |-> qv, combined |-> Combined(qv),
         quintiles |-> UNION {fifths(f, h) : f \in {"roe", "roa", "ep", "bp", "cfp", "niYoy", "flow"}, h \in Horizons}]

-----------------------------------------------------------------------------
(* Properties.                                                             *)

\* route.ts:20-22, phase0i.ts:17-19: the screener and the watchlist conclude nothing
\* from a statement that is not public today, nor a study, about the names it has,
\* from one not public at the date concluded for, whichever of a symbol's
\* statements were fetched again and wherever that stopped.
OnlyPublicStatements ==
    /\ Screener(Held, day) = Screener(Public(Held, day), day)
    /\ Watchlist(Held, day) = Watchlist(Public(Held, day), day)
    /\ LET universe == StudyUniverse(Held)
       IN  \A t \in Rebalance(universe) :
              Study(universe, Held, t) = Study(universe, Public(Held, t), t)

=============================================================================
