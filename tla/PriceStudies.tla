---------------------------- MODULE PriceStudies ----------------------------
(***************************************************************************)
(* The studies of packages/backtest that read nothing but daily prices:    *)
(* the plans of baselines.ts, the technical screen of phase0d.ts, the      *)
(* observations of phase0f.ts, the entry conventions of phase0g.ts and the *)
(* signals and exits of phase0h.ts.                                        *)
(*                                                                         *)
(* The state is the daily_bar rows of one symbol in the order of their     *)
(* dates; a session appends a bar.  Every study is a function of the whole *)
(* array and of an index, as in the code, so each of them could look past  *)
(* its index.  A ratio is a pair <<numerator, denominator>>, a percentage  *)
(* is compared after multiplication, and the windows of the code are       *)
(* constants.                                                              *)
(***************************************************************************)
EXTENDS RiskEngine, FiniteSetsExt, SequencesExt

CONSTANTS
    BarShapes,   \* the bars a session may add
    MaxBars,     \* bound: the sessions
    AtrPeriod,   \* 14
    Day5,        \* the windows of 5, 10, 20, 50 and 60 bars
    Day10,
    Day20,
    Day50,
    Day60,
    FastRsi,     \* the periods of the two RSIs, 2 and 14
    SlowRsi,
    StudyHistory,  \* bars the screen and the conventions ask for, 30
    Horizons,    \* phase0f's forward horizons
    ShortHold,   \* the holds of 3, 5 and 10 bars
    MidHold,
    LongHold,
    StudyPrice,
    StudyTurnover

ASSUME WindowsOrdered ==
    /\ {AtrPeriod, Day5, FastRsi, SlowRsi, ShortHold} \subseteq Nat \ {0}
    /\ {Day10, Day20, Day50, Day60, MidHold, LongHold, MaxBars, StudyHistory} \subseteq Nat
    /\ Horizons \subseteq Nat /\ StudyPrice \in Int /\ StudyTurnover \in Int
    /\ Day5 <= Day10 /\ Day10 <= Day20 /\ Day20 <= Day50 /\ Day50 <= Day60
    /\ ShortHold <= MidHold /\ MidHold <= LongHold
    /\ Day20 <= StudyHistory + 1

ASSUME BarsArePriced ==
    \A b \in BarShapes :
        /\ {b.open, b.high, b.low, b.volume} \subseteq Nat /\ b.close \in Nat \ {0}
        /\ b.low <= b.open /\ b.open <= b.high

VARIABLE bars

----------------------------------------------------------------------------
(* Windows of the array that end at bar k.                                 *)

Window(k, n) == (k - n + 1)..k

HighestHigh(bs, ks) == Max({bs[j].high : j \in ks})
LowestLow(bs, ks)   == Min({bs[j].low : j \in ks})
SumOver(f) == MapThenSumSet(LAMBDA j : f[j], DOMAIN f)

SumVolume(bs, ks)   == SumOver([j \in ks |-> bs[j].volume])
SumClose(bs, ks)    == SumOver([j \in ks |-> bs[j].close])
SumTurnover(bs, ks) == SumOver([j \in ks |-> bs[j].close * bs[j].volume])

\* MUTANT: the window reaches one bar past the index.
MutSma(bs, k, n) == <<SumClose(bs, {j + 1 : j \in Window(k, n)} \cap DOMAIN bs), n>>

\* A moving average at k as a ratio, for the k that have one.
Sma(bs, k, n) == <<SumClose(bs, Window(k, n)), n>>

Distance(x, y) == Max({x - y, y - x})

Above(x, y) == x[1] * y[2] > y[1] * x[2]
Price(x) == <<x, 1>>

\* phase0f, phase0g and phase0h all ask for a price and a liquid window.
Tradable(bs, k) ==
    bs[k].close >= StudyPrice /\ SumTurnover(bs, Window(k, Day20)) >= Day20 * StudyTurnover

----------------------------------------------------------------------------
(* baselines.ts: a plan from the last bars, for each way to place a stop.  *)

StopMethods == {"low5", "low10", "pct3", "pct5", "atr1_5", "atr2"}

TrueRange(cur, prev) ==
    Max({cur.high - cur.low, Distance(cur.high, prev.close), Distance(cur.low, prev.close)})

Atr(history) ==
    LET n  == Len(history)
        ks == Max({2, n - AtrPeriod + 1})..n
    IN  <<SumOver([j \in ks |-> TrueRange(history[j], history[j - 1])]), Cardinality(ks)>>

\* In hundredths of a rupiah, rounded down where the code keeps a fraction:
\* the tick below is the same.
StopFor(method, history) ==
    LET n    == Len(history)
        last == history[n]
        below(a, halves) == 100 * last.close + (-50 * halves * a[1]) \div a[2]
    IN  CASE method = "low5"   -> 100 * LowestLow(history, Max({1, n - Day5 + 1})..n)
          [] method = "low10"  -> 100 * LowestLow(history, Max({1, n - Day10 + 1})..n)
          [] method = "pct3"   -> 97 * last.close
          [] method = "pct5"   -> 95 * last.close
          [] method = "atr1_5" -> below(Atr(history), 3)
          [] method = "atr2"   -> below(Atr(history), 4)

\* No plan without a stop: an ATR asks for two bars, a low may not be below.
HasStop(method, history) ==
    /\ history # <<>>
    /\ method \in {"atr1_5", "atr2"} => Len(history) >= 2
    /\ StopFor(method, history) < 100 * Last(history).close

PlanFromHistory(method, history) ==
    BuildRiskPlan(Last(history).close, StopFor(method, history), "STRONG_BUY")

PlansOf(history) ==
    {PlanFromHistory(m, history) : m \in {m \in StopMethods : HasStop(m, history)}}

----------------------------------------------------------------------------
(* phase0d.ts: the technical screen, and the bars a pick is traded on.     *)

\* The longer average falls back to the bars there are.
LongSma(bs, k) == Sma(bs, k, IF k >= Day50 THEN Day50 ELSE Min({Day50, k - 1}))

TechnicalPick(bs, k) ==
    /\ k >= StudyHistory /\ k > Day20
    /\ Tradable(bs, k)
    /\ Above(Price(bs[k].close), Sma(bs, k, Day20))
    /\ Above(Sma(bs, k, Day20), LongSma(bs, k))
    /\ 100 * bs[k].close >= 97 * HighestHigh(bs, Window(k, Day20))
    /\ bs[k].close > bs[k - Day20].close

NextSessions(bs, k) ==
    LET after == SubSeq(bs, k + 1, Min({Len(bs), k + LongHold + 1}))
    IN  IF after = <<>> THEN [barOn |-> "none", simBars |-> <<>>]
        ELSE [barOn |-> Head(after), simBars |-> Tail(after)]

----------------------------------------------------------------------------
(* Indicators of phase0f.ts and phase0h.ts.                                *)

\* Wilder's average of what comes at the bars from 2 to k, over n of them, times
\* n^(bars since the first n).
WilderAverage(x, n, k) ==
    LET avg[j \in (n + 1)..k] ==
            IF j = n + 1 THEN SumOver([i \in 2..j |-> x[i]])
            ELSE avg[j - 1] * (n - 1) + n ^ (j - n - 1) * x[j]
    IN  avg[k]

\* Gains and losses, averaged.
WilderRsi(bs, n, k) ==
    [g |-> WilderAverage([j \in 2..k |-> Max({0, bs[j].close - bs[j - 1].close})], n, k),
     l |-> WilderAverage([j \in 2..k |-> Max({0, bs[j - 1].close - bs[j].close})], n, k)]

\* RSI below a level: null and 100 (no loss at all) are not.
RsiBelow(bs, n, k, level) ==
    k > n /\ LET a == WilderRsi(bs, n, k) IN 100 * a.g < level * (a.g + a.l)

\* The last highest high and the last lowest low of the swing window.
SwingHigh(bs, k) ==
    LET ks == Window(k, Day60) IN Max({j \in ks : bs[j].high = HighestHigh(bs, ks)})
SwingLow(bs, k) ==
    LET ks == Window(k, Day60) IN Max({j \in ks : bs[j].low = LowestLow(bs, ks)})

\* Only an up-swing of a tenth counts.
UpSwing(bs, k) ==
    /\ k >= Day60
    /\ SwingLow(bs, k) < SwingHigh(bs, k)
    /\ bs[SwingLow(bs, k)].low > 0
    /\ 10 * (bs[SwingHigh(bs, k)].high - bs[SwingLow(bs, k)].low) >= bs[SwingLow(bs, k)].low

FibAt(bs, k) ==
    IF UpSwing(bs, k)
    THEN <<bs[SwingHigh(bs, k)].high - bs[k].close,
           bs[SwingHigh(bs, k)].high - bs[SwingLow(bs, k)].low>>
    ELSE <<>>

\* Levels and tolerances in ten-thousandths.
Fib == {3820, 5000, 6180}
Plc == {3000, 4400, 5600, 7200}

FibHit(bs, k, levels, tol) ==
    /\ UpSwing(bs, k)
    /\ bs[k].close > bs[k - 1].close
    /\ LET r == FibAt(bs, k)
       IN  \E level \in levels : Distance(10000 * r[1], level * r[2]) <= tol * r[2]

----------------------------------------------------------------------------
(* phase0f.ts: what is observed at a bar, and the forward returns that the *)
(* array already has.                                                      *)

ObservationAt(bs, k) ==
    [rsi2      |-> IF k > FastRsi THEN <<WilderRsi(bs, FastRsi, k)>> ELSE <<>>,
     rsi14     |-> IF k > SlowRsi THEN <<WilderRsi(bs, SlowRsi, k)>> ELSE <<>>,
     retrace   |-> FibAt(bs, k),
     fibHit    |-> FibHit(bs, k, Fib, 300),
     plcHit    |-> FibHit(bs, k, Plc, 225),
     ret1      |-> <<bs[k].close, bs[k - 1].close>>,
     ret5      |-> <<bs[k].close, bs[k - Day5].close>>,
     ret20     |-> <<bs[k].close, bs[k - Day20].close>>,
     distHigh20 |-> <<bs[k].close, HighestHigh(bs, Window(k, Day20))>>,
     distHigh60 |-> IF k >= Day60
                    THEN <<bs[k].close, HighestHigh(bs, Window(k, Day60))>> ELSE <<>>,
     volPace   |-> <<bs[k].volume * Day20, SumVolume(bs, Window(k - 1, Day20))>>]

Forward(bs, k) ==
    [h \in {h \in Horizons : k + h <= Len(bs)} |-> <<bs[k + h].close, bs[k].close>>]

\* A bar is observed once there is a return to compare it with.
Observed(bs, k) ==
    k > Day20 /\ k < Len(bs) /\ Tradable(bs, k) /\ DOMAIN Forward(bs, k) # {}

\* Where a stable sort puts the i-th value.
Place(xs, i) == Cardinality({j \in DOMAIN xs : xs[j] < xs[i] \/ (xs[j] = xs[i] /\ j <= i)})

\* MUTANT: equals are ranked in the order they come.
MutRanks(xs) == [i \in DOMAIN xs |-> 2 * Place(xs, i)]

\* Average ranks, doubled: the values of a run of equals share the middle.
Ranks(xs) ==
    LET run(v) == {Place(xs, j) : j \in {j \in DOMAIN xs : xs[j] = v}}
    IN  [i \in DOMAIN xs |-> Min(run(xs[i])) + Max(run(xs[i]))]

Quintile(rank, n) == LeastOf(4, (5 * (rank - 2)) \div (2 * n))

----------------------------------------------------------------------------
(* phase0g.ts: the same plan under three conventions of entry.             *)

Conventions == {"asIs", "honest", "nextOpen"}

Candidate(bs, k) == k > StudyHistory /\ k <= Len(bs) - LongHold - 2 /\ Tradable(bs, k)

\* The bars a candidate is simulated on: <<>> when the walk is cut short.
Trade(bs, k, conv, plan) ==
    LET entry == IF conv = "asIs" THEN k ELSE k + 1
        open  == bs[entry].open
    IN  IF entry + LongHold > Len(bs) THEN <<>>
        ELSE <<[entryBar |-> bs[entry],
                sim |-> SubSeq(bs, entry + 1, entry + LongHold),
                entryTrigger |-> IF conv = "nextOpen" THEN open ELSE plan.entry,
                maxBuyPrice  |-> IF conv = "nextOpen" THEN Max({plan.maxBuyPrice, open})
                                 ELSE plan.maxBuyPrice]>>

----------------------------------------------------------------------------
(* phase0h.ts: signals at the close of bar k, exits of a purchase at the   *)
(* next open.                                                              *)

\* Stops and targets in percent of the entry; 0 for none.
Exits ==
    LET time(h) == [hold |-> h, sl |-> 0, tp |-> 0]
        pair(s, t) == [hold |-> LongHold, sl |-> s, tp |-> t]
    IN  {time(ShortHold), time(MidHold), time(LongHold), pair(5, 10), pair(8, 8),
         pair(3, 6), pair(10, 5), pair(5, 0), pair(0, 5)}

Pace(bs, k) ==
    LET total == SumVolume(bs, Window(k - 1, Day20))
    IN  <<bs[k].volume * Day20, IF total = 0 THEN Day20 ELSE total>>

PaceAtLeast(bs, k, tenths) == 10 * Pace(bs, k)[1] >= tenths * Pace(bs, k)[2]

\* A change since the close of n bars before, against a percentage of it.
Falls(bs, k, n, pct) == 100 * bs[k].close <= (100 - pct) * bs[k - n].close
Rises(bs, k, n, pct) == 100 * bs[k].close >= (100 + pct) * bs[k - n].close

Signals == {"rsi2", "rsi2Sma50", "rsi14", "ret1", "ret5", "pullback", "breakout20",
            "volshockUp", "volshockDown", "fibBounce", "fibPlacebo", "tech", "gapReversal"}

Fires(signal, bs, k) ==
    LET close == bs[k].close
        high20 == HighestHigh(bs, Window(k, Day20))
        above50 == Above(Price(close), Sma(bs, k, Day50))
    IN  CASE signal = "rsi2"       -> RsiBelow(bs, FastRsi, k, 10)
          [] signal = "rsi2Sma50"  -> RsiBelow(bs, FastRsi, k, 10) /\ above50
          [] signal = "rsi14"      -> RsiBelow(bs, SlowRsi, k, 30)
          [] signal = "ret1"       -> Falls(bs, k, 1, 4)
          [] signal = "ret5"       -> Falls(bs, k, Day5, 10)
          [] signal = "pullback"   -> above50 /\ 10 * close <= 9 * high20
          [] signal = "breakout20" ->
                /\ close > HighestHigh(bs, Window(k - 1, Day20))
                /\ PaceAtLeast(bs, k, 15)
          [] signal = "volshockUp"   -> PaceAtLeast(bs, k, 30) /\ Rises(bs, k, 1, 3)
          [] signal = "volshockDown" -> PaceAtLeast(bs, k, 30) /\ Falls(bs, k, 1, 3)
          [] signal = "fibBounce"  -> FibHit(bs, k, Fib, 300)
          [] signal = "fibPlacebo" -> FibHit(bs, k, Plc, 225)
          [] signal = "tech"       ->
                /\ Above(Price(close), Sma(bs, k, Day20))
                /\ Above(Sma(bs, k, Day20), Sma(bs, k, Day50))
                /\ 100 * close >= 97 * high20
                /\ close > bs[k - Day20].close
          [] signal = "gapReversal" ->
                100 * bs[k].open <= 97 * bs[k - 1].close /\ close > bs[k].open

\* MUTANT: a bar that opens beyond the stop is sold at the stop.
MutSimulate(bs, k, exit) ==
    LET entry  == bs[k + 1].open
        stop   == entry * (100 - exit.sl)
        target == entry * (100 + exit.tp)
        walk[j \in (k + 1)..(k + exit.hold + 1)] ==
            IF j > k + exit.hold THEN 100 * bs[k + exit.hold].close
            ELSE IF exit.sl # 0 /\ 100 * bs[j].low <= stop THEN stop
            ELSE IF exit.tp # 0 /\ 100 * bs[j].high >= target
                 THEN IF j > k + 1 THEN Max({target, 100 * bs[j].open}) ELSE target
            ELSE walk[j + 1]
    IN  walk[k + 1]

\* The exit price, in hundredths: bought at the open of bar k + 1, held to
\* the close of bar k + hold unless the stop or the target is met before.
\* A bar that opens beyond either is left at its open, and the stop goes
\* before the target.
Simulate(bs, k, exit) ==
    LET entry  == bs[k + 1].open
        stop   == entry * (100 - exit.sl)
        target == entry * (100 + exit.tp)
        stopAt(price)   == exit.sl # 0 /\ 100 * price <= stop
        targetAt(price) == exit.tp # 0 /\ 100 * price >= target
        walk[j \in (k + 1)..(k + exit.hold + 1)] ==
            IF j > k + exit.hold THEN 100 * bs[k + exit.hold].close
            ELSE IF j > k + 1 /\ (stopAt(bs[j].open) \/ targetAt(bs[j].open))
                 THEN 100 * bs[j].open
            ELSE IF stopAt(bs[j].low) THEN stop
            ELSE IF targetAt(bs[j].high) THEN target
            ELSE walk[j + 1]
    IN  walk[k + 1]

\* A bar is an event once the longest hold after it is there.
Event(bs, k) == k > Day60 /\ k <= Len(bs) - LongHold /\ Tradable(bs, k)

EventRow(bs, k) ==
    [flags |-> {s \in Signals : Fires(s, bs, k)},
     rets  |-> [e \in Exits |-> Simulate(bs, k, e)]]

----------------------------------------------------------------------------

StudiesInit == bars = <<>>

\* One more session in daily_bar.
AddBar(b) == Len(bars) < MaxBars /\ bars' = Append(bars, b)

StudiesNext == \E b \in BarShapes : AddBar(b)

StudiesSpec == StudiesInit /\ [][StudiesNext]_bars

----------------------------------------------------------------------------
(* Properties.                                                             *)

\* What a study decided or measured at a bar.
Decided(bs, k) ==
    [pick  |-> TechnicalPick(bs, k),
     fires |-> IF k > Day60 THEN {s \in Signals : Fires(s, bs, k)} ELSE {}]

Measured(bs, k) ==
    [seen    |-> IF Observed(bs, k) THEN <<ObservationAt(bs, k)>> ELSE <<>>,
     sold    |-> IF Event(bs, k) THEN EventRow(bs, k).rets ELSE <<>>,
     trades  |-> IF Candidate(bs, k)
                 THEN [c \in Conventions |-> Trade(bs, k, c, EmptyPlan(bs[k].close, 0))]
                 ELSE <<>>]

(* No study looks ahead: a session that is added to the array changes no   *)
(* pick or signal of an earlier bar, no forward return, exit or trade that *)
(* was already complete, and no observation that was already made.         *)
(* Indices into one array, windows that end at i or at i - 1 and entries   *)
(* one or two bars on are where it would break.                            *)
DecisionsStand ==
    [][\A k \in DOMAIN bars :
          /\ Decided(bars', k) = Decided(bars, k)
          /\ Observed(bars, k) => Measured(bars', k).seen = Measured(bars, k).seen
          /\ \A h \in DOMAIN Forward(bars, k) : Forward(bars', k)[h] = Forward(bars, k)[h]
          /\ Event(bars, k) => Measured(bars', k).sold = Measured(bars, k).sold
          /\ Candidate(bars, k) => Measured(bars', k).trades = Measured(bars, k).trades]_bars

(* An exit of phase0h.ts is never flattered: it is the worst of all the    *)
(* ways a price can run through the bars, from the open to the low and the *)
(* high in either order and on to the close, leaving at the first price    *)
(* that meets the stop or the target.                                      *)
ExitIsPessimistic ==
    \A k \in DOMAIN bars : Event(bars, k) => \A e \in Exits :
        LET entry == bars[k + 1].open
            stop(p)   == e.sl # 0 /\ 100 * p <= entry * (100 - e.sl)
            target(p) == e.tp # 0 /\ 100 * p >= entry * (100 + e.tp)
            met(p)    == stop(p) \/ target(p)
            \* the price got on the way from p to q, or none
            leg(p, q) == IF met(p) THEN {100 * p}
                         ELSE IF stop(q) THEN {entry * (100 - e.sl)}
                         ELSE IF target(q) THEN {entry * (100 + e.tp)} ELSE {}
            path(b, first, second) ==
                IF leg(b.open, first) # {} THEN leg(b.open, first) ELSE leg(first, second)
            ways(b)   == {path(b, b.low, b.high), path(b, b.high, b.low)}
            sold[j \in (k + 1)..(k + e.hold + 1)] ==
                IF j > k + e.hold THEN {100 * bars[k + e.hold].close}
                ELSE UNION {IF w = {} THEN sold[j + 1] ELSE w : w \in ways(bars[j])}
        IN  Simulate(bars, k, e) = Min(sold[k + 1])

(* Every plan the studies trade is sound, whatever the bars: see SoundPlan *)
(* in RiskEngine.                                                          *)
PlanIsSound == \A p \in PlansOf(bars) : SoundPlan(p)

(* The ranks of a cross-section are fair: a value's rank only depends on   *)
(* how many are below it and how many equal it, so equal values land in    *)
(* the same fifth, a larger value in no lower one, and without ties each   *)
(* fifth gets its share to within one.                                     *)
RanksAreFair ==
    LET xs == [k \in DOMAIN bars |-> bars[k].close]
        n  == Len(xs)
        rk == Ranks(xs)
        fifth(i) == Quintile(rk[i], n)
        below(i) == Cardinality({j \in DOMAIN xs : xs[j] < xs[i]})
        equal(i) == Cardinality({j \in DOMAIN xs : xs[j] = xs[i]})
        members(q) == Cardinality({i \in DOMAIN xs : fifth(i) = q})
    IN  \A i \in DOMAIN xs :
          /\ rk[i] = 2 * below(i) + equal(i) + 1
          /\ fifth(i) \in 0..4
          /\ \A j \in DOMAIN xs : xs[j] <= xs[i] => fifth(j) <= fifth(i)
          /\ (\A j \in DOMAIN xs : equal(j) = 1) =>
                \A q, r \in 0..4 : members(q) <= members(r) + 1
=============================================================================
