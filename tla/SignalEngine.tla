---------------------------- MODULE SignalEngine ----------------------------
(***************************************************************************)
(* The engine of packages/domain/src/engine (feature.ts, scoring.ts,       *)
(* signal.ts, and risk.ts through RiskEngine) and its four callers: the    *)
(* deep funnel, which decides today, and signalFromHistory.ts, diagnose.ts *)
(* and phase0e.ts, which decide a past day again from the archive.         *)
(*                                                                         *)
(* The state is the sessions of one symbol, each with its bar and its      *)
(* broker book, the days whose book is in broker_snapshot, and what the    *)
(* deep funnel decided on the last day.  Shares of a total are compared    *)
(* exactly, after multiplication; scores are kept in thousandths, rounded  *)
(* down.  The entry is the last close: the code's bAvg * (1 + pctAboveBAvg)*)
(* is the close again, up to the rounding of floating point.               *)
(***************************************************************************)
EXTENDS RiskEngine, FiniteSetsExt, SequencesExt

CONSTANTS
    Sessions,     \* the days that may come: [bar, book]
    MaxDays,      \* bound: the sessions
    Strategy,     \* the StrategyConfig, see StrategyOK
    MinHistory,   \* bars a replayed decision asks for, 20
    BaselineDays, \* the window of the baselines, 20
    FullBook,     \* brokers of a full book, FULL_BOOK_MIN
    Horizon,      \* phase0e's forward window
    StopPercent,  \* DEEP_FUNNEL_PRELIMINARY_STOP_PCT, 3
    MinPrice,     \* the deep funnel's floors
    MinTurnover

\* Shares and weights in percent, the chase limit in thousandths.
ASSUME StrategyOK ==
    /\ Strategy \in [meaningfulBuyerMinShare : 0..100, minMeaningfulBuyers : Nat \ {0},
                     top1ShareMax : 1..100, top3ShareMax : 1..100, hhiMax : 1..100,
                     persistenceMinDays : Nat, persistenceWindowDays : Nat \ {0},
                     chaseMax : Nat \ {0}, strongBuyMin : 0..100,
                     speculativeBuyMin : 0..100, watchlistMin : 0..100]
    /\ Strategy.watchlistMin <= Strategy.speculativeBuyMin
    /\ Strategy.speculativeBuyMin <= Strategy.strongBuyMin

\* What is traded has a price.
ASSUME SessionsArePriced ==
    \A session \in Sessions : session.bar.close \in Nat \ {0} /\ session.bar.low \in Nat

ASSUME SettingsOK == MinHistory \in Nat /\ Horizon \in Nat /\ StopPercent \in 0..100

VARIABLES days, archived, live
vars == <<days, archived, live>>

Clamp(thousandths) == IF thousandths < 0 THEN 0 ELSE LeastOf(thousandths, 1000)
Total(field, rows) == MapThenSumSet(LAMBDA i : rows[i][field], DOMAIN rows)
LastOf(s, n) == SubSeq(s, IF Len(s) > n THEN Len(s) - n + 1 ELSE 1, Len(s))

----------------------------------------------------------------------------
(* The features of a broker book, rows in the order of the feed:          *)
(* [broker, buy, sell, cost, proceeds], shares and then their values.      *)

Net(row) == row.buy - row.sell
Buyers(book) == SelectSeq(book, LAMBDA row : Net(row) > 0)
Sellers(book) == SelectSeq(book, LAMBDA row : Net(row) < 0)
NetBuy(book) == Total("buy", Buyers(book)) - Total("sell", Buyers(book))
NetSell(book) == Total("sell", Sellers(book)) - Total("buy", Sellers(book))

\* Gross value and gross shares of the net buyers; <<0, 0>> is no average.
BAvg(book) ==
    LET value  == Total("cost", Buyers(book))
        shares == Total("buy", Buyers(book))
    IN  IF shares <= 0 \/ value <= 0 THEN <<0, 0>> ELSE <<value, shares>>

MeaningfulBuyers(book, c) ==
    LET total == NetBuy(book)
    IN  Len(SelectSeq(Buyers(book), LAMBDA row : 100 * Net(row) >= c.meaningfulBuyerMinShare * total))

\* The most that n of the buyers hold of the net buying.
TopNet(book, n) ==
    Max({MapThenSumSet(LAMBDA i : Net(Buyers(book)[i]), few) :
           few \in kSubset(LeastOf(n, Len(Buyers(book))), DOMAIN Buyers(book))})

TopSell(book) == Max({0} \cup {-Net(Sellers(book)[i]) : i \in DOMAIN Sellers(book)})

\* The sum of the squares of the HHI.
Squares(book) == MapThenSumSet(LAMBDA i : Net(Buyers(book)[i]) * Net(Buyers(book)[i]), DOMAIN Buyers(book))

\* The first of the largest; 0 is no broker.
TopBuyer(book) ==
    LET b == Buyers(book)
    IN  IF b = <<>> THEN 0
        ELSE b[Min({i \in DOMAIN b : \A j \in DOMAIN b : Net(b[j]) <= Net(b[i])})].broker

TopSeller(book) ==
    LET s == Sellers(book)
    IN  IF s = <<>> THEN 0
        ELSE s[Min({i \in DOMAIN s : \A j \in DOMAIN s : Net(s[j]) >= Net(s[i])})].broker

Persistence(books, c) ==
    LET window == LastOf(books, c.persistenceWindowDays)
    IN  Cardinality({i \in DOMAIN window : MeaningfulBuyers(window[i], c) >= 1})

\* The top seller of the last day was a top buyer of the two days before.
BrokerFlip(books) ==
    LET seller == TopSeller(books[Len(books)])
    IN  /\ Len(books) >= 2
        /\ seller # 0
        /\ \E back \in 1..2 : back < Len(books) /\ TopBuyer(books[Len(books) - back]) = seller

----------------------------------------------------------------------------
(* The features of the bars.  A ratio is <<numerator, denominator>>.       *)

\* Twice the median, so that it is whole.
TwiceMedian(values) ==
    LET sorted == SortSeq(values, <)
        mid    == Len(sorted) \div 2
    IN  IF Len(sorted) % 2 = 0 THEN sorted[mid] + sorted[mid + 1] ELSE 2 * sorted[mid + 1]

\* Today against the median of the days before it, today left out.
Relative(values) ==
    LET before == LastOf(SubSeq(values, 1, Len(values) - 1), BaselineDays)
        pool   == SelectSeq(before, LAMBDA v : v > 0)
    IN  IF pool = <<>> THEN <<1, 1>> ELSE <<2 * values[Len(values)], TwiceMedian(pool)>>

VolumePace(bars) == Relative([i \in DOMAIN bars |-> bars[i].volume])
TurnoverRelative(bars) == Relative([i \in DOMAIN bars |-> bars[i].volume * bars[i].close])
AtLeastPercent(ratio, percent) == 100 * ratio[1] >= percent * ratio[2]

PriceResponse(bar, pace) ==
    LET position == IF bar.high > bar.low
                    THEN (1000 * (bar.close - bar.low)) \div (bar.high - bar.low) ELSE 500
    IN  (7 * position + 3 * Clamp((500 * pace[1]) \div pace[2])) \div 10

\* Volume or turnover spikes and the close is weak, or below B-Avg.
FailedAbsorption(bars, avg) ==
    LET close == bars[Len(bars)].close
        prev  == IF Len(bars) > 1 THEN bars[Len(bars) - 1].close ELSE close
    IN  /\ AtLeastPercent(VolumePace(bars), 150) \/ AtLeastPercent(TurnoverRelative(bars), 150)
        /\ close <= prev \/ close * avg[2] < avg[1]

Features(bars, books, stale, confluence, c) ==
    LET book == IF books = <<>> THEN <<>> ELSE books[Len(books)]
    IN  [bAvg        |-> BAvg(book),
         meaningful  |-> MeaningfulBuyers(book, c),
         netBuy      |-> NetBuy(book),
         top1        |-> TopNet(book, 1),
         top3        |-> TopNet(book, 3),
         squares     |-> Squares(book),
         topSell     |-> TopSell(book),
         netSell     |-> NetSell(book),
         persistence |-> Persistence(books, c),
         flip        |-> books # <<>> /\ BrokerFlip(books),
         absorbed    |-> FailedAbsorption(bars, BAvg(book)),
         pace        |-> VolumePace(bars),
         turnover    |-> TurnoverRelative(bars),
         response    |-> PriceResponse(bars[Len(bars)], VolumePace(bars)),
         price       |-> bars[Len(bars)].close,
         confluence  |-> confluence,
         stale       |-> stale]

----------------------------------------------------------------------------
(* The composite score.                                                    *)

Share(part, whole) == IF whole = 0 THEN 0 ELSE (1000 * part) \div whole

BrokerFlowQuality(f, c) ==
    (Clamp((1000 * f.meaningful) \div (2 * c.minMeaningfulBuyers))
      + Clamp(1000 - (100 * Share(f.top1, f.netBuy)) \div c.top1ShareMax)
      + Clamp(1000 - (100 * Share(f.squares, f.netBuy * f.netBuy)) \div c.hhiMax)
      + Clamp((1000 * f.persistence) \div c.persistenceWindowDays)
      + Clamp(1000 - Share(f.topSell, f.netSell))) \div 5

VolumeAnomaly(f) ==
    (Clamp((1000 * f.pace[1]) \div (3 * f.pace[2]))
      + Clamp((1000 * f.turnover[1]) \div (3 * f.turnover[2]))) \div 2

\* The distance above B-Avg, 1000 at the chase limit.
Premium(f, c) ==
    LET above == f.price * f.bAvg[2] - f.bAvg[1]
    IN  (100 * ((10000 * above) \div f.bAvg[1])) \div c.chaseMax

SmartMoneyMargin(f, c) ==
    IF f.bAvg = <<0, 0>> THEN 0
    ELSE IF Premium(f, c) < 0 THEN Clamp((3 * (1000 + Premium(f, c))) \div 10)
    ELSE IF Premium(f, c) <= 1000 THEN 500 + Premium(f, c) \div 2
    ELSE Clamp(2000 - Premium(f, c))

\* The weights 40, 25, 20, 10 and 5: a hundred times the score in thousandths.
CompositeScore(f, c) ==
    40 * BrokerFlowQuality(f, c) + 25 * VolumeAnomaly(f) + 20 * SmartMoneyMargin(f, c)
      + 10 * Clamp(f.response) + 5 * f.confluence

----------------------------------------------------------------------------
(* The hard gates and the category.                                        *)

WithinConcentration(f, c) ==
    /\ 100 * f.top1 <= c.top1ShareMax * f.netBuy
    /\ 100 * f.top3 <= c.top3ShareMax * f.netBuy
    /\ 100 * f.squares <= c.hhiMax * f.netBuy * f.netBuy
    /\ f.meaningful >= c.minMeaningfulBuyers
    /\ f.persistence >= c.persistenceMinDays

\* reward is <<net reward, net loss>>.  Every caller has one segment, no news
\* to review and no open risk, so three of the nine gates always pass.
GateFailed(f, reward, c) ==
    [FRESHNESS                   |-> f.stale,
     LIQUIDITY                   |-> ~AtLeastPercent(f.pace, 20) /\ ~AtLeastPercent(f.turnover, 20),
     CHASE_LIMIT                 |-> 1000 * (f.price * f.bAvg[2] - f.bAvg[1]) > c.chaseMax * f.bAvg[1],
     BROKER_FLIP_OR_DISTRIBUTION |-> f.flip \/ f.absorbed,
     NET_RR_MIN                  |-> reward[2] <= 0 \/ 100 * reward[1] < MinRewardToRisk * reward[2],
     CONCENTRATION               |-> ~WithinConcentration(f, c)]

FailedGates(f, reward, c) == {gate \in DOMAIN GateFailed(f, reward, c) : GateFailed(f, reward, c)[gate]}

NoTradeGates == {"FRESHNESS", "NET_RR_MIN"}

Band(score, c) ==
    IF score >= 1000 * c.strongBuyMin THEN "STRONG_BUY"
    ELSE IF score >= 1000 * c.speculativeBuyMin THEN "SPECULATIVE_BUY"
    ELSE IF score >= 1000 * c.watchlistMin THEN "WATCHLIST" ELSE "AVOID"

\* A gate beats the score.
Category(score, failed, c) ==
    IF failed = {} THEN Band(score, c)
    ELSE IF failed \cap NoTradeGates # {} THEN "NO_TRADE" ELSE "AVOID"

Buys == {"STRONG_BUY", "SPECULATIVE_BUY"}

CategoryOf(f, reward, c) == Category(CompositeScore(f, c), FailedGates(f, reward, c), c)

\* MUTANT: the final score keeps the reward assumed by the first pass.
MutScored(f, stop, c) ==
    LET assumed == <<MinRewardToRisk, 100>>
    IN  [category |-> CategoryOf(f, assumed, c), failed |-> FailedGates(f, assumed, c)]

\* The two passes: a plan priced on the smallest reward allowed, and the score
\* again on what that plan earns.
Scored(f, stop, c) ==
    LET assumed == <<MinRewardToRisk, 100>>
        first   == BuildRiskPlan(f.price, stop, CategoryOf(f, assumed, c))
        reward  == <<first.netReward, first.maxNetLoss>>
    IN  [category |-> CategoryOf(f, reward, c), failed |-> FailedGates(f, reward, c)]

\* The plan again, on the category of the second pass.
Decide(f, stop, c) ==
    LET scored == Scored(f, stop, c)
    IN  [category |-> scored.category, failed |-> scored.failed,
         score |-> CompositeScore(f, c), plan |-> BuildRiskPlan(f.price, stop, scored.category)]

FlatStop(price) == (100 - StopPercent) * price

----------------------------------------------------------------------------
(* The callers.                                                            *)

None == [category |-> "NONE"]
Bars(ds, k) == [i \in 1..k |-> ds[i].bar]

\* The deep funnel knows the book of one day, the last.
LiveDecision(stale, confluence) ==
    LET f == Features(Bars(days, Len(days)), <<days[Len(days)].book>>, stale, confluence, Strategy)
    IN  Decide(f, FlatStop(f.price), Strategy)

\* MUTANT: the books are the last ones archived, whatever the day decided on.
MutBookDays(ds, ar, k) == {i \in ar : ds[i].book # <<>>}

\* The days up to k whose book has rows in the archive.
BookDays(ds, ar, k) == {i \in ar : i <= k /\ ds[i].book # <<>>}

Ascending(ks) == CHOOSE s \in [1..Cardinality(ks) -> ks] : \A i, j \in DOMAIN s : i < j => s[i] < s[j]

\* The books of the last of them: the last need not be the book of day k.
ArchivedBooks(ds, ar, k) ==
    LET all == Ascending(BookDays(ds, ar, k))
    IN  [i \in 1..LeastOf(Cardinality(BookDays(ds, ar, k)), Strategy.persistenceWindowDays) |->
           ds[LastOf(all, Strategy.persistenceWindowDays)[i]].book]

Replayable(ds, ar, k) == k >= MinHistory /\ ArchivedBooks(ds, ar, k) # <<>>

ReplayFeatures(ds, ar, k, c) == Features(Bars(ds, k), ArchivedBooks(ds, ar, k), FALSE, 0, c)

\* signalFromHistory: the decision on day k, from what is archived.
Replay(ds, ar, k) ==
    IF ~Replayable(ds, ar, k) THEN None
    ELSE Decide(ReplayFeatures(ds, ar, k, Strategy), FlatStop(ds[k].bar.close), Strategy)

Trades(decision) ==
    /\ decision.category \in Buys
    /\ ~decision.plan.isNoTrade

\* diagnose.ts: gates as loose as a sparse feed allows.
Relaxed ==
    [Strategy EXCEPT !.minMeaningfulBuyers = 1, !.top1ShareMax = 95, !.top3ShareMax = 99,
                     !.hhiMax = 95, !.persistenceMinDays = 1]

\* What diagnose.ts counts, as configured and relaxed, the latter with a stop at
\* the lowest of five lows or six percent below.  It builds no plan on either.
Diagnosis(ds, ar, k) ==
    LET close == ds[k].bar.close
        low5  == Min({bar.low : bar \in Range(LastOf(Bars(ds, k), 5))})
        stop  == IF low5 < close THEN 100 * low5 ELSE 94 * close
        under(c, raw) == Scored(ReplayFeatures(ds, ar, k, c), raw, c)
    IN  IF ~Replayable(ds, ar, k) THEN None
        ELSE [configured |-> under(Strategy, FlatStop(close)), relaxed |-> under(Relaxed, stop)]

\* phase0e.ts: the components on a day whose books are all full, with the
\* return over the bars after it.
Observation(ds, ar, k) ==
    LET f    == ReplayFeatures(ds, ar, k, Strategy)
        book == ArchivedBooks(ds, ar, k)[Len(ArchivedBooks(ds, ar, k))]
    IN  IF /\ Replayable(ds, ar, k) /\ k > MinHistory
           /\ \A i \in DOMAIN ArchivedBooks(ds, ar, k) : Len(ArchivedBooks(ds, ar, k)[i]) >= FullBook
           /\ k + Horizon <= Len(ds)
        THEN [composite |-> CompositeScore(f, Strategy), brokerFlow |-> BrokerFlowQuality(f, Strategy),
              anomaly |-> VolumeAnomaly(f), margin |-> SmartMoneyMargin(f, Strategy),
              response |-> f.response,
              imbalance |-> <<Total("cost", book) - Total("proceeds", book), Total("cost", book)>>,
              forward |-> <<ds[k + Horizon].bar.close, ds[k].bar.close>>]
        ELSE None
----------------------------------------------------------------------------
(* The sessions.                                                           *)

Init == days = <<>> /\ archived = {} /\ live = None

Session(session) ==
    /\ Len(days) < MaxDays
    /\ days' = Append(days, session)
    /\ live' = None
    /\ UNCHANGED archived

\* Below a floor the candidate is dropped before anything is stored.
AboveFloors(bar) == bar.close >= MinPrice /\ bar.close * bar.volume >= MinTurnover

DeepFunnel(stale, confluence) ==
    /\ days # <<>> /\ live = None
    /\ AboveFloors(days[Len(days)].bar)
    /\ live' = LiveDecision(stale, confluence)
    /\ archived' = archived \cup {Len(days)}
    /\ UNCHANGED days

\* backfillBrokerSummary.ts archives the books of the days that lack them.
Backfill ==
    /\ archived # DOMAIN days
    /\ archived' = DOMAIN days
    /\ UNCHANGED <<days, live>>

Next ==
    \/ \E session \in Sessions : Session(session)
    \/ \E stale \in BOOLEAN, confluence \in {0, 1000} : DeepFunnel(stale, confluence)
    \/ Backfill

Spec == Init /\ [][Next]_vars

----------------------------------------------------------------------------
(* The properties.                                                         *)

(* Whoever decides, the deep funnel or the replay: a buy has passed every  *)
(* gate, and its plan has lots, valid prices and a reward that is worth its *)
(* risk.  The category is decided on the plan of the first pass and the    *)
(* plan is built again on the category.                                    *)
BuyIsTradable ==
    \A d \in {live, Replay(days, archived, Len(days))} :
        d.category \in Buys =>
            d.failed = {} /\ d.plan.lots > 0 /\ ~d.plan.isNoTrade /\ SoundPlan(d.plan)

(* What is decided again on a past day rests on the sessions and the books  *)
(* archived up to that day and on nothing after it; what is observed of it  *)
(* takes from later sessions its return over the horizon only.              *)
DecisionsLookBack ==
    \A k \in DOMAIN days :
        LET known == SubSeq(days, 1, k)
            seen  == archived \cap 1..k
            ahead == SubSeq(days, 1, k + Horizon)
        IN  /\ Replay(days, archived, k) = Replay(known, seen, k)
            /\ Diagnosis(days, archived, k) = Diagnosis(known, seen, k)
            /\ k + Horizon <= Len(days) =>
                  Observation(days, archived, k) = Observation(ahead, seen, k)

(* What the replay's comment says of it: it is never more optimistic than  *)
(* the live engine, so a day it buys on fresh data is a day the deep funnel *)
(* bought (signalFromHistory.ts:29-36).                                     *)
ReplayIsConservative ==
    (/\ live # None /\ "FRESHNESS" \notin live.failed
     /\ Trades(Replay(days, archived, Len(days)))) => Trades(live)

(* The deep funnel is asked for buyers that persist over several days and   *)
(* is given the book of one, so that it never decides to buy.               *)
LiveNeverBuys == live.category \notin Buys
=============================================================================
