---------------------------- MODULE EngineProofs ----------------------------
(***************************************************************************)
(* Proofs about the engine of packages/domain and the studies that use it, *)
(* for every configuration and all prices.                                 *)
(*                                                                         *)
(* RiskEngine: what buildRiskPlan promises about money, lots and prices,   *)
(* for every entry, stop and category.  SignalEngine: why the deep funnel  *)
(* never buys; that whatever buys, live or in a replay, has passed every   *)
(* gate with a sound plan; and that no decision on a past day depends on a *)
(* later one.  PriceStudies: that the plans of the studies are sound, that *)
(* an exit is the worst a price could have done on the way, that ranks and *)
(* fifths are fair, and that a session added to the array changes nothing  *)
(* that was decided or measured.                                           *)
(***************************************************************************)
EXTENDS SignalEngine, PriceStudies, FiniteSetTheorems, TLAPS

USE DEF LeastOf

(* A floored division never gives back more than it was given.             *)
LEMMA FloorTimes ==
    ASSUME NEW a \in Int, NEW b \in Nat \ {0}
    PROVE  a \div b \in Int /\ (a \div b) * b <= a
OBVIOUS

(* A product of naturals grows with either factor.                         *)
LEMMA TimesGrows ==
    ASSUME NEW x \in Int, NEW y \in Int, NEW k \in Nat, x <= y
    PROVE  x * k <= y * k
OBVIOUS

LEMMA NatTimes ==
    ASSUME NEW x \in Nat, NEW y \in Nat
    PROVE  x * y \in Nat
OBVIOUS

(* A part of a hundred of a number of lots is at most that number.         *)
LEMMA PartOfLots ==
    ASSUME NEW n \in Nat, NEW pct \in 0..100
    PROVE  /\ (n * pct) \div 100 \in Nat
           /\ (n * pct) \div 100 <= n
<1>1. n * pct \in Nat /\ n * pct <= n * 100
  OBVIOUS
<1> DEFINE m == n * pct
<1>2. m \in Nat /\ m <= n * 100
  BY <1>1
<1> HIDE DEF m
<1>3. m \div 100 \in Nat /\ m \div 100 <= n
  BY <1>2
<1> QED
  BY <1>3 DEF m

(* The lots of a plan stay below both quotients.                           *)
LEMMA LotsBelowBoth ==
    ASSUME NEW entry \in Nat \ {0}, NEW sl \in Int, NEW category,
           EffectiveRisk(entry, sl) \in Nat \ {0}
    PROVE  /\ SizedLots(entry, sl, category) \in Nat
           /\ SizedLots(entry, sl, category) <= (RiskBudget * FeeScale) \div EffectiveRisk(entry, sl)
           /\ SizedLots(entry, sl, category)
                <= (MaxDeployed * FeeScale) \div (entry * (FeeScale + BuyFee))
<1> DEFINE r == (RiskBudget * FeeScale) \div EffectiveRisk(entry, sl)
           c == (MaxDeployed * FeeScale) \div (entry * (FeeScale + BuyFee))
<1>1. RiskBudget * FeeScale \in Nat /\ MaxDeployed * FeeScale \in Nat
  BY RiskConfig, NatTimes DEF RiskConfig
<1>2. entry * (FeeScale + BuyFee) \in Nat \ {0}
  BY RiskConfig DEF RiskConfig
<1>3. r \in Nat
  BY <1>1
<1>4. c \in Nat
  BY <1>1, <1>2
<1>5. SizePercent(category) \in 0..100
  BY RiskConfig DEF RiskConfig, SizePercent
<1> DEFINE n == LeastOf(r, c)
<1>6. n \in Nat /\ n <= r /\ n <= c
  BY <1>3, <1>4
<1>7. SizedLots(entry, sl, category) = (n * SizePercent(category)) \div 100
  BY DEF SizedLots
<1> HIDE DEF n, r, c
<1>8. /\ (n * SizePercent(category)) \div 100 \in Nat
      /\ (n * SizePercent(category)) \div 100 <= n
  BY <1>5, <1>6, PartOfLots
<1>9. /\ SizedLots(entry, sl, category) \in Nat
      /\ SizedLots(entry, sl, category) <= r
      /\ SizedLots(entry, sl, category) <= c
  BY <1>3, <1>4, <1>6, <1>7, <1>8
<1> QED
  BY <1>9 DEF r, c

(* Being stopped out costs no more than the risk budget: what the sizing   *)
(* estimates for a share is at least what the plan counts, because the     *)
(* fee of the sale is taken at the entry, which is above the stop.         *)
THEOREM LossWithinBudget ==
    ASSUME NEW entry \in Nat \ {0}, NEW sl \in Int, NEW category, sl < entry
    PROVE  LET lots == SizedLots(entry, sl, category)
           IN  lots \in Nat /\ MaxNetLoss(entry, sl, lots) <= RiskBudget * FeeScale
<1> DEFINE lots == SizedLots(entry, sl, category)
           risk == EffectiveRisk(entry, sl)
           cost == FeeScale * (entry - sl + Slippage) + entry * BuyFee + sl * SellFee
           budget == RiskBudget * FeeScale
<1>1. sl * SellFee <= entry * SellFee
  BY RiskConfig, TimesGrows DEF RiskConfig
<1>2. FeeScale * (entry - sl + Slippage) \in Nat \ {0}
  <2>1. entry - sl + Slippage \in Nat \ {0}
    BY RiskConfig DEF RiskConfig
  <2> QED
    BY <2>1, RiskConfig DEF RiskConfig
<1>3. entry * (BuyFee + SellFee) \in Nat /\ entry * (BuyFee + SellFee) = entry * BuyFee + entry * SellFee
  BY RiskConfig DEF RiskConfig
<1>4. entry * BuyFee \in Nat /\ sl * SellFee \in Int /\ entry * SellFee \in Nat
  BY RiskConfig DEF RiskConfig
<1>5. risk \in Nat \ {0} /\ cost \in Int /\ cost <= risk
  <2> DEFINE a == FeeScale * (entry - sl + Slippage)  b == entry * (BuyFee + SellFee)
             p == entry * BuyFee  q == entry * SellFee  s == sl * SellFee
  <2>1. risk = a + b /\ cost = a + p + s
    BY DEF EffectiveRisk
  <2>2. a \in Nat \ {0} /\ b \in Nat /\ p \in Nat /\ q \in Nat /\ s \in Int /\ s <= q /\ b = p + q
    BY <1>1, <1>2, <1>3, <1>4
  <2> HIDE DEF a, b, p, q, s, risk, cost
  <2> QED
    BY <2>1, <2>2
<1>6. budget \in Nat
  BY RiskConfig, NatTimes DEF RiskConfig
<1>7. lots \in Nat /\ lots <= budget \div risk
  BY <1>5, LotsBelowBoth
<1>8. MaxNetLoss(entry, sl, lots) = lots * cost
  BY DEF MaxNetLoss
<1> HIDE DEF lots, risk, cost, budget
<1>9. lots * cost <= lots * risk
  <2>1. cost * lots <= risk * lots
    BY <1>5, <1>7, TimesGrows
  <2> QED
    BY <2>1, <1>5, <1>7
<1>10. lots * risk <= (budget \div risk) * risk
  BY <1>5, <1>6, <1>7, FloorTimes, TimesGrows
<1>11. (budget \div risk) * risk <= budget
  BY <1>5, <1>6, FloorTimes
<1>12. lots * cost <= budget
  <2>1. lots * cost \in Int /\ lots * risk \in Int /\ (budget \div risk) * risk \in Int
    BY <1>5, <1>6, <1>7, FloorTimes
  <2> QED
    BY <2>1, <1>6, <1>9, <1>10, <1>11
<1>13. MaxNetLoss(entry, sl, lots) <= budget
  BY <1>8, <1>12
<1> QED
  BY <1>7, <1>13 DEF lots, budget

(* Buying the lots of a plan at its entry, fee included, deploys no more   *)
(* than the capital allowed.                                               *)
THEOREM CostWithinCapital ==
    ASSUME NEW entry \in Nat \ {0}, NEW sl \in Int, NEW category, sl < entry
    PROVE  SizedLots(entry, sl, category) * (entry * (FeeScale + BuyFee)) <= MaxDeployed * FeeScale
<1> DEFINE lots == SizedLots(entry, sl, category)
           share == entry * (FeeScale + BuyFee)
           capital == MaxDeployed * FeeScale
<1>1. share \in Nat \ {0} /\ capital \in Nat
  BY RiskConfig, NatTimes DEF RiskConfig
<1>2. EffectiveRisk(entry, sl) \in Nat \ {0}
  <2>1. entry - sl + Slippage \in Nat \ {0} /\ entry * (BuyFee + SellFee) \in Nat
    BY RiskConfig DEF RiskConfig
  <2>2. FeeScale * (entry - sl + Slippage) \in Nat \ {0}
    BY <2>1, RiskConfig DEF RiskConfig
  <2> QED
    BY <2>1, <2>2 DEF EffectiveRisk
<1>3. lots \in Nat /\ lots <= capital \div share
  BY <1>2, LotsBelowBoth
<1> HIDE DEF lots, share, capital
<1>4. lots * share <= (capital \div share) * share
  BY <1>1, <1>3, FloorTimes, TimesGrows
<1>5. (capital \div share) * share <= capital
  BY <1>1, FloorTimes
<1>6. lots * share <= capital
  <2>1. lots * share \in Int /\ (capital \div share) * share \in Int
    BY <1>1, <1>3, FloorTimes
  <2> QED
    BY <2>1, <1>1, <1>4, <1>5
<1> QED
  BY <1>6 DEF lots, share, capital

(* However the first share is rounded, it is a part of the lots: what is   *)
(* left to the second target is not negative.                              *)
LEMMA FirstTargetIsAPart ==
    ASSUME NEW lots \in Nat
    PROVE  Tp1Lots(lots) \in 0..lots
<1>1. 2 * lots * Tp1Percent + 100 \in Nat
  <2>1. lots * Tp1Percent \in Nat
    BY RiskConfig, NatTimes DEF RiskConfig
  <2> QED
    BY <2>1, RiskConfig DEF RiskConfig
<1> DEFINE m == 2 * lots * Tp1Percent + 100
<1>2. m \in Nat
  BY <1>1
<1> HIDE DEF m
<1>3. m \div 200 \in Nat
  BY <1>2
<1>4. LeastOf(lots, m \div 200) \in 0..lots
  BY <1>3
<1> QED
  BY <1>4 DEF m, Tp1Lots

----------------------------------------------------------------------------
(* The tick table.                                                         *)

LEMMA TickCases ==
    ASSUME NEW p \in Int
    PROVE  \/ p <= 200 /\ TickSizeFor(p) = 1
           \/ 200 < p /\ p <= 500 /\ TickSizeFor(p) = 2
           \/ 500 < p /\ p <= 2000 /\ TickSizeFor(p) = 5
           \/ 2000 < p /\ p <= 5000 /\ TickSizeFor(p) = 10
           \/ 5000 < p /\ TickSizeFor(p) = 25
BY DEF TickSizeFor

(* Rounding up to a tick finds the first valid price from there on. *)
LEMMA RoundedUp ==
    ASSUME NEW p \in Int
    PROVE  /\ RoundUpToTick(p) \in Int /\ p <= RoundUpToTick(p)
           /\ ValidPrice(RoundUpToTick(p))
           /\ \A v \in Int : p <= v /\ ValidPrice(v) => RoundUpToTick(p) <= v
<1> DEFINE r == RoundUpToTick(p)
<1>1. r = -((-p) \div TickSizeFor(p)) * TickSizeFor(p)
  BY DEF RoundUpToTick
<1> HIDE DEF r
<1>2. r \in Int /\ p <= r /\ r < p + TickSizeFor(p) /\ r % TickSizeFor(p) = 0
  BY <1>1, TickCases
<1>3. r % TickSizeFor(r) = 0
  BY <1>2, TickCases
<1>4. ASSUME NEW v \in Int, p <= v, v % TickSizeFor(v) = 0 PROVE r <= v
  <2>1. CASE TickSizeFor(v) = TickSizeFor(p)
    <3>1. \E t \in {1, 2, 5, 10, 25} : TickSizeFor(p) = t
      BY TickCases
    <3> QED BY <1>2, <1>4, <2>1, <3>1
  <2>2. CASE TickSizeFor(v) # TickSizeFor(p)
    BY <1>2, <1>4, <2>2, TickCases
  <2> QED BY <2>1, <2>2
<1> QED
  BY <1>2, <1>3, <1>4 DEF ValidPrice, r

(* Rounding down to a tick finds the last valid price up to there. *)
LEMMA RoundedDown ==
    ASSUME NEW h \in Int
    PROVE  /\ RoundDownToTick(h) \in Int /\ 100 * RoundDownToTick(h) <= h
           /\ ValidPrice(RoundDownToTick(h))
           /\ \A v \in Int : 100 * v <= h /\ ValidPrice(v) => v <= RoundDownToTick(h)
<1> DEFINE c == -((-h) \div 100)
           r == RoundDownToTick(h)
<1>1. c \in Int /\ h <= 100 * c /\ 100 * c < h + 100
  OBVIOUS
<1>2. r = (h \div (100 * TickSizeFor(c))) * TickSizeFor(c)
  BY DEF RoundDownToTick
<1> HIDE DEF c, r
<1>3. PICK t \in {1, 2, 5, 10, 25} : TickSizeFor(c) = t
  BY <1>1, TickCases
<1>4. r \in Int /\ 100 * r <= h /\ h < 100 * r + 100 * t /\ r % t = 0
  BY <1>2, <1>3
<1>5. r % TickSizeFor(r) = 0
  BY <1>1, <1>3, <1>4, TickCases
<1>6. ASSUME NEW v \in Int, 100 * v <= h, v % TickSizeFor(v) = 0 PROVE v <= r
  <2>1. CASE TickSizeFor(v) = t
    BY <1>3, <1>4, <1>6, <2>1
  <2>2. CASE TickSizeFor(v) # t
    BY <1>1, <1>3, <1>4, <1>6, <2>2, TickCases
  <2> QED BY <2>1, <2>2
<1> QED
  BY <1>4, <1>5, <1>6 DEF ValidPrice, r

(* A set of naturals has a least one: induction for the lemmas below.      *)
LEMMA LeastNatural ==
  ASSUME NEW S \in SUBSET Nat, S # {}
  PROVE  \E x \in S : \A y \in S : x <= y
<1>1. IsWellFoundedOn(OpToRel(<, Nat), Nat)
  BY NatLessThanWellFounded
<1>2. PICK x \in S : \A y \in S : ~ (<<y, x>> \in OpToRel(<, Nat))
  BY <1>1, WFMin
<1>3. ASSUME NEW y \in S PROVE x <= y
  <2>1. <<y, x>> \notin OpToRel(<, Nat)
    BY <1>2
  <2>2. ~(y < x)
    BY <2>1 DEF OpToRel
  <2> QED BY <2>2
<1> QED BY <1>3

(* The next price that the stop is walked down to, and the walk as the     *)
(* equation that ResolveStopLoss takes a solution of.                      *)
Below(sl) == RoundDownToTick(100 * (sl - TickSizeFor(sl)))

Widens(widen, entry) ==
    widen = [sl \in Int |-> IF entry - sl >= MinStopTicks * TickSizeFor(entry) THEN sl
                            ELSE widen[RoundDownToTick(100 * (sl - TickSizeFor(sl)))]]

LEMMA BelowIsNext ==
    ASSUME NEW sl \in Int
    PROVE  /\ Below(sl) \in Int /\ Below(sl) < sl /\ ValidPrice(Below(sl))
           /\ ValidPrice(sl) => \A v \in Int : v < sl /\ ValidPrice(v) => v <= Below(sl)
<1> DEFINE h == 100 * (sl - TickSizeFor(sl))
<1>1. h \in Int /\ h < 100 * sl
  BY TickCases
<1>2. Below(sl) = RoundDownToTick(h)
  BY DEF Below
<1>3. ASSUME ValidPrice(sl), NEW v \in Int, v < sl, ValidPrice(v) PROVE v <= sl - TickSizeFor(sl)
  <2>1. PICK t \in {1, 2, 5, 10, 25} : TickSizeFor(sl) = t
    BY TickCases
  <2>2. CASE TickSizeFor(v) = t
    BY <1>3, <2>1, <2>2 DEF ValidPrice
  <2>3. CASE TickSizeFor(v) # t
    BY <1>3, <2>1, <2>3, TickCases DEF ValidPrice
  <2> QED BY <2>2, <2>3
<1>4. ASSUME ValidPrice(sl), NEW v \in Int, v < sl, ValidPrice(v) PROVE 100 * v <= h
  BY <1>3, <1>4, TickCases
<1> HIDE DEF h
<1> QED
  BY <1>1, <1>2, <1>4, RoundedDown

(* The walk has an end, which is the last valid price that is far enough.  *)
LEMMA WalkEnds ==
    ASSUME NEW entry \in Int
    PROVE  \E widen : Widens(widen, entry)
<1> DEFINE d    == MinStopTicks * TickSizeFor(entry)
           far  == entry - d
           last == RoundDownToTick(100 * far)
           end(sl) == IF sl <= far THEN sl ELSE IF Below(sl) <= far THEN Below(sl) ELSE last
           w == [sl \in Int |-> end(sl)]
<1>1. d \in Int
  BY TickCases, RiskConfig DEF RiskConfig
<1> HIDE DEF d
<1>2. far \in Int
  BY <1>1
<1>3. \A sl \in Int : entry - sl >= d <=> sl <= far
  BY <1>1
<1> HIDE DEF far
<1>4. ASSUME NEW sl \in Int, ~(sl <= far) PROVE end(sl) = end(Below(sl))
  <2> DEFINE b == Below(sl)  bb == Below(b)
  <2>1. b \in Int /\ ValidPrice(b) /\ bb \in Int
    BY BelowIsNext
  <2>2. ASSUME ~(b <= far), bb <= far PROVE bb = last
    <3>1. last \in Int /\ last <= far /\ ValidPrice(last) /\ (\A v \in Int : v <= far /\ ValidPrice(v) => v <= last)
      BY <1>2, RoundedDown
    <3>2. ValidPrice(bb) /\ \A v \in Int : v < b /\ ValidPrice(v) => v <= bb
      BY <2>1, BelowIsNext
    <3> HIDE DEF b, bb, last
    <3> QED BY <1>2, <2>1, <2>2, <3>1, <3>2
  <2> HIDE DEF b, bb, last
  <2>3. end(sl) = IF b <= far THEN b ELSE last
    BY <1>4 DEF b
  <2>4. end(b) = IF b <= far THEN b ELSE IF bb <= far THEN bb ELSE last
    BY DEF bb
  <2>5. end(sl) = end(b)
    BY <2>2, <2>3, <2>4
  <2> QED BY <2>5 DEF b
<1>5. ASSUME NEW sl \in Int
      PROVE  w[sl] = IF entry - sl >= d THEN sl ELSE w[Below(sl)]
  <2>1. Below(sl) \in Int
    BY BelowIsNext
  <2>2. w[sl] = end(sl) /\ w[Below(sl)] = end(Below(sl))
    BY <2>1
  <2> QED BY <1>3, <1>4, <2>2
<1> HIDE DEF w
<1>6. w = [sl \in Int |-> w[sl]]
  BY DEF w
<1>7. w = [sl \in Int |-> IF entry - sl >= d THEN sl ELSE w[Below(sl)]]
  BY <1>5, <1>6
<1>8. Widens(w, entry)
  BY <1>7 DEF Widens, Below, d
<1> QED BY <1>8

(* Wherever it starts, the walk ends far enough below the entry. *)
LEMMA WalkArrives ==
    ASSUME NEW entry \in Int, NEW widen, Widens(widen, entry)
    PROVE  \A sl \in Int : ValidPrice(sl) =>
             /\ widen[sl] \in Int /\ ValidPrice(widen[sl])
             /\ entry - widen[sl] >= MinStopTicks * TickSizeFor(entry)
<1> DEFINE d == MinStopTicks * TickSizeFor(entry)
           Good(x) == x \in Int /\ ValidPrice(x) /\ entry - x >= d
           bad == {n \in Nat : \E sl \in Int :
                     ValidPrice(sl) /\ ~Good(widen[sl]) /\ n = sl - (entry - d)}
<1>1. d \in Int
  BY TickCases, RiskConfig DEF RiskConfig
<1>2. \A sl \in Int : widen[sl] = IF entry - sl >= d THEN sl ELSE widen[Below(sl)]
  <2>1. widen = [sl \in Int |-> IF entry - sl >= d THEN sl ELSE widen[Below(sl)]]
    BY DEF Widens, Below
  <2> QED BY <2>1
<1> HIDE DEF d
<1>3. ASSUME NEW sl \in Int, ValidPrice(sl), ~Good(widen[sl])
      PROVE  ~(entry - sl >= d) /\ widen[sl] = widen[Below(sl)]
  BY <1>2, <1>3
<1>4. ASSUME NEW m \in bad PROVE \E n \in bad : n < m
  <2>1. PICK sl \in Int : ValidPrice(sl) /\ ~Good(widen[sl]) /\ m = sl - (entry - d)
    BY <1>4
  <2>2. ~(entry - sl >= d) /\ widen[sl] = widen[Below(sl)]
    BY <1>3, <2>1
  <2>3. Below(sl) \in Int /\ Below(sl) < sl /\ ValidPrice(Below(sl))
    BY BelowIsNext
  <2>4. ~Good(widen[Below(sl)])
    BY <2>1, <2>2
  <2>5. ~(entry - Below(sl) >= d)
    BY <1>3, <2>3, <2>4
  <2> DEFINE n == Below(sl) - (entry - d)
  <2>6. n \in Nat /\ n < m
    BY <1>1, <2>1, <2>3, <2>5
  <2>7. n \in bad
    BY <2>3, <2>4, <2>6
  <2> QED BY <2>6, <2>7
<1>5. bad = {}
  <2> SUFFICES ASSUME bad # {} PROVE FALSE
    OBVIOUS
  <2>1. bad \in SUBSET Nat
    OBVIOUS
  <2> HIDE DEF bad
  <2>2. PICK m \in bad : \A n \in bad : m <= n
    BY <2>1, LeastNatural
  <2>3. PICK n \in bad : n < m
    BY <1>4, <2>2
  <2> QED BY <2>1, <2>2, <2>3
<1>6. ASSUME NEW sl \in Int, ValidPrice(sl) PROVE Good(widen[sl])
  <2> SUFFICES ASSUME ~Good(widen[sl]) PROVE FALSE
    OBVIOUS
  <2>1. ~(entry - sl >= d)
    BY <1>3, <1>6
  <2>2. sl - (entry - d) \in Nat
    BY <1>1, <2>1
  <2>3. sl - (entry - d) \in bad
    BY <1>6, <2>2
  <2> QED BY <1>5, <2>3
<1> QED
  BY <1>6 DEF d

(* The stop of a plan: a valid price, and far enough below the entry.      *)
LEMMA StopIsFarEnough ==
    ASSUME NEW entry \in Int, NEW stopLossRaw \in Int
    PROVE  LET sl == ResolveStopLoss(entry, stopLossRaw)
           IN  /\ sl \in Int /\ ValidPrice(sl)
               /\ entry - sl >= MinStopTicks * TickSizeFor(entry)
<1> DEFINE w == CHOOSE widen : Widens(widen, entry)
<1>1. Widens(w, entry)
  BY WalkEnds
<1>2. ResolveStopLoss(entry, stopLossRaw) = w[RoundDownToTick(stopLossRaw)]
  BY DEF ResolveStopLoss, Widens
<1> HIDE DEF w
<1>3. RoundDownToTick(stopLossRaw) \in Int /\ ValidPrice(RoundDownToTick(stopLossRaw))
  BY RoundedDown
<1> QED
  BY <1>1, <1>2, <1>3, WalkArrives

----------------------------------------------------------------------------
(* The plan.                                                               *)

LEMMA TargetsInOrder ==
    ASSUME NEW entry \in Int, NEW sl \in Int, sl < entry
    PROVE  LET tp1 == RoundUpToTick(entry + Tp1Multiple * (entry - sl))
               tp2 == RoundUpToTick(entry + Tp2Multiple * (entry - sl))
           IN  /\ tp1 \in Int /\ tp2 \in Int /\ ValidPrice(tp1) /\ ValidPrice(tp2)
               /\ entry < tp1 /\ tp1 <= tp2
<1> DEFINE a == entry + Tp1Multiple * (entry - sl)
           b == entry + Tp2Multiple * (entry - sl)
<1>1. a \in Int /\ b \in Int /\ entry < a /\ a <= b
  <2> DEFINE risk == entry - sl
  <2>1. risk \in Nat \ {0} /\ Tp1Multiple \in Nat \ {0} /\ Tp2Multiple \in Nat \ {0} /\ Tp1Multiple <= Tp2Multiple
    BY RiskConfig DEF RiskConfig
  <2> HIDE DEF risk
  <2>2. Tp1Multiple * risk \in Nat \ {0} /\ Tp1Multiple * risk <= Tp2Multiple * risk /\ Tp2Multiple * risk \in Nat
    BY <2>1
  <2> DEFINE x == Tp1Multiple * risk  y == Tp2Multiple * risk
  <2>3. a = entry + x /\ b = entry + y
    BY DEF risk
  <2>4. x \in Nat \ {0} /\ y \in Nat /\ x <= y
    BY <2>2
  <2> HIDE DEF x, y, a, b
  <2> QED BY <2>3, <2>4
<1> HIDE DEF a, b
<1>2. /\ RoundUpToTick(a) \in Int /\ RoundUpToTick(b) \in Int
      /\ ValidPrice(RoundUpToTick(a)) /\ ValidPrice(RoundUpToTick(b))
      /\ a <= RoundUpToTick(a) /\ b <= RoundUpToTick(b)
  BY <1>1, RoundedUp
<1>3. RoundUpToTick(a) <= RoundUpToTick(b)
  <2>1. a <= RoundUpToTick(b)
    BY <1>1, <1>2
  <2> QED BY <1>1, <1>2, <2>1, RoundedUp
<1>4. entry < RoundUpToTick(a)
  BY <1>1, <1>2
<1> QED
  BY <1>2, <1>3, <1>4 DEF a, b

(* Whatever the entry, the raw stop and the category: rounding to ticks    *)
(* and to lots leaves a plan sound (risk.ts:82-180).                       *)
THEOREM PlanIsSoundAlways ==
    ASSUME NEW entry \in Nat \ {0}, NEW stopLossRaw \in Int, NEW category
    PROVE  SoundPlan(BuildRiskPlan(entry, stopLossRaw, category))
<1> DEFINE sl   == ResolveStopLoss(entry, stopLossRaw)
           lots == SizedLots(entry, sl, category)
           plan == BuildRiskPlan(entry, stopLossRaw, category)
<1>1. /\ sl \in Int /\ ValidPrice(sl)
      /\ entry - sl >= MinStopTicks * TickSizeFor(entry)
  BY StopIsFarEnough
<1>2. ValidPrice(ComputeMaxBuyPrice(entry))
  <2>1. entry + TickSizeFor(entry) \in Int
    BY TickCases
  <2> QED BY <2>1, RoundedUp DEF ComputeMaxBuyPrice
<1>3. plan = IF entry - sl <= 0 \/ EffectiveRisk(entry, sl) <= 0 \/ lots <= 0
             THEN EmptyPlan(entry, sl) ELSE FullPlan(entry, sl, lots)
  BY DEF BuildRiskPlan
<1> HIDE DEF sl, plan
<1>4. SoundPlan(EmptyPlan(entry, sl))
  <2>1. /\ EmptyPlan(entry, sl).sl = sl /\ EmptyPlan(entry, sl).lots = 0
        /\ EmptyPlan(entry, sl).maxBuyPrice = ComputeMaxBuyPrice(entry)
    BY DEF EmptyPlan
  <2> QED BY <1>1, <1>2, <2>1 DEF SoundPlan
<1>5. ASSUME ~(entry - sl <= 0), ~(lots <= 0) PROVE SoundPlan(FullPlan(entry, sl, lots))
  <2> DEFINE p == FullPlan(entry, sl, lots)
  <2>1. sl < entry
    BY <1>1, <1>5
  <2>2. lots \in Nat /\ MaxNetLoss(entry, sl, lots) <= RiskBudget * FeeScale
    BY <1>1, <2>1, LossWithinBudget
  <2>3. lots * (entry * (FeeScale + BuyFee)) <= MaxDeployed * FeeScale
    BY <1>1, <2>1, CostWithinCapital
  <2>4. Tp1Lots(lots) \in 0..lots
    BY <2>2, FirstTargetIsAPart
  <2> HIDE DEF lots
  <2>5. /\ p.sl = sl /\ p.maxBuyPrice = ComputeMaxBuyPrice(entry) /\ p.lots = lots /\ p.entry = entry
        /\ p.tp1 = RoundUpToTick(entry + Tp1Multiple * (entry - sl))
        /\ p.tp2 = RoundUpToTick(entry + Tp2Multiple * (entry - sl))
        /\ p.tp1Lots = Tp1Lots(lots) /\ p.tp2Lots = lots - Tp1Lots(lots)
        /\ p.maxNetLoss = MaxNetLoss(entry, sl, lots)
    BY DEF FullPlan
  <2> HIDE DEF p
  <2>6. p.lots * p.entry * (FeeScale + BuyFee) <= MaxDeployed * FeeScale
    <3>1. lots * entry * (FeeScale + BuyFee) = lots * (entry * (FeeScale + BuyFee))
      BY <2>2, RiskConfig DEF RiskConfig
    <3> QED BY <2>3, <2>5, <3>1
  <2>7. ValidPrice(p.tp1) /\ ValidPrice(p.tp2) /\ p.entry < p.tp1 /\ p.tp1 <= p.tp2
    BY <1>1, <2>1, <2>5, TargetsInOrder
  <2>8. p.tp1Lots >= 0 /\ p.tp2Lots >= 0 /\ p.tp1Lots + p.tp2Lots = p.lots
    <3> DEFINE n == Tp1Lots(lots)
    <3>1. n \in 0..lots /\ p.tp1Lots = n /\ p.tp2Lots = lots - n /\ p.lots = lots
      BY <2>4, <2>5
    <3> HIDE DEF n
    <3> QED BY <2>2, <3>1
  <2>9. SoundPlan(p)
    BY <1>1, <1>2, <2>1, <2>2, <2>5, <2>6, <2>7, <2>8 DEF SoundPlan
  <2> QED BY <2>9 DEF p
<1> HIDE DEF lots
<1>6. SoundPlan(plan)
  BY <1>3, <1>4, <1>5
<1> QED BY <1>6 DEF plan

----------------------------------------------------------------------------
(* The deep funnel.                                                        *)

(* One book is at most one day of persistence.                             *)
LEMMA OneBookOneDay ==
    ASSUME NEW book
    PROVE  Persistence(<<book>>, Strategy) \in 0..1
<1> DEFINE window == LastOf(<<book>>, Strategy.persistenceWindowDays)
           kept   == {i \in DOMAIN window : MeaningfulBuyers(window[i], Strategy) >= 1}
<1>1. Strategy.persistenceWindowDays \in Nat \ {0}
  BY StrategyOK DEF StrategyOK
<1>2. window = SubSeq(<<book>>, 1, 1)
  BY <1>1 DEF LastOf
<1>3. DOMAIN window = {1}
  BY <1>2
<1>4. kept \subseteq {1}
  BY <1>3
<1>5. IsFiniteSet({1}) /\ Cardinality({1}) = 1
  BY FS_Singleton
<1>6. Cardinality(kept) \in Nat /\ Cardinality(kept) <= 1
  <2> HIDE DEF kept
  <2> QED
    BY <1>4, <1>5, FS_Subset, FS_CardinalityType
<1> QED
  BY <1>6 DEF Persistence

(* A decision on too little persistence fails a gate, and is no buy.       *)
LEMMA NoBuyWithoutPersistence ==
    ASSUME NEW f, NEW stop, f.persistence \in Int,
           f.persistence < Strategy.persistenceMinDays
    PROVE  Decide(f, stop, Strategy).category \notin Buys
<1>1. Strategy.persistenceMinDays \in Nat
  BY StrategyOK DEF StrategyOK
<1>2. ~WithinConcentration(f, Strategy)
  BY <1>1 DEF WithinConcentration
<1>3. ASSUME NEW reward
      PROVE  FailedGates(f, reward, Strategy) # {}
  <2>1. "CONCENTRATION" \in DOMAIN GateFailed(f, reward, Strategy)
    BY DEF GateFailed
  <2>2. GateFailed(f, reward, Strategy)["CONCENTRATION"]
    BY <1>2 DEF GateFailed
  <2> QED
    BY <2>1, <2>2 DEF FailedGates
<1>4. ASSUME NEW score, NEW failed, failed # {}
      PROVE  Category(score, failed, Strategy) \in {"NO_TRADE", "AVOID"}
  BY <1>4 DEF Category
<1>5. ASSUME NEW reward
      PROVE  CategoryOf(f, reward, Strategy) \in {"NO_TRADE", "AVOID"}
  BY <1>3, <1>4 DEF CategoryOf
<1>6. Decide(f, stop, Strategy).category \in {"NO_TRADE", "AVOID"}
  BY <1>5 DEF Decide, Scored
<1> QED
  BY <1>6 DEF Buys

(* While more than one day of persistence is asked for, no day, however    *)
(* good its book, is a buy for the deep funnel: deep.ts:166 hands it one.  *)
THEOREM TheDeepFunnelNeverBuys ==
    ASSUME Strategy.persistenceMinDays > 1
    PROVE  Spec => []LiveNeverBuys
<1>1. Init => LiveNeverBuys
  BY DEF Init, LiveNeverBuys, None, Buys
<1>2. LiveNeverBuys /\ [Next]_vars => LiveNeverBuys'
  <2> SUFFICES ASSUME LiveNeverBuys, [Next]_vars
               PROVE  live'.category \notin Buys
    BY DEF LiveNeverBuys, Buys
  <2>1. ASSUME NEW session \in Sessions, Session(session)
        PROVE  live'.category \notin Buys
    BY <2>1 DEF Session, None, Buys
  <2>2. ASSUME NEW stale \in BOOLEAN, NEW confluence \in {0, 1000}, DeepFunnel(stale, confluence)
        PROVE  live'.category \notin Buys
    <3> DEFINE book == days[Len(days)].book
               f    == Features(Bars(days, Len(days)), <<book>>, stale, confluence, Strategy)
    <3>1. f.persistence = Persistence(<<book>>, Strategy)
      BY DEF Features
    <3>2. f.persistence \in Int /\ f.persistence < Strategy.persistenceMinDays
      <4>1. Strategy.persistenceMinDays \in Nat
        BY StrategyOK DEF StrategyOK
      <4> QED
        BY <3>1, <4>1, OneBookOneDay
    <3>3. live' = Decide(f, FlatStop(f.price), Strategy)
      BY <2>2 DEF DeepFunnel, LiveDecision
    <3> HIDE DEF f
    <3> QED
      BY <3>2, <3>3, NoBuyWithoutPersistence
  <2>3. CASE Backfill
    BY <2>3 DEF Backfill, LiveNeverBuys
  <2>4. CASE UNCHANGED vars
    BY <2>4 DEF vars, LiveNeverBuys
  <2> QED
    BY <2>1, <2>2, <2>3, <2>4 DEF Next
<1> QED
  BY <1>1, <1>2, PTL DEF Spec

----------------------------------------------------------------------------
(* The two passes.                                                         *)

LEMMA BuyHasPassed ==
    ASSUME NEW f, NEW reward, NEW c, CategoryOf(f, reward, c) \in Buys
    PROVE  /\ FailedGates(f, reward, c) = {}
           /\ CategoryOf(f, reward, c) = Band(CompositeScore(f, c), c)
           /\ ~(reward[2] <= 0 \/ 100 * reward[1] < MinRewardToRisk * reward[2])
<1>1. FailedGates(f, reward, c) = {}
  BY DEF CategoryOf, Category, Buys
<1>2. "NET_RR_MIN" \in DOMAIN GateFailed(f, reward, c)
  BY DEF GateFailed
<1>3. ~GateFailed(f, reward, c)["NET_RR_MIN"]
  BY <1>1, <1>2 DEF FailedGates
<1> QED
  BY <1>1, <1>3 DEF CategoryOf, Category, GateFailed

(* The reward assumed by the first pass fails no gate that the final one   *)
(* passes.                                                                 *)
LEMMA AssumedRewardPasses ==
    ASSUME NEW f, NEW reward, NEW c, FailedGates(f, reward, c) = {}
    PROVE  FailedGates(f, <<MinRewardToRisk, 100>>, c) = {}
<1> DEFINE assumed == <<MinRewardToRisk, 100>>
<1>1. ASSUME NEW gate \in DOMAIN GateFailed(f, assumed, c) PROVE ~GateFailed(f, assumed, c)[gate]
  <2>1. CASE gate = "NET_RR_MIN"
    <3>1. GateFailed(f, assumed, c)["NET_RR_MIN"] <=>
            (assumed[2] <= 0 \/ 100 * assumed[1] < MinRewardToRisk * assumed[2])
      BY DEF GateFailed
    <3>2. assumed[1] = MinRewardToRisk /\ assumed[2] = 100 /\ MinRewardToRisk \in Nat
      BY RiskConfig DEF RiskConfig
    <3> HIDE DEF assumed
    <3>3. ~(assumed[2] <= 0 \/ 100 * assumed[1] < MinRewardToRisk * assumed[2])
      BY <3>2
    <3> QED BY <2>1, <3>1, <3>3
  <2>2. CASE gate # "NET_RR_MIN"
    <3>1. gate \in DOMAIN GateFailed(f, reward, c)
      BY <1>1 DEF GateFailed
    <3>2. ~GateFailed(f, reward, c)[gate]
      BY <3>1 DEF FailedGates
    <3> QED BY <1>1, <2>2, <3>2 DEF GateFailed
  <2> QED BY <2>1, <2>2
<1> QED BY <1>1 DEF FailedGates

IsTradable(d) ==
    d.category \in Buys =>
        d.failed = {} /\ d.plan.lots > 0 /\ ~d.plan.isNoTrade /\ SoundPlan(d.plan)

(* The plan that decides a buy is the plan that is kept.                   *)
LEMMA DecidedBuyIsTradable ==
    ASSUME NEW f, NEW stop \in Int, NEW c, f.price \in Nat \ {0}
    PROVE  IsTradable(Decide(f, stop, c))
<1> DEFINE assumed  == <<MinRewardToRisk, 100>>
           first    == BuildRiskPlan(f.price, stop, CategoryOf(f, assumed, c))
           reward   == <<first.netReward, first.maxNetLoss>>
           category == CategoryOf(f, reward, c)
           plan     == BuildRiskPlan(f.price, stop, category)
           d        == Decide(f, stop, c)
<1>1. d.category = category /\ d.failed = FailedGates(f, reward, c) /\ d.plan = plan
  BY DEF Decide, Scored
<1> SUFFICES ASSUME category \in Buys
             PROVE  d.failed = {} /\ plan.lots > 0 /\ ~plan.isNoTrade /\ SoundPlan(plan)
  BY <1>1 DEF IsTradable
<1> HIDE DEF d
<1>2. /\ FailedGates(f, reward, c) = {}
      /\ category = Band(CompositeScore(f, c), c)
      /\ ~(reward[2] <= 0 \/ 100 * reward[1] < MinRewardToRisk * reward[2])
  <2> HIDE DEF reward
  <2> QED BY BuyHasPassed
<1>3. CategoryOf(f, assumed, c) = category
  <2>1. FailedGates(f, assumed, c) = {}
    <3> HIDE DEF reward
    <3> QED BY <1>2, AssumedRewardPasses
  <2>2. CategoryOf(f, assumed, c) = Band(CompositeScore(f, c), c)
    BY <2>1 DEF CategoryOf, Category
  <2> QED BY <1>2, <2>2
<1>4. first = plan
  BY <1>3
<1>5. ~(plan.maxNetLoss <= 0 \/ 100 * plan.netReward < MinRewardToRisk * plan.maxNetLoss)
  <2> HIDE DEF first, plan
  <2> QED BY <1>2, <1>4
<1> HIDE DEF first, reward, category
<1>6. plan.lots > 0 /\ ~plan.isNoTrade
  <2> DEFINE sl   == ResolveStopLoss(f.price, stop)
             lots == SizedLots(f.price, sl, category)
  <2>1. plan = IF f.price - sl <= 0 \/ EffectiveRisk(f.price, sl) <= 0 \/ lots <= 0
               THEN EmptyPlan(f.price, sl) ELSE FullPlan(f.price, sl, lots)
    BY DEF BuildRiskPlan
  <2> HIDE DEF plan
  <2>2. sl \in Int
    <3>1. f.price \in Int
      OBVIOUS
    <3> QED BY <3>1, StopIsFarEnough
  <2>3. f.price - sl > 0 => lots \in Nat
    BY <2>2, LossWithinBudget
  <2> HIDE DEF sl, lots
  <2>4. EmptyPlan(f.price, sl).maxNetLoss = 0
    BY DEF EmptyPlan
  <2>5. plan = FullPlan(f.price, sl, lots) /\ ~(f.price - sl <= 0) /\ ~(lots <= 0)
    BY <1>5, <2>1, <2>4
  <2>6. lots \in Nat /\ lots > 0
    BY <2>2, <2>3, <2>5
  <2>7. /\ FullPlan(f.price, sl, lots).lots = lots
        /\ FullPlan(f.price, sl, lots).isNoTrade =
             (\/ FullPlan(f.price, sl, lots).maxNetLoss <= 0
              \/ 100 * FullPlan(f.price, sl, lots).netReward
                   < MinRewardToRisk * FullPlan(f.price, sl, lots).maxNetLoss)
    BY DEF FullPlan
  <2> QED BY <1>5, <2>5, <2>6, <2>7
<1>7. SoundPlan(plan)
  BY PlanIsSoundAlways
<1> QED BY <1>1, <1>2, <1>6, <1>7

----------------------------------------------------------------------------
(* The decisions on the sessions.                                          *)

SessionsKept ==
    /\ days \in Seq(Sessions)
    /\ archived \subseteq DOMAIN days

History ==
    /\ SessionsKept
    /\ IsTradable(live)

LEMMA PriceOfDay ==
    ASSUME days \in Seq(Sessions), NEW k \in 1..Len(days)
    PROVE  /\ days[k].bar.close \in Nat \ {0}
           /\ Bars(days, k)[Len(Bars(days, k))].close = days[k].bar.close
<1>1. days[k] \in Sessions
  OBVIOUS
<1>2. Len(Bars(days, k)) = k /\ Bars(days, k)[k] = days[k].bar
  BY DEF Bars
<1> QED
  BY <1>1, <1>2, SessionsArePriced DEF SessionsArePriced

LEMMA FlatStopIsWhole ==
    ASSUME NEW price \in Int
    PROVE  FlatStop(price) \in Int
BY SettingsOK DEF SettingsOK, FlatStop

(* Without a session nothing is archived that a replay could rest on.      *)
LEMMA NothingToReplay ==
    ASSUME SessionsKept, Len(days) = 0
    PROVE  ~Replayable(days, archived, Len(days))
<1>1. BookDays(days, archived, Len(days)) = {}
  BY DEF SessionsKept, BookDays
<1>2. Cardinality(BookDays(days, archived, Len(days))) = 0
  BY <1>1, FS_EmptySet
<1>3. LeastOf(0, Strategy.persistenceWindowDays) = 0
  BY StrategyOK DEF StrategyOK
<1> DEFINE book(i) == days[LastOf(Ascending(BookDays(days, archived, Len(days))),
                                  Strategy.persistenceWindowDays)[i]].book
<1>4. ArchivedBooks(days, archived, Len(days)) = [i \in 1..0 |-> book(i)]
  BY <1>2, <1>3 DEF ArchivedBooks
<1> HIDE DEF book
<1>5. [i \in 1..0 |-> book(i)] = <<>>
  OBVIOUS
<1> QED BY <1>4, <1>5 DEF Replayable

LEMMA ReplayIsTradable ==
    ASSUME SessionsKept
    PROVE  IsTradable(Replay(days, archived, Len(days)))
<1> DEFINE k == Len(days)
           f == ReplayFeatures(days, archived, k, Strategy)
<1>1. days \in Seq(Sessions) /\ k \in Nat
  BY DEF SessionsKept
<1>2. IsTradable(None)
  BY DEF IsTradable, None, Buys
<1>3. CASE ~Replayable(days, archived, k)
  BY <1>2, <1>3 DEF Replay
<1>4. CASE Replayable(days, archived, k)
  <2>1. k \in 1..Len(days)
    BY <1>1, <1>4, NothingToReplay
  <2> DEFINE close == days[k].bar.close
  <2>2. close \in Nat \ {0}
    BY <1>1, <2>1, PriceOfDay
  <2>3. f.price = close
    BY <1>1, <2>1, PriceOfDay DEF ReplayFeatures, Features
  <2>4. Replay(days, archived, k) = Decide(f, FlatStop(close), Strategy)
    BY <1>4 DEF Replay
  <2> HIDE DEF k, f, close
  <2>5. FlatStop(close) \in Int
    BY <2>2, FlatStopIsWhole
  <2>6. IsTradable(Decide(f, FlatStop(close), Strategy))
    BY <2>2, <2>3, <2>5, DecidedBuyIsTradable
  <2> QED BY <2>4, <2>6 DEF k
<1> QED BY <1>3, <1>4

LEMMA LiveIsTradable ==
    ASSUME SessionsKept, days # <<>>, NEW stale, NEW confluence
    PROVE  IsTradable(LiveDecision(stale, confluence))
<1> DEFINE k == Len(days)
           f == Features(Bars(days, k), <<days[k].book>>, stale, confluence, Strategy)
<1>1. days \in Seq(Sessions) /\ k \in 1..Len(days)
  BY DEF SessionsKept
<1>2. f.price = days[k].bar.close /\ days[k].bar.close \in Nat \ {0}
  BY <1>1, PriceOfDay DEF Features
<1>3. LiveDecision(stale, confluence) = Decide(f, FlatStop(f.price), Strategy)
  BY DEF LiveDecision
<1> HIDE DEF f
<1>4. f.price \in Nat \ {0} /\ FlatStop(f.price) \in Int
  BY <1>2, FlatStopIsWhole
<1>5. IsTradable(Decide(f, FlatStop(f.price), Strategy))
  BY <1>4, DecidedBuyIsTradable
<1> QED BY <1>3, <1>5

LEMMA HistoryInvariant == Spec => []History
<1>1. Init => History
  BY DEF Init, History, SessionsKept, IsTradable, None, Buys
<1>2. History /\ [Next]_vars => History'
  <2> SUFFICES ASSUME History, [Next]_vars PROVE SessionsKept' /\ IsTradable(live')
    BY DEF History, IsTradable, Buys, SoundPlan, ValidPrice, TickSizeFor
  <2>1. SessionsKept /\ IsTradable(live) /\ days \in Seq(Sessions) /\ archived \subseteq DOMAIN days
    BY DEF History, SessionsKept
  <2>2. ASSUME NEW session \in Sessions, Session(session) PROVE SessionsKept' /\ IsTradable(live')
    <3>1. days' = Append(days, session) /\ archived' = archived /\ live' = None
      BY <2>2 DEF Session
    <3>2. days' \in Seq(Sessions) /\ DOMAIN days \subseteq DOMAIN days'
      BY <2>1, <3>1
    <3> QED BY <2>1, <3>1, <3>2 DEF SessionsKept, IsTradable, None, Buys
  <2>3. ASSUME NEW stale \in BOOLEAN, NEW confluence \in {0, 1000}, DeepFunnel(stale, confluence)
        PROVE  SessionsKept' /\ IsTradable(live')
    <3>1. /\ days # <<>> /\ days' = days /\ archived' = archived \cup {Len(days)}
          /\ live' = LiveDecision(stale, confluence)
      BY <2>3 DEF DeepFunnel
    <3>2. Len(days) \in DOMAIN days
      BY <2>1, <3>1
    <3>3. IsTradable(LiveDecision(stale, confluence))
      BY <2>1, <3>1, LiveIsTradable
    <3> QED BY <2>1, <3>1, <3>2, <3>3 DEF SessionsKept
  <2>4. CASE Backfill
    BY <2>1, <2>4 DEF Backfill, SessionsKept
  <2>5. CASE UNCHANGED vars
    BY <2>1, <2>5 DEF vars, SessionsKept
  <2> QED BY <2>2, <2>3, <2>4, <2>5 DEF Next
<1> QED
  BY <1>1, <1>2, PTL DEF Spec

(* Whatever the sessions and whichever of their books are archived, a buy  *)
(* of the deep funnel or of the replay has passed every gate on the plan   *)
(* that is kept, and that plan is sound                                    *)
(* (signal.ts:39-83, risk.ts:82-180, deep.ts:150-240).                     *)
THEOREM BuysAreTradable == Spec => []BuyIsTradable
<1>1. History => BuyIsTradable
  <2> SUFFICES ASSUME History, NEW d \in {live, Replay(days, archived, Len(days))} PROVE IsTradable(d)
    BY DEF BuyIsTradable, IsTradable
  <2> QED
    BY ReplayIsTradable DEF History
<1> QED
  BY <1>1, HistoryInvariant, PTL

----------------------------------------------------------------------------
(* The days in order.                                                      *)

IsAscending(s, ks) ==
    /\ s \in [1..Cardinality(ks) -> ks]
    /\ \A i, j \in DOMAIN s : i < j => s[i] < s[j]

LEMMA LastDay ==
    ASSUME NEW k \in Nat, NEW ks \in SUBSET (1..k), ks # {}
    PROVE  \E m \in ks : \A x \in ks : x <= m
<1> DEFINE back == {n \in Nat : \E x \in ks : n = k - x}
<1>0. \A x \in ks : x \in Int /\ k - x \in Nat
  OBVIOUS
<1>a. PICK some : some \in ks
  OBVIOUS
<1>b. k - some \in back
  BY <1>0, <1>a
<1>1. back \in SUBSET Nat /\ back # {}
  BY <1>b
<1>2. PICK n \in back : \A y \in back : n <= y
  <2> HIDE DEF back
  <2> QED BY <1>1, LeastNatural
<1>3. PICK m \in ks : n = k - m
  BY <1>2
<1>4. ASSUME NEW x \in ks PROVE x <= m
  <2>1. k - x \in back
    BY <1>0
  <2>2. n <= k - x
    BY <1>2, <2>1
  <2> QED BY <1>0, <1>3, <2>2
<1> QED BY <1>4

LEMMA DaysAreFinite ==
    ASSUME NEW k \in Nat, NEW ks \in SUBSET (1..k)
    PROVE  IsFiniteSet(ks) /\ Cardinality(ks) \in Nat
<1>1. IsFiniteSet(1..k)
  BY FS_Interval
<1>2. IsFiniteSet(ks)
  BY <1>1, FS_Subset
<1>3. Cardinality(ks) \in Nat
  BY <1>2, FS_CardinalityType
<1> QED BY <1>2, <1>3

(* Every set of days can be put in order.                                  *)
LEMMA DaysCanBeOrdered ==
    ASSUME NEW k \in Nat
    PROVE  \A ks \in SUBSET (1..k) : \E s : IsAscending(s, ks)
<1> DEFINE bad == {n \in Nat : \E ks \in SUBSET (1..k) :
                     Cardinality(ks) = n /\ ~\E s : IsAscending(s, ks)}
<1>1. \A ks \in SUBSET (1..k) : IsFiniteSet(ks) /\ Cardinality(ks) \in Nat
  BY DaysAreFinite
<1>2. ASSUME NEW n \in bad PROVE \E m \in bad : m < n
  <2>1. PICK ks \in SUBSET (1..k) : Cardinality(ks) = n /\ ~\E s : IsAscending(s, ks)
    OBVIOUS
  <2>2. ks # {}
    <3> SUFFICES ASSUME ks = {} PROVE FALSE
      OBVIOUS
    <3>1. Cardinality(ks) = 0
      BY FS_EmptySet
    <3>2. IsAscending([i \in {} |-> i], ks)
      BY <3>1 DEF IsAscending
    <3> QED BY <2>1, <3>2
  <2>3. PICK last \in ks : \A x \in ks : x <= last
    BY <2>2, LastDay
  <2> DEFINE rest == ks \ {last}
  <2>a. IsFiniteSet(ks) /\ n \in Nat
    BY <1>1, <2>1
  <2>b. Cardinality(rest) = n - 1
    BY <2>a, <2>1, <2>3, FS_RemoveElement
  <2>c. n # 0
    BY <2>a, <2>1, <2>2, FS_EmptySet
  <2>d. rest \in SUBSET (1..k)
    OBVIOUS
  <2>4. rest \in SUBSET (1..k) /\ Cardinality(rest) = n - 1 /\ n \in Nat /\ n - 1 \in Nat
    BY <2>a, <2>b, <2>c, <2>d
  <2>5. ASSUME NEW s, IsAscending(s, rest) PROVE FALSE
    <3> DEFINE t == [i \in 1..n |-> IF i = n THEN last ELSE s[i]]
    <3>1. s \in [1..(n - 1) -> rest] /\ \A i, j \in 1..(n - 1) : i < j => s[i] < s[j]
      BY <2>4, <2>5 DEF IsAscending
    <3>2. ASSUME NEW i \in 1..(n - 1)
          PROVE  s[i] \in ks /\ s[i] < last /\ s[i] \in Int
      <4>1. s[i] \in rest
        BY <3>1
      <4>2. s[i] \in ks /\ s[i] # last
        BY <4>1
      <4>a. \A x \in ks : x \in Int
        OBVIOUS
      <4>b. s[i] <= last
        BY <2>3, <4>2
      <4> HIDE DEF rest, t
      <4>3. s[i] <= last /\ s[i] \in Int /\ last \in Int
        BY <4>2, <4>a, <4>b
      <4> QED BY <4>2, <4>3
    <3> HIDE DEF rest
    <3>3. t \in [1..n -> ks]
      BY <2>4, <3>2
    <3>4. ASSUME NEW i \in 1..n, NEW j \in 1..n, i < j PROVE t[i] < t[j]
      BY <2>4, <3>1, <3>2, <3>4
    <3> HIDE DEF t
    <3>5. IsAscending(t, ks)
      BY <2>1, <3>3, <3>4 DEF IsAscending
    <3> QED BY <2>1, <3>5
  <2>6. n - 1 \in bad
    BY <2>4, <2>5
  <2> QED BY <2>4, <2>6
<1>3. bad = {}
  <2> SUFFICES ASSUME bad # {} PROVE FALSE
    OBVIOUS
  <2>1. bad \in SUBSET Nat
    OBVIOUS
  <2> HIDE DEF bad
  <2>2. PICK n \in bad : \A m \in bad : n <= m
    BY <2>1, LeastNatural
  <2>3. PICK m \in bad : m < n
    BY <1>2
  <2> QED BY <2>1, <2>2, <2>3
<1>4. ASSUME NEW ks \in SUBSET (1..k) PROVE \E s : IsAscending(s, ks)
  <2> SUFFICES ASSUME ~\E s : IsAscending(s, ks) PROVE FALSE
    OBVIOUS
  <2>1. Cardinality(ks) \in bad
    BY <1>1
  <2> QED BY <1>3, <2>1
<1> QED BY <1>4

LEMMA AscendingIsThere ==
    ASSUME NEW k \in Nat, NEW ks \in SUBSET (1..k)
    PROVE  Ascending(ks) \in [1..Cardinality(ks) -> ks]
<1>1. \E s \in [1..Cardinality(ks) -> ks] : \A i, j \in DOMAIN s : i < j => s[i] < s[j]
  BY DaysCanBeOrdered DEF IsAscending
<1> QED BY <1>1 DEF Ascending

(* The days a replay takes its books from are days whose book is archived. *)
LEMMA WindowOfDays ==
    ASSUME NEW k \in Nat, NEW ks \in SUBSET (1..k),
           NEW i \in 1..LeastOf(Cardinality(ks), Strategy.persistenceWindowDays)
    PROVE  LastOf(Ascending(ks), Strategy.persistenceWindowDays)[i] \in ks
<1> DEFINE n == Cardinality(ks)
           w == Strategy.persistenceWindowDays
           all == Ascending(ks)
           from == IF n > w THEN n - w + 1 ELSE 1
<1>1. n \in Nat /\ w \in Nat \ {0}
  BY DaysAreFinite, StrategyOK DEF StrategyOK
<1>2. all \in [1..n -> ks]
  BY AscendingIsThere
<1> HIDE DEF all, n, w
<1>3. Len(all) = n /\ all \in Seq(ks)
  BY <1>1, <1>2
<1>4. from \in 1..(n + 1) /\ i \in 1..(n - from + 1)
  BY <1>1 DEF n, w
<1>5. LastOf(all, w) = SubSeq(all, from, n)
  BY <1>3 DEF LastOf
<1> HIDE DEF from
<1>6. SubSeq(all, from, n)[i] = all[from + i - 1] /\ from + i - 1 \in 1..n
  BY <1>1, <1>3, <1>4
<1> QED BY <1>2, <1>5, <1>6 DEF all, w

Agree(ds, es, ar, k) ==
    /\ k \in Nat \ {0}
    /\ ar \subseteq Nat \ {0}
    /\ \A i \in 1..k : ds[i] = es[i]

(* Histories that agree up to a day give the replay of that day the same   *)
(* bars and the same books.                                                *)
LEMMA SameHistory ==
    ASSUME NEW k, NEW ds, NEW es, NEW ar, Agree(ds, es, ar, k)
    PROVE  /\ Bars(ds, k) = Bars(es, k)
           /\ ArchivedBooks(ds, ar, k) = ArchivedBooks(es, ar \cap 1..k, k)
<1> DEFINE seen == ar \cap 1..k
           ks == BookDays(ds, ar, k)
           all == Ascending(ks)
           w == Strategy.persistenceWindowDays
           many == LeastOf(Cardinality(ks), w)
<1>0. k \in Nat \ {0} /\ ar \subseteq Nat \ {0} /\ \A i \in 1..k : ds[i] = es[i]
  BY DEF Agree
<1>1. Bars(ds, k) = Bars(es, k)
  BY <1>0 DEF Bars
<1>2. ks \in SUBSET (1..k)
  <2>1. ASSUME NEW i \in ks PROVE i \in 1..k
    <3>1. i \in ar /\ i <= k
      BY DEF BookDays
    <3>2. i \in Nat \ {0}
      BY <1>0, <3>1
    <3> HIDE DEF ks
    <3> QED BY <1>0, <3>1, <3>2
  <2> HIDE DEF ks
  <2> QED BY <2>1
<1>3. BookDays(es, seen, k) = ks
  <2>1. BookDays(es, seen, k) = {i \in ar \cap 1..k : i <= k /\ es[i].book # <<>>}
    BY DEF BookDays
  <2>2. ks = {i \in ar : i <= k /\ ds[i].book # <<>>}
    BY DEF BookDays
  <2>3. ASSUME NEW i \in 1..k PROVE ds[i].book = es[i].book
    BY <1>0
  <2>4. ASSUME NEW i \in ks PROVE i \in BookDays(es, seen, k)
    <3>1. i \in 1..k
      BY <1>2
    <3>2. i \in ar /\ i <= k /\ ds[i].book # <<>>
      BY <2>2
    <3> HIDE DEF ks
    <3> QED BY <2>1, <2>3, <3>1, <3>2
  <2>5. ASSUME NEW i \in BookDays(es, seen, k) PROVE i \in ks
    <3>1. i \in ar /\ i \in 1..k /\ i <= k /\ es[i].book # <<>>
      BY <2>1
    <3> QED BY <1>0, <2>2, <2>3, <3>1
  <2> HIDE DEF ks, seen
  <2> QED BY <2>4, <2>5
<1>4. \A i \in 1..many : LastOf(all, w)[i] \in 1..k
  BY <1>0, <1>2, WindowOfDays
<1>5. \A i \in 1..many : ds[LastOf(all, w)[i]] = es[LastOf(all, w)[i]]
  <2> HIDE DEF many, all, w
  <2> QED BY <1>0, <1>4
<1>6. ArchivedBooks(ds, ar, k) = [i \in 1..many |-> ds[LastOf(all, w)[i]].book]
  BY DEF ArchivedBooks
<1>7. ArchivedBooks(es, seen, k) = [i \in 1..many |-> es[LastOf(all, w)[i]].book]
  BY <1>3 DEF ArchivedBooks
<1> HIDE DEF many, all, w
<1> QED BY <1>1, <1>5, <1>6, <1>7

SameReturn(ds, es, k) ==
    /\ k + Horizon <= Len(ds) <=> k + Horizon <= Len(es)
    /\ ds[k + Horizon] = es[k + Horizon]

(* They then agree on every decision on that day, and on what is observed  *)
(* of it when they agree on the close the return is taken to.              *)
LEMMA SameDecisions ==
    ASSUME NEW k, NEW ds, NEW es, NEW ar, Agree(ds, es, ar, k)
    PROVE  /\ Replay(ds, ar, k) = Replay(es, ar \cap 1..k, k)
           /\ Diagnosis(ds, ar, k) = Diagnosis(es, ar \cap 1..k, k)
           /\ SameReturn(ds, es, k) => Observation(ds, ar, k) = Observation(es, ar \cap 1..k, k)
<1>1. Bars(ds, k) = Bars(es, k) /\ ArchivedBooks(ds, ar, k) = ArchivedBooks(es, ar \cap 1..k, k)
  BY SameHistory
<1>2. ds[k] = es[k]
  BY DEF Agree
<1>3. Replayable(ds, ar, k) <=> Replayable(es, ar \cap 1..k, k)
  BY <1>1 DEF Replayable
<1>4. \A c : ReplayFeatures(ds, ar, k, c) = ReplayFeatures(es, ar \cap 1..k, k, c)
  BY <1>1 DEF ReplayFeatures
<1>5. Replay(ds, ar, k) = Replay(es, ar \cap 1..k, k)
  BY <1>2, <1>3, <1>4 DEF Replay
<1>6. Diagnosis(ds, ar, k) = Diagnosis(es, ar \cap 1..k, k)
  <2> DEFINE low5(d)  == Min({bar.low : bar \in Range(LastOf(Bars(d, k), 5))})
             stop(d)  == IF low5(d) < d[k].bar.close THEN 100 * low5(d) ELSE 94 * d[k].bar.close
             first(d, a)  == Scored(ReplayFeatures(d, a, k, Strategy), FlatStop(d[k].bar.close), Strategy)
             second(d, a) == Scored(ReplayFeatures(d, a, k, Relaxed), stop(d), Relaxed)
             counted(d, a) == [configured |-> first(d, a), relaxed |-> second(d, a)]
             early == ar \cap 1..k
  <2>1. Diagnosis(ds, ar, k) = IF ~Replayable(ds, ar, k) THEN None ELSE counted(ds, ar)
    BY DEF Diagnosis
  <2>2. Diagnosis(es, early, k) = IF ~Replayable(es, early, k) THEN None ELSE counted(es, early)
    BY DEF Diagnosis
  <2>3. stop(ds) = stop(es)
    BY <1>1, <1>2
  <2> HIDE DEF stop
  <2>4. first(ds, ar) = first(es, early)
    BY <1>2, <1>4
  <2>5. second(ds, ar) = second(es, early)
    BY <1>4, <2>3
  <2> HIDE DEF first, second
  <2> QED BY <1>3, <2>1, <2>2, <2>4, <2>5
<1>7. ASSUME SameReturn(ds, es, k)
      PROVE  Observation(ds, ar, k) = Observation(es, ar \cap 1..k, k)
  BY <1>1, <1>2, <1>3, <1>4, <1>7 DEF Observation, SameReturn
<1> QED BY <1>5, <1>6, <1>7

(* Whatever the sessions and whichever of their books are archived, the    *)
(* replay, the diagnosis and the observation of any day rest on the        *)
(* sessions and the books up to that day, and on nothing that comes later  *)
(* but the close the observed return is taken to (signalFromHistory.ts,    *)
(* diagnose.ts, phase0e.ts).                                               *)
THEOREM DecisionsLookBackAlways == Spec => []DecisionsLookBack
<1>1. History => DecisionsLookBack
  <2> SUFFICES ASSUME History, NEW k \in DOMAIN days
               PROVE  LET known == SubSeq(days, 1, k)
                          seen  == archived \cap 1..k
                          ahead == SubSeq(days, 1, k + Horizon)
                      IN  /\ Replay(days, archived, k) = Replay(known, seen, k)
                          /\ Diagnosis(days, archived, k) = Diagnosis(known, seen, k)
                          /\ k + Horizon <= Len(days) =>
                                Observation(days, archived, k) = Observation(ahead, seen, k)
    BY DEF DecisionsLookBack
  <2> DEFINE known == SubSeq(days, 1, k)
             ahead == SubSeq(days, 1, k + Horizon)
             seen  == archived \cap 1..k
  <2>1. /\ days \in Seq(Sessions) /\ archived \subseteq Nat \ {0}
        /\ k \in 1..Len(days) /\ k \in Nat \ {0} /\ Horizon \in Nat
    BY SettingsOK DEF SettingsOK, History, SessionsKept
  <2>2. \A i \in 1..k : days[i] = known[i]
    BY <2>1
  <2>3. Replay(days, archived, k) = Replay(known, seen, k) /\ Diagnosis(days, archived, k) = Diagnosis(known, seen, k)
    <3>1. Agree(days, known, archived, k)
      BY <2>1, <2>2 DEF Agree
    <3> HIDE DEF known, ahead
    <3> QED BY <3>1, SameDecisions
  <2>4. ASSUME k + Horizon <= Len(days)
        PROVE  Observation(days, archived, k) = Observation(ahead, seen, k)
    <3>1. k + Horizon \in 1..Len(days)
      BY <2>1, <2>4
    <3>2. Len(ahead) = k + Horizon /\ \A i \in 1..(k + Horizon) : days[i] = ahead[i]
      BY <2>1, <3>1
    <3> HIDE DEF ahead
    <3>3. \A i \in 1..k : days[i] = ahead[i]
      BY <2>1, <3>2
    <3>4. days[k + Horizon] = ahead[k + Horizon] /\ k + Horizon <= Len(ahead)
      BY <2>1, <3>1, <3>2
    <3>5. Agree(days, ahead, archived, k)
      BY <2>1, <3>3 DEF Agree
    <3>6. SameReturn(days, ahead, k)
      BY <2>4, <3>4 DEF SameReturn
    <3> QED BY <3>5, <3>6, SameDecisions
  <2> QED BY <2>3, <2>4
<1> QED
  BY <1>1, HistoryInvariant, PTL

----------------------------------------------------------------------------
(* Sums over sets, as the equation that MapThenSumSet takes a solution of. *)

Summed(iter, f, s) ==
    IF s = {} THEN 0 ELSE f[CHOOSE x \in s : TRUE] + iter[s \ {CHOOSE x \in s : TRUE}]

Sums(iter, f, S) == iter = [s \in SUBSET S |-> Summed(iter, f, s)]

(* The sums of all parts of a finite set exist.                            *)
LEMMA SumExists ==
    ASSUME NEW S, IsFiniteSet(S), NEW f \in [S -> Int]
    PROVE  \E iter \in [SUBSET S -> Int] : Sums(iter, f, S)
<1> DEFINE Upto(n, g) == \A s \in SUBSET S : Cardinality(s) <= n => g[s] = Summed(g, f, s)
           bad == {n \in Nat : ~\E g \in [SUBSET S -> Int] : Upto(n, g)}
<1>1. ASSUME NEW s \in SUBSET S
      PROVE  /\ IsFiniteSet(s) /\ Cardinality(s) \in Nat /\ Cardinality(s) <= Cardinality(S)
             /\ s # {} => /\ (CHOOSE x \in s : TRUE) \in s
                          /\ s \ {CHOOSE x \in s : TRUE} \in SUBSET S
                          /\ Cardinality(s \ {CHOOSE x \in s : TRUE}) = Cardinality(s) - 1
             /\ s = {} => Cardinality(s) = 0
  <2>1. IsFiniteSet(s) /\ Cardinality(s) \in Nat /\ Cardinality(s) <= Cardinality(S)
    BY FS_Subset, FS_CardinalityType
  <2>2. ASSUME s # {} PROVE (CHOOSE x \in s : TRUE) \in s
    BY <2>2
  <2>3. ASSUME NEW x \in s PROVE Cardinality(s \ {x}) = Cardinality(s) - 1
    BY <2>1, FS_RemoveElement
  <2>4. s = {} => Cardinality(s) = 0
    BY FS_EmptySet
  <2> QED BY <2>1, <2>2, <2>3, <2>4
<1>2. ASSUME NEW g \in [SUBSET S -> Int], NEW s \in SUBSET S PROVE Summed(g, f, s) \in Int
  <2>1. CASE s = {}
    BY <2>1 DEF Summed
  <2>2. CASE s # {}
    <3> DEFINE x == CHOOSE x \in s : TRUE
    <3>1. x \in S /\ s \ {x} \in SUBSET S
      BY <1>1, <2>2
    <3>2. Summed(g, f, s) = f[x] + g[s \ {x}]
      BY <2>2 DEF Summed
    <3> HIDE DEF x
    <3>3. f[x] \in Int /\ g[s \ {x}] \in Int
      BY <3>1
    <3> QED BY <3>2, <3>3
  <2> QED BY <2>1, <2>2
<1>3. ASSUME NEW n \in Nat, NEW g \in [SUBSET S -> Int], Upto(n, g)
      PROVE  \E h \in [SUBSET S -> Int] : Upto(n + 1, h)
  <2> DEFINE h == [s \in SUBSET S |-> IF Cardinality(s) <= n THEN g[s] ELSE Summed(g, f, s)]
  <2>1. h \in [SUBSET S -> Int]
    BY <1>2
  <2>2. ASSUME NEW s \in SUBSET S, Cardinality(s) <= n + 1 PROVE h[s] = Summed(h, f, s)
    <3>1. h[s] = Summed(g, f, s)
      BY <1>3
    <3>2. CASE s = {}
      BY <3>1, <3>2 DEF Summed
    <3>3. CASE s # {}
      <4> DEFINE r == s \ {CHOOSE x \in s : TRUE}
      <4>1. r \in SUBSET S /\ Cardinality(r) <= n
        BY <1>1, <2>2, <3>3
      <4>2. h[r] = g[r]
        BY <4>1
      <4> HIDE DEF h
      <4> QED BY <3>1, <3>3, <4>2 DEF Summed
    <3> QED BY <3>2, <3>3
  <2> QED BY <2>1, <2>2
<1>4. \E g \in [SUBSET S -> Int] : Upto(0, g)
  <2> DEFINE g == [s \in SUBSET S |-> 0]
  <2>1. ASSUME NEW s \in SUBSET S, Cardinality(s) <= 0 PROVE s = {}
    <3>1. Cardinality(s) \in Nat /\ IsFiniteSet(s)
      BY <1>1
    <3>2. Cardinality(s) = 0
      BY <2>1, <3>1
    <3> QED BY <3>1, <3>2, FS_EmptySet
  <2>3. g \in [SUBSET S -> Int]
    OBVIOUS
  <2>2. \A s \in SUBSET S : Cardinality(s) <= 0 => g[s] = Summed(g, f, s)
    BY <2>1 DEF Summed
  <2> HIDE DEF g
  <2> QED BY <2>2, <2>3
<1>5. ASSUME NEW m \in bad PROVE \E n \in bad : n < m
  <2>1. m \in Nat /\ m # 0
    BY <1>4, <1>5
  <2>2. m - 1 \in Nat /\ (m - 1) + 1 = m
    BY <2>1
  <2>3. ~\E g \in [SUBSET S -> Int] : Upto(m, g)
    BY <1>5
  <2> HIDE DEF Upto
  <2>4. m - 1 \in bad
    BY <1>3, <2>2, <2>3
  <2> HIDE DEF bad
  <2> QED BY <2>1, <2>2, <2>4
<1>6. bad = {}
  <2>1. bad \in SUBSET Nat
    OBVIOUS
  <2> HIDE DEF bad
  <2> SUFFICES ASSUME bad # {} PROVE FALSE
    OBVIOUS
  <2>2. PICK m \in bad : \A n \in bad : m <= n
    BY <2>1, LeastNatural
  <2>3. PICK n \in bad : n < m
    BY <1>5, <2>2
  <2> QED BY <2>1, <2>2, <2>3
<1>7. Cardinality(S) \in Nat
  BY FS_CardinalityType
<1>8. PICK g \in [SUBSET S -> Int] : Upto(Cardinality(S), g)
  BY <1>6, <1>7
<1>9. \A s \in SUBSET S : g[s] = Summed(g, f, s)
  BY <1>1, <1>8
<1>10. g = [s \in SUBSET S |-> g[s]]
  BY <1>8
<1> QED
  BY <1>9, <1>10 DEF Sums

(* There is only one way to sum the parts of a finite set.                 *)
LEMMA SumUnique ==
    ASSUME NEW S, IsFiniteSet(S), NEW f, NEW g, NEW h, Sums(g, f, S), Sums(h, f, S)
    PROVE  g = h
<1> DEFINE bad == {n \in Nat : \E s \in SUBSET S : n = Cardinality(s) /\ g[s] # h[s]}
<1>1. \A s \in SUBSET S : g[s] = Summed(g, f, s) /\ h[s] = Summed(h, f, s)
  BY DEF Sums
<1>2. ASSUME NEW m \in bad PROVE \E n \in bad : n < m
  <2>1. PICK s \in SUBSET S : m = Cardinality(s) /\ g[s] # h[s]
    BY <1>2
  <2>2. s # {}
    BY <1>1, <2>1 DEF Summed
  <2> DEFINE x == CHOOSE x \in s : TRUE
             r == s \ {x}
  <2>3. x \in s
    BY <2>2
  <2>4. g[r] # h[r]
    BY <1>1, <2>1, <2>2 DEF Summed
  <2> HIDE DEF x
  <2>5. IsFiniteSet(s) /\ m \in Nat /\ IsFiniteSet(r) /\ Cardinality(r) = m - 1
    BY <2>1, <2>3, FS_Subset, FS_RemoveElement, FS_CardinalityType
  <2>6. Cardinality(r) \in Nat
    BY <2>5, FS_CardinalityType
  <2>7. Cardinality(r) \in bad
    BY <2>4, <2>6
  <2> HIDE DEF bad
  <2>8. Cardinality(r) < m
    BY <2>5, <2>6
  <2> QED BY <2>7, <2>8
<1>3. bad = {}
  <2>1. bad \in SUBSET Nat
    OBVIOUS
  <2> HIDE DEF bad
  <2> SUFFICES ASSUME bad # {} PROVE FALSE
    OBVIOUS
  <2>2. PICK m \in bad : \A n \in bad : m <= n
    BY <2>1, LeastNatural
  <2>3. PICK n \in bad : n < m
    BY <1>2, <2>2
  <2> QED BY <2>1, <2>2, <2>3
<1>4. ASSUME NEW s \in SUBSET S PROVE g[s] = h[s]
  <2>1. IsFiniteSet(s) /\ Cardinality(s) \in Nat
    BY FS_Subset, FS_CardinalityType
  <2> QED BY <1>3, <2>1
<1> QED
  BY <1>4 DEF Sums

(* A sum of finitely many integers is an integer.                          *)
LEMMA SumIsInt ==
    ASSUME NEW S, IsFiniteSet(S), NEW f \in [S -> Int]
    PROVE  SumOver(f) \in Int
<1> DEFINE it == CHOOSE iter : Sums(iter, f, S)
<1>1. PICK g \in [SUBSET S -> Int] : Sums(g, f, S)
  BY SumExists
<1>2. Sums(it, f, S)
  BY <1>1
<1>3. SumOver(f) = it[S]
  <2>1. DOMAIN f = S
    OBVIOUS
  <2> QED BY <2>1 DEF SumOver, MapThenSumSet, MapThenFoldSet, Sums, Summed
<1> HIDE DEF it
<1>4. it = g
  BY <1>1, <1>2, SumUnique
<1> QED
  BY <1>3, <1>4

(* The least and the greatest of finitely many integers.                   *)
LEMMA ExtremesAreThere ==
    ASSUME NEW S \in SUBSET Int, IsFiniteSet(S), S # {}
    PROVE  /\ Max(S) \in S /\ \A x \in S : x <= Max(S)
           /\ Min(S) \in S /\ \A x \in S : Min(S) <= x
<1> DEFINE Cut(T) == T = {} \/ ((\E x \in T : \A y \in T : x <= y) /\ (\E x \in T : \A y \in T : y <= x))
           bad == {n \in Nat : \E T \in SUBSET S : n = Cardinality(T) /\ ~Cut(T)}
<1>1. ASSUME NEW T \in SUBSET S PROVE IsFiniteSet(T) /\ Cardinality(T) \in Nat
  BY FS_Subset, FS_CardinalityType
<1>2. ASSUME NEW m \in bad PROVE \E n \in bad : n < m
  <2>1. PICK T \in SUBSET S : m = Cardinality(T) /\ ~Cut(T)
    BY <1>2
  <2>2. PICK a \in T : TRUE
    BY <2>1
  <2> DEFINE R == T \ {a}
  <2>3. R \in SUBSET S /\ IsFiniteSet(T) /\ Cardinality(T) \in Nat /\ Cardinality(R) \in Nat
    BY <1>1
  <2>4. Cardinality(R) = m - 1
    BY <2>1, <2>2, <2>3, FS_RemoveElement
  <2>5. ~Cut(R)
    <3>1. CASE R = {}
      <4>1. T = {a} /\ a \in Int
        BY <2>2, <3>1
      <4>2. a <= a
        BY <4>1
      <4> QED BY <2>1, <4>1, <4>2
    <3>2. ASSUME NEW x \in R, \A y \in R : x <= y, NEW z \in R, \A y \in R : y <= z PROVE FALSE
      <4>1. a \in Int /\ x \in Int /\ z \in Int /\ \A y \in T : y \in Int /\ (y = a \/ y \in R)
        BY <2>2
      <4>2. \E u \in T : \A y \in T : u <= y
        <5>1. CASE a <= x
          <6>1. \A y \in T : a <= y
            BY <3>2, <4>1, <5>1
          <6> QED BY <2>2, <6>1
        <5>2. CASE x <= a
          <6>1. \A y \in T : x <= y
            BY <3>2, <4>1, <5>2
          <6> QED BY <6>1
        <5> QED BY <4>1, <5>1, <5>2
      <4>3. \E u \in T : \A y \in T : y <= u
        <5>1. CASE z <= a
          <6>1. \A y \in T : y <= a
            BY <3>2, <4>1, <5>1
          <6> QED BY <2>2, <6>1
        <5>2. CASE a <= z
          <6>1. \A y \in T : y <= z
            BY <3>2, <4>1, <5>2
          <6> QED BY <6>1
        <5> QED BY <4>1, <5>1, <5>2
      <4> QED BY <2>1, <4>2, <4>3
    <3> HIDE DEF R
    <3> QED BY <2>1, <3>1, <3>2
  <2> HIDE DEF Cut, R
  <2>6. m - 1 \in bad
    BY <2>3, <2>4, <2>5
  <2> HIDE DEF bad
  <2>7. m \in Nat
    BY <2>1, <2>3
  <2> QED BY <2>6, <2>7
<1>3. bad = {}
  <2>1. bad \in SUBSET Nat
    OBVIOUS
  <2> HIDE DEF bad
  <2> SUFFICES ASSUME bad # {} PROVE FALSE
    OBVIOUS
  <2>2. PICK m \in bad : \A n \in bad : m <= n
    BY <2>1, LeastNatural
  <2>3. PICK n \in bad : n < m
    BY <1>2, <2>2
  <2> QED BY <2>1, <2>2, <2>3
<1>4. Cut(S)
  <2> HIDE DEF Cut
  <2> QED BY <1>1, <1>3
<1>5. (\E x \in S : \A y \in S : x <= y) /\ (\E x \in S : \A y \in S : x >= y)
  <2>1. \A x, y \in S : y <= x <=> x >= y
    OBVIOUS
  <2> QED BY <1>4, <2>1
<1>6. Min(S) \in S /\ \A y \in S : Min(S) <= y
  BY <1>5 DEF Min
<1>7. Max(S) \in S /\ \A y \in S : Max(S) >= y
  BY <1>5 DEF Max
<1> QED BY <1>6, <1>7

----------------------------------------------------------------------------
(* The plans of the studies.                                               *)

(* The values at finitely many arguments are finitely many.                *)
LEMMA ImageIsFinite ==
    ASSUME NEW S, IsFiniteSet(S), NEW f
    PROVE  IsFiniteSet({f[x] : x \in S})
<1> DEFINE T == {f[x] : x \in S}
           g == [x \in S |-> f[x]]
<1>1. g \in Surjection(S, T)
  BY DEF Surjection
<1> HIDE DEF g, T
<1>2. IsFiniteSet(T)
  BY <1>1, FS_Surjection
<1> QED BY <1>2 DEF T

(* Sets written out are finite.                                            *)
LEMMA FewAreFinite ==
    \A x, y, z : IsFiniteSet({x}) /\ IsFiniteSet({x, y}) /\ IsFiniteSet({x, y, z})
<1> TAKE x, y, z
<1>1. IsFiniteSet({x})
  BY FS_Singleton
<1>2. IsFiniteSet({x} \cup {y})
  BY <1>1, FS_AddElement
<1>3. IsFiniteSet(({x} \cup {y}) \cup {z})
  BY <1>2, FS_AddElement
<1>4. {x} \cup {y} = {x, y} /\ ({x} \cup {y}) \cup {z} = {x, y, z}
  OBVIOUS
<1> QED BY <1>1, <1>2, <1>3, <1>4

(* A bar of the array has the prices its session gave it.                  *)
LEMMA BarIsPriced ==
    ASSUME NEW bs \in Seq(BarShapes), NEW j \in 1..Len(bs)
    PROVE  /\ bs[j].open \in Nat /\ bs[j].high \in Nat /\ bs[j].low \in Nat /\ bs[j].volume \in Nat
           /\ bs[j].close \in Nat \ {0} /\ bs[j].low <= bs[j].open /\ bs[j].open <= bs[j].high
<1>1. bs[j] \in BarShapes
  OBVIOUS
<1> QED
  BY <1>1, BarsArePriced DEF BarsArePriced

(* The windows of the studies, in the order the code has them.             *)
LEMMA WindowsArePositive ==
    /\ AtrPeriod \in Nat \ {0} /\ FastRsi \in Nat \ {0} /\ SlowRsi \in Nat \ {0}
    /\ Day5 \in Nat \ {0} /\ Day10 \in Nat \ {0} /\ Day20 \in Nat \ {0}
    /\ Day50 \in Nat \ {0} /\ Day60 \in Nat \ {0}
    /\ ShortHold \in Nat \ {0} /\ MidHold \in Nat \ {0} /\ LongHold \in Nat \ {0}
    /\ MaxBars \in Nat /\ StudyHistory \in Nat
    /\ Day5 <= Day10 /\ Day10 <= Day20 /\ Day20 <= Day50 /\ Day50 <= Day60
    /\ ShortHold <= MidHold /\ MidHold <= LongHold
    /\ Day20 <= StudyHistory + 1
BY WindowsOrdered DEF WindowsOrdered

(* The lowest low of the last bars is a whole number.                      *)
LEMMA LowsAreWhole ==
    ASSUME NEW bs \in Seq(BarShapes), NEW a \in Int, 1 <= a, a <= Len(bs)
    PROVE  LowestLow(bs, a..Len(bs)) \in Int
<1> DEFINE ks == a..Len(bs)
           S  == {bs[j].low : j \in ks}
<1>1. Len(bs) \in Nat /\ \A j \in ks : j \in 1..Len(bs)
  OBVIOUS
<1>2. S \in SUBSET Int
  BY <1>1, BarIsPriced
<1>3. IsFiniteSet(S)
  <2>1. IsFiniteSet(ks)
    BY <1>1, FS_Interval
  <2> DEFINE f == [j \in ks |-> bs[j].low]
  <2>2. S = {f[j] : j \in ks}
    OBVIOUS
  <2> HIDE DEF f, S, ks
  <2> QED BY <2>1, <2>2, ImageIsFinite
<1>4. S # {}
  <2>1. a \in ks
    BY <1>1
  <2>2. bs[a].low \in S
    BY <2>1
  <2> QED BY <2>2
<1> HIDE DEF S
<1>5. Min(S) \in S
  BY <1>2, <1>3, <1>4, ExtremesAreThere
<1>6. LowestLow(bs, ks) = Min(S)
  BY DEF LowestLow, S
<1> QED
  BY <1>2, <1>5, <1>6

(* The larger of two integers.                                             *)
LEMMA LargerOfTwo ==
    ASSUME NEW x \in Int, NEW y \in Int
    PROVE  Max({x, y}) \in Int /\ x <= Max({x, y}) /\ y <= Max({x, y}) /\ Max({x, y}) \in {x, y}
<1>1. IsFiniteSet({x, y})
  BY FewAreFinite
<1> QED
  BY <1>1, ExtremesAreThere

(* With two bars the average true range is a ratio of integers.            *)
LEMMA RangeIsWhole ==
    ASSUME NEW bs \in Seq(BarShapes), Len(bs) >= 2
    PROVE  Atr(bs)[1] \in Int /\ Atr(bs)[2] \in Nat \ {0}
<1> DEFINE n  == Len(bs)
           a  == Max({2, n - AtrPeriod + 1})
           ks == a..n
           f  == [j \in ks |-> TrueRange(bs[j], bs[j - 1])]
<1>1. n \in Nat /\ a \in Int /\ 2 <= a /\ a <= n
  <2> DEFINE b == n - AtrPeriod + 1
  <2>1. n \in Nat /\ 2 \in Int /\ 2 <= n
    OBVIOUS
  <2>2. b \in Int /\ b <= n
    BY <2>1, WindowsArePositive
  <2> HIDE DEF b, n
  <2>3. Max({2, b}) \in Int /\ 2 <= Max({2, b}) /\ Max({2, b}) \in {2, b}
    BY <2>1, <2>2, LargerOfTwo
  <2> QED BY <2>1, <2>2, <2>3 DEF b
<1> HIDE DEF a
<1>2. ASSUME NEW j \in ks PROVE TrueRange(bs[j], bs[j - 1]) \in Int
  <2>1. j \in 1..Len(bs) /\ j - 1 \in 1..Len(bs)
    BY <1>1
  <2> DEFINE x == bs[j].high - bs[j].low
             y == Distance(bs[j].high, bs[j - 1].close)
             z == Distance(bs[j].low, bs[j - 1].close)
  <2>2. bs[j].high \in Int /\ bs[j].low \in Int /\ bs[j - 1].close \in Int
    BY <2>1, BarIsPriced
  <2>7. ASSUME NEW u \in Int, NEW v \in Int PROVE Distance(u, v) \in Int
    <3>1. u - v \in Int /\ v - u \in Int
      OBVIOUS
    <3> QED BY <3>1, LargerOfTwo DEF Distance
  <2>8. x \in Int
    BY <2>2
  <2>9. y \in Int
    BY <2>2, <2>7
  <2>10. z \in Int
    BY <2>2, <2>7
  <2>3. x \in Int /\ y \in Int /\ z \in Int
    BY <2>8, <2>9, <2>10
  <2> HIDE DEF x, y, z
  <2>4. IsFiniteSet({x, y, z})
    BY FewAreFinite
  <2>5. Max({x, y, z}) \in {x, y, z}
    BY <2>3, <2>4, ExtremesAreThere
  <2>6. TrueRange(bs[j], bs[j - 1]) = Max({x, y, z})
    BY DEF TrueRange, x, y, z
  <2> QED BY <2>3, <2>5, <2>6
<1>3. f \in [ks -> Int]
  BY <1>2
<1>4. IsFiniteSet(ks) /\ Cardinality(ks) = n - a + 1
  BY <1>1, FS_Interval
<1>5. Atr(bs) = <<SumOver(f), Cardinality(ks)>>
  BY DEF Atr, a
<1> HIDE DEF f, ks
<1>6. SumOver(f) \in Int
  BY <1>3, <1>4, SumIsInt
<1> QED
  BY <1>1, <1>4, <1>5, <1>6

(* Every way to place a stop gives a whole number of hundredths.           *)
LEMMA StopIsWhole ==
    ASSUME NEW bs \in Seq(BarShapes), NEW m \in StopMethods, HasStop(m, bs)
    PROVE  StopFor(m, bs) \in Int /\ Last(bs).close \in Nat \ {0}
<1>1. Len(bs) \in Nat \ {0}
  BY DEF HasStop
<1>2. bs[Len(bs)].close \in Nat \ {0}
  BY <1>1, BarIsPriced
<1>3. ASSUME NEW d \in Nat \ {0} PROVE LowestLow(bs, Max({1, Len(bs) - d + 1})..Len(bs)) \in Int
  <2> DEFINE a == Max({1, Len(bs) - d + 1})
  <2>1. a \in Int /\ 1 <= a /\ a <= Len(bs)
    <3> DEFINE b == Len(bs) - d + 1
    <3>1. b \in Int /\ b <= Len(bs) /\ 1 \in Int
      BY <1>1
    <3> HIDE DEF b
    <3>2. Max({1, b}) \in Int /\ 1 <= Max({1, b}) /\ Max({1, b}) \in {1, b}
      BY <3>1, LargerOfTwo
    <3> QED BY <1>1, <3>1, <3>2 DEF b
  <2> HIDE DEF a
  <2>2. LowestLow(bs, a..Len(bs)) \in Int
    BY <2>1, LowsAreWhole
  <2> QED BY <2>2 DEF a
<1>4. Day5 \in Nat \ {0} /\ Day10 \in Nat \ {0}
  BY WindowsArePositive
<1>5. CASE m \in {"low5", "low10"}
  <2>1. /\ LowestLow(bs, Max({1, Len(bs) - Day5 + 1})..Len(bs)) \in Int
        /\ LowestLow(bs, Max({1, Len(bs) - Day10 + 1})..Len(bs)) \in Int
    BY <1>3, <1>4
  <2>2. \/ StopFor(m, bs) = 100 * LowestLow(bs, Max({1, Len(bs) - Day5 + 1})..Len(bs))
        \/ StopFor(m, bs) = 100 * LowestLow(bs, Max({1, Len(bs) - Day10 + 1})..Len(bs))
    BY <1>5 DEF StopFor
  <2> QED BY <1>2, <2>1, <2>2 DEF Last
<1>6. CASE m \in {"pct3", "pct5"}
  BY <1>2, <1>6 DEF StopFor, Last
<1>7. CASE m \in {"atr1_5", "atr2"}
  <2> DEFINE a == Atr(bs)
  <2>1. a[1] \in Int /\ a[2] \in Nat \ {0}
    BY <1>7, RangeIsWhole DEF HasStop
  <2>2. \E h \in {3, 4} : StopFor(m, bs) = 100 * bs[Len(bs)].close + (-50 * h * a[1]) \div a[2]
    BY <1>7 DEF StopFor
  <2> HIDE DEF a
  <2>3. \A h \in {3, 4} : (-50 * h * a[1]) \div a[2] \in Int
    BY <2>1
  <2> QED BY <1>2, <2>2, <2>3 DEF Last
<1> QED
  BY <1>5, <1>6, <1>7 DEF StopMethods

StudyBars == bars \in Seq(BarShapes)

(* The array only ever holds bars a session may add.                       *)
LEMMA StudyBarsAlways == StudiesSpec => []StudyBars
<1>1. StudiesInit => StudyBars
  BY DEF StudiesInit, StudyBars
<1>2. StudyBars /\ [StudiesNext]_bars => StudyBars'
  BY DEF StudyBars, StudiesNext, AddBar
<1> QED
  BY <1>1, <1>2, PTL DEF StudiesSpec

(* Every plan that a study makes of the bars is sound, wherever its stop   *)
(* is placed (baselines.ts:84-137 on risk.ts).                             *)
THEOREM StudyPlansAreSound == StudiesSpec => []PlanIsSound
<1>1. StudyBars => PlanIsSound
  <2> SUFFICES ASSUME StudyBars, NEW p \in PlansOf(bars) PROVE SoundPlan(p)
    BY DEF PlanIsSound
  <2>1. PICK m \in StopMethods : HasStop(m, bars) /\ p = PlanFromHistory(m, bars)
    BY DEF PlansOf
  <2>2. StopFor(m, bars) \in Int /\ Last(bars).close \in Nat \ {0}
    BY <2>1, StopIsWhole DEF StudyBars
  <2> QED
    BY <2>1, <2>2, PlanIsSoundAlways DEF PlanFromHistory
<1> QED
  BY <1>1, StudyBarsAlways, PTL

----------------------------------------------------------------------------
(* Walks along bars, as the equation they take a solution of: the bars of  *)
(* E end a walk, with the outcome in f.                                    *)

Walks(w, a, b, E, f) == w = [j \in a..b |-> IF j \in E THEN f[j] ELSE w[j + 1]]

(* A walk that ends exists: each bar leads to the first end after it.      *)
LEMMA WalkExists ==
    ASSUME NEW a \in Int, NEW b \in Int, NEW E, b \in E, NEW f
    PROVE  \E w : Walks(w, a, b, E, f)
<1> DEFINE First(j, i) == i \in j..b /\ i \in E /\ \A x \in j..b : x \in E => i <= x
           first(j) == CHOOSE i : First(j, i)
           w == [j \in a..b |-> f[first(j)]]
<1>1. ASSUME NEW j \in Int, j <= b PROVE \E i : First(j, i)
  <2> DEFINE S == {n \in Nat : j + n \in E /\ j + n <= b}
  <2>1. b - j \in S
    BY <1>1
  <2>2. PICK m \in S : \A n \in S : m <= n
    <3>1. S \in SUBSET Nat
      OBVIOUS
    <3> HIDE DEF S
    <3> QED BY <2>1, <3>1, LeastNatural
  <2>3. j + m \in j..b /\ j + m \in E
    BY <2>2
  <2>4. ASSUME NEW x \in j..b, x \in E PROVE j + m <= x
    <3>1. x - j \in Nat /\ j + (x - j) = x /\ x <= b
      BY <2>4
    <3>2. x - j \in S
      BY <2>4, <3>1
    <3> QED BY <2>2, <3>1, <3>2
  <2> QED BY <2>3, <2>4
<1>2. ASSUME NEW j \in Int, j <= b PROVE First(j, first(j))
  BY <1>1, <1>2
<1>3. ASSUME NEW j \in Int, NEW i, NEW x, First(j, i), First(j, x) PROVE i = x
  BY <1>3
<1>4. ASSUME NEW j \in a..b PROVE w[j] = IF j \in E THEN f[j] ELSE w[j + 1]
  <2>1. CASE j \in E
    <3>1. First(j, j)
      BY <2>1
    <3>2. First(j, first(j))
      BY <1>2
    <3> HIDE DEF First, first
    <3>3. first(j) = j
      BY <1>3, <3>1, <3>2
    <3> QED BY <2>1, <3>3
  <2>2. CASE j \notin E
    <3>1. j + 1 \in a..b
      BY <2>2
    <3>2. First(j, first(j)) /\ First(j + 1, first(j + 1))
      BY <1>2, <3>1
    <3>3. First(j, first(j + 1))
      BY <2>2, <3>2
    <3> HIDE DEF First, first
    <3>4. first(j) = first(j + 1)
      BY <1>3, <3>2, <3>3
    <3> QED BY <2>2, <3>1, <3>4
  <2> QED BY <2>1, <2>2
<1> HIDE DEF first
<1>5. w = [j \in a..b |-> w[j]]
  OBVIOUS
<1>6. w = [j \in a..b |-> IF j \in E THEN f[j] ELSE w[j + 1]]
  BY <1>4
<1> QED BY <1>6 DEF Walks

(* Two walks that end at the same bars have related outcomes when the ends *)
(* have.                                                                   *)
LEMMA WalksAgree ==
    ASSUME NEW a \in Int, NEW b \in Int, NEW E, b \in E, NEW f, NEW g, NEW w, NEW u,
           Walks(w, a, b, E, f), Walks(u, a, b, E, g),
           \A j \in a..b : j \in E => f[j] = Min(g[j])
    PROVE  \A j \in a..b : w[j] = Min(u[j])
<1> DEFINE bad == {n \in Nat : b - n \in a..b /\ w[b - n] # Min(u[b - n])}
<1>1. \A j \in a..b : /\ w[j] = IF j \in E THEN f[j] ELSE w[j + 1]
                      /\ u[j] = IF j \in E THEN g[j] ELSE u[j + 1]
  BY DEF Walks
<1>2. ASSUME NEW m \in bad PROVE \E n \in bad : n < m
  <2> DEFINE j == b - m
  <2>1. m \in Nat /\ j \in a..b /\ w[j] # Min(u[j])
    BY <1>2
  <2>2. j \notin E
    BY <1>1, <2>1
  <2>3. w[j + 1] # Min(u[j + 1])
    BY <1>1, <2>1, <2>2
  <2>4. m # 0
    BY <2>2
  <2>5. m - 1 \in Nat /\ b - (m - 1) = j + 1 /\ j + 1 \in a..b
    BY <2>1, <2>4
  <2>6. m - 1 \in bad
    BY <2>3, <2>5
  <2> HIDE DEF bad
  <2> QED BY <2>1, <2>6
<1>3. bad = {}
  <2>1. bad \in SUBSET Nat
    OBVIOUS
  <2> HIDE DEF bad
  <2> SUFFICES ASSUME bad # {} PROVE FALSE
    OBVIOUS
  <2>2. PICK m \in bad : \A n \in bad : m <= n
    BY <2>1, LeastNatural
  <2>3. PICK n \in bad : n < m
    BY <1>2, <2>2
  <2> QED BY <2>1, <2>2, <2>3
<1> QED
  <2> SUFFICES ASSUME NEW j \in a..b, w[j] # Min(u[j]) PROVE FALSE
    OBVIOUS
  <2>1. b - j \in Nat /\ b - (b - j) = j
    OBVIOUS
  <2>2. b - j \in bad
    BY <2>1
  <2> HIDE DEF bad
  <2> QED BY <1>3, <2>2

----------------------------------------------------------------------------
(* One bar: what the code pays, and what the paths of a price would.       *)

StopMet(entry, e, p)   == e.sl # 0 /\ 100 * p <= entry * (100 - e.sl)
TargetMet(entry, e, p) == e.tp # 0 /\ 100 * p >= entry * (100 + e.tp)
Met(entry, e, p)       == StopMet(entry, e, p) \/ TargetMet(entry, e, p)

Leg(entry, e, p, q) ==
    IF Met(entry, e, p) THEN {100 * p}
    ELSE IF StopMet(entry, e, q) THEN {entry * (100 - e.sl)}
    ELSE IF TargetMet(entry, e, q) THEN {entry * (100 + e.tp)} ELSE {}

PathOf(entry, e, b, first, second) ==
    IF Leg(entry, e, b.open, first) # {} THEN Leg(entry, e, b.open, first) ELSE Leg(entry, e, first, second)

WaysOf(entry, e, b) == {PathOf(entry, e, b, b.low, b.high), PathOf(entry, e, b, b.high, b.low)}

\* Does the code leave at a bar, and for what; later means after the entry bar.
Leaves(entry, e, b, later) ==
    (later /\ Met(entry, e, b.open)) \/ StopMet(entry, e, b.low) \/ TargetMet(entry, e, b.high)

Paid(entry, e, b, later) ==
    IF later /\ Met(entry, e, b.open) THEN 100 * b.open
    ELSE IF StopMet(entry, e, b.low) THEN entry * (100 - e.sl) ELSE entry * (100 + e.tp)

(* No exit holds longer than the longest hold.                             *)
LEMMA HoldIsBounded ==
    ASSUME NEW e \in Exits
    PROVE  e.hold \in Nat \ {0} /\ e.hold <= LongHold
<1>1. e.hold \in {ShortHold, MidHold, LongHold}
  BY DEF Exits
<1> QED
  BY <1>1, WindowsArePositive

(* The stop is below the entry and the target above it, unless there is    *)
(* none.                                                                   *)
LEMMA ExitLevels ==
    ASSUME NEW entry \in Nat, NEW e \in Exits
    PROVE  /\ entry * (100 - e.sl) \in Int /\ entry * (100 + e.tp) \in Int
           /\ entry * (100 - e.sl) <= 100 * entry /\ 100 * entry <= entry * (100 + e.tp)
           /\ e.sl # 0 /\ entry # 0 => entry * (100 - e.sl) < 100 * entry
           /\ e.tp # 0 /\ entry # 0 => 100 * entry < entry * (100 + e.tp)
           /\ entry = 0 => entry * (100 - e.sl) = 0 /\ entry * (100 + e.tp) = 0
           /\ e.hold \in {ShortHold, MidHold, LongHold}
<1>1. e.sl \in {0, 3, 5, 8, 10} /\ e.tp \in {0, 5, 6, 8, 10} /\ e.hold \in {ShortHold, MidHold, LongHold}
  BY DEF Exits
<1>2. /\ entry * (100 - e.sl) \in Int /\ entry * (100 - e.sl) <= 100 * entry
      /\ e.sl # 0 /\ entry # 0 => entry * (100 - e.sl) < 100 * entry
      /\ entry = 0 => entry * (100 - e.sl) = 0
  BY <1>1
<1>3. /\ entry * (100 + e.tp) \in Int /\ 100 * entry <= entry * (100 + e.tp)
      /\ e.tp # 0 /\ entry # 0 => 100 * entry < entry * (100 + e.tp)
      /\ entry = 0 => entry * (100 + e.tp) = 0
  BY <1>1
<1> QED BY <1>1, <1>2, <1>3

(* The least of one number, and of two.                                    *)
LEMMA LeastOfOne == \A x \in Int : Min({x}) = x
<1> SUFFICES ASSUME NEW x \in Int PROVE Min({x}) = x
  OBVIOUS
<1>1. Min({x}) \in {x}
  BY FewAreFinite, ExtremesAreThere
<1> QED BY <1>1

LEMMA LeastOfTwo == \A x, y \in Int : x <= y => Min({x, y}) = x
<1> SUFFICES ASSUME NEW x \in Int, NEW y \in Int, x <= y PROVE Min({x, y}) = x
  OBVIOUS
<1>1. IsFiniteSet({x, y}) /\ {x, y} \in SUBSET Int /\ {x, y} # {}
  BY FewAreFinite
<1>2. Min({x, y}) \in {x, y} /\ \A z \in {x, y} : Min({x, y}) <= z
  BY <1>1, ExtremesAreThere
<1> QED BY <1>2

(* On one bar the code pays the least of what the two paths would get, and *)
(* leaves on exactly the bars on which they do.                            *)
LEMMA OneBar ==
    ASSUME NEW entry \in Nat, NEW e \in Exits, NEW b, NEW later \in BOOLEAN,
           b.open \in Nat, b.low \in Nat, b.high \in Nat, b.low <= b.open, b.open <= b.high,
           ~later => b.open = entry
    PROVE  /\ Leaves(entry, e, b, later) =>
                /\ PathOf(entry, e, b, b.low, b.high) # {}
                /\ PathOf(entry, e, b, b.high, b.low) # {}
                /\ Paid(entry, e, b, later) = Min(UNION WaysOf(entry, e, b))
           /\ ~Leaves(entry, e, b, later) =>
                /\ PathOf(entry, e, b, b.low, b.high) = {}
                /\ PathOf(entry, e, b, b.high, b.low) = {}
<1> DEFINE S == entry * (100 - e.sl)
           T == entry * (100 + e.tp)
           o == b.open
           l == b.low
           h == b.high
           down == PathOf(entry, e, b, l, h)
           up == PathOf(entry, e, b, h, l)
<1>1. S \in Int /\ T \in Int /\ S <= 100 * entry /\ 100 * entry <= T /\ S <= T
  BY ExitLevels
<1>2. /\ e.sl # 0 /\ entry # 0 => S < 100 * entry
      /\ e.tp # 0 /\ entry # 0 => 100 * entry < T
      /\ entry = 0 => S = 0 /\ T = 0
  BY ExitLevels
<1>3. \A p : /\ StopMet(entry, e, p) <=> e.sl # 0 /\ 100 * p <= S
             /\ TargetMet(entry, e, p) <=> e.tp # 0 /\ 100 * p >= T
             /\ Met(entry, e, p) <=> StopMet(entry, e, p) \/ TargetMet(entry, e, p)
  BY DEF StopMet, TargetMet, Met
<1>4. \A p, q : Leg(entry, e, p, q) = IF Met(entry, e, p) THEN {100 * p}
                                      ELSE IF StopMet(entry, e, q) THEN {S}
                                      ELSE IF TargetMet(entry, e, q) THEN {T} ELSE {}
  BY DEF Leg
<1>5. /\ down = IF Leg(entry, e, o, l) # {} THEN Leg(entry, e, o, l) ELSE Leg(entry, e, l, h)
      /\ up = IF Leg(entry, e, o, h) # {} THEN Leg(entry, e, o, h) ELSE Leg(entry, e, h, l)
  BY DEF PathOf
<1>6. /\ UNION WaysOf(entry, e, b) = down \cup up
      /\ Leaves(entry, e, b, later) <=> \/ later /\ Met(entry, e, o)
                                        \/ StopMet(entry, e, l) \/ TargetMet(entry, e, h)
      /\ Paid(entry, e, b, later) = IF later /\ Met(entry, e, o) THEN 100 * o
                                    ELSE IF StopMet(entry, e, l) THEN S ELSE T
  BY DEF WaysOf, Leaves, Paid
<1>7. o \in Nat /\ l \in Nat /\ h \in Nat /\ l <= o /\ o <= h /\ (~later => o = entry)
  OBVIOUS
<1> HIDE DEF S, T, o, l, h, down, up
<1> SUFFICES /\ Leaves(entry, e, b, later) =>
                  down # {} /\ up # {} /\ Paid(entry, e, b, later) = Min(down \cup up)
             /\ ~Leaves(entry, e, b, later) => down = {} /\ up = {}
  BY <1>6 DEF down, up, l, h
<1>8. /\ StopMet(entry, e, h) => StopMet(entry, e, o)
      /\ StopMet(entry, e, o) => StopMet(entry, e, l)
      /\ TargetMet(entry, e, l) => TargetMet(entry, e, o)
      /\ TargetMet(entry, e, o) => TargetMet(entry, e, h)
  BY <1>1, <1>3, <1>7
<1>9. CASE Met(entry, e, o)
  <2>1. down = {100 * o} /\ up = {100 * o}
    <3>1. Leg(entry, e, o, l) = {100 * o} /\ Leg(entry, e, o, h) = {100 * o}
      BY <1>4, <1>9
    <3> QED BY <1>5, <3>1
  <2>2. Min(down \cup up) = 100 * o
    <3>1. down \cup up = {100 * o} /\ 100 * o \in Int
      BY <1>7, <2>1
    <3> QED BY <3>1, LeastOfOne
  <2>3. CASE later
    BY <1>6, <1>9, <2>1, <2>2, <2>3
  <2>4. CASE ~later
    <3>1. o = entry
      BY <1>7, <2>4
    <3>2. CASE StopMet(entry, e, l)
      <4>1. S = 100 * o
        BY <1>1, <1>2, <1>3, <1>7, <1>9, <3>1, <3>2
      <4> QED BY <1>6, <2>1, <2>2, <2>4, <3>2, <4>1
    <3>3. CASE ~StopMet(entry, e, l)
      <4>1. TargetMet(entry, e, o) /\ TargetMet(entry, e, h)
        BY <1>3, <1>8, <1>9, <3>3
      <4>2. T = 100 * o
        BY <1>1, <1>2, <1>3, <1>7, <3>1, <4>1
      <4> QED BY <1>6, <2>1, <2>2, <2>4, <3>3, <4>1, <4>2
    <3> QED BY <3>2, <3>3
  <2> QED BY <2>3, <2>4
<1>10. CASE ~Met(entry, e, o) /\ StopMet(entry, e, l)
  <2>1. ~StopMet(entry, e, o) /\ ~StopMet(entry, e, h) /\ ~TargetMet(entry, e, o)
    BY <1>3, <1>8, <1>10
  <2>2. down = {S}
    BY <1>4, <1>5, <1>10
  <2>3. up = {S} \/ up = {T}
    BY <1>3, <1>4, <1>5, <1>10, <2>1
  <2>4. Min(down \cup up) = S
    <3>1. down \cup up = {S} \/ down \cup up = {S, T}
      BY <2>2, <2>3
    <3> QED BY <1>1, <3>1, LeastOfOne, LeastOfTwo
  <2> QED BY <1>6, <1>10, <2>2, <2>3, <2>4
<1>11. CASE ~Met(entry, e, o) /\ ~StopMet(entry, e, l)
  <2>1. ~TargetMet(entry, e, l) /\ ~StopMet(entry, e, h) /\ ~Met(entry, e, l)
    BY <1>3, <1>8, <1>11
  <2>2. CASE TargetMet(entry, e, h)
    <3>1. down = {T} /\ up = {T}
      <4>1. /\ Leg(entry, e, o, l) = {} /\ Leg(entry, e, l, h) = {T}
            /\ Leg(entry, e, o, h) = {T}
        <5>1. ~StopMet(entry, e, o) /\ ~TargetMet(entry, e, o)
          BY <1>3, <1>11
        <5> QED BY <1>4, <1>11, <2>1, <2>2, <5>1
      <4> QED BY <1>5, <4>1
    <3>2. down \cup up = {T}
      BY <3>1
    <3>3. Min(down \cup up) = T
      BY <1>1, <3>2, LeastOfOne
    <3> QED BY <1>6, <1>11, <2>2, <3>1, <3>3
  <2>3. CASE ~TargetMet(entry, e, h)
    <3>1. ~Met(entry, e, h)
      BY <1>3, <2>1, <2>3
    <3>2. down = {} /\ up = {}
      BY <1>4, <1>5, <1>11, <2>1, <2>3, <3>1
    <3> QED BY <1>6, <1>11, <2>3, <3>2
  <2> QED BY <2>2, <2>3
<1> QED BY <1>9, <1>10, <1>11

\* The bars that end a walk from bar k + 1, and what is paid there.
Ends(bs, k, e) ==
    LET entry == bs[k + 1].open
    IN  {j \in (k + 1)..(k + e.hold + 1) : j > k + e.hold \/ Leaves(entry, e, bs[j], j > k + 1)}

PaidAt(bs, k, e) ==
    [j \in (k + 1)..(k + e.hold + 1) |->
        IF j > k + e.hold THEN 100 * bs[k + e.hold].close
        ELSE Paid(bs[k + 1].open, e, bs[j], j > k + 1)]

(* The loop of the code is such a walk.                                    *)
LEMMA SimulateWalks ==
    ASSUME NEW bs, NEW k \in Nat, NEW e, e.hold \in Nat
    PROVE  \E w : /\ Walks(w, k + 1, k + e.hold + 1, Ends(bs, k, e), PaidAt(bs, k, e))
                  /\ Simulate(bs, k, e) = w[k + 1]
<1> DEFINE a == k + 1
           b == k + e.hold + 1
           E == Ends(bs, k, e)
           f == PaidAt(bs, k, e)
           entry == bs[k + 1].open
           stop == entry * (100 - e.sl)
           target == entry * (100 + e.tp)
           Eq(w) == w = [j \in (k + 1)..(k + e.hold + 1) |->
                IF j > k + e.hold THEN 100 * bs[k + e.hold].close
                ELSE IF j > k + 1 /\ ((e.sl # 0 /\ 100 * bs[j].open <= stop) \/ (e.tp # 0 /\ 100 * bs[j].open >= target))
                     THEN 100 * bs[j].open
                ELSE IF (e.sl # 0 /\ 100 * bs[j].low <= stop) THEN stop
                ELSE IF (e.tp # 0 /\ 100 * bs[j].high >= target) THEN target
                ELSE w[j + 1]]
           it == CHOOSE w : Eq(w)
<1>1. a \in Int /\ b \in Int /\ b \in E
  BY DEF Ends
<1>2. ASSUME NEW w PROVE Walks(w, a, b, E, f) <=> Eq(w)
  <2> DEFINE x(j) == IF j \in E THEN f[j] ELSE w[j + 1]
             y(j) == IF j > k + e.hold THEN 100 * bs[k + e.hold].close
                ELSE IF j > k + 1 /\ ((e.sl # 0 /\ 100 * bs[j].open <= stop) \/ (e.tp # 0 /\ 100 * bs[j].open >= target))
                     THEN 100 * bs[j].open
                ELSE IF (e.sl # 0 /\ 100 * bs[j].low <= stop) THEN stop
                ELSE IF (e.tp # 0 /\ 100 * bs[j].high >= target) THEN target
                ELSE w[j + 1]
  <2>1. ASSUME NEW j \in (k + 1)..(k + e.hold + 1) PROVE x(j) = y(j)
    <3> DEFINE later == j > k + 1
    <3>1. CASE j > k + e.hold
      BY <3>1 DEF Ends, PaidAt
    <3>2. CASE ~(j > k + e.hold)
      <4>1. j \in E <=> Leaves(entry, e, bs[j], later)
        BY <3>2 DEF Ends
      <4>2. f[j] = Paid(entry, e, bs[j], later)
        BY <3>2 DEF PaidAt
      <4>3. y(j) = IF later /\ Met(entry, e, bs[j].open) THEN 100 * bs[j].open
                   ELSE IF StopMet(entry, e, bs[j].low) THEN stop
                   ELSE IF TargetMet(entry, e, bs[j].high) THEN target
                   ELSE w[j + 1]
        BY <3>2 DEF Met, StopMet, TargetMet
      <4> HIDE DEF y, later, E, f
      <4>4. /\ Leaves(entry, e, bs[j], later) <=>
                 \/ later /\ Met(entry, e, bs[j].open)
                 \/ StopMet(entry, e, bs[j].low) \/ TargetMet(entry, e, bs[j].high)
            /\ Paid(entry, e, bs[j], later) =
                 IF later /\ Met(entry, e, bs[j].open) THEN 100 * bs[j].open
                 ELSE IF StopMet(entry, e, bs[j].low) THEN stop ELSE target
        BY DEF Leaves, Paid
      <4> HIDE DEF entry, stop, target
      <4> QED BY <4>1, <4>2, <4>3, <4>4
    <3> QED BY <3>1, <3>2
  <2> HIDE DEF x, y
  <2>2. [j \in (k + 1)..(k + e.hold + 1) |-> x(j)] = [j \in (k + 1)..(k + e.hold + 1) |-> y(j)]
    BY <2>1
  <2>3. Walks(w, a, b, E, f) <=> w = [j \in (k + 1)..(k + e.hold + 1) |-> x(j)]
    BY DEF Walks, x
  <2>4. Eq(w) <=> w = [j \in (k + 1)..(k + e.hold + 1) |-> y(j)]
    BY DEF y
  <2> QED BY <2>2, <2>3, <2>4
<1>3. Simulate(bs, k, e) = it[k + 1]
  BY DEF Simulate
<1> HIDE DEF a, b, E, f, Eq
<1>4. \E w : Eq(w)
  BY <1>1, <1>2, WalkExists
<1>5. Eq(it)
  BY <1>4
<1> QED BY <1>2, <1>3, <1>5 DEF a, b, E, f

\* What the worst path gets, as the equation of the property.
SoldAt(bs, k, e, u) ==
    u = [j \in (k + 1)..(k + e.hold + 1) |->
           IF j > k + e.hold THEN {100 * bs[k + e.hold].close}
           ELSE UNION {IF w = {} THEN u[j + 1] ELSE w : w \in WaysOf(bs[k + 1].open, e, bs[j])}]

GotAt(bs, k, e) ==
    [j \in (k + 1)..(k + e.hold + 1) |->
        IF j > k + e.hold THEN {100 * bs[k + e.hold].close}
        ELSE UNION WaysOf(bs[k + 1].open, e, bs[j])]

(* A bar of a purchase: what OneBar says of it.                            *)
LEMMA BarLeaves ==
    ASSUME NEW bs \in Seq(BarShapes), NEW k \in Nat, NEW e \in Exits, NEW j \in (k + 1)..(k + e.hold),
           k + e.hold <= Len(bs)
    PROVE  LET entry == bs[k + 1].open
               later == j > k + 1
           IN  /\ Leaves(entry, e, bs[j], later) =>
                     /\ PathOf(entry, e, bs[j], bs[j].low, bs[j].high) # {}
                     /\ PathOf(entry, e, bs[j], bs[j].high, bs[j].low) # {}
                     /\ Paid(entry, e, bs[j], later) = Min(UNION WaysOf(entry, e, bs[j]))
               /\ ~Leaves(entry, e, bs[j], later) =>
                     /\ PathOf(entry, e, bs[j], bs[j].low, bs[j].high) = {}
                     /\ PathOf(entry, e, bs[j], bs[j].high, bs[j].low) = {}
<1> DEFINE entry == bs[k + 1].open
           b == bs[j]
           later == j > k + 1
<1>1. e.hold \in Nat
  BY HoldIsBounded
<1>2. j \in 1..Len(bs) /\ k + 1 \in 1..Len(bs)
  <2>1. Len(bs) \in Nat
    OBVIOUS
  <2> HIDE DEF entry, b, later
  <2> QED BY <1>1, <2>1
<1>3. entry \in Nat
  BY <1>2, BarIsPriced
<1>4. /\ b.open \in Nat /\ b.low \in Nat /\ b.high \in Nat
      /\ b.low <= b.open /\ b.open <= b.high
  BY <1>2, BarIsPriced
<1>5. later \in BOOLEAN /\ (~later => b.open = entry)
  BY <1>1
<1> HIDE DEF entry, b, later
<1>6. /\ Leaves(entry, e, b, later) =>
           /\ PathOf(entry, e, b, b.low, b.high) # {}
           /\ PathOf(entry, e, b, b.high, b.low) # {}
           /\ Paid(entry, e, b, later) = Min(UNION WaysOf(entry, e, b))
      /\ ~Leaves(entry, e, b, later) =>
           /\ PathOf(entry, e, b, b.low, b.high) = {}
           /\ PathOf(entry, e, b, b.high, b.low) = {}
  BY <1>3, <1>4, <1>5, OneBar
<1> QED BY <1>6 DEF entry, b, later

(* The worst path of the property is such a walk as well, to the same      *)
(* ends.                                                                   *)
LEMMA SoldWalks ==
    ASSUME NEW bs \in Seq(BarShapes), NEW k \in Nat, NEW e \in Exits, k + e.hold <= Len(bs), NEW u
    PROVE  SoldAt(bs, k, e, u) <=> Walks(u, k + 1, k + e.hold + 1, Ends(bs, k, e), GotAt(bs, k, e))
<1> DEFINE entry == bs[k + 1].open
           E == Ends(bs, k, e)
           f == GotAt(bs, k, e)
           x(j) == IF j \in E THEN f[j] ELSE u[j + 1]
           y(j) == IF j > k + e.hold THEN {100 * bs[k + e.hold].close}
                   ELSE UNION {IF w = {} THEN u[j + 1] ELSE w : w \in WaysOf(entry, e, bs[j])}
<1>0. e.hold \in Nat
  BY HoldIsBounded
<1>1. ASSUME NEW j \in (k + 1)..(k + e.hold + 1) PROVE x(j) = y(j)
  <2>1. CASE j > k + e.hold
    BY <1>0, <2>1 DEF Ends, GotAt
  <2>2. CASE ~(j > k + e.hold)
    <3> DEFINE later == j > k + 1
               down == PathOf(entry, e, bs[j], bs[j].low, bs[j].high)
               up == PathOf(entry, e, bs[j], bs[j].high, bs[j].low)
    <3>1. j \in (k + 1)..(k + e.hold)
      BY <1>0, <2>2
    <3>2. /\ Leaves(entry, e, bs[j], later) => down # {} /\ up # {}
          /\ ~Leaves(entry, e, bs[j], later) => down = {} /\ up = {}
      BY <3>1, BarLeaves
    <3>3. (j \in E <=> Leaves(entry, e, bs[j], later)) /\ f[j] = UNION WaysOf(entry, e, bs[j])
      BY <1>0, <2>2 DEF Ends, GotAt
    <3>4. WaysOf(entry, e, bs[j]) = {down, up}
      BY DEF WaysOf
    <3>5. y(j) = UNION {IF w = {} THEN u[j + 1] ELSE w : w \in WaysOf(entry, e, bs[j])}
      BY <2>2
    <3> HIDE DEF down, up, later, entry, E, f, y
    <3>6. CASE Leaves(entry, e, bs[j], later)
      <4>1. y(j) = down \cup up
        BY <3>2, <3>4, <3>5, <3>6
      <4>2. f[j] = down \cup up
        BY <3>3, <3>4
      <4> QED BY <3>3, <3>6, <4>1, <4>2
    <3>7. CASE ~Leaves(entry, e, bs[j], later)
      <4>1. y(j) = u[j + 1]
        BY <3>2, <3>4, <3>5, <3>7
      <4> QED BY <3>3, <3>7, <4>1
    <3> QED BY <3>6, <3>7
  <2> QED BY <2>1, <2>2
<1> HIDE DEF x, y
<1>2. [j \in (k + 1)..(k + e.hold + 1) |-> x(j)] = [j \in (k + 1)..(k + e.hold + 1) |-> y(j)]
  BY <1>1
<1>3. Walks(u, k + 1, k + e.hold + 1, E, f) <=> u = [j \in (k + 1)..(k + e.hold + 1) |-> x(j)]
  BY DEF Walks, x
<1>4. SoldAt(bs, k, e, u) <=> u = [j \in (k + 1)..(k + e.hold + 1) |-> y(j)]
  BY DEF SoldAt, y
<1> QED BY <1>2, <1>3, <1>4

(* The code pays the least of what the paths would get.                    *)
LEMMA SimulateIsWorst ==
    ASSUME NEW bs \in Seq(BarShapes), NEW k \in Nat, NEW e \in Exits, k + e.hold <= Len(bs), NEW u,
           SoldAt(bs, k, e, u)
    PROVE  Simulate(bs, k, e) = Min(u[k + 1])
<1> DEFINE a == k + 1
           b == k + e.hold + 1
           E == Ends(bs, k, e)
           f == PaidAt(bs, k, e)
           g == GotAt(bs, k, e)
<1>1. e.hold \in Nat \ {0}
  BY HoldIsBounded
<1>2. a \in Int /\ b \in Int /\ a \in a..b /\ b \in E
  BY <1>1 DEF Ends
<1>3. PICK w : Walks(w, a, b, E, f) /\ Simulate(bs, k, e) = w[a]
  BY <1>1, SimulateWalks
<1>4. Walks(u, a, b, E, g)
  BY SoldWalks
<1>5. ASSUME NEW j \in a..b, j \in E PROVE f[j] = Min(g[j])
  <2>1. CASE j > k + e.hold
    <3>1. f[j] = 100 * bs[k + e.hold].close /\ g[j] = {100 * bs[k + e.hold].close}
      BY <1>1, <2>1 DEF PaidAt, GotAt
    <3>2. k + e.hold \in 1..Len(bs)
      BY <1>1
    <3>3. 100 * bs[k + e.hold].close \in Int
      BY <3>2, BarIsPriced
    <3> QED BY <3>1, <3>3, LeastOfOne
  <2>2. CASE ~(j > k + e.hold)
    <3>1. j \in (k + 1)..(k + e.hold)
      BY <1>1, <2>2
    <3>2. Leaves(bs[k + 1].open, e, bs[j], j > k + 1)
      BY <1>1, <1>5, <2>2 DEF Ends
    <3>3. /\ f[j] = Paid(bs[k + 1].open, e, bs[j], j > k + 1)
          /\ g[j] = UNION WaysOf(bs[k + 1].open, e, bs[j])
      BY <1>1, <2>2 DEF PaidAt, GotAt
    <3>4. Paid(bs[k + 1].open, e, bs[j], j > k + 1) = Min(UNION WaysOf(bs[k + 1].open, e, bs[j]))
      BY <3>1, <3>2, BarLeaves
    <3> QED BY <3>3, <3>4
  <2> QED BY <2>1, <2>2
<1> HIDE DEF a, b, E, f, g
<1>6. \A j \in a..b : w[j] = Min(u[j])
  <2>1. \A j \in a..b : j \in E => f[j] = Min(g[j])
    BY <1>5
  <2>2. a \in Int /\ b \in Int /\ b \in E
    BY <1>2
  <2>3. Walks(w, a, b, E, f) /\ Walks(u, a, b, E, g)
    BY <1>3, <1>4
  <2> QED BY <2>1, <2>2, <2>3, WalksAgree
<1> QED BY <1>2, <1>3, <1>6 DEF a

(* An exit of phase0h.ts is never flattered: for all bars, entries and     *)
(* exits the simulated price is the least that the paths through the bars  *)
(* could get.                                                              *)
THEOREM ExitsArePessimistic == StudiesSpec => []ExitIsPessimistic
<1>1. ASSUME StudyBars PROVE ExitIsPessimistic
  <2> SUFFICES ASSUME NEW k \in DOMAIN bars, Event(bars, k), NEW e \in Exits
               PROVE  LET entry == bars[k + 1].open
                          stop(p)   == e.sl # 0 /\ 100 * p <= entry * (100 - e.sl)
                          target(p) == e.tp # 0 /\ 100 * p >= entry * (100 + e.tp)
                          met(p)    == stop(p) \/ target(p)
                          leg(p, q) == IF met(p) THEN {100 * p}
                                       ELSE IF stop(q) THEN {entry * (100 - e.sl)}
                                       ELSE IF target(q) THEN {entry * (100 + e.tp)} ELSE {}
                          path(b, first, second) ==
                              IF leg(b.open, first) # {} THEN leg(b.open, first) ELSE leg(first, second)
                          ways(b)   == {path(b, b.low, b.high), path(b, b.high, b.low)}
                          sold[j \in (k + 1)..(k + e.hold + 1)] ==
                              IF j > k + e.hold THEN {100 * bars[k + e.hold].close}
                              ELSE UNION {IF w = {} THEN sold[j + 1] ELSE w : w \in ways(bars[j])}
                      IN  Simulate(bars, k, e) = Min(sold[k + 1])
    BY DEF ExitIsPessimistic
  <2> DEFINE entry == bars[k + 1].open
             sold == CHOOSE sold : SoldAt(bars, k, e, sold)
  <2>1. bars \in Seq(BarShapes)
    BY <1>1 DEF StudyBars
  <2>2. k \in Nat /\ k + e.hold <= Len(bars) /\ e.hold \in Nat
    <3>1. e.hold \in Nat /\ e.hold <= LongHold
      BY HoldIsBounded
    <3>2. k \in 1..Len(bars) /\ k <= Len(bars) - LongHold /\ LongHold \in Nat
      BY <2>1, WindowsArePositive DEF Event
    <3> QED BY <3>1, <3>2
  <2>3. \E u : SoldAt(bars, k, e, u)
    <3>1. k + 1 \in Int /\ k + e.hold + 1 \in Int /\ k + e.hold + 1 \in Ends(bars, k, e)
      BY <2>2 DEF Ends
    <3>2. \E u : Walks(u, k + 1, k + e.hold + 1, Ends(bars, k, e), GotAt(bars, k, e))
      BY <3>1, WalkExists
    <3> QED BY <2>1, <2>2, <3>2, SoldWalks
  <2>4. SoldAt(bars, k, e, sold)
    BY <2>3
  <2>5. Simulate(bars, k, e) = Min(sold[k + 1])
    BY <2>1, <2>2, <2>4, SimulateIsWorst
  <2> QED
    BY <2>5 DEF SoldAt, WaysOf, PathOf, Leg, Met, StopMet, TargetMet
<1> QED
  BY <1>1, StudyBarsAlways, PTL

----------------------------------------------------------------------------
(* Ranks.                                                                  *)

Lower(xs, v)  == {j \in DOMAIN xs : xs[j] < v}
Equals(xs, v) == {j \in DOMAIN xs : xs[j] = v}

(* What is below a value, and what equals it.                              *)
LEMMA RunsAreFinite ==
    ASSUME NEW n \in Nat, NEW xs \in [1..n -> Int], NEW v \in Int
    PROVE  /\ IsFiniteSet(Lower(xs, v)) /\ Cardinality(Lower(xs, v)) \in Nat
           /\ IsFiniteSet(Equals(xs, v)) /\ Cardinality(Equals(xs, v)) \in Nat
           /\ Lower(xs, v) \cap Equals(xs, v) = {}
<1>1. IsFiniteSet(1..n)
  BY FS_Interval
<1>2. Lower(xs, v) \in SUBSET (1..n) /\ Equals(xs, v) \in SUBSET (1..n)
  BY DEF Lower, Equals
<1>3. IsFiniteSet(Lower(xs, v)) /\ IsFiniteSet(Equals(xs, v))
  BY <1>1, <1>2, FS_Subset
<1>4. Lower(xs, v) \cap Equals(xs, v) = {}
  BY DEF Lower, Equals
<1> QED BY <1>3, <1>4, FS_CardinalityType

(* A place counts the values below and the equals up to it.                *)
LEMMA PlaceCounts ==
    ASSUME NEW n \in Nat, NEW xs \in [1..n -> Int], NEW j \in 1..n
    PROVE  LET E == Equals(xs, xs[j])
               U == {m \in E : m <= j}
           IN  /\ IsFiniteSet(U)
               /\ Place(xs, j) = Cardinality(Lower(xs, xs[j])) + Cardinality(U)
<1> DEFINE L == Lower(xs, xs[j])
           E == Equals(xs, xs[j])
           U == {m \in E : m <= j}
<1>1. IsFiniteSet(L) /\ Cardinality(L) \in Nat /\ IsFiniteSet(E) /\ L \cap E = {}
  BY RunsAreFinite
<1>2. U \in SUBSET E
  OBVIOUS
<1>3. {m \in DOMAIN xs : xs[m] < xs[j] \/ (xs[m] = xs[j] /\ m <= j)} = L \cup U
  BY DEF Lower, Equals
<1>4. Place(xs, j) = Cardinality(L \cup U)
  BY <1>3 DEF Place
<1> HIDE DEF L, E, U
<1>5. IsFiniteSet(U) /\ L \cap U = {}
  BY <1>1, <1>2, FS_Subset
<1>6. Cardinality(U) \in Nat /\ Cardinality({}) = 0
  BY <1>5, FS_CardinalityType, FS_EmptySet
<1>7. Cardinality(L \cup U) = Cardinality(L) + Cardinality(U) - Cardinality(L \cap U)
  BY <1>1, <1>5, FS_Union
<1>8. Place(xs, j) = Cardinality(L) + Cardinality(U)
  <2>1. Cardinality(L \cap U) = 0
    BY <1>5, <1>6
  <2>2. Cardinality(L) + Cardinality(U) - 0 = Cardinality(L) + Cardinality(U)
    BY <1>1, <1>6
  <2> QED BY <1>4, <1>7, <2>1, <2>2
<1> QED BY <1>5, <1>8 DEF L, E, U

(* Integers that bound each other are equal.                               *)
LEMMA EqualWhenBounded == \A a, b \in Int : a <= b /\ b <= a => a = b
OBVIOUS

(* The rank the code doubles: half way between the first and the last of a *)
(* run of equals.                                                          *)
LEMMA RankCounts ==
    ASSUME NEW n \in Nat, NEW xs \in [1..n -> Int], NEW i \in 1..n
    PROVE  Ranks(xs)[i] = 2 * Cardinality(Lower(xs, xs[i])) + Cardinality(Equals(xs, xs[i])) + 1
<1> DEFINE v == xs[i]
           L == Cardinality(Lower(xs, v))
           E == Equals(xs, v)
           U(j) == {m \in E : m <= j}
           run == {Place(xs, j) : j \in E}
<1>1. v \in Int /\ i \in E /\ E \in SUBSET (1..n) /\ \A j \in E : xs[j] = v
  BY DEF Equals
<1>2. L \in Nat /\ IsFiniteSet(E) /\ Cardinality(E) \in Nat
  BY <1>1, RunsAreFinite
<1>3. Ranks(xs)[i] = Min(run) + Max(run)
  <2>1. run = {Place(xs, j) : j \in {j \in DOMAIN xs : xs[j] = xs[i]}}
    BY DEF Equals
  <2> HIDE DEF run
  <2>2. DOMAIN xs = 1..n
    OBVIOUS
  <2> QED BY <2>1, <2>2 DEF Ranks
<1> HIDE DEF v, E
<1>4. ASSUME NEW j \in E
      PROVE  IsFiniteSet(U(j)) /\ Place(xs, j) = L + Cardinality(U(j)) /\ Cardinality(U(j)) \in Nat
  <2>1. j \in 1..n /\ xs[j] = v
    BY <1>1
  <2>2. LET e == Equals(xs, xs[j])
            u == {m \in e : m <= j}
        IN  IsFiniteSet(u) /\ Place(xs, j) = Cardinality(Lower(xs, xs[j])) + Cardinality(u)
    BY <2>1, PlaceCounts
  <2>3. IsFiniteSet(U(j)) /\ Place(xs, j) = L + Cardinality(U(j))
    BY <2>1, <2>2 DEF E
  <2> HIDE DEF U, L
  <2> QED BY <2>3, FS_CardinalityType
<1>5. E \in SUBSET Int /\ E # {}
  BY <1>1
<1>6. /\ Min(E) \in E /\ \A m \in E : Min(E) <= m
      /\ Max(E) \in E /\ \A m \in E : m <= Max(E)
  BY <1>2, <1>5, ExtremesAreThere
<1>7. U(Min(E)) = {Min(E)} /\ U(Max(E)) = E
  <2>1. ASSUME NEW x \in E, \A m \in E : x <= m PROVE U(x) = {x}
    <3>1. x <= x /\ \A m \in E : m <= x => m = x
      BY <1>5, <2>1
    <3> QED BY <3>1
  <2>2. ASSUME NEW x \in E, \A m \in E : m <= x PROVE U(x) = E
    BY <2>2
  <2> HIDE DEF U
  <2> QED BY <1>6, <2>1, <2>2
<1>8. ASSUME NEW j \in E PROVE 1 <= Cardinality(U(j)) /\ Cardinality(U(j)) <= Cardinality(E)
  <2>1. j \in U(j) /\ U(j) \in SUBSET E /\ IsFiniteSet(U(j)) /\ Cardinality(U(j)) \in Nat
    BY <1>4, <1>5
  <2> HIDE DEF U
  <2>2. Cardinality(U(j)) <= Cardinality(E)
    BY <1>2, <2>1, FS_Subset
  <2>3. Cardinality(U(j)) # 0
    BY <2>1, FS_EmptySet
  <2> QED BY <2>1, <2>2, <2>3
<1>9. Place(xs, Min(E)) = L + 1 /\ Place(xs, Max(E)) = L + Cardinality(E)
  <2>1. Cardinality({Min(E)}) = 1
    BY FS_Singleton
  <2> QED BY <1>4, <1>6, <1>7, <2>1
<1> HIDE DEF U, L
<1>10. /\ \A r \in run : r \in Int /\ L + 1 <= r /\ r <= L + Cardinality(E)
       /\ L + 1 \in run /\ L + Cardinality(E) \in run
  <2>1. \A j \in E : Place(xs, j) \in Int /\ L + 1 <= Place(xs, j) /\ Place(xs, j) <= L + Cardinality(E)
    BY <1>2, <1>4, <1>8
  <2>2. L + 1 \in run /\ L + Cardinality(E) \in run
    BY <1>6, <1>9
  <2> QED BY <2>1, <2>2
<1>11. IsFiniteSet(run) /\ run \in SUBSET Int /\ run # {}
  <2> DEFINE f == [j \in E |-> Place(xs, j)]
  <2>1. run = {f[j] : j \in E}
    OBVIOUS
  <2> HIDE DEF f, run
  <2>2. IsFiniteSet(run)
    BY <1>2, <2>1, ImageIsFinite
  <2> QED BY <1>10, <2>2
<1> HIDE DEF run
<1>12. /\ Min(run) \in run /\ \A r \in run : Min(run) <= r
       /\ Max(run) \in run /\ \A r \in run : r <= Max(run)
  BY <1>11, ExtremesAreThere
<1>13. Min(run) = L + 1 /\ Max(run) = L + Cardinality(E)
  <2>1. \A a, b \in Int : a <= b /\ b <= a => a = b
    BY EqualWhenBounded
  <2>2. Min(run) \in Int /\ Max(run) \in Int /\ L + 1 \in Int /\ L + Cardinality(E) \in Int
    BY <1>10, <1>11, <1>12
  <2>3. L + 1 <= Min(run) /\ Min(run) <= L + 1
    BY <1>10, <1>12
  <2>4. Max(run) <= L + Cardinality(E) /\ L + Cardinality(E) <= Max(run)
    BY <1>10, <1>12
  <2> HIDE DEF E
  <2> QED BY <2>1, <2>2, <2>3, <2>4, Zenon
<1> QED BY <1>2, <1>3, <1>13 DEF L, E, v

(* A quotient is the whole number of times the divisor fits.               *)
LEMMA QuotientIs ==
    ASSUME NEW a \in Int, NEW d \in Nat \ {0}, NEW q \in Int
    PROVE  a \div d = q <=> q * d <= a /\ a < q * d + d
OBVIOUS

(* A larger dividend gives no smaller quotient.                            *)
LEMMA QuotientGrows ==
    ASSUME NEW a \in Int, NEW b \in Int, NEW d \in Nat \ {0}, a <= b
    PROVE  a \div d <= b \div d
<1> DEFINE x == a \div d
           y == b \div d
<1>1. x \in Int /\ x * d <= a
  BY FloorTimes
<1>2. y \in Int /\ b < y * d + d
  BY QuotientIs
<1> HIDE DEF x, y
<1>3. x * d < y * d + d
  BY <1>1, <1>2
<1>4. x <= y
  <2> SUFFICES ASSUME y + 1 <= x PROVE FALSE
    BY <1>1, <1>2
  <2>1. (y + 1) * d <= x * d
    BY <1>1, <1>2, TimesGrows
  <2> QED BY <1>1, <1>2, <1>3, <2>1
<1> QED BY <1>4 DEF x, y

(* Twice p and q are less than twice r when p and q fit into r.            *)
LEMMA DoubledBelow ==
    \A p, q, r, s \in Nat : p + q <= r /\ q # 0 /\ s # 0 =>
        2 <= 2 * r + s + 1 /\ 2 * p + q + 1 <= 2 * r + s + 1
OBVIOUS

(* A larger value has no smaller rank.                                     *)
LEMMA RanksGrow ==
    ASSUME NEW n \in Nat, NEW xs \in [1..n -> Int], NEW i \in 1..n, NEW j \in 1..n, xs[j] <= xs[i]
    PROVE  /\ Ranks(xs)[i] \in Int /\ Ranks(xs)[j] \in Int
           /\ 2 <= Ranks(xs)[i] /\ Ranks(xs)[j] <= Ranks(xs)[i]
<1> DEFINE Li == Lower(xs, xs[i])
           Lj == Lower(xs, xs[j])
           Ei == Equals(xs, xs[i])
           Ej == Equals(xs, xs[j])
<1>1. /\ IsFiniteSet(Li) /\ Cardinality(Li) \in Nat /\ IsFiniteSet(Ei) /\ Cardinality(Ei) \in Nat
      /\ IsFiniteSet(Lj) /\ Cardinality(Lj) \in Nat /\ IsFiniteSet(Ej) /\ Cardinality(Ej) \in Nat
      /\ Lj \cap Ej = {}
  BY RunsAreFinite
<1>2. /\ Ranks(xs)[i] = 2 * Cardinality(Li) + Cardinality(Ei) + 1
      /\ Ranks(xs)[j] = 2 * Cardinality(Lj) + Cardinality(Ej) + 1
  BY RankCounts
<1>3. i \in Ei
  BY DEF Equals
<1>4. xs[j] < xs[i] => (Lj \cup Ej) \in SUBSET Li
  BY DEF Lower, Equals
<1>5. xs[j] = xs[i] => Lj = Li /\ Ej = Ei
  OBVIOUS
<1>6. xs[j] < xs[i] \/ xs[j] = xs[i]
  OBVIOUS
<1> HIDE DEF Li, Lj, Ei, Ej
<1>7. Cardinality(Ei) # 0
  BY <1>1, <1>3, FS_EmptySet
<1>8. CASE xs[j] < xs[i]
  <2>1. Cardinality(Lj \cup Ej) <= Cardinality(Li)
    BY <1>1, <1>4, <1>8, FS_Subset
  <2>2. Cardinality(Lj \cup Ej) = Cardinality(Lj) + Cardinality(Ej)
    <3>1. Cardinality(Lj \cup Ej) = Cardinality(Lj) + Cardinality(Ej) - Cardinality(Lj \cap Ej)
      BY <1>1, FS_Union
    <3>2. Cardinality(Lj \cap Ej) = 0
      BY <1>1, FS_EmptySet
    <3>3. Cardinality(Lj) + Cardinality(Ej) - 0 = Cardinality(Lj) + Cardinality(Ej)
      BY <1>1
    <3> QED BY <3>1, <3>2, <3>3
  <2>3. \A p, q, r, s \in Nat : p + q <= r /\ q # 0 /\ s # 0 =>
            2 <= 2 * r + s + 1 /\ 2 * p + q + 1 <= 2 * r + s + 1
    BY DoubledBelow
  <2>4. j \in Ej
    BY DEF Ej, Equals
  <2>5. Cardinality(Ej) # 0
    BY <1>1, <2>4, FS_EmptySet
  <2>6. Cardinality(Lj) + Cardinality(Ej) <= Cardinality(Li)
    BY <2>1, <2>2
  <2>7. /\ 2 <= 2 * Cardinality(Li) + Cardinality(Ei) + 1
        /\ 2 * Cardinality(Lj) + Cardinality(Ej) + 1 <= 2 * Cardinality(Li) + Cardinality(Ei) + 1
    BY <1>1, <1>7, <2>3, <2>5, <2>6, Zenon
  <2>8. Ranks(xs)[i] \in Int /\ Ranks(xs)[j] \in Int
    BY <1>1, <1>2
  <2> QED BY <1>2, <2>7, <2>8, Zenon
<1>9. CASE xs[j] = xs[i]
  BY <1>1, <1>2, <1>5, <1>7, <1>9
<1> QED BY <1>6, <1>8, <1>9

(* A larger rank is in no lower fifth.                                     *)
LEMMA FifthsGrow ==
    ASSUME NEW n \in Nat \ {0}, NEW a \in Int, NEW b \in Int, 2 <= a, a <= b
    PROVE  Quintile(a, n) \in 0..4 /\ Quintile(a, n) <= Quintile(b, n)
<1> DEFINE d == 2 * n
           x == 5 * (a - 2)
           y == 5 * (b - 2)
<1>1. d \in Nat \ {0} /\ x \in Nat /\ y \in Nat /\ x <= y
  OBVIOUS
<1>2. /\ Quintile(a, n) = LeastOf(4, x \div d)
      /\ Quintile(b, n) = LeastOf(4, y \div d)
  BY DEF Quintile
<1> HIDE DEF d, x, y
<1>3. x \div d <= y \div d
  BY <1>1, QuotientGrows
<1>4. x \div d \in Nat /\ y \div d \in Nat
  BY <1>1
<1> QED BY <1>2, <1>3, <1>4 DEF LeastOf

(* Where the q-th fifth of n ranks starts.                                 *)
FifthStart(q, n) == (q * n + 4) \div 5

(* The fifths of n ranks differ by one at most.                            *)
LEMMA FifthsShare ==
    ASSUME NEW n \in Nat \ {0}, NEW q \in 0..4
    PROVE  /\ FifthStart(q, n) \in Nat /\ FifthStart(q + 1, n) \in 0..n
           /\ FifthStart(q, n) <= FifthStart(q + 1, n)
           /\ FifthStart(q + 1, n) - FifthStart(q, n) \in {n \div 5, n \div 5 + 1}
<1>1. q = 0 \/ q = 1 \/ q = 2 \/ q = 3 \/ q = 4
  OBVIOUS
<1>2. /\ FifthStart(0, n) = 0 /\ FifthStart(1, n) = (n + 4) \div 5
      /\ FifthStart(2, n) = (2 * n + 4) \div 5 /\ FifthStart(3, n) = (3 * n + 4) \div 5
      /\ FifthStart(4, n) = (4 * n + 4) \div 5 /\ FifthStart(5, n) = n
  BY DEF FifthStart
<1>3. CASE q = 0
  BY <1>2, <1>3
<1>4. CASE q = 1
  BY <1>2, <1>4
<1>5. CASE q = 2
  BY <1>2, <1>5
<1>6. CASE q = 3
  BY <1>2, <1>6
<1>7. CASE q = 4
  BY <1>2, <1>7
<1> QED BY <1>1, <1>3, <1>4, <1>5, <1>6, <1>7

(* Without ties a fifth holds the ranks between its start and the next.    *)
LEMMA FifthIs ==
    ASSUME NEW n \in Nat \ {0}, NEW b \in 0..(n - 1), NEW q \in 0..4
    PROVE  Quintile(2 * b + 2, n) = q <=> b \in FifthStart(q, n)..(FifthStart(q + 1, n) - 1)
<1> DEFINE d == 2 * n
           x == 10 * b
           t == q * n
<1>1. d \in Nat \ {0} /\ x \in Nat /\ b \in Nat /\ n \in Nat /\ q \in Nat /\ t \in Nat
  BY NatTimes
<1>2. Quintile(2 * b + 2, n) = LeastOf(4, x \div d)
  <2>1. 5 * (2 * b + 2 - 2) = 10 * b
    OBVIOUS
  <2> QED BY <2>1 DEF Quintile
<1>3. x \div d \in 0..4
  <2>1. 0 * d <= x /\ x < 5 * d
    BY <1>1
  <2> HIDE DEF x, d
  <2>2. x \div d \in Int /\ x \div d >= 0
    BY <1>1
  <2>3. (x \div d) * d <= x
    BY <1>1, FloorTimes
  <2>4. x \div d <= 4
    <3> DEFINE z == x \div d
    <3> HIDE DEF z
    <3>1. z \in Int /\ z * d <= x
      BY <2>2, <2>3 DEF z
    <3>2. 5 <= z => 5 * d <= z * d
      BY <1>1, <3>1, TimesGrows
    <3>3. z * d \in Int /\ 5 * d \in Int
      BY <1>1, <3>1
    <3>4. ~(5 <= z)
      BY <1>1, <2>1, <3>1, <3>2, <3>3
    <3> QED BY <3>1, <3>4 DEF z
  <2> QED BY <2>2, <2>4
<1>4. Quintile(2 * b + 2, n) = q <=> x \div d = q
  <2> HIDE DEF x, d
  <2> QED BY <1>2, <1>3 DEF LeastOf
<1>5. x \div d = q <=> q * d <= x /\ x < q * d + d
  BY <1>1, QuotientIs
<1>6. q * d = 2 * t
  OBVIOUS
<1>7. x \div d = q <=> t <= 5 * b /\ 5 * b < t + n
  BY <1>1, <1>5, <1>6
<1>8. FifthStart(q, n) = (t + 4) \div 5 /\ FifthStart(q + 1, n) = (t + n + 4) \div 5
  BY DEF FifthStart
<1> HIDE DEF d, x, t
<1>9. b \in ((t + 4) \div 5)..((t + n + 4) \div 5 - 1) <=> t <= 5 * b /\ 5 * b < t + n
  BY <1>1
<1> QED BY <1>4, <1>7, <1>8, <1>9

(* Without ties the number of lower values runs through 0..n - 1.          *)
LEMMA LowerCountsAll ==
    ASSUME NEW n \in Nat \ {0}, NEW xs \in [1..n -> Int],
           \A i \in 1..n : Cardinality(Equals(xs, xs[i])) = 1
    PROVE  [i \in 1..n |-> Cardinality(Lower(xs, xs[i]))] \in Bijection(1..n, 0..(n - 1))
<1> DEFINE b == [i \in 1..n |-> Cardinality(Lower(xs, xs[i]))]
<1>1. /\ IsFiniteSet(1..n) /\ Cardinality(1..n) = n
      /\ IsFiniteSet(0..(n - 1)) /\ Cardinality(0..(n - 1)) = n
  BY FS_Interval
<1>2. ASSUME NEW i \in 1..n
      PROVE  /\ IsFiniteSet(Lower(xs, xs[i])) /\ Cardinality(Lower(xs, xs[i])) \in Nat
             /\ i \notin Lower(xs, xs[i]) /\ Lower(xs, xs[i]) \in SUBSET (1..n)
  <2>1. xs[i] \in Int /\ ~(xs[i] < xs[i])
    OBVIOUS
  <2>2. i \notin Lower(xs, xs[i]) /\ Lower(xs, xs[i]) \in SUBSET (1..n)
    BY <2>1 DEF Lower
  <2> QED BY <2>1, <2>2, RunsAreFinite
<1>3. ASSUME NEW i \in 1..n PROVE b[i] \in 0..(n - 1)
  <2>1. Cardinality((1..n) \ {i}) = n - 1 /\ IsFiniteSet((1..n) \ {i})
    BY <1>1, FS_RemoveElement
  <2>2. Lower(xs, xs[i]) \in SUBSET ((1..n) \ {i})
    BY <1>2
  <2>3. Cardinality(Lower(xs, xs[i])) <= n - 1
    BY <2>1, <2>2, FS_Subset
  <2>4. Cardinality(Lower(xs, xs[i])) \in Nat
    BY <1>2
  <2> QED BY <2>3, <2>4
<1>4. ASSUME NEW i \in 1..n, NEW j \in 1..n, xs[i] < xs[j] PROVE b[i] < b[j]
  <2>1. (Lower(xs, xs[i]) \cup {i}) \in SUBSET Lower(xs, xs[j])
    BY <1>4 DEF Lower
  <2>2. Cardinality(Lower(xs, xs[i]) \cup {i}) = Cardinality(Lower(xs, xs[i])) + 1
    BY <1>2, FS_AddElement
  <2>3. Cardinality(Lower(xs, xs[i]) \cup {i}) <= Cardinality(Lower(xs, xs[j]))
    BY <1>2, <2>1, FS_Subset
  <2>4. Cardinality(Lower(xs, xs[i])) \in Nat /\ Cardinality(Lower(xs, xs[j])) \in Nat
    BY <1>2
  <2> QED BY <2>2, <2>3, <2>4
<1>5. ASSUME NEW i \in 1..n, NEW j \in 1..n, xs[i] = xs[j] PROVE i = j
  <2>1. i \in Equals(xs, xs[i]) /\ j \in Equals(xs, xs[i])
    BY <1>5 DEF Equals
  <2>2. IsFiniteSet(Equals(xs, xs[i])) /\ Cardinality(Equals(xs, xs[i])) = 1
    BY RunsAreFinite
  <2>3. PICK x : Equals(xs, xs[i]) = {x}
    BY <2>2, FS_Singleton
  <2> QED BY <2>1, <2>3
<1>6. b \in [1..n -> 0..(n - 1)]
  BY <1>3
<1> HIDE DEF b
<1>7. ASSUME NEW i \in 1..n, NEW j \in 1..n, b[i] = b[j] PROVE i = j
  <2>1. xs[i] < xs[j] \/ xs[j] < xs[i] \/ xs[i] = xs[j]
    OBVIOUS
  <2>2. b[i] \in Int /\ b[j] \in Int
    BY <1>6
  <2> QED BY <1>4, <1>5, <1>7, <2>1, <2>2
<1>8. b \in Injection(1..n, 0..(n - 1))
  BY <1>6, <1>7 DEF Injection, IsInjective
<1>9. b \in Surjection(1..n, 0..(n - 1))
  BY <1>1, <1>8, FS_Injection
<1> QED BY <1>8, <1>9 DEF Bijection, b

(* Without ties a fifth has its share of the values.                       *)
LEMMA FifthsAreFair ==
    ASSUME NEW n \in Nat \ {0}, NEW xs \in [1..n -> Int], NEW q \in 0..4,
           \A i \in 1..n : Cardinality(Equals(xs, xs[i])) = 1
    PROVE  Cardinality({i \in 1..n : Quintile(Ranks(xs)[i], n) = q}) \in {n \div 5, n \div 5 + 1}
<1> DEFINE b == [i \in 1..n |-> Cardinality(Lower(xs, xs[i]))]
           M == {i \in 1..n : Quintile(Ranks(xs)[i], n) = q}
           C == FifthStart(q, n)..(FifthStart(q + 1, n) - 1)
           g == [i \in M |-> b[i]]
<1>1. b \in Bijection(1..n, 0..(n - 1))
  BY LowerCountsAll
<1>2. /\ b \in [1..n -> 0..(n - 1)] /\ \A y \in 0..(n - 1) : \E x \in 1..n : b[x] = y
      /\ \A x, y \in 1..n : b[x] = b[y] => x = y
  <2> HIDE DEF b
  <2>1. b \in Injection(1..n, 0..(n - 1)) /\ b \in Surjection(1..n, 0..(n - 1))
    BY <1>1 DEF Bijection
  <2> QED BY <2>1 DEF Injection, Surjection, IsInjective
<1>3. ASSUME NEW i \in 1..n PROVE i \in M <=> b[i] \in C
  <2>1. Ranks(xs)[i] = 2 * b[i] + 2
    <3>1. Ranks(xs)[i] = 2 * Cardinality(Lower(xs, xs[i])) + Cardinality(Equals(xs, xs[i])) + 1
      BY RankCounts
    <3>2. Cardinality(Equals(xs, xs[i])) = 1 /\ b[i] = Cardinality(Lower(xs, xs[i])) /\ b[i] \in Int
      BY <1>2
    <3> HIDE DEF b
    <3> QED BY <3>1, <3>2
  <2>2. b[i] \in 0..(n - 1)
    BY <1>2
  <2> HIDE DEF b, C
  <2>3. Quintile(2 * b[i] + 2, n) = q <=> b[i] \in C
    BY <2>2, FifthIs DEF C
  <2> QED BY <2>1, <2>3
<1>4. C \in SUBSET (0..(n - 1))
  <2>1. FifthStart(q, n) \in Nat /\ FifthStart(q + 1, n) \in 0..n
    BY FifthsShare
  <2> QED BY <2>1
<1>5. M \in SUBSET (1..n) /\ IsFiniteSet(M)
  <2>1. M \in SUBSET (1..n) /\ IsFiniteSet(1..n)
    BY FS_Interval
  <2> HIDE DEF M
  <2> QED BY <2>1, FS_Subset
<1> HIDE DEF b, M, C
<1>6. g \in Bijection(M, C)
  <2>1. g \in [M -> C]
    BY <1>3, <1>5
  <2>2. \A x, y \in M : g[x] = g[y] => x = y
    BY <1>2, <1>5
  <2>3. ASSUME NEW y \in C PROVE \E x \in M : g[x] = y
    <3>1. PICK x \in 1..n : b[x] = y
      BY <1>2, <1>4
    <3>2. x \in M
      BY <1>3, <3>1
    <3> QED BY <3>1, <3>2
  <2> HIDE DEF g
  <2>4. g \in Injection(M, C)
    BY <2>1, <2>2 DEF Injection, IsInjective
  <2>5. g \in Surjection(M, C)
    BY <2>1, <2>3 DEF Surjection
  <2> QED BY <2>4, <2>5 DEF Bijection
<1>7. Cardinality(M) = Cardinality(C)
  <2> HIDE DEF g
  <2>1. ExistsBijection(M, C)
    BY <1>6 DEF ExistsBijection
  <2> QED BY <1>5, <2>1, FS_Bijection
<1>8. Cardinality(C) \in {n \div 5, n \div 5 + 1}
  <2> DEFINE s == FifthStart(q, n)
             t == FifthStart(q + 1, n)
  <2>1. s \in Nat /\ t \in Nat /\ s <= t /\ t - s \in {n \div 5, n \div 5 + 1}
    <3>1. /\ FifthStart(q, n) \in Nat /\ FifthStart(q + 1, n) \in 0..n
          /\ FifthStart(q, n) <= FifthStart(q + 1, n)
          /\ FifthStart(q + 1, n) - FifthStart(q, n) \in {n \div 5, n \div 5 + 1}
      BY FifthsShare
    <3> HIDE DEF g
    <3> QED BY <3>1
  <2> HIDE DEF s, t
  <2>2. Cardinality(s..(t - 1)) = IF s > t - 1 THEN 0 ELSE t - 1 - s + 1
    BY <2>1, FS_Interval
  <2>3. Cardinality(s..(t - 1)) = t - s
    BY <2>1, <2>2
  <2> QED BY <2>1, <2>3 DEF C, s, t
<1> QED BY <1>7, <1>8 DEF M

(* The ranks and fifths of any cross-section are fair: ties share a rank,  *)
(* a larger value is in no lower fifth, and without ties the fifths differ *)
(* by one member at most.                                                  *)
THEOREM RanksAreFairAlways == StudiesSpec => []RanksAreFair
<1>1. ASSUME StudyBars PROVE RanksAreFair
  <2> DEFINE xs == [k \in DOMAIN bars |-> bars[k].close]
             n == Len(xs)
             fifth(i) == Quintile(Ranks(xs)[i], n)
             below(i) == Cardinality({j \in DOMAIN xs : xs[j] < xs[i]})
             equal(i) == Cardinality({j \in DOMAIN xs : xs[j] = xs[i]})
             members(q) == Cardinality({i \in DOMAIN xs : fifth(i) = q})
  <2>1. n \in Nat /\ xs \in [1..n -> Int]
    <3>1. bars \in Seq(BarShapes) /\ Len(bars) \in Nat /\ DOMAIN bars = 1..Len(bars)
      BY <1>1 DEF StudyBars
    <3>2. xs \in [1..Len(bars) -> Int]
      BY <3>1, BarIsPriced
    <3> HIDE DEF xs
    <3>3. xs \in Seq(Int) /\ Len(xs) = Len(bars)
      BY <3>1, <3>2
    <3> QED BY <3>1, <3>2, <3>3
  <2>2. xs \in [1..n -> Int]
    BY <2>1
  <2>3. DOMAIN xs = 1..n
    <3> HIDE DEF xs, n
    <3> QED BY <2>1
  <2>4. \A i \in 1..n : below(i) = Cardinality(Lower(xs, xs[i])) /\ equal(i) = Cardinality(Equals(xs, xs[i]))
    BY DEF Lower, Equals
  <2>5. ASSUME NEW i \in 1..n PROVE Ranks(xs)[i] = 2 * below(i) + equal(i) + 1
    <3> HIDE DEF xs, below, equal, n
    <3>1. Ranks(xs)[i] = 2 * Cardinality(Lower(xs, xs[i])) + Cardinality(Equals(xs, xs[i])) + 1
      BY <2>1, <2>2, RankCounts
    <3> QED BY <2>4, <3>1
  <2>6. ASSUME NEW i \in 1..n, NEW j \in 1..n, xs[j] <= xs[i]
        PROVE  fifth(i) \in 0..4 /\ fifth(j) <= fifth(i)
    <3> HIDE DEF xs, n
    <3>1. n \in Nat \ {0}
      BY <2>1
    <3>2. /\ Ranks(xs)[i] \in Int /\ Ranks(xs)[j] \in Int
          /\ 2 <= Ranks(xs)[i] /\ Ranks(xs)[j] <= Ranks(xs)[i]
      BY <2>2, <2>6, <3>1, RanksGrow
    <3>3. xs[j] \in Int /\ xs[j] <= xs[j]
      BY <2>2
    <3>4. 2 <= Ranks(xs)[j]
      BY <2>2, <3>1, <3>3, RanksGrow
    <3> QED BY <3>1, <3>2, <3>4, FifthsGrow
  <2>7. ASSUME \A j \in 1..n : equal(j) = 1, n # 0, NEW q \in 0..4, NEW r \in 0..4
        PROVE  members(q) <= members(r) + 1
    <3> HIDE DEF xs, n, equal
    <3>1. n \in Nat \ {0} /\ n \div 5 \in Nat
      BY <2>1, <2>7
    <3>2. \A j \in 1..n : Cardinality(Equals(xs, xs[j])) = 1
      BY <2>4, <2>7
    <3>3. members(q) \in {n \div 5, n \div 5 + 1} /\ members(r) \in {n \div 5, n \div 5 + 1}
      BY <2>2, <2>3, <3>1, <3>2, FifthsAreFair
    <3> HIDE DEF members
    <3> QED BY <3>1, <3>3
  <2>8. ASSUME NEW i \in 1..n PROVE fifth(i) \in 0..4
    <3>1. xs[i] \in Int /\ xs[i] <= xs[i]
      BY <2>2
    <3> HIDE DEF xs, fifth
    <3> QED BY <2>6, <3>1
  <2>9. RanksAreFair <=>
          \A i \in DOMAIN xs :
             /\ Ranks(xs)[i] = 2 * below(i) + equal(i) + 1
             /\ fifth(i) \in 0..4
             /\ \A j \in DOMAIN xs : xs[j] <= xs[i] => fifth(j) <= fifth(i)
             /\ (\A j \in DOMAIN xs : equal(j) = 1) =>
                   \A q, r \in 0..4 : members(q) <= members(r) + 1
    BY DEF RanksAreFair
  <2> HIDE DEF xs, below, equal, fifth, members, n
  <2> QED BY <2>1, <2>3, <2>5, <2>6, <2>7, <2>8, <2>9
<1> QED
  BY <1>1, StudyBarsAlways, PTL

----------------------------------------------------------------------------
(* No study looks ahead: what is computed at a bar is the same on two      *)
(* arrays that agree up to it.                                             *)

SameBars(bs, cs, k) == \A j \in 1..k : cs[j] = bs[j]

(* Extremes and sums of a window that both arrays share.                   *)
LEMMA SameWindows ==
    ASSUME NEW bs, NEW cs, NEW k \in Nat, SameBars(bs, cs, k), NEW ks \in SUBSET (1..k)
    PROVE  /\ HighestHigh(cs, ks) = HighestHigh(bs, ks)
           /\ LowestLow(cs, ks) = LowestLow(bs, ks)
           /\ SumVolume(cs, ks) = SumVolume(bs, ks)
           /\ SumClose(cs, ks) = SumClose(bs, ks)
           /\ SumTurnover(cs, ks) = SumTurnover(bs, ks)
<1>1. \A j \in ks : cs[j] = bs[j]
  BY DEF SameBars
<1>2. {cs[j].high : j \in ks} = {bs[j].high : j \in ks}
  BY <1>1
<1>3. {cs[j].low : j \in ks} = {bs[j].low : j \in ks}
  BY <1>1
<1>4. [j \in ks |-> cs[j].volume] = [j \in ks |-> bs[j].volume]
  BY <1>1
<1>5. [j \in ks |-> cs[j].close] = [j \in ks |-> bs[j].close]
  BY <1>1
<1>6. [j \in ks |-> cs[j].close * cs[j].volume] = [j \in ks |-> bs[j].close * bs[j].volume]
  BY <1>1
<1>7. HighestHigh(cs, ks) = HighestHigh(bs, ks) /\ LowestLow(cs, ks) = LowestLow(bs, ks)
  BY <1>2, <1>3 DEF HighestHigh, LowestLow
<1>8. SumVolume(cs, ks) = SumVolume(bs, ks)
  BY <1>4 DEF SumVolume
<1>9. SumClose(cs, ks) = SumClose(bs, ks)
  BY <1>5 DEF SumClose
<1>10. SumTurnover(cs, ks) = SumTurnover(bs, ks)
  BY <1>6 DEF SumTurnover
<1> QED BY <1>7, <1>8, <1>9, <1>10

\* A window that ends at k or before, and starts at the first bar or after.
LEMMA WindowsFit ==
    ASSUME NEW k \in Nat, NEW i \in 0..k, NEW n \in Nat, n <= i
    PROVE  Window(i, n) \in SUBSET (1..k)
BY DEF Window

(* Price and turnover floors.                                              *)
LEMMA SameTradable ==
    ASSUME NEW bs, NEW cs, NEW k \in Nat, SameBars(bs, cs, k), Day20 <= k
    PROVE  Tradable(cs, k) <=> Tradable(bs, k)
<1>1. Day20 \in Nat \ {0}
  BY WindowsArePositive
<1>2. Window(k, Day20) \in SUBSET (1..k)
  BY <1>1, WindowsFit
<1>3. SumTurnover(cs, Window(k, Day20)) = SumTurnover(bs, Window(k, Day20))
  BY <1>2, SameWindows
<1>4. cs[k] = bs[k]
  BY <1>1 DEF SameBars
<1> QED BY <1>3, <1>4 DEF Tradable

(* Moving averages.                                                        *)
LEMMA SameSma ==
    ASSUME NEW bs, NEW cs, NEW k \in Nat, SameBars(bs, cs, k), NEW n \in Nat, n <= k
    PROVE  Sma(cs, k, n) = Sma(bs, k, n)
<1>1. Window(k, n) \in SUBSET (1..k)
  BY WindowsFit
<1>2. SumClose(cs, Window(k, n)) = SumClose(bs, Window(k, n))
  BY <1>1, SameWindows
<1> QED BY <1>2 DEF Sma

(* The technical screen.                                                   *)
LEMMA SamePick ==
    ASSUME NEW bs, NEW cs, NEW k \in Nat, SameBars(bs, cs, k)
    PROVE  TechnicalPick(cs, k) = TechnicalPick(bs, k)
<1>1. TechnicalPick(cs, k) \in BOOLEAN /\ TechnicalPick(bs, k) \in BOOLEAN
  BY DEF TechnicalPick
<1>2. CASE k > Day20
  <2>1. Day20 \in Nat \ {0} /\ Day50 \in Nat \ {0} /\ Day20 <= k
    BY <1>2, WindowsArePositive
  <2>2. Tradable(cs, k) <=> Tradable(bs, k)
    BY <2>1, SameTradable
  <2>3. Sma(cs, k, Day20) = Sma(bs, k, Day20)
    BY <2>1, SameSma
  <2>4. LongSma(cs, k) = LongSma(bs, k)
    <3> DEFINE n == IF k >= Day50 THEN Day50 ELSE Min({Day50, k - 1})
    <3>1. k - 1 \in Nat /\ Day50 \in Nat /\ {Day50, k - 1} \in SUBSET Int /\ {Day50, k - 1} # {}
      BY <1>2, <2>1
    <3>2. Min({Day50, k - 1}) \in {Day50, k - 1} /\ Min({Day50, k - 1}) <= k - 1
      BY <3>1, FewAreFinite, ExtremesAreThere
    <3>3. n \in Nat /\ n <= k
      BY <2>1, <3>1, <3>2
    <3> HIDE DEF n
    <3>4. Sma(cs, k, n) = Sma(bs, k, n)
      BY <3>3, SameSma
    <3> QED BY <3>4 DEF LongSma, n
  <2>5. HighestHigh(cs, Window(k, Day20)) = HighestHigh(bs, Window(k, Day20))
    <3>1. Window(k, Day20) \in SUBSET (1..k)
      BY <2>1, WindowsFit
    <3> QED BY <3>1, SameWindows
  <2>6. cs[k] = bs[k] /\ cs[k - Day20] = bs[k - Day20]
    BY <1>2, <2>1 DEF SameBars
  <2>7. TechnicalPick(cs, k) <=> TechnicalPick(bs, k)
    BY <2>2, <2>3, <2>4, <2>5, <2>6 DEF TechnicalPick
  <2> QED BY <1>1, <2>7
<1>3. CASE ~(k > Day20)
  BY <1>3 DEF TechnicalPick
<1> QED BY <1>2, <1>3

(* The RSIs.                                                               *)
LEMMA SameRsi ==
    ASSUME NEW bs, NEW cs, NEW k \in Nat, SameBars(bs, cs, k), NEW n
    PROVE  /\ WilderRsi(cs, n, k) = WilderRsi(bs, n, k)
           /\ \A level : RsiBelow(cs, n, k, level) <=> RsiBelow(bs, n, k, level)
<1>1. \A j \in 2..k : cs[j] = bs[j] /\ cs[j - 1] = bs[j - 1]
  BY DEF SameBars
<1>2. /\ [j \in 2..k |-> Max({0, cs[j].close - cs[j - 1].close})]
           = [j \in 2..k |-> Max({0, bs[j].close - bs[j - 1].close})]
      /\ [j \in 2..k |-> Max({0, cs[j - 1].close - cs[j].close})]
           = [j \in 2..k |-> Max({0, bs[j - 1].close - bs[j].close})]
  BY <1>1
<1>3. WilderRsi(cs, n, k) = WilderRsi(bs, n, k)
  BY <1>2 DEF WilderRsi
<1> QED BY <1>3 DEF RsiBelow

(* The bars of the last highest high and the last lowest low are in the    *)
(* window.                                                                 *)
LEMMA SwingIsThere ==
    ASSUME NEW bs \in Seq(BarShapes), NEW k \in 1..Len(bs), Day60 <= k
    PROVE  SwingHigh(bs, k) \in 1..k /\ SwingLow(bs, k) \in 1..k
<1> DEFINE ks == Window(k, Day60)
           highs == {bs[j].high : j \in ks}
           lows == {bs[j].low : j \in ks}
           hi == {j \in ks : bs[j].high = HighestHigh(bs, ks)}
           lo == {j \in ks : bs[j].low = LowestLow(bs, ks)}
<1>1. Day60 \in Nat \ {0} /\ Len(bs) \in Nat
  BY WindowsArePositive
<1>2. ks \in SUBSET (1..k) /\ k \in ks /\ ks \in SUBSET Int
  BY <1>1, WindowsFit DEF Window
<1>3. IsFiniteSet(ks)
  <2>1. ks = (k - Day60 + 1)..k
    BY DEF Window
  <2> HIDE DEF ks
  <2> QED BY <1>1, <2>1, FS_Interval
<1> HIDE DEF ks
<1>4. highs \in SUBSET Int /\ lows \in SUBSET Int /\ highs # {} /\ lows # {}
  <2>1. \A j \in ks : j \in 1..Len(bs)
    BY <1>1, <1>2
  <2>2. \A j \in ks : bs[j].high \in Int /\ bs[j].low \in Int
    BY <2>1, BarIsPriced
  <2> QED BY <1>2, <2>2
<1>5. IsFiniteSet(highs) /\ IsFiniteSet(lows)
  <2> DEFINE f == [j \in ks |-> bs[j].high]
             g == [j \in ks |-> bs[j].low]
  <2>1. highs = {f[j] : j \in ks} /\ lows = {g[j] : j \in ks}
    OBVIOUS
  <2> HIDE DEF f, g, highs, lows
  <2> QED BY <1>3, <2>1, ImageIsFinite
<1>6. Max(highs) \in highs /\ Min(lows) \in lows
  <2> HIDE DEF highs, lows
  <2> QED BY <1>4, <1>5, ExtremesAreThere
<1>7. hi # {} /\ lo # {} /\ hi \in SUBSET ks /\ lo \in SUBSET ks
  <2>1. HighestHigh(bs, ks) \in highs /\ LowestLow(bs, ks) \in lows
    BY <1>6 DEF HighestHigh, LowestLow
  <2> QED BY <2>1
<1>8. SwingHigh(bs, k) = Max(hi) /\ SwingLow(bs, k) = Max(lo)
  BY DEF SwingHigh, SwingLow, ks
<1> HIDE DEF hi, lo
<1>9. IsFiniteSet(hi) /\ IsFiniteSet(lo) /\ hi \in SUBSET Int /\ lo \in SUBSET Int
  BY <1>2, <1>3, <1>7, FS_Subset
<1>10. Max(hi) \in hi /\ Max(lo) \in lo
  BY <1>7, <1>9, ExtremesAreThere
<1> QED BY <1>2, <1>7, <1>8, <1>10

(* The retracement of an up-swing.                                         *)
LEMMA SameSwing ==
    ASSUME NEW bs \in Seq(BarShapes), NEW cs, NEW k \in 1..Len(bs), SameBars(bs, cs, k), k >= 2
    PROVE  /\ UpSwing(cs, k) <=> UpSwing(bs, k)
           /\ FibAt(cs, k) = FibAt(bs, k)
           /\ \A levels, tol : FibHit(cs, k, levels, tol) = FibHit(bs, k, levels, tol)
<1>0. Day60 \in Nat \ {0} /\ k \in Nat
  BY WindowsArePositive
<1>1. CASE k >= Day60
  <2> DEFINE ks == Window(k, Day60)
             hi(x) == {j \in ks : x[j].high = HighestHigh(x, ks)}
             lo(x) == {j \in ks : x[j].low = LowestLow(x, ks)}
  <2>1. Day60 <= k
    BY <1>0, <1>1
  <2>2. ks \in SUBSET (1..k)
    BY <1>0, <2>1, WindowsFit
  <2>3. HighestHigh(cs, ks) = HighestHigh(bs, ks) /\ LowestLow(cs, ks) = LowestLow(bs, ks)
    BY <1>0, <2>2, SameWindows
  <2>4. \A j \in ks : cs[j] = bs[j]
    BY <2>2 DEF SameBars
  <2> HIDE DEF ks
  <2>5. hi(cs) = hi(bs) /\ lo(cs) = lo(bs)
    BY <2>3, <2>4
  <2>6. /\ SwingHigh(cs, k) = Max(hi(cs)) /\ SwingLow(cs, k) = Max(lo(cs))
        /\ SwingHigh(bs, k) = Max(hi(bs)) /\ SwingLow(bs, k) = Max(lo(bs))
    BY DEF SwingHigh, SwingLow, ks
  <2> HIDE DEF hi, lo
  <2>7. SwingHigh(cs, k) = SwingHigh(bs, k) /\ SwingLow(cs, k) = SwingLow(bs, k)
    BY <2>5, <2>6
  <2>8. /\ cs[SwingHigh(bs, k)] = bs[SwingHigh(bs, k)] /\ cs[SwingLow(bs, k)] = bs[SwingLow(bs, k)]
        /\ cs[k] = bs[k] /\ cs[k - 1] = bs[k - 1]
    <3>1. SwingHigh(bs, k) \in 1..k /\ SwingLow(bs, k) \in 1..k
      BY <2>1, SwingIsThere
    <3>2. k \in 1..k /\ k - 1 \in 1..k
      OBVIOUS
    <3> QED BY <3>1, <3>2 DEF SameBars
  <2>9. UpSwing(cs, k) <=> UpSwing(bs, k)
    BY <2>7, <2>8 DEF UpSwing
  <2>10. FibAt(cs, k) = FibAt(bs, k)
    BY <2>7, <2>8, <2>9 DEF FibAt
  <2>11. ASSUME NEW levels, NEW tol PROVE FibHit(cs, k, levels, tol) = FibHit(bs, k, levels, tol)
    BY <2>8, <2>9, <2>10 DEF FibHit
  <2> QED BY <2>9, <2>10, <2>11
<1>2. CASE ~(k >= Day60)
  BY <1>2 DEF UpSwing, FibAt, FibHit
<1> QED BY <1>1, <1>2

(* What phase0f.ts observes.                                               *)
LEMMA SameObservation ==
    ASSUME NEW bs \in Seq(BarShapes), NEW cs, NEW k \in 1..Len(bs), SameBars(bs, cs, k), k > Day20
    PROVE  ObservationAt(cs, k) = ObservationAt(bs, k)
<1>1. /\ Day5 \in Nat \ {0} /\ Day20 \in Nat \ {0} /\ Day60 \in Nat \ {0}
      /\ Day5 <= Day20 /\ k \in Nat /\ k - 1 \in 0..k /\ Day20 <= k - 1 /\ k >= 2
  BY WindowsArePositive
<1>2. /\ WilderRsi(cs, FastRsi, k) = WilderRsi(bs, FastRsi, k)
      /\ WilderRsi(cs, SlowRsi, k) = WilderRsi(bs, SlowRsi, k)
  BY <1>1, SameRsi
<1>3. /\ FibAt(cs, k) = FibAt(bs, k)
      /\ \A levels, tol : FibHit(cs, k, levels, tol) = FibHit(bs, k, levels, tol)
  BY <1>1, SameSwing
<1>4. /\ cs[k] = bs[k] /\ cs[k - 1] = bs[k - 1] /\ cs[k - Day5] = bs[k - Day5]
      /\ cs[k - Day20] = bs[k - Day20]
  <2>1. k \in 1..k /\ k - 1 \in 1..k /\ k - Day5 \in 1..k /\ k - Day20 \in 1..k
    BY <1>1
  <2> QED BY <2>1 DEF SameBars
<1>5. /\ HighestHigh(cs, Window(k, Day20)) = HighestHigh(bs, Window(k, Day20))
      /\ SumVolume(cs, Window(k - 1, Day20)) = SumVolume(bs, Window(k - 1, Day20))
  <2>1. Window(k, Day20) \in SUBSET (1..k) /\ Window(k - 1, Day20) \in SUBSET (1..k)
    BY <1>1, WindowsFit
  <2> QED BY <1>1, <2>1, SameWindows
<1>6. k >= Day60 => HighestHigh(cs, Window(k, Day60)) = HighestHigh(bs, Window(k, Day60))
  <2> SUFFICES ASSUME k >= Day60 PROVE HighestHigh(cs, Window(k, Day60)) = HighestHigh(bs, Window(k, Day60))
    OBVIOUS
  <2>1. Window(k, Day60) \in SUBSET (1..k)
    BY <1>1, WindowsFit
  <2> QED BY <1>1, <2>1, SameWindows
<1>7. (IF k >= Day60 THEN <<cs[k].close, HighestHigh(cs, Window(k, Day60))>> ELSE <<>>)
        = (IF k >= Day60 THEN <<bs[k].close, HighestHigh(bs, Window(k, Day60))>> ELSE <<>>)
  BY <1>4, <1>6
<1>8. /\ FibHit(cs, k, Fib, 300) = FibHit(bs, k, Fib, 300)
      /\ FibHit(cs, k, Plc, 225) = FibHit(bs, k, Plc, 225)
  BY <1>3
<1>9. /\ (IF k > FastRsi THEN <<WilderRsi(cs, FastRsi, k)>> ELSE <<>>)
           = (IF k > FastRsi THEN <<WilderRsi(bs, FastRsi, k)>> ELSE <<>>)
      /\ (IF k > SlowRsi THEN <<WilderRsi(cs, SlowRsi, k)>> ELSE <<>>)
           = (IF k > SlowRsi THEN <<WilderRsi(bs, SlowRsi, k)>> ELSE <<>>)
  BY <1>2
<1>10. /\ <<cs[k].close, cs[k - 1].close>> = <<bs[k].close, bs[k - 1].close>>
       /\ <<cs[k].close, cs[k - Day5].close>> = <<bs[k].close, bs[k - Day5].close>>
       /\ <<cs[k].close, cs[k - Day20].close>> = <<bs[k].close, bs[k - Day20].close>>
       /\ <<cs[k].close, HighestHigh(cs, Window(k, Day20))>> = <<bs[k].close, HighestHigh(bs, Window(k, Day20))>>
       /\ <<cs[k].volume * Day20, SumVolume(cs, Window(k - 1, Day20))>>
            = <<bs[k].volume * Day20, SumVolume(bs, Window(k - 1, Day20))>>
  BY <1>4, <1>5
<1> QED BY <1>3, <1>7, <1>8, <1>9, <1>10, Zenon DEF ObservationAt

(* The signals of phase0h.ts.                                              *)
LEMMA SameFires ==
    ASSUME NEW bs \in Seq(BarShapes), NEW cs, NEW k \in 1..Len(bs), SameBars(bs, cs, k), k > Day60,
           NEW s \in Signals
    PROVE  Fires(s, cs, k) <=> Fires(s, bs, k)
<1>1. /\ Day5 \in Nat \ {0} /\ Day20 \in Nat \ {0} /\ Day50 \in Nat \ {0} /\ Day60 \in Nat \ {0}
      /\ Day5 <= Day20 /\ k \in Nat /\ k - 1 \in 0..k /\ Day20 <= k - 1 /\ k >= 2 /\ Day50 <= k
  BY WindowsArePositive
<1>2. /\ cs[k] = bs[k] /\ cs[k - 1] = bs[k - 1] /\ cs[k - Day5] = bs[k - Day5]
      /\ cs[k - Day20] = bs[k - Day20]
  <2>1. k \in 1..k /\ k - 1 \in 1..k /\ k - Day5 \in 1..k /\ k - Day20 \in 1..k
    BY <1>1
  <2> QED BY <2>1 DEF SameBars
<1>3. \A n, level : RsiBelow(cs, n, k, level) <=> RsiBelow(bs, n, k, level)
  BY <1>1, SameRsi
<1>4. Sma(cs, k, Day20) = Sma(bs, k, Day20) /\ Sma(cs, k, Day50) = Sma(bs, k, Day50)
  BY <1>1, SameSma
<1>5. /\ HighestHigh(cs, Window(k, Day20)) = HighestHigh(bs, Window(k, Day20))
      /\ HighestHigh(cs, Window(k - 1, Day20)) = HighestHigh(bs, Window(k - 1, Day20))
      /\ SumVolume(cs, Window(k - 1, Day20)) = SumVolume(bs, Window(k - 1, Day20))
  <2>1. Window(k, Day20) \in SUBSET (1..k) /\ Window(k - 1, Day20) \in SUBSET (1..k)
    BY <1>1, WindowsFit
  <2> QED BY <1>1, <2>1, SameWindows
<1>6. Pace(cs, k) = Pace(bs, k)
  BY <1>2, <1>5 DEF Pace
<1>7. /\ Falls(cs, k, 1, 4) <=> Falls(bs, k, 1, 4)
      /\ Falls(cs, k, 1, 3) <=> Falls(bs, k, 1, 3)
      /\ Falls(cs, k, Day5, 10) <=> Falls(bs, k, Day5, 10)
      /\ Rises(cs, k, 1, 3) <=> Rises(bs, k, 1, 3)
  BY <1>2 DEF Falls, Rises
<1>8. \A tenths : PaceAtLeast(cs, k, tenths) <=> PaceAtLeast(bs, k, tenths)
  BY <1>6 DEF PaceAtLeast
<1>9. \A levels, tol : FibHit(cs, k, levels, tol) = FibHit(bs, k, levels, tol)
  BY <1>1, SameSwing
<1>10. CASE s \in {"rsi2", "rsi2Sma50", "rsi14"}
  BY <1>2, <1>3, <1>4, <1>10 DEF Fires
<1>11. CASE s \in {"ret1", "ret5", "pullback", "breakout20"}
  BY <1>2, <1>4, <1>5, <1>7, <1>8, <1>11 DEF Fires
<1>12. CASE s \in {"volshockUp", "volshockDown", "fibBounce", "fibPlacebo"}
  BY <1>7, <1>8, <1>9, <1>12 DEF Fires
<1>13. CASE s \in {"tech", "gapReversal"}
  BY <1>2, <1>4, <1>5, <1>13 DEF Fires
<1> QED BY <1>10, <1>11, <1>12, <1>13 DEF Signals

(* An exit whose last bar both arrays have.                                *)
LEMMA SameExit ==
    ASSUME NEW bs \in Seq(BarShapes), NEW cs \in Seq(BarShapes), NEW k \in 1..Len(bs), NEW e \in Exits,
           k + e.hold <= Len(bs), Len(bs) <= Len(cs), SameBars(bs, cs, Len(bs))
    PROVE  Simulate(cs, k, e) = Simulate(bs, k, e)
<1>1. e.hold \in Nat \ {0} /\ k \in Nat /\ k + e.hold <= Len(cs)
  <2>1. e.hold \in Nat \ {0}
    BY HoldIsBounded
  <2>2. Len(bs) \in Nat /\ Len(cs) \in Nat
    OBVIOUS
  <2> QED BY <2>1, <2>2
<1>2. /\ cs[k + 1] = bs[k + 1] /\ cs[k + e.hold] = bs[k + e.hold]
      /\ \A j \in (k + 1)..(k + e.hold) : cs[j] = bs[j]
  <2>1. k + 1 \in 1..Len(bs) /\ k + e.hold \in 1..Len(bs) /\ (k + 1)..(k + e.hold) \subseteq 1..Len(bs)
    BY <1>1
  <2> QED BY <2>1 DEF SameBars
<1>3. Ends(cs, k, e) = Ends(bs, k, e)
  <2>1. ASSUME NEW j \in (k + 1)..(k + e.hold + 1)
        PROVE  j > k + e.hold \/ cs[j] = bs[j]
    BY <1>1, <1>2
  <2> QED BY <1>2, <2>1 DEF Ends
<1>4. GotAt(cs, k, e) = GotAt(bs, k, e)
  <2> DEFINE x(b, j) == IF j > k + e.hold THEN {100 * b[k + e.hold].close}
                        ELSE UNION WaysOf(b[k + 1].open, e, b[j])
  <2>1. ASSUME NEW j \in (k + 1)..(k + e.hold + 1) PROVE x(cs, j) = x(bs, j)
    <3>1. j > k + e.hold \/ cs[j] = bs[j]
      BY <1>1, <1>2
    <3> QED BY <1>2, <3>1
  <2> HIDE DEF x
  <2>2. [j \in (k + 1)..(k + e.hold + 1) |-> x(cs, j)] = [j \in (k + 1)..(k + e.hold + 1) |-> x(bs, j)]
    BY <2>1
  <2>3. /\ GotAt(cs, k, e) = [j \in (k + 1)..(k + e.hold + 1) |-> x(cs, j)]
        /\ GotAt(bs, k, e) = [j \in (k + 1)..(k + e.hold + 1) |-> x(bs, j)]
    BY DEF GotAt, x
  <2> QED BY <2>2, <2>3
<1>5. PICK u : Walks(u, k + 1, k + e.hold + 1, Ends(bs, k, e), GotAt(bs, k, e))
  <2>1. k + 1 \in Int /\ k + e.hold + 1 \in Int /\ k + e.hold + 1 \in Ends(bs, k, e)
    BY <1>1 DEF Ends
  <2> QED BY <2>1, WalkExists
<1>6. SoldAt(bs, k, e, u)
  BY <1>1, <1>5, SoldWalks
<1>7. SoldAt(cs, k, e, u)
  BY <1>1, <1>3, <1>4, <1>5, SoldWalks
<1>8. Simulate(bs, k, e) = Min(u[k + 1])
  BY <1>1, <1>6, SimulateIsWorst
<1>9. Simulate(cs, k, e) = Min(u[k + 1])
  BY <1>1, <1>7, SimulateIsWorst
<1> QED BY <1>8, <1>9

(* The exits of an event.                                                  *)
LEMMA SameSold ==
    ASSUME NEW bs \in Seq(BarShapes), NEW cs \in Seq(BarShapes), NEW k \in 1..Len(bs), Event(bs, k),
           Len(bs) <= Len(cs), SameBars(bs, cs, Len(bs))
    PROVE  Measured(cs, k).sold = Measured(bs, k).sold
<1>1. /\ LongHold \in Nat \ {0} /\ Day20 \in Nat \ {0} /\ Day20 <= Day60 /\ Day60 \in Nat
      /\ k \in Nat /\ k > Day60 /\ k <= Len(bs) - LongHold
  BY WindowsArePositive DEF Event
<1>2. Event(cs, k)
  <2>1. SameBars(bs, cs, k) /\ Day20 <= k
    BY <1>1 DEF SameBars
  <2>2. Tradable(cs, k)
    BY <1>1, <2>1, SameTradable DEF Event
  <2>3. k <= Len(cs) - LongHold
    BY <1>1
  <2> QED BY <1>1, <2>2, <2>3 DEF Event
<1>3. ASSUME NEW e \in Exits PROVE Simulate(cs, k, e) = Simulate(bs, k, e)
  <2>1. e.hold \in Nat /\ e.hold <= LongHold
    BY HoldIsBounded
  <2>2. k + e.hold <= Len(bs)
    BY <1>1, <2>1
  <2> QED BY <2>2, SameExit
<1>4. [e \in Exits |-> Simulate(cs, k, e)] = [e \in Exits |-> Simulate(bs, k, e)]
  BY <1>3
<1>5. EventRow(cs, k).rets = EventRow(bs, k).rets
  BY <1>4 DEF EventRow
<1>6. ASSUME NEW b, Event(b, k) PROVE Measured(b, k).sold = EventRow(b, k).rets
  BY <1>6 DEF Measured
<1> QED BY <1>2, <1>5, <1>6, Zenon

(* The window of n elements that follow the one at i.                      *)
LEMMA WindowAfter ==
    ASSUME NEW S, NEW s \in Seq(S), NEW i \in Nat, NEW n \in Nat, i + n <= Len(s)
    PROVE  /\ SubSeq(s, i + 1, i + n) \in Seq(S)
           /\ Len(SubSeq(s, i + 1, i + n)) = n
           /\ \A j \in 1..n : SubSeq(s, i + 1, i + n)[j] = s[i + 1 + j - 1]
<1>1. \A j \in (i + 1)..(i + n) : s[j] \in S
  OBVIOUS
<1> QED BY <1>1

(* The trades of a candidate, under every convention of entry.             *)
LEMMA SameTrades ==
    ASSUME NEW bs \in Seq(BarShapes), NEW cs \in Seq(BarShapes), NEW k \in 1..Len(bs), Candidate(bs, k),
           Len(bs) <= Len(cs), SameBars(bs, cs, Len(bs))
    PROVE  Measured(cs, k).trades = Measured(bs, k).trades
<1>1. /\ LongHold \in Nat \ {0} /\ Day20 \in Nat \ {0} /\ Day20 <= StudyHistory + 1 /\ StudyHistory \in Nat
      /\ k \in Nat /\ k > StudyHistory /\ k <= Len(bs) - LongHold - 2 /\ Len(bs) \in Nat /\ Len(cs) \in Nat
  <2>1. k > StudyHistory /\ k <= Len(bs) - LongHold - 2
    BY DEF Candidate
  <2>2. Len(bs) \in Nat /\ Len(cs) \in Nat
    OBVIOUS
  <2> QED BY <2>1, <2>2, WindowsArePositive
<1>2. Candidate(cs, k)
  <2>1. SameBars(bs, cs, k) /\ Day20 <= k
    BY <1>1 DEF SameBars
  <2>2. Tradable(cs, k)
    BY <1>1, <2>1, SameTradable DEF Candidate
  <2>3. k <= Len(cs) - LongHold - 2
    BY <1>1
  <2> QED BY <1>1, <2>2, <2>3 DEF Candidate
<1>3. cs[k] = bs[k] /\ cs[k + 1] = bs[k + 1]
  BY <1>1 DEF SameBars
<1>4. ASSUME NEW i \in {k, k + 1} PROVE SubSeq(cs, i + 1, i + LongHold) = SubSeq(bs, i + 1, i + LongHold)
  <2>1. /\ i + 1 \in Int /\ i + LongHold \in Int /\ i + 1 >= 1 /\ i + LongHold <= Len(bs) /\ i \in Nat
        /\ i + LongHold <= Len(cs)
    BY <1>1
  <2>2. ASSUME NEW j \in 1..LongHold PROVE cs[i + 1 + j - 1] = bs[i + 1 + j - 1]
    <3>1. i + 1 + j - 1 \in 1..Len(bs)
      BY <1>1, <2>1
    <3> QED BY <3>1 DEF SameBars
  <2>3. ASSUME NEW s \in Seq(BarShapes), i + LongHold <= Len(s)
        PROVE  /\ SubSeq(s, i + 1, i + LongHold) \in Seq(BarShapes)
               /\ Len(SubSeq(s, i + 1, i + LongHold)) = LongHold
               /\ \A j \in 1..LongHold : SubSeq(s, i + 1, i + LongHold)[j] = s[i + 1 + j - 1]
    <3>1. i \in Nat /\ LongHold \in Nat
      BY <1>1, <2>1
    <3> QED BY <2>3, <3>1, WindowAfter
  <2> DEFINE x == SubSeq(cs, i + 1, i + LongHold)
             y == SubSeq(bs, i + 1, i + LongHold)
  <2>4. /\ x \in Seq(BarShapes) /\ Len(x) = LongHold /\ y \in Seq(BarShapes) /\ Len(y) = LongHold
        /\ \A j \in 1..LongHold : x[j] = y[j]
    BY <2>1, <2>2, <2>3, Zenon
  <2> HIDE DEF x, y
  <2>5. x = y
    BY <2>4
  <2> QED BY <2>5 DEF x, y
<1>5. EmptyPlan(cs[k].close, 0) = EmptyPlan(bs[k].close, 0)
  BY <1>3
<1> DEFINE plan == EmptyPlan(bs[k].close, 0)
<1> HIDE DEF plan
<1>6. ASSUME NEW c \in Conventions PROVE Trade(cs, k, c, plan) = Trade(bs, k, c, plan)
  <2> DEFINE i == IF c = "asIs" THEN k ELSE k + 1
  <2>1. i \in {k, k + 1} /\ ~(i + LongHold > Len(bs)) /\ ~(i + LongHold > Len(cs)) /\ cs[i] = bs[i]
    BY <1>1, <1>3
  <2>2. SubSeq(cs, i + 1, i + LongHold) = SubSeq(bs, i + 1, i + LongHold)
    BY <1>4, <2>1
  <2>3. \A b : Trade(b, k, c, plan) =
                 IF i + LongHold > Len(b) THEN <<>>
                 ELSE <<[entryBar |-> b[i],
                         sim |-> SubSeq(b, i + 1, i + LongHold),
                         entryTrigger |-> IF c = "nextOpen" THEN b[i].open ELSE plan.entry,
                         maxBuyPrice  |-> IF c = "nextOpen" THEN Max({plan.maxBuyPrice, b[i].open})
                                          ELSE plan.maxBuyPrice]>>
    BY DEF Trade
  <2> HIDE DEF i
  <2> QED BY <2>1, <2>2, <2>3
<1>7. [c \in Conventions |-> Trade(cs, k, c, plan)] = [c \in Conventions |-> Trade(bs, k, c, plan)]
  BY <1>6
<1>8. /\ Measured(cs, k).trades = [c \in Conventions |-> Trade(cs, k, c, EmptyPlan(cs[k].close, 0))]
      /\ Measured(bs, k).trades = [c \in Conventions |-> Trade(bs, k, c, EmptyPlan(bs[k].close, 0))]
  BY <1>2 DEF Measured
<1> QED BY <1>5, <1>7, <1>8 DEF plan

(* A forward return that the shorter array has.                            *)
LEMMA SameForward ==
    ASSUME NEW bs \in Seq(BarShapes), NEW cs \in Seq(BarShapes), NEW k \in 1..Len(bs),
           Len(bs) <= Len(cs), SameBars(bs, cs, Len(bs)), NEW h \in DOMAIN Forward(bs, k)
    PROVE  Forward(cs, k)[h] = Forward(bs, k)[h]
<1>1. h \in Horizons /\ k + h <= Len(bs) /\ h \in Nat
  BY WindowsOrdered DEF Forward, WindowsOrdered
<1>2. k + h <= Len(cs) /\ k + h \in 1..Len(bs)
  BY <1>1
<1>3. cs[k + h] = bs[k + h] /\ cs[k] = bs[k]
  BY <1>2 DEF SameBars
<1> QED BY <1>1, <1>2, <1>3 DEF Forward

(* What was observed at a bar.                                             *)
LEMMA SameSeen ==
    ASSUME NEW bs \in Seq(BarShapes), NEW cs \in Seq(BarShapes), NEW k \in 1..Len(bs), Observed(bs, k),
           Len(bs) <= Len(cs), SameBars(bs, cs, Len(bs))
    PROVE  Measured(cs, k).seen = Measured(bs, k).seen
<1>1. SameBars(bs, cs, k) /\ k \in Nat /\ Len(bs) \in Nat /\ Len(cs) \in Nat /\ k > Day20 /\ k < Len(bs)
  BY DEF SameBars, Observed
<1>2. Tradable(cs, k)
  BY <1>1, SameTradable, WindowsArePositive DEF Observed
<1>3. DOMAIN Forward(cs, k) # {}
  <2>1. PICK h \in Horizons : k + h <= Len(bs)
    BY DEF Observed, Forward
  <2>2. h \in Nat /\ k + h <= Len(cs)
    BY <1>1, <2>1, WindowsOrdered DEF WindowsOrdered
  <2> QED BY <2>1, <2>2 DEF Forward
<1>4. Observed(cs, k)
  BY <1>1, <1>2, <1>3 DEF Observed
<1>5. ObservationAt(cs, k) = ObservationAt(bs, k)
  BY <1>1, SameObservation
<1>6. \A b : Observed(b, k) => Measured(b, k).seen = <<ObservationAt(b, k)>>
  BY DEF Measured
<1> QED BY <1>4, <1>5, <1>6

(* Everything decided at a bar.                                            *)
LEMMA SameDecided ==
    ASSUME NEW bs \in Seq(BarShapes), NEW cs \in Seq(BarShapes), NEW k \in 1..Len(bs),
           Len(bs) <= Len(cs), SameBars(bs, cs, Len(bs))
    PROVE  Decided(cs, k) = Decided(bs, k)
<1>1. SameBars(bs, cs, k) /\ k \in Nat /\ Len(bs) \in Nat /\ Len(cs) \in Nat
  BY DEF SameBars
<1>2. TechnicalPick(cs, k) = TechnicalPick(bs, k)
  BY <1>1, SamePick
<1>5. (IF k > Day60 THEN {s \in Signals : Fires(s, cs, k)} ELSE {})
        = (IF k > Day60 THEN {s \in Signals : Fires(s, bs, k)} ELSE {})
  <2>1. CASE k > Day60
    <3>1. \A s \in Signals : Fires(s, cs, k) <=> Fires(s, bs, k)
      BY <1>1, <2>1, SameFires
    <3> QED BY <3>1
  <2>2. CASE ~(k > Day60)
    BY <2>2
  <2> QED BY <2>1, <2>2
<1> QED BY <1>2, <1>5, Zenon DEF Decided

(* No study looks ahead: a session added to the array changes no pick or   *)
(* signal of an earlier bar, no forward return, exit or trade that was     *)
(* complete, and no observation that was made.                             *)
THEOREM DecisionsStandAlways == StudiesSpec => DecisionsStand
<1> DEFINE Stands == \A k \in DOMAIN bars :
          /\ Decided(bars', k) = Decided(bars, k)
          /\ Observed(bars, k) => Measured(bars', k).seen = Measured(bars, k).seen
          /\ \A h \in DOMAIN Forward(bars, k) : Forward(bars', k)[h] = Forward(bars, k)[h]
          /\ Event(bars, k) => Measured(bars', k).sold = Measured(bars, k).sold
          /\ Candidate(bars, k) => Measured(bars', k).trades = Measured(bars, k).trades
<1>1. ASSUME StudyBars, [StudiesNext]_bars PROVE [Stands]_bars
  <2> SUFFICES ASSUME StudiesNext PROVE Stands
    BY <1>1
  <2>1. PICK b \in BarShapes : bars' = Append(bars, b)
    BY DEF StudiesNext, AddBar
  <2>2. /\ bars \in Seq(BarShapes) /\ bars' \in Seq(BarShapes) /\ Len(bars) <= Len(bars')
        /\ DOMAIN bars = 1..Len(bars)
    BY <1>1, <2>1 DEF StudyBars
  <2>3. SameBars(bars, bars', Len(bars))
    BY <2>1, <2>2 DEF SameBars
  <2>4. ASSUME NEW k \in DOMAIN bars PROVE Decided(bars', k) = Decided(bars, k)
    BY <2>2, <2>3, SameDecided
  <2>5. ASSUME NEW k \in DOMAIN bars, NEW h \in DOMAIN Forward(bars, k)
        PROVE  Forward(bars', k)[h] = Forward(bars, k)[h]
    BY <2>2, <2>3, SameForward
  <2>6. ASSUME NEW k \in DOMAIN bars, Event(bars, k) PROVE Measured(bars', k).sold = Measured(bars, k).sold
    BY <2>2, <2>3, <2>6, SameSold
  <2>7. ASSUME NEW k \in DOMAIN bars, Candidate(bars, k)
        PROVE  Measured(bars', k).trades = Measured(bars, k).trades
    BY <2>2, <2>3, <2>7, SameTrades
  <2>8. ASSUME NEW k \in DOMAIN bars, Observed(bars, k) PROVE Measured(bars', k).seen = Measured(bars, k).seen
    BY <2>2, <2>3, <2>8, SameSeen
  <2> QED BY <2>4, <2>5, <2>6, <2>7, <2>8
<1> HIDE DEF Stands
<1>2. StudiesSpec => [][Stands]_bars
  BY <1>1, StudyBarsAlways, PTL DEF StudiesSpec
<1> QED BY <1>2 DEF DecisionsStand, Stands
=============================================================================
