----------------------------- MODULE RiskEngine -----------------------------
(***************************************************************************)
(* The risk engine (packages/domain/src/engine/risk.ts) over the tick      *)
(* table of packages/config/src/priceFraction.ts: from an entry price and  *)
(* a raw stop to a plan with a stop, two targets and a number of lots.     *)
(*                                                                         *)
(* Prices are whole rupiah and a raw stop is in hundredths of a rupiah.    *)
(* Amounts of money are divided by the shares of a lot and are counted in  *)
(* 1 / FeeScale rupiah, so that every fee is a whole number.               *)
(***************************************************************************)
EXTENDS Integers

CONSTANTS
    RiskBudget,         \* totalCapital * riskPerTradePct, per share of a lot
    MaxDeployed,        \* maxDeployedCapital, per share of a lot
    FeeScale,           \* the unit of the fee rates: BuyFee / FeeScale
    BuyFee,
    SellFee,
    Slippage,           \* slippageAllowancePerShare
    MinStopTicks,       \* minStopDistanceTicks
    Tp1Multiple,
    Tp2Multiple,
    Tp1Percent,         \* tp1AllocationPct
    SpeculativePercent, \* SPECULATIVE_BUY_SIZE_MULTIPLIER
    MinRewardToRisk     \* minNetRewardToRisk, in percent

ASSUME RiskConfig ==
    /\ RiskBudget \in Nat /\ MaxDeployed \in Nat
    /\ FeeScale \in Nat \ {0} /\ BuyFee \in Nat /\ SellFee \in Nat
    /\ Slippage \in Nat /\ MinStopTicks \in Nat
    /\ Tp1Multiple \in Nat \ {0} /\ Tp2Multiple \in Nat \ {0}
    /\ Tp1Multiple <= Tp2Multiple
    /\ Tp1Percent \in 0..100 /\ SpeculativePercent \in 0..100
    /\ MinRewardToRisk \in Nat

----------------------------------------------------------------------------
(* The exchange's price fractions.                                         *)

TickSizeFor(price) ==
    IF price <= 200 THEN 1
    ELSE IF price <= 500 THEN 2
    ELSE IF price <= 2000 THEN 5
    ELSE IF price <= 5000 THEN 10 ELSE 25

\* The price is in hundredths: p hundredths are at most t rupiah exactly
\* when p rounded up to rupiah is.
RoundDownToTick(hundredths) ==
    LET tick == TickSizeFor(-((-hundredths) \div 100))
    IN  (hundredths \div (100 * tick)) * tick

RoundUpToTick(price) ==
    LET tick == TickSizeFor(price)
    IN  -((-price) \div tick) * tick

ValidPrice(price) == price % TickSizeFor(price) = 0

----------------------------------------------------------------------------
(* The plan.                                                               *)

\* The stop is rounded down, then walked down tick by tick while it is
\* nearer to the entry than the smallest distance allowed.
ResolveStopLoss(entry, stopLossRaw) ==
    LET minDistance == MinStopTicks * TickSizeFor(entry)
        widen[sl \in Int] ==
            IF entry - sl >= minDistance THEN sl
            ELSE widen[RoundDownToTick(100 * (sl - TickSizeFor(sl)))]
    IN  widen[RoundDownToTick(stopLossRaw)]

ComputeMaxBuyPrice(entry) == RoundUpToTick(entry + TickSizeFor(entry))

SizePercent(category) == IF category = "SPECULATIVE_BUY" THEN SpeculativePercent ELSE 100

LeastOf(a, b) == IF a <= b THEN a ELSE b

\* MUTANT: the slippage is left out of the sizing.
MutEffectiveRisk(entry, sl) == FeeScale * (entry - sl) + entry * (BuyFee + SellFee)

\* What a share costs when the stop is hit, as the sizing estimates it.
EffectiveRisk(entry, sl) ==
    FeeScale * (entry - sl + Slippage) + entry * (BuyFee + SellFee)

\* The lots that the risk budget and the capital allow, scaled by category.
SizedLots(entry, sl, category) ==
    LET riskLots    == (RiskBudget * FeeScale) \div EffectiveRisk(entry, sl)
        capitalLots == (MaxDeployed * FeeScale) \div (entry * (FeeScale + BuyFee))
    IN  (LeastOf(riskLots, capitalLots) * SizePercent(category)) \div 100

EmptyPlan(entry, sl) ==
    [entry |-> entry, maxBuyPrice |-> ComputeMaxBuyPrice(entry), sl |-> sl,
     lots |-> 0, tp1 |-> entry, tp1Lots |-> 0, tp2 |-> entry, tp2Lots |-> 0,
     netReward |-> 0, maxNetLoss |-> 0, isNoTrade |-> TRUE]

MaxNetLoss(entry, sl, lots) ==
    lots * (FeeScale * (entry - sl + Slippage) + entry * BuyFee + sl * SellFee)

\* Math.round of the first target's share; the rest goes to the second.
Tp1Lots(lots) == LeastOf(lots, (2 * lots * Tp1Percent + 100) \div 200)

FullPlan(entry, sl, lots) ==
    LET risk    == entry - sl
        tp1     == RoundUpToTick(entry + Tp1Multiple * risk)
        tp2     == RoundUpToTick(entry + Tp2Multiple * risk)
        tp1Lots == Tp1Lots(lots)
        tp2Lots == lots - tp1Lots
        fees    == lots * entry * BuyFee + (tp1Lots * tp1 + tp2Lots * tp2) * SellFee
        reward  == FeeScale * (tp1Lots * (tp1 - entry) + tp2Lots * (tp2 - entry))
                     - fees - FeeScale * lots * Slippage
        loss    == MaxNetLoss(entry, sl, lots)
    IN  [entry |-> entry, maxBuyPrice |-> ComputeMaxBuyPrice(entry), sl |-> sl,
         lots |-> lots, tp1 |-> tp1, tp1Lots |-> tp1Lots, tp2 |-> tp2,
         tp2Lots |-> tp2Lots, netReward |-> reward, maxNetLoss |-> loss,
         isNoTrade |-> loss <= 0 \/ 100 * reward < MinRewardToRisk * loss]

BuildRiskPlan(entry, stopLossRaw, category) ==
    LET sl   == ResolveStopLoss(entry, stopLossRaw)
        lots == SizedLots(entry, sl, category)
    IN  IF entry - sl <= 0 \/ EffectiveRisk(entry, sl) <= 0 \/ lots <= 0
        THEN EmptyPlan(entry, sl)
        ELSE FullPlan(entry, sl, lots)

----------------------------------------------------------------------------

(* A plan that is traded has valid prices in the right order, every lot in *)
(* one of its two targets, a stop that loses no more than the risk budget  *)
(* and a cost within the capital that may be deployed: rounding to ticks   *)
(* across a change of tick size, and lots in three roundings, break it.    *)
SoundPlan(p) ==
    /\ ValidPrice(p.sl) /\ ValidPrice(p.maxBuyPrice)
    /\ p.lots > 0 =>
         /\ ValidPrice(p.tp1) /\ ValidPrice(p.tp2)
         /\ p.sl < p.entry /\ p.entry < p.tp1 /\ p.tp1 <= p.tp2
         /\ p.entry - p.sl >= MinStopTicks * TickSizeFor(p.entry)
         /\ p.tp1Lots >= 0 /\ p.tp2Lots >= 0 /\ p.tp1Lots + p.tp2Lots = p.lots
         /\ p.maxNetLoss <= RiskBudget * FeeScale
         /\ p.lots * p.entry * (FeeScale + BuyFee) <= MaxDeployed * FeeScale
=============================================================================
