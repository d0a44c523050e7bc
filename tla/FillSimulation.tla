---------------------------- MODULE FillSimulation ----------------------------
(***************************************************************************)
(* The simulated life of one trade plan                                     *)
(* (packages/backtest/src/fillSimulation.ts), which the replay, the shadow  *)
(* evaluation and the experiments share: the entry on the bar of the entry  *)
(* session, then one bar after the other until the position is closed or    *)
(* the bars end.  Each bar is one action.                                   *)
(*                                                                         *)
(* Prices are counted in ticks.  Plans are those that buildRiskPlan         *)
(* (packages/domain/src/engine/risk.ts) makes: the stop below the entry,    *)
(* the targets above it in order, the lots split between them.  Fees are    *)
(* linear in the legs and left out.                                         *)
(***************************************************************************)
EXTENDS Integers

CONSTANTS MaxPrice,    \* bound of the model: prices
          MaxLots,     \* bound of the model: lots of a plan
          Tp1Percent,  \* tp1AllocationPct, in percent
          MaxBars      \* maxHoldingBars

ASSUME SimulationAssumption ==
  /\ MaxPrice \in Nat /\ MaxLots \in Nat
  /\ Tp1Percent \in 0 .. 100
  /\ MaxBars \in Nat

VARIABLES plan,     \* the trade plan
          phase,    \* "entry", "holding" or "done"
          fill,     \* fillPrice
          filled,   \* filledLots
          pos,      \* ExitState
          walked,   \* bars walked
          close     \* close of the last bar walked

vars == <<plan, phase, fill, filled, pos, walked, close>>

Prices  == 1 .. MaxPrice
Reasons == {"tp1", "tp2", "sl", "expiry"}
NoLeg   == [price |-> 0, lots |-> 0, day |-> 0, gapped |-> FALSE]

Bars == {b \in [open : Prices, high : Prices, low : Prices, close : Prices] :
           /\ b.low <= b.open /\ b.low <= b.close
           /\ b.open <= b.high /\ b.close <= b.high}

Plans == {p \in [sl : Prices, entry : Prices, tp1 : Prices, tp2 : Prices, lots : 1 .. MaxLots] :
            p.sl < p.entry /\ p.entry < p.tp1 /\ p.tp1 <= p.tp2}

Lesser(a, b) == IF a <= b THEN a ELSE b

\* Math.round(a / b), of naturals.
Rounded(a, b) == (2 * a + b) \div (2 * b)

MaxBuyPrice == plan.entry + 1

\* Lots that the plan sells at its first target; the rest is left to the second.
PlannedTp1Lots == Lesser(plan.lots, Rounded(plan.lots * Tp1Percent, 100))

\* MUTANT: a partial fill keeps the plan's allocation.
MutScaledTp1Lots(lots) == PlannedTp1Lots

ScaledTp1Lots(lots) ==
  IF lots >= plan.lots THEN PlannedTp1Lots
  ELSE Lesser(lots, Rounded(PlannedTp1Lots * lots, plan.lots))

\* MUTANT: the second allocation is scaled by itself.
MutScaledTp2Lots(lots) == ((plan.lots - PlannedTp1Lots) * lots) \div plan.lots

ScaledTp2Lots(lots) == lots - ScaledTp1Lots(lots)

Flat == [stop |-> 0, tp1Done |-> FALSE, closed |-> FALSE, held1 |-> 0, held2 |-> 0,
         legs |-> [r \in Reasons |-> NoLeg]]

Init ==
  /\ plan \in Plans
  /\ phase = "entry" /\ fill = 0 /\ filled = 0
  /\ pos = Flat /\ walked = 0 /\ close = 0

-----------------------------------------------------------------------------
(* A bar.  The operators map the position p to what a function of the       *)
(* source makes of it; an exit of no lots leaves no leg.                    *)

Today == walked + 1

Sell(p, reason, price, lots, day, gapped) ==
  IF lots > 0
  THEN [p EXCEPT !.legs[reason] =
          [price |-> price, lots |-> lots, day |-> day, gapped |-> gapped]]
  ELSE p

CloseAll(p, price, day, reason, gapped) ==
  [Sell(p, reason, price, p.held1 + p.held2, day, gapped)
     EXCEPT !.held1 = 0, !.held2 = 0, !.closed = TRUE]

\* MUTANT: the stop stays where it was.
MutFillTp1(p, price, gapped) ==
  IF p.held1 <= 0 THEN p
  ELSE [Sell(p, "tp1", price, p.held1, Today, gapped) EXCEPT !.held1 = 0, !.tp1Done = TRUE]

\* The first target; the stop moves to the fill price.
FillTp1(p, price, gapped) ==
  IF p.held1 <= 0 THEN p
  ELSE [Sell(p, "tp1", price, p.held1, Today, gapped)
          EXCEPT !.held1 = 0, !.tp1Done = TRUE, !.stop = fill]

FillTp2(p, price, gapped) == [Sell(p, "tp2", price, p.held2, Today, gapped) EXCEPT !.held2 = 0]

Settled(p) == [p EXCEPT !.closed = (p.held1 = 0 /\ p.held2 = 0)]

\* MUTANT: the targets are looked at before the stop.
MutWithinBar(p, b) ==
  IF b.high >= plan.tp2 THEN Settled(FillTp2(FillTp1(p, plan.tp1, FALSE), plan.tp2, FALSE))
  ELSE IF b.low <= p.stop THEN CloseAll(p, p.stop, Today, "sl", FALSE)
  ELSE IF b.high >= plan.tp1 THEN FillTp1(p, plan.tp1, FALSE)
  ELSE p

\* MUTANT: the stop is watched at the close.
MutWithinBarAtClose(p, b) ==
  IF b.close <= p.stop THEN CloseAll(p, b.close, Today, "sl", FALSE)
  ELSE IF b.high >= plan.tp2 THEN Settled(FillTp2(FillTp1(p, plan.tp1, FALSE), plan.tp2, FALSE))
  ELSE IF b.high >= plan.tp1 THEN FillTp1(p, plan.tp1, FALSE)
  ELSE p

\* Within the bar the stop comes first.
WithinBar(p, b) ==
  LET first == IF b.high >= plan.tp1 THEN FillTp1(p, plan.tp1, FALSE) ELSE p
  IN  IF b.low <= p.stop THEN CloseAll(p, p.stop, Today, "sl", FALSE)
      ELSE IF b.high >= plan.tp2 /\ (p.tp1Done \/ p.held2 > 0)
           THEN Settled(FillTp2(first, plan.tp2, FALSE))
           ELSE first

\* MUTANT: a gap below the stop sells at the stop.
MutStepBar(p, b) == WithinBar(p, b)

\* A gap at the open sells at the open; a first target so reached leaves the rest of
\* the bar to be looked at.
StepBar(p, b) ==
  LET first == IF b.open >= plan.tp1 THEN FillTp1(p, b.open, TRUE) ELSE p
  IN  IF b.open <= p.stop THEN CloseAll(p, b.open, Today, "sl", TRUE)
      ELSE IF b.open >= plan.tp2 /\ (~p.tp1Done \/ p.held2 > 0)
           THEN Settled(FillTp2(first, b.open, TRUE))
           ELSE WithinBar(first, b)

-----------------------------------------------------------------------------

\* The order fills on a bar that does not open above the highest price to pay and comes
\* down to the entry.
Fills(b) == b.open <= MaxBuyPrice /\ b.low <= plan.entry

\* At the open when that is better than the limit.
FillPrice(b) == Lesser(Lesser(b.open, plan.entry), MaxBuyPrice)

\* No entry bar, a gap above the highest price to pay, or the price never comes down.
NoFill ==
  /\ phase = "entry"
  /\ phase' = "done"
  /\ UNCHANGED <<plan, fill, filled, pos, walked, close>>

\* The volume of the entry bar lets as many as lots be filled.
Enter(b, lots) ==
  /\ phase = "entry"
  /\ Fills(b)
  /\ fill' = FillPrice(b)
  /\ filled' = lots
  /\ pos' = [Flat EXCEPT !.stop = plan.sl, !.held1 = ScaledTp1Lots(lots), !.held2 = ScaledTp2Lots(lots)]
  /\ phase' = "holding"
  /\ UNCHANGED <<plan, walked, close>>

Walk(b) ==
  /\ phase = "holding" /\ walked < MaxBars
  /\ pos' = StepBar(pos, b)
  /\ walked' = walked + 1 /\ close' = b.close
  /\ phase' = IF pos'.closed THEN "done" ELSE "holding"
  /\ UNCHANGED <<plan, fill, filled>>

\* The bars end, or the holding period does; what is left is sold at the last close.
Expire ==
  /\ phase = "holding"
  /\ \/ walked = 0 /\ UNCHANGED pos
     \/ walked > 0 /\ pos' = CloseAll(pos, close, walked, "expiry", FALSE)
  /\ phase' = "done"
  /\ UNCHANGED <<plan, fill, filled, walked, close>>

Next ==
  \/ NoFill \/ Expire
  \/ \E b \in Bars : Walk(b) \/ \E lots \in 1 .. plan.lots : Enter(b, lots)

Spec == Init /\ [][Next]_vars

-----------------------------------------------------------------------------
(* Properties.                                                             *)

Legs == [price : 0 .. MaxPrice, lots : 0 .. MaxLots, day : 0 .. MaxBars, gapped : BOOLEAN]

Positions == [stop : 0 .. MaxPrice, tp1Done : BOOLEAN, closed : BOOLEAN,
              held1 : 0 .. MaxLots, held2 : 0 .. MaxLots, legs : [Reasons -> Legs]]

\* Shape of the state.
TypeOK ==
  /\ plan \in Plans
  /\ phase \in {"entry", "holding", "done"}
  /\ fill \in 0 .. MaxPrice /\ filled \in 0 .. MaxLots
  /\ walked \in 0 .. MaxBars /\ close \in 0 .. MaxPrice
  /\ pos \in Positions

Held(p) == p.held1 + p.held2
Sold(p) == p.legs["tp1"].lots + p.legs["tp2"].lots + p.legs["sl"].lots + p.legs["expiry"].lots

\* However partial the fill and however it is split, every lot filled is held or sold
\* once, and none is left once bars have been walked to the end.
LotsConserved ==
  /\ Sold(pos) + Held(pos) = filled
  /\ phase = "done" /\ walked > 0 => Held(pos) = 0

\* What resting orders make of one price: a stop for all that is held and a limit for
\* each target, at the price itself when the bar opens with it.
React(p, price, gapped) ==
  LET At(order) == IF gapped THEN price ELSE order
  IN  IF price <= p.stop THEN CloseAll(p, At(p.stop), Today, "sl", gapped)
      ELSE IF price >= plan.tp2 THEN FillTp2(FillTp1(p, At(plan.tp1), gapped), At(plan.tp2), gapped)
      ELSE IF price >= plan.tp1 THEN FillTp1(p, At(plan.tp1), gapped)
      ELSE p

Reference(p, b) == React(React(React(p, b.open, TRUE), b.low, FALSE), b.high, FALSE)

\* Whatever the next bar, the simulation of it (fillSimulation.ts:154-163) does what
\* resting orders do when the price opens, falls to the low and only then rises.
FollowsPath ==
  phase = "holding" => \A b \in Bars :
    LET p == StepBar(pos, b)
        q == Reference(pos, b)
    IN  /\ p.legs = q.legs /\ Held(p) = Held(q)
        /\ Held(p) > 0 => p.stop = q.stop

\* Whatever the next bar, a price that was traded in it is what an entry filled on it
\* pays (fillSimulation.ts:107-108) and what each leg it adds to a position sells at.
TradesInsideBar ==
  \A b \in Bars :
    /\ phase = "entry" /\ Fills(b) => FillPrice(b) \in b.low .. b.high
    /\ phase = "holding" => \A r \in Reasons :
         LET leg == StepBar(pos, b).legs[r]
         IN  leg # pos.legs[r] => leg.price \in b.low .. b.high

Loses(leg, price) == leg.lots > 0 /\ ~leg.gapped /\ leg.price < price

\* In the days after the first target only a gap sells below the fill price.
RemainderBreaksEven ==
  \A r \in Reasons :
    pos.legs["tp1"].lots > 0 /\ pos.legs[r].day > pos.legs["tp1"].day => ~Loses(pos.legs[r], fill)

\* Only a gap sells below the stop of the plan, unless the fill itself was below it.
LossIsPlanned ==
  fill >= plan.sl => \A r \in Reasons : ~Loses(pos.legs[r], plan.sl)

=============================================================================
