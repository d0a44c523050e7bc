------------------------- MODULE FillSimulationProofs -------------------------
(***************************************************************************)
(* Proofs about FillSimulation, for all prices, plans, allocations, partial *)
(* fills and numbers of bars.                                               *)
(***************************************************************************)
EXTENDS FillSimulation, TLAPS

\* A position not yet closed: what it has sold, it sold at the first target, by the
\* given day, and the stop then stands at the fill price.
Live(p, day) ==
  /\ ~p.closed
  /\ p.legs["tp2"] = NoLeg /\ p.legs["sl"] = NoLeg /\ p.legs["expiry"] = NoLeg
  /\ ~p.tp1Done => p.stop = plan.sl /\ p.legs["tp1"] = NoLeg
  /\ p.tp1Done =>
       /\ p.held1 = 0 /\ p.stop = fill
       /\ p.legs["tp1"].lots > 0 /\ p.legs["tp1"].price >= plan.tp1
       /\ p.legs["tp1"].day <= day
  /\ Sold(p) + Held(p) = filled

\* A price at which what p holds may be sold on the day.
Bearable(p, price, day) ==
  /\ fill >= plan.sl => price >= plan.sl
  /\ p.tp1Done /\ p.legs["tp1"].day < day => price >= fill

NoLoss(p) ==
  /\ \A r \in Reasons :
       p.legs["tp1"].lots > 0 /\ p.legs[r].day > p.legs["tp1"].day => ~Loses(p.legs[r], fill)
  /\ fill >= plan.sl => \A r \in Reasons : ~Loses(p.legs[r], plan.sl)

Sound(p) ==
  /\ p \in Positions
  /\ Sold(p) + Held(p) = filled
  /\ p.closed => Held(p) = 0
  /\ NoLoss(p)

\* What a bar makes of a position: closed, or open and above its stop at the close.
Outcome(p, b) ==
  /\ Sound(p)
  /\ ~p.closed => Live(p, Today) /\ Bearable(p, b.close, Today)

\* An open position has been left alone by the stop of the last bar.
Holding ==
  /\ fill <= plan.entry
  /\ Live(pos, walked)
  /\ walked > 0 => Bearable(pos, close, walked)

IInv ==
  /\ TypeOK
  /\ Sound(pos)
  /\ phase = "entry" => pos = Flat /\ filled = 0 /\ walked = 0
  /\ phase = "holding" => Holding
  /\ phase = "done" /\ walked > 0 => Held(pos) = 0

-----------------------------------------------------------------------------
(* The arithmetic of an entry.                                             *)

LEMMA PlanFacts ==
  ASSUME NEW p \in Plans
  PROVE  /\ p.sl \in Int /\ p.entry \in Int /\ p.tp1 \in Int /\ p.tp2 \in Int
         /\ 1 <= p.sl /\ p.sl < p.entry /\ p.entry < p.tp1 /\ p.tp1 <= p.tp2 /\ p.tp2 <= MaxPrice
         /\ p.lots \in 1 .. MaxLots
BY SimulationAssumption DEF SimulationAssumption, Plans, Prices

LEMMA BarFacts ==
  ASSUME NEW b \in Bars
  PROVE  /\ b.open \in 1 .. MaxPrice /\ b.close \in 1 .. MaxPrice
         /\ b.low \in 1 .. MaxPrice /\ b.high \in 1 .. MaxPrice
         /\ b.low <= b.open /\ b.low <= b.close /\ b.open <= b.high /\ b.close <= b.high
BY SimulationAssumption DEF SimulationAssumption, Bars, Prices

LEMMA RoundedIsNatural ==
  ASSUME NEW a \in Nat, NEW b \in Nat, b > 0
  PROVE  Rounded(a, b) \in Nat
<1> DEFINE x == 2 * a + b  y == 2 * b
<1>1. x \in Nat /\ y \in Nat /\ y > 0
  OBVIOUS
<1> HIDE DEF x, y
<1>2. x \div y \in Nat
  BY <1>1
<1> QED BY <1>2 DEF Rounded, x, y

\* The two allocations of a fill are naturals and add up to it.
LEMMA AllocationsAddUp ==
  ASSUME plan \in Plans, Tp1Percent \in Nat, NEW lots \in 1 .. plan.lots
  PROVE  /\ ScaledTp1Lots(lots) \in 0 .. lots /\ ScaledTp2Lots(lots) \in 0 .. lots
         /\ ScaledTp1Lots(lots) + ScaledTp2Lots(lots) = lots
<1>1. plan.lots \in Nat /\ plan.lots > 0 /\ lots \in Nat
  BY PlanFacts, SimulationAssumption DEF SimulationAssumption
<1>2. plan.lots * Tp1Percent \in Nat
  BY <1>1
<1>3. PlannedTp1Lots \in 0 .. plan.lots
  BY <1>1, <1>2, RoundedIsNatural DEF PlannedTp1Lots, Lesser
<1>4. PlannedTp1Lots * lots \in Nat
  BY <1>1, <1>3
<1>5. Rounded(PlannedTp1Lots * lots, plan.lots) \in Nat
  BY <1>1, <1>4, RoundedIsNatural
<1>6. ScaledTp1Lots(lots) \in 0 .. lots
  BY <1>1, <1>3, <1>5 DEF ScaledTp1Lots, Lesser
<1> QED BY <1>1, <1>6 DEF ScaledTp2Lots

-----------------------------------------------------------------------------
(* What one function of the source makes of a position.                    *)

LEMMA LegFacts ==
  ASSUME NEW p \in Positions, NEW r \in Reasons
  PROVE  /\ p.legs[r] \in Legs
         /\ p.legs[r].price \in Int /\ p.legs[r].lots \in Nat /\ p.legs[r].day \in Int
         /\ p.legs[r].gapped \in BOOLEAN
<1>1. p.legs[r] \in Legs
  BY DEF Positions
<1> QED BY <1>1, SimulationAssumption DEF Legs, SimulationAssumption

LEMMA SellEffect ==
  ASSUME NEW p \in Positions, NEW r \in Reasons, NEW price \in 0 .. MaxPrice,
         NEW lots \in 0 .. MaxLots, NEW day \in 0 .. MaxBars, NEW gapped \in BOOLEAN
  PROVE  LET q == Sell(p, r, price, lots, day, gapped)
         IN  /\ q \in Positions
             /\ q.stop = p.stop /\ q.tp1Done = p.tp1Done /\ q.closed = p.closed
             /\ q.held1 = p.held1 /\ q.held2 = p.held2
             /\ \A x \in Reasons : x # r => q.legs[x] = p.legs[x]
             /\ q.legs[r] = IF lots > 0
                            THEN [price |-> price, lots |-> lots, day |-> day, gapped |-> gapped]
                            ELSE p.legs[r]
<1> DEFINE leg == [price |-> price, lots |-> lots, day |-> day, gapped |-> gapped]
<1>1. leg \in Legs
  BY DEF Legs
<1>2. p.legs \in [Reasons -> Legs]
  BY DEF Positions
<1> HIDE DEF leg
<1>3. [p.legs EXCEPT ![r] = leg] \in [Reasons -> Legs]
  BY <1>1, <1>2
<1>4. CASE lots > 0
  <2>1. Sell(p, r, price, lots, day, gapped) = [p EXCEPT !.legs = [p.legs EXCEPT ![r] = leg]]
    BY <1>4 DEF Sell, leg, Positions
  <2> QED BY <2>1, <1>2, <1>3, <1>4 DEF Positions, leg
<1>5. CASE ~(lots > 0)
  BY <1>5 DEF Sell
<1> QED BY <1>4, <1>5

LEMMA PositionFacts ==
  ASSUME NEW p \in Positions
  PROVE  /\ p.held1 \in 0 .. MaxLots /\ p.held2 \in 0 .. MaxLots /\ p.stop \in 0 .. MaxPrice
         /\ p.tp1Done \in BOOLEAN /\ p.closed \in BOOLEAN
         /\ \A r \in {"tp1", "tp2", "sl", "expiry"} : p.legs[r].lots \in Nat
BY LegFacts DEF Positions, Reasons

\* What is held while the position lives fits in one leg, and its legs lose nothing.
LEMMA LiveIsSound ==
  ASSUME TypeOK, NEW p \in Positions, NEW day \in 0 .. MaxBars, Live(p, day)
  PROVE  Sound(p) /\ Held(p) \in 0 .. MaxLots
<1>1. p.held1 \in Nat /\ p.held2 \in Nat /\ \A r \in {"tp1", "tp2", "sl", "expiry"} : p.legs[r].lots \in Nat
  BY PositionFacts, SimulationAssumption DEF SimulationAssumption
<1>2. Sold(p) + Held(p) = filled /\ ~p.closed
  BY DEF Live
<1>3. filled \in 0 .. MaxLots
  BY DEF TypeOK
<1>4. Held(p) \in 0 .. MaxLots
  BY <1>1, <1>2, <1>3, SimulationAssumption DEF SimulationAssumption, Sold, Held
<1>5. NoLoss(p)
  <2>1. plan \in Plans
    BY DEF TypeOK
  <2>2. plan.sl \in Int /\ plan.tp1 \in Int /\ plan.sl < plan.tp1
    BY <2>1, PlanFacts
  <2>3. \A r \in Reasons : r = "tp1" \/ p.legs[r] = NoLeg
    BY DEF Live, Reasons
  <2>4. p.legs["tp1"] = NoLeg \/ p.legs["tp1"].price >= plan.tp1
    BY PositionFacts DEF Live
  <2>5. p.legs["tp1"].price \in Int /\ p.legs["tp1"].day \in Int
    BY LegFacts DEF Reasons
  <2>6. \A r \in Reasons : ~Loses(p.legs[r], plan.sl)
    BY <2>2, <2>3, <2>4, <2>5 DEF Loses, NoLeg
  <2>7. ASSUME NEW r \in Reasons, p.legs[r].day > p.legs["tp1"].day PROVE ~Loses(p.legs[r], fill)
    BY <2>3, <2>5, <2>7 DEF Loses, NoLeg
  <2> QED BY <2>6, <2>7 DEF NoLoss
<1> QED BY <1>2, <1>4, <1>5 DEF Sound

LEMMA ClosedPosition ==
  ASSUME NEW s \in Positions
  PROVE  LET q == [s EXCEPT !.held1 = 0, !.held2 = 0, !.closed = TRUE]
         IN  q \in Positions /\ q.closed /\ Held(q) = 0 /\ q.legs = s.legs
<1> DEFINE a == [s EXCEPT !.held1 = 0]
           b == [a EXCEPT !.held2 = 0]
           c == [b EXCEPT !.closed = TRUE]
<1>1. a \in Positions /\ a.held1 = 0 /\ a.legs = s.legs
  BY SimulationAssumption DEF Positions, SimulationAssumption
<1> HIDE DEF a
<1>2. b \in Positions /\ b.held1 = 0 /\ b.held2 = 0 /\ b.legs = a.legs
  BY <1>1, SimulationAssumption DEF Positions, SimulationAssumption
<1> HIDE DEF b
<1>3. c \in Positions /\ c.closed /\ c.held1 = 0 /\ c.held2 = 0 /\ c.legs = b.legs
  BY <1>2 DEF Positions
<1> HIDE DEF c
<1>4. [s EXCEPT !.held1 = 0, !.held2 = 0, !.closed = TRUE] = c
  BY DEF a, b, c
<1> QED BY <1>1, <1>2, <1>3, <1>4 DEF Held

\* All that is held is sold, at a bearable price or in a gap.
LEMMA CloseAllKeeps ==
  ASSUME TypeOK, NEW p \in Positions, NEW day \in 0 .. MaxBars, Live(p, day),
         NEW price \in 0 .. MaxPrice, NEW reason \in {"sl", "expiry"}, NEW gapped \in BOOLEAN,
         gapped \/ Bearable(p, price, day)
  PROVE  LET q == CloseAll(p, price, day, reason, gapped) IN Sound(q) /\ q.closed
<1> DEFINE s == Sell(p, reason, price, p.held1 + p.held2, day, gapped)
           q == [s EXCEPT !.held1 = 0, !.held2 = 0, !.closed = TRUE]
<1>1. p.held1 + p.held2 \in 0 .. MaxLots
  BY LiveIsSound DEF Held
<1>2. /\ s \in Positions /\ s.tp1Done = p.tp1Done
      /\ \A x \in Reasons : x # reason => s.legs[x] = p.legs[x]
      /\ s.legs[reason] = IF p.held1 + p.held2 > 0
           THEN [price |-> price, lots |-> p.held1 + p.held2, day |-> day, gapped |-> gapped]
           ELSE p.legs[reason]
  BY <1>1, SellEffect DEF Reasons
<1> HIDE DEF s
<1>3. q \in Positions /\ q.closed /\ Held(q) = 0 /\ q.legs = s.legs
  BY <1>2, ClosedPosition
<1>4. q = CloseAll(p, price, day, reason, gapped)
  BY DEF CloseAll, s
<1> HIDE DEF q
<1>5. Sold(p) + Held(p) = filled /\ p.legs["sl"] = NoLeg /\ p.legs["tp2"] = NoLeg /\ p.legs["expiry"] = NoLeg
  BY DEF Live
<1>6. Sold(q) = Sold(p) + Held(p)
  <2>1. q.legs[reason].lots = p.held1 + p.held2
    BY <1>1, <1>2, <1>3, <1>5, PositionFacts DEF NoLeg
  <2>2. \A x \in Reasons : x # reason => q.legs[x].lots = p.legs[x].lots
    BY <1>2, <1>3
  <2>3. p.legs[reason].lots = 0
    BY <1>5 DEF NoLeg
  <2>4. p.legs["tp1"].lots \in Nat /\ p.legs["tp2"].lots \in Nat /\ p.legs["sl"].lots \in Nat /\ p.legs["expiry"].lots \in Nat
    BY PositionFacts
  <2>5. CASE reason = "sl"
    BY <1>1, <2>1, <2>2, <2>3, <2>4, <2>5 DEF Sold, Held, Reasons
  <2>6. CASE reason = "expiry"
    BY <1>1, <2>1, <2>2, <2>3, <2>4, <2>6 DEF Sold, Held, Reasons
  <2> QED BY <2>5, <2>6
<1>7. NoLoss(q)
  <2>1. NoLoss(p)
    BY LiveIsSound DEF Sound
  <2>2. q.legs["tp1"] = p.legs["tp1"]
    BY <1>2, <1>3 DEF Reasons
  <2>3. ASSUME NEW r \in Reasons, fill >= plan.sl PROVE ~Loses(q.legs[r], plan.sl)
    <3>1. CASE r # reason
      BY <1>2, <1>3, <2>1, <2>3, <3>1 DEF NoLoss
    <3>2. CASE r = reason
      <4>1. plan \in Plans
        BY DEF TypeOK
      <4>2. plan.sl \in Int
        BY <4>1, PlanFacts
      <4> QED BY <1>2, <1>3, <1>5, <2>3, <3>2, <4>2, SimulationAssumption
              DEF Loses, NoLeg, Bearable, SimulationAssumption
    <3> QED BY <3>1, <3>2
  <2>4. ASSUME NEW r \in Reasons, q.legs["tp1"].lots > 0, q.legs[r].day > q.legs["tp1"].day
        PROVE  ~Loses(q.legs[r], fill)
    <3>1. CASE r # reason
      BY <1>2, <1>3, <2>1, <2>2, <2>4, <3>1 DEF NoLoss
    <3>2. CASE r = reason
      <4>1. p.tp1Done
        BY <2>2, <2>4, PositionFacts DEF Live, NoLeg
      <4>2. fill \in Int
        BY SimulationAssumption DEF TypeOK, SimulationAssumption
      <4> QED BY <1>2, <1>3, <1>5, <2>2, <2>4, <3>2, <4>1, <4>2, SimulationAssumption
              DEF Loses, NoLeg, Bearable, SimulationAssumption
    <3> QED BY <3>1, <3>2
  <2> QED BY <2>3, <2>4 DEF NoLoss
<1>8. filled \in Int
  BY SimulationAssumption DEF TypeOK, SimulationAssumption
<1> QED BY <1>3, <1>4, <1>5, <1>6, <1>7, <1>8 DEF Sound

LEMMA TargetPosition ==
  ASSUME NEW s \in Positions, fill \in 0 .. MaxPrice
  PROVE  LET q == [s EXCEPT !.held1 = 0, !.tp1Done = TRUE, !.stop = fill]
         IN  /\ q \in Positions /\ q.legs = s.legs /\ q.closed = s.closed
             /\ q.held1 = 0 /\ q.held2 = s.held2 /\ q.tp1Done /\ q.stop = fill
<1> DEFINE a == [s EXCEPT !.held1 = 0]
           b == [a EXCEPT !.tp1Done = TRUE]
           c == [b EXCEPT !.stop = fill]
<1>1. a \in Positions /\ a.held1 = 0 /\ a.legs = s.legs /\ a.closed = s.closed /\ a.held2 = s.held2
  BY SimulationAssumption DEF Positions, SimulationAssumption
<1> HIDE DEF a
<1>2. /\ b \in Positions /\ b.tp1Done /\ b.legs = a.legs /\ b.closed = a.closed
      /\ b.held1 = a.held1 /\ b.held2 = a.held2
  BY <1>1 DEF Positions
<1> HIDE DEF b
<1>3. /\ c \in Positions /\ c.stop = fill /\ c.legs = b.legs /\ c.closed = b.closed
      /\ c.held1 = b.held1 /\ c.held2 = b.held2 /\ c.tp1Done = b.tp1Done
  BY <1>2 DEF Positions
<1> HIDE DEF c
<1>4. [s EXCEPT !.held1 = 0, !.tp1Done = TRUE, !.stop = fill] = c
  BY DEF a, b, c
<1> QED BY <1>1, <1>2, <1>3, <1>4

\* At the first target the position lives on, with a stop at the fill price.
LEMMA FillTp1Keeps ==
  ASSUME TypeOK, walked < MaxBars, NEW p \in Positions, Live(p, Today),
         NEW price \in 0 .. MaxPrice, price >= plan.tp1, NEW gapped \in BOOLEAN
  PROVE  LET q == FillTp1(p, price, gapped)
         IN  /\ q \in Positions /\ Live(q, Today)
             /\ q.held1 = 0 /\ q.held2 = p.held2
             /\ q = p \/ (q.tp1Done /\ q.stop = fill /\ q.legs["tp1"].day = Today)
<1>1. CASE p.held1 <= 0
  BY <1>1, PositionFacts, SimulationAssumption DEF FillTp1, SimulationAssumption
<1>2. CASE p.held1 > 0
  <2> DEFINE s == Sell(p, "tp1", price, p.held1, Today, gapped)
             q == [s EXCEPT !.held1 = 0, !.tp1Done = TRUE, !.stop = fill]
  <2>1. Today \in 0 .. MaxBars /\ fill \in 0 .. MaxPrice /\ filled \in Int
    BY SimulationAssumption DEF TypeOK, Today, SimulationAssumption
  <2>2. p.held1 \in 0 .. MaxLots /\ p.held1 \in Nat /\ p.held2 \in Nat
    BY PositionFacts, SimulationAssumption DEF SimulationAssumption
  <2>3. ~p.tp1Done /\ p.legs["tp1"] = NoLeg
    BY <1>2, <2>2, PositionFacts DEF Live
  <2>4. /\ s \in Positions /\ s.closed = p.closed /\ s.held2 = p.held2
        /\ \A x \in Reasons : x # "tp1" => s.legs[x] = p.legs[x]
        /\ s.legs["tp1"] = [price |-> price, lots |-> p.held1, day |-> Today, gapped |-> gapped]
    BY <1>2, <2>1, <2>2, SellEffect DEF Reasons
  <2> HIDE DEF s
  <2>5. /\ q \in Positions /\ q.legs = s.legs /\ q.closed = s.closed
        /\ q.held1 = 0 /\ q.held2 = s.held2 /\ q.tp1Done /\ q.stop = fill
    BY <2>1, <2>4, TargetPosition
  <2>6. q = FillTp1(p, price, gapped)
    BY <1>2, <2>2 DEF FillTp1, s
  <2> HIDE DEF q
  <2>7. q.legs["tp2"] = NoLeg /\ q.legs["sl"] = NoLeg /\ q.legs["expiry"] = NoLeg
    BY <2>4, <2>5 DEF Live, Reasons
  <2>8. Sold(q) + Held(q) = filled
    <3>1. Sold(p) + Held(p) = p.held1 + p.held2
      BY <2>2, <2>3 DEF Live, Sold, Held, NoLeg
    <3>2. Sold(q) + Held(q) = p.held1 + p.held2
      BY <2>2, <2>4, <2>5, <2>7 DEF Sold, Held, NoLeg
    <3> QED BY <3>1, <3>2 DEF Live
  <2>9. Live(q, Today)
    BY <1>2, <2>1, <2>4, <2>5, <2>7, <2>8 DEF Live
  <2> QED BY <2>4, <2>5, <2>6, <2>9
<1> QED BY <1>1, <1>2, PositionFacts, SimulationAssumption DEF SimulationAssumption

LEMMA LastPosition ==
  ASSUME NEW s \in Positions, s.held1 = 0
  PROVE  LET q == Settled([s EXCEPT !.held2 = 0])
         IN  q \in Positions /\ q.legs = s.legs /\ q.closed /\ Held(q) = 0
<1> DEFINE a == [s EXCEPT !.held2 = 0]
           b == [a EXCEPT !.closed = TRUE]
<1>1. a \in Positions /\ a.held1 = 0 /\ a.held2 = 0 /\ a.legs = s.legs
  BY SimulationAssumption DEF Positions, SimulationAssumption
<1> HIDE DEF a
<1>2. b \in Positions /\ b.closed /\ b.held1 = 0 /\ b.held2 = 0 /\ b.legs = a.legs
  BY <1>1 DEF Positions
<1>3. b = Settled(a)
  BY <1>1 DEF Settled
<1> HIDE DEF b
<1> QED BY <1>1, <1>2, <1>3 DEF Held, a

\* At the second target all that the first has left is sold.
LEMMA FillTp2Keeps ==
  ASSUME TypeOK, walked < MaxBars, fill <= plan.entry,
         NEW p \in Positions, Live(p, Today), p.held1 = 0,
         NEW price \in 0 .. MaxPrice, price >= plan.tp2, NEW gapped \in BOOLEAN
  PROVE  LET q == Settled(FillTp2(p, price, gapped)) IN Sound(q) /\ q.closed
<1> DEFINE s == Sell(p, "tp2", price, p.held2, Today, gapped)
           q == Settled([s EXCEPT !.held2 = 0])
<1>1. Today \in 0 .. MaxBars /\ fill \in Int /\ filled \in Int
  BY SimulationAssumption DEF TypeOK, Today, SimulationAssumption
<1>2. p.held2 \in 0 .. MaxLots /\ p.held2 \in Nat
  BY PositionFacts, SimulationAssumption DEF SimulationAssumption
<1>3. /\ s \in Positions /\ s.held1 = 0
      /\ \A x \in Reasons : x # "tp2" => s.legs[x] = p.legs[x]
      /\ s.legs["tp2"] = IF p.held2 > 0
           THEN [price |-> price, lots |-> p.held2, day |-> Today, gapped |-> gapped]
           ELSE p.legs["tp2"]
  BY <1>1, <1>2, SellEffect DEF Reasons
<1> HIDE DEF s
<1>4. q \in Positions /\ q.legs = s.legs /\ q.closed /\ Held(q) = 0
  BY <1>3, LastPosition
<1>5. q = Settled(FillTp2(p, price, gapped))
  BY DEF FillTp2, s
<1> HIDE DEF q
<1>6. p.legs["tp2"] = NoLeg /\ p.legs["sl"] = NoLeg /\ p.legs["expiry"] = NoLeg
  BY DEF Live
<1>7. Sold(q) = filled
  <2>1. q.legs["tp2"].lots = p.held2
    BY <1>2, <1>3, <1>4, <1>6 DEF NoLeg
  <2>2. p.legs["tp1"].lots \in Nat
    BY PositionFacts
  <2>3. Sold(q) = p.legs["tp1"].lots + p.held2
    BY <1>2, <1>3, <1>4, <1>6, <2>1, <2>2 DEF Sold, Reasons, NoLeg
  <2>4. Sold(p) + Held(p) = p.legs["tp1"].lots + p.held2
    BY <1>2, <1>6, <2>2 DEF Sold, Held, NoLeg
  <2> QED BY <2>3, <2>4 DEF Live
<1>8. NoLoss(q)
  <2>1. NoLoss(p)
    BY <1>1, LiveIsSound DEF Sound
  <2>2. plan \in Plans
    BY DEF TypeOK
  <2>3. price \in Int /\ plan.sl \in Int /\ price >= plan.sl /\ price >= fill
    BY <1>1, <2>2, PlanFacts
  <2>4. \A r \in Reasons : q.legs[r] = p.legs[r] \/ (r = "tp2" /\ q.legs[r].price = price)
    BY <1>3, <1>4
  <2>5. q.legs["tp1"] = p.legs["tp1"]
    BY <1>3, <1>4 DEF Reasons
  <2> QED BY <1>1, <2>1, <2>3, <2>4, <2>5 DEF NoLoss, Loses
<1> QED BY <1>1, <1>4, <1>5, <1>7, <1>8 DEF Sound

-----------------------------------------------------------------------------
(* A bar.                                                                  *)

LEMMA WithinBarKeeps ==
  ASSUME TypeOK, walked < MaxBars, fill <= plan.entry,
         NEW p \in Positions, Live(p, Today), NEW b \in Bars
  PROVE  Outcome(WithinBar(p, b), b)
<1> DEFINE first == IF b.high >= plan.tp1 THEN FillTp1(p, plan.tp1, FALSE) ELSE p
<1>1. plan \in Plans /\ Today \in 0 .. MaxBars /\ fill \in Int
  BY SimulationAssumption DEF TypeOK, Today, SimulationAssumption
<1>2. /\ plan.sl \in Int /\ plan.tp1 \in 0 .. MaxPrice /\ plan.tp2 \in 0 .. MaxPrice
      /\ plan.tp1 \in Int /\ plan.tp2 \in Int /\ plan.tp1 <= plan.tp2
      /\ plan.tp1 >= plan.tp1 /\ plan.tp2 >= plan.tp2
  BY <1>1, PlanFacts, SimulationAssumption DEF SimulationAssumption
<1>3. b.low \in Int /\ b.high \in Int /\ b.close \in Int /\ b.low <= b.close
  BY BarFacts
<1>4. p.stop \in 0 .. MaxPrice /\ p.stop \in Int
  BY PositionFacts, SimulationAssumption DEF SimulationAssumption
<1>5. /\ first \in Positions /\ Live(first, Today)
      /\ b.high >= plan.tp1 => first.held1 = 0
      /\ first = p \/ (first.tp1Done /\ first.stop = fill /\ first.legs["tp1"].day = Today)
  <2>1. LET q == FillTp1(p, plan.tp1, FALSE)
        IN  /\ q \in Positions /\ Live(q, Today) /\ q.held1 = 0
            /\ q = p \/ (q.tp1Done /\ q.stop = fill /\ q.legs["tp1"].day = Today)
    BY <1>2, FillTp1Keeps
  <2> QED BY <2>1
<1>6. p.stop = plan.sl \/ (p.tp1Done /\ p.stop = fill)
  BY PositionFacts DEF Live
<1>7. p.tp1Done => p.stop = fill
  BY DEF Live
<1> HIDE DEF first
<1>8. CASE b.low <= p.stop
  <2>1. Bearable(p, p.stop, Today)
    BY <1>1, <1>2, <1>6, <1>7 DEF Bearable
  <2>2. Sound(CloseAll(p, p.stop, Today, "sl", FALSE)) /\ CloseAll(p, p.stop, Today, "sl", FALSE).closed
    BY <1>1, <1>4, <2>1, CloseAllKeeps
  <2> QED BY <1>8, <2>2 DEF WithinBar, Outcome
<1>9. CASE ~(b.low <= p.stop) /\ b.high >= plan.tp2 /\ (p.tp1Done \/ p.held2 > 0)
  <2>1. first.held1 = 0
    BY <1>2, <1>3, <1>5, <1>9
  <2>2. Sound(Settled(FillTp2(first, plan.tp2, FALSE))) /\ Settled(FillTp2(first, plan.tp2, FALSE)).closed
    BY <1>2, <1>5, <2>1, FillTp2Keeps
  <2>3. WithinBar(p, b) = Settled(FillTp2(first, plan.tp2, FALSE))
    BY <1>9 DEF WithinBar, first
  <2> QED BY <2>2, <2>3 DEF Outcome
<1>10. CASE ~(b.low <= p.stop) /\ ~(b.high >= plan.tp2 /\ (p.tp1Done \/ p.held2 > 0))
  <2>1. WithinBar(p, b) = first
    BY <1>10 DEF WithinBar, first
  <2>2. Sound(first)
    BY <1>1, <1>5, LiveIsSound
  <2>3. Bearable(first, b.close, Today)
    BY <1>1, <1>2, <1>3, <1>4, <1>5, <1>6, <1>7, <1>10 DEF Bearable
  <2> QED BY <1>5, <2>1, <2>2, <2>3 DEF Outcome
<1> QED BY <1>8, <1>9, <1>10

LEMMA StepBarKeeps ==
  ASSUME TypeOK, walked < MaxBars, fill <= plan.entry, Live(pos, walked), NEW b \in Bars
  PROVE  Outcome(StepBar(pos, b), b)
<1> DEFINE first == IF b.open >= plan.tp1 THEN FillTp1(pos, b.open, TRUE) ELSE pos
<1>1. plan \in Plans /\ Today \in 0 .. MaxBars /\ pos \in Positions
  BY SimulationAssumption DEF TypeOK, Today, SimulationAssumption
<1>2. plan.tp1 \in Int /\ plan.tp2 \in Int /\ plan.tp1 <= plan.tp2
  BY <1>1, PlanFacts
<1>3. b.open \in 0 .. MaxPrice /\ b.open \in Int
  BY BarFacts
<1>4. Live(pos, Today)
  <2>1. pos.legs["tp1"].day \in Int /\ walked \in Int
    BY <1>1, LegFacts, SimulationAssumption DEF Reasons, TypeOK, SimulationAssumption
  <2> QED BY <2>1 DEF Live, Today
<1>5. /\ first \in Positions /\ Live(first, Today)
      /\ b.open >= plan.tp1 => first.held1 = 0
  BY <1>1, <1>3, <1>4, FillTp1Keeps
<1> HIDE DEF first
<1>6. CASE b.open <= pos.stop
  <2>1. Sound(CloseAll(pos, b.open, Today, "sl", TRUE)) /\ CloseAll(pos, b.open, Today, "sl", TRUE).closed
    BY <1>1, <1>3, <1>4, CloseAllKeeps
  <2> QED BY <1>6, <2>1 DEF StepBar, Outcome
<1>7. CASE ~(b.open <= pos.stop) /\ b.open >= plan.tp2 /\ (~pos.tp1Done \/ pos.held2 > 0)
  <2>1. first.held1 = 0
    BY <1>2, <1>3, <1>5, <1>7
  <2>2. Sound(Settled(FillTp2(first, b.open, TRUE))) /\ Settled(FillTp2(first, b.open, TRUE)).closed
    BY <1>3, <1>5, <1>7, <2>1, FillTp2Keeps
  <2>3. StepBar(pos, b) = Settled(FillTp2(first, b.open, TRUE))
    BY <1>7 DEF StepBar, first
  <2> QED BY <2>2, <2>3 DEF Outcome
<1>8. CASE ~(b.open <= pos.stop) /\ ~(b.open >= plan.tp2 /\ (~pos.tp1Done \/ pos.held2 > 0))
  <2>1. StepBar(pos, b) = WithinBar(first, b)
    BY <1>8 DEF StepBar, first
  <2> QED BY <1>5, <2>1, WithinBarKeeps
<1> QED BY <1>6, <1>7, <1>8

-----------------------------------------------------------------------------
(* The invariant.                                                          *)

LEMMA NoLegIsLeg == NoLeg \in Legs /\ NoLeg.lots = 0
BY SimulationAssumption DEF SimulationAssumption, NoLeg, Legs

LEMMA InitIInv == Init => IInv
<1> SUFFICES ASSUME Init PROVE IInv
  OBVIOUS
<1>1. Flat \in Positions /\ Held(Flat) = 0 /\ ~Flat.closed /\ \A r \in Reasons : Flat.legs[r] = NoLeg
  BY NoLegIsLeg, SimulationAssumption DEF Flat, Positions, Held, SimulationAssumption
<1>2. Sold(Flat) = 0
  BY <1>1, NoLegIsLeg DEF Sold, Reasons
<1>3. NoLoss(Flat)
  BY <1>1, NoLegIsLeg DEF NoLoss, Loses
<1>4. TypeOK
  BY <1>1, SimulationAssumption DEF Init, TypeOK, SimulationAssumption
<1> QED BY <1>1, <1>2, <1>3, <1>4 DEF Init, IInv, Sound

LEMMA NoFillKeeps ==
  ASSUME IInv, NoFill PROVE IInv'
BY DEF IInv, NoFill, TypeOK, Sound, NoLoss, Holding

LEMMA EnterKeeps ==
  ASSUME IInv, NEW b \in Bars, NEW lots \in 1 .. plan.lots, Enter(b, lots)
  PROVE  IInv'
<1> USE DEF IInv
<1>1. plan \in Plans /\ Tp1Percent \in Nat
  BY SimulationAssumption DEF TypeOK, SimulationAssumption
<1>2. /\ plan.entry \in Int /\ plan.sl \in 0 .. MaxPrice /\ plan.entry <= MaxPrice /\ plan.entry >= 1
      /\ plan.lots \in 1 .. MaxLots
  BY <1>1, PlanFacts, SimulationAssumption DEF SimulationAssumption
<1>3. /\ ScaledTp1Lots(lots) \in 0 .. lots /\ ScaledTp2Lots(lots) \in 0 .. lots
      /\ ScaledTp1Lots(lots) + ScaledTp2Lots(lots) = lots
  BY <1>1, AllocationsAddUp
<1>4. lots \in 0 .. MaxLots
  BY <1>2, SimulationAssumption DEF SimulationAssumption
<1>5. /\ pos' = [stop |-> plan.sl, tp1Done |-> FALSE, closed |-> FALSE,
                 held1 |-> ScaledTp1Lots(lots), held2 |-> ScaledTp2Lots(lots),
                 legs |-> [r \in Reasons |-> NoLeg]]
      /\ fill' = FillPrice(b) /\ filled' = lots
      /\ phase' = "holding" /\ walked' = 0 /\ plan' = plan /\ close' = close
  BY DEF Enter, Flat
<1>6. fill' \in 0 .. MaxPrice /\ fill' <= plan.entry
  BY <1>2, <1>5, BarFacts, SimulationAssumption DEF FillPrice, Lesser, MaxBuyPrice, SimulationAssumption
<1>7. /\ pos' \in Positions /\ ~pos'.closed /\ ~pos'.tp1Done /\ pos'.stop = plan.sl
      /\ Held(pos') = lots /\ \A r \in Reasons : pos'.legs[r] = NoLeg
  BY <1>2, <1>3, <1>4, <1>5, NoLegIsLeg, SimulationAssumption DEF Positions, Held, SimulationAssumption
<1> HIDE DEF IInv
<1>8. TypeOK'
  BY <1>4, <1>5, <1>6, <1>7, SimulationAssumption DEF IInv, TypeOK, SimulationAssumption
<1>9. Sold(pos') = 0
  BY <1>7, NoLegIsLeg DEF Sold, Reasons
<1>10. Sound(pos)'
  BY <1>4, <1>5, <1>7, <1>9, NoLegIsLeg DEF Sound, NoLoss, Loses
<1>11. Holding'
  BY <1>4, <1>5, <1>6, <1>7, <1>9 DEF Holding, Live, Reasons
<1> QED BY <1>5, <1>8, <1>10, <1>11 DEF IInv

LEMMA WalkKeeps ==
  ASSUME IInv, NEW b \in Bars, Walk(b)
  PROVE  IInv'
<1>1. TypeOK /\ fill <= plan.entry /\ Live(pos, walked) /\ walked < MaxBars
  BY DEF IInv, Walk, Holding
<1>2. /\ pos' = StepBar(pos, b) /\ walked' = Today /\ close' = b.close
      /\ phase' = IF pos'.closed THEN "done" ELSE "holding"
      /\ plan' = plan /\ fill' = fill /\ filled' = filled
  BY DEF Walk, Today
<1>3. Outcome(pos', b)
  BY <1>1, <1>2, StepBarKeeps
<1>4. Sound(pos)'
  BY <1>2, <1>3 DEF Outcome, Sound, NoLoss
<1>5. TypeOK'
  BY <1>1, <1>2, <1>4, BarFacts, SimulationAssumption DEF TypeOK, Sound, Today, SimulationAssumption
<1>6. phase' = "holding" => Holding'
  BY <1>1, <1>2, <1>3 DEF Outcome, Holding, Live, Bearable
<1>7. phase' = "done" => Held(pos)' = 0
  BY <1>2, <1>3 DEF Outcome, Sound
<1> QED BY <1>2, <1>4, <1>5, <1>6, <1>7 DEF IInv

LEMMA ExpireKeeps ==
  ASSUME IInv, Expire PROVE IInv'
<1>1. TypeOK /\ Live(pos, walked) /\ (walked > 0 => Bearable(pos, close, walked)) /\ Sound(pos)
  BY DEF IInv, Expire, Holding
<1>2. phase' = "done" /\ UNCHANGED <<plan, fill, filled, walked, close>>
  BY DEF Expire
<1>3. CASE walked = 0 /\ UNCHANGED pos
  BY <1>1, <1>2, <1>3 DEF IInv, TypeOK, Sound, NoLoss
<1>4. CASE walked > 0 /\ pos' = CloseAll(pos, close, walked, "expiry", FALSE)
  <2>1. pos \in Positions /\ walked \in 0 .. MaxBars /\ close \in 0 .. MaxPrice
    BY <1>1 DEF TypeOK
  <2>2. Sound(pos') /\ pos'.closed
    BY <1>1, <1>4, <2>1, CloseAllKeeps
  <2>3. Sound(pos)'
    BY <1>2, <2>2 DEF Sound, NoLoss
  <2>4. TypeOK'
    BY <1>1, <1>2, <2>3 DEF TypeOK, Sound
  <2> QED BY <1>2, <2>2, <2>3, <2>4 DEF IInv, Sound
<1> QED BY <1>3, <1>4 DEF Expire

LEMMA NextKeeps == IInv /\ [Next]_vars => IInv'
<1> SUFFICES ASSUME IInv, [Next]_vars PROVE IInv'
  OBVIOUS
<1>1. CASE NoFill
  BY <1>1, NoFillKeeps
<1>2. CASE Expire
  BY <1>2, ExpireKeeps
<1>3. ASSUME NEW b \in Bars, Walk(b) PROVE IInv'
  BY <1>3, WalkKeeps
<1>4. ASSUME NEW b \in Bars, NEW lots \in 1 .. plan.lots, Enter(b, lots) PROVE IInv'
  BY <1>4, EnterKeeps
<1>5. CASE UNCHANGED vars
  BY <1>5 DEF vars, IInv, TypeOK, Sound, NoLoss, Holding, Live, Bearable
<1> QED BY <1>1, <1>2, <1>3, <1>4, <1>5 DEF Next

\* In every reachable state IInv holds, on which the theorems below rest.
THEOREM Invariance == Spec => []IInv
BY InitIInv, NextKeeps, PTL DEF Spec

-----------------------------------------------------------------------------

\* The simulation of a plan stays well typed, however lots are split and rounded.
THEOREM TypeCorrect == Spec => []TypeOK
<1>1. IInv => TypeOK
  BY DEF IInv
<1> QED BY <1>1, Invariance, PTL

\* No partial fill and no sequence of bars loses a lot or sells one twice
\* (fillSimulation.ts:132-143, 180-206).
THEOREM LotsAreConserved == Spec => []LotsConserved
<1>1. IInv => LotsConserved
  BY DEF IInv, Sound, LotsConserved
<1> QED BY <1>1, Invariance, PTL

\* After the first target, only a gap costs: the stop at the fill price holds for
\* stops, targets and the expiry alike (fillSimulation.ts:208-216).
THEOREM RemainderIsSafe == Spec => []RemainderBreaksEven
<1>1. IInv => RemainderBreaksEven
  BY DEF IInv, Sound, NoLoss, RemainderBreaksEven
<1> QED BY <1>1, Invariance, PTL

\* Without a gap nothing is sold below the plan's stop (fillSimulation.ts:224-294).
THEOREM LossIsBounded == Spec => []LossIsPlanned
<1>1. IInv => LossIsPlanned
  BY DEF IInv, Sound, NoLoss, LossIsPlanned
<1> QED BY <1>1, Invariance, PTL

-----------------------------------------------------------------------------
(* The two properties of the next bar.  They are about every bar that      *)
(* could come, also after the last of the bound, where a day is beyond the *)
(* type of a leg; so the effect of each function is stated again, of any   *)
(* position that has the fields of one.                                    *)

AnyLegs == [price : Int, lots : Int, day : Int, gapped : BOOLEAN]

AnyPositions == [stop : Int, tp1Done : BOOLEAN, closed : BOOLEAN,
                 held1 : Nat, held2 : Nat, legs : [Reasons -> AnyLegs]]

Leg(price, lots, gapped) == [price |-> price, lots |-> lots, day |-> Today, gapped |-> gapped]

\* The legs of p when lots of them are sold.
LegsAfter(p, reason, price, lots, gapped) ==
  IF lots > 0 THEN [p.legs EXCEPT ![reason] = Leg(price, lots, gapped)] ELSE p.legs

\* Nothing is held any more.
Spent(p) == p.held1 = 0 /\ p.held2 = 0

LEMMA AnyFacts ==
  ASSUME NEW p \in AnyPositions
  PROVE  /\ p.stop \in Int /\ p.held1 \in Nat /\ p.held2 \in Nat
         /\ p.tp1Done \in BOOLEAN /\ p.closed \in BOOLEAN
         /\ p.legs \in [Reasons -> AnyLegs]
BY DEF AnyPositions

LEMMA PositionsAreAny == Positions \subseteq AnyPositions
<1> SUFFICES ASSUME NEW p \in Positions PROVE p \in AnyPositions
  OBVIOUS
<1>1. Legs \subseteq AnyLegs
  BY SimulationAssumption DEF SimulationAssumption, Legs, AnyLegs
<1>2. p.legs \in [Reasons -> AnyLegs]
  BY <1>1 DEF Positions
<1> QED BY <1>2, SimulationAssumption DEF SimulationAssumption, Positions, AnyPositions

LEMMA SellChanges ==
  ASSUME NEW p \in AnyPositions, walked \in Int, NEW reason \in Reasons, NEW price \in Int,
         NEW lots \in Int, NEW gapped \in BOOLEAN
  PROVE  LET q == Sell(p, reason, price, lots, Today, gapped)
         IN  /\ q \in AnyPositions
             /\ q.stop = p.stop /\ q.tp1Done = p.tp1Done /\ q.closed = p.closed
             /\ q.held1 = p.held1 /\ q.held2 = p.held2
             /\ q.legs = LegsAfter(p, reason, price, lots, gapped)
<1> DEFINE leg == Leg(price, lots, gapped)
<1>1. leg \in AnyLegs
  BY DEF AnyLegs, Leg, Today
<1>2. p.legs \in [Reasons -> AnyLegs]
  BY AnyFacts
<1> HIDE DEF leg
<1>3. [p.legs EXCEPT ![reason] = leg] \in [Reasons -> AnyLegs]
  BY <1>1, <1>2
<1>4. CASE lots > 0
  <2>1. Sell(p, reason, price, lots, Today, gapped) = [p EXCEPT !.legs = [p.legs EXCEPT ![reason] = leg]]
    BY <1>4 DEF Sell, leg, Leg, AnyPositions
  <2>2. LegsAfter(p, reason, price, lots, gapped) = [p.legs EXCEPT ![reason] = leg]
    BY <1>4 DEF LegsAfter, leg
  <2> DEFINE l == [p.legs EXCEPT ![reason] = leg]
  <2> HIDE DEF l
  <2>3. l \in [Reasons -> AnyLegs]
    BY <1>3 DEF l
  <2>4. LET q == [p EXCEPT !.legs = l]
        IN  /\ q \in AnyPositions
            /\ q.stop = p.stop /\ q.tp1Done = p.tp1Done /\ q.closed = p.closed
            /\ q.held1 = p.held1 /\ q.held2 = p.held2 /\ q.legs = l
    BY <2>3 DEF AnyPositions
  <2> QED BY <2>1, <2>2, <2>4 DEF l
<1>5. CASE ~(lots > 0)
  BY <1>5 DEF Sell, LegsAfter
<1> QED BY <1>4, <1>5

\* What is closed out.
LEMMA CloseAllChanges ==
  ASSUME NEW p \in AnyPositions, walked \in Int, NEW price \in Int, NEW gapped \in BOOLEAN
  PROVE  LET q == CloseAll(p, price, Today, "sl", gapped)
         IN  /\ q \in AnyPositions /\ Spent(q)
             /\ q.legs = LegsAfter(p, "sl", price, p.held1 + p.held2, gapped)
<1> DEFINE s == Sell(p, "sl", price, p.held1 + p.held2, Today, gapped)
           a == [s EXCEPT !.held1 = 0]
           b == [a EXCEPT !.held2 = 0]
           c == [b EXCEPT !.closed = TRUE]
<1>1. p.held1 + p.held2 \in Int
  BY AnyFacts
<1>2. s \in AnyPositions /\ s.legs = LegsAfter(p, "sl", price, p.held1 + p.held2, gapped)
  BY <1>1, SellChanges DEF Reasons
<1> HIDE DEF s
<1>3. a \in AnyPositions /\ a.held1 = 0 /\ a.legs = s.legs
  BY <1>2 DEF AnyPositions
<1> HIDE DEF a
<1>4. b \in AnyPositions /\ b.held1 = 0 /\ b.held2 = 0 /\ b.legs = a.legs
  BY <1>3 DEF AnyPositions
<1> HIDE DEF b
<1>5. c \in AnyPositions /\ c.held1 = 0 /\ c.held2 = 0 /\ c.legs = b.legs
  BY <1>4 DEF AnyPositions
<1> HIDE DEF c
<1>6. CloseAll(p, price, Today, "sl", gapped) = c
  BY DEF CloseAll, a, b, c, s
<1> QED BY <1>2, <1>3, <1>4, <1>5, <1>6 DEF Spent

\* What the first target makes of a position.
LEMMA FillTp1Changes ==
  ASSUME NEW p \in AnyPositions, walked \in Int, fill \in Int, NEW price \in Int,
         NEW gapped \in BOOLEAN
  PROVE  LET q == FillTp1(p, price, gapped)
         IN  /\ q \in AnyPositions /\ q.held1 = 0 /\ q.held2 = p.held2
             /\ p.held1 = 0 => q = p
             /\ p.held1 # 0 => q.stop = fill /\ q.tp1Done
             /\ q.legs = LegsAfter(p, "tp1", price, p.held1, gapped)
<1>1. p.held1 \in Nat
  BY AnyFacts
<1>2. CASE p.held1 = 0
  BY <1>2 DEF FillTp1, LegsAfter
<1>3. CASE p.held1 # 0
  <2> DEFINE s == Sell(p, "tp1", price, p.held1, Today, gapped)
             a == [s EXCEPT !.held1 = 0]
             b == [a EXCEPT !.tp1Done = TRUE]
             c == [b EXCEPT !.stop = fill]
  <2>1. /\ s \in AnyPositions /\ s.held2 = p.held2
        /\ s.legs = LegsAfter(p, "tp1", price, p.held1, gapped)
    BY <1>1, SellChanges DEF Reasons
  <2> HIDE DEF s
  <2>2. a \in AnyPositions /\ a.held1 = 0 /\ a.held2 = s.held2 /\ a.legs = s.legs
    BY <2>1 DEF AnyPositions
  <2> HIDE DEF a
  <2>3. b \in AnyPositions /\ b.held1 = 0 /\ b.held2 = a.held2 /\ b.legs = a.legs /\ b.tp1Done
    BY <2>2 DEF AnyPositions
  <2> HIDE DEF b
  <2>4. /\ c \in AnyPositions /\ c.held1 = 0 /\ c.held2 = b.held2 /\ c.legs = b.legs
        /\ c.tp1Done /\ c.stop = fill
    BY <2>3 DEF AnyPositions
  <2> HIDE DEF c
  <2>5. FillTp1(p, price, gapped) = c
    BY <1>1, <1>3 DEF FillTp1, a, b, c, s
  <2> QED BY <1>3, <2>1, <2>2, <2>3, <2>4, <2>5
<1> QED BY <1>2, <1>3

LEMMA SettledChanges ==
  ASSUME NEW p \in AnyPositions
  PROVE  LET q == Settled(p)
         IN  /\ q \in AnyPositions
             /\ q.legs = p.legs /\ q.held1 = p.held1 /\ q.held2 = p.held2 /\ q.stop = p.stop
<1> DEFINE flag == (p.held1 = 0 /\ p.held2 = 0)
<1>1. flag \in BOOLEAN
  OBVIOUS
<1> HIDE DEF flag
<1>2. LET q == [p EXCEPT !.closed = flag]
      IN  /\ q \in AnyPositions
          /\ q.legs = p.legs /\ q.held1 = p.held1 /\ q.held2 = p.held2 /\ q.stop = p.stop
  BY <1>1 DEF AnyPositions
<1>3. Settled(p) = [p EXCEPT !.closed = flag]
  BY DEF Settled, flag
<1> QED BY <1>2, <1>3

\* What the second target makes of a position.
LEMMA FillTp2Changes ==
  ASSUME NEW p \in AnyPositions, walked \in Int, NEW price \in Int, NEW gapped \in BOOLEAN
  PROVE  LET q == FillTp2(p, price, gapped)
         IN  /\ q \in AnyPositions /\ q.held1 = p.held1 /\ q.held2 = 0 /\ q.stop = p.stop
             /\ q.legs = LegsAfter(p, "tp2", price, p.held2, gapped)
<1> DEFINE s == Sell(p, "tp2", price, p.held2, Today, gapped)
           a == [s EXCEPT !.held2 = 0]
<1>1. p.held2 \in Int
  BY AnyFacts
<1>2. /\ s \in AnyPositions /\ s.held1 = p.held1 /\ s.stop = p.stop
      /\ s.legs = LegsAfter(p, "tp2", price, p.held2, gapped)
  BY <1>1, SellChanges DEF Reasons
<1> HIDE DEF s
<1>3. a \in AnyPositions /\ a.held1 = s.held1 /\ a.held2 = 0 /\ a.legs = s.legs /\ a.stop = s.stop
  BY <1>2 DEF AnyPositions
<1> HIDE DEF a
<1>4. FillTp2(p, price, gapped) = a
  BY DEF FillTp2, a, s
<1> QED BY <1>2, <1>3, <1>4

-----------------------------------------------------------------------------
(* What the simulation does is what resting orders do.                     *)

\* Positions that cannot be told apart by what was sold and is still to be sold.
Alike(p, q) ==
  /\ p.legs = q.legs /\ Held(p) = Held(q)
  /\ Held(p) > 0 => p.stop = q.stop

\* The price an order is executed at.
At(price, order, gapped) == IF gapped THEN price ELSE order

LEMMA ReactCases ==
  ASSUME NEW p, NEW price, NEW gapped
  PROVE  React(p, price, gapped) =
           IF price <= p.stop THEN CloseAll(p, At(price, p.stop, gapped), Today, "sl", gapped)
           ELSE IF price >= plan.tp2
                THEN FillTp2(FillTp1(p, At(price, plan.tp1, gapped), gapped),
                             At(price, plan.tp2, gapped), gapped)
           ELSE IF price >= plan.tp1 THEN FillTp1(p, At(price, plan.tp1, gapped), gapped)
           ELSE p
BY DEF React, At

\* Nothing is sold of nothing.
LEMMA NothingToSell ==
  ASSUME NEW p, NEW reason, NEW price, NEW gapped
  PROVE  LegsAfter(p, reason, price, 0, gapped) = p.legs
BY DEF LegsAfter

\* No order is left when nothing is held.
LEMMA SpentActs ==
  ASSUME NEW p \in AnyPositions, Spent(p), fill \in Int, walked \in Int,
         NEW price \in Int, NEW gapped \in BOOLEAN
  PROVE  /\ CloseAll(p, price, Today, "sl", gapped) \in AnyPositions
         /\ Spent(CloseAll(p, price, Today, "sl", gapped))
         /\ CloseAll(p, price, Today, "sl", gapped).legs = p.legs
         /\ FillTp1(p, price, gapped) = p
         /\ FillTp2(p, price, gapped) \in AnyPositions
         /\ Spent(FillTp2(p, price, gapped))
         /\ FillTp2(p, price, gapped).legs = p.legs
<1>1. p.held1 = 0 /\ p.held2 = 0 /\ p.held1 + p.held2 = 0
  BY DEF Spent
<1>2. LegsAfter(p, "sl", price, p.held1 + p.held2, gapped) = p.legs
  BY <1>1, NothingToSell
<1>3. LegsAfter(p, "tp2", price, p.held2, gapped) = p.legs
  BY <1>1, NothingToSell
<1>4. FillTp1(p, price, gapped) = p
  BY <1>1, FillTp1Changes
<1>5. /\ CloseAll(p, price, Today, "sl", gapped) \in AnyPositions
      /\ Spent(CloseAll(p, price, Today, "sl", gapped))
      /\ CloseAll(p, price, Today, "sl", gapped).legs = p.legs
  BY <1>2, CloseAllChanges
<1>6. /\ FillTp2(p, price, gapped) \in AnyPositions
      /\ FillTp2(p, price, gapped).held1 = 0 /\ FillTp2(p, price, gapped).held2 = 0
      /\ FillTp2(p, price, gapped).legs = p.legs
  BY <1>1, <1>3, FillTp2Changes
<1> QED BY <1>4, <1>5, <1>6 DEF Spent

LEMMA SpentReacts ==
  ASSUME TypeOK, NEW p \in AnyPositions, Spent(p), NEW price \in Int, NEW gapped \in BOOLEAN
  PROVE  LET q == React(p, price, gapped)
         IN  q \in AnyPositions /\ Spent(q) /\ q.legs = p.legs
<1>1. fill \in Int /\ walked \in Int /\ plan \in Plans
  BY SimulationAssumption DEF TypeOK, SimulationAssumption
<1>2. p.stop \in Int /\ plan.tp1 \in Int /\ plan.tp2 \in Int
  BY <1>1, AnyFacts, PlanFacts
<1>3. /\ At(price, p.stop, gapped) \in Int /\ At(price, plan.tp1, gapped) \in Int
      /\ At(price, plan.tp2, gapped) \in Int
  BY <1>2 DEF At
<1> QED BY <1>1, <1>3, SpentActs, ReactCases

LEMMA SpentWithinBar ==
  ASSUME TypeOK, NEW p \in AnyPositions, Spent(p), NEW b \in Bars
  PROVE  LET q == WithinBar(p, b) IN Spent(q) /\ q.legs = p.legs
<1>1. fill \in Int /\ walked \in Int /\ plan \in Plans
  BY SimulationAssumption DEF TypeOK, SimulationAssumption
<1>2. p.stop \in Int /\ plan.tp1 \in Int /\ plan.tp2 \in Int
  BY <1>1, AnyFacts, PlanFacts
<1> DEFINE c == CloseAll(p, p.stop, Today, "sl", FALSE)
           u == FillTp2(p, plan.tp2, FALSE)
<1>3. FillTp1(p, plan.tp1, FALSE) = p
  BY <1>1, <1>2, SpentActs
<1>4. Spent(c) /\ c.legs = p.legs /\ u \in AnyPositions /\ Spent(u) /\ u.legs = p.legs
  BY <1>1, <1>2, SpentActs
<1>5. WithinBar(p, b) \in {c, Settled(u), p}
  BY <1>3 DEF WithinBar
<1> HIDE DEF c, u
<1>6. Spent(Settled(u)) /\ Settled(u).legs = u.legs
  BY <1>4, SettledChanges DEF Spent
<1> QED BY <1>4, <1>5, <1>6

\* Two prices later a position that is spent has still sold what it had.
LEMMA SpentStaysAlike ==
  ASSUME TypeOK, NEW p, NEW q \in AnyPositions, Spent(p), Spent(q), p.legs = q.legs,
         NEW x \in Int, NEW y \in Int
  PROVE  /\ Alike(p, q)
         /\ Alike(p, React(q, x, FALSE))
         /\ Alike(p, React(React(q, x, FALSE), y, FALSE))
<1> DEFINE r == React(q, x, FALSE)
           s == React(r, y, FALSE)
<1>1. r \in AnyPositions /\ Spent(r) /\ r.legs = q.legs
  BY SpentReacts
<1> HIDE DEF r
<1>2. s \in AnyPositions /\ Spent(s) /\ s.legs = r.legs
  BY <1>1, SpentReacts
<1> HIDE DEF s
<1>3. Alike(p, q) /\ Alike(p, r) /\ Alike(p, s)
  BY <1>1, <1>2 DEF Alike, Spent, Held
<1> QED BY <1>3 DEF r, s

\* The second target, once nothing is left for the first.
LEMMA SecondTarget ==
  ASSUME NEW q \in AnyPositions, q.held1 = 0, walked \in Int, NEW price \in Int,
         NEW gapped \in BOOLEAN
  PROVE  LET t == FillTp2(q, price, gapped)
         IN  /\ t \in AnyPositions /\ Spent(t)
             /\ Spent(Settled(t)) /\ Settled(t).legs = t.legs
             /\ q.held2 = 0 => Spent(q) /\ t.legs = q.legs
<1> DEFINE t == FillTp2(q, price, gapped)
<1>1. t \in AnyPositions /\ t.held1 = 0 /\ t.held2 = 0
  BY FillTp2Changes
<1>2. q.held2 = 0 => t.legs = q.legs
  BY FillTp2Changes, NothingToSell
<1> HIDE DEF t
<1>3. Settled(t).held1 = 0 /\ Settled(t).held2 = 0 /\ Settled(t).legs = t.legs
  BY <1>1, SettledChanges
<1> QED BY <1>1, <1>2, <1>3 DEF Spent, t

\* Within a bar: the low first, then the high.
LEMMA WithinBarFollows ==
  ASSUME TypeOK, fill < plan.tp1, NEW p \in AnyPositions, NEW b \in Bars
  PROVE  Alike(WithinBar(p, b), React(React(p, b.low, FALSE), b.high, FALSE))
<1> DEFINE w  == WithinBar(p, b)
           r1 == React(p, b.low, FALSE)
           r2 == React(r1, b.high, FALSE)
           t1 == FillTp1(p, plan.tp1, FALSE)
           t2 == FillTp2(t1, plan.tp2, FALSE)
<1> SUFFICES Alike(w, r2)
  OBVIOUS
<1> HIDE DEF w, r1, r2, t1, t2
<1>1. fill \in Int /\ walked \in Int /\ plan \in Plans
  BY SimulationAssumption DEF TypeOK, SimulationAssumption
<1>2. p.stop \in Int /\ plan.tp1 \in Int /\ plan.tp2 \in Int /\ plan.tp1 <= plan.tp2
  BY <1>1, AnyFacts, PlanFacts
<1>3. b.low \in Int /\ b.high \in Int /\ b.low <= b.high
  BY BarFacts, SimulationAssumption DEF SimulationAssumption
<1>4. /\ t1 \in AnyPositions /\ t1.held1 = 0 /\ t1.held2 = p.held2 /\ t1.held2 \in Nat
      /\ p.held1 = 0 => t1 = p
      /\ p.held1 # 0 => t1.stop = fill
  BY <1>1, <1>2, FillTp1Changes, AnyFacts DEF t1
<1>5. FillTp1(t1, plan.tp1, FALSE) = t1
  BY <1>1, <1>2, <1>4, FillTp1Changes
<1>6. /\ t2 \in AnyPositions /\ Spent(t2) /\ Spent(Settled(t2)) /\ Settled(t2).legs = t2.legs
      /\ t1.held2 = 0 => Spent(t1) /\ t2.legs = t1.legs
  BY <1>1, <1>2, <1>4, SecondTarget DEF t2
<1>7. CASE b.low <= p.stop
  <2> DEFINE c == CloseAll(p, p.stop, Today, "sl", FALSE)
  <2>1. w = c
    BY <1>7 DEF WithinBar, w
  <2>2. r1 = c
    BY <1>7, ReactCases DEF At, r1
  <2>3. c \in AnyPositions /\ Spent(c)
    BY <1>1, <1>2, CloseAllChanges
  <2> HIDE DEF c
  <2>4. Alike(c, React(c, b.high, FALSE))
    BY <1>3, <2>3, SpentStaysAlike
  <2> QED BY <2>1, <2>2, <2>4 DEF r2
<1>8. CASE ~(b.low <= p.stop)
  <2> DEFINE first == IF b.high >= plan.tp1 THEN t1 ELSE p
  <2>1. w = IF b.high >= plan.tp2 /\ (p.tp1Done \/ p.held2 > 0)
            THEN Settled(FillTp2(first, plan.tp2, FALSE)) ELSE first
    BY <1>8 DEF WithinBar, w, t1
  <2>2. r1 = IF b.low >= plan.tp2 THEN t2 ELSE IF b.low >= plan.tp1 THEN t1 ELSE p
    BY <1>8, ReactCases DEF At, r1, t1, t2
  <2>3. ASSUME b.high >= plan.tp2 PROVE Spent(w) /\ w.legs = t2.legs
    <3>1. p.held2 > 0 \/ p.held2 = 0
      BY AnyFacts
    <3>2. b.high >= plan.tp1
      BY <1>2, <1>3, <2>3
    <3>3. first = t1
      BY <3>2
    <3> HIDE DEF first
    <3>4. w = Settled(t2) \/ (w = t1 /\ t1.held2 = 0)
      BY <1>4, <2>1, <2>3, <3>1, <3>3 DEF t2
    <3> QED BY <1>6, <3>4
  <2>4. ~(b.high >= plan.tp2) => w = first
    BY <2>1
  <2>5. ASSUME b.high >= plan.tp2, r2 = t2 PROVE Alike(w, r2)
    BY <1>6, <2>3, <2>5 DEF Alike, Spent, Held
  <2>6. CASE b.low >= plan.tp2
    <3>1. b.high >= plan.tp2
      BY <1>2, <1>3, <2>6
    <3>2. r1 = t2
      BY <2>2, <2>6
    <3>3. Alike(w, React(t2, b.high, FALSE))
      BY <1>3, <1>6, <2>3, <3>1, SpentStaysAlike
    <3> QED BY <3>2, <3>3 DEF r2
  <2>7. CASE ~(b.low >= plan.tp2) /\ b.low >= plan.tp1
    <3>1. b.high >= plan.tp1
      BY <1>2, <1>3, <2>7
    <3>2. r1 = t1
      BY <2>2, <2>7
    <3>3. ~(b.high <= t1.stop)
      BY <1>1, <1>2, <1>3, <1>4, <1>8, <2>7
    <3>4. React(t1, b.high, FALSE) =
            IF b.high >= plan.tp2
            THEN FillTp2(FillTp1(t1, plan.tp1, FALSE), plan.tp2, FALSE)
            ELSE FillTp1(t1, plan.tp1, FALSE)
      BY <3>1, <3>3, ReactCases DEF At
    <3>5. r2 = IF b.high >= plan.tp2 THEN t2 ELSE t1
      BY <1>5, <3>2, <3>4 DEF r2, t2
    <3>6. CASE b.high >= plan.tp2
      BY <2>5, <3>5, <3>6
    <3>7. CASE ~(b.high >= plan.tp2)
      <4>1. r2 = t1 /\ w = t1
        BY <2>4, <3>1, <3>5, <3>7
      <4> QED BY <4>1 DEF Alike
    <3> QED BY <3>6, <3>7
  <2>8. CASE ~(b.low >= plan.tp1)
    <3>1. ~(b.low >= plan.tp2) /\ ~(b.high <= p.stop)
      BY <1>2, <1>3, <1>8, <2>8
    <3>2. r1 = p
      BY <2>2, <2>8, <3>1
    <3>3. React(p, b.high, FALSE) =
            IF b.high >= plan.tp2 THEN t2 ELSE IF b.high >= plan.tp1 THEN t1 ELSE p
      BY <3>1, ReactCases DEF At, t1, t2
    <3>4. r2 = IF b.high >= plan.tp2 THEN t2 ELSE IF b.high >= plan.tp1 THEN t1 ELSE p
      BY <3>2, <3>3 DEF r2
    <3>5. CASE b.high >= plan.tp2
      BY <2>5, <3>4, <3>5
    <3>6. CASE ~(b.high >= plan.tp2)
      <4>1. r2 = w
        BY <2>4, <3>4, <3>6
      <4> QED BY <4>1 DEF Alike
    <3> QED BY <3>5, <3>6
  <2> QED BY <2>6, <2>7, <2>8
<1> QED BY <1>7, <1>8

\* The open first: whatever it leaves is carried within the bar.
LEMMA StepBarFollows ==
  ASSUME TypeOK, fill < plan.tp1, NEW p \in AnyPositions, p.tp1Done => p.held1 = 0,
         NEW b \in Bars
  PROVE  Alike(StepBar(p, b), Reference(p, b))
<1> DEFINE w  == StepBar(p, b)
           r0 == React(p, b.open, TRUE)
           t1 == FillTp1(p, b.open, TRUE)
           t2 == FillTp2(t1, b.open, TRUE)
           first == IF b.open >= plan.tp1 THEN t1 ELSE p
<1> SUFFICES Alike(w, React(React(r0, b.low, FALSE), b.high, FALSE))
  BY DEF Reference
<1> HIDE DEF w, r0, t1, t2
<1>1. fill \in Int /\ walked \in Int /\ plan \in Plans
  BY SimulationAssumption DEF TypeOK, SimulationAssumption
<1>2. p.stop \in Int /\ plan.tp1 \in Int /\ plan.tp2 \in Int /\ plan.tp1 <= plan.tp2
  BY <1>1, AnyFacts, PlanFacts
<1>3. b.low \in Int /\ b.high \in Int /\ b.open \in Int
  BY BarFacts, SimulationAssumption DEF SimulationAssumption
<1>4. t1 \in AnyPositions /\ t1.held1 = 0
  BY <1>1, <1>3, FillTp1Changes DEF t1
<1>5. t2 \in AnyPositions /\ Spent(t2) /\ Spent(Settled(t2)) /\ Settled(t2).legs = t2.legs
  BY <1>1, <1>3, <1>4, SecondTarget DEF t2
<1>6. first \in AnyPositions
  BY <1>4
<1>7. CASE b.open <= p.stop
  <2> DEFINE c == CloseAll(p, b.open, Today, "sl", TRUE)
  <2>1. w = c
    BY <1>7 DEF StepBar, w
  <2>2. r0 = c
    BY <1>7, ReactCases DEF At, r0
  <2>3. c \in AnyPositions /\ Spent(c)
    BY <1>1, <1>3, CloseAllChanges
  <2> HIDE DEF c
  <2>4. Alike(c, React(React(c, b.low, FALSE), b.high, FALSE))
    BY <1>3, <2>3, SpentStaysAlike
  <2> QED BY <2>1, <2>2, <2>4
<1>8. CASE ~(b.open <= p.stop) /\ b.open >= plan.tp2
  <2>1. r0 = t2
    BY <1>8, ReactCases DEF At, r0, t1, t2
  <2>2. b.open >= plan.tp1
    BY <1>2, <1>3, <1>8
  <2>3. first = t1
    BY <2>2
  <2>4. w = IF ~p.tp1Done \/ p.held2 > 0
            THEN Settled(FillTp2(first, b.open, TRUE)) ELSE WithinBar(first, b)
    BY <1>8 DEF StepBar, w, t1
  <2> HIDE DEF first
  <2>5. Spent(w) /\ w.legs = t2.legs
    <3>1. CASE ~p.tp1Done \/ p.held2 > 0
      <4>1. w = Settled(t2)
        BY <2>3, <2>4, <3>1 DEF t2
      <4> QED BY <1>5, <4>1
    <3>2. CASE ~(~p.tp1Done \/ p.held2 > 0)
      <4>1. p.held1 = 0 /\ p.held2 = 0
        BY <3>2, AnyFacts
      <4>2. Spent(p)
        BY <4>1 DEF Spent
      <4>3. t1 = p
        BY <1>1, <1>3, <4>2, SpentActs DEF t1
      <4>4. t2.legs = p.legs
        BY <1>1, <1>3, <4>2, <4>3, SpentActs DEF t2
      <4>5. w = WithinBar(p, b)
        BY <2>3, <2>4, <3>2, <4>3
      <4>6. Spent(WithinBar(p, b)) /\ WithinBar(p, b).legs = p.legs
        BY <4>2, SpentWithinBar
      <4> QED BY <4>4, <4>5, <4>6
    <3> QED BY <3>1, <3>2
  <2>6. Alike(w, React(React(t2, b.low, FALSE), b.high, FALSE))
    BY <1>3, <1>5, <2>5, SpentStaysAlike
  <2> QED BY <2>1, <2>6
<1>9. CASE ~(b.open <= p.stop) /\ ~(b.open >= plan.tp2)
  <2>1. r0 = first
    BY <1>9, ReactCases DEF At, r0, t1
  <2>2. w = WithinBar(first, b)
    BY <1>9 DEF StepBar, w, t1
  <2> HIDE DEF first
  <2>3. Alike(WithinBar(first, b), React(React(first, b.low, FALSE), b.high, FALSE))
    BY <1>6, WithinBarFollows
  <2> QED BY <2>1, <2>2, <2>3
<1> QED BY <1>7, <1>8, <1>9

LEMMA FollowsPathHolds == IInv => FollowsPath
<1> SUFFICES ASSUME IInv, phase = "holding", NEW b \in Bars
             PROVE  Alike(StepBar(pos, b), Reference(pos, b))
  BY DEF FollowsPath, Alike
<1>1. TypeOK /\ Live(pos, walked) /\ fill <= plan.entry /\ pos \in Positions
  BY DEF IInv, Holding, Sound
<1>2. fill < plan.tp1
  <2>1. plan \in Plans /\ fill \in Int
    BY <1>1, SimulationAssumption DEF TypeOK, SimulationAssumption
  <2> QED BY <1>1, <2>1, PlanFacts
<1>3. pos \in AnyPositions /\ (pos.tp1Done => pos.held1 = 0)
  BY <1>1, PositionsAreAny DEF Live
<1> QED BY <1>1, <1>2, <1>3, StepBarFollows

\* Whatever prices a bar has, the simulated stop and targets do what resting orders do
\* on the path open, low, high (fillSimulation.ts:154-163, 224-294).
THEOREM PathIsFollowed == Spec => []FollowsPath
<1>1. IInv => FollowsPath
  BY FollowsPathHolds
<1> QED BY <1>1, Invariance, PTL

-----------------------------------------------------------------------------
(* The prices of a bar.                                                    *)

\* Each leg that q has and p has not was sold in the bar.
Inside(p, q, b) ==
  \A r \in Reasons : q.legs[r] # p.legs[r] => q.legs[r].price \in b.low .. b.high

LEMMA SaleInside ==
  ASSUME NEW p \in AnyPositions, NEW q, NEW b, NEW reason \in Reasons, NEW price, NEW lots \in Int,
         NEW gapped, q.legs = LegsAfter(p, reason, price, lots, gapped),
         lots > 0 => price \in b.low .. b.high
  PROVE  Inside(p, q, b)
<1>1. p.legs \in [Reasons -> AnyLegs]
  BY AnyFacts
<1>2. CASE lots > 0
  <2>1. Leg(price, lots, gapped).price = price
    BY DEF Leg
  <2>2. q.legs = [p.legs EXCEPT ![reason] = Leg(price, lots, gapped)]
    BY <1>2 DEF LegsAfter
  <2> QED BY <1>1, <1>2, <2>1, <2>2 DEF Inside
<1>3. CASE ~(lots > 0)
  BY <1>3 DEF LegsAfter, Inside
<1> QED BY <1>2, <1>3

LEMMA InsideTwice ==
  ASSUME NEW p, NEW q, NEW s, NEW b, Inside(p, q, b), Inside(q, s, b)
  PROVE  Inside(p, s, b)
BY DEF Inside

LEMMA InsideOnceMore ==
  ASSUME NEW p, NEW q, NEW s, NEW b, Inside(p, q, b), s.legs = q.legs
  PROVE  Inside(p, s, b)
BY DEF Inside

LEMMA FillTp1Inside ==
  ASSUME NEW p \in AnyPositions, walked \in Int, fill \in Int, NEW b, NEW price \in Int,
         NEW gapped \in BOOLEAN, p.held1 # 0 => price \in b.low .. b.high
  PROVE  Inside(p, FillTp1(p, price, gapped), b)
<1>1. p.held1 \in Int
  BY AnyFacts
<1>2. FillTp1(p, price, gapped).legs = LegsAfter(p, "tp1", price, p.held1, gapped)
  BY FillTp1Changes
<1> QED BY <1>1, <1>2, SaleInside DEF Reasons

LEMMA FillTp2Inside ==
  ASSUME NEW p \in AnyPositions, walked \in Int, NEW b, NEW price \in Int,
         NEW gapped \in BOOLEAN, p.held2 # 0 => price \in b.low .. b.high
  PROVE  Inside(p, Settled(FillTp2(p, price, gapped)), b)
<1> DEFINE q == FillTp2(p, price, gapped)
<1>1. p.held2 \in Int
  BY AnyFacts
<1>2. q \in AnyPositions /\ q.legs = LegsAfter(p, "tp2", price, p.held2, gapped)
  BY FillTp2Changes
<1> HIDE DEF q
<1>3. Inside(p, q, b)
  BY <1>1, <1>2, SaleInside DEF Reasons
<1>4. Settled(q).legs = q.legs
  BY <1>2, SettledChanges
<1>5. Inside(p, Settled(q), b)
  BY <1>3, <1>4, InsideOnceMore
<1> QED BY <1>5 DEF q

LEMMA CloseAllInside ==
  ASSUME NEW p \in AnyPositions, walked \in Int, NEW b, NEW price \in Int,
         NEW gapped \in BOOLEAN, price \in b.low .. b.high
  PROVE  Inside(p, CloseAll(p, price, Today, "sl", gapped), b)
<1>1. p.held1 + p.held2 \in Int
  BY AnyFacts
<1>2. CloseAll(p, price, Today, "sl", gapped).legs
        = LegsAfter(p, "sl", price, p.held1 + p.held2, gapped)
  BY CloseAllChanges
<1> QED BY <1>1, <1>2, SaleInside DEF Reasons

\* A bar that opens above the stop, and below each target that still has lots.
LEMMA WithinBarInside ==
  ASSUME TypeOK, NEW p \in AnyPositions, NEW b \in Bars, p.stop < b.open,
         p.held1 # 0 => b.open < plan.tp1, p.held2 # 0 => b.open < plan.tp2
  PROVE  Inside(p, WithinBar(p, b), b)
<1> DEFINE w == WithinBar(p, b)
           first == IF b.high >= plan.tp1 THEN FillTp1(p, plan.tp1, FALSE) ELSE p
<1> SUFFICES Inside(p, w, b)
  OBVIOUS
<1>1. fill \in Int /\ walked \in Int /\ plan \in Plans
  BY SimulationAssumption DEF TypeOK, SimulationAssumption
<1>2. p.stop \in Int /\ plan.tp1 \in Int /\ plan.tp2 \in Int /\ plan.tp1 <= plan.tp2
  BY <1>1, AnyFacts, PlanFacts
<1>3. b.low \in Int /\ b.high \in Int /\ b.open \in Int /\ b.low <= b.open /\ b.open <= b.high
  BY BarFacts, SimulationAssumption DEF SimulationAssumption
<1>4. w = IF b.low <= p.stop THEN CloseAll(p, p.stop, Today, "sl", FALSE)
          ELSE IF b.high >= plan.tp2 /\ (p.tp1Done \/ p.held2 > 0)
               THEN Settled(FillTp2(first, plan.tp2, FALSE))
               ELSE first
  BY DEF WithinBar
<1>5. first \in AnyPositions /\ first.held2 = p.held2 /\ Inside(p, first, b)
  <2>1. CASE b.high >= plan.tp1
    <3>1. p.held1 # 0 => plan.tp1 \in b.low .. b.high
      BY <1>2, <1>3, <2>1
    <3>2. /\ FillTp1(p, plan.tp1, FALSE) \in AnyPositions
          /\ FillTp1(p, plan.tp1, FALSE).held2 = p.held2
      BY <1>1, <1>2, FillTp1Changes
    <3>3. Inside(p, FillTp1(p, plan.tp1, FALSE), b)
      BY <1>1, <1>2, <3>1, FillTp1Inside
    <3> QED BY <2>1, <3>2, <3>3
  <2>2. CASE ~(b.high >= plan.tp1)
    BY <2>2 DEF Inside
  <2> QED BY <2>1, <2>2
<1> HIDE DEF w, first
<1>6. CASE b.low <= p.stop
  <2>1. p.stop \in b.low .. b.high
    BY <1>2, <1>3, <1>6
  <2>2. Inside(p, CloseAll(p, p.stop, Today, "sl", FALSE), b)
    BY <1>1, <1>2, <2>1, CloseAllInside
  <2> QED BY <1>4, <1>6, <2>2
<1>7. CASE ~(b.low <= p.stop) /\ b.high >= plan.tp2 /\ (p.tp1Done \/ p.held2 > 0)
  <2>1. first.held2 # 0 => plan.tp2 \in b.low .. b.high
    BY <1>2, <1>3, <1>5, <1>7
  <2>2. Inside(first, Settled(FillTp2(first, plan.tp2, FALSE)), b)
    BY <1>1, <1>2, <1>5, <2>1, FillTp2Inside
  <2>3. Inside(p, Settled(FillTp2(first, plan.tp2, FALSE)), b)
    BY <1>5, <2>2, InsideTwice
  <2> QED BY <1>4, <1>7, <2>3
<1>8. CASE ~(b.low <= p.stop) /\ ~(b.high >= plan.tp2 /\ (p.tp1Done \/ p.held2 > 0))
  BY <1>4, <1>5, <1>8
<1> QED BY <1>6, <1>7, <1>8

LEMMA StepBarInside ==
  ASSUME TypeOK, fill < plan.tp1, NEW p \in AnyPositions, NEW b \in Bars
  PROVE  Inside(p, StepBar(p, b), b)
<1> DEFINE w == StepBar(p, b)
           first == IF b.open >= plan.tp1 THEN FillTp1(p, b.open, TRUE) ELSE p
<1> SUFFICES Inside(p, w, b)
  OBVIOUS
<1>1. fill \in Int /\ walked \in Int /\ plan \in Plans
  BY SimulationAssumption DEF TypeOK, SimulationAssumption
<1>2. p.stop \in Int /\ plan.tp1 \in Int /\ plan.tp2 \in Int /\ plan.tp1 <= plan.tp2
  BY <1>1, AnyFacts, PlanFacts
<1>3. b.open \in Int /\ b.open \in b.low .. b.high
  BY BarFacts, SimulationAssumption DEF SimulationAssumption
<1>4. w = IF b.open <= p.stop THEN CloseAll(p, b.open, Today, "sl", TRUE)
          ELSE IF b.open >= plan.tp2 /\ (~p.tp1Done \/ p.held2 > 0)
               THEN Settled(FillTp2(first, b.open, TRUE))
               ELSE WithinBar(first, b)
  BY DEF StepBar
<1>5. /\ first \in AnyPositions /\ first.held2 = p.held2 /\ Inside(p, first, b)
      /\ first.stop = p.stop \/ (first.stop = fill /\ b.open >= plan.tp1)
      /\ b.open >= plan.tp1 => first.held1 = 0
  <2>1. CASE b.open >= plan.tp1
    <3> DEFINE q == FillTp1(p, b.open, TRUE)
    <3>1. /\ q \in AnyPositions /\ q.held1 = 0 /\ q.held2 = p.held2
          /\ p.held1 = 0 => q = p
          /\ p.held1 # 0 => q.stop = fill
      BY <1>1, <1>3, FillTp1Changes
    <3>2. Inside(p, q, b)
      BY <1>1, <1>3, FillTp1Inside
    <3>3. first = q
      BY <2>1
    <3> HIDE DEF q, first
    <3> QED BY <2>1, <3>1, <3>2, <3>3
  <2>2. CASE ~(b.open >= plan.tp1)
    BY <2>2 DEF Inside
  <2> QED BY <2>1, <2>2
<1> HIDE DEF w, first
<1>6. CASE b.open <= p.stop
  <2>1. Inside(p, CloseAll(p, b.open, Today, "sl", TRUE), b)
    BY <1>1, <1>3, CloseAllInside
  <2> QED BY <1>4, <1>6, <2>1
<1>7. CASE ~(b.open <= p.stop) /\ b.open >= plan.tp2 /\ (~p.tp1Done \/ p.held2 > 0)
  <2>1. Inside(first, Settled(FillTp2(first, b.open, TRUE)), b)
    BY <1>1, <1>3, <1>5, FillTp2Inside
  <2>2. Inside(p, Settled(FillTp2(first, b.open, TRUE)), b)
    BY <1>5, <2>1, InsideTwice
  <2> QED BY <1>4, <1>7, <2>2
<1>8. CASE ~(b.open <= p.stop) /\ ~(b.open >= plan.tp2 /\ (~p.tp1Done \/ p.held2 > 0))
  <2>1. first.stop < b.open
    BY <1>1, <1>2, <1>3, <1>5, <1>8
  <2>2. first.held1 # 0 => b.open < plan.tp1
    BY <1>2, <1>3, <1>5
  <2>3. first.held2 # 0 => b.open < plan.tp2
    BY <1>2, <1>3, <1>5, <1>8, AnyFacts
  <2>4. Inside(first, WithinBar(first, b), b)
    BY <1>5, <2>1, <2>2, <2>3, WithinBarInside
  <2>5. Inside(p, WithinBar(first, b), b)
    BY <1>5, <2>4, InsideTwice
  <2> QED BY <1>4, <1>8, <2>5
<1> QED BY <1>6, <1>7, <1>8

LEMMA EntryInside ==
  ASSUME plan \in Plans, NEW b \in Bars, Fills(b)
  PROVE  FillPrice(b) \in b.low .. b.high
<1>1. plan.entry \in Int
  BY PlanFacts, SimulationAssumption DEF SimulationAssumption
<1> QED BY <1>1, BarFacts DEF Fills, FillPrice, Lesser, MaxBuyPrice

LEMMA ExitsInside ==
  ASSUME IInv, phase = "holding", NEW b \in Bars
  PROVE  Inside(pos, StepBar(pos, b), b)
<1>1. TypeOK /\ fill <= plan.entry /\ pos \in Positions
  BY DEF IInv, Holding, Sound
<1>2. fill < plan.tp1
  <2>1. plan \in Plans /\ fill \in Int
    BY <1>1, SimulationAssumption DEF TypeOK, SimulationAssumption
  <2> QED BY <1>1, <2>1, PlanFacts
<1>3. pos \in AnyPositions
  BY <1>1, PositionsAreAny
<1> QED BY <1>1, <1>2, <1>3, StepBarInside

LEMMA TradesInsideBarHolds == IInv => TradesInsideBar
<1> SUFFICES ASSUME IInv, NEW b \in Bars
             PROVE  /\ phase = "entry" /\ Fills(b) => FillPrice(b) \in b.low .. b.high
                    /\ phase = "holding" => Inside(pos, StepBar(pos, b), b)
  BY DEF TradesInsideBar, Inside
<1>1. plan \in Plans
  BY DEF IInv, TypeOK
<1> QED BY <1>1, EntryInside, ExitsInside

\* No price is invented: the entry order that a bar fills pays, and each leg that a bar
\* adds to an open position sells at, a price between the bar's low and high; only the
\* expiry sells at no price of a new bar, but at the last close
\* (fillSimulation.ts:96-130, 224-294).
THEOREM PricesAreTraded == Spec => []TradesInsideBar
<1>1. IInv => TradesInsideBar
  BY TradesInsideBarHolds
<1> QED BY <1>1, Invariance, PTL
=============================================================================
