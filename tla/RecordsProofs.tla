---------------------------- MODULE RecordsProofs ----------------------------
(***************************************************************************)
(* What the tables of daily data let their readers conclude, for every      *)
(* number of days and symbols, every market and every bound of the code.    *)
(*                                                                         *)
(* Bars are written oldest first, and a response has the sessions of its    *)
(* window together.  So a session is without a bar while a later one has    *)
(* its own only where the later one came when the earlier was out of reach  *)
(* (Gaps), whatever candidates come and whatever write stops half-way.  A   *)
(* row was first written by the day it was last received, unless the        *)
(* backfill wrote it (Vouched).  The outcomes of shadow plans and the       *)
(* decisions of the replay follow from the two.                             *)
(***************************************************************************)
EXTENDS Records, FiniteSetTheorems, TLAPS

-----------------------------------------------------------------------------
(* The first and the last days of a set.                                   *)

LEMMA DaysAreFinite ==
  ASSUME NEW n \in Nat, NEW D, \A d \in D : d \in 1..n
  PROVE  IsFiniteSet(D) /\ Cardinality(D) \in Nat /\ Cardinality(D) <= n
<1>1. IsFiniteSet(1..n) /\ Cardinality(1..n) = n
  BY FS_Interval
<1>2. D \in SUBSET (1..n)
  OBVIOUS
<1>3. IsFiniteSet(D) /\ Cardinality(D) <= n
  BY <1>1, <1>2, FS_Subset
<1> QED BY <1>3, FS_CardinalityType

(* With a day, the first n of a set have every day of it that is earlier.  *)
LEMMA FirstOnesAreTogether ==
  ASSUME NEW m \in Nat, NEW D, \A d \in D : d \in 1..m, NEW n \in Int,
         NEW e \in FirstOf(D, n), NEW d \in D, d < e
  PROVE  d \in FirstOf(D, n)
<1> DEFINE before(x) == {y \in D : y < x}
<1>1. e \in D /\ Cardinality(before(e)) < n
  BY DEF FirstOf
<1>2. before(d) \in SUBSET before(e)
  <2>1. ASSUME NEW y \in before(d) PROVE y \in D /\ y < e
    <3>1. y \in D /\ y < d
      OBVIOUS
    <3>2. y \in 1..m /\ d \in 1..m /\ e \in 1..m
      BY <1>1, <3>1
    <3> QED BY <3>1, <3>2
  <2> QED BY <2>1
<1>3. \A x \in {d, e} : IsFiniteSet(before(x)) /\ Cardinality(before(x)) \in Nat
  <2> SUFFICES ASSUME NEW x \in {d, e} PROVE IsFiniteSet(before(x)) /\ Cardinality(before(x)) \in Nat
    OBVIOUS
  <2>1. \A y \in before(x) : y \in 1..m
    OBVIOUS
  <2> HIDE DEF before
  <2> QED BY <2>1, DaysAreFinite
<1>4. d \in FirstOf(D, n) <=> Cardinality(before(d)) < n
  BY DEF FirstOf
<1> HIDE DEF before
<1>5. Cardinality(before(d)) <= Cardinality(before(e))
  BY <1>2, <1>3, FS_Subset
<1>6. Cardinality(before(d)) < n
  BY <1>1, <1>3, <1>5
<1> QED BY <1>4, <1>6

(* A day of a set that is before a day among its n last, and is not among   *)
(* them itself, has at least n days of the set after it.                    *)
LEMMA FarBack ==
  ASSUME NEW m \in Nat, NEW D, \A d \in D : d \in 1..m, NEW n \in Nat,
         NEW d \in D, d \notin LastOf(D, n)
  PROVE  Cardinality({x \in D : d <= x}) > n
<1> DEFINE after == {e \in D : e > d}
           from  == {x \in D : d <= x}
<1>1. ~(Cardinality(after) < n)
  BY DEF LastOf
<1>2. after \in SUBSET (from \ {d}) /\ d \in from
  <2>1. \A x \in D : x \in Int
    OBVIOUS
  <2> QED BY <2>1
<1>3. IsFiniteSet(from) /\ Cardinality(from) \in Nat
  <2>1. \A x \in from : x \in 1..m
    OBVIOUS
  <2> HIDE DEF from
  <2> QED BY <2>1, DaysAreFinite
<1> HIDE DEF after, from
<1>4. IsFiniteSet(from \ {d}) /\ Cardinality(from \ {d}) = Cardinality(from) - 1
  BY <1>2, <1>3, FS_RemoveElement
<1>5. Cardinality(after) <= Cardinality(from) - 1 /\ IsFiniteSet(after)
  BY <1>2, <1>4, FS_Subset
<1>6. Cardinality(after) \in Nat
  BY <1>5, FS_CardinalityType
<1>7. Cardinality(from) > n
  BY <1>1, <1>3, <1>5, <1>6
<1> QED BY <1>7 DEF from

-----------------------------------------------------------------------------
(* What the tables hold.                                                   *)

Shape ==
  /\ today \in 0..MaxDay /\ (phase = "funnel" => today \in Days)
  /\ traded \in [Symbols -> SUBSET (1..today)]
  /\ bar \in [Symbols -> [Days -> 0..today]]
  /\ since \in [Symbols -> [Days -> 0..today]]
  /\ snapshot \in [Symbols -> [Days -> 0..today]]
  /\ rows \subseteq Symbols /\ live \subseteq Symbols
  /\ shadow \subseteq [source : Sources, symbol : Symbols, day : Nat, used : SUBSET Days]
  /\ \A p \in plans : p[1] \in Symbols

(* A bar was there when it was last received, or the backfill wrote it.    *)
Vouched ==
  \A s \in Symbols, d \in Days :
    bar[s][d] # 0 => since[s][d] \in 1..bar[s][d] \/ <<s, d>> \in filled

(* A row and the day it was first written come together.                   *)
Dated == \A s \in Symbols, d \in Days : bar[s][d] = 0 <=> since[s][d] = 0

(* The bars of a symbol are sessions.  A session before a bar that has none *)
(* itself was out of reach when that bar came.                             *)
Gaps ==
  \A s \in Symbols, e \in Days : bar[s][e] # 0 =>
     /\ e \in traded[s]
     /\ \A d \in traded[s] : d < e => bar[s][d] # 0 \/ OutOfReach(s, d, since[s][e])

(* What an outcome skipped was out of reach as well.                       *)
Outcomes ==
  \A p \in shadow : \A e \in p.used :
     /\ e > p.day /\ e \in Days /\ bar[p.symbol][e] # 0
     /\ \A d \in traded[p.symbol] :
           p.day < d /\ d < e => d \in p.used \/ OutOfReach(p.symbol, d, since[p.symbol][e])

RecordsInv == Shape /\ Dated /\ Vouched /\ Gaps /\ Outcomes

LEMMA ListedAreSessions ==
  ASSUME Shape, NEW s \in Symbols
  PROVE  /\ Response(s) \subseteq Listed(s) /\ Listed(s) \subseteq traded[s]
         /\ \A d \in traded[s] : d \in 1..today /\ d \in Days
         /\ \A d \in traded[s] : d < today => d \in Listed(s)
<1>1. \A d \in traded[s] : d \in 1..today
  BY DEF Shape
<1>2. today \in 0..MaxDay /\ MaxDay \in Nat
  BY RecordsAssumption DEF RecordsAssumption, Shape
<1>3. \A d \in traded[s] : d \in Days
  BY <1>1, <1>2 DEF Days
<1>4. ASSUME NEW d \in traded[s], d < today PROVE d \in Listed(s)
  BY <1>1, <1>2, <1>4 DEF Listed
<1> QED BY <1>1, <1>3, <1>4 DEF Response, LastOf, Listed

(* A session before one of a response, and not in the response, is out of   *)
(* its reach.                                                               *)
LEMMA ResponseReachesBack ==
  ASSUME Shape, NEW s \in Symbols, NEW e \in Response(s), NEW d \in traded[s], d < e
  PROVE  d \in Response(s) \/ OutOfReach(s, d, today)
<1>1. /\ \A x \in traded[s] : x \in 1..today
      /\ Listed(s) \subseteq traded[s] /\ e \in traded[s] /\ today \in Nat /\ Window \in Nat
  BY ListedAreSessions, RecordsAssumption DEF RecordsAssumption, Shape
<1>2. d < today
  <2>1. d \in 1..today /\ e \in 1..today
    BY <1>1
  <2> QED BY <1>1, <2>1
<1>3. d \in Listed(s)
  BY <1>2, ListedAreSessions
<1> SUFFICES ASSUME d \notin Response(s) PROVE OutOfReach(s, d, today)
  OBVIOUS
<1> DEFINE listed == {x \in Listed(s) : d <= x}
           passed == {x \in traded[s] : d <= x /\ x <= today}
<1>4. Cardinality(listed) > Window
  <2>1. \A x \in Listed(s) : x \in 1..today
    BY <1>1
  <2>2. d \notin LastOf(Listed(s), Window)
    BY DEF Response
  <2> QED BY <1>1, <1>3, <2>1, <2>2, FarBack
<1>5. listed \in SUBSET passed
  <2> SUFFICES ASSUME NEW x \in listed PROVE x \in passed
    OBVIOUS
  <2>1. x \in traded[s] /\ d <= x /\ x \in 1..today
    BY <1>1
  <2> QED BY <1>1, <2>1
<1>6. \A x \in passed : x \in 1..today
  BY <1>1
<1> HIDE DEF listed, passed
<1>7. IsFiniteSet(passed) /\ Cardinality(passed) \in Nat
  BY <1>1, <1>6, DaysAreFinite
<1>8. IsFiniteSet(listed) /\ Cardinality(listed) <= Cardinality(passed)
  BY <1>5, <1>7, FS_Subset
<1>9. Cardinality(listed) \in Nat
  BY <1>8, FS_CardinalityType
<1>10. Cardinality(passed) > Window
  BY <1>1, <1>4, <1>7, <1>8, <1>9
<1> QED BY <1>10 DEF OutOfReach, passed

(* What is written of a response is its start.                             *)
LEMMA WrittenIsAStart ==
  ASSUME Shape, NEW s \in Symbols, NEW t, NEW k \in Int
  PROVE  /\ Written(s, t, k) \subseteq traded[s]
         /\ \A e \in Written(s, t, k), d \in traded[s] :
               d < e => d \in Written(s, t, k) \/ OutOfReach(s, d, today)
<1>1. /\ Response(s) \subseteq traded[s] /\ \A d \in traded[s] : d \in 1..today
      /\ \A d \in Response(s) : d \in 1..today
  BY ListedAreSessions
<1>2. Written(s, t, k) \subseteq Response(s)
  BY DEF Written, FirstOf
<1>3. ASSUME NEW e \in Written(s, t, k), NEW d \in traded[s], d < e
      PROVE  d \in Written(s, t, k) \/ OutOfReach(s, d, today)
  <2>1. d \in Response(s) \/ OutOfReach(s, d, today)
    BY <1>2, <1>3, ResponseReachesBack
  <2>2. ASSUME d \in Response(s) PROVE d \in Written(s, t, k)
    <3>1. CASE s # t
      BY <2>2, <3>1 DEF Written
    <3>2. CASE s = t
      <4>1. Written(s, t, k) = FirstOf(Response(s), k)
        BY <3>2 DEF Written
      <4>2. today \in Nat
        BY RecordsAssumption DEF RecordsAssumption, Shape
      <4> QED BY <1>1, <1>3, <2>2, <4>1, <4>2, FirstOnesAreTogether
    <3> QED BY <3>1, <3>2
  <2> QED BY <2>1, <2>2
<1> QED BY <1>1, <1>2, <1>3

-----------------------------------------------------------------------------
(* What the steps do to the tables.                                        *)

LEMMA RecordsStart == Init => RecordsInv
  BY RecordsAssumption DEF RecordsAssumption, Init, RecordsInv, Shape, Dated, Vouched, Gaps, Outcomes, Empty, Days

LEMMA NumbersOfDays ==
  MaxDay \in Nat \ {0} /\ Window \in Nat /\ MaxHolding + 1 \in Int /\ \A d \in Days : d \in 1..MaxDay
  BY RecordsAssumption DEF RecordsAssumption, Days

LEMMA SessionKeeps ==
  ASSUME RecordsInv, NEW T \in Openings, NEW L \in Laggards, Session(T, L)
  PROVE  RecordsInv'
<1>1. /\ today' = today + 1 /\ today < MaxDay /\ today \in Nat
      /\ traded' = [s \in Symbols |-> traded[s] \cup (IF s \in T THEN {today + 1} ELSE {})]
      /\ UNCHANGED <<rows, live, bar, snapshot, since, filled, plans, shadow>>
  BY NumbersOfDays DEF Session, tables, RecordsInv, Shape
<1>0. today' \in Days
  BY <1>1, NumbersOfDays DEF Days
<1>2. ASSUME NEW s \in Symbols
      PROVE  /\ traded[s] \subseteq traded'[s]
             /\ \A d \in traded'[s] : d \in 1..today' /\ (d <= today => d \in traded[s])
  <2>1. \A d \in traded'[s] : d \in traded[s] \/ d = today + 1
    BY <1>1
  <2>2. \A x \in traded[s] : x \in 1..today
    BY DEF RecordsInv, Shape
  <2>3. traded[s] \subseteq traded'[s]
    BY <1>1
  <2> QED BY <1>1, <2>1, <2>2, <2>3
<1>3. Shape'
  <2>1. traded' \in [Symbols -> SUBSET (1..today')]
    BY <1>1, <1>2
  <2>2. 0..today \subseteq 0..today'
    BY <1>1
  <2>3. /\ bar \in [Symbols -> [Days -> 0..today']] /\ since \in [Symbols -> [Days -> 0..today']]
        /\ snapshot \in [Symbols -> [Days -> 0..today']]
    BY <2>2 DEF RecordsInv, Shape
  <2>4. today' \in 0..MaxDay
    BY <1>1, NumbersOfDays
  <2>5. Days' = Days /\ Symbols' = Symbols
    BY DEF Days
  <2> QED BY <1>0, <1>1, <2>1, <2>3, <2>4, <2>5 DEF RecordsInv, Shape
<1>4. Vouched' /\ Dated'
  BY <1>1 DEF RecordsInv, Vouched, Dated, Days
\* What was out of reach by a day that has passed stays so.
<1>5. ASSUME NEW s \in Symbols, NEW e \in Days, bar[s][e] # 0, NEW d \in traded'[s], d < e
      PROVE  /\ e \in traded[s] /\ d \in traded[s]
             /\ OutOfReach(s, d, since[s][e]) => OutOfReach(s, d, since[s][e])'
  <2>1. e \in traded[s] /\ e \in 1..today
    BY <1>5 DEF RecordsInv, Gaps, Shape
  <2>2. d \in traded[s]
    <3>1. d \in 1..today'
      BY <1>2
    <3>2. d <= today
      BY <1>1, <1>5, <2>1, <3>1
    <3> QED BY <1>2, <3>2
  <2>3. since[s][e] \in 0..today /\ since'[s][e] = since[s][e]
    BY <1>1 DEF RecordsInv, Shape
  <2>4. {x \in traded'[s] : d <= x /\ x <= since[s][e]} = {x \in traded[s] : d <= x /\ x <= since[s][e]}
    <3>1. ASSUME NEW x \in traded'[s], x <= since[s][e] PROVE x \in traded[s]
      <4>1. x \in 1..today'
        BY <1>2
      <4>2. x <= today
        BY <1>1, <2>3, <3>1, <4>1
      <4> QED BY <1>2, <4>2
    <3> QED BY <1>2, <3>1
  <2> QED BY <2>1, <2>2, <2>3, <2>4 DEF OutOfReach
<1>6. Gaps'
  <2> SUFFICES ASSUME NEW s \in Symbols, NEW e \in Days, bar[s][e] # 0
               PROVE  /\ e \in traded'[s]
                      /\ \A d \in traded'[s] : d < e => bar[s][d] # 0 \/ OutOfReach(s, d, since[s][e])'
    BY <1>1 DEF Gaps, Days
  <2>1. e \in traded[s] /\ \A d \in traded[s] : d < e => bar[s][d] # 0 \/ OutOfReach(s, d, since[s][e])
    BY DEF RecordsInv, Gaps
  <2> QED BY <1>2, <1>5, <2>1
<1>7. Outcomes'
  <2> SUFFICES ASSUME NEW p \in shadow, NEW e \in p.used
               PROVE  /\ e > p.day /\ e \in Days /\ bar[p.symbol][e] # 0
                      /\ \A d \in traded'[p.symbol] : p.day < d /\ d < e =>
                            d \in p.used \/ OutOfReach(p.symbol, d, since[p.symbol][e])'
    BY <1>1 DEF Outcomes, Days
  <2>1. /\ e > p.day /\ e \in Days /\ bar[p.symbol][e] # 0
        /\ \A d \in traded[p.symbol] : p.day < d /\ d < e =>
              d \in p.used \/ OutOfReach(p.symbol, d, since[p.symbol][e])
    BY DEF RecordsInv, Outcomes
  <2>2. p.symbol \in Symbols
    BY DEF RecordsInv, Shape
  <2> QED BY <1>5, <2>1, <2>2
<1> QED BY <1>3, <1>4, <1>6, <1>7 DEF RecordsInv

(* Bars received together with all sessions before them that are in reach   *)
(* leave no other gap; what was written before keeps its day.              *)
LEMMA ReceivedInOrder ==
  ASSUME RecordsInv, UNCHANGED <<traded, shadow>>, NEW on,
         \A s \in Symbols : /\ on[s] \subseteq traded[s]
                            /\ \A e \in on[s], d \in traded[s] : d < e => d \in on[s] \/ OutOfReach(s, d, today),
         \A s \in Symbols, d \in Days :
            /\ bar'[s][d] # 0 <=> bar[s][d] # 0 \/ d \in on[s]
            /\ since[s][d] # 0 => since'[s][d] = since[s][d]
            /\ since[s][d] = 0 => since'[s][d] = IF d \in on[s] THEN today ELSE 0
  PROVE  Dated' /\ Gaps' /\ Outcomes'
<1>1. ASSUME NEW s \in Symbols
      PROVE  \A d \in traded[s] : d \in Days /\ today # 0
  <2>1. \A d \in traded[s] : d \in Days /\ d \in 1..today
    BY ListedAreSessions DEF RecordsInv
  <2>2. today \in 0..MaxDay
    BY DEF RecordsInv, Shape
  <2> QED BY <2>1, <2>2, NumbersOfDays
<1>2. \A s \in Symbols, d \in Days : bar[s][d] = 0 <=> since[s][d] = 0
  BY DEF RecordsInv, Dated
<1>3. Dated'
  <2> SUFFICES ASSUME NEW s \in Symbols, NEW d \in Days PROVE bar'[s][d] = 0 <=> since'[s][d] = 0
    BY DEF Dated, Days
  <2>1. d \in on[s] => today # 0
    BY <1>1
  <2>2. bar[s][d] = 0 <=> since[s][d] = 0
    BY <1>2
  <2> QED BY <2>1, <2>2
<1>4. \A s, d, x : OutOfReach(s, d, x) <=> Cardinality({y \in traded'[s] : d <= y /\ y <= x}) > Window
  BY DEF OutOfReach
<1>5. Gaps'
  <2> SUFFICES ASSUME NEW s \in Symbols, NEW e \in Days, bar'[s][e] # 0
               PROVE  /\ e \in traded[s]
                      /\ \A d \in traded[s] : d < e => bar'[s][d] # 0 \/ OutOfReach(s, d, since'[s][e])
    BY <1>4 DEF Gaps, Days, OutOfReach
  <2>1. CASE bar[s][e] # 0
    <3>1. e \in traded[s] /\ \A d \in traded[s] : d < e => bar[s][d] # 0 \/ OutOfReach(s, d, since[s][e])
      BY <2>1 DEF RecordsInv, Gaps
    <3>2. since'[s][e] = since[s][e]
      BY <1>2, <2>1
    <3> QED BY <1>1, <3>1, <3>2
  <2>2. CASE bar[s][e] = 0
    <3>1. e \in on[s]
      BY <2>2
    <3>2. since'[s][e] = today
      BY <1>2, <2>2, <3>1
    <3> QED BY <1>1, <3>1, <3>2
  <2> QED BY <2>1, <2>2
<1>6. Outcomes'
  <2> SUFFICES ASSUME NEW p \in shadow, NEW e \in p.used
               PROVE  /\ e > p.day /\ e \in Days /\ bar'[p.symbol][e] # 0
                      /\ \A d \in traded[p.symbol] : p.day < d /\ d < e =>
                            d \in p.used \/ OutOfReach(p.symbol, d, since'[p.symbol][e])
    BY <1>4 DEF Outcomes, Days, OutOfReach
  <2>1. /\ e > p.day /\ e \in Days /\ bar[p.symbol][e] # 0
        /\ \A d \in traded[p.symbol] : p.day < d /\ d < e =>
              d \in p.used \/ OutOfReach(p.symbol, d, since[p.symbol][e])
    BY DEF RecordsInv, Outcomes
  <2>2. p.symbol \in Symbols
    BY DEF RecordsInv, Shape
  <2>3. bar'[p.symbol][e] # 0 /\ since'[p.symbol][e] = since[p.symbol][e]
    BY <1>2, <2>1, <2>2
  <2> QED BY <2>1, <2>3
<1> QED BY <1>3, <1>5, <1>6

LEMMA DeepFunnelKeeps ==
  ASSUME RecordsInv, today \in Days, NEW rs \in Screens[today], NEW C \in SUBSET Symbols, NEW t \in Symbols, NEW k \in 0..Window,
         DeepFunnel(rs, C, t, k)
  PROVE  RecordsInv'
<1> DEFINE writes(s, d) == s \in C /\ d \in Written(s, t, k)
<1>1. /\ UNCHANGED <<today, traded, shadow, filled>> /\ rows' = rs /\ phase' = "shadow"
      /\ bar' = [s \in Symbols |-> [d \in Days |-> IF writes(s, d) THEN today ELSE bar[s][d]]]
      /\ since' = [s \in Symbols |-> [d \in Days |->
                     IF writes(s, d) /\ since[s][d] = 0 THEN today ELSE since[s][d]]]
      /\ snapshot' = [s \in Symbols |-> [d \in Days |->
                     IF s \in C /\ d = LastDay(s) /\ snapshot[s][d] = 0 THEN today ELSE snapshot[s][d]]]
  BY DEF DeepFunnel, UpsertBars, InsertSnapshots, market
<1>2. live' \subseteq Symbols /\ rs \subseteq Symbols /\ \A p \in plans' : p[1] \in Symbols
  <2> DEFINE enriched == IF Written(t, t, k) = Response(t) THEN C ELSE C \ {t}
             planned  == Best(Best(enriched, "score", WatchlistMax), "score", PlanMax)
  <2>2. planned \subseteq C
    BY DEF Best
  <2>3. /\ live' = planned
        /\ plans' = plans \cup {<<s, LastDay(s)>> : s \in {p \in planned : <<p, LastDay(p)>> \in Worth}}
    BY DEF DeepFunnel
  <2> HIDE DEF planned
  <2>4. ASSUME NEW p \in plans' PROVE p \in plans \/ p[1] \in C
    <3>1. CASE p \notin plans
      <4>1. PICK s \in planned : p = <<s, LastDay(s)>>
        BY <2>3, <2>4, <3>1
      <4> QED BY <2>2, <4>1
    <3> QED BY <3>1
  <2>1. live' \subseteq C /\ \A p \in plans' : p \in plans \/ p[1] \in C
    BY <2>2, <2>3, <2>4
  <2>5. Screens[today] \in SUBSET SUBSET Symbols
    BY RecordsAssumption DEF RecordsAssumption, Days
  <2> QED BY <2>1, <2>5 DEF RecordsInv, Shape
<1>3. k \in Int /\ today \in Nat /\ today \in 0..today
  BY NumbersOfDays DEF RecordsInv, Shape
<1>4. \A s \in Symbols, d \in Days : /\ bar[s][d] \in 0..today /\ since[s][d] \in 0..today
                                     /\ snapshot[s][d] \in 0..today
  BY DEF RecordsInv, Shape
<1>5. ASSUME NEW s \in Symbols
      PROVE  /\ Written(s, t, k) \subseteq traded[s]
             /\ \A e \in Written(s, t, k), d \in traded[s] :
                   d < e => d \in Written(s, t, k) \/ OutOfReach(s, d, today)
             /\ \A d \in traded[s] : d \in 1..today
  BY <1>3, WrittenIsAStart, ListedAreSessions DEF RecordsInv
<1> HIDE DEF writes
<1>6. Shape'
  <2>1. /\ bar' \in [Symbols -> [Days -> 0..today]] /\ since' \in [Symbols -> [Days -> 0..today]]
        /\ snapshot' \in [Symbols -> [Days -> 0..today]]
    BY <1>1, <1>3, <1>4
  <2> QED BY <1>1, <1>2, <2>1 DEF RecordsInv, Shape, Days
<1>7. Vouched'
  <2> SUFFICES ASSUME NEW s \in Symbols, NEW d \in Days, bar'[s][d] # 0
               PROVE  since'[s][d] \in 1..bar'[s][d] \/ <<s, d>> \in filled
    BY <1>1 DEF Vouched, Days
  <2>1. bar[s][d] # 0 => since[s][d] \in 1..bar[s][d] \/ <<s, d>> \in filled
    BY DEF RecordsInv, Vouched
  <2>2. CASE writes(s, d)
    <3>1. bar'[s][d] = today /\ since'[s][d] = IF since[s][d] = 0 THEN today ELSE since[s][d]
      BY <1>1, <2>2
    <3> QED BY <1>3, <1>4, <3>1
  <2>3. CASE ~writes(s, d)
    <3>1. bar'[s][d] = bar[s][d] /\ since'[s][d] = since[s][d]
      BY <1>1, <2>3
    <3> QED BY <2>1, <3>1
  <2> QED BY <2>2, <2>3
<1>8. Dated' /\ Gaps' /\ Outcomes'
  <2> DEFINE on == [s \in Symbols |-> IF s \in C THEN Written(s, t, k) ELSE {}]
  <2>1. \A s \in Symbols : /\ on[s] \subseteq traded[s]
                            /\ \A e \in on[s], d \in traded[s] : d < e => d \in on[s] \/ OutOfReach(s, d, today)
    BY <1>5
  <2>2. ASSUME NEW s \in Symbols, NEW d \in Days
        PROVE  /\ bar'[s][d] # 0 <=> bar[s][d] # 0 \/ d \in on[s]
               /\ since[s][d] # 0 => since'[s][d] = since[s][d]
               /\ since[s][d] = 0 => since'[s][d] = IF d \in on[s] THEN today ELSE 0
    <3>1. writes(s, d) <=> d \in on[s]
      BY DEF writes
    <3>2. d \in on[s] => today # 0
      BY <1>3, <1>5
    <3>3. /\ bar'[s][d] = IF writes(s, d) THEN today ELSE bar[s][d]
          /\ since'[s][d] = IF writes(s, d) /\ since[s][d] = 0 THEN today ELSE since[s][d]
      BY <1>1
    <3> HIDE DEF on
    <3> QED BY <3>1, <3>2, <3>3
  <2> HIDE DEF on
  <2>3. UNCHANGED <<traded, shadow>>
    BY <1>1
  <2> QED BY <2>1, <2>2, <2>3, ReceivedInOrder
<1> QED BY <1>6, <1>7, <1>8 DEF RecordsInv

LEMMA BackfillKeeps ==
  ASSUME RecordsInv, NEW S \in SUBSET Symbols, Backfill(S)
  PROVE  RecordsInv'
<1> DEFINE new == {p \in S \X Days : p[2] \in Response(p[1]) /\ bar[p[1]][p[2]] = 0}
<1>1. /\ UNCHANGED <<today, traded, phase, shadow, plans, rows, live, snapshot>>
      /\ bar' = [s \in Symbols |-> [d \in Days |-> IF <<s, d>> \in new THEN d ELSE bar[s][d]]]
      /\ since' = [s \in Symbols |-> [d \in Days |-> IF <<s, d>> \in new THEN today ELSE since[s][d]]]
      /\ filled' = filled \cup new
  BY DEF Backfill, market
<1>2. \A s \in Symbols, d \in Days : <<s, d>> \in new <=> s \in S /\ d \in Response(s) /\ bar[s][d] = 0
  OBVIOUS
<1>3. \A s \in Symbols : Response(s) \subseteq traded[s] /\ \A d \in traded[s] : d \in 1..today
  BY ListedAreSessions DEF RecordsInv
<1> HIDE DEF new
<1>4. today \in Nat /\ \A s \in Symbols, d \in Days : bar[s][d] \in 0..today /\ since[s][d] \in 0..today
  BY NumbersOfDays DEF RecordsInv, Shape
<1>5. Shape'
  <2>1. ASSUME NEW s \in Symbols, NEW d \in Days PROVE bar'[s][d] \in 0..today /\ since'[s][d] \in 0..today
    <3>1. <<s, d>> \in new => d \in 1..today
      BY <1>2, <1>3
    <3>2. /\ bar'[s][d] = IF <<s, d>> \in new THEN d ELSE bar[s][d]
          /\ since'[s][d] = IF <<s, d>> \in new THEN today ELSE since[s][d]
      BY <1>1
    <3> QED BY <1>4, <3>1, <3>2
  <2>2. bar' \in [Symbols -> [Days -> 0..today]] /\ since' \in [Symbols -> [Days -> 0..today]]
    BY <1>1, <2>1
  <2> QED BY <1>1, <2>2 DEF RecordsInv, Shape, Days
<1>6. Vouched'
  <2> SUFFICES ASSUME NEW s \in Symbols, NEW d \in Days, bar'[s][d] # 0
               PROVE  since'[s][d] \in 1..bar'[s][d] \/ <<s, d>> \in filled'
    BY DEF Vouched, Days
  <2>1. bar[s][d] # 0 => since[s][d] \in 1..bar[s][d] \/ <<s, d>> \in filled
    BY DEF RecordsInv, Vouched
  <2>2. CASE <<s, d>> \in new
    BY <1>1, <2>2
  <2>3. CASE <<s, d>> \notin new
    <3>1. bar'[s][d] = bar[s][d] /\ since'[s][d] = since[s][d]
      BY <1>1, <2>3
    <3> QED BY <1>1, <2>1, <3>1
  <2> QED BY <2>2, <2>3
<1>7. Dated' /\ Gaps' /\ Outcomes'
  <2> DEFINE on == [s \in Symbols |-> IF s \in S THEN Response(s) ELSE {}]
  <2>1. \A s \in Symbols : /\ on[s] \subseteq traded[s]
                            /\ \A e \in on[s], d \in traded[s] : d < e => d \in on[s] \/ OutOfReach(s, d, today)
    BY <1>3, ResponseReachesBack DEF RecordsInv
  <2>2. ASSUME NEW s \in Symbols, NEW d \in Days
        PROVE  /\ bar'[s][d] # 0 <=> bar[s][d] # 0 \/ d \in on[s]
               /\ since[s][d] # 0 => since'[s][d] = since[s][d]
               /\ since[s][d] = 0 => since'[s][d] = IF d \in on[s] THEN today ELSE 0
    <3>1. d # 0
      BY NumbersOfDays
    <3>2. /\ bar'[s][d] = IF <<s, d>> \in new THEN d ELSE bar[s][d]
          /\ since'[s][d] = IF <<s, d>> \in new THEN today ELSE since[s][d]
      BY <1>1
    <3>3. <<s, d>> \in new <=> d \in on[s] /\ bar[s][d] = 0
      BY <1>2
    <3>4. bar[s][d] = 0 <=> since[s][d] = 0
      BY DEF RecordsInv, Dated
    <3> HIDE DEF on
    <3> QED BY <3>1, <3>2, <3>3, <3>4
  <2> HIDE DEF on
  <2> QED BY <1>1, <2>1, <2>2, ReceivedInOrder
<1> QED BY <1>5, <1>6, <1>7 DEF RecordsInv

(* A new plan has no outcome yet.                                          *)
LEMMA ShadowPlansKeep ==
  ASSUME RecordsInv, NEW H, NEW F, NEW R, PersistShadowPlans(H, F, R)
  PROVE  RecordsInv'
<1>1. /\ UNCHANGED <<today, traded, bar, since, snapshot, plans, filled>> /\ rows' = {} /\ live' = {}
      /\ phase' # "funnel"
  BY DEF PersistShadowPlans, market, tables
<1>2. today \in Nat
  BY NumbersOfDays DEF RecordsInv, Shape
<1>3. ASSUME NEW p \in shadow', p \notin shadow
      PROVE  p \in [source : Sources, symbol : Symbols, day : Nat, used : SUBSET Days] /\ p.used = {}
  <2> DEFINE new(x) == [source |-> x[1], symbol |-> x[2], day |-> today, used |-> {}]
  <2>1. p \in NewPlans(H, F, R)
    BY <1>3 DEF PersistShadowPlans, Insert
  <2>2. PICK x \in Sources \X Symbols : p = new(x)
    BY <2>1 DEF NewPlans
  <2>3. x[1] \in Sources /\ x[2] \in Symbols
    OBVIOUS
  <2> QED BY <1>2, <2>2, <2>3
<1>4. Shape'
  <2>0. \A p \in shadow : p \in [source : Sources, symbol : Symbols, day : Nat, used : SUBSET Days]
    BY DEF RecordsInv, Shape
  <2>1. shadow' \subseteq [source : Sources, symbol : Symbols, day : Nat, used : SUBSET Days]
    BY <1>3, <2>0
  <2> QED BY <1>1, <2>1 DEF RecordsInv, Shape, Days, Sources
<1>5. Outcomes'
  BY <1>1, <1>3 DEF RecordsInv, Outcomes, OutOfReach, Days
<1> QED BY <1>1, <1>4, <1>5 DEF RecordsInv, Vouched, Dated, Gaps, Days, OutOfReach

(* An outcome rests on the first bars after the plan's day, which are its   *)
(* next sessions but for those out of reach.                               *)
LEMMA ForwardIsNext ==
  ASSUME RecordsInv, NEW p \in shadow, NEW e \in Forward(p)
  PROVE  /\ e > p.day /\ e \in Days /\ bar[p.symbol][e] # 0
         /\ \A d \in traded[p.symbol] : p.day < d /\ d < e =>
               d \in Forward(p) \/ OutOfReach(p.symbol, d, since[p.symbol][e])
<1> DEFINE later == {d \in Days : bar[p.symbol][d] # 0 /\ d > p.day}
<1>1. p.symbol \in Symbols
  BY DEF RecordsInv, Shape
<1>2. Forward(p) = FirstOf(later, MaxHolding + 1)
  BY DEF Forward
<1>3. e \in later
  BY <1>2 DEF FirstOf
<1>4. \A d \in traded[p.symbol] : d < e => bar[p.symbol][d] # 0 \/ OutOfReach(p.symbol, d, since[p.symbol][e])
  BY <1>1, <1>3 DEF RecordsInv, Gaps
<1>5. ASSUME NEW d \in traded[p.symbol], p.day < d, d < e, bar[p.symbol][d] # 0
      PROVE  d \in Forward(p)
  <2>1. d \in Days
    BY <1>1, ListedAreSessions DEF RecordsInv
  <2>2. d \in later
    <3>1. d \in Int /\ p.day \in Nat
      BY <2>1, NumbersOfDays DEF RecordsInv, Shape
    <3> QED BY <1>5, <2>1, <3>1
  <2>3. \A x \in later : x \in 1..MaxDay
    BY NumbersOfDays
  <2> HIDE DEF later
  <2> QED BY <1>2, <1>5, <2>2, <2>3, NumbersOfDays, FirstOnesAreTogether
<1> QED BY <1>3, <1>4, <1>5

LEMMA EvaluationKeeps ==
  ASSUME RecordsInv, NEW chosen, NEW done, EvaluateShadowOutcomes(chosen, done)
  PROVE  RecordsInv'
<1>1. UNCHANGED <<today, traded, bar, since, snapshot, plans, filled, rows, live>> /\ phase' = "idle"
  BY DEF EvaluateShadowOutcomes, market, tables
<1>2. \A p \in shadow' : p \in shadow \/ \E q \in shadow : p = [q EXCEPT !.used = Forward(q)]
  <2>1. done \subseteq shadow
    BY DEF EvaluateShadowOutcomes, Evaluated, Pending
  <2> QED BY <2>1 DEF EvaluateShadowOutcomes
<1>3. ASSUME NEW p \in shadow', p \notin shadow
      PROVE  /\ p \in [source : Sources, symbol : Symbols, day : Nat, used : SUBSET Days]
             /\ \A e \in p.used :
                  /\ e > p.day /\ e \in Days /\ bar[p.symbol][e] # 0
                  /\ \A d \in traded[p.symbol] : p.day < d /\ d < e =>
                        d \in p.used \/ OutOfReach(p.symbol, d, since[p.symbol][e])
  <2>1. PICK q \in shadow : p = [q EXCEPT !.used = Forward(q)]
    BY <1>2, <1>3
  <2>2. q \in [source : Sources, symbol : Symbols, day : Nat, used : SUBSET Days]
    BY DEF RecordsInv, Shape
  <2>3. Forward(q) \in SUBSET Days
    BY DEF Forward, FirstOf
  <2>4. /\ p \in [source : Sources, symbol : Symbols, day : Nat, used : SUBSET Days]
        /\ p.symbol = q.symbol /\ p.day = q.day /\ p.used = Forward(q)
    BY <2>1, <2>2, <2>3
  <2> QED BY <2>4, ForwardIsNext
<1>4. Shape'
  <2>0. \A p \in shadow : p \in [source : Sources, symbol : Symbols, day : Nat, used : SUBSET Days]
    BY DEF RecordsInv, Shape
  <2>1. shadow' \subseteq [source : Sources, symbol : Symbols, day : Nat, used : SUBSET Days]
    BY <1>3, <2>0
  <2> QED BY <1>1, <2>1 DEF RecordsInv, Shape, Days, Sources
<1>5. Outcomes'
  BY <1>1, <1>3 DEF RecordsInv, Outcomes, OutOfReach, Days
<1> QED BY <1>1, <1>4, <1>5 DEF RecordsInv, Vouched, Dated, Gaps, Days, OutOfReach

LEMMA OthersKeep ==
  ASSUME RecordsInv, UNCHANGED <<today, traded, tables, shadow>>,
         rows' \subseteq Symbols, live' \subseteq Symbols, phase' = "funnel" => today \in Days
  PROVE  RecordsInv'
<1>1. Shape'
  BY DEF RecordsInv, Shape, Days, Sources, tables
<1>2. Vouched' /\ Dated' /\ Gaps' /\ Outcomes'
  BY DEF RecordsInv, Vouched, Dated, Gaps, Outcomes, Days, tables, OutOfReach
<1> QED BY <1>1, <1>2 DEF RecordsInv

(* The tables keep their shape, a row that is there was first written by    *)
(* the day it was received unless the backfill wrote it, and a session      *)
(* without a row, before one that has one, was out of the reach of a        *)
(* response by the day that one was written (snapshots.ts:103-143,          *)
(* backfill.ts, shadow/evaluate.ts).                                       *)
THEOREM RecordsInvariant == Spec => []RecordsInv
<1>1. RecordsInv /\ [Next]_vars => RecordsInv'
  <2> SUFFICES ASSUME RecordsInv, [Next]_vars PROVE RecordsInv'
    OBVIOUS
  <2>1. CASE \E T \in Openings, L \in Laggards : Session(T, L)
    BY <2>1, SessionKeeps
  <2>2. CASE /\ phase = "funnel"
             /\ \E rs \in Screens[today], C \in SUBSET Symbols, t \in Symbols, k \in 0..Window : DeepFunnel(rs, C, t, k)
    <3>1. today \in Days
      BY <2>2 DEF RecordsInv, Shape
    <3> QED BY <2>2, <3>1, DeepFunnelKeeps
  <2>3. CASE \E H, F, R \in SUBSET Symbols : PersistShadowPlans(H, F, R)
    BY <2>3, ShadowPlansKeep
  <2>4. CASE ShadowFails
    BY <2>4, OthersKeep DEF ShadowFails, market
  <2>5. CASE \E chosen \in SUBSET Pending : \E done \in SUBSET chosen : EvaluateShadowOutcomes(chosen, done)
    BY <2>5, EvaluationKeeps
  <2>6. CASE RunAgain
    BY <2>6, OthersKeep DEF RunAgain, market, RecordsInv, Shape
  <2>7. CASE \E S \in SUBSET Symbols : Backfill(S)
    BY <2>7, BackfillKeeps
  <2>8. CASE UNCHANGED vars
    BY <2>8, OthersKeep DEF vars, market, RecordsInv, Shape
  <2> QED BY <2>1, <2>2, <2>3, <2>4, <2>5, <2>6, <2>7, <2>8 DEF Next
<1> QED
  BY RecordsStart, <1>1, PTL DEF Spec

(* A shadow plan is entered in the first session after its day and walked   *)
(* through the next ones; one it skips was out of the reach of a response   *)
(* before any session from it on was stored (evaluate.ts:10-17).           *)
THEOREM OutcomesFollowThePlan == Spec => []OutcomeOnNextSessions
<1>1. RecordsInv => OutcomeOnNextSessions
  BY DEF RecordsInv, Outcomes, OutcomeOnNextSessions
<1> QED
  BY <1>1, RecordsInvariant, PTL

-----------------------------------------------------------------------------
(* What the replay reads.                                                  *)

LEMMA LastDayIsThere ==
  ASSUME NEW n \in Nat, NEW D, \A d \in D : d \in 1..n, D # {}
  PROVE  /\ \E d \in D : \A e \in D : d >= e
         /\ Max(D) \in D
<1> DEFINE left == {n - d : d \in D}
<1>1. \A d \in D : n - d \in Nat
  OBVIOUS
<1>2. PICK some : some \in D
  OBVIOUS
<1>3. left \in SUBSET Nat /\ left # {}
  BY <1>1, <1>2
<1>4. \E x \in left : \A y \in left : ~(y < x)
  <2> HIDE DEF left
  <2>1. IsWellFoundedOn(OpToRel(<, Nat), Nat)
    BY NatLessThanWellFounded
  <2>2. PICK x \in left : \A y \in left : ~(<<y, x>> \in OpToRel(<, Nat))
    BY <1>3, <2>1, WFMin
  <2>3. \A y \in left : ~(y < x)
    BY <1>3, <2>2 DEF OpToRel
  <2> QED BY <2>3
<1>5. PICK d \in D : \A y \in left : ~(y < n - d)
  BY <1>4
<1>6. \A e \in D : d >= e
  <2> SUFFICES ASSUME NEW e \in D PROVE d >= e
    OBVIOUS
  <2>1. n - e \in left
    OBVIOUS
  <2>2. ~(n - e < n - d)
    BY <1>5, <2>1
  <2>3. d \in 1..n /\ e \in 1..n
    OBVIOUS
  <2> QED BY <2>2, <2>3
<1> QED BY <1>6 DEF Max

(* A window of days has the last of them.                                  *)
LEMMA WindowHasADay ==
  ASSUME NEW n \in Nat, NEW D, \A d \in D : d \in 1..n, D # {}, NEW w \in Nat \ {0}
  PROVE  Max(LastOf(D, w)) \in D
<1>1. PICK d \in D : \A e \in D : d >= e
  BY LastDayIsThere
<1>2. {e \in D : e > d} = {}
  <2> SUFFICES ASSUME NEW e \in D PROVE ~(e > d)
    OBVIOUS
  <2>1. d >= e /\ d \in 1..n /\ e \in 1..n
    BY <1>1
  <2> QED BY <2>1
<1>3. Cardinality({e \in D : e > d}) = 0
  BY <1>2, FS_EmptySet
<1>4. d \in LastOf(D, w)
  BY <1>3 DEF LastOf
<1>5. \A x \in LastOf(D, w) : x \in 1..n /\ x \in D
  BY DEF LastOf
<1>6. Max(LastOf(D, w)) \in LastOf(D, w)
  BY <1>4, <1>5, LastDayIsThere
<1> QED BY <1>5, <1>6

LEMMA HistoryIsKnown ==
  ASSUME RecordsInv, NEW s \in Symbols, NEW day \in Days
  PROVE  /\ HistoryAsOf(s, EndOf(day)) \subseteq KnownBy(s, day)
         /\ ~Leaks(s, EndOf(day))
<1> DEFINE bars == Seen(bar, s, EndOf(day))
           snaps == Seen(snapshot, s, EndOf(day))
           seen == HistoryAsOf(s, EndOf(day))
<1>1. EndOf(day).date = day /\ EndOf(day).known = day
  BY DEF EndOf
<1>2. \A d \in bars : d \in Days /\ bar[s][d] # 0 /\ d <= day /\ bar[s][d] <= day
  BY <1>1 DEF Seen
<1>3. \A d \in snaps : d \in Days /\ snapshot[s][d] # 0 /\ d <= day /\ snapshot[s][d] <= day
  BY <1>1 DEF Seen
<1>4. seen = IF bars # {} THEN LastOf(bars, HistoryBars) ELSE LastOf(snaps, SnapshotBars)
  BY DEF HistoryAsOf
<1>5. seen \subseteq bars \/ seen \subseteq snaps
  BY <1>4 DEF LastOf
<1> HIDE DEF bars, snaps, seen
<1>6. today \in Nat /\ day \in 1..MaxDay /\ MaxDay \in Nat
  BY NumbersOfDays DEF RecordsInv, Shape
<1>7. \A d \in Days : d \in 1..MaxDay /\ bar[s][d] \in 0..today /\ since[s][d] \in 0..today /\ snapshot[s][d] \in 0..today
  BY NumbersOfDays DEF RecordsInv, Shape
<1>8. ASSUME NEW d \in bars PROVE d \in KnownBy(s, day)
  <2>1. d \in Days /\ bar[s][d] # 0 /\ d <= day /\ bar[s][d] <= day
    BY <1>2
  <2>2. since[s][d] \in 1..bar[s][d] \/ <<s, d>> \in filled
    BY <2>1 DEF RecordsInv, Vouched
  <2>3. d \in 1..day
    BY <1>6, <1>7, <2>1
  <2>4. since[s][d] \in 1..bar[s][d] => since[s][d] \in 1..day
    BY <1>6, <1>7, <2>1
  <2> QED BY <2>2, <2>3, <2>4 DEF KnownBy
<1>9. ASSUME NEW d \in snaps PROVE d \in KnownBy(s, day)
  <2>1. d \in Days /\ snapshot[s][d] # 0 /\ d <= day /\ snapshot[s][d] <= day
    BY <1>3
  <2>2. d \in 1..MaxDay /\ snapshot[s][d] \in 0..today
    BY <1>7, <2>1
  <2>3. d \in 1..day
    BY <1>6, <2>1, <2>2
  <2>4. snapshot[s][d] \in 1..day
    BY <1>6, <2>1, <2>2
  <2> QED BY <2>3, <2>4 DEF KnownBy
<1>10. ASSUME bars # {} PROVE ~(bar[s][Max(seen)] > day)
  <2>1. Max(seen) \in bars
    BY <1>2, <1>4, <1>6, <1>7, <1>10, WindowHasADay, RecordsAssumption DEF RecordsAssumption
  <2> DEFINE last == Max(seen)
  <2>2. last \in Days /\ bar[s][last] <= day
    BY <1>2, <2>1
  <2> HIDE DEF last
  <2>3. bar[s][last] \in 0..today
    BY <1>7, <2>2
  <2>4. ~(bar[s][last] > day)
    BY <1>6, <2>2, <2>3
  <2> QED BY <2>4 DEF last
<1>11. \A d \in seen : ~(d > day)
  <2> SUFFICES ASSUME NEW d \in seen PROVE ~(d > day)
    OBVIOUS
  <2>1. d \in Days /\ d <= day
    BY <1>2, <1>3, <1>5
  <2> QED BY <1>6, <1>7, <2>1
<1>12. ~Leaks(s, EndOf(day))
  BY <1>1, <1>10, <1>11 DEF Leaks, bars, seen
<1>13. seen \subseteq KnownBy(s, day)
  BY <1>5, <1>8, <1>9
<1> QED BY <1>12, <1>13 DEF seen

LEMMA TradesAreOfTheDay ==
  ASSUME Shape, NEW day \in Days,
         NEW trade \in SignalDriven(day) \cup ReplayOn(day) \cup SweepOn(day) \cup TechnicalOn(day)
  PROVE  \E s \in Symbols : \E seen \in {{}, HistoryAsOf(s, EndOf(day))} : trade = Simulation(s, day, seen)
<1>1. \A asOf : \A s \in UniverseAsOf(asOf) : s \in Symbols
  BY DEF UniverseAsOf
<1>2. CASE trade \in SignalDriven(day)
  BY <1>2 DEF SignalDriven, Shape
<1>3. CASE trade \in ReplayOn(day)
  <2>1. PICK s \in UniverseAsOf(StartOf(day)) : trade = Simulation(s, day, HistoryAsOf(s, EndOf(day)))
    BY <1>3 DEF ReplayOn, LiquidCandidates
  <2> QED BY <1>1, <2>1
<1>4. CASE trade \in SweepOn(day)
  <2>1. PICK s \in UniverseAsOf(EndOf(day)) : trade = Simulation(s, day, HistoryAsOf(s, EndOf(day)))
    BY <1>4 DEF SweepOn, LiquidCandidates, Best
  <2> QED BY <1>1, <2>1
<1>5. CASE trade \in TechnicalOn(day)
  <2>1. PICK s \in UniverseAsOf(EndOf(day)) : trade = Simulation(s, day, HistoryAsOf(s, EndOf(day)))
    BY <1>5 DEF TechnicalOn, LiquidCandidates, Best
  <2> QED BY <1>1, <2>1
<1> QED BY <1>2, <1>3, <1>4, <1>5

(* A harness decides for a day on what the worker had by the end of it and *)
(* fills the trade on later sessions, and the leak guard never fires       *)
(* (dataSource/types.ts:13-16, 26-27; postgres.ts; leakGuard.ts).          *)
THEOREM TheReplayLooksBack == Spec => []ReplayDecidesOnThePast
<1>1. RecordsInv => ReplayDecidesOnThePast
  <2> SUFFICES ASSUME RecordsInv, NEW day \in ListTradingDates,
                      NEW trade \in SignalDriven(day) \cup ReplayOn(day) \cup SweepOn(day) \cup TechnicalOn(day)
               PROVE  /\ trade.seen \subseteq KnownBy(trade.symbol, day)
                      /\ \A d \in trade.bars : d > day
                      /\ ~Leaks(trade.symbol, EndOf(day))
    BY DEF ReplayDecidesOnThePast
  <2>1. day \in Days
    BY DEF ListTradingDates
  <2>2. PICK s \in Symbols : \E seen \in {{}, HistoryAsOf(s, EndOf(day))} : trade = Simulation(s, day, seen)
    BY <2>1, TradesAreOfTheDay DEF RecordsInv
  <2>5. PICK seen \in {{}, HistoryAsOf(s, EndOf(day))} : trade = Simulation(s, day, seen)
    BY <2>2
  <2>3. trade.symbol = s /\ trade.seen = seen /\ trade.bars = SimulationBars(s, day, MaxHolding + 1)
    BY <2>5 DEF Simulation
  <2>4. \A d \in trade.bars : d > day
    BY <2>3 DEF SimulationBars, FirstOf
  <2> QED BY <2>1, <2>2, <2>3, <2>4, HistoryIsKnown
<1> QED
  BY <1>1, RecordsInvariant, PTL
=============================================================================
