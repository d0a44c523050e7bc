---------------------------- MODULE ArchiveProofs ----------------------------
(***************************************************************************)
(* A backfill keeps the reserve of the upstream's quota, whatever the      *)
(* items, the reserve, the quota and the calls of the worker.              *)
(*                                                                         *)
(* A run decides on what it was told.  It can be wrong about the calls     *)
(* left only after a call it was not told of; that call has not been paid  *)
(* for by an overdrawn request as long as the run is wrong, and a request  *)
(* that is answered with the header ends that.                             *)
(*                                                                         *)
(* The readers of the archive, at whatever step of the backfills: a payload *)
(* reaches back far enough when it comes (Payloads), and what the screener, *)
(* the watchlist and the studies take from it is public by their date.      *)
(***************************************************************************)
EXTENDS Fundamentals, FiniteSetTheorems, TLAPS

\* The run believes that more calls are left than there are, or does not know
\* although it has asked.
Misled ==
    /\ script # None
    /\ \/ told = None /\ requests > 0
       \/ told # None /\ quota < told

CountsOK ==
    /\ quota \in 0..Quota
    /\ requests \in Nat
    /\ told \in Nat \cup {None}
    /\ blind \in Nat
    /\ overdrawn \in Nat

\* One of the calls it was not told of is still to be paid for while the run is misled.
Unpaid == overdrawn + (IF Misled THEN 1 ELSE 0) <= blind

IInv == CountsOK /\ Unpaid

LEMMA InitOK == Init => IInv
  BY ArchiveAssumption, SMT DEF ArchiveAssumption, Init, IInv, CountsOK, Unpaid, Misled

LEMMA StartOK ==
  ASSUME IInv, NEW sc \in Scripts, Start(sc)
  PROVE  IInv'
  BY ArchiveAssumption, SMT DEF ArchiveAssumption, Start, IInv, CountsOK, Unpaid, Misled

\* What a request does to the counts, whatever the item.
LEMMA FetchCounts ==
  ASSUME NEW answer \in Answers, NEW header \in BOOLEAN, Fetch(answer, header)
  PROVE  /\ script # None /\ MayAsk
         /\ answer = "limited" <=> quota = 0
         /\ quota' = IF answer = "limited" THEN quota ELSE quota - 1
         /\ requests' = requests + 1
         /\ told' = IF header THEN quota' ELSE told
         /\ blind' = IF header THEN blind ELSE blind + 1
         /\ overdrawn' = IF requests > 0 /\ quota <= MinRemaining THEN overdrawn + 1 ELSE overdrawn
  BY DEF Fetch

LEMMA FetchOK ==
  ASSUME IInv, NEW answer \in Answers, NEW header \in BOOLEAN, Fetch(answer, header)
  PROVE  IInv'
<1>1. /\ script # None /\ (told # None => told > MinRemaining)
      /\ answer = "limited" <=> quota = 0
      /\ quota' = IF answer = "limited" THEN quota ELSE quota - 1
      /\ requests' = requests + 1
      /\ told' = IF header THEN quota' ELSE told
      /\ blind' = IF header THEN blind ELSE blind + 1
      /\ overdrawn' = IF requests > 0 /\ quota <= MinRemaining THEN overdrawn + 1 ELSE overdrawn
  BY FetchCounts DEF MayAsk
<1>2. CountsOK /\ Unpaid
  BY DEF IInv
<1>3. quota' \in 0..quota
  BY <1>1, <1>2, ArchiveAssumption, SMT DEF ArchiveAssumption, CountsOK
<1>4. CountsOK'
  BY <1>1, <1>2, <1>3, ArchiveAssumption, SMT DEF ArchiveAssumption, CountsOK
\* It overdraws only if it is misled.
<1>5. overdrawn' <= blind
  BY <1>1, <1>2, ArchiveAssumption, SMT DEF ArchiveAssumption, CountsOK, Unpaid, Misled
<1>6. Unpaid'
  <2>1. CASE header
    <3>1. ~Misled'
      BY <1>1, <1>3, <1>2, <2>1, ArchiveAssumption, SMT DEF ArchiveAssumption, CountsOK, Misled
    <3>2. QED
      BY <3>1, <1>1, <1>4, <1>5, <2>1, SMT DEF CountsOK, Unpaid
  <2>2. CASE ~header
    BY <1>1, <1>2, <1>4, <1>5, <2>2, SMT DEF CountsOK, Unpaid
  <2>3. QED
    BY <2>1, <2>2
<1>7. QED
  BY <1>4, <1>6 DEF IInv

LEMMA OtherCallOK ==
  ASSUME IInv, OtherCall
  PROVE  IInv'
  BY ArchiveAssumption, SMT DEF ArchiveAssumption, OtherCall, IInv, CountsOK, Unpaid, Misled

LEMMA StopOK ==
  ASSUME IInv, Stop
  PROVE  IInv'
  BY ArchiveAssumption, SMT DEF ArchiveAssumption, Stop, IInv, CountsOK, Unpaid, Misled

LEMMA NewDayOK ==
  ASSUME IInv, NewDay
  PROVE  IInv'
<1>1. /\ quota' = Quota
      /\ UNCHANGED <<script, requests, told, blind, overdrawn>>
  BY DEF NewDay, runState
<1>2. QED
  BY <1>1, ArchiveAssumption, SMT DEF ArchiveAssumption, IInv, CountsOK, Unpaid, Misled

LEMMA StutterOK ==
  ASSUME IInv, UNCHANGED <<quota, script, requests, told, blind, overdrawn>>
  PROVE  IInv'
  BY SMT DEF IInv, CountsOK, Unpaid, Misled

\* The counts are typed, and a misled run has a call it was not told of left to pay for.
THEOREM InvariantHolds == Spec => []IInv
<1>1. Init => IInv
  BY InitOK
<1>2. IInv /\ [Next]_vars => IInv'
  <2> SUFFICES ASSUME IInv, [Next]_vars
               PROVE  IInv'
    OBVIOUS
  <2>1. CASE \E sc \in Scripts : Start(sc)
    BY <2>1, StartOK
  <2>2. CASE \E answer \in Answers, header \in BOOLEAN : Fetch(answer, header)
    BY <2>2, FetchOK
  <2>3. CASE OtherCall
    BY <2>3, OtherCallOK
  <2>4. CASE Stop
    BY <2>4, StopOK
  <2>5. CASE NewDay
    BY <2>5, NewDayOK
  <2>6. CASE Release
    BY <2>6, StutterOK DEF Release, runState
  <2>7. CASE UNCHANGED vars
    BY <2>7, StutterOK DEF vars, runState
  <2>8. QED
    BY <2>1, <2>2, <2>3, <2>4, <2>5, <2>6, <2>7 DEF Next
<1>3. QED
  BY <1>1, <1>2, PTL DEF Spec

\* For every universe, reserve, quota and worker: beyond the reserve a run sends, its
\* first request aside, at most as many as there were calls it was not told of.
THEOREM ReserveIsKept == Spec => []ReserveKept
<1>1. IInv => ReserveKept
  BY SMT DEF IInv, CountsOK, Unpaid, ReserveKept
<1>2. QED
  BY <1>1, InvariantHolds, PTL

-----------------------------------------------------------------------------
(* What is archived of the statements.                                     *)

\* Released quarters are over, and every payload kept is one the upstream had.
Payloads ==
    /\ day \in Int /\ FirstDay <= day /\ day <= MaxDay
    /\ released \in Nat /\ QuarterEnd(released - 1) < day
    /\ \A item \in DOMAIN stored : IsPayload(stored[item].until, released, day)

LEMMA QuarterEndIsInt ==
  ASSUME NEW q \in Int
  PROVE  QuarterEnd(q) \in Int
  BY PayloadAssumption DEF PayloadAssumption, QuarterEnd

\* What was public stays public, and what was released stays released.
LEMMA PayloadStays ==
  ASSUME NEW until, NEW has \in Nat, NEW hasNow \in Nat, has <= hasNow,
         NEW t \in Int, NEW u \in Int, t <= u, IsPayload(until, has, t)
  PROVE  IsPayload(until, hasNow, u)
<1>1. until \in 0..has /\ until \in 0..hasNow
  BY DEF IsPayload
<1>2. CASE until = 0
  BY <1>1, <1>2 DEF IsPayload
<1>3. CASE until # 0
  <2>1. PICK q \in 0..(until - 1) : q >= until - PayloadQuarters /\ IsPublic(q, t)
    BY <1>3 DEF IsPayload
  <2>2. QuarterEnd(q) \in Int /\ Lag \in Nat
    BY <1>1, <2>1, QuarterEndIsInt, ReadersAssumption DEF ReadersAssumption
  <2>3. IsPublic(q, u)
    BY <2>1, <2>2 DEF IsPublic
  <2>4. QED
    BY <1>1, <2>1, <2>3 DEF IsPayload
<1>4. QED
  BY <1>2, <1>3

\* A payload fetched now has a quarter that is public by now: either it goes back
\* far enough, or it goes back to the first quarter.
LEMMA FetchedPayload ==
  ASSUME Payloads
  PROVE  IsPayload(released, released, day) /\ IsPayload(0, released, day)
<1>1. /\ day \in Int /\ FirstDay <= day /\ released \in Nat /\ QuarterEnd(released - 1) < day
      /\ QuarterDays \in Nat /\ PayloadQuarters \in Nat \ {0} /\ FirstDay \in Int
      /\ QuarterEnd(0) + Lag <= FirstDay /\ Lag <= (PayloadQuarters - 1) * QuarterDays /\ Lag \in Nat
  BY PayloadAssumption, ReadersAssumption DEF PayloadAssumption, ReadersAssumption, Payloads
<1>2. IsPayload(0, released, day)
  BY <1>1 DEF IsPayload
<1>3. CASE released = 0
  BY <1>2, <1>3
<1>4. CASE released # 0 /\ released < PayloadQuarters
  <2>1. IsPublic(0, day)
    BY <1>1, QuarterEndIsInt DEF IsPublic
  <2>2. 0 \in 0..(released - 1) /\ 0 >= released - PayloadQuarters
    BY <1>1, <1>4
  <2>3. QED
    BY <1>1, <1>2, <2>1, <2>2 DEF IsPayload
<1>5. CASE released # 0 /\ released >= PayloadQuarters
  <2> DEFINE q == released - PayloadQuarters
             back == (PayloadQuarters - 1) * QuarterDays
  <2>1. q \in 0..(released - 1) /\ q >= released - PayloadQuarters
    BY <1>1, <1>5
  <2>2. back \in Int /\ QuarterEnd(q) \in Int /\ QuarterEnd(released - 1) \in Int
    BY <1>1, <2>1, QuarterEndIsInt
  <2>3. QuarterEnd(q) + back = QuarterEnd(released - 1)
    BY <1>1 DEF QuarterEnd
  <2> HIDE DEF q, back
  <2>4. Lag <= back
    BY <1>1 DEF back
  <2>5. IsPublic(q, day)
    BY <1>1, <2>2, <2>3, <2>4 DEF IsPublic
  <2>6. QED
    BY <1>1, <1>2, <2>1, <2>5 DEF IsPayload
<1>6. QED
  BY <1>1, <1>3, <1>4, <1>5

LEMMA PayloadsInit == Init => Payloads
  BY PayloadAssumption DEF PayloadAssumption, Init, Payloads

\* A step that keeps what is archived, while days pass and quarters are released.
LEMMA PayloadsLast ==
  ASSUME Payloads, stored' = stored, day' \in Int, day <= day', day' <= MaxDay,
         released' \in Nat, released <= released', QuarterEnd(released' - 1) < day'
  PROVE  Payloads'
<1>1. \A item \in DOMAIN stored : IsPayload(stored[item].until, released', day')
  BY PayloadStays DEF Payloads
<1>2. FirstDay <= day'
  BY PayloadAssumption DEF PayloadAssumption, Payloads
<1>3. \A item \in DOMAIN stored' : IsPayload(stored'[item].until, released', day')
  BY <1>1
<1>4. QED
  BY <1>2, <1>3 DEF Payloads, IsPayload, IsPublic, QuarterEnd

LEMMA PayloadsStay ==
  ASSUME Payloads, UNCHANGED <<day, released, stored>>
  PROVE  Payloads'
  BY DEF Payloads, IsPayload, IsPublic, QuarterEnd

LEMMA FetchKeepsPayloads ==
  ASSUME Payloads, NEW answer \in Answers, NEW header \in BOOLEAN, Fetch(answer, header)
  PROVE  Payloads'
<1>1. /\ day' = day /\ released' = released
      /\ stored' = IF Keeps(script, answer)
                   THEN [i \in DOMAIN stored \cup {NextItem} |-> IF i = NextItem THEN Row(answer) ELSE stored[i]]
                   ELSE stored
  BY DEF Fetch
<1>2. CASE ~Keeps(script, answer)
  BY <1>1, <1>2, PayloadsStay
<1>3. CASE Keeps(script, answer)
  <2>1. Row(answer).until \in {0, released}
    BY DEF Row
  <2>2. IsPayload(Row(answer).until, released, day)
    BY <2>1, FetchedPayload
  <2>3. ASSUME NEW item \in DOMAIN stored' PROVE IsPayload(stored'[item].until, released, day)
    <3>1. CASE item = NextItem
      BY <1>1, <1>3, <2>2, <3>1
    <3>2. CASE item # NextItem
      <4>1. item \in DOMAIN stored /\ stored'[item] = stored[item]
        BY <1>1, <1>3, <3>2
      <4>2. QED
        BY <4>1 DEF Payloads
    <3>3. QED
      BY <3>1, <3>2
  <2>4. \A item \in DOMAIN stored' : IsPayload(stored'[item].until, released', day')
    BY <1>1, <2>3
  <2>5. QED
    BY <1>1, <2>4 DEF Payloads, IsPayload, IsPublic, QuarterEnd
<1>4. QED
  BY <1>2, <1>3

LEMMA NewDayKeepsPayloads ==
  ASSUME Payloads, NewDay
  PROVE  Payloads'
<1>1. day' = Min({day + 1, MaxDay}) /\ released' = released /\ stored' = stored
  BY DEF NewDay
<1>2. day \in Int /\ MaxDay \in Int /\ day <= MaxDay /\ QuarterEnd(released - 1) < day
      /\ released \in Nat
  BY PayloadAssumption DEF PayloadAssumption, Payloads
<1>3. day' \in {day + 1, MaxDay} /\ \A x \in {day + 1, MaxDay} : day' <= x
  <2> DEFINE S == {day + 1, MaxDay}
  <2>1. \E x \in S : \A y \in S : x <= y
    BY <1>2
  <2> HIDE DEF S
  <2>2. Min(S) \in S /\ \A y \in S : Min(S) <= y
    BY <2>1 DEF Min
  <2>3. QED
    BY <1>1, <2>2 DEF S
<1>4. day' \in Int /\ day <= day' /\ day' <= MaxDay
  BY <1>2, <1>3
<1>5. QuarterEnd(released - 1) \in Int
  BY <1>2, QuarterEndIsInt
<1>6. QuarterEnd(released' - 1) < day'
  BY <1>1, <1>2, <1>4, <1>5
<1>7. QED
  BY <1>1, <1>2, <1>4, <1>6, PayloadsLast

LEMMA ReleaseKeepsPayloads ==
  ASSUME Payloads, Release
  PROVE  Payloads'
<1>1. /\ day' = day /\ stored' = stored /\ released' = released + 1 /\ QuarterEnd(released) < day
  BY DEF Release
<1>2. day \in Int /\ day <= MaxDay /\ released \in Nat /\ MaxDay \in Int
  BY PayloadAssumption DEF PayloadAssumption, Payloads
<1>3. released' \in Nat /\ released' - 1 = released /\ released <= released'
  BY <1>1, <1>2
<1>4. QED
  BY <1>1, <1>2, <1>3, PayloadsLast

\* Whatever is fetched and wherever a run is cut off, each payload that is archived
\* is one the upstream had by now, and shows a quarter that is public by now.
LEMMA PayloadsHold == Spec => []Payloads
<1>1. Payloads /\ [Next]_vars => Payloads'
  <2> SUFFICES ASSUME Payloads, [Next]_vars
               PROVE  Payloads'
    OBVIOUS
  <2>1. CASE \E sc \in Scripts : Start(sc)
    BY <2>1, PayloadsStay DEF Start
  <2>2. CASE \E answer \in Answers, header \in BOOLEAN : Fetch(answer, header)
    BY <2>2, FetchKeepsPayloads
  <2>3. CASE OtherCall
    BY <2>3, PayloadsStay DEF OtherCall
  <2>4. CASE Stop
    BY <2>4, PayloadsStay DEF Stop
  <2>5. CASE NewDay
    BY <2>5, NewDayKeepsPayloads
  <2>6. CASE Release
    BY <2>6, ReleaseKeepsPayloads
  <2>7. CASE UNCHANGED vars
    BY <2>7, PayloadsStay DEF vars
  <2>8. QED
    BY <2>1, <2>2, <2>3, <2>4, <2>5, <2>6, <2>7 DEF Next
<1>2. QED
  BY PayloadsInit, <1>1, PTL DEF Spec

-----------------------------------------------------------------------------
(* What the readers make of the statements.                                *)

PublicBy(t) == Public(Held, t)

\* A latest quarter: none, or one that is public.
Usable(L, t) == L = -1 \/ (L \in Nat /\ IsPublic(L, t))

LEMMA HeldQuarters ==
  ASSUME NEW s \in Symbols, NEW k \in Statements
  PROVE  \A q \in Held[s][k] : q \in 0..released
  BY DEF Held

LEMMA PublicQuarters ==
  ASSUME NEW t, NEW s \in Symbols, NEW k \in Statements
  PROVE  PublicBy(t)[s][k] = {q \in Held[s][k] : IsPublic(q, t)}
  BY DEF PublicBy, Public

\* A finite set of quarters has a newest one.
LEMMA NewestIsThere ==
  ASSUME NEW n \in Nat, NEW quarters, \A q \in quarters : q \in 0..n, quarters # {}
  PROVE  Newest(quarters) \in quarters
<1> DEFINE later(x) == {q \in quarters : q > x}
           left == {n - q : q \in quarters}
<1>1. \A q \in quarters : n - q \in Nat
  OBVIOUS
<1>2. PICK some : some \in quarters
  OBVIOUS
<1>3. left \in SUBSET Nat /\ left # {}
  BY <1>1, <1>2
<1>4. \E x \in left : \A y \in left : ~(y < x)
  <2> HIDE DEF left
  <2>1. IsWellFoundedOn(OpToRel(<, Nat), Nat)
    BY NatLessThanWellFounded
  <2>2. PICK x \in left : \A y \in left : ~(<<y, x>> \in OpToRel(<, Nat))
    BY <1>3, <2>1, WFMin
  <2>3. \A y \in left : ~(y < x)
    BY <1>3, <2>2 DEF OpToRel
  <2>4. QED
    BY <2>3
<1>5. PICK q \in quarters : \A y \in left : ~(y < n - q)
  BY <1>4
<1>6. \A r \in quarters : q >= r
  <2> SUFFICES ASSUME NEW r \in quarters PROVE q >= r
    OBVIOUS
  <2>1. n - r \in left
    OBVIOUS
  <2>2. ~(n - r < n - q)
    BY <1>5, <2>1
  <2>3. q \in 0..n /\ r \in 0..n
    OBVIOUS
  <2>4. QED
    BY <2>2, <2>3
<1>7. Max(quarters) \in quarters
  BY <1>6 DEF Max
<1>8. QED
  BY <1>7 DEF Newest

\* The latest quarter of public ones is usable, and the private ones have no part in it.
LEMMA NewestIsUsable ==
  ASSUME released \in Nat, NEW t, NEW quarters,
         \A q \in quarters : q \in 0..released /\ IsPublic(q, t)
  PROVE  Usable(Newest(quarters), t)
<1>1. CASE quarters = {}
  BY <1>1 DEF Newest, Usable
<1>2. CASE quarters # {}
  <2>1. Newest(quarters) \in quarters
    BY <1>2, NewestIsThere
  <2>2. Newest(quarters) \in 0..released /\ IsPublic(Newest(quarters), t)
    BY <2>1
  <2>3. QED
    BY <2>2 DEF Usable
<1>3. QED
  BY <1>1, <1>2

LEMMA LatestIsUsable ==
  ASSUME released \in Nat, NEW t, NEW s \in Symbols
  PROVE  /\ Usable(Latest(Held, s, t), t)
         /\ Latest(PublicBy(t), s, t) = Latest(Held, s, t)
<1> DEFINE quarters == {q \in QuartersOf(Held, s) : IsPublic(q, t)}
           those == {q \in QuartersOf(PublicBy(t), s) : IsPublic(q, t)}
<1>1. \A q \in quarters : q \in 0..released /\ IsPublic(q, t)
  BY HeldQuarters DEF QuartersOf
<1>2. those = quarters
  BY PublicQuarters DEF QuartersOf
<1>3. Latest(Held, s, t) = Newest(quarters) /\ Latest(PublicBy(t), s, t) = Newest(those)
  BY DEF Latest
<1> HIDE DEF quarters, those
<1>4. QED
  BY <1>1, <1>2, <1>3, NewestIsUsable

LEMMA LatestOfIsUsable ==
  ASSUME released \in Nat, NEW t, NEW s \in Symbols, NEW k \in Statements
  PROVE  /\ Usable(LatestOf(Held, s, k, t), t)
         /\ LatestOf(PublicBy(t), s, k, t) = LatestOf(Held, s, k, t)
<1> DEFINE quarters == {q \in Held[s][k] : IsPublic(q, t)}
           those == {q \in PublicBy(t)[s][k] : IsPublic(q, t)}
<1>1. \A q \in quarters : q \in 0..released /\ IsPublic(q, t)
  BY HeldQuarters
<1>2. those = quarters
  BY PublicQuarters
<1>3. LatestOf(Held, s, k, t) = Newest(quarters) /\ LatestOf(PublicBy(t), s, k, t) = Newest(those)
  BY DEF LatestOf
<1> HIDE DEF quarters, those
<1>4. QED
  BY <1>1, <1>2, <1>3, NewestIsUsable

\* A figure up to a usable quarter is one of a public statement, or there is none.
LEMMA SameFigure ==
  ASSUME NEW t \in Int, NEW s \in Symbols, NEW k \in Statements, NEW f,
         NEW L, Usable(L, t), NEW i \in Nat
  PROVE  Figure(PublicBy(t), s, k, f, L - i) = Figure(Held, s, k, f, L - i)
<1>1. L \in Int /\ L - i \in Int
  BY DEF Usable
<1>2. L - i \in Held[s][k] => IsPublic(L - i, t)
  <2> SUFFICES ASSUME L - i \in Held[s][k] PROVE IsPublic(L - i, t)
    OBVIOUS
  <2>1. L - i >= 0
    BY <1>1, HeldQuarters
  <2>2. L \in Nat /\ IsPublic(L, t)
    BY <1>1, <2>1 DEF Usable
  <2>3. /\ QuarterDays \in Nat /\ Lag \in Nat /\ QuarterEnd(L) + Lag <= t
        /\ QuarterEnd(L) = (L + 1) * QuarterDays /\ QuarterEnd(L - i) = (L - i + 1) * QuarterDays
    BY <2>2, PayloadAssumption, ReadersAssumption DEF PayloadAssumption, ReadersAssumption, IsPublic, QuarterEnd
  <2>4. (L + 1) * QuarterDays = (L - i + 1) * QuarterDays + i * QuarterDays
    BY <1>1, <2>3
  <2>5. i * QuarterDays \in Nat /\ (L - i + 1) * QuarterDays \in Int
    BY <1>1, <2>3
  <2>6. QuarterEnd(L - i) + Lag <= t
    <3> DEFINE x == (L - i + 1) * QuarterDays
               y == i * QuarterDays
               z == (L + 1) * QuarterDays
    <3>1. x \in Int /\ y \in Nat /\ z = x + y /\ z + Lag <= t
      BY <2>3, <2>4, <2>5
    <3> HIDE DEF x, y, z
    <3>2. x + Lag <= t
      BY <2>3, <3>1
    <3>3. QED
      BY <2>3, <3>2 DEF x
  <2>7. QED
    BY <2>6 DEF IsPublic
<1>3. L - i \in PublicBy(t)[s][k] <=> L - i \in Held[s][k]
  BY <1>2, PublicQuarters
<1>4. QED
  BY <1>3 DEF Figure

LEMMA SameTtm ==
  ASSUME NEW t \in Int, NEW s \in Symbols, NEW k \in Statements, NEW f, NEW L, Usable(L, t)
  PROVE  TtmTo(PublicBy(t), s, k, f, L) = TtmTo(Held, s, k, f, L)
<1>1. \A i \in 0..3 : Figure(PublicBy(t), s, k, f, L - i) = Figure(Held, s, k, f, L - i)
  BY SameFigure
<1>2. QED
  BY <1>1 DEF TtmTo

LEMMA SameYoy ==
  ASSUME released \in Nat, NEW t \in Int, NEW s \in Symbols, NEW f, NEW bound
  PROVE  Yoy(PublicBy(t), s, t, f, bound) = Yoy(Held, s, t, f, bound)
<1> DEFINE L == Latest(Held, s, t)
<1>1. Usable(L, t) /\ Latest(PublicBy(t), s, t) = L
  BY LatestIsUsable
<1>2. Income \in Statements /\ L - 0 = L
  BY <1>1 DEF Statements, Usable
<1>3. Figure(PublicBy(t), s, Income, f, L) = Figure(Held, s, Income, f, L)
  <2>1. Figure(PublicBy(t), s, Income, f, L - 0) = Figure(Held, s, Income, f, L - 0)
    BY <1>1, <1>2, SameFigure
  <2>2. QED
    BY <1>2, <2>1
<1>4. Figure(PublicBy(t), s, Income, f, L - 4) = Figure(Held, s, Income, f, L - 4)
  BY <1>1, <1>2, SameFigure
<1> HIDE DEF L
<1>5. Yoy(Held, s, t, f, bound) =
        LET cur  == Figure(Held, s, Income, f, L)
            base == Figure(Held, s, Income, f, L - 4)
            d    == Magnitude(base)
        IN  IF L < 0 \/ cur = None \/ base = None THEN None
            ELSE IF d = 0 THEN None
            ELSE <<Max({-bound * d, Min({bound * d, cur - base})}), d>>
  BY DEF Yoy, L
<1>6. QED
  BY <1>1, <1>3, <1>4, <1>5 DEF Yoy

LEMMA WeeksAreNumbers ==
  ASSUME NEW s \in Symbols, NEW w \in WeeklyBars(s)
  PROVE  w \in Int
BY ReadersAssumption DEF ReadersAssumption, WeeklyBars

\* A bank is known by a balance that shows a public quarter.
LEMMA SameBank ==
  ASSUME Payloads, NEW s \in Symbols
  PROVE  IsBank(PublicBy(day), s) = IsBank(Held, s)
<1> DEFINE item == <<"fundamentals", s, Balance>>
           until == stored[item].until
<1>1. Balance \in Statements
  BY DEF Statements
<1>2. PublicBy(day)[s][Balance] = {q \in Held[s][Balance] : IsPublic(q, day)}
  BY <1>1, PublicQuarters
<1>3. ASSUME Held[s][Balance] # {} PROVE PublicBy(day)[s][Balance] # {}
  <2>1. Held[s][Balance] = IF item \in DOMAIN stored
            THEN {q \in 0..released : q < until /\ q >= until - PayloadQuarters} ELSE {}
    BY <1>1 DEF Held
  <2> HIDE DEF item, until
  <2>2. item \in DOMAIN stored
    BY <1>3, <2>1
  <2>3. IsPayload(until, released, day) /\ released \in Nat
    BY <2>2 DEF Payloads, until
  <2>4. PICK q \in Held[s][Balance] : TRUE
    BY <1>3
  <2>5. q \in 0..released /\ q < until /\ until \in 0..released
    BY <2>1, <2>2, <2>3 DEF IsPayload
  <2>6. until # 0
    BY <2>5
  <2>7. PICK p \in 0..(until - 1) : p >= until - PayloadQuarters /\ IsPublic(p, day)
    BY <2>3, <2>6 DEF IsPayload
  <2>8. p \in 0..released /\ p < until
    BY <2>3, <2>5, <2>7
  <2>9. p \in Held[s][Balance]
    BY <2>1, <2>2, <2>7, <2>8
  <2>10. QED
    BY <1>2, <2>7, <2>9
<1>4. QED
  BY <1>2, <1>3 DEF IsBank

LEMMA SameCompany ==
  ASSUME Payloads, NEW s \in Symbols
  PROVE  Company(PublicBy(day), s, day) = Company(Held, s, day)
<1> DEFINE t == day
           L == Latest(Held, s, t)
<1>1. t \in Int /\ released \in Nat
  BY DEF Payloads
<1>2. Usable(L, t) /\ Latest(PublicBy(t), s, t) = L /\ L \in Int
  BY <1>1, LatestIsUsable DEF Usable
<1>3. {Income, Balance, CashFlow} \subseteq Statements
  BY DEF Statements
<1>4. IsBank(PublicBy(t), s) = IsBank(Held, s)
  BY SameBank
<1>5. /\ Ttm(PublicBy(t), s, t, Income, "ni") = Ttm(Held, s, t, Income, "ni")
      /\ Ttm(PublicBy(t), s, t, CashFlow, "ocf") = Ttm(Held, s, t, CashFlow, "ocf")
  BY <1>1, <1>2, <1>3, SameTtm DEF Ttm
<1>6. \A f : Figure(PublicBy(t), s, Balance, f, L) = Figure(Held, s, Balance, f, L)
  <2> SUFFICES ASSUME NEW f PROVE Figure(PublicBy(t), s, Balance, f, L) = Figure(Held, s, Balance, f, L)
    OBVIOUS
  <2>1. L - 0 = L
    BY <1>2
  <2>2. Figure(PublicBy(t), s, Balance, f, L - 0) = Figure(Held, s, Balance, f, L - 0)
    BY <1>1, <1>2, <1>3, SameFigure
  <2>3. QED
    BY <2>1, <2>2
<1>7. \A f, bound : Yoy(PublicBy(t), s, t, f, bound) = Yoy(Held, s, t, f, bound)
  BY <1>1, SameYoy
<1>8. \A ni, ocf, equity, assets :
        IsSound(PublicBy(t), s, ni, ocf, equity, assets) = IsSound(Held, s, ni, ocf, equity, assets)
  BY <1>4 DEF IsSound
<1> HIDE DEF t, L
<1>9. QED
  BY <1>2, <1>4, <1>5, <1>6, <1>7, <1>8 DEF Company, t, L

\* The screener sees the companies only.
LEMMA SameScreener ==
  ASSUME Payloads
  PROVE  Screener(Held, day) = Screener(PublicBy(day), day)
<1>1. \A s \in Listed : Company(PublicBy(day), s, day) = Company(Held, s, day)
  BY SameCompany, ReadersAssumption DEF ReadersAssumption
<1>2. {Company(PublicBy(day), s, day) : s \in Listed} = {Company(Held, s, day) : s \in Listed}
  BY <1>1
<1>3. QED
  BY <1>2 DEF Screener

LEMMA SameWatchlist ==
  ASSUME Payloads
  PROVE  Watchlist(Held, day) = Watchlist(PublicBy(day), day)
<1>1. day \in Int /\ released \in Nat
  BY DEF Payloads
<1>2. Income \in Statements /\ CashFlow \in Statements
  BY DEF Statements
<1>3. ASSUME NEW s \in Watched PROVE Hygiene(PublicBy(day), s, day) = Hygiene(Held, s, day)
  <2>1. s \in Symbols
    BY ReadersAssumption DEF ReadersAssumption
  <2>2. /\ LatestOf(PublicBy(day), s, Income, day) = LatestOf(Held, s, Income, day)
        /\ LatestOf(PublicBy(day), s, CashFlow, day) = LatestOf(Held, s, CashFlow, day)
        /\ Usable(LatestOf(Held, s, Income, day), day)
        /\ Usable(LatestOf(Held, s, CashFlow, day), day)
    BY <1>1, <1>2, <2>1, LatestOfIsUsable
  <2>3. /\ TtmTo(PublicBy(day), s, Income, "ni", LatestOf(Held, s, Income, day))
             = TtmTo(Held, s, Income, "ni", LatestOf(Held, s, Income, day))
        /\ TtmTo(PublicBy(day), s, CashFlow, "ocf", LatestOf(Held, s, CashFlow, day))
             = TtmTo(Held, s, CashFlow, "ocf", LatestOf(Held, s, CashFlow, day))
    BY <1>1, <1>2, <2>1, <2>2, SameTtm
  <2>4. QED
    BY <2>2, <2>3 DEF Hygiene
<1>4. QED
  BY <1>3 DEF Watchlist

LEMMA SameStudy ==
  ASSUME Payloads, NEW universe, universe \subseteq Symbols, NEW t \in Int
  PROVE  Study(universe, Held, t) = Study(universe, PublicBy(t), t)
<1>1. released \in Nat
  BY DEF Payloads
<1>2. Observed(universe, PublicBy(t), t) = Observed(universe, Held, t)
  BY <1>1, LatestIsUsable DEF Observed
<1>3. \A s \in Observed(universe, Held, t) : s \in Symbols
  BY DEF Observed
<1>4. ASSUME NEW s \in Observed(universe, Held, t) PROVE Factors(PublicBy(t), s, t) = Factors(Held, s, t)
  <2> DEFINE L == Latest(Held, s, t)
  <2>1. s \in Symbols /\ Usable(L, t) /\ Latest(PublicBy(t), s, t) = L /\ L \in Int
    BY <1>1, <1>3, LatestIsUsable DEF Usable
  <2>2. {Income, Balance, CashFlow} \subseteq Statements
    BY DEF Statements
  <2>3. /\ Ttm(PublicBy(t), s, t, Income, "ni") = Ttm(Held, s, t, Income, "ni")
        /\ Ttm(PublicBy(t), s, t, CashFlow, "ocf") = Ttm(Held, s, t, CashFlow, "ocf")
    BY <2>1, <2>2, SameTtm DEF Ttm
  <2>4. \A f : Figure(PublicBy(t), s, Balance, f, L) = Figure(Held, s, Balance, f, L)
    <3> SUFFICES ASSUME NEW f PROVE Figure(PublicBy(t), s, Balance, f, L) = Figure(Held, s, Balance, f, L)
      OBVIOUS
    <3>1. L - 0 = L
      BY <2>1
    <3>2. Figure(PublicBy(t), s, Balance, f, L - 0) = Figure(Held, s, Balance, f, L - 0)
      BY <2>1, <2>2, SameFigure
    <3>3. QED
      BY <3>1, <3>2
  <2>5. \A f, bound : Yoy(PublicBy(t), s, t, f, bound) = Yoy(Held, s, t, f, bound)
    BY <1>1, <2>1, SameYoy
  <2> HIDE DEF L
  <2>6. QED
    BY <2>1, <2>3, <2>4, <2>5 DEF Factors, L
<1>5. {Factors(PublicBy(t), s, t) : s \in Observed(universe, PublicBy(t), t)}
        = {Factors(Held, s, t) : s \in Observed(universe, Held, t)}
  BY <1>2, <1>4
<1> DEFINE concluded(all) ==
             LET fifths(f, h) == LET rows == Having({r \in all : Forward(r.symbol, t, h) # None}, {f})
                                 IN  {<<r.symbol, f, h, Quintile(rows, r, f)>> : r \in rows}
                 qv == QualityValue(all)
             IN  [factors   |-> all, qv |-> qv, combined |-> Combined(qv),
                  quintiles |-> UNION {fifths(f, h) : f \in {"roe", "roa", "ep", "bp", "cfp", "niYoy", "flow"}, h \in Horizons}]
<1>6. \A held : Study(universe, held, t) = concluded({Factors(held, s, t) : s \in Observed(universe, held, t)})
  BY DEF Study
<1> HIDE DEF concluded
<1>7. QED
  BY <1>5, <1>6

\* Whatever is asked for, fetched again or cut off, whenever the upstream releases its
\* quarters, and whatever the statements say: the screener and the watchlist of today,
\* and the studies of every past date about the names they have, conclude the same
\* from the public statements alone (route.ts:282-340, watchlist.ts,
\* phase0i.ts:296-345, phase0j.ts).
THEOREM OnlyPublicStatementsAlways == Spec => []OnlyPublicStatements
<1>1. Payloads => OnlyPublicStatements
  <2> SUFFICES ASSUME Payloads PROVE OnlyPublicStatements
    OBVIOUS
  <2> DEFINE universe == StudyUniverse(Held)
  <2>1. universe \subseteq Symbols
    BY DEF StudyUniverse
  <2>2. \A t \in Rebalance(universe) : t \in Int
    BY <2>1, WeeksAreNumbers DEF Rebalance
  <2> HIDE DEF universe
  <2>3. \A t \in Rebalance(universe) : Study(universe, Held, t) = Study(universe, Public(Held, t), t)
    BY <2>1, <2>2, SameStudy DEF PublicBy
  <2>4. QED
    BY <2>3, SameScreener, SameWatchlist DEF OnlyPublicStatements, PublicBy, universe
<1>2. QED
  BY <1>1, PayloadsHold, PTL
=============================================================================
