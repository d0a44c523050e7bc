------------------------- MODULE RequestBudgetProofs -------------------------
(***************************************************************************)
(* Proofs about RequestBudget, for every set of callers, budget, reserve    *)
(* and bound: the state keeps its type, the counter is exact, no day grants *)
(* more than its ceilings, every counter expires, and the whole implements  *)
(* the atomic quota of Quota.                                              *)
(***************************************************************************)
EXTENDS RequestBudget, FiniteSetTheorems, TLAPS

\* The units of day d taken by calls of kind k: returned, or bound to be
\* returned unless their caller fails.
UnitsTaken(d, k) == granted[d][k] + Cardinality(Promised(d, k))

\* The ceilings hold of the promised reservations too: a reservation is decided
\* by the reply to its INCR, long before it is returned.
TakenWithinCeilings ==
  \A d \in Days :
    /\ UnitsTaken(d, "normal") + UnitsTaken(d, "reserve") <= Budget
    /\ UnitsTaken(d, "normal") > 0 => UnitsTaken(d, "normal") <= Budget - Reserve

IInv == TypeOK /\ CountExact /\ TakenWithinCeilings

-----------------------------------------------------------------------------
(* Counting callers.                                                       *)

\* The sets of callers counted by the invariant are finite.
LEMMA CallerSetsFinite ==
  ASSUME NEW d, NEW k
  PROVE  /\ IsFiniteSet(Counted(d))
         /\ IsFiniteSet(Promised(d, k))
         /\ Cardinality(Counted(d)) \in Nat
         /\ Cardinality(Promised(d, k)) \in Nat
<1>1. Counted(d) \subseteq Callers /\ Promised(d, k) \subseteq Callers
  BY DEF Counted, Promised
<1>2. IsFiniteSet(Counted(d)) /\ IsFiniteSet(Promised(d, k))
  BY <1>1, BudgetAssumption, FS_Subset DEF BudgetAssumption
<1> QED
  BY <1>2, FS_CardinalityType

\* The same of the sets after a step.
LEMMA CallerSetsFinitePrime ==
  ASSUME NEW d, NEW k
  PROVE  /\ IsFiniteSet(Counted(d)')
         /\ IsFiniteSet(Promised(d, k)')
         /\ Cardinality(Counted(d)') \in Nat
         /\ Cardinality(Promised(d, k)') \in Nat
<1>1. Counted(d)' \subseteq Callers /\ Promised(d, k)' \subseteq Callers
  BY DEF Counted, Promised
<1>2. IsFiniteSet(Counted(d)') /\ IsFiniteSet(Promised(d, k)')
  BY <1>1, BudgetAssumption, FS_Subset DEF BudgetAssumption
<1> QED
  BY <1>2, FS_CardinalityType

\* The promised units of a day are distinct counted callers.
LEMMA PromisedAreCounted ==
  ASSUME NEW d
  PROVE  Cardinality(Promised(d, "normal")) + Cardinality(Promised(d, "reserve"))
           <= Cardinality(Counted(d))
<1> DEFINE N == Promised(d, "normal")
           R == Promised(d, "reserve")
<1>1. IsFiniteSet(N) /\ IsFiniteSet(R) /\ IsFiniteSet(Counted(d))
  BY CallerSetsFinite
<1>2. N \cap R = {}
  BY DEF Promised
<1>3. N \cup R \subseteq Counted(d)
  BY DEF Promised, Counted
<1>4. IsFiniteSet(N \cup R) /\ Cardinality(N \cup R) = Cardinality(N) + Cardinality(R)
  <2>1. /\ IsFiniteSet(N \cup R)
        /\ Cardinality(N \cup R) = Cardinality(N) + Cardinality(R) - Cardinality(N \cap R)
    BY <1>1, FS_Union
  <2>2. Cardinality(N \cap R) = 0
    BY <1>2, FS_EmptySet
  <2>3. Cardinality(N) \in Nat /\ Cardinality(R) \in Nat
    BY <1>1, FS_CardinalityType
  <2> HIDE DEF N, R
  <2> QED
    BY <2>1, <2>2, <2>3
<1>5. Cardinality(N \cup R) <= Cardinality(Counted(d))
  BY <1>1, <1>3, FS_Subset
<1> QED
  BY <1>4, <1>5

-----------------------------------------------------------------------------
(* Each action preserves the invariant.                                    *)

LEMMA InitIInv == Init => IInv
<1> SUFFICES ASSUME Init PROVE IInv
  OBVIOUS
<1>1. TypeOK
  BY BudgetAssumption DEF BudgetAssumption, Init, TypeOK, Days, Kinds, PCs
<1>2. ASSUME NEW d \in Days, NEW k
      PROVE  Counted(d) = {} /\ Promised(d, k) = {}
  BY DEF Init, Counted, Promised
<1>3. Cardinality({}) = 0
  BY FS_EmptySet
<1>4. CountExact
  <2> SUFFICES ASSUME NEW d \in Days
               PROVE  count[d] = Granted(d) + Cardinality(Counted(d)) + lost[d]
    BY DEF CountExact
  <2>1. Cardinality(Counted(d)) = 0
    BY <1>2, <1>3
  <2> QED
    BY <2>1 DEF Init, Granted, Kinds
<1>5. TakenWithinCeilings
  <2> SUFFICES ASSUME NEW d \in Days
               PROVE  /\ UnitsTaken(d, "normal") + UnitsTaken(d, "reserve") <= Budget
                      /\ UnitsTaken(d, "normal") > 0 =>
                           UnitsTaken(d, "normal") <= Budget - Reserve
    BY DEF TakenWithinCeilings
  <2>1. Cardinality(Promised(d, "normal")) = 0 /\ Cardinality(Promised(d, "reserve")) = 0
    BY <1>2, <1>3
  <2> QED
    BY <2>1, BudgetAssumption DEF BudgetAssumption, Init, UnitsTaken, Kinds
<1> QED
  BY <1>1, <1>4, <1>5 DEF IInv

\* Steps that neither move a counter nor settle a reservation.
LEMMA CountersUnchanged ==
  ASSUME IInv, TypeOK', UNCHANGED <<count, granted, lost>>,
         \A d \in Days : /\ Counted(d)' = Counted(d)
                         /\ \A k \in Kinds : Promised(d, k)' = Promised(d, k)
  PROVE  IInv'
<1>1. CountExact'
  BY DEF IInv, CountExact, Granted
<1>2. TakenWithinCeilings'
  BY DEF IInv, TakenWithinCeilings, UnitsTaken, Kinds
<1> QED
  BY <1>1, <1>2 DEF IInv

LEMMA CallStep == ASSUME IInv, NEW c \in Callers, Call(c) PROVE IInv'
<1>1. TypeOK'
  BY DEF IInv, TypeOK, Call, PCs
<1>2. ASSUME NEW d \in Days
      PROVE  Counted(d)' = Counted(d) /\ \A k \in Kinds : Promised(d, k)' = Promised(d, k)
  BY DEF IInv, TypeOK, Call, Counted, Promised, Breached
<1> QED
  BY <1>1, <1>2, CountersUnchanged DEF Call

LEMMA ExpireStep == ASSUME IInv, NEW c \in Callers, Expire(c) PROVE IInv'
<1>1. TypeOK'
  BY DEF IInv, TypeOK, Expire, WithTtl, Goto, PCs
<1>2. ASSUME NEW d \in Days
      PROVE  Counted(d)' = Counted(d) /\ \A k \in Kinds : Promised(d, k)' = Promised(d, k)
  BY DEF IInv, TypeOK, Expire, Goto, Counted, Promised, Breached
<1> QED
  BY <1>1, <1>2, CountersUnchanged DEF Expire

\* What an INCR changes: its caller is counted on its day, and promised there if the
\* reply is within its ceiling.
LEMMA IncrEffect ==
  ASSUME IInv, NEW c \in Callers, Incr(c),
         NEW d0 \in Days, d0 = day[c], NEW k0 \in Kinds, k0 = kind[c]
  PROVE  /\ \A d \in Days : d # d0 => /\ Counted(d)' = Counted(d)
                                      /\ \A k \in Kinds : Promised(d, k)' = Promised(d, k)
                                      /\ count'[d] = count[d]
         /\ count'[d0] = count[d0] + 1
         /\ Cardinality(Counted(d0)') = Cardinality(Counted(d0)) + 1
         /\ \A k \in Kinds : k # k0 =>
              Cardinality(Promised(d0, k)') = Cardinality(Promised(d0, k))
         /\ Cardinality(Promised(d0, k0)') = IF Reply(c) <= Ceiling(k0)
                                               THEN Cardinality(Promised(d0, k0)) + 1
                                               ELSE Cardinality(Promised(d0, k0))
<1> USE DEF IInv
<1>a. /\ pc[c] = "incr" /\ pc'[c] \in {"expire", "endpoint"} /\ seen'[c] = Reply(c)
      /\ \A e \in Callers : e # c => pc'[e] = pc[e] /\ seen'[e] = seen[e]
      /\ day' = day /\ kind' = kind
  BY DEF TypeOK, Incr, Goto
<1>2. ASSUME NEW d \in Days, d # d0
      PROVE  /\ Counted(d)' = Counted(d)
             /\ \A k \in Kinds : Promised(d, k)' = Promised(d, k)
             /\ count'[d] = count[d]
  BY <1>2, <1>a DEF TypeOK, Incr, Counted, Promised, Breached
<1>3. c \notin Counted(d0) /\ \A k \in Kinds : c \notin Promised(d0, k)
  BY <1>a DEF Counted, Promised
<1>4. Counted(d0)' = Counted(d0) \cup {c} /\ count'[d0] = count[d0] + 1
  BY <1>a DEF TypeOK, Incr, Counted
<1>5. /\ \A k \in Kinds : k # k0 => Promised(d0, k)' = Promised(d0, k)
      /\ Promised(d0, k0)' = IF Reply(c) <= Ceiling(k0) THEN Promised(d0, k0) \cup {c}
                                                        ELSE Promised(d0, k0)
  <2>1. Breached(c)' <=> ~(Reply(c) <= Ceiling(k0))
    <3>1. Reply(c) \in Int /\ Ceiling(k0) \in Int
      BY BudgetAssumption DEF BudgetAssumption, TypeOK, Reply, Ceiling
    <3>2. Breached(c)' <=> Reply(c) > Ceiling(k0)
      BY <1>a DEF Breached, Ceiling
    <3> QED
      BY <3>1, <3>2
  <2>2. \A e \in Callers : e # c => (Breached(e)' <=> Breached(e))
    BY <1>a DEF Breached, Ceiling
  <2> HIDE DEF IInv
  <2> QED
    BY <2>1, <2>2, <1>a DEF Promised
<1>6. Cardinality(Counted(d0)') = Cardinality(Counted(d0)) + 1
  BY <1>3, <1>4, FS_AddElement, CallerSetsFinite
<1>7. /\ \A k \in Kinds : k # k0 => Cardinality(Promised(d0, k)') = Cardinality(Promised(d0, k))
      /\ Cardinality(Promised(d0, k0)') = IF Reply(c) <= Ceiling(k0)
                                            THEN Cardinality(Promised(d0, k0)) + 1
                                            ELSE Cardinality(Promised(d0, k0))
  <2>1. /\ IsFiniteSet(Promised(d0, k0))
        /\ Cardinality(Promised(d0, k0) \cup {c}) = Cardinality(Promised(d0, k0)) + 1
    BY <1>3, FS_AddElement, CallerSetsFinite
  <2> QED
    BY <1>5, <2>1
<1> QED
  BY <1>2, <1>4, <1>6, <1>7

LEMMA IncrStep ==
  ASSUME IInv, NEW c \in Callers, Incr(c),
         NEW d0 \in Days, d0 = day[c], NEW k0 \in Kinds, k0 = kind[c]
  PROVE  IInv'
<1> USE DEF IInv
<1>1. TypeOK'
  BY DEF TypeOK, Incr, Reply, Goto, PCs
<1>2. ASSUME NEW d \in Days, d # d0
      PROVE  /\ Counted(d)' = Counted(d)
             /\ \A k \in Kinds : Promised(d, k)' = Promised(d, k)
             /\ count'[d] = count[d]
  BY <1>2, IncrEffect
<1>4. count'[d0] = count[d0] + 1
  BY IncrEffect
<1>6. Cardinality(Counted(d0)') = Cardinality(Counted(d0)) + 1
  BY IncrEffect
<1>7. /\ \A k \in Kinds : k # k0 => Cardinality(Promised(d0, k)') = Cardinality(Promised(d0, k))
      /\ Cardinality(Promised(d0, k0)') = IF Reply(c) <= Ceiling(k0)
                                            THEN Cardinality(Promised(d0, k0)) + 1
                                            ELSE Cardinality(Promised(d0, k0))
  BY IncrEffect
<1>8. CountExact'
  <2> SUFFICES ASSUME NEW d \in Days
               PROVE  (count[d] = Granted(d) + Cardinality(Counted(d)) + lost[d])'
    BY DEF CountExact
  <2>0. granted' = granted /\ lost' = lost
    BY DEF Incr
  <2>1. CASE d # d0
    BY <2>0, <2>1, <1>2 DEF CountExact, Granted
  <2>2. CASE d = d0
    <3>1. Cardinality(Counted(d0)) \in Nat /\ Granted(d0) \in Nat /\ lost[d0] \in Nat
      <4>1. Granted(d0) \in Nat /\ lost[d0] \in Nat
        BY DEF TypeOK, Granted, Kinds
      <4> QED
        BY <4>1, CallerSetsFinite
    <3>2. count[d0] = Granted(d0) + Cardinality(Counted(d0)) + lost[d0]
      BY DEF CountExact
    <3>3. Granted(d0)' = Granted(d0)
      BY <2>0 DEF Granted
    <3>4. lost'[d0] = lost[d0]
      BY <2>0
    <3> QED
      BY <3>4, <2>2, <1>4, <1>6, <3>1, <3>2, <3>3
  <2> QED
    BY <2>1, <2>2
<1>9. TakenWithinCeilings'
  <2> SUFFICES ASSUME NEW d \in Days
               PROVE  (/\ UnitsTaken(d, "normal") + UnitsTaken(d, "reserve") <= Budget
                       /\ UnitsTaken(d, "normal") > 0 =>
                            UnitsTaken(d, "normal") <= Budget - Reserve)'
    BY DEF TakenWithinCeilings
  <2>0. granted' = granted
    BY DEF Incr
  <2>1. CASE d # d0
    BY <2>0, <2>1, <1>2 DEF TakenWithinCeilings, UnitsTaken, Kinds
  <2>2. CASE d = d0
    <3> DEFINE n  == Cardinality(Promised(d0, "normal"))
               r  == Cardinality(Promised(d0, "reserve"))
               gn == granted[d0]["normal"]
               gr == granted[d0]["reserve"]
    <3>1. n \in Nat /\ r \in Nat /\ gn \in Nat /\ gr \in Nat /\ lost[d0] \in Nat
          /\ Cardinality(Counted(d0)) \in Nat
      BY CallerSetsFinite DEF TypeOK, Kinds
    <3>2. n + r <= Cardinality(Counted(d0))
      BY PromisedAreCounted
    <3>3. Reply(c) = gn + gr + Cardinality(Counted(d0)) + lost[d0] + 1
      BY DEF CountExact, Granted, Reply
    <3>4. gn + gr + n + r + 1 <= Reply(c)
      <4> HIDE DEF n, r, gn, gr
      <4> QED
        BY <3>1, <3>2, <3>3
    <3>5. /\ gn + n + gr + r <= Budget
          /\ gn + n > 0 => gn + n <= Budget - Reserve
      BY <3>1 DEF TakenWithinCeilings, UnitsTaken
    <3>6. Reply(c) \in Nat
      BY DEF Reply, TypeOK
    <3>7. /\ UnitsTaken(d0, "normal")' = gn + Cardinality(Promised(d0, "normal")')
          /\ UnitsTaken(d0, "reserve")' = gr + Cardinality(Promised(d0, "reserve")')
      BY <2>0, <2>2 DEF UnitsTaken, Incr, TypeOK
    <3>8. CASE k0 = "normal"
      <4>1. /\ Cardinality(Promised(d0, "reserve")') = r
            /\ Cardinality(Promised(d0, "normal")') =
                 IF Reply(c) <= Budget - Reserve THEN n + 1 ELSE n
        BY <1>7, <3>8 DEF Ceiling, Kinds
      <4> HIDE DEF n, r, gn, gr
      <4> QED
        BY <2>2, <3>1, <3>4, <3>5, <3>6, <3>7, <4>1, BudgetAssumption DEF BudgetAssumption
    <3>9. CASE k0 = "reserve"
      <4>1. /\ Cardinality(Promised(d0, "normal")') = n
            /\ Cardinality(Promised(d0, "reserve")') =
                 IF Reply(c) <= Budget THEN r + 1 ELSE r
        BY <1>7, <3>9 DEF Ceiling, Kinds
      <4> HIDE DEF n, r, gn, gr
      <4> QED
        BY <2>2, <3>1, <3>4, <3>5, <3>6, <3>7, <4>1, BudgetAssumption DEF BudgetAssumption
    <3> QED
      BY <3>8, <3>9 DEF Kinds
  <2> QED
    BY <2>1, <2>2
<1> QED
  BY <1>1, <1>8, <1>9

\* A call that returns or throws leaves the sets of counted and promised callers.
LEMMA ReturnLeaves ==
  ASSUME TypeOK, NEW c \in Callers, Return(c), NEW d \in Days
  PROVE  /\ Counted(d)' = Counted(d) \ {c}
         /\ \A k \in Kinds : Promised(d, k)' = Promised(d, k) \ {c}
<1>1. /\ pc'[c] = "idle"
      /\ \A e \in Callers : e # c => /\ pc'[e] = pc[e] /\ seen'[e] = seen[e]
                                     /\ day'[e] = day[e] /\ kind'[e] = kind[e]
  BY DEF TypeOK, Return
<1>2. \A e \in Callers : e # c => (Breached(e)' <=> Breached(e))
  BY <1>1 DEF Breached, Ceiling
<1> QED
  BY <1>1, <1>2 DEF Counted, Promised

\* A return keeps the locals of the callers in their types.
LEMMA ReturnType ==
  ASSUME TypeOK, NEW c \in Callers, Return(c)
  PROVE  /\ pc' \in [Callers -> PCs] /\ day' \in [Callers -> Days]
         /\ kind' \in [Callers -> Kinds] /\ seen' \in [Callers -> Nat]
<1>1. "idle" \in PCs /\ 1 \in Days /\ "normal" \in Kinds /\ 0 \in Nat
  BY BudgetAssumption DEF BudgetAssumption, PCs, Days, Kinds
<1> QED
  BY <1>1 DEF TypeOK, Return

\* How many callers each set loses.
LEMMA ReturnCounts ==
  ASSUME TypeOK, NEW c \in Callers, Return(c), NEW d \in Days
  PROVE  /\ Cardinality(Counted(d)') = IF c \in Counted(d) THEN Cardinality(Counted(d)) - 1
                                                           ELSE Cardinality(Counted(d))
         /\ \A k \in Kinds :
              Cardinality(Promised(d, k)') = IF c \in Promised(d, k)
                                               THEN Cardinality(Promised(d, k)) - 1
                                               ELSE Cardinality(Promised(d, k))
<1>1. Cardinality(Counted(d) \ {c}) = IF c \in Counted(d) THEN Cardinality(Counted(d)) - 1
                                                          ELSE Cardinality(Counted(d))
  <2>1. IsFiniteSet(Counted(d))
    BY CallerSetsFinite
  <2> QED
    BY <2>1, FS_RemoveElement
<1>2. ASSUME NEW k \in Kinds
      PROVE  Cardinality(Promised(d, k) \ {c}) = IF c \in Promised(d, k)
                                                   THEN Cardinality(Promised(d, k)) - 1
                                                   ELSE Cardinality(Promised(d, k))
  <2>1. IsFiniteSet(Promised(d, k))
    BY CallerSetsFinite
  <2> QED
    BY <2>1, FS_RemoveElement
<1> QED
  BY <1>1, <1>2, ReturnLeaves

\* A call that throws takes nothing more than was taken before.
LEMMA ThrowKeepsCeilings ==
  ASSUME IInv, TypeOK', NEW c \in Callers, Return(c), granted' = granted
  PROVE  TakenWithinCeilings'
<1> SUFFICES ASSUME NEW d \in Days
             PROVE  (/\ UnitsTaken(d, "normal") + UnitsTaken(d, "reserve") <= Budget
                     /\ UnitsTaken(d, "normal") > 0 =>
                          UnitsTaken(d, "normal") <= Budget - Reserve)'
  BY DEF TakenWithinCeilings
<1> DEFINE n  == Cardinality(Promised(d, "normal"))
           r  == Cardinality(Promised(d, "reserve"))
           n1 == Cardinality(Promised(d, "normal")')
           r1 == Cardinality(Promised(d, "reserve")')
           gn == granted[d]["normal"]
           gr == granted[d]["reserve"]
<1>1. n \in Nat /\ r \in Nat /\ n1 \in Nat /\ r1 \in Nat
  BY CallerSetsFinite, CallerSetsFinitePrime
<1>2. gn \in Nat /\ gr \in Nat
  BY DEF IInv, TypeOK, Kinds
<1>3. (n1 = n \/ n1 = n - 1) /\ (r1 = r \/ r1 = r - 1)
  BY ReturnCounts DEF IInv, Kinds
<1>4. gn + n + (gr + r) <= Budget /\ (gn + n > 0 => gn + n <= Budget - Reserve)
  BY DEF IInv, TakenWithinCeilings, UnitsTaken
<1>5. gn + n1 + (gr + r1) <= Budget /\ (gn + n1 > 0 => gn + n1 <= Budget - Reserve)
  <2> HIDE DEF n, r, n1, r1, gn, gr
  <2> QED
    BY <1>1, <1>2, <1>3, <1>4, BudgetAssumption DEF BudgetAssumption
<1> QED
  BY <1>5 DEF UnitsTaken

LEMMA RollBackStep ==
  ASSUME IInv, NEW c \in Callers, RollBack(c), NEW d0 \in Days, d0 = day[c]
  PROVE  IInv'
<1>1. /\ c \in Counted(d0) /\ \A d \in Days : d # d0 => c \notin Counted(d)
      /\ Return(c) /\ granted' = granted /\ lost' = lost
      /\ count' = [count EXCEPT ![d0] = @ - 1]
  BY DEF RollBack, Undone, Counted
<1>2. \A d \in Days : count[d] = Granted(d) + Cardinality(Counted(d)) + lost[d]
  BY DEF IInv, CountExact
<1>3. \A d \in Days : Granted(d) \in Nat /\ lost[d] \in Nat /\ Granted(d)' = Granted(d)
  BY <1>1 DEF IInv, TypeOK, Granted, Kinds
<1>4. \A d \in Days : Cardinality(Counted(d)) \in Nat /\ Cardinality(Counted(d)') \in Nat
  BY CallerSetsFinite, CallerSetsFinitePrime
<1>5. ASSUME NEW d \in Days
      PROVE  Cardinality(Counted(d)') = IF d = d0 THEN Cardinality(Counted(d)) - 1
                                                  ELSE Cardinality(Counted(d))
  BY <1>1, ReturnCounts DEF IInv
<1>6. count[d0] - 1 \in Nat
  BY <1>2, <1>3, <1>4, <1>5
<1>7. TypeOK'
  <2>1. count' \in [Days -> Nat]
    BY <1>1, <1>6 DEF IInv, TypeOK
  <2> QED
    BY <1>1, <2>1, ReturnType DEF IInv, TypeOK, RollBack
<1>8. CountExact'
  <2> SUFFICES ASSUME NEW d \in Days
               PROVE  (count[d] = Granted(d) + Cardinality(Counted(d)) + lost[d])'
    BY DEF CountExact
  <2>1. count'[d] = IF d = d0 THEN count[d] - 1 ELSE count[d]
    BY <1>1 DEF IInv, TypeOK
  <2> QED
    BY <2>1, <1>1, <1>2, <1>3, <1>4, <1>5
<1> QED
  BY <1>1, <1>7, <1>8, ThrowKeepsCeilings DEF IInv

LEMMA FailStep ==
  ASSUME IInv, NEW c \in Callers, Fail(c), NEW d0 \in Days, d0 = day[c]
  PROVE  IInv'
<1>1. TypeOK'
  <2>1. count' \in [Days -> Nat] /\ lost' \in [Days -> Nat]
    <3>1. CASE UNCHANGED <<count, lost>>
      BY <3>1 DEF IInv, TypeOK
    <3>2. CASE count' = IF pc[c] = "incr" THEN [count EXCEPT ![d0] = @ + 1] ELSE count
      <4>1. count' \in [Days -> Nat]
        BY <3>2 DEF IInv, TypeOK
      <4>2. lost' \in [Days -> Nat]
        <5>1. lost' = lost \/ lost' = [lost EXCEPT ![d0] = @ + 1]
          BY DEF Fail
        <5>2. lost \in [Days -> Nat]
          BY DEF IInv, TypeOK
        <5> QED
          BY <5>1, <5>2
      <4> QED
        BY <4>1, <4>2
    <3> QED
      BY <3>1, <3>2 DEF Fail
  <2>2. Return(c) /\ UNCHANGED <<today, expires, endpointCount, granted>>
    BY DEF Fail
  <2>3. orphaned' \subseteq Days
    <3>1. orphaned' = orphaned \/ orphaned' = orphaned \cup {d0}
      BY DEF Fail
    <3> QED
      BY <3>1 DEF IInv, TypeOK
  <2> QED
    BY <2>1, <2>2, <2>3, ReturnType DEF IInv, TypeOK
<1>2. \A d \in Days : count[d] = Granted(d) + Cardinality(Counted(d)) + lost[d]
  BY DEF IInv, CountExact
<1>3. \A d \in Days : /\ Granted(d) \in Nat /\ lost[d] \in Nat
                      /\ Granted(d)' = Granted(d) /\ Cardinality(Counted(d)) \in Nat
  <2>1. \A d \in Days : Granted(d) \in Nat /\ lost[d] \in Nat /\ Granted(d)' = Granted(d)
    BY DEF IInv, TypeOK, Granted, Kinds, Fail
  <2> QED
    BY <2>1, CallerSetsFinite
<1>4. Return(c) /\ granted' = granted /\ pc[c] # "idle"
  BY DEF Fail
<1>5. CountExact'
  <2> SUFFICES ASSUME NEW d \in Days
               PROVE  (count[d] = Granted(d) + Cardinality(Counted(d)) + lost[d])'
    BY DEF CountExact
  <2>1. Cardinality(Counted(d)') = IF c \in Counted(d) THEN Cardinality(Counted(d)) - 1
                                                       ELSE Cardinality(Counted(d))
    BY <1>4, ReturnCounts DEF IInv
  <2>2. c \in Counted(d) <=> (pc[c] # "incr" /\ d = d0)
    BY <1>4 DEF IInv, TypeOK, Counted, PCs
  <2>3. CASE pc[c] = "incr" /\ count' = count /\ lost' = lost
    BY <2>1, <2>2, <2>3, <1>2, <1>3
  <2>4. CASE /\ count' = IF pc[c] = "incr" THEN [count EXCEPT ![d0] = @ + 1] ELSE count
             /\ lost' = [lost EXCEPT ![d0] = @ + 1]
    <3>1. /\ count'[d] = IF pc[c] = "incr" /\ d = d0 THEN count[d] + 1 ELSE count[d]
          /\ lost'[d] = IF d = d0 THEN lost[d] + 1 ELSE lost[d]
      BY <2>4 DEF IInv, TypeOK
    <3> QED
      BY <3>1, <2>1, <2>2, <1>2, <1>3
  <2> QED
    BY <2>3, <2>4 DEF Fail
<1> QED
  BY <1>1, <1>4, <1>5, ThrowKeepsCeilings DEF IInv

\* A refusal (still to be rolled back) changes nothing that is counted.
LEMMA RefuseStep ==
  ASSUME IInv, NEW c \in Callers, CountEndpoint(c), Breached(c)
  PROVE  IInv'
<1>1. /\ pc[c] = "endpoint" /\ pc' = [pc EXCEPT ![c] = "rollback"]
      /\ UNCHANGED <<day, kind, seen, granted, count, lost>>
  BY DEF CountEndpoint, Goto
<1>2. TypeOK'
  BY <1>1 DEF IInv, TypeOK, CountEndpoint, PCs
<1>3. \A e \in Callers : Breached(e)' <=> Breached(e)
  BY <1>1 DEF Breached, Ceiling
<1>4. ASSUME NEW d \in Days
      PROVE  Counted(d)' = Counted(d) /\ \A k \in Kinds : Promised(d, k)' = Promised(d, k)
  BY <1>1, <1>3 DEF IInv, TypeOK, Counted, Promised
<1> QED
  BY <1>1, <1>2, <1>4, CountersUnchanged

\* A reservation that is returned was promised before: it takes no other unit.
LEMMA GrantKeepsUnits ==
  ASSUME TypeOK, NEW c \in Callers, CountEndpoint(c), ~Breached(c),
         NEW d0 \in Days, d0 = day[c], NEW k0 \in Kinds, k0 = kind[c]
  PROVE  \A d \in Days, k \in Kinds : UnitsTaken(d, k)' = UnitsTaken(d, k)
<1>1. /\ pc[c] = "endpoint" /\ Return(c)
      /\ granted' = [granted EXCEPT ![d0][k0] = @ + 1]
  BY DEF CountEndpoint
<1>2. ASSUME NEW d \in Days, NEW k \in Kinds
      PROVE  UnitsTaken(d, k)' = UnitsTaken(d, k)
  <2>1. c \in Promised(d, k) <=> d = d0 /\ k = k0
    BY <1>1 DEF Promised
  <2>2. /\ granted'[d][k] = IF d = d0 /\ k = k0 THEN granted[d][k] + 1 ELSE granted[d][k]
        /\ granted[d][k] \in Nat
    BY <1>1 DEF TypeOK
  <2>3. Cardinality(Promised(d, k)') = IF d = d0 /\ k = k0
                                         THEN Cardinality(Promised(d, k)) - 1
                                         ELSE Cardinality(Promised(d, k))
    BY <1>1, <2>1, ReturnCounts
  <2>4. Cardinality(Promised(d, k)) \in Nat
    BY CallerSetsFinite
  <2>5. UnitsTaken(d, k)' = granted'[d][k] + Cardinality(Promised(d, k)')
    BY DEF UnitsTaken
  <2> QED
    BY <2>2, <2>3, <2>4, <2>5 DEF UnitsTaken
<1> QED
  BY <1>2

LEMMA GrantStep ==
  ASSUME IInv, NEW c \in Callers, CountEndpoint(c), ~Breached(c),
         NEW d0 \in Days, d0 = day[c], NEW k0 \in Kinds, k0 = kind[c]
  PROVE  IInv'
<1>1. /\ pc[c] = "endpoint" /\ Return(c) /\ count' = count /\ lost' = lost
      /\ granted' = [granted EXCEPT ![d0][k0] = @ + 1]
  BY DEF CountEndpoint
<1>2. TypeOK'
  <2>1. granted' \in [Days -> [Kinds -> Nat]]
    BY <1>1 DEF IInv, TypeOK
  <2>2. endpointCount' \in [Days -> Nat]
    BY DEF IInv, TypeOK, CountEndpoint
  <2> QED
    BY <1>1, <2>1, <2>2, ReturnType DEF IInv, TypeOK, CountEndpoint
<1>3. ASSUME NEW d \in Days
      PROVE  /\ c \in Counted(d) <=> d = d0
             /\ \A k \in Kinds : c \in Promised(d, k) <=> d = d0 /\ k = k0
  BY <1>1 DEF Counted, Promised
<1>4. ASSUME NEW d \in Days, NEW k \in Kinds
      PROVE  /\ granted'[d][k] = IF d = d0 /\ k = k0 THEN granted[d][k] + 1 ELSE granted[d][k]
             /\ granted[d][k] \in Nat
  BY <1>1 DEF IInv, TypeOK
<1>5. ASSUME NEW d \in Days
      PROVE  /\ Cardinality(Counted(d)') = IF d = d0 THEN Cardinality(Counted(d)) - 1
                                                     ELSE Cardinality(Counted(d))
             /\ \A k \in Kinds :
                  Cardinality(Promised(d, k)') = IF d = d0 /\ k = k0
                                                   THEN Cardinality(Promised(d, k)) - 1
                                                   ELSE Cardinality(Promised(d, k))
  BY <1>1, <1>3, ReturnCounts DEF IInv
<1>6. CountExact'
  <2> SUFFICES ASSUME NEW d \in Days
               PROVE  (count[d] = Granted(d) + Cardinality(Counted(d)) + lost[d])'
    BY DEF CountExact
  <2>1. Granted(d)' = IF d = d0 THEN Granted(d) + 1 ELSE Granted(d)
    BY <1>4 DEF Granted, Kinds
  <2>2. Granted(d) \in Nat /\ lost[d] \in Nat
    BY DEF IInv, TypeOK, Granted, Kinds
  <2>3. Cardinality(Counted(d)) \in Nat
    BY CallerSetsFinite
  <2>4. count[d] = Granted(d) + Cardinality(Counted(d)) + lost[d]
    BY DEF IInv, CountExact
  <2> QED
    BY <2>1, <2>2, <2>3, <2>4, <1>1, <1>5
<1>7. \A d \in Days, k \in Kinds : UnitsTaken(d, k)' = UnitsTaken(d, k)
  BY GrantKeepsUnits DEF IInv
<1>8. TakenWithinCeilings'
  BY <1>7 DEF IInv, TakenWithinCeilings, Kinds
<1> QED
  BY <1>2, <1>6, <1>8 DEF IInv

\* Midnight and stuttering steps touch no caller.
LEMMA QuietStep ==
  ASSUME IInv, NextDay \/ UNCHANGED vars
  PROVE  IInv'
<1>1. /\ UNCHANGED <<count, expires, endpointCount, pc, day, kind, seen, granted, lost, orphaned>>
      /\ today' \in Days
  <2>1. CASE NextDay
    BY <2>1, BudgetAssumption DEF BudgetAssumption, IInv, TypeOK, NextDay, Days
  <2>2. CASE UNCHANGED vars
    BY <2>2 DEF IInv, TypeOK, vars
  <2> QED
    BY <2>1, <2>2
<1>2. TypeOK'
  BY <1>1 DEF IInv, TypeOK
<1>3. \A e : Breached(e)' <=> Breached(e)
  BY <1>1 DEF Breached, Ceiling
<1>4. ASSUME NEW d \in Days
      PROVE  Counted(d)' = Counted(d) /\ \A k \in Kinds : Promised(d, k)' = Promised(d, k)
  BY <1>1, <1>3 DEF Counted, Promised
<1> QED
  BY <1>1, <1>2, <1>4, CountersUnchanged

LEMMA StepIInv == IInv /\ [Next]_vars => IInv'
<1> SUFFICES ASSUME IInv, [Next]_vars PROVE IInv'
  OBVIOUS
<1>1. ASSUME NEW c \in Callers, Call(c) PROVE IInv'
  BY <1>1, CallStep
<1>2. ASSUME NEW c \in Callers, Incr(c) PROVE IInv'
  BY <1>2, IncrStep DEF IInv, TypeOK
<1>3. ASSUME NEW c \in Callers, Expire(c) PROVE IInv'
  BY <1>3, ExpireStep
<1>4. ASSUME NEW c \in Callers, CountEndpoint(c) PROVE IInv'
  BY <1>4, RefuseStep, GrantStep DEF IInv, TypeOK
<1>5. ASSUME NEW c \in Callers, RollBack(c) PROVE IInv'
  BY <1>5, RollBackStep DEF IInv, TypeOK
<1>6. ASSUME NEW c \in Callers, Fail(c) PROVE IInv'
  BY <1>6, FailStep DEF IInv, TypeOK
<1>7. CASE NextDay \/ UNCHANGED vars
  BY <1>7, QuietStep
<1> QED
  BY <1>1, <1>2, <1>3, <1>4, <1>5, <1>6, <1>7 DEF Next

-----------------------------------------------------------------------------
(* The theorems.                                                           *)

\* The strengthened invariant holds in every state.
THEOREM InductiveInvariant == Spec => []IInv
  BY InitIInv, StepIInv, PTL DEF Spec

\* Every variable keeps its type: no counter of a day ever goes below zero,
\* whatever calls roll back or fail.
THEOREM TypeCorrect == Spec => []TypeOK
<1>1. IInv => TypeOK
  BY DEF IInv
<1> QED
  BY <1>1, InductiveInvariant, PTL

\* The counter of a day is exact: reservations returned, calls in progress and
\* increments lost to failures account for it (the INCR and DECR of budget.ts).
THEOREM CounterIsExact == Spec => []CountExact
<1>1. IInv => CountExact
  BY DEF IInv
<1> QED
  BY <1>1, InductiveInvariant, PTL

\* However many callers interleave, fail or straddle midnight, no day grants
\* more than the budget, nor scheduled traffic more than budget less reserve.
THEOREM BudgetIsRespected == Spec => []GrantsWithinCeilings
<1>1. IInv => GrantsWithinCeilings
  <2> SUFFICES ASSUME IInv, NEW d \in Days
               PROVE  /\ Granted(d) <= Budget
                      /\ granted[d]["normal"] > 0 => granted[d]["normal"] <= Budget - Reserve
    BY DEF GrantsWithinCeilings
  <2> DEFINE n  == Cardinality(Promised(d, "normal"))
             r  == Cardinality(Promised(d, "reserve"))
             gn == granted[d]["normal"]
             gr == granted[d]["reserve"]
  <2>1. n \in Nat /\ r \in Nat
    BY CallerSetsFinite
  <2>2. gn \in Nat /\ gr \in Nat
    BY DEF IInv, TypeOK, Kinds
  <2>3. gn + n + (gr + r) <= Budget /\ (gn + n > 0 => gn + n <= Budget - Reserve)
    BY DEF IInv, TakenWithinCeilings, UnitsTaken
  <2>4. gn + gr <= Budget /\ (gn > 0 => gn <= Budget - Reserve)
    <3> HIDE DEF n, r, gn, gr
    <3> QED
      BY <2>1, <2>2, <2>3, BudgetAssumption DEF BudgetAssumption
  <2> QED
    BY <2>4 DEF Granted
<1> QED
  BY <1>1, InductiveInvariant, PTL

-----------------------------------------------------------------------------
(* The time to live.  CounterExpires is inductive relative to the types:   *)
(* the caller that takes a counter from zero goes on to set it, and leaves *)
(* that place only by setting it or by failing.                            *)

\* Day d has a time to live, or is about to.
Expiring(d) == expires[d] \/ \E c \in Callers : pc[c] = "expire" /\ day[c] = d

\* Only the failure of the call that created the counter takes that from it.
LEMMA StaysExpiring ==
  ASSUME TypeOK, [Next]_vars, NEW d \in Days, Expiring(d), d \notin orphaned'
  PROVE  Expiring(d)'
<1>1. CASE expires[d]
  <2>1. expires'[d]
    <3>1. ASSUME NEW c \in Callers, Expire(c) PROVE expires'[d]
      BY <1>1, <3>1 DEF TypeOK, Expire, WithTtl
    <3>2. CASE UNCHANGED expires
      BY <1>1, <3>2
    <3> QED
      BY <3>1, <3>2 DEF Next, vars, Call, Incr, CountEndpoint, RollBack, Fail, NextDay
  <2> QED
    BY <2>1 DEF Expiring
<1>2. CASE \E c \in Callers : pc[c] = "expire" /\ day[c] = d
  <2>1. PICK w \in Callers : pc[w] = "expire" /\ day[w] = d
    BY <1>2
  <2>2. CASE pc'[w] = "expire" /\ day'[w] = d
    BY <2>2 DEF Expiring
  <2>3. ASSUME NEW c \in Callers, c # w,
               Call(c) \/ Incr(c) \/ Expire(c) \/ CountEndpoint(c) \/ RollBack(c) \/ Fail(c)
        PROVE  pc'[w] = "expire" /\ day'[w] = d
    BY <2>1, <2>3 DEF TypeOK, Call, Incr, Expire, CountEndpoint, RollBack, Fail, Goto, Return
  <2>4. CASE Expire(w)
    BY <2>1, <2>4 DEF TypeOK, Expire, WithTtl, Expiring
  <2>5. CASE Fail(w)
    BY <2>1, <2>5 DEF TypeOK, Fail
  <2>6. CASE NextDay \/ UNCHANGED vars
    BY <2>1, <2>6 DEF NextDay, vars, Expiring
  <2>7. ~Call(w) /\ ~Incr(w) /\ ~CountEndpoint(w) /\ ~RollBack(w)
    BY <2>1 DEF Call, Incr, CountEndpoint, RollBack
  <2> QED
    BY <2>2, <2>3, <2>4, <2>5, <2>6, <2>7 DEF Next
<1> QED
  BY <1>1, <1>2 DEF Expiring

\* A counter left behind by the call that created it stays so marked.
LEMMA OrphansStay ==
  ASSUME [Next]_vars
  PROVE  orphaned \subseteq orphaned'
BY DEF Next, vars, Call, Incr, Expire, CountEndpoint, RollBack, Fail, NextDay

\* A counter that a step takes above zero had been there, or its caller goes on to
\* give it a time to live, or fails.
LEMMA NewCounterExpires ==
  ASSUME TypeOK, [Next]_vars, NEW d \in Days, count'[d] > 0, d \notin orphaned'
  PROVE  count[d] > 0 \/ Expiring(d)'
<1>1. ASSUME NEW c \in Callers, Incr(c), day[c] = d, ~(count[d] > 0)
      PROVE  Expiring(d)'
  <2>1. count[d] = 0
    BY <1>1 DEF TypeOK
  <2>2. pc'[c] = "expire" /\ day'[c] = d
    BY <1>1, <2>1 DEF TypeOK, Incr, Reply, Goto
  <2> QED
    BY <2>2 DEF Expiring
<1>2. ASSUME NEW c \in Callers, Incr(c), day[c] # d
      PROVE  count'[d] = count[d]
  BY <1>2 DEF TypeOK, Incr
<1>3. ASSUME NEW c \in Callers, RollBack(c)
      PROVE  count'[d] <= count[d]
  BY <1>3 DEF TypeOK, RollBack, Undone
<1>4. ASSUME NEW c \in Callers, Fail(c)
      PROVE  count'[d] = count[d] \/ count[d] > 0
  <2>1. CASE count' = count
    BY <2>1
  <2>2. CASE count' # count
    <3>1. pc[c] = "incr" /\ (Reply(c) = 1 => day[c] \in orphaned')
      BY <1>4, <2>2 DEF Fail
    <3>2. count' = [count EXCEPT ![day[c]] = @ + 1]
      BY <1>4, <2>2 DEF Fail
    <3>3. CASE day[c] = d
      BY <3>1, <3>3 DEF TypeOK, Reply
    <3>4. CASE day[c] # d
      BY <3>2, <3>4 DEF TypeOK
    <3> QED
      BY <3>3, <3>4
  <2> QED
    BY <2>1, <2>2
<1>5. CASE UNCHANGED count
  BY <1>5
<1> QED
  <2>1. count[d] \in Nat /\ (count' = count \/ count'[d] \in Int)
    <3>1. ASSUME NEW c \in Callers, Incr(c) PROVE count'[d] \in Int
      BY <3>1 DEF TypeOK, Incr
    <3>2. ASSUME NEW c \in Callers, RollBack(c) PROVE count'[d] \in Int
      BY <3>2 DEF TypeOK, RollBack, Undone
    <3>3. ASSUME NEW c \in Callers, Fail(c) PROVE count'[d] \in Int
      <4>1. count' = count \/ count' = [count EXCEPT ![day[c]] = @ + 1]
        BY <3>3 DEF Fail
      <4> QED
        BY <4>1 DEF TypeOK
    <3> QED
      BY <3>1, <3>2, <3>3 DEF TypeOK, Next, vars, Call, Expire, CountEndpoint, NextDay
  <2>2. \/ \E c \in Callers : Incr(c) \/ RollBack(c) \/ Fail(c)
        \/ UNCHANGED count
    BY DEF Next, vars, Call, Expire, CountEndpoint, NextDay
  <2> QED
    BY <2>1, <2>2, <1>1, <1>2, <1>3, <1>4, <1>5

\* A day's counter in use has a time to live, or the call that created it is about to
\* give it one, whatever else fails or is undone; only the failure of that very call,
\* before its EXPIRE, leaves a counter without (budget.ts:80-84).
THEOREM CountersExpire == Spec => []CounterExpires
<1>1. Init => CounterExpires
  BY DEF Init, CounterExpires
<1>2. TypeOK /\ CounterExpires /\ [Next]_vars => CounterExpires'
  <2> SUFFICES ASSUME TypeOK, CounterExpires, [Next]_vars,
                      NEW d \in Days, d \notin orphaned', count'[d] > 0
               PROVE  Expiring(d)'
    BY DEF CounterExpires, Expiring
  <2>1. d \notin orphaned
    BY OrphansStay
  <2>2. count[d] > 0 => Expiring(d)
    BY <2>1 DEF CounterExpires, Expiring
  <2> QED
    BY <2>2, NewCounterExpires, StaysExpiring
<1> QED
  BY <1>1, <1>2, TypeCorrect, PTL DEF Spec

-----------------------------------------------------------------------------
(* The refinement: under QuotaUsed every step is a step of Quota, or none. *)

\* The mapped variable, unit by unit.
LEMMA QuotaUnits ==
  /\ QuotaUsed = [d \in Days |-> [k \in Kinds |-> UnitsTaken(d, k)]]
  /\ QuotaUsed' = [d \in Days |-> [k \in Kinds |-> UnitsTaken(d, k)']]
  BY DEF QuotaUsed, UnitsTaken

\* A step that takes and forfeits nothing stutters.
LEMMA QuotaStutters ==
  ASSUME \A d \in Days, k \in Kinds : UnitsTaken(d, k)' = UnitsTaken(d, k)
  PROVE  QuotaUsed' = QuotaUsed
<1>1. [d \in Days |-> [k \in Kinds |-> UnitsTaken(d, k)']]
        = [d \in Days |-> [k \in Kinds |-> UnitsTaken(d, k)]]
  OBVIOUS
<1> QED
  BY <1>1, QuotaUnits

\* The mapped variable after one unit of d0 and k0 moved by n.
LEMMA QuotaMoves ==
  ASSUME NEW d0 \in Days, NEW k0 \in Kinds, NEW u,
         UnitsTaken(d0, k0)' = u,
         \A d \in Days, k \in Kinds :
           d # d0 \/ k # k0 => UnitsTaken(d, k)' = UnitsTaken(d, k)
  PROVE  /\ QuotaUsed[d0][k0] = UnitsTaken(d0, k0)
         /\ QuotaUsed' = [QuotaUsed EXCEPT ![d0][k0] = u]
<1> DEFINE Q  == [d \in Days |-> [k \in Kinds |-> UnitsTaken(d, k)]]
           Q1 == [d \in Days |-> [k \in Kinds |-> UnitsTaken(d, k)']]
<1>1. Q[d0][k0] = UnitsTaken(d0, k0)
  OBVIOUS
<1>2. Q1 = [Q EXCEPT ![d0][k0] = u]
  OBVIOUS
<1> QED
  BY <1>1, <1>2, QuotaUnits

\* Callers that are promised something neither appear nor leave.
LEMMA SamePromises ==
  ASSUME granted' = granted,
         \A d \in Days, k \in Kinds : Promised(d, k)' = Promised(d, k)
  PROVE  QuotaUsed' = QuotaUsed
<1>1. \A d \in Days, k \in Kinds : UnitsTaken(d, k)' = UnitsTaken(d, k)
  BY DEF UnitsTaken
<1> QED
  BY <1>1, QuotaStutters

\* An INCR within its ceiling takes a unit, one beyond it none.
LEMMA IncrTakes ==
  ASSUME IInv, NEW c \in Callers, Incr(c),
         NEW d0 \in Days, d0 = day[c], NEW k0 \in Kinds, k0 = kind[c]
  PROVE  [AtomicQuota!Next]_QuotaUsed
<1>1. granted' = granted
  BY DEF Incr
<1>2. ASSUME NEW d \in Days, NEW k \in Kinds, d # d0 \/ k # k0
      PROVE  UnitsTaken(d, k)' = UnitsTaken(d, k)
  BY <1>1, <1>2, IncrEffect DEF UnitsTaken
<1>3. CASE ~(Reply(c) <= Ceiling(k0))
  <2>1. UnitsTaken(d0, k0)' = UnitsTaken(d0, k0)
    BY <1>1, <1>3, IncrEffect DEF UnitsTaken
  <2> QED
    BY <2>1, <1>2, QuotaStutters
<1>4. CASE Reply(c) <= Ceiling(k0)
  <2> DEFINE n  == Cardinality(Promised(d0, "normal"))
             r  == Cardinality(Promised(d0, "reserve"))
             gn == granted[d0]["normal"]
             gr == granted[d0]["reserve"]
             p  == Cardinality(Promised(d0, k0))
             g  == granted[d0][k0]
  <2>1. /\ n \in Nat /\ r \in Nat /\ p \in Nat /\ Cardinality(Counted(d0)) \in Nat
        /\ n + r <= Cardinality(Counted(d0))
    BY CallerSetsFinite, PromisedAreCounted
  <2>2. gn \in Nat /\ gr \in Nat /\ g \in Nat /\ lost[d0] \in Nat /\ Ceiling(k0) \in Int
    BY BudgetAssumption DEF BudgetAssumption, IInv, TypeOK, Kinds, Ceiling
  <2>3. Reply(c) = gn + gr + Cardinality(Counted(d0)) + lost[d0] + 1
    BY DEF IInv, CountExact, Granted, Reply
  <2>4. UnitsTaken(d0, k0)' = g + (p + 1) /\ UnitsTaken(d0, k0) = g + p
    BY <1>1, <1>4, IncrEffect DEF UnitsTaken
  <2>5. UnitsTaken(d0, k0)' = UnitsTaken(d0, k0) + 1
    <3> HIDE DEF p, g
    <3> QED
      BY <2>1, <2>2, <2>4
  <2>6. /\ QuotaUsed[d0][k0] = UnitsTaken(d0, k0)
        /\ QuotaUsed' = [QuotaUsed EXCEPT ![d0][k0] = UnitsTaken(d0, k0) + 1]
    BY <2>5, <1>2, QuotaMoves
  <2>7. QuotaUsed[d0]["normal"] = gn + n /\ QuotaUsed[d0]["reserve"] = gr + r
    BY DEF QuotaUsed, Kinds
  <2>8. (gn + n) + (gr + r) < Ceiling(k0)
    <3> HIDE DEF n, r, gn, gr
    <3> QED
      BY <2>1, <2>2, <2>3, <1>4
  <2>9. AtomicQuota!Ceiling(k0) = Ceiling(k0)
    BY DEF AtomicQuota!Ceiling, Ceiling
  <2>10. AtomicQuota!Take(d0, k0)
    <3>1. AtomicQuota!Used(d0) < AtomicQuota!Ceiling(k0)
      BY <2>7, <2>8, <2>9 DEF AtomicQuota!Used
    <3>2. QuotaUsed' = [QuotaUsed EXCEPT ![d0][k0] = @ + 1]
      BY <2>6
    <3> QED
      BY <3>1, <3>2 DEF AtomicQuota!Take
  <2> QED
    BY <2>10 DEF AtomicQuota!Next, AtomicQuota!Kinds, Kinds
<1> QED
  BY <1>3, <1>4

\* A caller that throws forfeits the unit it was promised, if it was.
LEMMA ThrowForfeits ==
  ASSUME IInv, NEW c \in Callers, Return(c), granted' = granted,
         NEW d0 \in Days, d0 = day[c], NEW k0 \in Kinds, k0 = kind[c]
  PROVE  [AtomicQuota!Next]_QuotaUsed
<1>1. ASSUME NEW d \in Days, NEW k \in Kinds, d # d0 \/ k # k0
      PROVE  UnitsTaken(d, k)' = UnitsTaken(d, k)
  <2>1. c \notin Promised(d, k)
    BY <1>1 DEF Promised
  <2> QED
    BY <2>1, ReturnCounts DEF UnitsTaken, IInv
<1>2. CASE c \notin Promised(d0, k0)
  <2>1. UnitsTaken(d0, k0)' = UnitsTaken(d0, k0)
    BY <1>2, ReturnCounts DEF UnitsTaken, IInv
  <2> QED
    BY <2>1, <1>1, QuotaStutters
<1>3. CASE c \in Promised(d0, k0)
  <2> DEFINE p == Cardinality(Promised(d0, k0))
             g == granted[d0][k0]
  <2>1. p \in Nat /\ g \in Nat
    BY CallerSetsFinite DEF IInv, TypeOK
  <2>2. p > 0
    <3>1. IsFiniteSet(Promised(d0, k0)) /\ Promised(d0, k0) # {}
      BY <1>3, CallerSetsFinite
    <3>2. p # 0
      BY <3>1, FS_EmptySet
    <3> HIDE DEF p
    <3> QED
      BY <2>1, <3>2
  <2>3. UnitsTaken(d0, k0)' = g + (p - 1) /\ UnitsTaken(d0, k0) = g + p
    BY <1>3, ReturnCounts DEF UnitsTaken, IInv
  <2>4. UnitsTaken(d0, k0)' = UnitsTaken(d0, k0) - 1 /\ UnitsTaken(d0, k0) > 0
    <3> HIDE DEF p, g
    <3> QED
      BY <2>1, <2>2, <2>3
  <2>5. /\ QuotaUsed[d0][k0] = UnitsTaken(d0, k0)
        /\ QuotaUsed' = [QuotaUsed EXCEPT ![d0][k0] = UnitsTaken(d0, k0) - 1]
    BY <2>4, <1>1, QuotaMoves
  <2>6. AtomicQuota!Forfeit(d0, k0)
    <3>1. QuotaUsed' = [QuotaUsed EXCEPT ![d0][k0] = @ - 1]
      BY <2>5
    <3> QED
      BY <3>1, <2>4, <2>5 DEF AtomicQuota!Forfeit
  <2> QED
    BY <2>6 DEF AtomicQuota!Next, AtomicQuota!Kinds, Kinds
<1> QED
  BY <1>2, <1>3

\* The steps that touch no counter, and the answer to a caller, take nothing anew.
LEMMA OthersStutter ==
  ASSUME IInv, NEW c \in Callers, Call(c) \/ Expire(c) \/ CountEndpoint(c)
  PROVE  QuotaUsed' = QuotaUsed
<1>1. CASE Call(c)
  <2>1. ASSUME NEW d \in Days, NEW k \in Kinds PROVE Promised(d, k)' = Promised(d, k)
    BY <1>1 DEF IInv, TypeOK, Call, Promised, Breached
  <2> QED
    BY <1>1, <2>1, SamePromises DEF Call
<1>2. CASE Expire(c)
  <2>1. ASSUME NEW d \in Days, NEW k \in Kinds PROVE Promised(d, k)' = Promised(d, k)
    BY <1>2 DEF IInv, TypeOK, Expire, Goto, Promised, Breached
  <2> QED
    BY <1>2, <2>1, SamePromises DEF Expire
<1>3. CASE CountEndpoint(c) /\ Breached(c)
  <2>1. /\ pc[c] = "endpoint" /\ pc' = [pc EXCEPT ![c] = "rollback"]
        /\ UNCHANGED <<day, kind, seen, granted>>
    BY <1>3 DEF CountEndpoint, Goto
  <2>2. ASSUME NEW d \in Days, NEW k \in Kinds PROVE Promised(d, k)' = Promised(d, k)
    <3>1. \A e \in Callers : Breached(e)' <=> Breached(e)
      BY <2>1 DEF Breached, Ceiling
    <3> QED
      BY <1>3, <2>1, <3>1 DEF IInv, TypeOK, Promised
  <2> QED
    BY <2>1, <2>2, SamePromises
<1>4. CASE CountEndpoint(c) /\ ~Breached(c)
  <2>1. \A d \in Days, k \in Kinds : UnitsTaken(d, k)' = UnitsTaken(d, k)
    BY <1>4, GrantKeepsUnits DEF IInv, TypeOK
  <2> QED
    BY <2>1, QuotaStutters
<1> QED
  BY <1>1, <1>2, <1>3, <1>4

LEMMA StepRefines == IInv /\ [Next]_vars => [AtomicQuota!Next]_QuotaUsed
<1> SUFFICES ASSUME IInv, [Next]_vars PROVE [AtomicQuota!Next]_QuotaUsed
  OBVIOUS
<1>0. \A c \in Callers : day[c] \in Days /\ kind[c] \in Kinds
  BY DEF IInv, TypeOK
<1>1. ASSUME NEW c \in Callers, Call(c) \/ Expire(c) \/ CountEndpoint(c)
      PROVE  QuotaUsed' = QuotaUsed
  BY <1>1, OthersStutter
<1>2. ASSUME NEW c \in Callers, Incr(c)
      PROVE  [AtomicQuota!Next]_QuotaUsed
  BY <1>0, <1>2, IncrTakes
<1>3. ASSUME NEW c \in Callers, RollBack(c) \/ Fail(c)
      PROVE  [AtomicQuota!Next]_QuotaUsed
  <2>1. Return(c) /\ granted' = granted
    BY <1>3 DEF RollBack, Fail
  <2> QED
    BY <1>0, <2>1, ThrowForfeits
<1>4. CASE NextDay \/ UNCHANGED vars
  <2>1. UNCHANGED <<granted, pc, day, kind, seen>>
    BY <1>4 DEF NextDay, vars
  <2>2. \A d \in Days, k \in Kinds : Promised(d, k)' = Promised(d, k)
    BY <2>1 DEF Promised, Breached, Ceiling
  <2>3. QuotaUsed' = QuotaUsed
    BY <2>1, <2>2, SamePromises
  <2> QED
    BY <2>3
<1> QED
  BY <1>1, <1>2, <1>3, <1>4 DEF Next

LEMMA InitRefines == Init => AtomicQuota!Init
<1> SUFFICES ASSUME Init PROVE QuotaUsed = [d \in Days |-> [k \in Kinds |-> 0]]
  BY DEF AtomicQuota!Init, AtomicQuota!Kinds, Kinds
<1>1. ASSUME NEW d \in Days, NEW k \in Kinds PROVE UnitsTaken(d, k) = 0
  <2>1. Promised(d, k) = {}
    BY DEF Init, Promised
  <2>2. Cardinality(Promised(d, k)) = 0
    BY <2>1, FS_EmptySet
  <2> QED
    BY <2>2 DEF Init, UnitsTaken
<1> QED
  BY <1>1, QuotaUnits

\* The Redis counters implement the atomic quota, for every set of callers and every
\* budget: INCR-then-verify takes a unit at the INCR, and rolls back only what it
\* never took (budget.ts:75-92).
THEOREM CountersImplementQuota == Spec => QuotaRefinement
<1>1. Spec => []IInv
  BY InductiveInvariant
<1> QED
  BY <1>1, InitRefines, StepRefines, PTL DEF Spec, QuotaRefinement, AtomicQuota!Spec

=============================================================================
