---------------------- MODULE DeepFunnelScheduleProofs ----------------------
(***************************************************************************)
(* Proofs about DeepFunnelSchedule, for every set of ticks and number of    *)
(* days, whichever of them are days of trading.                             *)
(***************************************************************************)
EXTENDS DeepFunnelSchedule, TLAPS

Reading    == {"score"} \cup Kinds
AfterPurge == {"alerts", "shadow"} \cup Reading
BothSeen   == {"flag", "purge"} \cup Reading
PriceSeen  == {"probeBroker"} \cup BothSeen

\* A run leaves its flag behind.
RunsAreFlagged == \A d \in Days : runs[d] <= 1 /\ (d \notin flags => runs[d] = 0)

\* What a tick has seen of the canary still holds: nothing is ever unpublished.
Seen(t) ==
  /\ pc[t] \in PriceSeen => latest["canary"]["history"] >= tickDay[t]
  /\ pc[t] \in BothSeen => latest["canary"]["brokerSummary"] >= tickDay[t]

\* What was published at the purge: of the canary the run's day, and of the candidate
\* no more than the upstream and the entries, whoever filled them, hold now.
Since(t) ==
  pc[t] \in Reading =>
    /\ \A k \in Checked : atStart[t]["canary"][k] >= tickDay[t]
    /\ \A k \in Kinds : latest["candidate"][k] >= atStart[t]["candidate"][k]
    /\ \A k \in Kinds : entries[k] # None => entries[k] >= atStart[t]["candidate"][k]

\* The inputs of a candidate are read one after the other, all of them before its score.
HasRead(t) ==
  /\ pc[t] \in Reading \ {"history"} => used[t]["history"] # None
  /\ pc[t] \in Reading \ Checked => used[t]["brokerSummary"] # None

\* Before its purge a tick has read nothing through the cache.
NothingYet(t) ==
  pc[t] \notin AfterPurge => used[t] = Nothing /\ ~dataStale[t]

TickInv(t) == Seen(t) /\ Since(t) /\ HasRead(t) /\ NothingYet(t) /\ OnOwnData(t)

IInv == TypeOK /\ RunsAreFlagged /\ \A t \in Ticks : TickInv(t)

\* What tick s knows stays as it is.
OwnUnchanged(s) ==
  /\ pc'[s] = pc[s] /\ tickDay'[s] = tickDay[s] /\ now'[s] = now[s] /\ used'[s] = used[s]
  /\ dataStale'[s] = dataStale[s] /\ degraded'[s] = degraded[s] /\ atStart'[s] = atStart[s]

\* The upstream takes nothing back, and no entry appears but with what it holds.
OnlyNewer ==
  /\ \A s \in Symbols, k \in Kinds : latest'[s][k] >= latest[s][k]
  /\ \A k \in Kinds : entries'[k] # None =>
       entries'[k] = entries[k] \/ entries'[k] = latest["candidate"][k]

-----------------------------------------------------------------------------
(* Lemmas on the data of the module and on the parts of its actions.       *)

LEMMA KindFacts ==
  /\ {"history", "brokerSummary"} \subseteq Kinds /\ Checked \subseteq Kinds
  /\ \A k \in Kinds : k \in {"history", "brokerSummary", "insiders"}
  /\ \A k \in Kinds : k \in Unchecked \/ k = "history" \/ k = "brokerSummary"
  /\ Unchecked \subseteq Kinds /\ Trading \subseteq Days
  /\ LastDay \in Nat /\ LastDay > 0 /\ None = -1 /\ Nothing \in [Kinds -> None .. LastDay]
  /\ \A k \in Kinds : Nothing[k] = None
  /\ Initially \in [Symbols -> [Kinds -> 0 .. LastDay]]
  /\ 1 \in Days /\ Days \subseteq Int
BY ScheduleAssumption
DEF ScheduleAssumption, Kinds, Checked, None, Nothing, Initially, Symbols, Days

LEMMA StepFacts ==
  /\ Reading \cup AfterPurge \cup PriceSeen \cup BothSeen \subseteq Steps
  /\ {"idle", "exists", "canary", "probe"} \cap (PriceSeen \cup AfterPurge) = {}
  /\ {"idle", "exists", "canary", "probe"} \subseteq Steps
  /\ "probeBroker" \in PriceSeen \ (BothSeen \cup AfterPurge)
  /\ {"flag", "purge"} \cap AfterPurge = {} /\ {"flag", "purge"} \subseteq BothSeen
  /\ {"alerts", "shadow"} \cap (PriceSeen \cup Reading) = {} /\ {"alerts", "shadow"} \subseteq AfterPurge
  /\ BothSeen \subseteq PriceSeen /\ Reading \subseteq BothSeen /\ Reading \subseteq AfterPurge
  /\ "score" \in Reading \ Checked /\ Kinds \subseteq Reading
BY KindFacts DEF Reading, AfterPurge, BothSeen, PriceSeen, Steps, Checked

\* The bounds of the days that a tick, the upstream and the cache know.
LEMMA DayFacts ==
  ASSUME TypeOK
  PROVE  /\ \A s \in Symbols, k \in Kinds : latest[s][k] \in 0 .. LastDay
         /\ \A k \in Kinds : entries[k] \in None .. LastDay
         /\ \A t \in Ticks : tickDay[t] \in Int /\ now[t] \in Int
         /\ \A t \in Ticks, k \in Kinds : used[t][k] \in None .. LastDay
         /\ \A t \in Ticks, s \in Symbols, k \in Kinds : atStart[t][s][k] \in 0 .. LastDay
BY DEF TypeOK, Days

LEMMA ForgetEffect ==
  ASSUME TypeOK, NEW t \in Ticks, Forget(t)
  PROVE  /\ now' \in [Ticks -> Days] /\ used' \in [Ticks -> [Kinds -> None .. LastDay]]
         /\ dataStale' \in [Ticks -> BOOLEAN] /\ degraded' \in [Ticks -> BOOLEAN]
         /\ atStart' \in [Ticks -> [Symbols -> [Kinds -> 0 .. LastDay]]]
         /\ used'[t] = Nothing /\ ~dataStale'[t]
         /\ \A s \in Ticks : s # t =>
              /\ now'[s] = now[s] /\ used'[s] = used[s] /\ dataStale'[s] = dataStale[s]
              /\ degraded'[s] = degraded[s] /\ atStart'[s] = atStart[s]
<1>1. now' \in [Ticks -> Days] /\ \A s \in Ticks : s # t => now'[s] = now[s]
  BY KindFacts DEF TypeOK, Forget
<1>2. /\ used' \in [Ticks -> [Kinds -> None .. LastDay]] /\ used'[t] = Nothing
      /\ \A s \in Ticks : s # t => used'[s] = used[s]
  BY KindFacts DEF TypeOK, Forget
<1>3. /\ dataStale' \in [Ticks -> BOOLEAN] /\ ~dataStale'[t]
      /\ \A s \in Ticks : s # t => dataStale'[s] = dataStale[s]
  BY DEF TypeOK, Forget
<1>4. degraded' \in [Ticks -> BOOLEAN] /\ \A s \in Ticks : s # t => degraded'[s] = degraded[s]
  BY DEF TypeOK, Forget
<1>5. /\ atStart' \in [Ticks -> [Symbols -> [Kinds -> 0 .. LastDay]]]
      /\ \A s \in Ticks : s # t => atStart'[s] = atStart[s]
  BY KindFacts DEF TypeOK, Forget
<1> QED BY <1>1, <1>2, <1>3, <1>4, <1>5

\* Only the tick that acts is disturbed by its step.
LEMMA OtherKeeps ==
  ASSUME IInv, TypeOK', NEW s \in Ticks, OwnUnchanged(s), OnlyNewer
  PROVE  TickInv(s)'
<1> USE DEF OwnUnchanged
<1>1. TickInv(s) /\ TypeOK
  BY DEF IInv
<1>2. {"canary", "candidate"} \subseteq Symbols /\ {"history", "brokerSummary"} \subseteq Kinds
  BY KindFacts DEF Symbols
<1>3. Seen(s)'
  <2>1. /\ latest'["canary"]["history"] >= latest["canary"]["history"]
        /\ latest'["canary"]["brokerSummary"] >= latest["canary"]["brokerSummary"]
    BY <1>2 DEF OnlyNewer
  <2>2. /\ latest["canary"]["history"] \in Int /\ latest'["canary"]["history"] \in Int
        /\ latest["canary"]["brokerSummary"] \in Int /\ latest'["canary"]["brokerSummary"] \in Int
        /\ tickDay[s] \in Int
    BY <1>1, <1>2, KindFacts DEF TypeOK, Days
  <2> QED BY <1>1, <2>1, <2>2 DEF TickInv, Seen
<1>4. Since(s)'
  <2> SUFFICES ASSUME pc[s] \in Reading, NEW k \in Kinds
               PROVE  /\ latest'["candidate"][k] >= atStart[s]["candidate"][k]
                      /\ entries'[k] # None => entries'[k] >= atStart[s]["candidate"][k]
    BY <1>1 DEF TickInv, Since
  <2>1. latest'["candidate"][k] >= latest["candidate"][k]
    BY <1>2 DEF OnlyNewer
  <2>2. latest["candidate"][k] \in Int /\ latest'["candidate"][k] \in Int
        /\ atStart[s]["candidate"][k] \in Int
    BY <1>1, <1>2, KindFacts DEF TypeOK
  <2>3. latest["candidate"][k] >= atStart[s]["candidate"][k]
        /\ (entries[k] # None => entries[k] >= atStart[s]["candidate"][k])
    BY <1>1 DEF TickInv, Since
  <2>4. entries'[k] # None => entries'[k] = entries[k] \/ entries'[k] = latest["candidate"][k]
    BY DEF OnlyNewer
  <2> QED BY <2>1, <2>2, <2>3, <2>4
<1>5. HasRead(s)' /\ NothingYet(s)' /\ OnOwnData(s)'
  BY <1>1 DEF TickInv, HasRead, NothingYet, OnOwnData, OnTime
<1> QED BY <1>3, <1>4, <1>5 DEF TickInv

\* An unchanged cache and an unchanged upstream are a special case.
LEMMA SameIsNewer ==
  ASSUME TypeOK, latest' = latest, entries' \in {entries, Nothing}
  PROVE  OnlyNewer
BY KindFacts, DayFacts DEF OnlyNewer

\* Beyond its reads a tick is bound by little.
LEMMA IdleHolds ==
  ASSUME NEW t \in Ticks, pc'[t] \notin PriceSeen \cup Reading,
         used'[t] = Nothing, ~dataStale'[t]
  PROVE  TickInv(t)'
BY StepFacts, KindFacts DEF TickInv, Seen, Since, HasRead, NothingYet, OnOwnData

\* A tick that ends, whatever it did to the canary, the flag and the entries before.
LEMMA ReturnKeeps ==
  ASSUME IInv, NEW t \in Ticks, Return(t), UNCHANGED <<world, runs>>,
         entries' \in [Kinds -> None .. LastDay], OnlyNewer,
         canary' \subseteq Days, flags \subseteq flags', flags' \subseteq Days
  PROVE  IInv'
<1>1. TypeOK /\ Forget(t)
  BY DEF IInv, Return
<1>2. pc' \in [Ticks -> Steps] /\ pc'[t] = "idle" /\ \A s \in Ticks : s # t => pc'[s] = pc[s]
  BY <1>1, StepFacts DEF TypeOK, Return
<1>3. tickDay' \in [Ticks -> Days] /\ \A s \in Ticks : s # t => tickDay'[s] = tickDay[s]
  BY <1>1, KindFacts DEF TypeOK, Return
<1>4. TypeOK'
  BY <1>1, <1>2, <1>3, ForgetEffect DEF TypeOK, world
<1>5. RunsAreFlagged'
  BY DEF IInv, RunsAreFlagged, world
<1>6. TickInv(t)'
  BY <1>1, <1>2, ForgetEffect, StepFacts, IdleHolds
<1>7. ASSUME NEW s \in Ticks, s # t PROVE TickInv(s)'
  <2>1. OwnUnchanged(s)
    BY <1>1, <1>2, <1>3, <1>7, ForgetEffect DEF OwnUnchanged
  <2> QED BY <1>4, <2>1, OtherKeeps
<1> QED BY <1>4, <1>5, <1>6, <1>7 DEF IInv

\* A tick that moves on to a step whose conditions it has verified.
LEMMA GotoKeeps ==
  ASSUME IInv, NEW t \in Ticks, NEW step \in Steps, Goto(t, step),
         UNCHANGED <<world, entries, flags, runs>>, canary' \subseteq Days,
         step \notin Reading,
         step \in PriceSeen => latest["canary"]["history"] >= tickDay[t],
         step \in BothSeen => latest["canary"]["brokerSummary"] >= tickDay[t],
         pc[t] \in AfterPurge => step \in AfterPurge
  PROVE  IInv'
<1>1. TypeOK /\ TickInv(t)
  BY DEF IInv
<1>2. pc' \in [Ticks -> Steps] /\ pc'[t] = step /\ \A s \in Ticks : s # t => pc'[s] = pc[s]
  BY <1>1 DEF TypeOK, Goto
<1>3. UNCHANGED <<tickDay, now, used, dataStale, degraded, atStart>>
  BY DEF Goto, run
<1>4. TypeOK'
  BY <1>1, <1>2, <1>3 DEF TypeOK, world
<1>5. RunsAreFlagged'
  BY DEF IInv, RunsAreFlagged
<1>6. TickInv(t)'
  <2>1. Seen(t)'
    BY <1>2, <1>3 DEF Seen, world
  <2>2. Since(t)' /\ HasRead(t)'
    BY <1>2, StepFacts DEF Since, HasRead
  <2>3. NothingYet(t)' /\ OnOwnData(t)'
    BY <1>1, <1>2, <1>3 DEF TickInv, NothingYet, OnOwnData, OnTime
  <2> QED BY <2>1, <2>2, <2>3 DEF TickInv
<1>7. ASSUME NEW s \in Ticks, s # t PROVE TickInv(s)'
  <2>1. OwnUnchanged(s) /\ OnlyNewer
    BY <1>1, <1>2, <1>3, <1>7, SameIsNewer DEF OwnUnchanged, world
  <2> QED BY <1>4, <2>1, OtherKeeps
<1> QED BY <1>4, <1>5, <1>6, <1>7 DEF IInv

\* What a fetch fills is what the upstream holds.
LEMMA FillEffect ==
  ASSUME TypeOK, NEW fetched \in SUBSET Kinds, Fill(fetched), latest' = latest
  PROVE  /\ entries' \in [Kinds -> None .. LastDay] /\ OnlyNewer
         /\ \A k \in fetched : entries'[k] # None
<1>1. \A k \in Kinds : latest["candidate"][k] \in None .. LastDay /\ latest["candidate"][k] # None
  BY KindFacts DEF TypeOK, Symbols
<1>2. \A k \in Kinds : /\ entries'[k] = entries[k] \/ entries'[k] = latest["candidate"][k]
                       /\ k \in fetched => entries'[k] # None
  BY <1>1 DEF Fill
<1>3. entries' \in [Kinds -> None .. LastDay]
  BY <1>1 DEF Fill, TypeOK
<1>4. \A s \in Symbols, k \in Kinds : latest'[s][k] >= latest[s][k]
  BY DayFacts, KindFacts
<1> QED BY <1>2, <1>3, <1>4 DEF OnlyNewer

-----------------------------------------------------------------------------
(* The invariant is inductive.                                             *)

LEMMA InitHolds == Init => IInv
<1> SUFFICES ASSUME Init PROVE IInv
  OBVIOUS
<1>1. "idle" \in Steps /\ "idle" \notin PriceSeen /\ "idle" \notin Reading
  BY StepFacts
<1>2. Initially \in [Symbols -> [Kinds -> 0 .. LastDay]] /\ 0 \in None .. LastDay
  BY KindFacts
<1>3. TypeOK
  BY <1>1, <1>2, KindFacts DEF Init, TypeOK
<1>4. RunsAreFlagged
  BY KindFacts DEF Init, RunsAreFlagged
<1>5. ASSUME NEW t \in Ticks PROVE TickInv(t)
  <2>1. pc[t] = "idle" /\ used[t] = Nothing /\ ~dataStale[t]
    BY DEF Init
  <2> QED BY <1>1, <2>1, StepFacts, KindFacts
    DEF TickInv, Seen, Since, HasRead, NothingYet, OnOwnData
<1> QED BY <1>3, <1>4, <1>5 DEF IInv

LEMMA StartKeeps == ASSUME IInv, NEW t \in Ticks, Start(t) PROVE IInv'
<1>1. TypeOK /\ TickInv(t)
  BY DEF IInv
<1>2. /\ pc' \in [Ticks -> Steps] /\ pc'[t] = "exists" /\ \A s \in Ticks : s # t => pc'[s] = pc[s]
      /\ tickDay' \in [Ticks -> Days] /\ \A s \in Ticks : s # t => tickDay'[s] = tickDay[s]
  BY <1>1, StepFacts DEF TypeOK, Start
<1>3. UNCHANGED <<world, keys, now, used, dataStale, degraded, atStart, runs>>
  BY DEF Start, run
<1>4. TypeOK'
  BY <1>1, <1>2, <1>3 DEF TypeOK, world, keys
<1>5. RunsAreFlagged'
  BY <1>3 DEF IInv, RunsAreFlagged, keys
<1>6. TickInv(t)'
  <2>1. used[t] = Nothing /\ ~dataStale[t]
    BY <1>1, StepFacts DEF TickInv, NothingYet, Start
  <2> QED BY <1>2, <1>3, <2>1, StepFacts, IdleHolds
<1>7. ASSUME NEW s \in Ticks, s # t PROVE TickInv(s)'
  <2>1. OwnUnchanged(s) /\ OnlyNewer
    BY <1>1, <1>2, <1>3, <1>7, SameIsNewer DEF OwnUnchanged, world, keys
  <2> QED BY <1>4, <2>1, OtherKeeps
<1> QED BY <1>4, <1>5, <1>6, <1>7 DEF IInv

\* The steps up to the flag either return or have verified one thing more.
LEMMA CheckKeeps ==
  ASSUME IInv, NEW t \in Ticks,
         CheckFlag(t) \/ TakeCanary(t) \/ ProbePrice(t) \/ ProbeBroker(t)
  PROVE  IInv'
<1>1. TypeOK /\ TickInv(t) /\ tickDay[t] \in Days
  BY DEF IInv, TypeOK
<1>2. UNCHANGED <<world, entries, flags, runs>> /\ canary' \subseteq Days
  BY <1>1 DEF CheckFlag, TakeCanary, ProbePrice, ProbeBroker, keys, TypeOK
<1>3. pc[t] \notin AfterPurge
  BY StepFacts DEF CheckFlag, TakeCanary, ProbePrice, ProbeBroker
<1>4. CASE Return(t)
  BY <1>1, <1>2, <1>4, SameIsNewer, ReturnKeeps DEF TypeOK, world
<1>5. CASE CheckFlag(t) /\ Goto(t, "canary")
  BY <1>2, <1>3, <1>5, StepFacts, GotoKeeps
<1>6. CASE TakeCanary(t) /\ Goto(t, "probe")
  BY <1>2, <1>3, <1>6, StepFacts, GotoKeeps
<1>7. /\ latest["canary"]["history"] \in Int /\ latest["canary"]["brokerSummary"] \in Int
      /\ tickDay[t] \in Int
  BY <1>1, DayFacts, KindFacts DEF Symbols
<1>8. CASE ProbePrice(t) /\ latest["canary"]["history"] = tickDay[t] /\ Goto(t, "probeBroker")
  BY <1>2, <1>3, <1>7, <1>8, StepFacts, GotoKeeps
<1>9. CASE ProbeBroker(t) /\ BrokerReady(t) /\ Goto(t, "flag")
  <2>1. latest["canary"]["history"] >= tickDay[t]
    BY <1>1, <1>9, StepFacts DEF ProbeBroker, TickInv, Seen
  <2>2. latest["canary"]["brokerSummary"] >= tickDay[t]
    BY <1>7, <1>9 DEF BrokerReady
  <2>3. "flag" \in Steps /\ "flag" \notin Reading
    BY StepFacts
  <2> QED BY <1>2, <1>3, <1>9, <2>1, <2>2, <2>3, GotoKeeps
<1> QED BY <1>4, <1>5, <1>6, <1>8, <1>9
  DEF CheckFlag, TakeCanary, ProbePrice, ProbeBroker, Proceed

\* Only the tick that finds no flag counts a run.
LEMMA SetFlagKeeps == ASSUME IInv, NEW t \in Ticks, SetFlag(t) PROVE IInv'
<1>0. TypeOK /\ TickInv(t) /\ tickDay[t] \in Days
  BY DEF IInv, TypeOK
<1>1. CASE ~FlagFree(t)
  <2>1. Return(t) /\ flags' = flags /\ UNCHANGED <<world, entries, canary, runs>>
    BY <1>1 DEF SetFlag, Proceed, FlagFree
  <2> QED BY <1>0, <2>1, SameIsNewer, ReturnKeeps DEF TypeOK, world
<1>2. CASE FlagFree(t)
  <2> DEFINE d == tickDay[t]
  <2>1. /\ Goto(t, "purge") /\ d \in Days /\ d \notin flags
        /\ flags' = flags \cup {d} /\ runs' = [runs EXCEPT ![d] = @ + 1]
        /\ UNCHANGED <<world, entries, canary>>
    BY <1>0, <1>2 DEF SetFlag, Proceed, FlagFree
  <2>2. pc' \in [Ticks -> Steps] /\ pc'[t] = "purge" /\ \A s \in Ticks : s # t => pc'[s] = pc[s]
    BY <1>0, <2>1, StepFacts DEF TypeOK, Goto
  <2>3. UNCHANGED <<tickDay, now, used, dataStale, degraded, atStart>>
    BY <2>1 DEF Goto, run
  <2>4. runs[d] = 0 /\ runs' \in [Days -> Nat] /\ \A e \in Days : runs'[e] = IF e = d THEN 1 ELSE runs[e]
    BY <1>0, <2>1 DEF IInv, RunsAreFlagged, TypeOK
  <2>5. TypeOK'
    BY <1>0, <2>1, <2>2, <2>3, <2>4 DEF TypeOK, world
  <2>6. RunsAreFlagged'
    BY <2>1, <2>4 DEF IInv, RunsAreFlagged
  <2>7. TickInv(t)'
    <3>1. pc[t] = "flag" /\ latest' = latest
      BY <2>1 DEF SetFlag, world
    <3>2. Seen(t)'
      BY <1>0, <2>2, <2>3, <3>1, StepFacts DEF TickInv, Seen
    <3>3. Since(t)' /\ HasRead(t)'
      BY <2>2, StepFacts DEF Since, HasRead
    <3>4. NothingYet(t)' /\ OnOwnData(t)'
      BY <1>0, <2>2, <2>3, <3>1, StepFacts DEF TickInv, NothingYet, OnOwnData, OnTime
    <3> QED BY <3>2, <3>3, <3>4 DEF TickInv
  <2>8. ASSUME NEW s \in Ticks, s # t PROVE TickInv(s)'
    <3>1. OwnUnchanged(s) /\ OnlyNewer
      BY <1>0, <2>1, <2>2, <2>3, <2>8, SameIsNewer DEF OwnUnchanged, world
    <3> QED BY <2>5, <3>1, OtherKeeps
  <2> QED BY <2>5, <2>6, <2>7, <2>8 DEF IInv
<1> QED BY <1>1, <1>2

LEMMA PurgeKeeps == ASSUME IInv, NEW t \in Ticks, Purge(t) PROVE IInv'
<1>1. TypeOK /\ TickInv(t) /\ pc[t] = "purge"
  BY DEF IInv, Purge
<1>2. pc' \in [Ticks -> Steps] /\ pc'[t] = "history" /\ \A s \in Ticks : s # t => pc'[s] = pc[s]
  BY <1>1, StepFacts, KindFacts DEF TypeOK, Purge
<1>3. now' \in [Ticks -> Days] /\ \A s \in Ticks : s # t => now'[s] = now[s]
  BY <1>1 DEF TypeOK, Purge
<1>4. /\ atStart' \in [Ticks -> [Symbols -> [Kinds -> 0 .. LastDay]]] /\ atStart'[t] = latest
      /\ \A s \in Ticks : s # t => atStart'[s] = atStart[s]
  BY <1>1 DEF TypeOK, Purge
<1>5. /\ UNCHANGED <<world, canary, flags, tickDay, used, dataStale, degraded, runs>>
      /\ entries' = Nothing /\ latest' = latest
  BY DEF Purge, world
<1>6. TypeOK'
  BY <1>1, <1>2, <1>3, <1>4, <1>5, KindFacts DEF TypeOK, world
<1>7. RunsAreFlagged'
  BY <1>5 DEF IInv, RunsAreFlagged
<1>8. TickInv(t)'
  <2>1. used[t] = Nothing /\ ~dataStale[t]
    BY <1>1, StepFacts DEF TickInv, NothingYet
  <2>2. latest["canary"]["history"] >= tickDay[t] /\ latest["canary"]["brokerSummary"] >= tickDay[t]
    BY <1>1, StepFacts DEF TickInv, Seen
  <2>3. Seen(t)'
    BY <1>5, <2>2 DEF Seen
  <2>4. Since(t)'
    <3>1. \A k \in Kinds : latest["candidate"][k] >= latest["candidate"][k]
      BY <1>1, DayFacts, KindFacts DEF Symbols
    <3> QED BY <1>4, <1>5, <2>2, <3>1, KindFacts DEF Since, Checked
  <2>5. HasRead(t)' /\ NothingYet(t)'
    BY <1>2, <1>5, <2>1, StepFacts DEF HasRead, NothingYet, Checked
  <2>6. OnOwnData(t)'
    BY <1>5, <2>1, KindFacts DEF OnOwnData
  <2> QED BY <2>3, <2>4, <2>5, <2>6 DEF TickInv
<1>9. ASSUME NEW s \in Ticks, s # t PROVE TickInv(s)'
  <2>1. OwnUnchanged(s) /\ OnlyNewer
    BY <1>1, <1>2, <1>3, <1>4, <1>5, <1>9, SameIsNewer DEF OwnUnchanged
  <2> QED BY <1>6, <2>1, OtherKeeps
<1> QED BY <1>6, <1>7, <1>8, <1>9 DEF IInv

LEMMA AlertsKeep == ASSUME IInv, NEW t \in Ticks, Alerts(t) PROVE IInv'
BY StepFacts, GotoKeeps DEF Alerts, keys, IInv, TypeOK

\* The order of a candidate's reads.
LEMMA AfterFacts ==
  ASSUME NEW k \in Kinds
  PROVE  /\ After(k) \in Reading \ {"history"}
         /\ After(k) \in Reading \ Checked => k # "history"
         /\ k \in Reading \ Checked => k = "insiders"
         /\ k # "history" => k \in Reading \ {"history"}
         /\ After(k) \in Reading \ Checked /\ k # "brokerSummary" => k = "insiders"
BY ScheduleAssumption DEF ScheduleAssumption, After, Reading, Kinds, Checked

\* A read moves to the next one; it adds what the cache then holds, or a stale copy.
LEMMA ReadingKeeps ==
  ASSUME IInv, NEW t \in Ticks, NEW k \in Kinds, pc[t] = k, pc' = [pc EXCEPT ![t] = After(k)],
         entries' \in [Kinds -> None .. LastDay], OnlyNewer,
         NEW day \in 0 .. LastDay, used' = [used EXCEPT ![t][k] = day],
         degraded' \in [Ticks -> BOOLEAN], \A s \in Ticks : s # t => degraded'[s] = degraded[s],
         ~degraded'[t] => ~degraded[t] /\ day >= atStart[t]["candidate"][k],
         UNCHANGED <<world, canary, flags, tickDay, now, dataStale, atStart, runs>>
  PROVE  IInv'
<1>1. TypeOK /\ TickInv(t) /\ day \in None .. LastDay /\ day # None
  BY KindFacts DEF IInv
<1>2. pc' \in [Ticks -> Steps] /\ pc'[t] = After(k) /\ \A s \in Ticks : s # t => pc'[s] = pc[s]
  BY <1>1, AfterFacts, StepFacts DEF TypeOK
<1>3. /\ used' \in [Ticks -> [Kinds -> None .. LastDay]]
      /\ used'[t][k] = day /\ \A j \in Kinds : j # k => used'[t][j] = used[t][j]
      /\ \A s \in Ticks : s # t => used'[s] = used[s]
  BY <1>1 DEF TypeOK
<1>4. TypeOK'
  BY <1>1, <1>2, <1>3 DEF TypeOK, world
<1>5. RunsAreFlagged'
  BY DEF IInv, RunsAreFlagged
<1>6. pc[t] \in Reading /\ After(k) \in Reading /\ k \in AfterPurge /\ After(k) \in AfterPurge
  BY AfterFacts, StepFacts
<1>7. TickInv(t)'
  <2>1. Seen(t)'
    BY <1>1, <1>6, StepFacts DEF TickInv, Seen, world
  <2>2. Since(t)'
    <3>1. \A j \in Kinds : /\ latest'["candidate"][j] = latest["candidate"][j]
                           /\ latest["candidate"][j] >= atStart[t]["candidate"][j]
                           /\ entries[j] # None => entries[j] >= atStart[t]["candidate"][j]
      BY <1>1, <1>6 DEF TickInv, Since, world
    <3>2. \A j \in Kinds : entries'[j] # None => entries'[j] >= atStart[t]["candidate"][j]
      BY <3>1 DEF OnlyNewer
    <3> QED BY <1>1, <1>6, <3>1, <3>2 DEF TickInv, Since
  <2>3. HasRead(t)'
    <3>1. k # "history" => used[t]["history"] # None
      BY <1>1, AfterFacts DEF TickInv, HasRead
    <3>2. used'[t]["history"] # None
      BY <1>1, <1>3, <3>1, KindFacts
    <3>3. ASSUME After(k) \in Reading \ Checked PROVE used'[t]["brokerSummary"] # None
      <4>1. CASE k = "brokerSummary"
        BY <1>1, <1>3, <4>1
      <4>2. CASE k # "brokerSummary"
        <5>1. k = "insiders"
          BY <3>3, <4>2, AfterFacts
        <5>2. k \in Reading \ Checked
          BY <1>6, <5>1 DEF Checked
        <5>3. used[t]["brokerSummary"] # None
          BY <1>1, <5>2 DEF TickInv, HasRead
        <5> QED BY <1>3, <4>2, <5>3, KindFacts
      <4> QED BY <4>1, <4>2
    <3> QED BY <1>2, <3>2, <3>3 DEF HasRead
  <2>4. NothingYet(t)'
    BY <1>2, <1>6 DEF NothingYet
  <2>5. OnOwnData(t)'
    <3>1. ~degraded'[t] => OnOwnData(t) /\ ~degraded[t]
      BY <1>1 DEF TickInv
    <3>2. ~degraded'[t] =>
            \A j \in Kinds : used'[t][j] # None => used'[t][j] >= atStart[t]["candidate"][j]
      BY <1>3, <3>1 DEF OnOwnData
    <3> QED BY <3>1, <3>2 DEF OnOwnData, OnTime
  <2> QED BY <2>1, <2>2, <2>3, <2>4, <2>5 DEF TickInv
<1>8. ASSUME NEW s \in Ticks, s # t PROVE TickInv(s)'
  <2>1. OwnUnchanged(s)
    BY <1>2, <1>3, <1>8 DEF OwnUnchanged
  <2> QED BY <1>4, <2>1, OtherKeeps
<1> QED BY <1>4, <1>5, <1>7, <1>8 DEF IInv

LEMMA ReadKeeps == ASSUME IInv, NEW t \in Ticks, NEW k \in Kinds, Read(t, k) PROVE IInv'
<1>1. TypeOK /\ TickInv(t)
  BY DEF IInv
<1>2. /\ {k} \in SUBSET Kinds /\ Fill({k}) /\ pc[t] = k /\ pc' = [pc EXCEPT ![t] = After(k)]
      /\ UNCHANGED <<world, canary, flags, tickDay, now, dataStale, degraded, atStart, runs>>
      /\ used' = [used EXCEPT ![t][k] = entries'[k]] /\ latest' = latest
  BY DEF Read, world
<1>3. entries' \in [Kinds -> None .. LastDay] /\ OnlyNewer /\ entries'[k] # None
  BY <1>1, <1>2, FillEffect
<1>4. entries'[k] >= atStart[t]["candidate"][k]
  <2>1. Since(t) /\ pc[t] \in Reading
    BY <1>1, <1>2, StepFacts DEF TickInv
  <2> QED BY <1>3, <2>1 DEF Since, OnlyNewer
<1>5. entries'[k] \in 0 .. LastDay
  BY <1>3, KindFacts
<1>6. degraded' \in [Ticks -> BOOLEAN] /\ degraded' = degraded
  BY <1>1, <1>2 DEF TypeOK
<1> QED BY <1>2, <1>3, <1>4, <1>5, <1>6, ReadingKeeps

LEMMA ReadStaleKeeps == ASSUME IInv, NEW t \in Ticks, NEW k \in Kinds, ReadStale(t, k) PROVE IInv'
<1>1. TypeOK
  BY DEF IInv
<1>2. /\ pc[t] = k /\ pc' = [pc EXCEPT ![t] = After(k)]
      /\ UNCHANGED <<world, keys, tickDay, now, dataStale, atStart, runs>>
      /\ degraded' = [degraded EXCEPT ![t] = TRUE]
  BY DEF ReadStale
<1>3. PICK day \in 0 .. latest["candidate"][k] : used' = [used EXCEPT ![t][k] = day]
  BY DEF ReadStale
<1>4. day \in 0 .. LastDay
  BY <1>1, <1>3, DayFacts, KindFacts DEF Symbols
<1>5. degraded' \in [Ticks -> BOOLEAN] /\ degraded'[t]
      /\ \A s \in Ticks : s # t => degraded'[s] = degraded[s]
  BY <1>1, <1>2 DEF TypeOK
<1>6. entries' = entries /\ entries' \in [Kinds -> None .. LastDay] /\ OnlyNewer
      /\ canary' = canary /\ flags' = flags
  BY <1>1, <1>2, SameIsNewer DEF keys, world, TypeOK
<1> QED BY <1>2, <1>3, <1>4, <1>5, <1>6, ReadingKeeps

\* A run that is done with its candidate, and knows of it no more than its mark.
LEMMA DoneKeeps ==
  ASSUME IInv, NEW t \in Ticks, pc' = [pc EXCEPT ![t] = "alerts"], UNCHANGED <<world, keys, tickDay, runs>>,
         TypeOK', \A s \in Ticks : s # t => OwnUnchanged(s), OnOwnData(t)'
  PROVE  IInv'
<1>1. TypeOK
  BY DEF IInv
<1>2. pc'[t] = "alerts"
  BY <1>1 DEF TypeOK
<1>3. RunsAreFlagged'
  BY DEF IInv, RunsAreFlagged, keys
<1>4. TickInv(t)'
  BY <1>2, StepFacts DEF TickInv, Seen, Since, HasRead, NothingYet
<1>5. OnlyNewer
  BY <1>1, SameIsNewer DEF world, keys
<1> QED BY <1>3, <1>4, <1>5, OtherKeeps DEF IInv

LEMMA SkipKeeps ==
  ASSUME IInv, NEW t \in Ticks, NEW k \in Kinds \cup {"score"}, Skip(t, k) PROVE IInv'
<1>1. TypeOK
  BY DEF IInv
<1>2. /\ pc' = [pc EXCEPT ![t] = "alerts"] /\ Forget(t) /\ UNCHANGED <<world, keys, tickDay, runs>>
  BY DEF Skip
<1>3. pc' \in [Ticks -> Steps] /\ \A s \in Ticks : s # t => pc'[s] = pc[s]
  BY <1>1, <1>2, StepFacts DEF TypeOK
<1>4. TypeOK'
  BY <1>1, <1>2, <1>3, ForgetEffect DEF TypeOK, world, keys
<1>5. \A s \in Ticks : s # t => OwnUnchanged(s)
  BY <1>1, <1>2, <1>3, ForgetEffect DEF OwnUnchanged
<1>6. OnOwnData(t)'
  BY <1>1, <1>2, ForgetEffect, KindFacts DEF OnOwnData
<1> QED BY <1>2, <1>4, <1>5, <1>6, DoneKeeps

\* The mark is set only for what the canary did not stand for.
LEMMA ScoreKeeps == ASSUME IInv, NEW t \in Ticks, Score(t) PROVE IInv'
<1>1. TypeOK /\ TickInv(t) /\ pc[t] = "score"
  BY DEF IInv, Score
<1>2. /\ pc' = [pc EXCEPT ![t] = "alerts"]
      /\ dataStale' = [dataStale EXCEPT ![t] = \E k \in Checked : OlderThan(used[t][k], t)]
      /\ UNCHANGED <<world, keys, tickDay, now, used, degraded, atStart, runs>>
  BY DEF Score
<1>3. pc' \in [Ticks -> Steps] /\ \A s \in Ticks : s # t => pc'[s] = pc[s]
  BY <1>1, <1>2, StepFacts DEF TypeOK
<1>4. /\ dataStale' \in [Ticks -> BOOLEAN] /\ \A s \in Ticks : s # t => dataStale'[s] = dataStale[s]
      /\ dataStale'[t] = \E k \in Checked : used[t][k] < now[t]
  BY <1>1, <1>2 DEF TypeOK, OlderThan
<1>5. TypeOK'
  BY <1>1, <1>2, <1>3, <1>4 DEF TypeOK, world, keys
<1>6. \A s \in Ticks : s # t => OwnUnchanged(s)
  BY <1>2, <1>3, <1>4 DEF OwnUnchanged
<1>7. OnOwnData(t)'
  <2>1. OnOwnData(t) /\ Since(t) /\ HasRead(t) /\ pc[t] \in Reading
    BY <1>1, StepFacts DEF TickInv
  <2>2. \A k \in Checked : used[t][k] # None
    BY <1>1, <2>1, StepFacts DEF HasRead, Checked
  <2>3. ASSUME ~degraded[t], OnTime(t), NEW k \in Checked, used[t][k] < now[t]
        PROVE  now[t] > tickDay[t]
    <3>1. used[t][k] >= atStart[t]["candidate"][k]
      BY <2>1, <2>2, <2>3, KindFacts DEF OnOwnData
    <3>2. atStart[t]["candidate"][k] >= atStart[t]["canary"][k]
      BY <2>3 DEF OnTime
    <3>3. atStart[t]["canary"][k] >= tickDay[t]
      BY <2>1 DEF Since
    <3>4. /\ used[t][k] \in Int /\ atStart[t]["candidate"][k] \in Int /\ atStart[t]["canary"][k] \in Int
          /\ tickDay[t] \in Int /\ now[t] \in Int
      BY <1>1, DayFacts, KindFacts DEF Symbols
    <3> QED BY <2>3, <3>1, <3>2, <3>3, <3>4
  <2>4. ~degraded[t] /\ dataStale'[t] => ~OnTime(t) \/ now[t] > tickDay[t]
    BY <1>4, <2>3
  <2> QED BY <1>2, <2>1, <2>4 DEF OnOwnData, OnTime
<1> QED BY <1>2, <1>5, <1>6, <1>7, DoneKeeps

LEMMA ShadowKeeps == ASSUME IInv, NEW t \in Ticks, Shadow(t) PROVE IInv'
<1>1. TypeOK
  BY DEF IInv
<1> PICK fetched \in SUBSET Checked : Fill(fetched)
  BY DEF Shadow
<1>2. fetched \in SUBSET Kinds
  BY KindFacts
<1>3. Return(t) /\ UNCHANGED <<world, canary, flags, runs>> /\ latest' = latest
  BY DEF Shadow, world
<1>4. entries' \in [Kinds -> None .. LastDay] /\ OnlyNewer
  BY <1>1, <1>2, <1>3, FillEffect
<1> QED BY <1>1, <1>3, <1>4, ReturnKeeps DEF TypeOK

LEMMA FailKeeps == ASSUME IInv, NEW t \in Ticks, Fail(t) PROVE IInv'
<1>1. UNCHANGED <<world, entries, runs>> /\ Return(t) /\ TypeOK
  BY DEF Fail, IInv
<1>2. canary' \subseteq Days /\ flags \subseteq flags' /\ flags' \subseteq Days
  BY <1>1 DEF Fail, TypeOK
<1> QED BY <1>1, <1>2, SameIsNewer, ReturnKeeps DEF TypeOK, world

LEMMA CrashKeeps == ASSUME IInv, Crash PROVE IInv'
<1>1. TypeOK /\ "idle" \in Steps /\ "idle" \notin PriceSeen \cup Reading
  BY StepFacts DEF IInv
<1>2. TypeOK'
  BY <1>1, KindFacts DEF Crash, TypeOK, world, keys
<1>3. RunsAreFlagged'
  BY DEF IInv, Crash, RunsAreFlagged, keys
<1>4. \A t \in Ticks : pc'[t] = "idle" /\ used'[t] = Nothing /\ ~dataStale'[t]
  BY DEF Crash
<1>5. \A t \in Ticks : TickInv(t)'
  BY <1>1, <1>4, IdleHolds
<1> QED BY <1>2, <1>3, <1>5 DEF IInv

\* Keys only disappear, the upstream only publishes, the rest touches nothing of this.
LEMMA EnvironmentKeeps ==
  ASSUME IInv, CanaryExpires \/ EntryExpires \/ Publish \/ Clock \/ Disturb PROVE IInv'
<1>1. TypeOK /\ UNCHANGED <<flags, ticks, runs>>
  BY DEF IInv, CanaryExpires, EntryExpires, Publish, Clock, Disturb, keys
<1>2. /\ entries' \in [Kinds -> None .. LastDay]
      /\ \A k \in Kinds : entries'[k] # None => entries'[k] = entries[k]
  BY <1>1, KindFacts DEF CanaryExpires, EntryExpires, Publish, Clock, Disturb, keys, TypeOK
<1>3. /\ latest' \in [Symbols -> [Kinds -> 0 .. LastDay]]
      /\ \A s \in Symbols, k \in Kinds : latest'[s][k] >= latest[s][k]
  <2>1. CASE Publish
    <3>1. PICK s \in Symbols, k \in Kinds, d \in Trading :
            latest[s][k] < d /\ latest' = [latest EXCEPT ![s][k] = d]
      BY <2>1 DEF Publish
    <3>2. d \in 0 .. LastDay /\ d \in Int
      BY KindFacts DEF Days
    <3>3. latest' \in [Symbols -> [Kinds -> 0 .. LastDay]]
      BY <1>1, <3>1, <3>2 DEF TypeOK
    <3>4. \A r \in Symbols, j \in Kinds : latest'[r][j] = IF r = s /\ j = k THEN d ELSE latest[r][j]
      BY <1>1, <3>1 DEF TypeOK
    <3>5. \A r \in Symbols, j \in Kinds : latest[r][j] \in Int
      BY <1>1, DayFacts
    <3> QED BY <3>1, <3>2, <3>3, <3>4, <3>5
  <2>2. CASE CanaryExpires \/ EntryExpires \/ Clock \/ Disturb
    <3>1. latest' = latest
      BY <2>2 DEF CanaryExpires, EntryExpires, Clock, Disturb, world
    <3> QED BY <1>1, <3>1, DayFacts DEF TypeOK
  <2> QED BY <2>1, <2>2
<1>4. canary' \subseteq Days
  BY <1>1 DEF CanaryExpires, EntryExpires, Publish, Clock, Disturb, keys, TypeOK, Expiring
<1>5. today' \in Days /\ window' \in {"before", "open", "over"} /\ up' \in BOOLEAN
  <2>1. CASE CanaryExpires \/ EntryExpires \/ Publish \/ Disturb
    BY <1>1, <2>1 DEF CanaryExpires, EntryExpires, Publish, Disturb, world, TypeOK
  <2>2. CASE Clock
    <3>1. today' \in Days
      BY <1>1, <2>2, KindFacts DEF Clock, TypeOK, Days
    <3> QED BY <1>1, <2>2, <3>1 DEF Clock, TypeOK
  <2> QED BY <2>1, <2>2
<1>6. TypeOK'
  BY <1>1, <1>2, <1>3, <1>4, <1>5 DEF TypeOK, ticks, run
<1>7. RunsAreFlagged'
  BY <1>1 DEF IInv, RunsAreFlagged
<1>8. ASSUME NEW s \in Ticks PROVE TickInv(s)'
  <2>1. OwnUnchanged(s)
    BY <1>1 DEF OwnUnchanged, ticks, run
  <2>2. OnlyNewer
    BY <1>2, <1>3 DEF OnlyNewer
  <2> QED BY <1>6, <2>1, <2>2, OtherKeeps
<1> QED BY <1>6, <1>7, <1>8 DEF IInv

LEMMA NextKeeps == IInv /\ [Next]_vars => IInv'
<1> SUFFICES ASSUME IInv, [Next]_vars PROVE IInv'
  OBVIOUS
<1>1. ASSUME NEW t \in Ticks, Start(t) \/ Fail(t) PROVE IInv'
  BY <1>1, StartKeeps, FailKeeps
<1>2. ASSUME NEW t \in Ticks, Work(t) PROVE IInv'
  <2>1. CASE CheckFlag(t) \/ TakeCanary(t) \/ ProbePrice(t) \/ ProbeBroker(t) \/ SetFlag(t)
    BY <2>1, CheckKeeps, SetFlagKeeps
  <2>2. CASE Purge(t) \/ Score(t) \/ Alerts(t) \/ Shadow(t)
    BY <2>2, PurgeKeeps, ScoreKeeps, AlertsKeep, ShadowKeeps
  <2>3. ASSUME NEW k \in Kinds, Read(t, k) \/ ReadStale(t, k) PROVE IInv'
    BY <2>3, ReadKeeps, ReadStaleKeeps
  <2>4. ASSUME NEW k \in Kinds \cup {"score"}, Skip(t, k) PROVE IInv'
    BY <2>4, SkipKeeps
  <2> QED BY <1>2, <2>1, <2>2, <2>3, <2>4 DEF Work
<1>3. CASE Crash
  BY <1>3, CrashKeeps
<1>4. CASE CanaryExpires \/ EntryExpires \/ Publish \/ Clock \/ Disturb
  BY <1>4, EnvironmentKeeps
<1>5. CASE UNCHANGED vars
  <2>1. UNCHANGED <<world, keys, pc, tickDay, now, used, dataStale, degraded, atStart, runs>> /\ TypeOK
    BY <1>5 DEF vars, ticks, run, IInv
  <2>2. TypeOK' /\ RunsAreFlagged'
    BY <2>1 DEF IInv, TypeOK, RunsAreFlagged, world, keys
  <2>3. OnlyNewer /\ \A s \in Ticks : OwnUnchanged(s)
    BY <2>1, SameIsNewer DEF world, keys, OwnUnchanged
  <2> QED BY <2>2, <2>3, OtherKeeps DEF IInv
<1> QED BY <1>1, <1>2, <1>3, <1>4, <1>5 DEF Next

-----------------------------------------------------------------------------
(* The theorems.                                                           *)

\* The invariant the other theorems follow from.
THEOREM InductiveInvariant == Spec => []IInv
BY InitHolds, NextKeeps, PTL DEF Spec

\* Every reachable state of the schedule is well typed.
THEOREM TypeCorrect == Spec => []TypeOK
<1>1. IInv => TypeOK
  BY DEF IInv
<1> QED BY <1>1, InductiveInvariant, PTL

\* A trading day has at most one run, however ticks overlap, fail and restart.
THEOREM RunIsUnique == Spec => []OneRunPerDay
<1>1. IInv => OneRunPerDay
  BY DEF IInv, RunsAreFlagged, OneRunPerDay
<1> QED BY <1>1, InductiveInvariant, PTL

\* Unless it got a stale copy, a run reads nothing of a candidate older than what was
\* published of it when the run began, and marks it stale only if the candidate was then
\* published less far than the canary, or the run began after its day.
THEOREM DataAreOwn == Spec => []RunsOnOwnData
<1>1. IInv => RunsOnOwnData
  BY DEF IInv, TickInv, RunsOnOwnData
<1> QED BY <1>1, InductiveInvariant, PTL

=============================================================================
