---------------------------- MODULE AdapterProofs ----------------------------
(***************************************************************************)
(* Proofs about the two sides of the worker's upstream adapter: the calls   *)
(* through the circuit breaker (UpstreamCalls), for every set of calls,     *)
(* threshold, cooldown and number of attempts, and the single-flight cache  *)
(* (SingleFlight), for every set of callers, with and without caching, for  *)
(* any wait budget and number of published versions.                        *)
(***************************************************************************)
EXTENDS UpstreamCalls, SingleFlight, TLAPS

-----------------------------------------------------------------------------
(* The calls through the breaker.                                          *)


\* The breaker's clock never runs ahead of the failures: openedAt is no older
\* than the last recorded failure.
OpenedByAFailure == openFor # Never => openFor <= sinceFailure

\* A call that waits to retry has an attempt left.
AttemptLeft == \A c \in Calls : at[c] = "backoff" => attempt[c] < MaxAttempts

CallsInv == CallsTypeOK /\ BreakerConsistent /\ OpenedByAFailure /\ AttemptLeft

-----------------------------------------------------------------------------
(* What the breaker's methods do to its invariant.                         *)

LEMMA NumbersAreOrdered ==
  /\ Threshold \in Nat /\ Threshold > 0
  /\ Cooldown \in Nat /\ Cooldown > 0
  /\ MaxAttempts \in Nat /\ MaxAttempts > 0
  /\ Never \notin 0 .. Cooldown /\ Never = -1
BY BreakerAssumption, CallsAssumption DEF BreakerAssumption, CallsAssumption, Never

LEMMA AdmitKeeps ==
  ASSUME BreakerTypeOK, BreakerConsistent, Admit
  PROVE  BreakerTypeOK' /\ BreakerConsistent' /\ openFor' = openFor
BY NumbersAreOrdered DEF BreakerTypeOK, BreakerConsistent, Admit, Admits

LEMMA SuccessKeeps ==
  ASSUME BreakerTypeOK, BreakerConsistent, RecordSuccess
  PROVE  BreakerTypeOK' /\ BreakerConsistent' /\ openFor' = Never
BY NumbersAreOrdered DEF BreakerTypeOK, BreakerConsistent, RecordSuccess

LEMMA FailureKeeps ==
  ASSUME BreakerTypeOK, BreakerConsistent, RecordFailure
  PROVE  BreakerTypeOK' /\ BreakerConsistent' /\ openFor' \in {Never, 0}
<1>1. failures' \in 0 .. Threshold /\ failures' >= failures
  BY NumbersAreOrdered DEF BreakerTypeOK, RecordFailure, MoreFailures
<1>2. CASE state = "half-open" \/ failures' >= Threshold
  BY <1>1, <1>2, NumbersAreOrdered DEF BreakerTypeOK, BreakerConsistent, RecordFailure
<1>3. CASE ~(state = "half-open" \/ failures' >= Threshold)
  <2>1. state' = state /\ openFor' = openFor /\ failures' < Threshold
    BY <1>1, <1>3, NumbersAreOrdered DEF RecordFailure
  <2>2. state = "closed"
    BY <1>1, <1>3, NumbersAreOrdered DEF BreakerTypeOK, BreakerConsistent
  <2> QED
    BY <1>1, <2>1, <2>2 DEF BreakerTypeOK, BreakerConsistent
<1> QED
  BY <1>2, <1>3

-----------------------------------------------------------------------------
LEMMA CallsStart == CallsInit => CallsInv
  BY NumbersAreOrdered DEF CallsInit, BreakerInit, CallsInv, CallsTypeOK, BreakerTypeOK,
     BreakerConsistent, OpenedByAFailure, AttemptLeft

\* The calls keep their types when one of them starts, retries or finishes.
LEMMA FinishKeeps ==
  ASSUME CallsTypeOK, AttemptLeft, NEW c \in Calls, Finish(c)
  PROVE  /\ at' \in [Calls -> {"idle", "fetching", "backoff"}]
         /\ attempt' \in [Calls -> 0 .. MaxAttempts]
         /\ AttemptLeft'
BY NumbersAreOrdered DEF CallsTypeOK, AttemptLeft, Finish

LEMMA CallsKeep == CallsInv /\ [CallsNext]_callsVars => CallsInv'
<1> SUFFICES ASSUME CallsInv, [CallsNext]_callsVars PROVE CallsInv'
  OBVIOUS
<1> USE NumbersAreOrdered DEF CallsInv, OpenedByAFailure
<1>0. \A c \in Calls : at[c] \in {"idle", "fetching", "backoff"} /\ attempt[c] \in 0 .. MaxAttempts
  BY DEF CallsTypeOK
<1>1. ASSUME NEW c \in Calls, Begin(c) PROVE CallsInv'
  <2>1. BreakerTypeOK' /\ BreakerConsistent' /\ openFor' = openFor
    BY <1>1, AdmitKeeps DEF Begin, CallsTypeOK
  <2> QED
    BY <1>1, <2>1 DEF Begin, CallsTypeOK, Fetch, AttemptLeft
<1>2. ASSUME NEW c \in Calls, Succeed(c) PROVE CallsInv'
  <2>1. BreakerTypeOK' /\ BreakerConsistent' /\ openFor' = Never
    BY <1>2, SuccessKeeps DEF Succeed, CallsTypeOK
  <2> QED
    BY <1>2, <2>1, FinishKeeps DEF Succeed, CallsTypeOK
<1>3. ASSUME NEW c \in Calls, Reject(c) PROVE CallsInv'
  <2>1. BreakerTypeOK' /\ BreakerConsistent' /\ openFor' \in {Never, 0}
    BY <1>3, FailureKeeps DEF Reject, CallsTypeOK
  <2> QED
    BY <1>3, <2>1, FinishKeeps DEF Reject, CallsTypeOK
<1>4. ASSUME NEW c \in Calls, Transient(c) PROVE CallsInv'
  <2>1. BreakerTypeOK' /\ BreakerConsistent' /\ openFor' \in {Never, 0}
    BY <1>4, FailureKeeps DEF Transient, CallsTypeOK
  <2>2. CASE Finish(c)
    BY <1>4, <2>1, <2>2, FinishKeeps DEF Transient, CallsTypeOK
  <2>3. CASE at' = [at EXCEPT ![c] = "backoff"] /\ UNCHANGED attempt
    <3>1. attempt[c] < MaxAttempts
      BY <1>4, <2>3, <1>0 DEF Transient, Finish, MayRetry, CallsTypeOK
    <3> QED
      BY <1>4, <2>1, <2>3, <3>1 DEF Transient, CallsTypeOK, AttemptLeft
  <2> QED
    BY <1>4, <2>2, <2>3 DEF Transient
<1>5. ASSUME NEW c \in Calls, Retry(c) PROVE CallsInv'
  <2>1. attempt[c] + 1 \in 0 .. MaxAttempts
    BY <1>5, <1>0 DEF Retry, AttemptLeft
  <2> QED
    BY <1>5, <2>1 DEF Retry, Fetch, CallsTypeOK, BreakerTypeOK, BreakerConsistent, breaker, AttemptLeft
<1>6. CASE Restart
  BY <1>6 DEF Restart, CallsTypeOK, BreakerTypeOK, BreakerConsistent, AttemptLeft
<1>7. CASE Tick
  BY <1>7 DEF Tick, Elapse, CallsTypeOK, BreakerTypeOK, BreakerConsistent, breaker, AttemptLeft
<1>8. CASE UpstreamChanges
  BY <1>8 DEF UpstreamChanges, CallsTypeOK, BreakerTypeOK, BreakerConsistent, AttemptLeft
<1>9. CASE UNCHANGED callsVars
  BY <1>9 DEF callsVars, CallsTypeOK, BreakerTypeOK, BreakerConsistent, AttemptLeft
<1> QED
  BY <1>1, <1>2, <1>3, <1>4, <1>5, <1>6, <1>7, <1>8, <1>9 DEF CallsNext, Settle

-----------------------------------------------------------------------------
(* The theorems about the breaker's calls.                                 *)

\* The strengthened invariant holds in every state.
THEOREM CallsInvariant == CallsSpec => []CallsInv
  BY CallsStart, CallsKeep, PTL DEF CallsSpec

\* Types, and with them the bound on the attempts of a call.
THEOREM CallsTypeCorrect == CallsSpec => []CallsTypeOK
<1>1. CallsInv => CallsTypeOK
  BY DEF CallsInv
<1> QED
  BY <1>1, CallsInvariant, PTL

\* The fields of circuitBreaker.ts agree after any mix of concurrent outcomes,
\* retries, stragglers and restarts.
THEOREM BreakerIsConsistent == CallsSpec => []BreakerConsistent
<1>1. CallsInv => BreakerConsistent
  BY DEF CallsInv
<1> QED
  BY <1>1, CallsInvariant, PTL

\* No new call enters within the cooldown of a failure that the circuit opened
\* for, whichever call recorded it.
THEOREM CooldownIsRespected == CallsSpec => CooldownRespected
<1> DEFINE A == \A c \in Calls :
                  at[c] = "idle" /\ at'[c] = "fetching" =>
                    failures < Threshold \/ sinceFailure = Cooldown
<1>1. CallsInv /\ [CallsNext]_callsVars => [A]_callsVars
  <2> SUFFICES ASSUME CallsInv, CallsNext, NEW c \in Calls, at[c] = "idle", at'[c] = "fetching"
               PROVE  failures < Threshold \/ sinceFailure = Cooldown
    OBVIOUS
  <2>1. ASSUME NEW d \in Calls, Begin(d)
        PROVE  failures < Threshold \/ sinceFailure = Cooldown
    BY <2>1, NumbersAreOrdered
    DEF Begin, Admit, Admits, CallsInv, CallsTypeOK, BreakerTypeOK, BreakerConsistent, OpenedByAFailure
  <2>2. ASSUME NEW d \in Calls, Settle(d) PROVE FALSE
    BY <2>2 DEF Settle, Succeed, Reject, Transient, Finish, CallsInv, CallsTypeOK
  <2>3. ASSUME NEW d \in Calls, Retry(d) PROVE FALSE
    BY <2>3 DEF Retry, Fetch, CallsInv, CallsTypeOK
  <2>4. CASE Restart \/ Tick \/ UpstreamChanges
    BY <2>4 DEF Restart, Tick, UpstreamChanges, CallsInv, CallsTypeOK
  <2> QED
    BY <2>1, <2>2, <2>3, <2>4 DEF CallsNext
<1> QED
  BY <1>1, CallsInvariant, PTL DEF CallsSpec, CooldownRespected

-----------------------------------------------------------------------------
(* The single-flight cache.                                                *)

\* Nothing in Redis or in flight is newer than the upstream's data.
Bounded ==
  /\ cache <= published /\ stale <= published /\ floor <= published
  /\ \A c \in Callers : val[c] <= published

\* A leader that is about to write holds a response no older than the entries.
Newest ==
  ~overrun => \A c \in Callers :
    pc[c] \in {"setCache", "setStale"} => val[c] >= cache /\ val[c] >= stale

\* Neither does the entry predate the last purge, nor a response about to become it.
AboveFloor ==
  /\ NothingOlderThanPurge
  /\ \A c \in Callers : pc[c] = "setCache" => val[c] >= floor

IInv == TypeOK /\ OneLeader /\ Bounded /\ Newest /\ AboveFloor

-----------------------------------------------------------------------------
(* Lemmas on the parts of actions.                                         *)

LEMMA Constants ==
  /\ Free \notin Callers /\ Cached \in BOOLEAN
  /\ MaxPolls \in Nat /\ MaxVersion \in Nat /\ MaxVersion > 0
BY SingleFlightAssumption DEF SingleFlightAssumption

\* What a goto does to the program counters.
LEMMA GotoEffect ==
  ASSUME TypeOK, NEW c \in Callers, NEW step, Goto(c, step)
  PROVE  /\ pc'[c] = step
         /\ \A d \in Callers : d # c => pc'[d] = pc[d]
         /\ step \in LeaderSteps \cup {"idle", "lease", "poll", "pollLease", "direct"} =>
              pc' \in [Callers -> LeaderSteps \cup {"idle", "lease", "poll", "pollLease", "direct"}]
BY DEF TypeOK, Goto

\* What leaving does to the call's state and to the history.
LEMMA LeaveEffect ==
  ASSUME TypeOK, NEW c \in Callers, Leave(c)
  PROVE  /\ pc'[c] = "idle" /\ \A d \in Callers : d # c => pc'[d] = pc[d] /\ val'[d] = val[d]
         /\ val'[c] = None
         /\ pc' \in [Callers -> LeaderSteps \cup {"idle", "lease", "poll", "pollLease", "direct"}]
         /\ val' \in [Callers -> Versions] /\ polls' \in [Callers -> 0 .. MaxPolls]
         /\ overrun' \in BOOLEAN /\ floor' = floor
         /\ overrun => overrun' \/ Leaders \subseteq {c}
         /\ overrun' => overrun
<1>1. pc'[c] = "idle" /\ \A d \in Callers : d # c => pc'[d] = pc[d]
  BY GotoEffect DEF Leave
<1>2. pc' \in [Callers -> LeaderSteps \cup {"idle", "lease", "poll", "pollLease", "direct"}]
  BY GotoEffect DEF Leave
<1>3. None \in Versions /\ 0 \in 0 .. MaxPolls
  BY Constants DEF None, Versions
<1>4. /\ val' \in [Callers -> Versions] /\ val'[c] = None
      /\ \A d \in Callers : d # c => val'[d] = val[d]
  BY <1>3 DEF Leave, TypeOK
<1>5. polls' \in [Callers -> 0 .. MaxPolls]
  BY <1>3 DEF Leave, TypeOK
<1>6. floor' = floor
  BY DEF Leave, TypeOK
<1>7. /\ overrun' \in BOOLEAN
      /\ overrun => overrun' \/ Leaders \subseteq {c}
      /\ overrun' => overrun
  BY DEF Leave
<1> QED BY <1>1, <1>2, <1>4, <1>5, <1>6, <1>7

-----------------------------------------------------------------------------
(* The inductive invariant.                                                *)

LEMMA InitHolds == Init => IInv
<1> SUFFICES ASSUME Init PROVE IInv
  OBVIOUS
<1>1. None \in Versions /\ 1 \in 1 .. MaxVersion /\ 0 \in 0 .. MaxPolls /\ None <= 1
  BY Constants DEF None, Versions
<1>2. \A c \in Callers : pc[c] = "idle" /\ val[c] = None
  BY DEF Init
<1>3. TypeOK
  BY <1>1 DEF Init, TypeOK
<1>4. OneLeader /\ Newest
  BY <1>2 DEF OneLeader, Newest, Leaders, Leading, LeaderSteps
<1>5. Bounded
  BY <1>1, <1>2 DEF Init, Bounded
<1>6. AboveFloor
  BY <1>2 DEF Init, AboveFloor, NothingOlderThanPurge
<1> QED BY <1>3, <1>4, <1>5, <1>6 DEF IInv

\* A call that leaves, whatever it does to the lease: the other calls keep what
\* the invariant says of them.
LEMMA LeaveKeeps ==
  ASSUME IInv, NEW c \in Callers, Leave(c),
         lease' \in Callers \cup {Free},
         \A d \in Leaders \ {c} : ~overrun => lease' = d,
         UNCHANGED <<cache, stale, purging, published>>
  PROVE  IInv'
<1> USE DEF IInv
<1>1. TypeOK'
  BY LeaveEffect DEF TypeOK
<1>2. OneLeader'
  <2> SUFFICES ASSUME ~overrun', NEW d \in Callers, Leading(d)' PROVE lease' = d
    BY DEF OneLeader, Leaders
  <2>1. d # c /\ Leading(d)
    BY LeaveEffect DEF Leading, LeaderSteps
  <2>2. ~overrun
    BY <2>1, LeaveEffect DEF Leaders
  <2> QED BY <2>1, <2>2 DEF Leaders
<1>3. Bounded'
  <2>1. None <= published
    BY DEF TypeOK, None
  <2> QED BY <2>1, LeaveEffect DEF Bounded
<1>4. Newest'
  <2> SUFFICES ASSUME ~overrun', NEW d \in Callers, pc'[d] \in {"setCache", "setStale"}
               PROVE  val'[d] >= cache' /\ val'[d] >= stale'
    BY DEF Newest
  <2>1. d # c /\ pc[d] = pc'[d] /\ val'[d] = val[d]
    BY LeaveEffect
  <2>2. ~overrun
    BY <2>1, LeaveEffect DEF Leaders, Leading, LeaderSteps
  <2> QED BY <2>1, <2>2 DEF Newest
<1>5. AboveFloor'
  BY LeaveEffect DEF AboveFloor, NothingOlderThanPurge
<1> QED BY <1>1, <1>2, <1>3, <1>4, <1>5

LEMMA MissKeeps == ASSUME IInv, NEW c \in Callers, Miss(c) PROVE IInv'
<1>1. Goto(c, "lease") /\ pc[c] = "idle"
  BY DEF Miss
<1>2. TypeOK'
  BY <1>1, GotoEffect DEF IInv, TypeOK, Miss, redis, ghost
<1>3. OneLeader'
  BY <1>1, GotoEffect DEF IInv, OneLeader, Leaders, Leading, LeaderSteps, Miss, redis, ghost
<1>4. Bounded' /\ Newest' /\ AboveFloor'
  BY <1>1, GotoEffect DEF IInv, Bounded, Newest, AboveFloor, NothingOlderThanPurge, Miss, redis, ghost
<1> QED BY <1>2, <1>3, <1>4 DEF IInv

LEMMA AcquireKeeps == ASSUME IInv, NEW c \in Callers, Acquire(c) PROVE IInv'
<1> USE DEF IInv
<1>1. CASE lease = Free /\ lease' = c /\ Goto(c, "fetch")
           /\ UNCHANGED <<val, polls, overrun, floor>>
  <2>1. TypeOK'
    BY <1>1, GotoEffect DEF TypeOK, Acquire, LeaderSteps
  <2>2. OneLeader'
    <3> SUFFICES ASSUME ~overrun', NEW d \in Callers, Leading(d)' PROVE lease' = d
      BY DEF OneLeader, Leaders
    <3>1. CASE d = c
      BY <3>1, <1>1
    <3>2. CASE d # c
      BY <3>2, <1>1, GotoEffect, Constants DEF OneLeader, Leaders, Leading
    <3> QED BY <3>1, <3>2
  <2>3. Bounded' /\ Newest' /\ AboveFloor'
    BY <1>1, GotoEffect DEF Bounded, Newest, AboveFloor, NothingOlderThanPurge, Acquire
  <2> QED BY <2>1, <2>2, <2>3
<1>2. CASE lease # Free /\ Goto(c, "poll") /\ polls' = [polls EXCEPT ![c] = MaxPolls]
           /\ UNCHANGED <<lease, val, ghost>>
  <2>1. TypeOK'
    <3>1. polls' \in [Callers -> 0 .. MaxPolls]
      BY <1>2, Constants DEF TypeOK
    <3> QED BY <3>1, <1>2, GotoEffect DEF TypeOK, Acquire, ghost
  <2>2. OneLeader'
    BY <1>2, GotoEffect DEF OneLeader, Leaders, Leading, LeaderSteps, ghost
  <2>3. Bounded' /\ Newest' /\ AboveFloor'
    BY <1>2, GotoEffect DEF Bounded, Newest, AboveFloor, NothingOlderThanPurge, Acquire, ghost
  <2> QED BY <2>1, <2>2, <2>3
<1>3. CASE lease' \in {lease, IF lease = Free THEN c ELSE lease} /\ Leave(c)
  <2>1. \A d \in Leaders \ {c} : ~overrun => lease' = d
    BY <1>3, Constants DEF OneLeader, Leaders
  <2>2. lease' \in Callers \cup {Free}
    BY <1>3 DEF TypeOK
  <2> QED BY <1>3, <2>1, <2>2, LeaveKeeps DEF Acquire
<1> QED BY <1>1, <1>2, <1>3 DEF Acquire

\* A leader's step that only changes its own counter and response, and keeps the
\* entries, the lease and the history.
LEMMA AnswerKeeps == ASSUME IInv, NEW c \in Callers, Answer(c) PROVE IInv'
<1> DEFINE next == IF Cached THEN "setCache" ELSE "release"
<1> USE DEF IInv
<1>1. Goto(c, next) /\ next \in LeaderSteps /\ pc[c] \in LeaderSteps /\ published \in Versions
  BY DEF Answer, LeaderSteps, TypeOK, Versions
<1>2. /\ val' \in [Callers -> Versions] /\ val'[c] = published
      /\ \A d \in Callers : d # c => val'[d] = val[d]
  BY <1>1 DEF Answer, TypeOK
<1>3. pc'[c] = next /\ \A d \in Callers : d # c => pc'[d] = pc[d]
  BY <1>1, GotoEffect
<1>4. TypeOK'
  <2> HIDE DEF next
  <2> QED BY <1>1, <1>2, GotoEffect DEF TypeOK, Answer, redis, ghost
<1>5. OneLeader'
  <2> HIDE DEF next
  <2> QED BY <1>1, <1>3 DEF OneLeader, Leaders, Leading, Answer, redis, ghost
<1>6. Bounded' /\ Newest' /\ AboveFloor'
  <2>1. cache <= published /\ stale <= published /\ floor <= published /\ published <= published
    BY DEF Bounded, TypeOK
  <2>2. UNCHANGED <<cache, stale, published, floor, overrun>>
    BY DEF Answer, redis, ghost
  <2>3. Bounded'
    BY <1>2, <2>1, <2>2 DEF Bounded
  <2>4. Newest'
    BY <1>2, <1>3, <2>1, <2>2 DEF Newest, TypeOK, Versions
  <2>5. AboveFloor'
    BY <1>2, <1>3, <2>1, <2>2 DEF AboveFloor, NothingOlderThanPurge, TypeOK, Versions
  <2> QED BY <2>3, <2>4, <2>5
<1> QED BY <1>4, <1>5, <1>6

LEMMA DegradeKeeps ==
  ASSUME IInv, NEW c \in Callers, FetchFails(c) \/ GetStale(c) PROVE IInv'
<1> USE DEF IInv
<1> PICK step \in {"getStale", "release"} : Goto(c, step)
  BY DEF FetchFails, GetStale
<1>1. pc[c] \in LeaderSteps /\ step \in LeaderSteps
  BY DEF FetchFails, GetStale, LeaderSteps
<1>2. UNCHANGED <<redis, val, polls, purging, published, ghost>>
  BY DEF FetchFails, GetStale
<1>3. TypeOK'
  BY <1>1, <1>2, GotoEffect DEF TypeOK, redis, ghost
<1>4. OneLeader'
  BY <1>1, <1>2, GotoEffect DEF OneLeader, Leaders, Leading, redis, ghost
<1>5. Bounded' /\ Newest' /\ AboveFloor'
  BY <1>1, <1>2, GotoEffect DEF Bounded, Newest, AboveFloor, NothingOlderThanPurge, redis, ghost
<1> QED BY <1>3, <1>4, <1>5

\* The only leader writes what it holds, or leaves the entry as it is.
LEMMA SetCacheKeeps == ASSUME IInv, NEW c \in Callers, SetCache(c) PROVE IInv'
<1> USE DEF IInv
<1> PICK step \in {"setStale", "getStale"} : Goto(c, step)
  BY DEF SetCache
<1>1. pc[c] = "setCache" /\ {"setCache", "setStale", "getStale"} \subseteq LeaderSteps
  BY DEF SetCache, LeaderSteps
<1>2. cache' \in {cache, val[c]} /\ UNCHANGED <<stale, lease, val, polls, purging, published, ghost>>
  BY DEF SetCache
<1>3. TypeOK'
  BY <1>1, <1>2, GotoEffect DEF TypeOK, ghost
<1>4. OneLeader'
  BY <1>1, <1>2, GotoEffect DEF OneLeader, Leaders, Leading, ghost
<1>5. Bounded'
  BY <1>2 DEF Bounded, ghost
<1>6. Newest'
  <2> SUFFICES ASSUME ~overrun, NEW d \in Callers, pc'[d] \in {"setCache", "setStale"}
               PROVE  val[d] >= cache' /\ val[d] >= stale
    BY <1>2 DEF Newest, ghost
  <2>1. pc[d] \in {"setCache", "setStale"}
    BY <1>1, GotoEffect
  <2>2. d = c
    BY <2>1, <1>1 DEF OneLeader, Leaders, Leading, LeaderSteps
  <2>3. val[c] \in Int /\ val[c] >= val[c]
    BY DEF TypeOK, Versions
  <2> QED BY <2>1, <2>2, <2>3, <1>2 DEF Newest
<1>7. AboveFloor'
  BY <1>1, <1>2, GotoEffect DEF AboveFloor, NothingOlderThanPurge, ghost
<1> QED BY <1>3, <1>4, <1>5, <1>6, <1>7

LEMMA SetStaleKeeps == ASSUME IInv, NEW c \in Callers, SetStale(c) PROVE IInv'
<1> USE DEF IInv
<1> PICK step \in {"release", "getStale"} : Goto(c, step)
  BY DEF SetStale
<1>1. pc[c] = "setStale" /\ {"setStale", "release", "getStale"} \subseteq LeaderSteps
  BY DEF SetStale, LeaderSteps
<1>2. stale' \in {stale, val[c]} /\ UNCHANGED <<cache, lease, val, polls, purging, published, ghost>>
  BY DEF SetStale
<1>3. TypeOK'
  BY <1>1, <1>2, GotoEffect DEF TypeOK, ghost
<1>4. OneLeader'
  BY <1>1, <1>2, GotoEffect DEF OneLeader, Leaders, Leading, ghost
<1>5. Bounded'
  BY <1>2 DEF Bounded, ghost
<1>6. Newest'
  <2> SUFFICES ASSUME ~overrun, NEW d \in Callers, pc'[d] \in {"setCache", "setStale"}
               PROVE  FALSE
    BY <1>2 DEF Newest, ghost
  <2>1. d # c /\ pc[d] \in {"setCache", "setStale"}
    BY <1>1, GotoEffect
  <2> QED BY <2>1, <1>1 DEF OneLeader, Leaders, Leading, LeaderSteps
<1>7. AboveFloor'
  BY <1>1, <1>2, GotoEffect DEF AboveFloor, NothingOlderThanPurge, ghost
<1> QED BY <1>3, <1>4, <1>5, <1>6, <1>7

LEMMA ReleaseKeeps == ASSUME IInv, NEW c \in Callers, Release(c) PROVE IInv'
<1>1. lease' \in Callers \cup {Free}
  BY DEF Release, IInv, TypeOK
<1>2. c \in Leaders
  BY DEF Release, Leaders, Leading, LeaderSteps
<1>3. \A d \in Leaders \ {c} : ~overrun => lease' = d
  BY <1>2 DEF IInv, OneLeader
<1> QED BY <1>1, <1>3, LeaveKeeps DEF Release

LEMMA FollowKeeps == ASSUME IInv, NEW c \in Callers, Follow(c) \/ Abandon(c) PROVE IInv'
<1>1. CASE Leave(c) /\ UNCHANGED <<redis, purging, published>>
  <2>1. \A d \in Leaders \ {c} : ~overrun => lease' = d
    BY <1>1 DEF IInv, OneLeader, redis
  <2>2. lease' \in Callers \cup {Free} /\ UNCHANGED <<cache, stale, purging, published>>
    BY <1>1 DEF IInv, TypeOK, redis
  <2> QED BY <1>1, <2>1, <2>2, LeaveKeeps
<1>2. CASE /\ pc[c] \in {"poll", "pollLease"}
           /\ polls' \in [Callers -> 0 .. MaxPolls]
           /\ \E step \in {"direct", "pollLease", "poll"} : Goto(c, step)
           /\ UNCHANGED <<redis, val, purging, published, ghost>>
  <2> PICK step \in {"direct", "pollLease", "poll"} : Goto(c, step)
    BY <1>2
  <2>1. TypeOK'
    BY <1>2, GotoEffect DEF IInv, TypeOK, redis, ghost
  <2>2. OneLeader'
    BY <1>2, GotoEffect DEF IInv, OneLeader, Leaders, Leading, LeaderSteps, redis, ghost
  <2>3. Bounded' /\ Newest' /\ AboveFloor'
    BY <1>2, GotoEffect DEF IInv, Bounded, Newest, AboveFloor, NothingOlderThanPurge, redis, ghost
  <2> QED BY <2>1, <2>2, <2>3 DEF IInv
<1>3. ASSUME PollCache(c)
      PROVE  \/ Leave(c) /\ UNCHANGED <<redis, purging, published>>
             \/ /\ pc[c] \in {"poll", "pollLease"}
                /\ polls' \in [Callers -> 0 .. MaxPolls]
                /\ \E step \in {"direct", "pollLease", "poll"} : Goto(c, step)
                /\ UNCHANGED <<redis, val, purging, published, ghost>>
  <2>1. polls[c] > 0 => UsedPolls(c) \in 0 .. MaxPolls
    BY Constants DEF IInv, TypeOK, UsedPolls
  <2>2. polls[c] > 0 => [polls EXCEPT ![c] = UsedPolls(c)] \in [Callers -> 0 .. MaxPolls]
    BY <2>1 DEF IInv, TypeOK
  <2> QED BY <1>3, <2>2 DEF PollCache, IInv, TypeOK
<1>4. ASSUME PollLease(c)
      PROVE  /\ pc[c] \in {"poll", "pollLease"}
             /\ polls' \in [Callers -> 0 .. MaxPolls]
             /\ \E step \in {"direct", "pollLease", "poll"} : Goto(c, step)
             /\ UNCHANGED <<redis, val, purging, published, ghost>>
  BY <1>4 DEF PollLease, IInv, TypeOK
<1> QED BY <1>1, <1>2, <1>3, <1>4 DEF Follow, Direct, Abandon

\* The purge drops the entry unless that is newer; the floor rises only to what
\* every response about to be written has.
LEMMA PurgeKeeps == ASSUME IInv, PurgeScan \/ PurgeDelete PROVE IInv'
<1> USE DEF IInv
<1>1. /\ UNCHANGED <<stale, lease, calls, published, overrun>>
      /\ purging' \in BOOLEAN /\ cache' \in {cache, None}
      /\ \/ UNCHANGED <<cache, floor>>
         \/ cache' = None /\ Purged
  BY DEF PurgeScan, PurgeDelete, redis
<1>2. floor' \in {floor, published}
  BY <1>1 DEF Purged
<1>3. TypeOK'
  <2>1. None \in Versions /\ published \in Versions
    BY Constants DEF None, Versions, TypeOK
  <2>2. cache' \in Versions /\ floor' \in Versions
    BY <2>1, <1>1, <1>2 DEF TypeOK
  <2> QED BY <2>2, <1>1 DEF TypeOK, calls
<1>4. OneLeader'
  BY <1>1 DEF OneLeader, Leaders, Leading, calls
<1>5. Bounded'
  <2>1. None <= published /\ published <= published
    BY DEF TypeOK, None
  <2> QED BY <2>1, <1>1, <1>2 DEF Bounded, calls
<1>6. Newest'
  <2>1. \A c \in Callers : val[c] >= None
    BY DEF TypeOK, Versions, None
  <2> QED BY <2>1, <1>1 DEF Newest, calls
<1>7. AboveFloor'
  <2>1. CASE UNCHANGED <<cache, floor>>
    BY <2>1, <1>1 DEF AboveFloor, NothingOlderThanPurge, calls
  <2>2. CASE cache' = None /\ Purged
    <3>1. \A c \in Callers : pc[c] = "setCache" /\ ~OldInFlight => val[c] >= published
      BY DEF OldInFlight, TypeOK, Versions
    <3> QED BY <3>1, <2>2, <1>1 DEF Purged, AboveFloor, NothingOlderThanPurge, calls
  <2> QED BY <1>1, <2>1, <2>2
<1> QED BY <1>3, <1>4, <1>5, <1>6, <1>7

LEMMA ExpireLeaseKeeps == ASSUME IInv, ExpireLease PROVE IInv'
<1> USE DEF IInv
<1>1. UNCHANGED <<cache, stale, calls, purging, published, floor>> /\ lease' = Free
  BY DEF ExpireLease
<1>2. TypeOK'
  BY <1>1 DEF TypeOK, ExpireLease, calls
<1>3. ~overrun' => ~overrun /\ Leaders = {}
  BY DEF ExpireLease, OneLeader
<1>4. OneLeader'
  BY <1>1, <1>3 DEF OneLeader, Leaders, Leading, calls
<1>5. Bounded' /\ AboveFloor'
  BY <1>1 DEF Bounded, AboveFloor, NothingOlderThanPurge, calls
<1>6. Newest'
  BY <1>1, <1>3 DEF Newest, calls
<1> QED BY <1>2, <1>4, <1>5, <1>6

LEMMA ExpireEntryKeeps == ASSUME IInv, ExpireEntry PROVE IInv'
<1> USE DEF IInv
<1>1. /\ UNCHANGED <<lease, calls, purging, published, ghost>>
      /\ cache' \in {cache, None} /\ stale' \in {stale, None}
  BY DEF ExpireEntry
<1>2. None \in Versions /\ None <= published /\ \A c \in Callers : val[c] >= None
  BY Constants DEF None, Versions, TypeOK
<1>3. TypeOK'
  BY <1>1, <1>2 DEF TypeOK, calls, ghost
<1>4. OneLeader'
  BY <1>1 DEF OneLeader, Leaders, Leading, calls, ghost
<1>5. Bounded'
  BY <1>1, <1>2 DEF Bounded, calls, ghost
<1>6. Newest' /\ AboveFloor'
  BY <1>1, <1>2 DEF Newest, AboveFloor, NothingOlderThanPurge, calls, ghost
<1> QED BY <1>3, <1>4, <1>5, <1>6

LEMMA PublishKeeps == ASSUME IInv, Publish PROVE IInv'
<1> USE DEF IInv
<1>1. UNCHANGED <<redis, calls, purging, ghost>> /\ published' = published + 1
  BY DEF Publish
<1>2. TypeOK'
  BY <1>1, Constants DEF TypeOK, Publish, redis, calls, ghost
<1>3. OneLeader'
  BY <1>1 DEF OneLeader, Leaders, Leading, redis, calls, ghost
<1>4. Bounded'
  <2>1. published' > published /\ published \in Int
    BY <1>1 DEF TypeOK
  <2> QED BY <2>1, <1>1 DEF Bounded, TypeOK, Versions, redis, calls, ghost
<1>5. Newest' /\ AboveFloor'
  BY <1>1 DEF Newest, AboveFloor, NothingOlderThanPurge, redis, calls, ghost
<1> QED BY <1>2, <1>3, <1>4, <1>5

LEMMA NextKeeps == IInv /\ [Next]_vars => IInv'
<1> SUFFICES ASSUME IInv, [Next]_vars PROVE IInv'
  OBVIOUS
<1>1. ASSUME NEW c \in Callers, Miss(c) PROVE IInv'
  BY <1>1, MissKeeps
<1>2. ASSUME NEW c \in Callers, Acquire(c) PROVE IInv'
  BY <1>2, AcquireKeeps
<1>3. ASSUME NEW c \in Callers, Lead(c) PROVE IInv'
  BY <1>3, AnswerKeeps, DegradeKeeps, SetCacheKeeps, SetStaleKeeps, ReleaseKeeps DEF Lead
<1>4. ASSUME NEW c \in Callers, Follow(c) \/ Abandon(c) PROVE IInv'
  BY <1>4, FollowKeeps
<1>5. CASE PurgeScan \/ PurgeDelete
  BY <1>5, PurgeKeeps
<1>6. CASE ExpireLease \/ ExpireEntry \/ Publish
  BY <1>6, ExpireLeaseKeeps, ExpireEntryKeeps, PublishKeeps
<1>7. CASE UNCHANGED vars
  BY <1>7 DEF vars, redis, calls, ghost, IInv, TypeOK, OneLeader, Bounded, Newest, AboveFloor,
    NothingOlderThanPurge, Leaders, Leading
<1> QED BY <1>1, <1>2, <1>3, <1>4, <1>5, <1>6, <1>7 DEF Next

-----------------------------------------------------------------------------
(* The theorems about the cache.                                           *)

\* The invariant the other theorems follow from.
THEOREM InductiveInvariant == Spec => []IInv
BY InitHolds, NextKeeps, PTL DEF Spec

\* Every reachable state of getOrFetch's calls is well typed.
THEOREM TypeCorrect == Spec => []TypeOK
<1>1. IInv => TypeOK
  BY DEF IInv
<1> QED BY <1>1, InductiveInvariant, PTL

\* As long as no leader outlives its lease, at most one call leads, under its own lease.
THEOREM LeaderIsExclusive == Spec => []OneLeader
<1>1. IInv => OneLeader
  BY DEF IInv
<1> QED BY <1>1, InductiveInvariant, PTL

\* After a purge no caller can hit data older than the purge, responses in flight aside.
THEOREM PurgeIsEffective == Spec => []NothingOlderThanPurge
<1>1. IInv => NothingOlderThanPurge
  BY DEF IInv, AboveFloor
<1> QED BY <1>1, InductiveInvariant, PTL

\* As long as no leader outlives its lease, no entry is replaced by an older response.
THEOREM EntriesMoveForward == Spec => NoRegression
<1> DEFINE Forward == ~overrun => /\ cache' # None => cache' >= cache
                                  /\ stale' # None => stale' >= stale
<1>1. ASSUME IInv, Next PROVE Forward
  <2>1. cache \in Int /\ stale \in Int /\ cache >= cache /\ stale >= stale
    BY <1>1 DEF IInv, TypeOK, Versions
  <2>2. \A c \in Callers : SetCache(c) => Forward
    BY <1>1, <2>1 DEF SetCache, IInv, Newest
  <2>3. \A c \in Callers : SetStale(c) => Forward
    BY <1>1, <2>1 DEF SetStale, IInv, Newest
  <2>4. PurgeDelete \/ ExpireEntry => Forward
    BY <2>1 DEF PurgeDelete, ExpireEntry
  <2>5. \A c \in Callers : Miss(c) \/ Acquire(c) \/ Answer(c) \/ FetchFails(c) \/ GetStale(c)
          \/ Release(c) \/ Follow(c) \/ Abandon(c) => UNCHANGED <<cache, stale>>
    BY DEF Miss, Acquire, Answer, FetchFails, GetStale, Release, Follow, PollCache, PollLease,
      Direct, Abandon, redis
  <2>6. PurgeScan \/ ExpireLease \/ Publish => UNCHANGED <<cache, stale>>
    BY DEF PurgeScan, ExpireLease, Publish, redis
  <2> QED BY <1>1, <2>1, <2>2, <2>3, <2>4, <2>5, <2>6 DEF Next, Lead
<1>2. IInv /\ [Next]_vars => [Forward]_vars
  BY <1>1
<1> QED BY <1>2, InductiveInvariant, PTL DEF Spec, NoRegression

=============================================================================
