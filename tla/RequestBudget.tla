---------------------------- MODULE RequestBudget ----------------------------
(***************************************************************************)
(* The daily request budget (apps/worker/src/cache/budget.ts): callers of   *)
(* reserveRequest share a Redis counter per UTC day.  Every awaited Redis   *)
(* command is one step, so the increments, the check and the roll-backs of  *)
(* concurrent callers interleave (overlapping ticks of one worker, or a     *)
(* second worker), a caller may start before midnight and increment after   *)
(* it, and any command may fail, or the process die, between two steps.     *)
(***************************************************************************)
EXTENDS Integers, FiniteSets

CONSTANTS Callers,   \* concurrent calls of reserveRequest
          Budget,    \* DAILY_REQUEST_BUDGET
          Reserve,   \* DAILY_REQUEST_RESERVE
          LastDay,   \* bound: the day buckets are 1 .. LastDay
          MaxCalls,  \* bound: calls that reach the endpoint counter of a day
          MaxLost    \* bound: increments of a day left behind by failed calls

ASSUME BudgetAssumption ==
  /\ IsFiniteSet(Callers)
  /\ Budget \in Nat \ {0}
  /\ Reserve \in Nat
  /\ LastDay \in Nat \ {0}
  /\ MaxCalls \in Nat
  /\ MaxLost \in Nat

Days  == 1 .. LastDay
Kinds == {"normal", "reserve"}

VARIABLES
  today,          \* the current UTC day bucket
  count,          \* Redis: idx:budget:count:<day>, 0 when the key is absent
  expires,        \* Redis: whether that key has a time to live
  endpointCount,  \* Redis: idx:budget:count:<day>:<endpoint>, summed over endpoints
  pc,             \* the next awaited command of each caller
  day,            \* the day bucket a caller computed when it was called
  kind,           \* "reserve" iff the caller passed allowReserve: true
  seen,           \* newCount: the reply to the caller's INCR
  granted,        \* history: reservations returned to callers, per day and kind
  lost,           \* history: increments whose caller failed before returning
  orphaned        \* history: days whose counter was created by a call that failed before its EXPIRE

vars == <<today, count, expires, endpointCount, pc, day, kind, seen, granted, lost, orphaned>>

PCs == {"idle", "incr", "expire", "endpoint", "rollback"}

Init ==
  /\ today = 1
  /\ count = [d \in Days |-> 0]
  /\ expires = [d \in Days |-> FALSE]
  /\ endpointCount = [d \in Days |-> 0]
  /\ pc = [c \in Callers |-> "idle"]
  /\ day = [c \in Callers |-> 1]
  /\ kind = [c \in Callers |-> "normal"]
  /\ seen = [c \in Callers |-> 0]
  /\ granted = [d \in Days |-> [k \in Kinds |-> 0]]
  /\ lost = [d \in Days |-> 0]
  /\ orphaned = {}

-----------------------------------------------------------------------------
\* The ceiling a call of kind k is held to.
Ceiling(k) == IF k = "reserve" THEN Budget ELSE Budget - Reserve

\* MUTANT: an off-by-one in the comparison lets one call too many through.
MutBreachedOffByOne(c) == seen[c] > Ceiling(kind[c]) + 1

\* The INCR of c breached its ceiling: it must be rolled back.
Breached(c) == seen[c] > Ceiling(kind[c])

Goto(c, label) == pc' = [pc EXCEPT ![c] = label] /\ UNCHANGED <<day, kind>>

\* The call returns or throws; its locals are gone.
Return(c) ==
  /\ pc' = [pc EXCEPT ![c] = "idle"]
  /\ day' = [day EXCEPT ![c] = 1]
  /\ kind' = [kind EXCEPT ![c] = "normal"]
  /\ seen' = [seen EXCEPT ![c] = 0]

\* Between its INCR and its return a caller stands for one unit of the counter.
Counted(d)     == {c \in Callers : pc[c] \in {"expire", "endpoint", "rollback"} /\ day[c] = d}
Promised(d, k) == {c \in Callers : /\ pc[c] \in {"expire", "endpoint"}
                                   /\ day[c] = d /\ kind[c] = k /\ ~Breached(c)}
CallsOn(d)     == endpointCount[d] + Cardinality({c \in Callers : pc[c] # "idle" /\ day[c] = d})

\* reserveRequest is called: the day bucket is fixed now, INCR runs later.
Call(c) ==
  /\ pc[c] = "idle"
  /\ CallsOn(today) < MaxCalls
  /\ \E k \in Kinds : kind' = [kind EXCEPT ![c] = k]
  /\ day' = [day EXCEPT ![c] = today]
  /\ pc' = [pc EXCEPT ![c] = "incr"]
  /\ UNCHANGED <<today, count, expires, endpointCount, seen, granted, lost, orphaned>>

\* MUTANT: the check sees the counter as it was before the increment.
MutReply(c) == count[day[c]]

\* The reply to the INCR of c.
Reply(c) == count[day[c]] + 1

\* redis.incr(key); the first increment of the key is followed by an EXPIRE.
Incr(c) ==
  /\ pc[c] = "incr"
  /\ count' = [count EXCEPT ![day[c]] = @ + 1]
  /\ seen' = [seen EXCEPT ![c] = Reply(c)]
  /\ Goto(c, IF Reply(c) = 1 THEN "expire" ELSE "endpoint")
  /\ UNCHANGED <<today, expires, endpointCount, granted, lost, orphaned>>

\* MUTANT: the time to live is set on the key of the current day.
MutWithTtl(c) == [expires EXCEPT ![today] = TRUE]

WithTtl(c) == [expires EXCEPT ![day[c]] = TRUE]

Expire(c) ==
  /\ pc[c] = "expire"
  /\ expires' = WithTtl(c)
  /\ Goto(c, "endpoint")
  /\ UNCHANGED <<today, count, endpointCount, seen, granted, lost, orphaned>>

\* The per-endpoint INCR, then the check: return the reservation or roll it back.
CountEndpoint(c) ==
  /\ pc[c] = "endpoint"
  /\ endpointCount' = [endpointCount EXCEPT ![day[c]] = @ + 1]
  /\ \/ /\ ~Breached(c)
        /\ granted' = [granted EXCEPT ![day[c]][kind[c]] = @ + 1]
        /\ Return(c)
     \/ /\ Breached(c)
        /\ Goto(c, "rollback")
        /\ UNCHANGED <<seen, granted>>
  /\ UNCHANGED <<today, count, expires, lost, orphaned>>

\* MUTANT: the roll-back recomputes the day bucket instead of reusing the key.
MutUndoneToday(c) == [count EXCEPT ![today] = @ - 1]

\* MUTANT: the DECR is repeated, as a retry after a lost reply would.
MutUndoneTwice(c) == [count EXCEPT ![day[c]] = @ - 2]

\* The counters after the DECR of c.
Undone(c) == [count EXCEPT ![day[c]] = @ - 1]

\* redis.decr(key), then BudgetExceededError is thrown.
RollBack(c) ==
  /\ pc[c] = "rollback"
  /\ count' = Undone(c)
  /\ Return(c)
  /\ UNCHANGED <<today, expires, endpointCount, granted, lost, orphaned>>

\* A command fails or the process dies: the rejection leaves reserveRequest at
\* once, nothing already written is undone.  A failed INCR may have been applied.
Fail(c) ==
  /\ pc[c] # "idle"
  /\ Return(c)
  /\ \/ /\ pc[c] = "incr"
        /\ UNCHANGED <<count, lost, orphaned>>
     \/ /\ lost[day[c]] < MaxLost
        /\ count' = IF pc[c] = "incr" THEN [count EXCEPT ![day[c]] = @ + 1] ELSE count
        /\ lost' = [lost EXCEPT ![day[c]] = @ + 1]
        /\ orphaned' = IF pc[c] = "expire" \/ (pc[c] = "incr" /\ Reply(c) = 1)
                       THEN orphaned \cup {day[c]} ELSE orphaned
  /\ UNCHANGED <<today, expires, endpointCount, granted>>

\* UTC midnight.
NextDay ==
  /\ today < LastDay
  /\ today' = today + 1
  /\ UNCHANGED <<count, expires, endpointCount, pc, day, kind, seen, granted, lost, orphaned>>

Next ==
  \/ \E c \in Callers :
       Call(c) \/ Incr(c) \/ Expire(c) \/ CountEndpoint(c) \/ RollBack(c) \/ Fail(c)
  \/ NextDay

Spec == Init /\ [][Next]_vars

-----------------------------------------------------------------------------
(* Properties.                                                             *)

\* Shape of the state.
TypeOK ==
  /\ today \in Days
  /\ count \in [Days -> Nat]
  /\ expires \in [Days -> BOOLEAN]
  /\ endpointCount \in [Days -> Nat]
  /\ pc \in [Callers -> PCs]
  /\ day \in [Callers -> Days]
  /\ kind \in [Callers -> Kinds]
  /\ seen \in [Callers -> Nat]
  /\ granted \in [Days -> [Kinds -> Nat]]
  /\ lost \in [Days -> Nat]
  /\ orphaned \subseteq Days

Granted(d) == granted[d]["normal"] + granted[d]["reserve"]

\* The counter of a day is exactly the reservations returned on it, the calls
\* still between INCR and return, and what failed calls left behind: a refused
\* call undoes its own increment, on the key it incremented, exactly once.
CountExact ==
  \A d \in Days : count[d] = Granted(d) + Cardinality(Counted(d)) + lost[d]

\* However the calls interleave, a day never grants more than the budget, nor
\* scheduled traffic more than the budget less the reserve (budget.ts:9-15).
GrantsWithinCeilings ==
  \A d \in Days : /\ Granted(d) <= Budget
                  /\ granted[d]["normal"] > 0 => granted[d]["normal"] <= Budget - Reserve

\* A day's counter in use has a time to live, or the caller that created it is about
\* to give it one, whichever of the other calls fail or are undone: only the failure
\* of the call that created it, before its EXPIRE, leaves a key for ever (budget.ts:80).
CounterExpires ==
  \A d \in Days \ orphaned :
    count[d] > 0 =>
      expires[d] \/ \E c \in Callers : pc[c] = "expire" /\ day[c] = d

\* The counters implement the atomic quota: a unit is taken when an INCR within
\* the ceiling is applied, and forfeited when its caller then fails.
QuotaUsed ==
  [d \in Days |-> [k \in Kinds |-> granted[d][k] + Cardinality(Promised(d, k))]]
AtomicQuota == INSTANCE Quota WITH used <- QuotaUsed
QuotaRefinement == AtomicQuota!Spec

=============================================================================
