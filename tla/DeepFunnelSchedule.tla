------------------------- MODULE DeepFunnelSchedule -------------------------
(***************************************************************************)
(* When the once-a-day deep funnel runs and on which data                   *)
(* (apps/worker/src/index.ts, funnel/schedule.ts, and the reads of          *)
(* funnel/deep.ts).  setInterval does not await a tick, so ticks overlap;   *)
(* each awaited command or fetch of maybeRunDeepFunnelOnceToday is one      *)
(* action.  Ticks outside the window and the intraday funnel touch nothing  *)
(* the deep funnel uses, so a tick starts here inside the window.           *)
(*                                                                         *)
(* The upstream publishes each kind of data of each symbol on a clock of    *)
(* its own; what counts is the newest trading day it holds.  Two symbols    *)
(* are told apart: the canary, which is probed past the cache, and one      *)
(* candidate of the run, whose price history, broker summary and, as the    *)
(* example of the data whose day nothing checks, insider transactions go    *)
(* through the 24 h entries of the single-flight cache.  A stale copy holds *)
(* what some earlier fetch got, any day up to the newest.  Day 0 is the     *)
(* trading day before the first one modelled.  The flag's TTL of 20 h       *)
(* outlives the window of its day and is left out.                          *)
(***************************************************************************)
EXTENDS Integers, FiniteSets

CONSTANTS Ticks,      \* ticks in progress, of one worker or several
          Unchecked,  \* kinds of data whose trading day the run does not check
          LastDay,    \* bound: the weekdays are 1 .. LastDay
          Trading     \* the days of trading among them, the others are holidays

ASSUME ScheduleAssumption ==
  /\ LastDay \in Nat \ {0}
  /\ Unchecked \subseteq {"insiders"}
  /\ Trading \subseteq 1 .. LastDay

VARIABLES today,      \* the exchange-local date
          window,     \* "before", "open" or "over": isDeepFunnelWindow and its past
          latest,     \* environment: newest day published, per symbol and kind
          up,         \* environment: nothing fails
          entries,    \* Redis: day of the candidate's cached response of each kind, or None
          canary,     \* Redis: days whose canary key exists
          flags,      \* Redis: days whose run flag exists
          pc,         \* next step of each tick
          tickDay,    \* dayBucket, fixed when the tick started
          now,        \* the date runDeepFunnel measures ages from, fixed when it starts
          used,       \* days of the data a run has read of the candidate so far
          dataStale,  \* the mark the candidate's features and signal get
          degraded,   \* history: a run that read a stale copy
          atStart,    \* history: latest when the run dropped the cached entries
          runs        \* history: runs started, per day

keys  == <<entries, canary, flags>>
world == <<today, window, latest, up>>
run   == <<now, used, dataStale, degraded, atStart>>
ticks == <<pc, tickDay, run>>
vars  == <<world, keys, ticks, runs>>

Days    == 1 .. LastDay
None    == -1
Checked == {"history", "brokerSummary"}
Kinds   == Checked \cup Unchecked
Symbols == {"canary", "candidate"}
Nothing == [k \in Kinds |-> None]
Initially == [s \in Symbols |-> [k \in Kinds |-> 0]]

Init ==
  /\ today = 1 /\ window = "before" /\ up = TRUE
  /\ latest = Initially
  /\ entries \in {Nothing, [k \in Kinds |-> 0]}
  /\ canary = {} /\ flags = {}
  /\ pc = [t \in Ticks |-> "idle"]
  /\ tickDay = [t \in Ticks |-> 1]
  /\ now = [t \in Ticks |-> 1]
  /\ used = [t \in Ticks |-> Nothing]
  /\ dataStale = [t \in Ticks |-> FALSE]
  /\ degraded = [t \in Ticks |-> FALSE]
  /\ atStart = [t \in Ticks |-> Initially]
  /\ runs = [d \in Days |-> 0]

Goto(t, step) == pc' = [pc EXCEPT ![t] = step] /\ UNCHANGED <<tickDay, run>>

\* What a tick knows of its run is gone with it.
Forget(t) ==
  /\ now' = [now EXCEPT ![t] = 1]
  /\ used' = [used EXCEPT ![t] = Nothing]
  /\ dataStale' = [dataStale EXCEPT ![t] = FALSE]
  /\ degraded' = [degraded EXCEPT ![t] = FALSE]
  /\ atStart' = [atStart EXCEPT ![t] = Initially]

Return(t) ==
  /\ pc' = [pc EXCEPT ![t] = "idle"]
  /\ tickDay' = [tickDay EXCEPT ![t] = 1]
  /\ Forget(t)

\* Take one branch or return, as the early returns of the function do.
Proceed(t, cond, step) == IF cond THEN Goto(t, step) ELSE Return(t)

-----------------------------------------------------------------------------
(* Is it time?                                                             *)

\* A tick inside the window, which opens on holidays too.
Start(t) ==
  /\ pc[t] = "idle" /\ window = "open"
  /\ pc' = [pc EXCEPT ![t] = "exists"]
  /\ tickDay' = [tickDay EXCEPT ![t] = today]
  /\ UNCHANGED <<world, keys, run, runs>>

\* EXISTS flag.
CheckFlag(t) ==
  /\ pc[t] = "exists"
  /\ Proceed(t, tickDay[t] \notin flags, "canary")
  /\ UNCHANGED <<world, keys, runs>>

\* SET canary NX: one probe per interval.
TakeCanary(t) ==
  /\ pc[t] = "canary"
  /\ canary' = canary \cup {tickDay[t]}
  /\ Proceed(t, tickDay[t] \notin canary, "probe")
  /\ UNCHANGED <<world, entries, flags, runs>>

\* The price bar of the canary symbol, read past the cache.
ProbePrice(t) ==
  /\ pc[t] = "probe"
  /\ Proceed(t, latest["canary"]["history"] = tickDay[t], "probeBroker")
  /\ UNCHANGED <<world, keys, runs>>

\* MUTANT: only the price bar is required, as before the two clocks were told apart.
MutBrokerReady(t) == TRUE

BrokerReady(t) == latest["canary"]["brokerSummary"] = tickDay[t]

ProbeBroker(t) ==
  /\ pc[t] = "probeBroker"
  /\ Proceed(t, BrokerReady(t), "flag")
  /\ UNCHANGED <<world, keys, runs>>

\* MUTANT: the flag is set without NX.
MutFlagFree(t) == TRUE

FlagFree(t) == tickDay[t] \notin flags

\* SET flag NX: the run of the day begins.
SetFlag(t) ==
  /\ pc[t] = "flag"
  /\ flags' = flags \cup {tickDay[t]}
  /\ Proceed(t, FlagFree(t), "purge")
  /\ runs' = IF FlagFree(t) THEN [runs EXCEPT ![tickDay[t]] = @ + 1] ELSE runs
  /\ UNCHANGED <<world, entries, canary>>

-----------------------------------------------------------------------------
(* The run.                                                                *)

\* purgeCachedEndpoints(DAILY_EOD_ENDPOINTS), the stale copies stay; the deep funnel starts.
Purge(t) ==
  /\ pc[t] = "purge"
  /\ entries' = Nothing
  /\ pc' = [pc EXCEPT ![t] = "history"]
  /\ now' = [now EXCEPT ![t] = today]
  /\ atStart' = [atStart EXCEPT ![t] = latest]
  /\ UNCHANGED <<world, canary, flags, tickDay, used, dataStale, degraded, runs>>

\* Successful fetches of the kinds that have no entry fill it.
Fill(fetched) ==
  entries' = [k \in Kinds |-> IF k \in fetched /\ entries[k] = None
                             THEN latest["candidate"][k] ELSE entries[k]]

After(k) == IF k = "history" THEN "brokerSummary"
            ELSE IF k = "brokerSummary" /\ Unchecked # {} THEN "insiders"
            ELSE "score"

\* fetchDeep: the candidate's cached response or a new one.
Read(t, k) ==
  /\ pc[t] = k
  /\ Fill({k})
  /\ pc' = [pc EXCEPT ![t] = After(k)]
  /\ used' = [used EXCEPT ![t][k] = entries'[k]]
  /\ UNCHANGED <<world, canary, flags, tickDay, now, dataStale, degraded, atStart, runs>>

\* fetchDeep when the fetch fails: the stale copy, with its stale mark dropped.
ReadStale(t, k) ==
  /\ pc[t] = k /\ ~up
  /\ entries[k] = None
  /\ \E d \in 0 .. latest["candidate"][k] : used' = [used EXCEPT ![t][k] = d]
  /\ pc' = [pc EXCEPT ![t] = After(k)]
  /\ degraded' = [degraded EXCEPT ![t] = TRUE]
  /\ UNCHANGED <<world, keys, tickDay, now, dataStale, atStart, runs>>

\* The candidate is skipped: a fetch or the database failed, or the price floors,
\* which are applied after the history, exclude it.
Skip(t, k) ==
  /\ pc[t] = k
  /\ ~up \/ k # "history"
  /\ pc' = [pc EXCEPT ![t] = "alerts"]
  /\ Forget(t)
  /\ UNCHANGED <<world, keys, tickDay, runs>>

\* isEnvelopeStale: dated before the day that the run's clock shows.
OlderThan(day, t) == day < now[t]

\* The snapshots are stored and the candidate marked, by the dates of two of its inputs.
Score(t) ==
  /\ pc[t] = "score"
  /\ dataStale' = [dataStale EXCEPT ![t] = \E k \in Checked : OlderThan(used[t][k], t)]
  /\ pc' = [pc EXCEPT ![t] = "alerts"]
  /\ UNCHANGED <<world, keys, tickDay, now, used, degraded, atStart, runs>>

\* Signals are persisted and the alerts of the watchlist sent.
Alerts(t) ==
  /\ pc[t] = "alerts"
  /\ Goto(t, "shadow")
  /\ UNCHANGED <<world, keys, runs>>

\* Shadow mode reads through the same entries, for the symbols it ranks; its errors
\* are caught.
Shadow(t) ==
  /\ pc[t] = "shadow"
  /\ \E fetched \in SUBSET Checked : Fill(fetched)
  /\ Return(t)
  /\ UNCHANGED <<world, canary, flags, runs>>

\* An error ends the tick (main's catch); the SET of a key may have been applied.
\* "history" includes the screener before it; the errors of a candidate and of the
\* shadow mode are caught.
Fail(t) ==
  /\ pc[t] \notin {"idle", "brokerSummary", "insiders", "score", "shadow"} /\ ~up
  /\ Return(t)
  /\ canary' \in {canary, IF pc[t] = "canary" THEN canary \cup {tickDay[t]} ELSE canary}
  /\ flags'  \in {flags, IF pc[t] = "flag" THEN flags \cup {tickDay[t]} ELSE flags}
  /\ UNCHANGED <<world, entries, runs>>

\* The process dies with its ticks, and is restarted.
Crash ==
  /\ ~up
  /\ pc' = [t \in Ticks |-> "idle"]
  /\ tickDay' = [t \in Ticks |-> 1]
  /\ now' = [t \in Ticks |-> 1]
  /\ used' = [t \in Ticks |-> Nothing]
  /\ dataStale' = [t \in Ticks |-> FALSE]
  /\ degraded' = [t \in Ticks |-> FALSE]
  /\ atStart' = [t \in Ticks |-> Initially]
  /\ UNCHANGED <<world, keys, runs>>

-----------------------------------------------------------------------------
(* The environment.                                                        *)

\* MUTANT: the canary key is set without an expiry.
MutExpiring == {}

Expiring == canary

\* Ten minutes after a probe.
CanaryExpires ==
  /\ \E d \in Expiring : canary' = canary \ {d}
  /\ UNCHANGED <<world, entries, flags, ticks, runs>>

\* 24 hours after a fetch.
EntryExpires ==
  /\ \E k \in Kinds : entries[k] # None /\ entries' = [entries EXCEPT ![k] = None]
  /\ UNCHANGED <<world, canary, flags, ticks, runs>>

\* The upstream publishes a day, each kind of data of each symbol on a clock of its own,
\* never before the trading day.
Publish ==
  /\ \E s \in Symbols, k \in Kinds, d \in Trading :
       d <= today /\ latest[s][k] < d /\ latest' = [latest EXCEPT ![s][k] = d]
  /\ UNCHANGED <<today, window, up, keys, ticks, runs>>

\* The window opens and closes; the probes of a day are over long before midnight.
Clock ==
  /\ \/ window = "before" /\ window' = "open" /\ UNCHANGED today
     \/ window = "open" /\ window' = "over" /\ UNCHANGED today
     \/ /\ window # "open" /\ canary = {} /\ today < LastDay
        /\ today' = today + 1 /\ window' = "before"
  /\ UNCHANGED <<latest, up, keys, ticks, runs>>

Disturb ==
  /\ up' = ~up
  /\ UNCHANGED <<today, window, latest, keys, ticks, runs>>

Work(t) ==
  \/ CheckFlag(t) \/ TakeCanary(t) \/ ProbePrice(t) \/ ProbeBroker(t) \/ SetFlag(t)
  \/ Purge(t) \/ Score(t) \/ Alerts(t) \/ Shadow(t)
  \/ \E k \in Kinds : Read(t, k) \/ ReadStale(t, k)
  \/ \E k \in Kinds \cup {"score"} : Skip(t, k)

Next ==
  \/ \E t \in Ticks : Start(t) \/ Work(t) \/ Fail(t)
  \/ Crash \/ CanaryExpires \/ EntryExpires \/ Publish \/ Clock \/ Disturb

\* setInterval keeps ticking, awaited commands settle and Redis expires keys; the
\* clock, the upstream and the disturbances owe nothing.
Fairness ==
  /\ \A t \in Ticks : WF_vars(Start(t) \/ Work(t))
  /\ WF_vars(CanaryExpires)

Spec     == Init /\ [][Next]_vars
FairSpec == Spec /\ Fairness

-----------------------------------------------------------------------------
(* Properties.                                                             *)

Steps == {"idle", "exists", "canary", "probe", "probeBroker", "flag", "purge",
          "score", "alerts", "shadow"} \cup Kinds

\* Shape of the state.
TypeOK ==
  /\ today \in Days /\ window \in {"before", "open", "over"} /\ up \in BOOLEAN
  /\ latest \in [Symbols -> [Kinds -> 0 .. LastDay]]
  /\ entries \in [Kinds -> None .. LastDay]
  /\ canary \subseteq Days /\ flags \subseteq Days
  /\ pc \in [Ticks -> Steps] /\ tickDay \in [Ticks -> Days]
  /\ now \in [Ticks -> Days]
  /\ used \in [Ticks -> [Kinds -> None .. LastDay]]
  /\ dataStale \in [Ticks -> BOOLEAN] /\ degraded \in [Ticks -> BOOLEAN]
  /\ atStart \in [Ticks -> [Symbols -> [Kinds -> 0 .. LastDay]]]
  /\ runs \in [Days -> Nat]

\* However ticks overlap, fail and restart, a trading day has at most one run.
OneRunPerDay == \A d \in Days : runs[d] <= 1

\* The candidate was published no later than the canary that stood for it.
OnTime(t) ==
  \A k \in Checked : atStart[t]["candidate"][k] >= atStart[t]["canary"][k]

OnOwnData(t) ==
  ~degraded[t] =>
    /\ \A k \in Kinds : used[t][k] # None => used[t][k] >= atStart[t]["candidate"][k]
    /\ dataStale[t] => ~OnTime(t) \/ now[t] > tickDay[t]

\* The purge and the canary do what they are for.  Unless a fetch fails, a run reads
\* nothing older than what was published of the candidate when it started, of the data
\* too whose day nothing checks.  And it is not wasted on the data of the day before:
\* a candidate is marked stale only if a fetch failed, the candidate was published later
\* than the canary, or the run began after its day.
RunsOnOwnData == \A t \in Ticks : OnOwnData(t)

\* A flag was set and no run began: the SET was applied, but its reply was lost.
FlagWithoutRun == \E d \in flags : runs[d] = 0

\* Once the canary's data are published within the window and nothing fails any more, the
\* day's run is started, whatever probes and failures went before, a lost reply to the SET
\* of the flag excepted.
RunsWhenReady ==
  (/\ <>[](up /\ window = "open" /\ \A k \in Checked : latest["canary"][k] = today)
   /\ []~FlagWithoutRun)
    => []<>(runs[today] = 1)

\* The signals of day d are persisted and its alerts sent.
Completed(d) == \E t \in Ticks : pc[t] = "shadow" /\ tickDay[t] = d

\* What the header says (index.ts:42-44): the deep funnel and its signals and alerts
\* are produced once per trading day, so a flagged day is completed, at least when
\* nothing fails from some time on.
FlaggedDayCompletes == <>[]up => \A d \in Days : d \in flags ~> Completed(d)

=============================================================================
