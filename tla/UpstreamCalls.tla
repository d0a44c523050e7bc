---------------------------- MODULE UpstreamCalls ----------------------------
(***************************************************************************)
(* Concurrent calls of callUpstream (apps/worker/src/adapter/httpClient.ts) *)
(* through the shared circuit breaker.  The code between two awaits is one  *)
(* action: the breaker check and the start of the first fetch, the handling *)
(* of a settled fetch, and the start of a retry after its backoff.  A call  *)
(* consults the breaker once, before its first attempt, but records every   *)
(* outcome, so a retry or a slow fetch acts on a breaker that other calls   *)
(* have moved meanwhile.  A call that is short-circuited changes nothing.   *)
(***************************************************************************)
EXTENDS CircuitBreaker

CONSTANTS Calls,     \* concurrent calls
          MaxAttempts  \* maxAttempts, the first attempt included

ASSUME CallsAssumption == MaxAttempts \in Nat \ {0}

VARIABLES at,            \* "idle", "fetching" or "backoff"
          attempt,       \* the loop counter of a call, 0 when idle
          up,            \* environment: every request now succeeds
          sinceFailure   \* history: clock since a failure was last recorded, up to Cooldown

callsVars == <<state, failures, openFor, at, attempt, up, sinceFailure>>

CallsInit ==
  /\ BreakerInit
  /\ at = [c \in Calls |-> "idle"]
  /\ attempt = [c \in Calls |-> 0]
  /\ up = TRUE
  /\ sinceFailure = Cooldown

-----------------------------------------------------------------------------
Fetch(c, n) ==
  /\ at' = [at EXCEPT ![c] = "fetching"]
  /\ attempt' = [attempt EXCEPT ![c] = n]

Finish(c) ==
  /\ at' = [at EXCEPT ![c] = "idle"]
  /\ attempt' = [attempt EXCEPT ![c] = 0]

\* The breaker lets the call through and its first fetch starts.
Begin(c) ==
  /\ at[c] = "idle"
  /\ Admit
  /\ Fetch(c, 1)
  /\ UNCHANGED <<up, sinceFailure>>

\* 2xx with a readable body.
Succeed(c) ==
  /\ at[c] = "fetching"
  /\ RecordSuccess
  /\ Finish(c)
  /\ UNCHANGED <<up, sinceFailure>>

\* 4xx: recorded as a failure, never retried.
Reject(c) ==
  /\ at[c] = "fetching" /\ ~up
  /\ RecordFailure
  /\ sinceFailure' = 0
  /\ Finish(c)
  /\ UNCHANGED up

\* MUTANT: one retry too many.
MutMayRetry(c) == attempt[c] <= MaxAttempts

MayRetry(c) == attempt[c] < MaxAttempts

\* 5xx, a network error or an unreadable body: recorded, then retried after a
\* backoff until the attempts are used up.
Transient(c) ==
  /\ at[c] = "fetching" /\ ~up
  /\ RecordFailure
  /\ sinceFailure' = 0
  /\ \/ /\ MayRetry(c)
        /\ at' = [at EXCEPT ![c] = "backoff"]
        /\ UNCHANGED attempt
     \/ /\ ~MayRetry(c)
        /\ Finish(c)
  /\ UNCHANGED up

\* The backoff is over; the breaker is not consulted again.
Retry(c) ==
  /\ at[c] = "backoff"
  /\ Fetch(c, attempt[c] + 1)
  /\ UNCHANGED <<breaker, up, sinceFailure>>

\* The worker process restarts: the breaker and the calls are lost with it.
Restart ==
  /\ state' = "closed" /\ failures' = 0 /\ openFor' = Never
  /\ at' = [c \in Calls |-> "idle"]
  /\ attempt' = [c \in Calls |-> 0]
  /\ sinceFailure' = Cooldown
  /\ UNCHANGED up

\* The clock advances for the breaker and for the history.
Tick ==
  /\ Elapse \/ (sinceFailure < Cooldown /\ UNCHANGED breaker /\ openFor \in {Never, Cooldown})
  /\ sinceFailure' = IF sinceFailure < Cooldown THEN sinceFailure + 1 ELSE sinceFailure
  /\ UNCHANGED <<at, attempt, up>>

\* The upstream fails or recovers.
UpstreamChanges ==
  /\ up' = ~up
  /\ UNCHANGED <<state, failures, openFor, at, attempt, sinceFailure>>

Settle(c) == Succeed(c) \/ Reject(c) \/ Transient(c)

CallsNext ==
  \/ \E c \in Calls : Begin(c) \/ Settle(c) \/ Retry(c)
  \/ Restart \/ Tick \/ UpstreamChanges

\* Polling never stops (setInterval), every fetch settles (the runtime's own
\* timeouts reject one that hangs), every backoff timer fires and time passes.
CallsFairness ==
  /\ WF_callsVars(Tick)
  /\ \A c \in Calls : WF_callsVars(Begin(c)) /\ WF_callsVars(Settle(c)) /\ WF_callsVars(Retry(c))

CallsSpec     == CallsInit /\ [][CallsNext]_callsVars
CallsFairSpec == CallsSpec /\ CallsFairness

-----------------------------------------------------------------------------
(* Properties.                                                             *)

\* Shape of the state.
CallsTypeOK ==
  /\ BreakerTypeOK
  /\ at \in [Calls -> {"idle", "fetching", "backoff"}]
  /\ attempt \in [Calls -> 0 .. MaxAttempts]
  /\ up \in BOOLEAN
  /\ sinceFailure \in 0 .. Cooldown

\* No new call is let through within the cooldown of a recorded failure once the
\* failures since the last success have reached the threshold, whichever calls
\* recorded them and whatever state the breaker passed through since.
CooldownRespected ==
  [][\A c \in Calls :
       at[c] = "idle" /\ at'[c] = "fetching" =>
         failures < Threshold \/ sinceFailure = Cooldown]_callsVars

\* Once the upstream stays healthy the circuit closes, and closes again after
\* every opening: it can be left neither open nor half-open for ever.
Recovers == <>[]up => []<>(state = "closed")

=============================================================================
