--------------------------- MODULE CircuitBreaker ---------------------------
(***************************************************************************)
(* The in-process circuit breaker shared by all upstream calls              *)
(* (apps/worker/src/adapter/circuitBreaker.ts).  Its methods run without    *)
(* awaiting, so each is one action, used by UpstreamCalls.                  *)
(*                                                                         *)
(* Two abstractions, both exact: openedAt is kept as the time elapsed since *)
(* then, up to the cooldown, and failures are counted up to the threshold,  *)
(* because the code only compares them with these bounds.                   *)
(***************************************************************************)
EXTENDS Integers

CONSTANTS Threshold,  \* failureThreshold: consecutive failures that open the circuit
          Cooldown    \* cooldownMs, in units of the clock

ASSUME BreakerAssumption == Threshold \in Nat \ {0} /\ Cooldown \in Nat \ {0}

VARIABLES state,     \* "closed", "open" or "half-open"
          failures,  \* min(consecutiveFailures, Threshold)
          openFor    \* min(now - openedAt, Cooldown), Never when openedAt is null

breaker == <<state, failures, openFor>>

Never == -1

BreakerInit == state = "closed" /\ failures = 0 /\ openFor = Never

\* isOpen() returns false: the circuit is not open, or the cooldown has elapsed.
Admits == state # "open" \/ openFor = Cooldown

\* isOpen() returning false; an open circuit becomes half-open.
Admit ==
  /\ Admits
  /\ state' = IF state = "open" THEN "half-open" ELSE state
  /\ UNCHANGED <<failures, openFor>>

\* MUTANT: a success clears the count but leaves the circuit as it was.
MutRecordSuccess == failures' = 0 /\ UNCHANGED <<state, openFor>>

RecordSuccess == failures' = 0 /\ state' = "closed" /\ openFor' = Never

MoreFailures == IF failures < Threshold THEN failures + 1 ELSE failures

\* MUTANT: a failed trial reopens the circuit without restarting the cooldown.
MutRecordFailure ==
  /\ failures' = MoreFailures
  /\ \/ /\ state = "half-open"
        /\ state' = "open" /\ UNCHANGED openFor
     \/ /\ state # "half-open" /\ failures' >= Threshold
        /\ state' = "open" /\ openFor' = 0
     \/ /\ state # "half-open" /\ failures' < Threshold
        /\ UNCHANGED <<state, openFor>>

\* MUTANT: the failure count is tested before it is incremented.
MutRecordFailureLate ==
  /\ failures' = MoreFailures
  /\ IF state = "half-open" \/ failures >= Threshold
       THEN state' = "open" /\ openFor' = 0
       ELSE UNCHANGED <<state, openFor>>

\* A failed trial, or the failure that reaches the threshold, (re)opens the circuit.
RecordFailure ==
  /\ failures' = MoreFailures
  /\ IF state = "half-open" \/ failures' >= Threshold
       THEN state' = "open" /\ openFor' = 0
       ELSE UNCHANGED <<state, openFor>>

\* Time passes.
Elapse ==
  /\ openFor \in 0 .. Cooldown - 1
  /\ openFor' = openFor + 1
  /\ UNCHANGED <<state, failures>>

BreakerTypeOK ==
  /\ state \in {"closed", "open", "half-open"}
  /\ failures \in 0 .. Threshold
  /\ openFor \in {Never} \cup 0 .. Cooldown

\* The three fields agree: the circuit is closed exactly below the threshold and
\* exactly while openedAt is null, and half-open only once the cooldown is over.
BreakerConsistent ==
  /\ state = "closed" <=> failures < Threshold
  /\ state = "closed" <=> openFor = Never
  /\ state = "half-open" => openFor = Cooldown

=============================================================================
