------------------------------- MODULE Quota -------------------------------
(***************************************************************************)
(* What the daily request budget promises, as an atomic object.  Each day   *)
(* has Budget units; "normal" traffic may take a unit only while fewer than *)
(* Budget - Reserve of the day's units are taken, "reserve" traffic while   *)
(* fewer than Budget are.  A unit taken by a caller that dies before it     *)
(* learns of it is forfeited.  RequestBudget implements this object with    *)
(* Redis counters that several callers increment and roll back at once.     *)
(***************************************************************************)
EXTENDS Integers

CONSTANTS Days,     \* the day buckets
          Budget,   \* DAILY_REQUEST_BUDGET
          Reserve   \* DAILY_REQUEST_RESERVE

VARIABLE used       \* used[d][k]: the units of day d taken by callers of kind k

Kinds == {"normal", "reserve"}

\* The ceiling a caller of kind k is held to.
Ceiling(k) == IF k = "reserve" THEN Budget ELSE Budget - Reserve

Used(d) == used[d]["normal"] + used[d]["reserve"]

Init == used = [d \in Days |-> [k \in Kinds |-> 0]]

Take(d, k) ==
  /\ Used(d) < Ceiling(k)
  /\ used' = [used EXCEPT ![d][k] = @ + 1]

Forfeit(d, k) ==
  /\ used[d][k] > 0
  /\ used' = [used EXCEPT ![d][k] = @ - 1]

Next == \E d \in Days, k \in Kinds : Take(d, k) \/ Forfeit(d, k)

Spec == Init /\ [][Next]_used

=============================================================================
