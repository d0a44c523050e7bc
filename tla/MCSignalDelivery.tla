-------------------------- MODULE MCSignalDelivery --------------------------
(***************************************************************************)
(* The constants of the run of SignalDelivery.  One symbol changes its      *)
(* category and may come with the bar of the day before; the other one      *)
(* makes a run have two signals to persist and to announce.                 *)
(***************************************************************************)
EXTENDS SignalDelivery

CONSTANTS s1, s2, buy, avoid

Found ==
  {[symbol |-> s1, category |-> buy, lag |-> 0], [symbol |-> s1, category |-> avoid, lag |-> 0],
   [symbol |-> s1, category |-> buy, lag |-> 1], [symbol |-> s2, category |-> buy, lag |-> 0]}

=============================================================================
