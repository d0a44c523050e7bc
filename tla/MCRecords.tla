------------------------------ MODULE MCRecords ------------------------------
(* Two symbols: a comes through the screener on the first day and the last   *)
(* alone, when its second session is out of the reach of a response, unless  *)
(* the upstream lists a session of a late; b is not in the screener's answer *)
(* and gets its rows from the backfill alone.                                *)
EXTENDS Records, TLC

CONSTANTS a, b

Traits(edge, score, momentum, imbalance, cap, ratio, volume) ==
    [price |-> 60, trap |-> FALSE, turnover |-> volume * 60, volume |-> volume,
     edge |-> edge, penalized |-> edge, score |-> score, momentum |-> momentum,
     imbalance |-> imbalance, cap |-> cap, ratio |-> ratio]

MCProfile   == a :> Traits(3, 1, 2, 1, 80, 1, 9) @@ b :> Traits(2, 2, 1, 0, 90, 2, 3)
MCScreens   == [d \in 1..4 |-> IF d \in {2, 3} THEN {{}} ELSE {{a}}]
MCLaggards  == {{}, {a}}
MCOpenings  == {{a, b}}
MCBreakouts == {<<b, 2>>}
MCStops     == {<<a, 1>>, <<a, 2>>, <<b, 2>>}
MCWorth     == {<<a, 1>>, <<a, 2>>, <<b, 2>>}
=============================================================================
