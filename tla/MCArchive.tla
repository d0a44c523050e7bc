------------------------------ MODULE MCArchive ------------------------------
(* Days are weeks of six-week quarters; a statement is public six weeks      *)
(* after its quarter.  The statements of b and of the bank c were archived   *)
(* just now, those of a in time past: what is asked for again may be newer.  *)
(* In week 35 the last of the five quarters is not public.                   *)
EXTENDS Fundamentals, TLC

CONSTANTS a, b, c

MCTurnover == a :> 1 @@ b :> 2 @@ c :> 3

Archived(s, at) ==
    [i \in {"fundamentals"} \X {s} \X {Income, Balance, CashFlow, History} |->
        [at |-> IF i[3] = History THEN FirstDay ELSE at, whole |-> TRUE, until |-> Released]]

Book(sc, s, key) == <<sc, s, key>> :> [at |-> FirstDay, whole |-> TRUE, until |-> 0]

MCInitial ==
    Archived(a, FirstDay - FreshDays) @@ Archived(b, FirstDay) @@ Archived(c, FirstDay)
    @@ Book("books", a, FirstDay) @@ Book("books", b, FirstDay)
    @@ Book("weekly", a, FirstDay - 3) @@ Book("weekly", b, FirstDay - 3)

MCUnavailable == {<<"fundamentals", a, Balance>>}

Figures(ni, rev, equity, assets, ocf) ==
    [ni |-> ni, rev |-> rev, equity |-> equity, assets |-> assets, ocf |-> ocf]

\* a turns a loss in quarter 5, b is leveraged, a bank reports no revenue.
MCReport ==
    a :> [q \in 0..6 |-> IF q = 5 THEN Figures(-9, 20, 30, 60, -8) ELSE Figures(2 + q, 10 + 2 * q, 40, 60, 3)] @@
    b :> [q \in 0..6 |-> Figures(5 - q, 20 - q, 20, 70, 2)] @@
    c :> [q \in 0..6 |-> Figures(3, None, 50, 400, 1 + q)]

MCReturn20 == a :> 1 @@ b :> 0 @@ c :> 3
MCCap      == a :> 90 @@ b :> 60 @@ c :> None
MCFlow     == [s \in {a, b, c} |-> [t \in 30..43 |-> IF s = a THEN <<t - 40, 5>> ELSE <<1, 3>>]]
MCTraded   == a :> {35} \cup 39..43 @@ b :> {35, 38} \cup 40..43 @@ c :> {35} \cup 38..43
MCClose    == [s \in {a, b, c} |-> [t \in 30..43 |-> IF s = b THEN 2 ELSE 1 + (t % 2)]]
MCShares   == a :> 45 @@ b :> 30 @@ c :> 80
=============================================================================
