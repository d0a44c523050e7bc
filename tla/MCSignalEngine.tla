--------------------------- MODULE MCSignalEngine ---------------------------
(* Days around the thresholds: buyers that are many or one, a top buyer that *)
(* turns seller, a close that is strong, weak, far above what the buyers     *)
(* paid, and a price so low that the costs eat the reward.                   *)
EXTENDS SignalEngine

Bar(l, h, c, v) == [low |-> l, high |-> h, close |-> c, volume |-> v]
Row(b, buy, sell, price) ==
    [broker |-> b, buy |-> buy, sell |-> sell, cost |-> buy * price, proceeds |-> sell * price]

\* Eight buyers of one lot, four sellers.
Broad(price) ==
    [b \in 1..12 |-> IF b <= 8 THEN Row(b, 1, 0, price) ELSE Row(b, 0, 2, price)]
\* Broker 1 buys most, or sells most, or buys nearly all.
Led(price) == <<Row(1, 3, 0, price), Row(2, 2, 0, price), Row(3, 2, 0, price),
                Row(4, 2, 0, price), Row(5, 2, 0, price), Row(6, 0, 6, price), Row(7, 0, 5, price)>>
Left(price) == <<Row(1, 0, 6, price), Row(2, 2, 0, price), Row(3, 2, 0, price),
                 Row(4, 2, 0, price), Row(5, 2, 0, price), Row(6, 2, 0, price), Row(7, 0, 4, price)>>
One(price) == <<Row(1, 9, 0, price), Row(2, 1, 0, price), Row(3, 0, 10, price)>>

MCSessions ==
    {[bar |-> Bar(990, 1000, 1000, 1),   book |-> Broad(985)],
     [bar |-> Bar(1000, 1030, 1030, 8),  book |-> Broad(1000)],
     [bar |-> Bar(1000, 1030, 1025, 6),  book |-> Led(1000)],
     [bar |-> Bar(1010, 1045, 1040, 6),  book |-> Left(1010)],
     [bar |-> Bar(1000, 1100, 1080, 8),  book |-> Broad(1000)],
     [bar |-> Bar(970, 1010, 980, 8),    book |-> One(1000)],
     [bar |-> Bar(58, 60, 60, 40),       book |-> Broad(59)],
     [bar |-> Bar(48, 50, 50, 40),       book |-> <<>>]}

MCStrategy ==
    [meaningfulBuyerMinShare |-> 5, minMeaningfulBuyers |-> 4, top1ShareMax |-> 35,
     top3ShareMax |-> 70, hhiMax |-> 25, persistenceMinDays |-> 2,
     persistenceWindowDays |-> 3, chaseMax |-> 35, strongBuyMin |-> 80,
     speculativeBuyMin |-> 65, watchlistMin |-> 50]
=============================================================================
