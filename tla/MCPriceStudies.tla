--------------------------- MODULE MCPriceStudies ---------------------------
(* A handful of sessions around the change of tick size at 200: up and     *)
(* down, quiet and on volume, with gaps either way.                        *)
EXTENDS PriceStudies

Bar(o, h, l, c, v) == [open |-> o, high |-> h, low |-> l, close |-> c, volume |-> v]

MCShapes == {Bar(204, 222, 202, 220, 1), Bar(202, 226, 190, 210, 4),
             Bar(212, 212, 186, 189, 1), Bar(180, 195, 176, 193, 4)}
MCHorizons == {1, 3}
=============================================================================
