------------------------------ MODULE MCMetrics -----------------------------
(***************************************************************************)
(* Instance of Metrics for TLC: days of four instants; days 1 and 2 have   *)
(* passed, day 3 is live with two classes, day 4 follows its midnight.     *)
(***************************************************************************)
EXTENDS StatisticsPage

CONSTANTS first, second, noon, evening, v1, v2

MCStart == [c \in Classes |-> CASE c = first   -> 6
                                [] c = second  -> 10
                                [] c = noon    -> 13
                                [] c = evening -> 14]

Off        == [list |-> "off", at |-> NoInstant]
At(list, i) == [list |-> list, at |-> i]

MCHistory == [c \in Classes |->
  CASE c = first   -> {At("attended", 1)}
    [] c = second  -> {At("attended", 5), Off}
    [] c = noon    -> {At("cancelled", 11)}
    [] c = evening -> {At("attended", 11)}]

MCMonths == {<<1, 2>>, <<3, 4>>}

MCPeriodDays == [m1 |-> 2]

=============================================================================
