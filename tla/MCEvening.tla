------------------------------- MODULE MCEvening --------------------------------
(* Three sessions from a Wednesday to a Friday, a weekend (one day), a       *)
(* Monday and a Tuesday; the evening of the Friday has no run.              *)
EXTENDS Evening, TLC

Open6 == {1, 2, 3, 5, 6}
TwoStocks == {1, 2}
Trading == (1 :> Open6) @@ (2 :> Open6 \ {5})
OneTwo == {1, 2}
BothCommands == {"night", "hand"}
Evenings == {1, 2, 4, 5, 6}
Steady ==
  [from |-> 8, stored |-> 2, asked |-> {2}, hands |-> 0, allowed |-> {}, slow |-> FALSE, daytime |-> FALSE, faults |-> 3]
Twice == [Steady EXCEPT !.from = 6, !.hands = 1, !.allowed = {"sync", "missing"}, !.faults = 1]
Hasty == [Steady EXCEPT !.from = 10, !.stored = 3, !.asked = {3}, !.hands = 1, !.allowed = {"sync", "fill"},
                        !.slow = TRUE, !.daytime = TRUE, !.faults = 0]
Rivals == [Steady EXCEPT !.from = 10, !.stored = 3, !.hands = 1, !.allowed = {"daily"}, !.faults = 1]
Beside == [Steady EXCEPT !.from = 12, !.stored = 1, !.asked = {1}, !.hands = 1, !.allowed = {"sync"}, !.faults = 0]
Parted == [Beside EXCEPT !.stored = 2, !.asked = {3}, !.allowed = {"fill"}]
Late == [Beside EXCEPT !.from = 10, !.stored = 3, !.asked = {3}, !.hands = 1, !.slow = TRUE, !.daytime = TRUE]
MixedWorlds == {Steady, Twice, Hasty, Rivals, Beside, Parted, Late}
=============================================================================
