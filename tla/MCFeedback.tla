------------------------------- MODULE MCFeedback -------------------------------
(***************************************************************************)
(* Instances of Feedback: four stocks, and three traces that are run in    *)
(* any order.                                                              *)
(***************************************************************************)
EXTENDS Feedback, TLC

CONSTANTS a, b, c, k1, k2, k3, surge, A, B

MCStocks == 1 .. 4
MCTraces == {a, b, c}
MCKeywords == {k1, k2, k3}
MCIndustries == {A, B}
MCTypeOf == (k3 :> k1) @@ [k \in {k1, k2, surge} |-> k]

Legacy == [t \in MCTraces |-> "legacy"]
AllPass == [s \in MCStocks |-> {}]

\* A trace that has been scored and recommends out of four stocks, with any keywords
\* and industries.
Plain ==
  [traces |-> {a}, day |-> [t \in MCTraces |-> 1], executor |-> Legacy, named |-> MCStocks,
   keyword |-> [s \in MCStocks |-> IF s = 2 THEN k2 ELSE k1], industry |-> [s \in MCStocks |-> A],
   fails |-> AllPass, losing |-> {}, surging |-> {}, scored |-> TRUE, faults |-> 0]
Choices ==
  {[Plain EXCEPT !.keyword = keyword, !.industry = industry] :
     keyword \in [MCStocks -> MCKeywords], industry \in [MCStocks -> MCIndustries \cup {None}]}

\* The gates, and a stock that only surges.
Gated ==
  {[Plain EXCEPT !.fails[1] = fails, !.named = {1, 2, 3}, !.surging = {1} \X surging] :
     fails \in SUBSET {"stock", "gain"}, surging \in SUBSET {1, 4}}

\* Two stocks are named on the days 1, 3 and 4, and one of them loses.
Days3 ==
  [Plain EXCEPT !.traces = MCTraces, !.day = (a :> 1) @@ (b :> 3) @@ (c :> 4), !.named = {1, 2},
                !.losing = {1}, !.surging = {<<4, 1>>}, !.scored = FALSE]
Replays ==
  {Days3,
   [Days3 EXCEPT !.traces = {a, b}, !.faults = 2],
   [Days3 EXCEPT !.traces = {b, c}, !.faults = 2],
   [Days3 EXCEPT !.executor = [t \in MCTraces |-> "registry"], !.day[b] = 2, !.day[c] = 3],
   [Days3 EXCEPT !.executor[b] = "registry", !.day[c] = 3]}

MixedWorlds == Choices \cup Gated \cup Replays
=============================================================================
