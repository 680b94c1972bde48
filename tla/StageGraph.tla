----------------------------- MODULE StageGraph -----------------------------
(***************************************************************************)
(* The fixed graph of the daily pipeline (stage-registry.ts), what a       *)
(* change of one stage invalidates (artifact-store.ts) and the plans of a  *)
(* run (registry-pipeline.ts).                                             *)
(***************************************************************************)
EXTENDS Naturals, Sequences, SequencesExt

StageIds ==
  <<"news_fetch", "news_prepare", "exposure_refresh", "causal_extract", "graph_snapshot",
    "market_features", "expectation_gap", "theme_forecast", "penalty_refresh", "evidence_score",
    "recommendation_select", "recommendation_publish", "reconciliation", "strategy_evaluation">>

Stages == ToSet(StageIds)

Dependencies ==
  [s \in Stages |->
     CASE s = "news_prepare" -> {"news_fetch"}
       [] s = "causal_extract" -> {"news_prepare"}
       [] s = "graph_snapshot" -> {"causal_extract"}
       [] s = "expectation_gap" -> {"graph_snapshot", "exposure_refresh", "market_features"}
       [] s = "theme_forecast" -> {"causal_extract", "exposure_refresh", "expectation_gap"}
       [] s = "evidence_score" -> {"news_prepare", "causal_extract", "exposure_refresh",
                                   "graph_snapshot", "market_features", "penalty_refresh"}
       [] s = "recommendation_select" -> {"evidence_score"}
       [] s = "recommendation_publish" -> {"recommendation_select"}
       [] s = "reconciliation" -> {"recommendation_publish"}
       [] s = "strategy_evaluation" -> {"evidence_score"}
       [] OTHER -> {}]

DependentsOf(s) == {d \in Stages : s \in Dependencies[d]}

Position(s, seq) == CHOOSE i \in DOMAIN seq : seq[i] = s

\* resolveStageOrder: of the stages whose dependencies are all placed, the
\* first of StageIds is placed next.
Order ==
  LET Ready(placed) == {s \in Stages \ placed : Dependencies[s] \subseteq placed}
      First(ready) == CHOOSE s \in ready : \A t \in ready : Position(s, StageIds) <= Position(t, StageIds)
      prefix[n \in 0 .. Len(StageIds)] ==
        IF n = 0 THEN <<>> ELSE Append(prefix[n - 1], First(Ready(ToSet(prefix[n - 1]))))
  IN prefix[Len(StageIds)]

\* invalidatedStages: the stage and all that can be reached from it.
Invalidated ==
  [s \in Stages |->
     LET within[n \in 0 .. Len(StageIds)] ==
           IF n = 0 THEN {s} ELSE within[n - 1] \cup UNION {DependentsOf(d) : d \in within[n - 1]}
     IN within[Len(StageIds)]]

\* resolveStageOrderForStop: the plan of a run ends with the stage it stops after.
PlanUpTo == [s \in Stages |-> SubSeq(Order, 1, Position(s, Order))]

\* What of a sequence is in a set.
Within(seq, set) ==
  LET kept[n \in 0 .. Len(seq)] ==
        IF n = 0 THEN <<>> ELSE IF seq[n] \in set THEN Append(kept[n - 1], seq[n]) ELSE kept[n - 1]
  IN kept[Len(seq)]

\* resolveRecomputePlan: what is recomputed, and what is copied instead.
AffectedPlan == [s \in Stages |-> Within(Order, Invalidated[s])]
UpstreamPlan == [s \in Stages |-> Within(Order, Stages \ Invalidated[s])]

=============================================================================
