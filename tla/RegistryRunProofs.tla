------------------------- MODULE RegistryRunProofs -------------------------
(***************************************************************************)
(* Proofs about RegistryRun for any number of runs, any commands, faults   *)
(* and versions: the types, that what is final stays so, that what is      *)
(* published was computed from what the trace holds, that a run that ends  *)
(* well is recorded, and that a run that is refused has a cause.           *)
(*                                                                         *)
(* The order and the plans of StageGraph are computed from the fourteen    *)
(* stages by recursion over a bounded range, which is proved here by a     *)
(* least counterexample.  Then every step is seen three ways: as what it   *)
(* makes of the row of its run (Moves), what it writes (Writers), and      *)
(* where it goes (Flow); the invariants are proved from these.             *)
(***************************************************************************)
EXTENDS RegistryRun, WellFoundedInduction, SequenceTheorems, TLAPS

-----------------------------------------------------------------------------
(* Induction over a bounded range, as a fact about sets *)

\* A set of natural numbers has a least one.
LEMMA LeastNumber ==
  ASSUME NEW S \in SUBSET Nat, S # {}
  PROVE  \E m \in S : \A k \in S : m <= k
<1>. DEFINE R == OpToRel(<, Nat)
<1>1. IsWellFoundedOn(R, Nat)
  BY NatLessThanWellFounded
<1>2. \A x, y \in Nat : x < y => <<x, y>> \in R
  BY DEF OpToRel
<1>. HIDE DEF R
<1>3. PICK m \in S : \A k \in S : <<k, m>> \notin R
  BY <1>1, WFMin, Zenon
<1>4. \A k \in S : ~(k < m)
  BY <1>2, <1>3
<1>. QED
  BY <1>4

\* A set that has 0 and with a number the next one has all up to the bound.
LEMMA Reaches ==
  ASSUME NEW N \in Nat, NEW S, 0 \in S, \A n \in 0 .. N : n \in S /\ n < N => n + 1 \in S
  PROVE  \A n \in 0 .. N : n \in S
<1>. SUFFICES ASSUME NEW n \in 0 .. N, n \notin S
              PROVE  FALSE
  OBVIOUS
<1>. DEFINE missing == {k \in 0 .. N : k \notin S}
<1>1. missing \subseteq Nat /\ missing # {}
  OBVIOUS
<1>. HIDE DEF missing
<1>2. PICK m \in missing : \A k \in missing : m <= k
  BY <1>1, LeastNumber
<1>3. m \in 0 .. N /\ m \notin S /\ m # 0
  BY <1>2 DEF missing
<1>4. m - 1 \in 0 .. N /\ m - 1 \notin missing
  BY <1>2, <1>3
<1>. QED
  BY <1>3, <1>4 DEF missing

-----------------------------------------------------------------------------
(* The order of the stages *)

Place(s) == Position(s, StageIds)

\* The fourteen stages, by number.
LEMMA StagesByNumber ==
  /\ Len(StageIds) = 14 /\ DOMAIN StageIds = 1 .. 14
  /\ StageIds \in Seq(Stages)
  /\ Stages = {StageIds[n] : n \in 1 .. 14}
  /\ \A i, j \in 1 .. 14 : StageIds[i] = StageIds[j] => i = j
BY DEF Stages, StageIds, ToSet

\* The place of a stage is its number.
LEMMA PlaceOfStage ==
  /\ \A n \in 1 .. 14 : Place(StageIds[n]) = n
  /\ \A s \in Stages : Place(s) \in 1 .. 14 /\ StageIds[Place(s)] = s
  /\ \A s, t \in Stages : Place(s) = Place(t) => s = t
<1>1. ASSUME NEW n \in 1 .. 14
      PROVE  Place(StageIds[n]) = n
  BY StagesByNumber DEF Place, Position
<1>. QED
  BY <1>1, StagesByNumber

\* The number of each stage.
LEMMA Numbers ==
  /\ Place("news_fetch") = 1 /\ Place("news_prepare") = 2 /\ Place("exposure_refresh") = 3
  /\ Place("causal_extract") = 4 /\ Place("graph_snapshot") = 5 /\ Place("market_features") = 6
  /\ Place("expectation_gap") = 7 /\ Place("theme_forecast") = 8 /\ Place("penalty_refresh") = 9
  /\ Place("evidence_score") = 10 /\ Place("recommendation_select") = 11
  /\ Place("recommendation_publish") = 12 /\ Place("reconciliation") = 13
  /\ Place("strategy_evaluation") = 14
<1>1. /\ StageIds[1] = "news_fetch" /\ StageIds[2] = "news_prepare" /\ StageIds[3] = "exposure_refresh"
      /\ StageIds[4] = "causal_extract" /\ StageIds[5] = "graph_snapshot" /\ StageIds[6] = "market_features"
      /\ StageIds[7] = "expectation_gap" /\ StageIds[8] = "theme_forecast" /\ StageIds[9] = "penalty_refresh"
      /\ StageIds[10] = "evidence_score" /\ StageIds[11] = "recommendation_select"
      /\ StageIds[12] = "recommendation_publish" /\ StageIds[13] = "reconciliation"
      /\ StageIds[14] = "strategy_evaluation"
  BY DEF StageIds
<1>. QED
  BY <1>1, PlaceOfStage

\* What a stage depends on comes before it.
LEMMA DependenciesEarlier ==
  ASSUME NEW s \in Stages
  PROVE  Dependencies[s] \subseteq Stages /\ \A d \in Dependencies[s] : Place(d) < Place(s)
<1>1. Stages = {"news_fetch", "news_prepare", "exposure_refresh", "causal_extract", "graph_snapshot",
                "market_features", "expectation_gap", "theme_forecast", "penalty_refresh", "evidence_score",
                "recommendation_select", "recommendation_publish", "reconciliation", "strategy_evaluation"}
  BY DEF Stages, StageIds, ToSet
<1>2. Dependencies[s] \subseteq Stages
  BY <1>1 DEF Dependencies
<1>3. ASSUME NEW d \in Dependencies[s]
      PROVE  Place(d) < Place(s)
  BY <1>1, <1>3, Numbers DEF Dependencies
<1>. QED
  BY <1>2, <1>3

\* The stages that come before the n-th one, and those that may be placed then.
Before(n) == {StageIds[k] : k \in 1 .. n - 1}
ReadyAt(placed) == {s \in Stages \ placed : Dependencies[s] \subseteq placed}
FirstOf(ready) == CHOOSE s \in ready : \A t \in ready : Position(s, StageIds) <= Position(t, StageIds)

\* Of the stages that may be placed after the first ones, the next one is the first.
LEMMA NextPlaced ==
  ASSUME NEW n \in 1 .. 14
  PROVE  FirstOf(ReadyAt(Before(n))) = StageIds[n]
<1>. DEFINE s == StageIds[n]
<1>1. s \in Stages /\ Place(s) = n
  BY StagesByNumber, PlaceOfStage
<1>2. s \notin Before(n)
  BY StagesByNumber DEF Before
<1>3. Dependencies[s] \subseteq Before(n)
  <2>. SUFFICES ASSUME NEW d \in Dependencies[s]
                PROVE  d \in Before(n)
    OBVIOUS
  <2>1. d \in Stages /\ Place(d) < n
    BY <1>1, DependenciesEarlier
  <2>2. d = StageIds[Place(d)] /\ Place(d) \in 1 .. n - 1
    BY <2>1, PlaceOfStage
  <2>. QED
    BY <2>2 DEF Before
<1>4. s \in ReadyAt(Before(n))
  BY <1>1, <1>2, <1>3 DEF ReadyAt
<1>5. ASSUME NEW t \in ReadyAt(Before(n))
      PROVE  n <= Place(t)
  <2>1. t \in Stages /\ t \notin Before(n)
    BY DEF ReadyAt
  <2>2. Place(t) \in 1 .. 14 /\ t = StageIds[Place(t)]
    BY <2>1, PlaceOfStage
  <2>. QED
    BY <2>1, <2>2 DEF Before
<1>6. \A t \in ReadyAt(Before(n)) : Place(t) = n => t = s
  BY <1>1, PlaceOfStage DEF ReadyAt
<1>7. \A t \in ReadyAt(Before(n)) : Place(s) <= Place(t)
  BY <1>1, <1>5
<1>8. FirstOf(ReadyAt(Before(n))) = CHOOSE x \in ReadyAt(Before(n)) : \A t \in ReadyAt(Before(n)) : Place(x) <= Place(t)
  BY DEF FirstOf, Place
<1>9. ASSUME NEW x \in ReadyAt(Before(n)), \A t \in ReadyAt(Before(n)) : Place(x) <= Place(t)
      PROVE  x = s
  <2>1. x \in Stages /\ Place(x) \in 1 .. 14
    BY PlaceOfStage DEF ReadyAt
  <2>. QED
    BY <1>1, <1>4, <1>5, <1>6, <1>9, <2>1
<1>. QED
  BY <1>4, <1>7, <1>8, <1>9

\* The first n stages.
FirstStages(n) == SubSeq(StageIds, 1, n)

\* The first stages one by one.
LEMMA FirstStagesGrow ==
  /\ FirstStages(0) = <<>> /\ FirstStages(14) = StageIds
  /\ \A n \in 1 .. 14 : /\ ToSet(FirstStages(n - 1)) = Before(n)
                        /\ FirstStages(n) = Append(FirstStages(n - 1), StageIds[n])
<1>1. FirstStages(0) = <<>>
  BY StagesByNumber DEF FirstStages
<1>2. FirstStages(14) = StageIds
  BY StagesByNumber DEF FirstStages
<1>3. ASSUME NEW n \in 1 .. 14
      PROVE  /\ ToSet(FirstStages(n - 1)) = Before(n)
             /\ FirstStages(n) = Append(FirstStages(n - 1), StageIds[n])
  <2>1. /\ FirstStages(n - 1) \in Seq(Stages) /\ Len(FirstStages(n - 1)) = n - 1
        /\ \A k \in 1 .. n - 1 : FirstStages(n - 1)[k] = StageIds[k]
    BY StagesByNumber DEF FirstStages
  <2>2. /\ FirstStages(n) \in Seq(Stages) /\ Len(FirstStages(n)) = n
        /\ \A k \in 1 .. n : FirstStages(n)[k] = StageIds[k]
    BY StagesByNumber DEF FirstStages
  <2>3. ToSet(FirstStages(n - 1)) = Before(n)
    BY <2>1 DEF ToSet, Before
  <2>. DEFINE longer == Append(FirstStages(n - 1), StageIds[n])
  <2>4. longer \in Seq(Stages) /\ Len(longer) = n /\ \A k \in 1 .. n : longer[k] = StageIds[k]
    <3>1. StageIds[n] \in Stages /\ n - 1 \in Nat
      BY StagesByNumber
    <3>2. longer \in Seq(Stages) /\ Len(longer) = n
      BY <2>1, <3>1
    <3>3. longer[n] = StageIds[n] /\ \A k \in 1 .. n - 1 : longer[k] = FirstStages(n - 1)[k]
      BY <2>1, <3>1
    <3>. QED
      BY <2>1, <3>2, <3>3
  <2>. HIDE DEF longer
  <2>5. FirstStages(n) = longer
    BY <2>2, <2>4, SeqEqual
  <2>6. FirstStages(n) = Append(FirstStages(n - 1), StageIds[n])
    BY <2>5 DEF longer
  <2>. QED
    BY <2>3, <2>6
<1>. QED
  BY <1>1, <1>2, <1>3

\* resolveStageOrder gives the order in which the registry lists the stages.
LEMMA OrderIsListed == Order = StageIds
<1>. DEFINE Step(f, n) == IF n = 0 THEN <<>> ELSE Append(f[n - 1], FirstOf(ReadyAt(ToSet(f[n - 1]))))
            Is(f) == f = [n \in 0 .. Len(StageIds) |-> Step(f, n)]
            prefix == CHOOSE f : Is(f)
            listed == [n \in 0 .. 14 |-> FirstStages(n)]
<1>1. Order = prefix[Len(StageIds)]
  BY DEF Order, FirstOf, ReadyAt
<1>2. Is(listed)
  <2>1. ASSUME NEW n \in 0 .. 14
        PROVE  listed[n] = Step(listed, n)
    <3>1. CASE n = 0
      BY <3>1, FirstStagesGrow
    <3>2. CASE n # 0
      <4>1. n \in 1 .. 14 /\ n - 1 \in 0 .. 14 /\ listed[n - 1] = FirstStages(n - 1)
        BY <3>2
      <4>2. Step(listed, n) = Append(FirstStages(n - 1), FirstOf(ReadyAt(Before(n))))
        BY <3>2, <4>1, FirstStagesGrow
      <4>. QED
        BY <4>1, <4>2, FirstStagesGrow, NextPlaced
    <3>. QED
      BY <3>1, <3>2
  <2>. QED
    BY <2>1, StagesByNumber
<1>3. Is(prefix)
  BY <1>2
<1>. HIDE DEF listed
<1>4. \A n \in 0 .. 14 : prefix[n] = Step(prefix, n)
  BY <1>3, StagesByNumber
<1>. HIDE DEF prefix
<1>. DEFINE same == {n \in 0 .. 14 : prefix[n] = FirstStages(n)}
<1>5. 0 \in same
  <2>1. prefix[0] = Step(prefix, 0)
    BY <1>4
  <2>2. prefix[0] = FirstStages(0)
    BY <2>1, FirstStagesGrow
  <2>. QED
    BY <2>2
<1>6. ASSUME NEW n \in 0 .. 14, n \in same, n < 14
      PROVE  n + 1 \in same
  <2>1. n + 1 \in 1 .. 14 /\ n + 1 \in 0 .. 14 /\ (n + 1) - 1 = n
    BY <1>6
  <2>2. prefix[n + 1] = Append(FirstStages(n), FirstOf(ReadyAt(Before(n + 1))))
    <3>1. prefix[n + 1] = Step(prefix, n + 1)
      BY <1>4, <2>1
    <3>2. Step(prefix, n + 1) = Append(prefix[n], FirstOf(ReadyAt(ToSet(prefix[n]))))
      BY <2>1
    <3>3. prefix[n] = FirstStages(n) /\ ToSet(FirstStages(n)) = Before(n + 1)
      BY <1>6, <2>1, FirstStagesGrow
    <3>. QED
      BY <3>1, <3>2, <3>3
  <2>. QED
    BY <2>1, <2>2, FirstStagesGrow, NextPlaced
<1>. HIDE DEF same
<1>7. \A n \in 0 .. 14 : n \in same
  BY <1>5, <1>6, Reaches
<1>8. prefix[14] = FirstStages(14)
  BY <1>7 DEF same
<1>. QED
  BY <1>1, <1>8, FirstStagesGrow, StagesByNumber

-----------------------------------------------------------------------------
(* Recursion over a bounded range *)

\* f is a recursive function over a bounded range.
Recurses(f, N, T, base, G) ==
  f \in [0 .. N -> T] /\ f[0] = base /\ \A n \in 1 .. N : f[n] = G[<<f[n - 1], n>>]

\* A recursive function over a bounded range exists.
LEMMA Recursion ==
  ASSUME NEW N \in Nat, NEW T, NEW base \in T, NEW G, G \in [T \X (1 .. N) -> T]
  PROVE  \E f : Recurses(f, N, T, base, G)
<1>. DEFINE Upto(f, m) == f \in [0 .. m -> T] /\ f[0] = base /\ \A n \in 1 .. m : f[n] = G[<<f[n - 1], n>>]
            S == {m \in 0 .. N : \E f : Upto(f, m)}
<1>1. 0 \in S
  <2>1. Upto([k \in 0 .. 0 |-> base], 0)
    OBVIOUS
  <2>. HIDE DEF Upto
  <2>2. 0 \in 0 .. N /\ \E f : Upto(f, 0)
    BY <2>1
  <2>. QED
    BY <2>2
<1>2. ASSUME NEW m \in 0 .. N, m \in S, m < N
      PROVE  m + 1 \in S
  <2>1. PICK f : Upto(f, m)
    BY <1>2
  <2>. DEFINE g == [k \in 0 .. m + 1 |-> IF k = m + 1 THEN G[<<f[m], m + 1>>] ELSE f[k]]
  <2>2. G[<<f[m], m + 1>>] \in T
    BY <1>2, <2>1
  <2>3. g \in [0 .. m + 1 -> T] /\ g[0] = base
    BY <1>2, <2>1, <2>2
  <2>4. ASSUME NEW n \in 1 .. m + 1
        PROVE  g[n] = G[<<g[n - 1], n>>]
    <3>1. n - 1 \in 0 .. m + 1 /\ n \in 0 .. m + 1 /\ n - 1 # m + 1 /\ m \in Nat
      BY <1>2
    <3>2. g[n - 1] = f[n - 1]
      BY <3>1
    <3>3. CASE n = m + 1
      <4>1. g[n] = G[<<f[m], m + 1>>] /\ n - 1 = m
        BY <3>1, <3>3
      <4>. QED
        BY <3>2, <3>3, <4>1
    <3>4. CASE n # m + 1
      <4>1. g[n] = f[n] /\ n \in 1 .. m
        BY <3>1, <3>4
      <4>. QED
        BY <2>1, <3>2, <4>1
    <3>. QED
      BY <3>3, <3>4
  <2>5. Upto(g, m + 1)
    BY <2>3, <2>4
  <2>. HIDE DEF Upto, g
  <2>6. m + 1 \in 0 .. N /\ \E h : Upto(h, m + 1)
    BY <1>2, <2>5
  <2>. QED
    BY <2>6
<1>. HIDE DEF S
<1>3. N \in S
  BY <1>1, <1>2, Reaches
<1>. QED
  BY <1>3 DEF S, Recurses

-----------------------------------------------------------------------------
(* What a change invalidates *)

\* A set of stages and what depends on it directly.
Wider(set) == set \cup UNION {DependentsOf(d) : d \in set}

\* One round of the closure stays among the stages.
LEMMA WiderStages == \A set \in SUBSET Stages : Wider(set) \in SUBSET Stages
BY DEF Wider, DependentsOf

\* The recursion of Invalidated, as a fact about a function.
LEMMA InvalidatedSteps ==
  ASSUME NEW s \in Stages
  PROVE  \E f \in [0 .. 14 -> SUBSET Stages] :
           f[0] = {s} /\ (\A n \in 1 .. 14 : f[n] = Wider(f[n - 1])) /\ Invalidated[s] = f[14]
<1>. DEFINE Is(f) == f = [n \in 0 .. Len(StageIds) |-> IF n = 0 THEN {s} ELSE Wider(f[n - 1])]
            within == CHOOSE f : Is(f)
            G == [p \in (SUBSET Stages) \X (1 .. 14) |-> Wider(p[1])]
<1>1. Invalidated[s] = within[Len(StageIds)]
  BY DEF Invalidated, Wider
<1>2. G \in [(SUBSET Stages) \X (1 .. 14) -> SUBSET Stages]
  BY WiderStages
<1>3. \E f : Recurses(f, 14, SUBSET Stages, {s}, G)
  <2>1. {s} \in SUBSET Stages /\ 14 \in Nat
    OBVIOUS
  <2>. HIDE DEF G
  <2>. QED
    BY <1>2, <2>1, Recursion
<1>4. PICK f : f \in [0 .. 14 -> SUBSET Stages] /\ f[0] = {s} /\ \A n \in 1 .. 14 : f[n] = G[<<f[n - 1], n>>]
  BY <1>3 DEF Recurses
<1>5. ASSUME NEW n \in 1 .. 14
      PROVE  f[n] = Wider(f[n - 1])
  <2>1. <<f[n - 1], n>> \in (SUBSET Stages) \X (1 .. 14)
    BY <1>4
  <2>. QED
    BY <1>4, <2>1
<1>6. f = [n \in 0 .. 14 |-> IF n = 0 THEN {s} ELSE Wider(f[n - 1])]
  BY <1>4, <1>5
<1>7. Is(within)
  BY <1>6, StagesByNumber
<1>. HIDE DEF within
<1>8. \A n \in 0 .. 14 : within[n] = IF n = 0 THEN {s} ELSE Wider(within[n - 1])
  BY <1>7, StagesByNumber
<1>9. within[0] = {s} /\ \A n \in 1 .. 14 : within[n] = Wider(within[n - 1])
  BY <1>8
<1>. DEFINE typed == {n \in 0 .. 14 : within[n] \in SUBSET Stages}
<1>10. 0 \in typed
  BY <1>9
<1>11. ASSUME NEW n \in 0 .. 14, n \in typed, n < 14
       PROVE  n + 1 \in typed
  <2>1. n + 1 \in 1 .. 14 /\ (n + 1) - 1 = n
    BY <1>11
  <2>. QED
    BY <1>9, <1>11, <2>1, WiderStages
<1>. HIDE DEF typed
<1>12. \A n \in 0 .. 14 : n \in typed
  BY <1>10, <1>11, Reaches
<1>13. within \in [0 .. 14 -> SUBSET Stages]
  <2>1. within = [n \in 0 .. 14 |-> within[n]]
    BY <1>7, StagesByNumber
  <2>. QED
    BY <1>12, <2>1 DEF typed
<1>. QED
  BY <1>1, <1>9, <1>13, StagesByNumber

\* Dependents come later.
LEMMA DependentsLater ==
  ASSUME NEW d \in Stages, NEW t \in DependentsOf(d)
  PROVE  t \in Stages /\ d \in Dependencies[t] /\ Place(d) < Place(t)
BY DependenciesEarlier DEF DependentsOf

\* invalidatedStages: the stage, what comes behind it, closed under dependents, and no more.
Closed(set) == \A d \in set : DependentsOf(d) \subseteq set

\* A stage invalidates itself, with each stage what depends on it, and nothing
\* that does not come after it.
LEMMA InvalidatedFacts ==
  ASSUME NEW s \in Stages
  PROVE  /\ Invalidated[s] \subseteq Stages /\ s \in Invalidated[s]
         /\ Closed(Invalidated[s])
         /\ \A t \in Invalidated[s] : t = s \/ (Place(s) < Place(t) /\ \E d \in Dependencies[t] : d \in Invalidated[s])
         /\ \A set : s \in set /\ Closed(set) => Invalidated[s] \subseteq set
<1>1. PICK f \in [0 .. 14 -> SUBSET Stages] :
        f[0] = {s} /\ (\A n \in 1 .. 14 : f[n] = Wider(f[n - 1])) /\ Invalidated[s] = f[14]
  BY InvalidatedSteps
<1>2. \A n \in 0 .. 13 : f[n + 1] = f[n] \cup UNION {DependentsOf(d) : d \in f[n]}
  <2>1. \A n \in 0 .. 13 : n + 1 \in 1 .. 14 /\ (n + 1) - 1 = n
    OBVIOUS
  <2>. QED
    BY <1>1, <2>1 DEF Wider
<1>3. \A n \in 0 .. 14 : f[n] \subseteq Stages
  BY <1>1
<1>4. /\ s \in f[14]
      /\ \A t \in f[14] : t = s \/ (Place(s) < Place(t) /\ \E d \in Dependencies[t] : d \in f[14])
  <2>. DEFINE Fine(n) == /\ s \in f[n]
                         /\ \A t \in f[n] : t = s \/ (Place(s) < Place(t) /\ \E d \in Dependencies[t] : d \in f[n])
              fine == {n \in 0 .. 14 : Fine(n)}
  <2>1. 0 \in fine
    BY <1>1
  <2>2. ASSUME NEW n \in 0 .. 14, n \in fine, n < 14
        PROVE  n + 1 \in fine
    <3>1. n \in 0 .. 13 /\ n + 1 \in 0 .. 14
      BY <2>2
    <3>2. Fine(n)
      BY <2>2
    <3>3. s \in f[n + 1] /\ f[n] \subseteq f[n + 1]
      BY <1>2, <3>1, <3>2
    <3>4. ASSUME NEW t \in f[n + 1], t \notin f[n]
          PROVE  Place(s) < Place(t) /\ \E d \in Dependencies[t] : d \in f[n + 1]
      <4>1. PICK d \in f[n] : t \in DependentsOf(d)
        BY <1>2, <3>1, <3>4
      <4>2. d \in Stages /\ t \in Stages /\ d \in Dependencies[t] /\ Place(d) < Place(t)
        BY <1>3, <2>2, <4>1, DependentsLater
      <4>3. Place(s) <= Place(d)
        BY <3>2, <4>2, PlaceOfStage
      <4>. QED
        BY <3>3, <4>1, <4>2, <4>3, PlaceOfStage
    <3>5. Fine(n + 1)
      BY <3>2, <3>3, <3>4
    <3>. QED
      BY <3>1, <3>5
  <2>. HIDE DEF fine
  <2>3. 14 \in fine
    BY <2>1, <2>2, Reaches
  <2>. QED
    BY <2>3 DEF fine
<1>5. f[14] = f[13]
  <2>. DEFINE Far(n) == \A t \in f[n + 1] : t \notin f[n] => Place(t) > Place(s) + n
              far == {n \in 0 .. 13 : Far(n)}
  <2>1. 0 \in far
    <3>1. ASSUME NEW t \in f[0 + 1], t \notin f[0]
          PROVE  Place(t) > Place(s) + 0
      <4>1. t \in DependentsOf(s)
        BY <1>1, <1>2, <3>1
      <4>. QED
        BY <4>1, DependentsLater, PlaceOfStage
    <3>. QED
      BY <3>1
  <2>2. ASSUME NEW n \in 0 .. 13, n \in far, n < 13
        PROVE  n + 1 \in far
    <3>1. n + 1 \in 0 .. 13 /\ (n + 1) + 1 \in 0 .. 14 /\ n + 1 \in 0 .. 14
      BY <2>2
    <3>2. ASSUME NEW t \in f[(n + 1) + 1], t \notin f[n + 1]
          PROVE  Place(t) > Place(s) + (n + 1)
      <4>1. PICK d \in f[n + 1] : t \in DependentsOf(d)
        BY <1>2, <3>1, <3>2
      <4>2. d \notin f[n]
        BY <1>2, <2>2, <3>2, <4>1
      <4>3. Place(d) > Place(s) + n
        BY <2>2, <4>1, <4>2
      <4>4. d \in Stages /\ t \in Stages /\ Place(d) < Place(t)
        BY <1>3, <3>1, <4>1, DependentsLater
      <4>. QED
        BY <4>3, <4>4, PlaceOfStage
    <3>. QED
      BY <3>1, <3>2
  <2>. HIDE DEF far
  <2>3. 13 \in far
    BY <2>1, <2>2, Reaches
  <2>4. \A t \in f[14] : t \notin f[13] => Place(t) > Place(s) + 13
    BY <2>3 DEF far
  <2>5. \A t \in f[14] : Place(t) <= 14 /\ Place(s) >= 1 /\ Place(t) \in Nat /\ Place(s) \in Nat
    BY <1>3, PlaceOfStage
  <2>6. f[14] \subseteq f[13]
    BY <2>4, <2>5
  <2>7. 13 \in 0 .. 13 /\ 13 + 1 = 14
    OBVIOUS
  <2>8. f[13] \subseteq f[14]
    BY <1>2, <2>7
  <2>. QED
    BY <2>6, <2>8
<1>6. Closed(f[14])
  <2>1. 13 \in 0 .. 13 /\ 13 + 1 = 14
    OBVIOUS
  <2>2. UNION {DependentsOf(d) : d \in f[13]} \subseteq f[14]
    BY <1>2, <2>1
  <2>. QED
    BY <1>5, <2>2 DEF Closed
<1>7. ASSUME NEW set, s \in set, Closed(set)
      PROVE  f[14] \subseteq set
  <2>. DEFINE inside == {n \in 0 .. 14 : f[n] \subseteq set}
  <2>1. 0 \in inside
    BY <1>1, <1>7
  <2>2. ASSUME NEW n \in 0 .. 14, n \in inside, n < 14
        PROVE  n + 1 \in inside
    <3>1. n \in 0 .. 13 /\ n + 1 \in 0 .. 14
      BY <2>2
    <3>. QED
      BY <1>2, <1>7, <2>2, <3>1 DEF Closed
  <2>. HIDE DEF inside
  <2>3. 14 \in inside
    BY <2>1, <2>2, Reaches
  <2>. QED
    BY <2>3 DEF inside
<1>. QED
  BY <1>1, <1>3, <1>4, <1>6, <1>7

-----------------------------------------------------------------------------
(* The plans *)

\* Stages in the order of the registry, none of them twice.
InOrder(p) == p \in Seq(Stages) /\ \A i, j \in 1 .. Len(p) : i < j => Place(p[i]) < Place(p[j])

\* The recursion of Within, as a fact about a function.
LEMMA WithinSteps ==
  ASSUME NEW set
  PROVE  \E f :
           /\ f \in [0 .. 14 -> Seq(Stages)] /\ f[0] = <<>> /\ Within(StageIds, set) = f[14]
           /\ \A n \in 1 .. 14 : f[n] = IF StageIds[n] \in set THEN Append(f[n - 1], StageIds[n]) ELSE f[n - 1]
<1>. DEFINE More(q, n) == IF StageIds[n] \in set THEN Append(q, StageIds[n]) ELSE q
            Is(f) == f = [n \in 0 .. Len(StageIds) |-> IF n = 0 THEN <<>> ELSE More(f[n - 1], n)]
            kept == CHOOSE f : Is(f)
            G == [p \in Seq(Stages) \X (1 .. 14) |-> More(p[1], p[2])]
<1>1. Within(StageIds, set) = kept[Len(StageIds)]
  BY DEF Within
<1>2. \A q \in Seq(Stages), n \in 1 .. 14 : More(q, n) \in Seq(Stages)
  BY StagesByNumber
<1>. HIDE DEF More
<1>3. G \in [Seq(Stages) \X (1 .. 14) -> Seq(Stages)]
  BY <1>2
<1>4. \E f : Recurses(f, 14, Seq(Stages), <<>>, G)
  <2>1. <<>> \in Seq(Stages) /\ 14 \in Nat
    OBVIOUS
  <2>. HIDE DEF G
  <2>. QED
    BY <1>3, <2>1, Recursion
<1>5. PICK f : f \in [0 .. 14 -> Seq(Stages)] /\ f[0] = <<>> /\ \A n \in 1 .. 14 : f[n] = G[<<f[n - 1], n>>]
  BY <1>4 DEF Recurses
<1>6. ASSUME NEW n \in 1 .. 14
      PROVE  f[n] = More(f[n - 1], n)
  <2>1. n - 1 \in 0 .. 14
    OBVIOUS
  <2>3. f[n - 1] \in Seq(Stages)
    BY <1>5, <2>1, Zenon
  <2>2. <<f[n - 1], n>> \in Seq(Stages) \X (1 .. 14)
    BY <2>3
  <2>. QED
    BY <1>5, <2>2
<1>7. f = [n \in 0 .. 14 |-> IF n = 0 THEN <<>> ELSE More(f[n - 1], n)]
  BY <1>5, <1>6
<1>8. Is(kept)
  BY <1>7, StagesByNumber
<1>. HIDE DEF kept
<1>9. \A n \in 0 .. 14 : kept[n] = IF n = 0 THEN <<>> ELSE More(kept[n - 1], n)
  BY <1>8, StagesByNumber
<1>10. kept[0] = <<>> /\ \A n \in 1 .. 14 : kept[n] = More(kept[n - 1], n)
  BY <1>9
<1>. DEFINE typed == {n \in 0 .. 14 : kept[n] \in Seq(Stages)}
<1>. HIDE DEF typed
<1>11. 0 \in typed
  <2>1. kept[0] \in Seq(Stages)
    BY <1>10
  <2>. QED
    BY <2>1 DEF typed
<1>12. ASSUME NEW n \in 0 .. 14, n \in typed, n < 14
       PROVE  n + 1 \in typed
  <2>1. n + 1 \in 1 .. 14 /\ (n + 1) - 1 = n
    BY <1>12
  <2>2. kept[n] \in Seq(Stages)
    BY <1>12 DEF typed
  <2>3. kept[n + 1] \in Seq(Stages)
    BY <1>2, <1>10, <2>1, <2>2
  <2>. QED
    BY <2>1, <2>3 DEF typed
<1>13. \A n \in 0 .. 14 : n \in typed
  BY <1>11, <1>12, Reaches
<1>14. kept \in [0 .. 14 -> Seq(Stages)]
  <2>1. kept = [n \in 0 .. 14 |-> kept[n]]
    BY <1>8, StagesByNumber
  <2>. QED
    BY <1>13, <2>1 DEF typed
<1>. QED
  BY <1>1, <1>10, <1>14, StagesByNumber DEF More

\* What of the registry is in a set: its stages, in order.
LEMMA WithinFacts ==
  ASSUME NEW set \in SUBSET Stages
  PROVE  LET p == Within(Order, set)
         IN InOrder(p) /\ \A s : s \in set <=> \E i \in 1 .. Len(p) : p[i] = s
<1>1. PICK f :
        /\ f \in [0 .. 14 -> Seq(Stages)] /\ f[0] = <<>> /\ Within(StageIds, set) = f[14]
        /\ \A n \in 1 .. 14 : f[n] = IF StageIds[n] \in set THEN Append(f[n - 1], StageIds[n]) ELSE f[n - 1]
  BY WithinSteps
<1>. DEFINE Fine(n) == /\ InOrder(f[n])
                       /\ \A i \in 1 .. Len(f[n]) : f[n][i] \in set /\ Place(f[n][i]) <= n
                       /\ \A k \in 1 .. n : StageIds[k] \in set => \E i \in 1 .. Len(f[n]) : f[n][i] = StageIds[k]
            fine == {n \in 0 .. 14 : Fine(n)}
<1>. HIDE DEF fine, Fine
<1>2. 0 \in fine
  <2>1. Fine(0)
    <3>1. f[0] \in Seq(Stages) /\ Len(f[0]) = 0
      BY <1>1
    <3>. QED
      BY <3>1 DEF Fine, InOrder
  <2>. QED
    BY <2>1 DEF fine
<1>3. ASSUME NEW n \in 0 .. 14, n \in fine, n < 14
      PROVE  n + 1 \in fine
  <2>1. n + 1 \in 1 .. 14 /\ n + 1 \in 0 .. 14 /\ (n + 1) - 1 = n
    BY <1>3
  <2>. DEFINE s == StageIds[n + 1]
              p == f[n]
  <2>2. /\ InOrder(p)
        /\ \A i \in 1 .. Len(p) : p[i] \in set /\ Place(p[i]) <= n
        /\ \A k \in 1 .. n : StageIds[k] \in set => \E i \in 1 .. Len(p) : p[i] = StageIds[k]
    BY <1>3 DEF fine, Fine
  <2>3. s \in Stages /\ Place(s) = n + 1
    BY <2>1, StagesByNumber, PlaceOfStage
  <2>4. p \in Seq(Stages) /\ Len(p) \in Nat
    BY <2>2 DEF InOrder
  <2>5. \A i \in 1 .. Len(p) : p[i] \in Stages /\ Place(p[i]) \in 1 .. n
    <3>. SUFFICES ASSUME NEW i \in 1 .. Len(p)
                  PROVE  p[i] \in Stages /\ Place(p[i]) \in 1 .. n
      OBVIOUS
    <3>1. p[i] \in Stages
      BY <2>4
    <3>2. Place(p[i]) \in 1 .. 14 /\ Place(p[i]) <= n
      BY <2>2, <3>1, PlaceOfStage
    <3>. QED
      BY <3>1, <3>2
  <2>. HIDE DEF s, p
  <2>6. CASE s \notin set
    <3>1. f[n + 1] = p
      BY <1>1, <2>1, <2>6 DEF s, p
    <3>2. ASSUME NEW k \in 1 .. n + 1, StageIds[k] \in set
          PROVE  k \in 1 .. n
      BY <2>6, <3>2 DEF s
    <3>3. \A i \in 1 .. Len(p) : Place(p[i]) <= n + 1
      BY <2>5
    <3>4. Fine(n + 1)
      BY <2>2, <3>1, <3>2, <3>3 DEF Fine
    <3>. QED
      BY <2>1, <3>4 DEF fine
  <2>7. CASE s \in set
    <3>. DEFINE q == Append(p, s)
    <3>1. f[n + 1] = q
      BY <1>1, <2>1, <2>7 DEF s, p
    <3>2. q \in Seq(Stages) /\ Len(q) = Len(p) + 1 /\ q[Len(p) + 1] = s
      BY <2>3, <2>4
    <3>3. \A i \in 1 .. Len(p) : q[i] = p[i]
      BY <2>3, <2>4
    <3>. HIDE DEF q
    <3>4. \A i \in 1 .. Len(q) : i \in 1 .. Len(p) \/ (i = Len(p) + 1 /\ q[i] = s)
      BY <2>4, <3>2
    <3>5. InOrder(q)
      <4>. SUFFICES ASSUME NEW i \in 1 .. Len(q), NEW j \in 1 .. Len(q), i < j
                    PROVE  Place(q[i]) < Place(q[j])
        BY <3>2 DEF InOrder
      <4>1. i \in 1 .. Len(p) /\ q[i] = p[i]
        BY <2>4, <3>2, <3>3
      <4>2. CASE j \in 1 .. Len(p)
        BY <2>2, <3>3, <4>1, <4>2 DEF InOrder
      <4>3. CASE q[j] = s
        BY <2>1, <2>3, <2>5, <4>1, <4>3
      <4>. QED
        BY <3>4, <4>2, <4>3
    <3>6. ASSUME NEW i \in 1 .. Len(q)
          PROVE  q[i] \in set /\ Place(q[i]) <= n + 1
      <4>1. CASE i \in 1 .. Len(p)
        BY <2>1, <2>2, <2>5, <3>3, <4>1
      <4>2. CASE q[i] = s
        BY <2>1, <2>3, <2>7, <4>2
      <4>. QED
        BY <3>4, <4>1, <4>2
    <3>7. ASSUME NEW k \in 1 .. n + 1, StageIds[k] \in set
          PROVE  \E i \in 1 .. Len(q) : q[i] = StageIds[k]
      <4>1. CASE k = n + 1
        <5>1. Len(p) + 1 \in 1 .. Len(q)
          BY <2>4, <3>2
        <5>. QED
          BY <3>2, <4>1, <5>1 DEF s
      <4>2. CASE k \in 1 .. n
        <5>1. PICK i \in 1 .. Len(p) : p[i] = StageIds[k]
          BY <2>2, <3>7, <4>2
        <5>2. i \in 1 .. Len(q)
          BY <2>4, <3>2
        <5>. QED
          BY <3>3, <5>1, <5>2
      <4>. QED
        BY <2>1, <4>1, <4>2
    <3>8. Fine(n + 1)
      BY <3>1, <3>5, <3>6, <3>7 DEF Fine
    <3>. QED
      BY <2>1, <3>8 DEF fine
  <2>. QED
    BY <2>6, <2>7
<1>4. 14 \in fine
  BY <1>2, <1>3, Reaches
<1>. DEFINE all == f[14]
<1>5. /\ InOrder(all)
      /\ \A i \in 1 .. Len(all) : all[i] \in set
      /\ \A k \in 1 .. 14 : StageIds[k] \in set => \E i \in 1 .. Len(all) : all[i] = StageIds[k]
  BY <1>4 DEF fine, Fine
<1>6. \A s \in set : s \in Stages /\ Place(s) \in 1 .. 14 /\ StageIds[Place(s)] = s
  BY PlaceOfStage
<1>. HIDE DEF all
<1>7. \A s : s \in set => \E i \in 1 .. Len(all) : all[i] = s
  BY <1>5, <1>6
<1>8. Within(Order, set) = all
  BY <1>1, OrderIsListed DEF all
<1>. QED
  BY <1>5, <1>7, <1>8

\* A listing of a set of stages, element by element.
Lists(p, set) == InOrder(p) /\ \A s : s \in set <=> \E i \in 1 .. Len(p) : p[i] = s

\* In an ordered plan an earlier stage has an earlier place.
LEMMA EarlierInPlan ==
  ASSUME NEW p, InOrder(p), NEW i \in 1 .. Len(p), NEW j \in 1 .. Len(p)
  PROVE  /\ p[i] \in Stages /\ Place(p[i]) \in 1 .. 14
         /\ Place(p[j]) < Place(p[i]) <=> j < i
         /\ p[j] = p[i] => j = i
<1>1. p \in Seq(Stages) /\ p[i] \in Stages /\ p[j] \in Stages
  BY DEF InOrder
<1>2. Place(p[i]) \in 1 .. 14 /\ Place(p[j]) \in 1 .. 14
  BY <1>1, PlaceOfStage
<1>3. j < i => Place(p[j]) < Place(p[i])
  BY DEF InOrder
<1>4. i < j => Place(p[i]) < Place(p[j])
  BY DEF InOrder
<1>5. i < j \/ j < i \/ i = j
  OBVIOUS
<1>. QED
  BY <1>1, <1>2, <1>3, <1>4, <1>5

\* The first stages of the registry list what lies that far.
LEMMA FirstStagesList ==
  ASSUME NEW n \in 1 .. 14
  PROVE  /\ Lists(SubSeq(Order, 1, n), {s \in Stages : Place(s) <= n})
         /\ Len(SubSeq(Order, 1, n)) = n
<1>. DEFINE p == SubSeq(Order, 1, n)
<1>1. p \in Seq(Stages) /\ Len(p) = n /\ \A k \in 1 .. n : p[k] = StageIds[k]
  BY OrderIsListed, StagesByNumber
<1>. HIDE DEF p
<1>2. InOrder(p)
  <2>. SUFFICES ASSUME NEW i \in 1 .. n, NEW j \in 1 .. n, i < j
                PROVE  Place(p[i]) < Place(p[j])
    BY <1>1 DEF InOrder
  <2>1. i \in 1 .. 14 /\ j \in 1 .. 14 /\ p[i] = StageIds[i] /\ p[j] = StageIds[j]
    BY <1>1
  <2>2. Place(p[i]) = i /\ Place(p[j]) = j
    BY <2>1, PlaceOfStage
  <2>. QED
    BY <2>2
<1>3. ASSUME NEW s \in Stages, Place(s) <= n
      PROVE  \E i \in 1 .. Len(p) : p[i] = s
  BY <1>1, <1>3, PlaceOfStage
<1>4. ASSUME NEW i \in 1 .. Len(p)
      PROVE  p[i] \in Stages /\ Place(p[i]) <= n
  BY <1>1, PlaceOfStage, StagesByNumber
<1>5. Lists(p, {s \in Stages : Place(s) <= n})
  BY <1>2, <1>3, <1>4 DEF Lists
<1>. QED
  BY <1>1, <1>5 DEF p

\* What the plan of a command is, and what is copied before it.
Recomputed(c) == IF c.start # None THEN Invalidated[c.start]
                 ELSE IF c.stop # None THEN {s \in Stages : Place(s) <= Place(c.stop)} ELSE Stages
Kept(c) == IF c.start # None THEN Stages \ Invalidated[c.start] ELSE {}

\* None is neither a run nor a stage nor a command.
LEMMA NoneIsNothing ==
  /\ None \notin Stages /\ None \notin Runs /\ None \notin Commands /\ None \notin Error /\ None \notin Kinds
BY NoneAssumption

\* A command names at most one of the two stages.
LEMMA CommandType ==
  ASSUME NEW c \in Commands
  PROVE  /\ c.start \in Stages \cup {None} /\ c.stop \in Stages \cup {None}
         /\ c.start # None => c.start \in Stages
         /\ c.stop # None => c.stop \in Stages
         /\ c # None /\ (c.stop = None \/ c.start = None)
BY CommandAssumption, NoneIsNothing

\* A plan lists what is run, and the list of copies what is kept.
LEMMA PlanLists ==
  ASSUME NEW c \in Commands
  PROVE  Lists(Plan(c), Recomputed(c)) /\ Lists(Copies(c), Kept(c))
<1>1. CASE c.start # None
  <2>1. c.start \in Stages
    BY <1>1, CommandType
  <2>2. Invalidated[c.start] \in SUBSET Stages /\ Stages \ Invalidated[c.start] \in SUBSET Stages
    BY <2>1, InvalidatedFacts
  <2>3. /\ Plan(c) = Within(Order, Invalidated[c.start])
        /\ Copies(c) = Within(Order, Stages \ Invalidated[c.start])
    BY <1>1, <2>1 DEF Plan, Copies, AffectedPlan, UpstreamPlan
  <2>4. \A set \in SUBSET Stages : Lists(Within(Order, set), set)
    BY WithinFacts DEF Lists
  <2>5. Recomputed(c) = Invalidated[c.start] /\ Kept(c) = Stages \ Invalidated[c.start]
    BY <1>1 DEF Recomputed, Kept
  <2>. QED
    BY <2>2, <2>3, <2>4, <2>5
<1>2. CASE c.start = None
  <2>1. Copies(c) = <<>> /\ Kept(c) = {}
    BY <1>2 DEF Copies, Kept
  <2>2. Lists(Copies(c), Kept(c))
    BY <2>1 DEF Lists, InOrder
  <2>3. CASE c.stop # None
    <3>1. c.stop \in Stages /\ Place(c.stop) \in 1 .. 14
      BY <2>3, CommandType, PlaceOfStage
    <3>2. Plan(c) = SubSeq(Order, 1, Place(c.stop))
      BY <1>2, <2>3, <3>1, OrderIsListed DEF Plan, PlanUpTo, Place
    <3>. QED
      BY <1>2, <2>2, <2>3, <3>1, <3>2, FirstStagesList DEF Recomputed
  <2>4. CASE c.stop = None
    <3>1. Plan(c) = SubSeq(Order, 1, 14)
      BY <1>2, <2>4, OrderIsListed, StagesByNumber DEF Plan
    <3>2. {s \in Stages : Place(s) <= 14} = Stages
      BY PlaceOfStage
    <3>. QED
      BY <1>2, <2>2, <2>4, <3>1, <3>2, FirstStagesList DEF Recomputed
  <2>. QED
    BY <2>3, <2>4
<1>. QED
  BY <1>1, <1>2

\* Whatever comes before a stage of the plan is in it or copied, not both, and
\* what a copied stage depends on is copied before it.
LEMMA PlanFacts ==
  ASSUME NEW c \in Commands
  PROVE  /\ InOrder(Plan(c)) /\ InOrder(Copies(c)) /\ Len(Plan(c)) \in Nat \ {0} /\ Len(Copies(c)) \in Nat
         /\ \A i \in 1 .. Len(Plan(c)), j \in 1 .. Len(Copies(c)) : Plan(c)[i] # Copies(c)[j]
         /\ \A i \in 1 .. Len(Plan(c)), t \in Stages : Place(t) < Place(Plan(c)[i]) =>
              \/ \E j \in 1 .. Len(Plan(c)) : j < i /\ Plan(c)[j] = t
              \/ \E j \in 1 .. Len(Copies(c)) : Copies(c)[j] = t
         /\ \A i \in 1 .. Len(Copies(c)) : \A d \in Dependencies[Copies(c)[i]] :
              \E j \in 1 .. Len(Copies(c)) : j < i /\ Copies(c)[j] = d
<1>. DEFINE P == Plan(c)
            C == Copies(c)
<1>1. Lists(P, Recomputed(c)) /\ Lists(C, Kept(c))
  BY PlanLists
<1>. HIDE DEF P, C
<1>2. InOrder(P) /\ InOrder(C) /\ P \in Seq(Stages) /\ C \in Seq(Stages)
  BY <1>1 DEF Lists, InOrder
<1>3. \E s \in Stages : s \in Recomputed(c)
  <2>1. CASE c.start # None
    BY <2>1, CommandType, InvalidatedFacts DEF Recomputed
  <2>2. CASE c.start = None /\ c.stop # None
    <3>1. c.stop \in Stages /\ Place(c.stop) \in 1 .. 14
      BY <2>2, CommandType, PlaceOfStage
    <3>. QED
      BY <2>2, <3>1 DEF Recomputed
  <2>3. CASE c.start = None /\ c.stop = None
    <3>1. StageIds[1] \in Stages
      BY StagesByNumber
    <3>. QED
      BY <2>3, <3>1 DEF Recomputed
  <2>. QED
    BY <2>1, <2>2, <2>3
<1>4. Len(P) \in Nat \ {0} /\ Len(C) \in Nat
  BY <1>1, <1>2, <1>3 DEF Lists
<1>5. Recomputed(c) \cap Kept(c) = {}
  BY DEF Recomputed, Kept
<1>6. \A s \in Recomputed(c) : \A t \in Stages : Place(t) < Place(s) => t \in Recomputed(c) \cup Kept(c)
  <2>1. CASE c.start # None
    BY <2>1 DEF Recomputed, Kept
  <2>2. CASE c.start = None /\ c.stop # None
    <3>1. Place(c.stop) \in 1 .. 14 /\ \A t \in Stages : Place(t) \in 1 .. 14
      BY <2>2, CommandType, PlaceOfStage
    <3>. QED
      BY <2>2, <3>1 DEF Recomputed
  <2>3. CASE c.start = None /\ c.stop = None
    BY <2>3 DEF Recomputed
  <2>. QED
    BY <2>1, <2>2, <2>3
<1>7. \A s \in Kept(c) : \A d \in Dependencies[s] : d \in Kept(c)
  <2>1. CASE c.start # None
    <3>. SUFFICES ASSUME NEW s \in Stages, s \notin Invalidated[c.start], NEW d \in Dependencies[s], d \in Invalidated[c.start]
                  PROVE  FALSE
      BY <2>1, DependenciesEarlier DEF Kept
    <3>1. c.start \in Stages /\ d \in Stages /\ s \in DependentsOf(d)
      BY <2>1, CommandType, DependenciesEarlier DEF DependentsOf
    <3>. QED
      BY <3>1, InvalidatedFacts DEF Closed
  <2>2. CASE c.start = None
    BY <2>2 DEF Kept
  <2>. QED
    BY <2>1, <2>2
<1>8. \A i \in 1 .. Len(P), j \in 1 .. Len(C) : P[i] # C[j]
  BY <1>1, <1>5 DEF Lists
<1>9. ASSUME NEW i \in 1 .. Len(P), NEW t \in Stages, Place(t) < Place(P[i])
      PROVE  \/ \E j \in 1 .. Len(P) : j < i /\ P[j] = t
             \/ \E j \in 1 .. Len(C) : C[j] = t
  <2>1. t \in Recomputed(c) \cup Kept(c)
    BY <1>1, <1>6, <1>9 DEF Lists
  <2>2. CASE t \in Kept(c)
    BY <1>1, <2>2 DEF Lists
  <2>3. CASE t \in Recomputed(c)
    <3>1. PICK j \in 1 .. Len(P) : P[j] = t
      BY <1>1, <2>3 DEF Lists
    <3>2. j < i
      BY <1>2, <1>9, <3>1, EarlierInPlan
    <3>. QED
      BY <3>1, <3>2
  <2>. QED
    BY <2>1, <2>2, <2>3
<1>10. ASSUME NEW i \in 1 .. Len(C), NEW d \in Dependencies[C[i]]
       PROVE  \E j \in 1 .. Len(C) : j < i /\ C[j] = d
  <2>1. C[i] \in Stages /\ C[i] \in Kept(c)
    BY <1>1, <1>2 DEF Lists
  <2>2. d \in Kept(c) /\ Place(d) < Place(C[i])
    BY <1>7, <2>1, DependenciesEarlier
  <2>3. PICK j \in 1 .. Len(C) : C[j] = d
    BY <1>1, <2>2 DEF Lists
  <2>4. j < i
    BY <1>2, <2>2, <2>3, EarlierInPlan
  <2>. QED
    BY <2>3, <2>4
<1>. QED
  BY <1>2, <1>4, <1>8, <1>9, <1>10 DEF P, C

\* What publication rests on comes before it.
LEMMA BehindPublicationEarlier ==
  /\ BehindPublication \subseteq Stages
  /\ \A s \in BehindPublication : Place(s) < Place("recommendation_publish")
  /\ \A s \in BehindPublication : Dependencies[s] \subseteq BehindPublication
<1>. DEFINE last == "recommendation_publish"
<1>0. last \in Stages
  BY StagesByNumber, Numbers, PlaceOfStage DEF Stages, StageIds, ToSet
<1>1. \A s \in BehindPublication : s \in Stages /\ s # last /\ last \in Invalidated[s] /\ Place(s) < Place(last)
  BY InvalidatedFacts DEF BehindPublication
<1>2. ASSUME NEW s \in BehindPublication, NEW d \in Dependencies[s]
      PROVE  d \in BehindPublication
  <2>1. s \in Stages /\ d \in Stages /\ Place(d) < Place(s) /\ s \in DependentsOf(d)
    BY <1>1, DependenciesEarlier DEF DependentsOf
  <2>2. s \in Invalidated[d] /\ Closed(Invalidated[d])
    BY <2>1, InvalidatedFacts DEF Closed
  <2>3. last \in Invalidated[d]
    BY <1>1, <2>1, <2>2, InvalidatedFacts
  <2>4. d # last
    BY <1>0, <1>1, <2>1, PlaceOfStage
  <2>. QED
    BY <2>1, <2>3, <2>4 DEF BehindPublication
<1>. QED
  BY <1>1, <1>2

-----------------------------------------------------------------------------
(* Rows and their places *)

\* Places of a run at a stage of its plan; those between the decision to
\* execute it and the commit; those where it has not begun its stages.
Ahead == {"enterRead", "enterWrite", "execute", "artifactWrite", "artifactCommit", "recommend", "empty",
          "complete", "publish", "commitRead", "commitWrite"}
Staged == Ahead \cup {"upstream", "latest", "finishRead", "finishWrite", "markRead", "markWrite"}
Judging == {"judge", "judgeEmpty"}
Opening == {"carry", "openRead", "openWrite"}
Copying == {"copyRead", "copyWrite"}
Closing == {"end", "stopRead", "stopWrite"}
Over == {"done", "failed", "dead"}

Upstreams == UNION {[D -> Content] : D \in SUBSET Stages}
RunRow == [pc : RunPc, command : Commands \cup {None}, i : Nat \ {0}, upstream : Upstreams, version : Nat,
           status : StepStatus, memory : SUBSET Stages, error : Error \cup {None}]
ArtifactRow == [stage : Stages, version : Nat, input : Commands \cup {None}, upstream : Upstreams, content : Content]

\* The stage at which a row is, and what it copies.
StageOf(m) == Plan(m.command)[m.i]
CopyOf(m) == Copies(m.command)[m.i]

\* A row is where its place says.
Fits(m) ==
  /\ m.pc # "off" => m.command \in Commands
  /\ m.pc \in Copying => m.i \in 1 .. Len(Copies(m.command))
  /\ m.pc \in Opening => m.i = 1
  /\ m.pc \in Staged \cup Judging => m.i \in 1 .. Len(Plan(m.command))
  /\ m.pc \in Judging \cup {"empty"} => StageOf(m) = "recommendation_select"
  /\ m.pc \in {"complete", "publish"} => StageOf(m) = "recommendation_publish"
  /\ m.pc \in {"artifactWrite", "artifactCommit", "recommend"} =>
       StageOf(m) \notin {"recommendation_select", "recommendation_publish"}
  /\ m.pc \in {"markRead", "markWrite", "stopRead", "stopWrite"} => m.error # None

Tables == {"artifact", "step", "trace"}

\* The newest artifact of a stage exists and is the only one of its version.
Numbered ==
  /\ \A a, b \in artifacts : a.stage = b.stage /\ a.version = b.version => a = b
  /\ \A a \in artifacts : \E b \in artifacts :
       b.stage = a.stage /\ \A c \in artifacts : c.stage = a.stage => c.version <= b.version

Types ==
  /\ artifacts \subseteq ArtifactRow /\ Numbered
  /\ step \in [Stages -> StepStatus]
  /\ trace \in [status : TraceStatus, kind : Kinds \cup {None}]
  /\ rows \subseteq {"candidates", "graph", "evidence", "snapshot", "released"}
  /\ published \in BOOLEAN /\ overlapped \in BOOLEAN /\ late \subseteq Tables
  /\ lock \in Runs \cup {None} /\ holder \in Runs \cup {None}
  /\ run \in [Runs -> RunRow]
  /\ \A r \in Runs : Fits(run[r])

\* What a step of r that is no Begin does to the row of r, and to nobody else's.
Moves(r) ==
  /\ run' = [run EXCEPT ![r] = run'[r]]
  /\ run'[r] \in RunRow /\ Fits(run'[r])
  /\ holder' = holder /\ overlapped' = overlapped /\ lock' \in Runs \cup {None}

\* r writes a table, which is late unless the lease row names r.
WriteMarks(r) ==
  /\ late \subseteq late' /\ late' \subseteq late \cup Tables
  /\ holder = r => late' = late
  /\ artifacts' # artifacts /\ holder # r => "artifact" \in late'
  /\ step' # step /\ holder # r => "step" \in late'
  /\ trace' # trace /\ holder # r => "trace" \in late'

\* The empty function is a collection of fingerprints.
LEMMA NothingType == Nothing \in Upstreams
<1>1. Nothing \in [{} -> Content] /\ {} \in SUBSET Stages
  BY DEF Nothing
<1>. QED
  BY <1>1 DEF Upstreams

\* A row that has left its stage.
LEMMA FreshType == Fresh \in RunRow
BY NothingType, NoneAssumption DEF Fresh, RunRow, RunPc, StepStatus

\* The first state has its types.
LEMMA InitTypes == Init => Types
<1>. SUFFICES ASSUME Init
              PROVE  Types
  OBVIOUS
<1>1. run \in [Runs -> RunRow] /\ \A r \in Runs : Fits(run[r])
  BY FreshType DEF Init, Fresh, Fits, Copying, Opening, Staged, Ahead, Judging
<1>2. step \in [Stages -> StepStatus]
  BY DEF Init, StepStatus
<1>. QED
  BY <1>1, <1>2 DEF Init, Types, Numbered, TraceStatus

-----------------------------------------------------------------------------
(* What a step does to a row *)

\* Becoming a row that fits.
LEMMA BecomeMoves ==
  ASSUME Types, NEW r \in Runs, NEW m, m \in RunRow, Fits(m), Become(r, m), UNCHANGED lease
  PROVE  Moves(r) /\ run'[r] = m
BY DEF Types, Become, Moves, lease

\* What is left of a row.
Left(m, pc, e) == [m EXCEPT !.pc = pc, !.error = e, !.upstream = Nothing, !.version = 0,
                            !.i = 1, !.status = "absent", !.memory = {}]

\* What is left of a run that leaves.
LEMMA LeftRow ==
  ASSUME NEW m \in RunRow, NEW pc \in RunPc, NEW e \in Error \cup {None}
  PROVE  LET n == Left(m, pc, e)
         IN n \in RunRow /\ n.pc = pc /\ n.error = e /\ n.command = m.command /\ n.memory = {}
<1>. DEFINE n == Left(m, pc, e)
<1>0. n = [m EXCEPT !.pc = pc, !.error = e, !.upstream = Nothing, !.version = 0,
                    !.i = 1, !.status = "absent", !.memory = {}]
  BY DEF Left
<1>. HIDE DEF n
<1>1. /\ n.pc = pc /\ n.error = e /\ n.memory = {} /\ n.version = 0 /\ n.i = 1 /\ n.status = "absent"
      /\ n.upstream = Nothing /\ n.command = m.command
      /\ n = [pc |-> n.pc, command |-> n.command, i |-> n.i, upstream |-> n.upstream, version |-> n.version,
              status |-> n.status, memory |-> n.memory, error |-> n.error]
  BY <1>0 DEF RunRow
<1>2. m.command \in Commands \cup {None} /\ "absent" \in StepStatus /\ 1 \in Nat \ {0} /\ {} \in SUBSET Stages
  BY DEF RunRow, StepStatus
<1>. QED
  BY <1>1, <1>2, NothingType DEF RunRow, n

\* Leaving.
LEMMA LeaveMoves ==
  ASSUME Types, NEW r \in Runs, NEW pc \in Over, NEW e \in Error \cup {None}, run[r].pc # "off", Leave(r, pc, e)
  PROVE  /\ Moves(r)
         /\ run'[r].pc = pc /\ run'[r].error = e /\ run'[r].command = run[r].command /\ run'[r].memory = {}
<1>. DEFINE m == Left(run[r], pc, e)
<1>1. run' = [run EXCEPT ![r] = m] /\ holder' = holder /\ overlapped' = overlapped
      /\ lock' = IF lock = r THEN None ELSE lock
  BY DEF Leave, Become, Left
<1>2. run[r] \in RunRow /\ run[r].command \in Commands
  BY DEF Types, Fits
<1>3. m \in RunRow /\ m.pc = pc /\ m.error = e /\ m.command = run[r].command /\ m.memory = {}
  <2>1. pc \in RunPc
    BY DEF RunPc, Over
  <2>. QED
    BY <1>2, <2>1, LeftRow
<1>4. Fits(m)
  BY <1>2, <1>3 DEF Fits, Over, Copying, Opening, Staged, Ahead, Judging
<1>. HIDE DEF m
<1>5. run' = [run EXCEPT ![r] = run'[r]] /\ run'[r] = m
  BY <1>1 DEF Types
<1>. QED
  BY <1>1, <1>3, <1>4, <1>5 DEF Moves, Types

\* At a stage of its plan.
LEMMA AtStage ==
  ASSUME Types, NEW r \in Runs, run[r].pc \in Staged \cup Judging
  PROVE  /\ run[r] \in RunRow /\ run[r].command \in Commands
         /\ run[r].i \in 1 .. Len(Plan(run[r].command))
         /\ Stage(r) = StageOf(run[r]) /\ Stage(r) \in Stages
<1>1. run[r] \in RunRow /\ run[r].command \in Commands /\ run[r].i \in 1 .. Len(Plan(run[r].command))
  BY DEF Types, Fits, Staged, Ahead, Judging
<1>2. InOrder(Plan(run[r].command))
  BY <1>1, PlanFacts
<1>. QED
  BY <1>1, <1>2, EarlierInPlan DEF Stage, StageOf

\* The next stage, the end of the plan, or the judgement after recommendation_select.
LEMMA AdvancedRow ==
  ASSUME Types, NEW r \in Runs, run[r].pc \in Staged
  PROVE  LET m == Advanced(r)
         IN /\ m \in RunRow /\ Fits(m) /\ m.command = run[r].command
            /\ m.memory = run[r].memory /\ m.error = run[r].error
            /\ \/ m.pc = "judge" /\ m.i = run[r].i /\ Stage(r) = "recommendation_select"
               \/ m.pc = "end" /\ run[r].i = Len(Plan(run[r].command)) /\ Stage(r) # "recommendation_select"
               \/ m.pc = "upstream" /\ m.i = run[r].i + 1 /\ Stage(r) # "recommendation_select"
<1>1. /\ run[r] \in RunRow /\ run[r].command \in Commands
      /\ run[r].i \in 1 .. Len(Plan(run[r].command))
      /\ Stage(r) = StageOf(run[r]) /\ Stage(r) \in Stages
  BY AtStage
<1>2. Len(Plan(run[r].command)) \in Nat
  BY <1>1, PlanFacts
<1>. DEFINE m == Advanced(r)
<1>3. /\ m \in RunRow /\ m.command = run[r].command /\ m.memory = run[r].memory /\ m.error = run[r].error
      /\ m.i = IF Stage(r) = "recommendation_select" THEN run[r].i ELSE run[r].i + 1
      /\ m.pc = IF Stage(r) = "recommendation_select" THEN "judge"
                ELSE IF run[r].i = Len(Plan(run[r].command)) THEN "end" ELSE "upstream"
  <2>. DEFINE i == IF Stage(r) = "recommendation_select" THEN run[r].i ELSE run[r].i + 1
              pc == IF Stage(r) = "recommendation_select" THEN "judge"
                    ELSE IF run[r].i = Len(Plan(run[r].command)) THEN "end" ELSE "upstream"
  <2>1. pc \in RunPc /\ "absent" \in StepStatus /\ i \in Nat \ {0}
    BY <1>1, <1>2 DEF RunPc, StepStatus
  <2>2. m = [run[r] EXCEPT !.upstream = Nothing, !.version = 0, !.status = "absent", !.i = i, !.pc = pc]
    BY <1>1 DEF Advanced, RunRow
  <2>. HIDE DEF i, pc, m
  <2>3. m = [pc |-> pc, command |-> run[r].command, i |-> i, upstream |-> Nothing, version |-> 0,
             status |-> "absent", memory |-> run[r].memory, error |-> run[r].error]
    BY <1>1, <2>2 DEF RunRow
  <2>4. m \in RunRow
    BY <1>1, <2>1, <2>3, NothingType DEF RunRow
  <2>. QED
    BY <2>3, <2>4 DEF i, pc
<1>. HIDE DEF m
<1>4. CASE Stage(r) = "recommendation_select"
  <2>1. m.pc = "judge" /\ m.i = run[r].i
    BY <1>3, <1>4
  <2>2. StageOf(m) = "recommendation_select"
    BY <1>1, <1>3, <1>4, <2>1 DEF StageOf
  <2>3. Fits(m)
    BY <1>1, <1>3, <2>1, <2>2 DEF Fits, Copying, Opening, Staged, Ahead, Judging
  <2>. QED
    BY <1>3, <1>4, <2>1, <2>3 DEF m
<1>5. CASE Stage(r) # "recommendation_select" /\ run[r].i = Len(Plan(run[r].command))
  <2>1. m.pc = "end"
    BY <1>3, <1>5
  <2>2. Fits(m)
    BY <1>1, <1>3, <2>1 DEF Fits, Copying, Opening, Staged, Ahead, Judging
  <2>. QED
    BY <1>3, <1>5, <2>1, <2>2 DEF m
<1>6. CASE Stage(r) # "recommendation_select" /\ run[r].i # Len(Plan(run[r].command))
  <2>1. m.pc = "upstream" /\ m.i = run[r].i + 1
    BY <1>3, <1>6
  <2>2. m.i \in 1 .. Len(Plan(m.command))
    BY <1>1, <1>2, <1>3, <1>6, <2>1
  <2>3. Fits(m)
    BY <1>1, <1>3, <2>1, <2>2 DEF Fits, Copying, Opening, Staged, Ahead, Judging
  <2>. QED
    BY <1>3, <1>6, <2>1, <2>3 DEF m
<1>. QED
  BY <1>4, <1>5, <1>6

\* An error that leaves the stage.
LEMMA ThrownRow ==
  ASSUME Types, NEW r \in Runs, run[r].pc \in Staged \cup Judging, NEW e \in Error
  PROVE  LET m == Thrown(r, e)
         IN /\ m \in RunRow /\ Fits(m) /\ m.command = run[r].command /\ m.i = run[r].i /\ m.memory = run[r].memory
            /\ \/ m.pc = "end" /\ m.error = None /\ PostProcessing(Stage(r))
               \/ m.pc = "stopRead" /\ m.error = e /\ ~PostProcessing(Stage(r))
<1>1. run[r] \in RunRow /\ run[r].command \in Commands
  BY AtStage
<1>2. e # None
  BY NoneIsNothing
<1>. DEFINE m == Thrown(r, e)
<1>3. /\ m \in RunRow /\ m.command = run[r].command /\ m.i = run[r].i /\ m.memory = run[r].memory
      /\ m.pc = IF PostProcessing(Stage(r)) THEN "end" ELSE "stopRead"
      /\ m.error = IF PostProcessing(Stage(r)) THEN None ELSE e
  BY <1>1, NothingType DEF Thrown, RunRow, RunPc, StepStatus
<1>. HIDE DEF m
<1>4. Fits(m)
  BY <1>1, <1>2, <1>3 DEF Fits, Copying, Opening, Staged, Ahead, Judging
<1>. QED
  BY <1>3, <1>4 DEF m

\* An error that marks the stage first.
LEMMA CaughtRow ==
  ASSUME Types, NEW r \in Runs, run[r].pc \in Staged, NEW e \in Error
  PROVE  LET m == Caught(r, e)
         IN /\ m \in RunRow /\ Fits(m) /\ m.command = run[r].command /\ m.i = run[r].i /\ m.memory = run[r].memory
            /\ m.pc = "markRead" /\ m.error = e
<1>1. /\ run[r] \in RunRow /\ run[r].command \in Commands
      /\ run[r].i \in 1 .. Len(Plan(run[r].command))
  BY AtStage
<1>2. e # None
  BY NoneIsNothing
<1>. DEFINE m == Caught(r, e)
<1>3. /\ m \in RunRow /\ m.command = run[r].command /\ m.i = run[r].i /\ m.memory = run[r].memory
      /\ m.pc = "markRead" /\ m.error = e
  BY <1>1 DEF Caught, RunRow, RunPc
<1>. HIDE DEF m
<1>4. Fits(m)
  BY <1>1, <1>2, <1>3 DEF Fits, Copying, Opening, Staged, Ahead, Judging
<1>. QED
  BY <1>3, <1>4 DEF m

\* The next copy, or the rows that are carried over.
LEMMA NextCopyRow ==
  ASSUME Types, NEW r \in Runs, run[r].pc \in Copying
  PROVE  LET m == NextCopy(r)
         IN /\ m \in RunRow /\ Fits(m) /\ m.command = run[r].command /\ m.memory = run[r].memory /\ m.error = run[r].error
            /\ \/ m.pc = "carry" /\ m.i = 1 /\ run[r].i = Len(Copies(run[r].command))
               \/ m.pc = "copyRead" /\ m.i = run[r].i + 1 /\ run[r].i < Len(Copies(run[r].command))
<1>1. run[r] \in RunRow /\ run[r].command \in Commands /\ run[r].i \in 1 .. Len(Copies(run[r].command))
  BY DEF Types, Fits, Copying
<1>2. Len(Copies(run[r].command)) \in Nat
  BY <1>1, PlanFacts
<1>. DEFINE m == NextCopy(r)
<1>3. CASE run[r].i = Len(Copies(run[r].command))
  <2>1. /\ m \in RunRow /\ m.command = run[r].command /\ m.memory = run[r].memory /\ m.error = run[r].error
        /\ m.pc = "carry" /\ m.i = 1
    <3>1. m = [run[r] EXCEPT !.pc = "carry", !.i = 1]
      BY <1>1, <1>3 DEF NextCopy, RunRow
    <3>2. "carry" \in RunPc /\ 1 \in Nat \ {0}
      BY <1>1, <1>2 DEF RunPc
    <3>. HIDE DEF m
    <3>. QED
      BY <1>1, <3>1, <3>2 DEF RunRow
  <2>. HIDE DEF m
  <2>2. Fits(m)
    BY <1>1, <2>1 DEF Fits, Copying, Opening, Staged, Ahead, Judging
  <2>. QED
    BY <1>3, <2>1, <2>2 DEF m
<1>4. CASE run[r].i # Len(Copies(run[r].command))
  <2>1. /\ m \in RunRow /\ m.command = run[r].command /\ m.memory = run[r].memory /\ m.error = run[r].error
        /\ m.pc = "copyRead" /\ m.i = run[r].i + 1
    <3>1. m = [run[r] EXCEPT !.pc = "copyRead", !.i = run[r].i + 1]
      BY <1>1, <1>4 DEF NextCopy, RunRow
    <3>2. "copyRead" \in RunPc /\ run[r].i + 1 \in Nat \ {0}
      BY <1>1, <1>2 DEF RunPc
    <3>. HIDE DEF m
    <3>. QED
      BY <1>1, <3>1, <3>2 DEF RunRow
  <2>. HIDE DEF m
  <2>2. m.i \in 1 .. Len(Copies(m.command)) /\ run[r].i < Len(Copies(run[r].command))
    BY <1>1, <1>2, <1>4, <2>1
  <2>3. Fits(m)
    BY <1>1, <2>1, <2>2 DEF Fits, Copying, Opening, Staged, Ahead, Judging
  <2>. QED
    BY <2>1, <2>2, <2>3 DEF m
<1>. QED
  BY <1>3, <1>4

\* Going on at a stage.
LEMMA StagedFits ==
  ASSUME Types, NEW r \in Runs, run[r].pc \in Staged, NEW m, m \in RunRow, m.command = run[r].command, m.i = run[r].i,
         m.pc \in Staged,
         m.pc = "empty" => Stage(r) = "recommendation_select",
         m.pc \in {"complete", "publish"} => Stage(r) = "recommendation_publish",
         m.pc \in {"artifactWrite", "artifactCommit", "recommend"} =>
           Stage(r) \notin {"recommendation_select", "recommendation_publish"},
         m.pc \in {"markRead", "markWrite"} => m.error # None
  PROVE  Fits(m)
<1>1. /\ run[r].command \in Commands /\ run[r].i \in 1 .. Len(Plan(run[r].command))
      /\ Stage(r) = StageOf(m)
  BY AtStage DEF StageOf
<1>. QED
  BY <1>1 DEF Fits, Copying, Opening, Staged, Ahead, Judging

\* Rows with a new place, or with that and something learned.
LEMMA NewRows ==
  ASSUME Types, NEW r \in Runs
  PROVE  /\ run[r] \in RunRow /\ Fits(run[r])
         /\ \A pc \in RunPc :
              LET m == [run[r] EXCEPT !.pc = pc]
              IN m \in RunRow /\ m.pc = pc /\ m.command = run[r].command /\ m.i = run[r].i /\ m.error = run[r].error
         /\ \A pc \in RunPc, u \in Upstreams :
              LET m == [run[r] EXCEPT !.pc = pc, !.upstream = u]
              IN m \in RunRow /\ m.pc = pc /\ m.command = run[r].command /\ m.i = run[r].i /\ m.error = run[r].error
         /\ \A pc \in RunPc, v \in Nat :
              LET m == [run[r] EXCEPT !.pc = pc, !.version = v]
              IN m \in RunRow /\ m.pc = pc /\ m.command = run[r].command /\ m.i = run[r].i /\ m.error = run[r].error
         /\ \A pc \in RunPc, s \in StepStatus :
              LET m == [run[r] EXCEPT !.pc = pc, !.status = s]
              IN m \in RunRow /\ m.pc = pc /\ m.command = run[r].command /\ m.i = run[r].i /\ m.error = run[r].error
         /\ \A pc \in RunPc, e \in Error :
              LET m == [run[r] EXCEPT !.pc = pc, !.error = e]
              IN m \in RunRow /\ m.pc = pc /\ m.command = run[r].command /\ m.i = run[r].i /\ m.error = e
BY DEF Types, RunRow

\* Places are places.
LEMMA Places ==
  /\ Staged \subseteq RunPc /\ Judging \subseteq RunPc /\ Opening \subseteq RunPc /\ Copying \subseteq RunPc
  /\ Closing \subseteq RunPc /\ Over \subseteq RunPc
BY DEF Staged, Ahead, Judging, Opening, Copying, Closing, Over, RunPc

\* The newest artifact of a stage.
LEMMA LatestIs ==
  ASSUME Types, NEW d, Stored(d)
  PROVE  /\ Latest(d) \in artifacts /\ Latest(d).stage = d
         /\ \A v \in VersionsOf(d) : v <= Latest(d).version
<1>1. PICK a \in artifacts : a.stage = d
  BY DEF Stored, VersionsOf
<1>2. PICK b \in artifacts : b.stage = d /\ \A c \in artifacts : c.stage = d => c.version <= b.version
  BY <1>1 DEF Types, Numbered
<1>3. \A v \in VersionsOf(d) : v <= b.version
  BY <1>2 DEF VersionsOf
<1>. QED
  BY <1>2, <1>3 DEF Latest

\* What a stage finds of its dependencies.
LEMMA UpstreamType ==
  ASSUME Types, NEW s \in Stages
  PROVE  UpstreamOf(s) \in Upstreams
<1>. DEFINE D == {e \in Dependencies[s] : Stored(e)}
<1>2. D \in SUBSET Stages
  BY DependenciesEarlier
<1>3. \A d \in D : Latest(d).content \in Content
  BY LatestIs DEF Types, ArtifactRow
<1>4. UpstreamOf(s) \in [D -> Content]
  BY <1>3 DEF UpstreamOf
<1>. QED
  BY <1>2, <1>4 DEF Upstreams

\* A handler that has worked.
LEMMA WorkedRow ==
  ASSUME Types, NEW r \in Runs, run[r].pc \in Staged
  PROVE  LET m == Worked(r)
         IN /\ m \in RunRow /\ Fits(m) /\ m.pc = "commitRead" /\ m.command = run[r].command /\ m.i = run[r].i
            /\ m.upstream = run[r].upstream /\ m.version = run[r].version
            /\ m.memory = run[r].memory \cup {Stage(r)} /\ m.error = run[r].error
<1>1. run[r] \in RunRow /\ Stage(r) \in Stages
  BY AtStage
<1>. DEFINE m == Worked(r)
<1>2. /\ m \in RunRow /\ m.pc = "commitRead" /\ m.command = run[r].command /\ m.i = run[r].i
      /\ m.upstream = run[r].upstream /\ m.version = run[r].version
      /\ m.memory = run[r].memory \cup {Stage(r)} /\ m.error = run[r].error
  BY <1>1 DEF Worked, RunRow, RunPc
<1>. HIDE DEF m
<1>3. m.pc \in Staged
  BY <1>2 DEF Staged, Ahead
<1>4. Fits(m)
  BY <1>2, <1>3, StagedFits
<1>. QED
  BY <1>2, <1>4 DEF m

\* A stage goes on at another place, works, is thrown or caught, or is over.
LEMMA OnwardMoves ==
  ASSUME Types, NEW r \in Runs, run[r].pc \in Staged, UNCHANGED lease,
         NEW pc, pc \in Staged \ {"empty", "complete", "publish", "markRead", "markWrite"}, Goto(r, pc),
         pc \in {"artifactWrite", "artifactCommit", "recommend"} =>
           Stage(r) \notin {"recommendation_select", "recommendation_publish"}
  PROVE  Moves(r) /\ run'[r] = [run[r] EXCEPT !.pc = pc]
<1>. DEFINE m == [run[r] EXCEPT !.pc = pc]
<1>1. pc \in RunPc
  BY Places
<1>2. m \in RunRow /\ m.pc = pc /\ m.command = run[r].command /\ m.i = run[r].i
  BY <1>1, NewRows
<1>3. Become(r, m)
  BY DEF Goto
<1>. HIDE DEF m
<1>4. Fits(m)
  BY <1>2, StagedFits
<1>. QED
  BY <1>2, <1>3, <1>4, BecomeMoves DEF m

\* A handler that has done its work moves to the commit.
LEMMA WorkedMoves ==
  ASSUME Types, NEW r \in Runs, run[r].pc \in Staged, UNCHANGED lease, Become(r, Worked(r))
  PROVE  Moves(r) /\ run'[r] = Worked(r)
BY WorkedRow, BecomeMoves

\* A caught error moves to the marking of the stage.
LEMMA CaughtMoves ==
  ASSUME Types, NEW r \in Runs, run[r].pc \in Staged, UNCHANGED lease, NEW e \in Error, Become(r, Caught(r, e))
  PROVE  Moves(r) /\ run'[r] = Caught(r, e)
BY CaughtRow, BecomeMoves

\* An error that leaves the stage moves to one of the ends.
LEMMA ThrownMoves ==
  ASSUME Types, NEW r \in Runs, run[r].pc \in Staged \cup Judging, UNCHANGED lease, NEW e \in Error, Become(r, Thrown(r, e))
  PROVE  Moves(r) /\ run'[r] = Thrown(r, e)
BY ThrownRow, BecomeMoves

\* A stage that is done moves on.
LEMMA AdvancedMoves ==
  ASSUME Types, NEW r \in Runs, run[r].pc \in Staged, UNCHANGED lease, Become(r, Advanced(r))
  PROVE  Moves(r) /\ run'[r] = Advanced(r)
BY AdvancedRow, BecomeMoves

\* A copy that is done moves on.
LEMMA NextCopyMoves ==
  ASSUME Types, NEW r \in Runs, run[r].pc \in Copying, UNCHANGED lease, Become(r, NextCopy(r))
  PROVE  Moves(r) /\ run'[r] = NextCopy(r)
BY NextCopyRow, BecomeMoves

-----------------------------------------------------------------------------
(* Every step moves one row *)

\* The copies and the rows carried over.
LEMMA CopyMoves ==
  ASSUME Types, NEW r \in Runs, CopyRead(r) \/ CopyWrite(r) \/ CarryOver(r)
  PROVE  Moves(r)
<1>1. run[r] \in RunRow /\ Fits(run[r])
  BY DEF Types
<1>2. CASE CopyRead(r)
  <2>1. run[r].pc = "copyRead" /\ run[r].pc \in Copying /\ run[r].pc # "off"
    BY <1>2 DEF CopyRead, At, Copying
  <2>2. \/ Leave(r, "failed", "missing") \/ Leave(r, "failed", "differs")
        \/ Become(r, NextCopy(r)) /\ UNCHANGED lease
        \/ Goto(r, "copyWrite") /\ UNCHANGED lease
    BY <1>2 DEF CopyRead
  <2>3. CASE Leave(r, "failed", "missing") \/ Leave(r, "failed", "differs")
    BY <2>1, <2>3, LeaveMoves DEF Over, Error
  <2>4. CASE Become(r, NextCopy(r)) /\ UNCHANGED lease
    BY <2>1, <2>4, NextCopyMoves
  <2>5. CASE Goto(r, "copyWrite") /\ UNCHANGED lease
    <3>. DEFINE m == [run[r] EXCEPT !.pc = "copyWrite"]
    <3>0. "copyWrite" \in RunPc
      BY DEF RunPc
    <3>1. m \in RunRow /\ m.pc = "copyWrite" /\ m.command = run[r].command /\ m.i = run[r].i
      BY <3>0, NewRows
    <3>2. Become(r, m)
      BY <2>5 DEF Goto
    <3>. HIDE DEF m
    <3>3. Fits(m)
      BY <1>1, <2>1, <3>1 DEF Fits, Copying, Opening, Staged, Ahead, Judging
    <3>. QED
      BY <2>5, <3>1, <3>2, <3>3, BecomeMoves
  <2>. QED
    BY <2>2, <2>3, <2>4, <2>5
<1>3. CASE CopyWrite(r)
  <2>1. run[r].pc = "copyWrite" /\ run[r].pc \in Copying /\ run[r].pc # "off"
    BY <1>3 DEF CopyWrite, At, Copying
  <2>2. Leave(r, "failed", "conflict") \/ (Become(r, NextCopy(r)) /\ UNCHANGED lease)
    BY <1>3 DEF CopyWrite
  <2>3. CASE Leave(r, "failed", "conflict")
    BY <2>1, <2>3, LeaveMoves DEF Over, Error
  <2>4. CASE Become(r, NextCopy(r)) /\ UNCHANGED lease
    BY <2>1, <2>4, NextCopyMoves
  <2>. QED
    BY <2>2, <2>3, <2>4
<1>4. CASE CarryOver(r)
  <2>. DEFINE m == [run[r] EXCEPT !.pc = "openRead"]
  <2>0. "openRead" \in RunPc
    BY DEF RunPc
  <2>1. m \in RunRow /\ m.pc = "openRead" /\ m.command = run[r].command /\ m.i = run[r].i
    BY <2>0, NewRows
  <2>2. Become(r, m) /\ UNCHANGED lease /\ run[r].pc = "carry"
    BY <1>4 DEF CarryOver, Goto, lease, At
  <2>. HIDE DEF m
  <2>3. Fits(m)
    BY <1>1, <2>1, <2>2 DEF Fits, Copying, Opening, Staged, Ahead, Judging
  <2>. QED
    BY <2>1, <2>2, <2>3, BecomeMoves
<1>. QED
  BY <1>2, <1>3, <1>4

\* From the opening to the first stage.
LEMMA OpenedFits ==
  ASSUME Types, NEW r \in Runs, run[r].pc \in Opening
  PROVE  LET m == [run[r] EXCEPT !.pc = "upstream"]
         IN m \in RunRow /\ Fits(m) /\ m.pc = "upstream" /\ m.i = 1 /\ m.command = run[r].command
<1>1. run[r] \in RunRow /\ Fits(run[r]) /\ run[r].i = 1 /\ run[r].command \in Commands
  BY DEF Types, Fits, Opening
<1>2. 1 \in 1 .. Len(Plan(run[r].command))
  BY <1>1, PlanFacts
<1>. DEFINE m == [run[r] EXCEPT !.pc = "upstream"]
<1>0. "upstream" \in RunPc
  BY DEF RunPc
<1>3. m \in RunRow /\ m.pc = "upstream" /\ m.command = run[r].command /\ m.i = run[r].i
  BY <1>0, NewRows
<1>. HIDE DEF m
<1>4. Fits(m)
  BY <1>1, <1>2, <1>3 DEF Fits, Copying, Opening, Staged, Ahead, Judging
<1>. QED
  BY <1>1, <1>3, <1>4 DEF m

\* startRunTrace.
LEMMA OpenMoves ==
  ASSUME Types, NEW r \in Runs, OpenRead(r) \/ OpenWrite(r)
  PROVE  Moves(r)
<1>1. run[r] \in RunRow /\ Fits(run[r])
  BY DEF Types
<1>2. CASE OpenRead(r)
  <2>1. run[r].pc = "openRead" /\ run[r].pc \in Opening /\ run[r].pc # "off"
    BY <1>2 DEF OpenRead, At, Opening
  <2>2. \/ Leave(r, "failed", "identity")
        \/ Goto(r, "upstream") /\ UNCHANGED lease
        \/ Goto(r, "openWrite") /\ UNCHANGED lease
    BY <1>2 DEF OpenRead
  <2>3. CASE Leave(r, "failed", "identity")
    BY <2>1, <2>3, LeaveMoves DEF Over, Error
  <2>4. CASE Goto(r, "upstream") /\ UNCHANGED lease
    BY <2>1, <2>4, OpenedFits, BecomeMoves DEF Goto
  <2>5. CASE Goto(r, "openWrite") /\ UNCHANGED lease
    <3>. DEFINE m == [run[r] EXCEPT !.pc = "openWrite"]
    <3>0. "openWrite" \in RunPc
      BY DEF RunPc
    <3>1. m \in RunRow /\ m.pc = "openWrite" /\ m.command = run[r].command /\ m.i = run[r].i
      BY <3>0, NewRows
    <3>2. Become(r, m)
      BY <2>5 DEF Goto
    <3>. HIDE DEF m
    <3>3. Fits(m)
      BY <1>1, <2>1, <3>1 DEF Fits, Copying, Opening, Staged, Ahead, Judging
    <3>. QED
      BY <2>5, <3>1, <3>2, <3>3, BecomeMoves
  <2>. QED
    BY <2>2, <2>3, <2>4, <2>5
<1>3. CASE OpenWrite(r)
  <2>1. run[r].pc \in Opening /\ Goto(r, "upstream") /\ UNCHANGED lease
    BY <1>3 DEF OpenWrite, At, Opening, lease
  <2>. QED
    BY <2>1, OpenedFits, BecomeMoves DEF Goto
<1>. QED
  BY <1>2, <1>3

\* Reuse, or entering the stage.
LEMMA EnterMoves ==
  ASSUME Types, NEW r \in Runs, ReadUpstream(r) \/ ReadLatest(r) \/ EnterRead(r) \/ EnterWrite(r)
  PROVE  Moves(r)
<1>1. run[r].pc \in Staged
  BY DEF ReadUpstream, ReadLatest, EnterRead, EnterWrite, At, Staged, Ahead
<1>2. run[r] \in RunRow /\ Stage(r) \in Stages
  BY <1>1, AtStage
<1>3. CASE ReadUpstream(r)
  <2>. DEFINE u == UpstreamOf(Stage(r))
              m == [run[r] EXCEPT !.pc = "latest", !.upstream = u]
  <2>0. "latest" \in RunPc /\ u \in Upstreams
    BY <1>2, UpstreamType DEF RunPc
  <2>. HIDE DEF u
  <2>1. m \in RunRow /\ m.pc = "latest" /\ m.command = run[r].command /\ m.i = run[r].i
    BY <1>2, <2>0 DEF RunRow
  <2>2. Become(r, m) /\ UNCHANGED lease
    BY <1>3 DEF ReadUpstream, u
  <2>. HIDE DEF m
  <2>3. Fits(m)
    BY <1>1, <2>1, StagedFits DEF Staged
  <2>. QED
    BY <2>1, <2>2, <2>3, BecomeMoves
<1>4. CASE ReadLatest(r)
  <2>. DEFINE v == IF Stored(Stage(r)) THEN Latest(Stage(r)).version + 1 ELSE 1
              m == [run[r] EXCEPT !.pc = "enterRead", !.version = v]
  <2>1. UNCHANGED lease /\ (Become(r, Advanced(r)) \/ Become(r, m))
    BY <1>4 DEF ReadLatest
  <2>2. v \in Nat
    <3>1. CASE Stored(Stage(r))
      <4>1. Latest(Stage(r)) \in artifacts
        BY <1>2, <3>1, LatestIs
      <4>. QED
        BY <4>1 DEF Types, ArtifactRow
    <3>. QED
      BY <3>1
  <2>. HIDE DEF v
  <2>0. "enterRead" \in RunPc
    BY DEF RunPc
  <2>3. m \in RunRow /\ m.pc = "enterRead" /\ m.command = run[r].command /\ m.i = run[r].i
    BY <1>2, <2>0, <2>2 DEF RunRow
  <2>. HIDE DEF m
  <2>4. Fits(m)
    BY <1>1, <2>3, StagedFits DEF Staged, Ahead
  <2>. QED
    BY <1>1, <2>1, <2>3, <2>4, BecomeMoves, AdvancedMoves
<1>5. CASE EnterRead(r)
  <2>. DEFINE m == [run[r] EXCEPT !.pc = "enterWrite", !.status = step[Stage(r)]]
  <2>1. UNCHANGED lease /\ (Become(r, m) \/ Become(r, Thrown(r, "transition")))
    BY <1>5 DEF EnterRead
  <2>2. step[Stage(r)] \in StepStatus
    BY <1>2 DEF Types
  <2>0. "enterWrite" \in RunPc
    BY DEF RunPc
  <2>3. m \in RunRow /\ m.pc = "enterWrite" /\ m.command = run[r].command /\ m.i = run[r].i
    BY <1>2, <2>0, <2>2 DEF RunRow
  <2>. HIDE DEF m
  <2>4. Fits(m)
    BY <1>1, <2>3, StagedFits DEF Staged, Ahead
  <2>5. "transition" \in Error
    BY DEF Error
  <2>. QED
    BY <1>1, <2>1, <2>3, <2>4, <2>5, BecomeMoves, ThrownMoves
<1>6. CASE EnterWrite(r)
  <2>1. UNCHANGED lease /\ (Goto(r, "execute") \/ Become(r, Thrown(r, "conflict")))
    BY <1>6 DEF EnterWrite
  <2>2. "conflict" \in Error /\ "execute" \in Staged \ {"empty", "complete", "publish", "markRead", "markWrite"}
    BY DEF Error, Staged, Ahead
  <2>. QED
    BY <1>1, <2>1, <2>2, OnwardMoves, ThrownMoves
<1>. QED
  BY <1>3, <1>4, <1>5, <1>6

\* The handlers.
LEMMA ExecutingMoves ==
  ASSUME Types, NEW r \in Runs, Executing(r)
  PROVE  Moves(r)
<1>1. run[r].pc \in Staged
  BY DEF Executing, Refuse, Work, ArtifactStart, ArtifactWrite, ArtifactCommit, Score, Recommend, Select,
         RecordEmpty, StartPublish, Complete, Publish, Executes, At, Staged, Ahead
<1>2. UNCHANGED lease
  BY DEF Executing, Refuse, Work, ArtifactStart, ArtifactWrite, ArtifactCommit, Score, Recommend, Select,
         RecordEmpty, StartPublish, Complete, Publish, lease
<1>3. run[r] \in RunRow /\ Fits(run[r])
  BY DEF Types
<1>4. /\ {"lease", "missing", "conflict", "empty", "aiPaused", "aiAttention"} \subseteq Error
      /\ {"artifactWrite", "artifactCommit", "recommend", "commitRead"}
           \subseteq Staged \ {"empty", "complete", "publish", "markRead", "markWrite"}
      /\ {"empty", "complete", "publish"} \subseteq Staged \ {"markRead", "markWrite"}
  BY DEF Error, Staged, Ahead
<1>5. CASE Refuse(r)
  <2>1. \E e \in Error : Become(r, Caught(r, e))
    BY <1>4, <1>5 DEF Refuse
  <2>. QED
    BY <1>1, <1>2, <2>1, CaughtMoves
<1>6. CASE Work(r)
  <2>1. Become(r, Worked(r)) \/ \E e \in Error : Become(r, Caught(r, e))
    BY <1>4, <1>6 DEF Work
  <2>. QED
    BY <1>1, <1>2, <2>1, CaughtMoves, WorkedMoves
<1>7. CASE ArtifactStart(r)
  <2>1. Become(r, Worked(r)) \/ Goto(r, "artifactWrite")
    BY <1>7 DEF ArtifactStart
  <2>2. Stage(r) \notin {"recommendation_select", "recommendation_publish"}
    BY <1>7 DEF ArtifactStart, ArtifactStages
  <2>. QED
    BY <1>1, <1>2, <1>4, <2>1, <2>2, OnwardMoves, WorkedMoves
<1>8. CASE ArtifactWrite(r)
  <2>1. Goto(r, "artifactCommit") /\ Stage(r) \notin {"recommendation_select", "recommendation_publish"}
    BY <1>1, <1>3, <1>8, AtStage DEF ArtifactWrite, At, Fits
  <2>. QED
    BY <1>1, <1>2, <1>4, <2>1, OnwardMoves
<1>9. CASE ArtifactCommit(r)
  BY <1>1, <1>2, <1>9, WorkedMoves DEF ArtifactCommit
<1>10. CASE Score(r)
  <2>1. Become(r, Caught(r, "conflict")) \/ (Goto(r, "recommend") /\ Stage(r) = "evidence_score")
    BY <1>10 DEF Score
  <2>. QED
    BY <1>1, <1>2, <1>4, <2>1, OnwardMoves, CaughtMoves
<1>11. CASE Recommend(r)
  <2>1. Become(r, Caught(r, "conflict")) \/ Become(r, Worked(r))
    BY <1>11 DEF Recommend
  <2>. QED
    BY <1>1, <1>2, <1>4, <2>1, WorkedMoves, CaughtMoves
<1>12. CASE Select(r)
  <2>1. \/ Goto(r, "commitRead") \/ Become(r, Caught(r, "empty"))
        \/ Goto(r, "empty") /\ Stage(r) = "recommendation_select"
    BY <1>12 DEF Select, Goto
  <2>2. CASE Goto(r, "empty") /\ Stage(r) = "recommendation_select"
    <3>. DEFINE m == [run[r] EXCEPT !.pc = "empty"]
    <3>0. "empty" \in RunPc
      BY DEF RunPc
    <3>1. m \in RunRow /\ m.pc = "empty" /\ m.command = run[r].command /\ m.i = run[r].i
      BY <3>0, NewRows
    <3>2. Become(r, m)
      BY <2>2 DEF Goto
    <3>. HIDE DEF m
    <3>. QED
      BY <1>1, <1>2, <1>4, <2>2, <3>1, <3>2, StagedFits, BecomeMoves
  <2>. QED
    BY <1>1, <1>2, <1>4, <2>1, <2>2, OnwardMoves, CaughtMoves
<1>13. CASE RecordEmpty(r)
  BY <1>1, <1>2, <1>13, WorkedMoves DEF RecordEmpty
<1>14. CASE StartPublish(r) \/ Complete(r)
  <2>1. PICK pc \in {"complete", "publish"} : Goto(r, pc)
    BY <1>14 DEF StartPublish, Complete
  <2>2. Stage(r) = "recommendation_publish"
    BY <1>1, <1>3, <1>14, AtStage DEF StartPublish, Complete, Fits, At
  <2>. DEFINE m == [run[r] EXCEPT !.pc = pc]
  <2>3. pc \in RunPc /\ pc \in Staged
    BY <1>4, Places
  <2>4. m \in RunRow /\ m.pc = pc /\ m.command = run[r].command /\ m.i = run[r].i
    BY <2>3, NewRows
  <2>5. Become(r, m)
    BY <2>1 DEF Goto
  <2>. HIDE DEF m
  <2>. QED
    BY <1>1, <1>2, <1>4, <2>2, <2>3, <2>4, <2>5, StagedFits, BecomeMoves
<1>15. CASE Publish(r)
  BY <1>1, <1>2, <1>15, WorkedMoves DEF Publish
<1>. QED
  BY <1>5, <1>6, <1>7, <1>8, <1>9, <1>10, <1>11, <1>12, <1>13, <1>14, <1>15 DEF Executing

\* commitArtifact, the end of the stage and its marking.
LEMMA CommitMoves ==
  ASSUME Types, NEW r \in Runs,
         CommitRead(r) \/ CommitWrite(r) \/ FinishRead(r) \/ FinishWrite(r) \/ MarkRead(r) \/ MarkWrite(r)
  PROVE  Moves(r)
<1>1. run[r].pc \in Staged
  BY DEF CommitRead, CommitWrite, FinishRead, FinishWrite, MarkRead, MarkWrite, At, Staged, Ahead
<1>2. UNCHANGED lease
  BY DEF CommitRead, CommitWrite, FinishRead, FinishWrite, MarkRead, MarkWrite, lease
<1>3. run[r] \in RunRow /\ Fits(run[r])
  BY DEF Types
<1>4. /\ {"lease", "conflict", "transition"} \subseteq Error
      /\ {"commitWrite", "finishRead", "finishWrite"}
           \subseteq Staged \ {"empty", "complete", "publish", "markRead", "markWrite"}
  BY DEF Error, Staged, Ahead
<1>5. CASE CommitRead(r)
  <2>1. \/ Goto(r, "commitWrite") \/ Goto(r, "finishRead")
        \/ Become(r, Caught(r, "conflict")) \/ Become(r, Caught(r, "lease"))
    BY <1>5 DEF CommitRead, Goto
  <2>. QED
    BY <1>1, <1>2, <1>4, <2>1, OnwardMoves, CaughtMoves
<1>6. CASE CommitWrite(r)
  <2>1. Goto(r, "finishRead") \/ Become(r, Caught(r, "conflict"))
    BY <1>6 DEF CommitWrite
  <2>. QED
    BY <1>1, <1>2, <1>4, <2>1, OnwardMoves, CaughtMoves
<1>7. CASE FinishRead(r)
  <2>1. Goto(r, "finishWrite") \/ Become(r, Caught(r, "transition"))
    BY <1>7 DEF FinishRead
  <2>. QED
    BY <1>1, <1>2, <1>4, <2>1, OnwardMoves, CaughtMoves
<1>8. CASE FinishWrite(r)
  BY <1>1, <1>2, <1>8, AdvancedMoves DEF FinishWrite
<1>9. CASE MarkRead(r) \/ MarkWrite(r)
  <2>1. run[r].pc \in {"markRead", "markWrite"} /\ run[r].error \in Error
    BY <1>3, <1>9 DEF MarkRead, MarkWrite, At, Fits, RunRow
  <2>2. Goto(r, "markWrite") \/ Become(r, Thrown(r, run[r].error))
    BY <1>9 DEF MarkRead, MarkWrite, Goto
  <2>3. CASE Goto(r, "markWrite")
    <3>. DEFINE m == [run[r] EXCEPT !.pc = "markWrite"]
    <3>1. "markWrite" \in RunPc /\ "markWrite" \in Staged
      BY DEF RunPc, Staged, Ahead
    <3>2. m \in RunRow /\ m.pc = "markWrite" /\ m.command = run[r].command /\ m.i = run[r].i /\ m.error = run[r].error
      BY <1>3, <3>1 DEF RunRow
    <3>3. Become(r, m)
      BY <2>3 DEF Goto
    <3>. HIDE DEF m
    <3>4. Fits(m)
      BY <1>1, <2>1, <3>1, <3>2, StagedFits, NoneIsNothing
    <3>. QED
      BY <1>2, <3>2, <3>3, <3>4, BecomeMoves
  <2>. QED
    BY <1>1, <1>2, <2>1, <2>2, <2>3, ThrownMoves
<1>. QED
  BY <1>5, <1>6, <1>7, <1>8, <1>9

\* Closing a row, with the reason to do so.
LEMMA ClosingMoves ==
  ASSUME Types, NEW r \in Runs, run[r].pc \in Judging \cup Closing, UNCHANGED lease,
         NEW pc \in Closing, NEW e \in Error \cup {None}, pc # "end" => e # None,
         Become(r, [run[r] EXCEPT !.pc = pc, !.error = e])
  PROVE  Moves(r) /\ run'[r] = [run[r] EXCEPT !.pc = pc, !.error = e]
<1>. DEFINE m == [run[r] EXCEPT !.pc = pc, !.error = e]
<1>1. run[r] \in RunRow /\ run[r].command \in Commands /\ pc \in RunPc
  BY Places DEF Types, Fits, Judging, Closing
<1>2. m \in RunRow /\ m.pc = pc /\ m.error = e /\ m.command = run[r].command
  BY <1>1 DEF RunRow
<1>3. Become(r, m)
  OBVIOUS
<1>. HIDE DEF m
<1>4. Fits(m)
  BY <1>1, <1>2 DEF Fits, Copying, Opening, Staged, Ahead, Judging, Closing
<1>. QED
  BY <1>2, <1>3, <1>4, BecomeMoves DEF m

\* The judgement after recommendation_select.
LEMMA JudgeMoves ==
  ASSUME Types, NEW r \in Runs, Judge(r)
  PROVE  Moves(r)
<1>1. run[r].pc = "judge" /\ run[r].pc \in Judging /\ run[r].pc # "off"
  BY DEF Judge, At, Judging
<1>2. /\ run[r] \in RunRow /\ run[r].command \in Commands /\ run[r].i \in 1 .. Len(Plan(run[r].command))
      /\ Stage(r) = "recommendation_select" /\ Stage(r) = StageOf(run[r])
      /\ Len(Plan(run[r].command)) \in Nat
  BY <1>1, AtStage, PlanFacts DEF Types, Fits, Judging
<1>. DEFINE next == [run[r] EXCEPT !.pc = "upstream", !.i = run[r].i + 1]
            end == [run[r] EXCEPT !.pc = "end"]
            empty == [run[r] EXCEPT !.pc = "judgeEmpty"]
<1>3. \/ Leave(r, "done", None)
      \/ UNCHANGED lease /\ Become(r, end) /\ run[r].i = Len(Plan(run[r].command))
      \/ UNCHANGED lease /\ Become(r, next) /\ run[r].i # Len(Plan(run[r].command))
      \/ UNCHANGED lease /\ Become(r, empty)
      \/ UNCHANGED lease /\ Become(r, Thrown(r, "empty"))
  BY <1>2 DEF Judge, Goto
<1>. HIDE DEF next, end, empty
<1>4. CASE Leave(r, "done", None)
  BY <1>1, <1>4, LeaveMoves DEF Over
<1>5. CASE UNCHANGED lease /\ Become(r, end)
  <2>1. "end" \in RunPc
    BY DEF RunPc
  <2>2. end \in RunRow /\ end.pc = "end" /\ end.command = run[r].command
    BY <1>2, <2>1 DEF RunRow, end
  <2>3. Fits(end)
    BY <1>2, <2>2 DEF Fits, Copying, Opening, Staged, Ahead, Judging
  <2>. QED
    BY <1>5, <2>2, <2>3, BecomeMoves
<1>6. CASE UNCHANGED lease /\ Become(r, next) /\ run[r].i # Len(Plan(run[r].command))
  <2>1. "upstream" \in RunPc /\ run[r].i + 1 \in Nat \ {0} /\ run[r].i + 1 \in 1 .. Len(Plan(run[r].command))
    BY <1>2, <1>6 DEF RunPc
  <2>2. next \in RunRow /\ next.pc = "upstream" /\ next.command = run[r].command /\ next.i = run[r].i + 1
    BY <1>2, <2>1 DEF RunRow, next
  <2>3. Fits(next)
    BY <1>2, <2>1, <2>2 DEF Fits, Copying, Opening, Staged, Ahead, Judging
  <2>. QED
    BY <1>6, <2>2, <2>3, BecomeMoves
<1>7. CASE UNCHANGED lease /\ Become(r, empty)
  <2>1. "judgeEmpty" \in RunPc
    BY DEF RunPc
  <2>2. empty \in RunRow /\ empty.pc = "judgeEmpty" /\ empty.command = run[r].command /\ empty.i = run[r].i
    BY <1>2, <2>1 DEF RunRow, empty
  <2>3. Fits(empty)
    BY <1>2, <2>2 DEF Fits, StageOf, Copying, Opening, Staged, Ahead, Judging
  <2>. QED
    BY <1>7, <2>2, <2>3, BecomeMoves
<1>8. CASE UNCHANGED lease /\ Become(r, Thrown(r, "empty"))
  BY <1>1, <1>8, ThrownMoves DEF Error
<1>. QED
  BY <1>3, <1>4, <1>5, <1>6, <1>7, <1>8

\* The two ends of a run.
LEMMA EndMoves ==
  ASSUME Types, NEW r \in Runs, JudgeEmpty(r) \/ End(r) \/ StopRead(r) \/ StopWrite(r)
  PROVE  Moves(r)
<1>1. run[r].pc \in {"judgeEmpty", "end", "stopRead", "stopWrite"} /\ run[r].pc # "off"
  BY DEF JudgeEmpty, End, StopRead, StopWrite, At
<1>2. run[r] \in RunRow
  BY DEF Types
<1>3. \/ Leave(r, "done", None)
      \/ Leave(r, "failed", run[r].error)
      \/ Goto(r, "stopWrite") /\ UNCHANGED lease /\ run[r].pc = "stopRead"
  BY DEF JudgeEmpty, End, StopRead, StopWrite, At
<1>4. run[r].error \in Error \cup {None}
  BY <1>2 DEF RunRow
<1>5. CASE Goto(r, "stopWrite") /\ UNCHANGED lease /\ run[r].pc = "stopRead"
  <2>1. run[r].error # None /\ "stopWrite" \in Closing /\ run[r].pc \in Closing
    BY <1>5 DEF Types, Fits, Closing
  <2>2. [run[r] EXCEPT !.pc = "stopWrite"] = [run[r] EXCEPT !.pc = "stopWrite", !.error = run[r].error]
    BY <1>2 DEF RunRow
  <2>. QED
    BY <1>4, <1>5, <2>1, <2>2, ClosingMoves DEF Goto
<1>. QED
  BY <1>1, <1>3, <1>4, <1>5, LeaveMoves DEF Over

\* A failing statement.
LEMMA FailMoves ==
  ASSUME Types, NEW r \in Runs, Fail(r) \/ Crash(r) \/ Cut(r)
  PROVE  Moves(r)
<1>1. run[r] \in RunRow /\ Fits(run[r]) /\ run[r].error \in Error \cup {None}
  BY DEF Types, RunRow
<1>2. "fault" \in Error /\ {"failed", "dead"} \subseteq Over
  BY DEF Error, Over
<1>3. CASE Crash(r)
  BY <1>2, <1>3, LeaveMoves DEF Crash, Live
<1>4. CASE Cut(r)
  <2>1. run' = run /\ holder' = holder /\ overlapped' = overlapped /\ lock' = None
    BY <1>4 DEF Cut
  <2>. QED
    BY <1>1, <2>1 DEF Moves, Types
<1>5. CASE Fail(r)
  <2>1. CASE run[r].pc \in {"copyRead", "copyWrite", "carry", "openRead", "openWrite"}
    <3>1. Leave(r, "failed", "fault")
      BY <1>5, <2>1 DEF Fail
    <3>. QED
      BY <1>2, <2>1, <3>1, LeaveMoves
  <2>2. CASE run[r].pc \in {"upstream", "latest", "enterRead", "enterWrite"}
    <3>1. Become(r, Thrown(r, "fault")) /\ UNCHANGED lease
      BY <1>5, <2>2 DEF Fail
    <3>. QED
      BY <1>2, <2>2, <3>1, ThrownMoves DEF Staged, Ahead
  <2>3. CASE run[r].pc \in {"execute", "artifactWrite", "artifactCommit", "recommend", "empty", "complete", "publish",
                            "commitRead", "commitWrite", "finishRead", "finishWrite"}
    <3>1. Become(r, Caught(r, "fault")) /\ UNCHANGED lease
      BY <1>5, <2>3 DEF Fail
    <3>. QED
      BY <1>2, <2>3, <3>1, CaughtMoves DEF Staged, Ahead
  <2>4. CASE run[r].pc \in {"judge", "judgeEmpty", "end"}
    <3>1. Become(r, [run[r] EXCEPT !.pc = "stopRead", !.error = "fault"]) /\ UNCHANGED lease
      BY <1>5, <2>4 DEF Fail
    <3>2. "fault" # None /\ run[r].pc \in Judging \cup Closing /\ "stopRead" \in Closing
      BY <1>2, <2>4, NoneIsNothing DEF Judging, Closing
    <3>. QED
      BY <1>2, <3>1, <3>2, ClosingMoves
  <2>5. CASE run[r].pc \in {"markRead", "markWrite"}
    <3>1. Become(r, Thrown(r, run[r].error)) /\ UNCHANGED lease
      BY <1>5, <2>5 DEF Fail
    <3>2. run[r].error \in Error /\ run[r].pc \in Staged
      BY <1>1, <2>5 DEF Fits, Staged
    <3>. QED
      BY <3>1, <3>2, ThrownMoves
  <2>6. CASE run[r].pc \in {"stopRead", "stopWrite"}
    <3>1. Leave(r, "failed", run[r].error)
      BY <1>5, <2>6 DEF Fail
    <3>. QED
      BY <1>1, <1>2, <2>6, <3>1, LeaveMoves
  <2>. QED
    BY <1>5, <2>1, <2>2, <2>3, <2>4, <2>5, <2>6 DEF Fail
<1>. QED
  BY <1>3, <1>4, <1>5

\* Every step of a run that goes on.
LEMMA StepMoves ==
  ASSUME Types, NEW r \in Runs, Proceed(r) \/ Fail(r) \/ Crash(r) \/ Cut(r)
  PROVE  Moves(r)
BY CopyMoves, OpenMoves, EnterMoves, ExecutingMoves, CommitMoves, JudgeMoves, EndMoves, FailMoves DEF Proceed

\* A run that begins.
BeginRow(pc, c) == [Fresh EXCEPT !.pc = pc, !.command = c]

\* The start of a run.
LEMMA BeginMoves ==
  ASSUME Types, NEW r \in Runs, Begin(r)
  PROVE  /\ run' = [run EXCEPT ![r] = run'[r]]
         /\ run'[r] \in RunRow /\ Fits(run'[r]) /\ run'[r].command \in Commands
         /\ \/ run'[r].pc = "done" /\ trace.status = "SUCCESS" /\ lock' = None
            \/ run'[r].pc \in {"openRead", "copyRead"} /\ trace.status # "SUCCESS" /\ lock' = r
         /\ run'[r].i = 1 /\ run'[r].memory = {} /\ run'[r].error = None
         /\ run'[r].pc = "copyRead" <=> (run'[r].pc # "done" /\ Copies(run'[r].command) # <<>>)
<1>1. PICK c \in CommandsOf[r] :
        /\ \/ Become(r, BeginRow("done", c)) /\ trace.status = "SUCCESS" /\ lock' = None
           \/ Become(r, BeginRow("openRead", c)) /\ Copies(c) = <<>> /\ trace.status # "SUCCESS" /\ lock' = r
           \/ Become(r, BeginRow("copyRead", c)) /\ Copies(c) # <<>> /\ trace.status # "SUCCESS" /\ lock' = r
  BY DEF Begin, BeginRow
<1>2. c \in Commands
  BY CommandsOfAssumption
<1>3. InOrder(Copies(c)) /\ Len(Copies(c)) \in Nat
  BY <1>2, PlanFacts
<1>4. \A pc \in RunPc :
        /\ BeginRow(pc, c) \in RunRow /\ BeginRow(pc, c).pc = pc /\ BeginRow(pc, c).command = c
        /\ BeginRow(pc, c).i = 1 /\ BeginRow(pc, c).memory = {} /\ BeginRow(pc, c).error = None
  <2>. SUFFICES ASSUME NEW pc \in RunPc
                PROVE  LET m == BeginRow(pc, c)
                       IN m \in RunRow /\ m.pc = pc /\ m.command = c /\ m.i = 1 /\ m.memory = {} /\ m.error = None
    OBVIOUS
  <2>1. Fresh \in RunRow /\ Fresh.i = 1 /\ Fresh.memory = {} /\ Fresh.error = None
    BY FreshType DEF Fresh
  <2>2. BeginRow(pc, c) = [Fresh EXCEPT !.pc = pc, !.command = c]
    BY DEF BeginRow
  <2>. QED
    BY <1>2, <2>1, <2>2 DEF RunRow
<1>5. {"done", "openRead", "copyRead"} \subseteq RunPc
  BY DEF RunPc
<1>6. Copies(c) # <<>> => 1 \in 1 .. Len(Copies(c))
  BY <1>3 DEF InOrder
<1>7. Fits(BeginRow("done", c))
  BY <1>2, <1>4, <1>5 DEF Fits, Copying, Opening, Staged, Ahead, Judging
<1>8. Fits(BeginRow("openRead", c))
  BY <1>2, <1>4, <1>5 DEF Fits, Copying, Opening, Staged, Ahead, Judging
<1>9. ASSUME Copies(c) # <<>>
      PROVE  Fits(BeginRow("copyRead", c))
  BY <1>2, <1>4, <1>5, <1>6, <1>9 DEF Fits, Copying, Opening, Staged, Ahead, Judging
<1>10. \A m : Become(r, m) => run' = [run EXCEPT ![r] = m] /\ run'[r] = m
  BY DEF Become, Types
<1>11. CASE Become(r, BeginRow("done", c)) /\ trace.status = "SUCCESS" /\ lock' = None
  <2>1. run'[r] = BeginRow("done", c) /\ run' = [run EXCEPT ![r] = run'[r]]
    BY <1>10, <1>11
  <2>. QED
    BY <1>2, <1>4, <1>5, <1>7, <1>11, <2>1
<1>12. CASE Become(r, BeginRow("openRead", c)) /\ Copies(c) = <<>> /\ trace.status # "SUCCESS" /\ lock' = r
  <2>1. run'[r] = BeginRow("openRead", c) /\ run' = [run EXCEPT ![r] = run'[r]]
    BY <1>10, <1>12
  <2>. QED
    BY <1>2, <1>4, <1>5, <1>8, <1>12, <2>1
<1>13. CASE Become(r, BeginRow("copyRead", c)) /\ Copies(c) # <<>> /\ trace.status # "SUCCESS" /\ lock' = r
  <2>1. run'[r] = BeginRow("copyRead", c) /\ run' = [run EXCEPT ![r] = run'[r]]
    BY <1>10, <1>13
  <2>. QED
    BY <1>2, <1>4, <1>5, <1>9, <1>13, <2>1
<1>. QED
  BY <1>1, <1>11, <1>12, <1>13

-----------------------------------------------------------------------------
(* What a step does to the tables *)

Steps(r) == Proceed(r) \/ Fail(r) \/ Crash(r) \/ Cut(r)

\* The statements that write each table.
LEMMA Writers ==
  ASSUME NEW r \in Runs, Steps(r)
  PROVE  /\ artifacts' = artifacts \/ CopyWrite(r) \/ CommitWrite(r)
         /\ step' = step \/ EnterWrite(r) \/ ArtifactWrite(r) \/ ArtifactCommit(r) \/ FinishWrite(r) \/ MarkWrite(r)
         /\ trace' = trace \/ OpenWrite(r) \/ RecordEmpty(r) \/ Complete(r) \/ JudgeEmpty(r) \/ End(r) \/ StopWrite(r)
         /\ published' = published \/ Publish(r)
         /\ \/ rows' = rows \/ CarryOver(r) \/ Work(r) \/ ArtifactCommit(r) \/ Score(r) \/ Recommend(r)
            \/ Complete(r) \/ End(r)
         /\ \/ late' = late
            \/ CopyWrite(r) \/ CommitWrite(r)
            \/ EnterWrite(r) \/ ArtifactWrite(r) \/ ArtifactCommit(r) \/ FinishWrite(r) \/ MarkWrite(r)
            \/ OpenWrite(r) \/ RecordEmpty(r) \/ Complete(r) \/ JudgeEmpty(r) \/ End(r) \/ StopWrite(r)
<1>1. CASE Proceed(r)
  BY <1>1 DEF Proceed, Executing, CopyRead, CarryOver, OpenRead, ReadUpstream, ReadLatest, EnterRead,
              CopyWrite, CommitWrite, EnterWrite, ArtifactWrite, ArtifactCommit, FinishWrite, MarkWrite,
              OpenWrite, RecordEmpty, Complete, JudgeEmpty, End, StopWrite,
              Refuse, Work, ArtifactStart, Score, Recommend, Select, StartPublish, Publish,
              CommitRead, FinishRead, MarkRead, Judge, StopRead, store
<1>2. CASE Fail(r) \/ Crash(r) \/ Cut(r)
  BY <1>2 DEF Fail, Crash, Cut, store
<1>. QED
  BY <1>1, <1>2 DEF Steps

\* What r is entitled to write is not late.
LEMMA StepMarks ==
  ASSUME Types, NEW r \in Runs, Steps(r)
  PROVE  WriteMarks(r)
<1>1. CASE CopyWrite(r) \/ CommitWrite(r)
  <2>1. step' = step /\ trace' = trace
    BY <1>1 DEF CopyWrite, CommitWrite
  <2>2. (late' = late /\ artifacts' = artifacts) \/ Writes(r, "artifact")
    BY <1>1 DEF CopyWrite, CommitWrite
  <2>. QED
    BY <2>1, <2>2 DEF WriteMarks, Writes, Tables
<1>2. CASE EnterWrite(r) \/ ArtifactWrite(r) \/ ArtifactCommit(r) \/ FinishWrite(r) \/ MarkWrite(r)
  <2>1. artifacts' = artifacts /\ trace' = trace
    BY <1>2 DEF EnterWrite, ArtifactWrite, ArtifactCommit, FinishWrite, MarkWrite
  <2>2. (late' = late /\ step' = step) \/ Writes(r, "step")
    BY <1>2 DEF EnterWrite, ArtifactWrite, ArtifactCommit, FinishWrite, MarkWrite
  <2>. QED
    BY <2>1, <2>2 DEF WriteMarks, Writes, Tables
<1>3. CASE OpenWrite(r) \/ RecordEmpty(r) \/ Complete(r) \/ JudgeEmpty(r) \/ End(r) \/ StopWrite(r)
  <2>1. artifacts' = artifacts /\ step' = step
    BY <1>3 DEF OpenWrite, RecordEmpty, Complete, JudgeEmpty, End, StopWrite
  <2>2. (late' = late /\ trace' = trace) \/ Writes(r, "trace")
    BY <1>3 DEF OpenWrite, RecordEmpty, Complete, JudgeEmpty, End, StopWrite
  <2>. QED
    BY <2>1, <2>2 DEF WriteMarks, Writes, Tables
<1>4. CASE late' = late /\ artifacts' = artifacts /\ step' = step /\ trace' = trace
  BY <1>4 DEF WriteMarks
<1>. QED
  BY <1>1, <1>2, <1>3, <1>4, Writers

\* An artifact of a version that is free.
LEMMA NumberedGrows ==
  ASSUME artifacts \subseteq ArtifactRow, Numbered, NEW a \in ArtifactRow, Keyed(a.stage, a.version) = {},
         artifacts' = artifacts \cup {a}
  PROVE  Numbered'
<1>1. a.version \in Nat /\ \A b \in artifacts : b.version \in Nat
  BY DEF ArtifactRow
<1>2. \A b \in artifacts : b.stage = a.stage => b.version # a.version
  BY DEF Keyed
<1>3. \A b, c \in artifacts' : b.stage = c.stage /\ b.version = c.version => b = c
  BY <1>2 DEF Numbered
<1>4. ASSUME NEW x \in artifacts'
      PROVE  \E b \in artifacts' : b.stage = x.stage /\ \A c \in artifacts' : c.stage = x.stage => c.version <= b.version
  <2>1. CASE x \in artifacts
    <3>1. PICK b \in artifacts : b.stage = x.stage /\ \A c \in artifacts : c.stage = x.stage => c.version <= b.version
      BY <2>1 DEF Numbered
    <3>2. CASE a.stage = x.stage /\ b.version < a.version
      <4>1. \A c \in artifacts' : c.stage = x.stage => c.version <= a.version
        BY <1>1, <3>1, <3>2
      <4>. QED
        BY <3>2, <4>1
    <3>3. CASE ~(a.stage = x.stage /\ b.version < a.version)
      <4>1. \A c \in artifacts' : c.stage = x.stage => c.version <= b.version
        BY <1>1, <3>1, <3>3
      <4>. QED
        BY <3>1, <4>1
    <3>. QED
      BY <3>2, <3>3
  <2>2. CASE x = a /\ \A b \in artifacts : b.stage # a.stage
    <3>1. \A c \in artifacts' : c.stage = x.stage => c.version <= a.version
      BY <1>1, <2>2
    <3>. QED
      BY <2>2, <3>1
  <2>3. CASE x = a /\ \E b \in artifacts : b.stage = a.stage
    <3>1. PICK y \in artifacts : y.stage = a.stage
      BY <2>3
    <3>2. PICK b \in artifacts : b.stage = y.stage /\ \A c \in artifacts : c.stage = y.stage => c.version <= b.version
      BY DEF Numbered
    <3>3. CASE b.version < a.version
      <4>1. \A c \in artifacts' : c.stage = x.stage => c.version <= a.version
        BY <1>1, <2>3, <3>1, <3>2, <3>3
      <4>. QED
        BY <2>3, <4>1
    <3>4. CASE ~(b.version < a.version)
      <4>1. \A c \in artifacts' : c.stage = x.stage => c.version <= b.version
        BY <1>1, <2>3, <3>1, <3>2, <3>4
      <4>. QED
        BY <2>3, <3>1, <3>2, <4>1
    <3>. QED
      BY <3>3, <3>4
  <2>. QED
    BY <2>1, <2>2, <2>3
<1>. QED
  BY <1>3, <1>4 DEF Numbered

\* What a copy and a commit add.
CopyRow(s) == [stage |-> s, version |-> 1, input |-> None, content |-> Produced(s, None),
               upstream |-> [d \in Dependencies[s] |-> Produced(d, None)]]
CommitRow(r) == [stage |-> Stage(r), version |-> run[r].version, input |-> run[r].command,
                 upstream |-> run[r].upstream, content |-> Produced(Stage(r), r)]

\* What a copy adds to the artifacts.
LEMMA CopyWrites ==
  ASSUME Types, NEW r \in Runs, CopyWrite(r)
  PROVE  /\ run[r].pc = "copyWrite" /\ run[r].command \in Commands /\ Copied(r) = CopyOf(run[r]) /\ Copied(r) \in Stages
         /\ run[r].i \in 1 .. Len(Copies(run[r].command))
         /\ CopyRow(Copied(r)) \in ArtifactRow
         /\ \/ /\ Keyed(Copied(r), 1) = {} /\ artifacts' = artifacts \cup {CopyRow(Copied(r))}
               /\ Writes(r, "artifact") /\ run'[r] = NextCopy(r)
            \/ /\ Keyed(Copied(r), 1) # {} /\ artifacts' = artifacts /\ late' = late
               /\ run'[r].pc = "failed"
<1>1. run[r].pc = "copyWrite" /\ run[r].pc \in Copying /\ run[r].pc # "off"
  BY DEF CopyWrite, At, Copying
<1>2. run[r].command \in Commands /\ run[r].i \in 1 .. Len(Copies(run[r].command))
  BY <1>1 DEF Types, Fits
<1>3. Copied(r) \in Stages
  BY <1>2, PlanFacts, EarlierInPlan DEF Copied
<1>4. CopyRow(Copied(r)) \in ArtifactRow
  <2>. DEFINE s == Copied(r)
              u == [d \in Dependencies[s] |-> Produced(d, None)]
  <2>1. \A d : Produced(d, None) \in Content
    BY DEF Produced, Content
  <2>2. Dependencies[s] \in SUBSET Stages
    BY <1>3, DependenciesEarlier
  <2>3. u \in [Dependencies[s] -> Content]
    BY <2>1
  <2>4. u \in Upstreams
    BY <2>2, <2>3 DEF Upstreams
  <2>. HIDE DEF u, s
  <2>5. CopyRow(s) = [stage |-> s, version |-> 1, input |-> None, content |-> Produced(s, None), upstream |-> u]
    BY DEF CopyRow, u
  <2>. QED
    BY <1>3, <2>1, <2>4, <2>5 DEF ArtifactRow, s
<1>5. CASE Keyed(Copied(r), 1) = {}
  <2>1. artifacts' = artifacts \cup {CopyRow(Copied(r))} /\ Writes(r, "artifact") /\ Become(r, NextCopy(r)) /\ UNCHANGED lease
    BY <1>5 DEF CopyWrite, CopyRow
  <2>. QED
    BY <1>1, <1>2, <1>3, <1>4, <1>5, <2>1, NextCopyMoves DEF Copied, CopyOf
<1>6. CASE Keyed(Copied(r), 1) # {}
  <2>1. artifacts' = artifacts /\ late' = late /\ Leave(r, "failed", "conflict")
    BY <1>6 DEF CopyWrite
  <2>2. run'[r].pc = "failed"
    BY <1>1, <2>1, LeaveMoves DEF Over, Error
  <2>. QED
    BY <1>1, <1>2, <1>3, <1>4, <1>6, <2>1, <2>2 DEF Copied, CopyOf
<1>. QED
  BY <1>5, <1>6

\* What a commit adds to the artifacts.
LEMMA CommitWrites ==
  ASSUME Types, NEW r \in Runs, CommitWrite(r)
  PROVE  /\ run[r].pc = "commitWrite" /\ Stage(r) \in Stages /\ CommitRow(r) \in ArtifactRow
         /\ \/ /\ Keyed(Stage(r), run[r].version) = {} /\ artifacts' = artifacts \cup {CommitRow(r)}
               /\ Writes(r, "artifact") /\ run'[r] = [run[r] EXCEPT !.pc = "finishRead"]
            \/ /\ artifacts' = artifacts /\ late' = late /\ run'[r] = Caught(r, "conflict")
<1>1. run[r].pc = "commitWrite" /\ run[r].pc \in Staged
  BY DEF CommitWrite, At, Staged, Ahead
<1>2. run[r] \in RunRow /\ Stage(r) \in Stages
  BY <1>1, AtStage
<1>3. CommitRow(r) \in ArtifactRow
  BY <1>2 DEF CommitRow, ArtifactRow, RunRow, Produced, Content
<1>4. CASE KeyIsFree(r)
  <2>1. artifacts' = artifacts \cup {CommitRow(r)} /\ Writes(r, "artifact") /\ Goto(r, "finishRead") /\ UNCHANGED lease
    BY <1>4 DEF CommitWrite, CommitRow, lease
  <2>2. run'[r] = [run[r] EXCEPT !.pc = "finishRead"]
    BY <1>1, <2>1, OnwardMoves DEF Staged, Ahead
  <2>. QED
    BY <1>1, <1>2, <1>3, <1>4, <2>1, <2>2 DEF KeyIsFree
<1>5. CASE ~KeyIsFree(r)
  <2>1. artifacts' = artifacts /\ late' = late /\ Become(r, Caught(r, "conflict")) /\ UNCHANGED lease
    BY <1>5 DEF CommitWrite, lease
  <2>. QED
    BY <1>1, <1>2, <1>3, <2>1, CaughtMoves DEF Error
<1>. QED
  BY <1>4, <1>5

\* The tables keep their types.
LEMMA ArtifactTypes ==
  ASSUME Types, NEW r \in Runs, Steps(r)
  PROVE  artifacts' \subseteq ArtifactRow /\ Numbered' /\ artifacts \subseteq artifacts'
<1>1. CASE artifacts' = artifacts
  BY <1>1 DEF Types, Numbered
<1>2. CASE CopyWrite(r) /\ artifacts' # artifacts
  <2>. DEFINE a == CopyRow(Copied(r))
  <2>1. a \in ArtifactRow /\ artifacts' = artifacts \cup {a} /\ Keyed(Copied(r), 1) = {}
    BY <1>2, CopyWrites
  <2>2. a.stage = Copied(r) /\ a.version = 1
    BY DEF CopyRow
  <2>. HIDE DEF a
  <2>. QED
    BY <2>1, <2>2, NumberedGrows DEF Types
<1>3. CASE CommitWrite(r) /\ artifacts' # artifacts
  <2>. DEFINE a == CommitRow(r)
  <2>1. a \in ArtifactRow /\ artifacts' = artifacts \cup {a} /\ Keyed(Stage(r), run[r].version) = {}
    BY <1>3, CommitWrites
  <2>2. a.stage = Stage(r) /\ a.version = run[r].version
    BY DEF CommitRow
  <2>. HIDE DEF a
  <2>. QED
    BY <2>1, <2>2, NumberedGrows DEF Types
<1>. QED
  BY <1>1, <1>2, <1>3, Writers

\* The status that a step writes for a stage, and at which place.
LEMMA StepWrites ==
  ASSUME Types, NEW r \in Runs, Steps(r)
  PROVE  \/ step' = step
         \/ \E status \in {"RUNNING", "SUCCESS", "FAILED"} :
              /\ step' = [step EXCEPT ![Stage(r)] = status] /\ Stage(r) \in Stages
              /\ run[r].pc = "enterWrite" => status = "RUNNING" /\ run'[r] = [run[r] EXCEPT !.pc = "execute"]
                                             /\ ~(run[r].status = "absent" /\ step[Stage(r)] # "absent")
              /\ run[r].pc \in {"enterWrite", "artifactWrite"} <=> status = "RUNNING"
              /\ run[r].pc \in {"artifactCommit", "finishWrite"} <=> status = "SUCCESS"
              /\ run[r].pc = "markWrite" <=> status = "FAILED"
<1>1. CASE EnterWrite(r) /\ step' # step
  <2>1. run[r].pc = "enterWrite" /\ run[r].pc \in Staged
    BY <1>1 DEF EnterWrite, At, Staged, Ahead
  <2>2. /\ step' = [step EXCEPT ![Stage(r)] = "RUNNING"] /\ Goto(r, "execute") /\ UNCHANGED lease
        /\ ~(run[r].status = "absent" /\ step[Stage(r)] # "absent")
    BY <1>1 DEF EnterWrite
  <2>3. run'[r] = [run[r] EXCEPT !.pc = "execute"]
    BY <2>1, <2>2, OnwardMoves DEF Staged, Ahead
  <2>. QED
    BY <2>1, <2>2, <2>3, AtStage
<1>2. CASE ArtifactWrite(r)
  <2>1. run[r].pc = "artifactWrite" /\ run[r].pc \in Staged /\ step' = [step EXCEPT ![Stage(r)] = "RUNNING"]
    BY <1>2 DEF ArtifactWrite, At, Staged, Ahead
  <2>. QED
    BY <2>1, AtStage
<1>3. CASE ArtifactCommit(r) \/ FinishWrite(r)
  <2>1. /\ run[r].pc \in {"artifactCommit", "finishWrite"} /\ run[r].pc \in Staged
        /\ step' = [step EXCEPT ![Stage(r)] = "SUCCESS"]
    BY <1>3 DEF ArtifactCommit, FinishWrite, At, Staged, Ahead
  <2>. QED
    BY <2>1, AtStage
<1>4. CASE MarkWrite(r)
  <2>1. run[r].pc = "markWrite" /\ run[r].pc \in Staged /\ step' = [step EXCEPT ![Stage(r)] = "FAILED"]
    BY <1>4 DEF MarkWrite, At, Staged, Ahead
  <2>. QED
    BY <2>1, AtStage
<1>. QED
  BY <1>1, <1>2, <1>3, <1>4, Writers

\* The status that a step writes for the trace, and at which place.
LEMMA TraceWrites ==
  ASSUME Types, NEW r \in Runs, Steps(r)
  PROVE  \/ trace' = trace
         \/ /\ run[r].pc = "openWrite" /\ trace'.status = "PENDING"
            /\ trace'.kind = IF trace.status = "absent" THEN KindOf(run[r].command) ELSE trace.kind
            /\ run'[r] = [run[r] EXCEPT !.pc = "upstream"]
         \/ run[r].pc \in {"empty", "judgeEmpty"} /\ trace'.status = "COMPLETE_EMPTY" /\ trace'.kind = trace.kind
         \/ run[r].pc = "complete" /\ run'[r].pc = "publish" /\ trace'.status = "SUCCESS" /\ trace'.kind = trace.kind
         \/ run[r].pc = "end" /\ run'[r].pc = "done" /\ trace'.status = "SUCCESS" /\ trace'.kind = trace.kind
         \/ run[r].pc = "stopWrite" /\ trace'.status \in {"PAUSED", "NEEDS_ATTENTION", "FAILED"} /\ trace'.kind = trace.kind
<1>1. CASE OpenWrite(r)
  <2>1. /\ run[r].pc = "openWrite" /\ run[r].pc \in Opening /\ Goto(r, "upstream") /\ UNCHANGED lease
        /\ trace' = [status |-> "PENDING",
                     kind |-> IF trace.status = "absent" THEN KindOf(run[r].command) ELSE trace.kind]
    BY <1>1 DEF OpenWrite, At, Opening, lease
  <2>2. run'[r] = [run[r] EXCEPT !.pc = "upstream"]
    BY <2>1, OpenedFits, BecomeMoves DEF Goto
  <2>. QED
    BY <2>1, <2>2
<1>2. CASE RecordEmpty(r) \/ JudgeEmpty(r)
  <2>1. run[r].pc \in {"empty", "judgeEmpty"} /\ trace' = [trace EXCEPT !.status = "COMPLETE_EMPTY"]
    BY <1>2 DEF RecordEmpty, JudgeEmpty, At
  <2>. QED
    BY <2>1 DEF Types
<1>3. CASE Complete(r)
  <2>1. run[r].pc = "complete" /\ trace' = [trace EXCEPT !.status = "SUCCESS"] /\ Goto(r, "publish") /\ UNCHANGED lease
    BY <1>3 DEF Complete, At, Completed, lease
  <2>2. run'[r].pc = "publish"
    BY <2>1 DEF Goto, Become, Types, RunRow
  <2>. QED
    BY <2>1, <2>2 DEF Types
<1>4. CASE End(r) /\ trace' # trace
  <2>1. run[r].pc = "end" /\ trace' = [trace EXCEPT !.status = "SUCCESS"] /\ Leave(r, "done", None)
    BY <1>4 DEF End, At, Completed
  <2>2. run'[r].pc = "done"
    BY <2>1, LeaveMoves DEF Over
  <2>. QED
    BY <2>1, <2>2 DEF Types
<1>5. CASE StopWrite(r)
  <2>1. run[r].pc = "stopWrite" /\ trace' = [trace EXCEPT !.status = StatusFor(run[r].error)]
    BY <1>5 DEF StopWrite, At
  <2>2. StatusFor(run[r].error) \in {"PAUSED", "NEEDS_ATTENTION", "FAILED"}
    BY DEF StatusFor
  <2>. QED
    BY <2>1, <2>2 DEF Types
<1>. QED
  BY <1>1, <1>2, <1>3, <1>4, <1>5, Writers

\* Every step keeps the types of the tables.
LEMMA TableTypes ==
  ASSUME Types, NEW r \in Runs, Steps(r)
  PROVE  /\ step' \in [Stages -> StepStatus]
         /\ trace' \in [status : TraceStatus, kind : Kinds \cup {None}]
         /\ rows' \subseteq {"candidates", "graph", "evidence", "snapshot", "released"}
         /\ published' \in BOOLEAN /\ late' \subseteq Tables
<1>1. step' \in [Stages -> StepStatus]
  <2>1. {"RUNNING", "SUCCESS", "FAILED"} \subseteq StepStatus
    BY DEF StepStatus
  <2>2. step' = step \/ \E status \in StepStatus : step' = [step EXCEPT ![Stage(r)] = status]
    BY <2>1, StepWrites
  <2>. QED
    BY <2>2 DEF Types
<1>2. trace' \in [status : TraceStatus, kind : Kinds \cup {None}]
  <2>1. CASE trace' = trace
    BY <2>1 DEF Types
  <2>2. CASE OpenWrite(r)
    BY <2>2 DEF OpenWrite, TraceStatus, KindOf, Kinds, Types
  <2>3. CASE RecordEmpty(r) \/ JudgeEmpty(r) \/ Complete(r) \/ End(r)
    BY <2>3 DEF RecordEmpty, JudgeEmpty, Complete, End, Completed, Types, TraceStatus
  <2>4. CASE StopWrite(r)
    BY <2>4 DEF StopWrite, StatusFor, Types, TraceStatus
  <2>. QED
    BY <2>1, <2>2, <2>3, <2>4, Writers
<1>3. rows' \subseteq {"candidates", "graph", "evidence", "snapshot", "released"}
  BY Writers DEF Types, CarryOver, Work, ArtifactCommit, Score, Recommend, Complete, End, Released
<1>4. published' \in BOOLEAN
  BY Writers DEF Types, Publish
<1>5. late' \subseteq Tables
  BY StepMarks DEF WriteMarks, Types
<1>. QED
  BY <1>1, <1>2, <1>3, <1>4, <1>5

\* What a step of r leaves of the other rows.
LEMMA Others ==
  ASSUME Types, NEW r \in Runs, run' = [run EXCEPT ![r] = run'[r]], run'[r] \in RunRow, Fits(run'[r])
  PROVE  /\ run' \in [Runs -> RunRow] /\ \A o \in Runs : Fits(run'[o])
         /\ \A o \in Runs \ {r} : run'[o] = run[o]
<1>1. run \in [Runs -> RunRow] /\ \A o \in Runs : Fits(run[o])
  BY DEF Types
<1>. DEFINE m == run'[r]
<1>2. run' = [run EXCEPT ![r] = m] /\ m \in RunRow /\ Fits(m)
  OBVIOUS
<1>. HIDE DEF m
<1>3. \A o \in Runs : run'[o] = IF o = r THEN m ELSE run[o]
  BY <1>1, <1>2
<1>. QED
  BY <1>1, <1>2, <1>3

\* Every step keeps the types.
LEMMA NextTypes ==
  ASSUME Types, [Next]_vars
  PROVE  Types'
<1>1. ASSUME NEW r \in Runs, Steps(r)
      PROVE  Types'
  <2>1. Moves(r)
    BY <1>1, StepMoves DEF Steps
  <2>2. run' \in [Runs -> RunRow] /\ \A o \in Runs : Fits(run'[o])
    BY <2>1, Others DEF Moves
  <2>3. lock' \in Runs \cup {None} /\ holder' \in Runs \cup {None} /\ overlapped' \in BOOLEAN
    BY <2>1 DEF Moves, Types
  <2>. QED
    BY <1>1, <2>2, <2>3, ArtifactTypes, TableTypes DEF Types
<1>2. ASSUME NEW r \in Runs, Begin(r)
      PROVE  Types'
  <2>1. run' \in [Runs -> RunRow] /\ \A o \in Runs : Fits(run'[o])
    BY <1>2, BeginMoves, Others
  <2>2. holder' = r /\ overlapped' \in BOOLEAN /\ UNCHANGED store
    BY <1>2 DEF Begin, Types
  <2>3. lock' \in Runs \cup {None}
    BY <1>2, BeginMoves
  <2>. QED
    BY <2>1, <2>2, <2>3 DEF Types, store, Numbered
<1>3. CASE UNCHANGED vars
  BY <1>3 DEF vars, Types, Numbered
<1>. QED
  BY <1>1, <1>2, <1>3 DEF Next, Steps

\* The type invariant is what the rows are.
LEMMA TypesSuffice == Types => TypeOK
<1>. SUFFICES ASSUME Types
              PROVE  TypeOK
  OBVIOUS
<1>1. \A u \in Upstreams : IsUpstream(u)
  BY DEF Upstreams, IsUpstream
<1>2. ASSUME NEW a \in artifacts
      PROVE  /\ a = [stage |-> a.stage, version |-> a.version, input |-> a.input,
                     upstream |-> a.upstream, content |-> a.content]
             /\ a.stage \in Stages /\ a.version \in Nat /\ a.input \in Commands \cup {None}
             /\ IsUpstream(a.upstream) /\ a.content \in Content
  BY <1>1 DEF Types, ArtifactRow
<1>3. ASSUME NEW r \in Runs
      PROVE  /\ run[r] = [pc |-> run[r].pc, command |-> run[r].command, i |-> run[r].i, upstream |-> run[r].upstream,
                          version |-> run[r].version, status |-> run[r].status, memory |-> run[r].memory,
                          error |-> run[r].error]
             /\ run[r].pc \in RunPc /\ run[r].command \in Commands \cup {None}
             /\ run[r].i \in Nat \ {0} /\ IsUpstream(run[r].upstream)
             /\ run[r].version \in Nat /\ run[r].status \in StepStatus
             /\ run[r].memory \subseteq Stages /\ run[r].error \in Error \cup {None}
  <2>1. run[r] \in RunRow
    BY DEF Types
  <2>. QED
    BY <1>1, <2>1 DEF RunRow
<1>. QED
  BY <1>2, <1>3 DEF Types, TypeOK, Numbered, Tables

\* The inductive form of the type invariant.
LEMMA TypesHold == Spec => []Types
<1>1. Init => Types
  BY InitTypes
<1>2. Types /\ [Next]_vars => Types'
  BY NextTypes
<1>. QED
  BY <1>1, <1>2, PTL DEF Spec

\* Every row and every table has its type: a run at a stage is within its plan, one
\* that copies within its list of copies, an artifact of a version is alone.
THEOREM TypeCorrect == Spec => []TypeOK
BY TypesHold, TypesSuffice, PTL

-----------------------------------------------------------------------------
(* Where a step goes *)

\* r stays at its stage or copy; and with what it has read of the artifacts.
Stays(r) == run'[r].i = run[r].i
Bears(r) == Stays(r) /\ run'[r].upstream = run[r].upstream /\ run'[r].version = run[r].version

\* The next copy, or none is left.
CopiesOn(r) ==
  \/ run'[r].pc = "carry" /\ run[r].i = Len(Copies(run[r].command))
  \/ run'[r].pc = "copyRead" /\ run'[r].i = run[r].i + 1

\* The next stage, the judgement, or no stage is left.
StagesOn(r) ==
  \/ run'[r].pc = "judge" /\ Stays(r) /\ Stage(r) = "recommendation_select"
  \/ run'[r].pc = "end" /\ run[r].i = Len(Plan(run[r].command)) /\ Stage(r) # "recommendation_select"
  \/ run'[r].pc = "upstream" /\ run'[r].i = run[r].i + 1 /\ Stage(r) # "recommendation_select"

CopyFlow(r) ==
  \/ run[r].pc = "copyRead" /\ run'[r].pc = "copyWrite" /\ Stays(r) /\ ~Stored(Copied(r))
  \/ run[r].pc = "copyRead" /\ CopiesOn(r) /\ Stored(Copied(r)) /\ Latest(Copied(r)).content = None
  \/ /\ run[r].pc = "copyWrite" /\ CopiesOn(r)
     /\ Keyed(Copied(r), 1) = {} /\ artifacts' = artifacts \cup {CopyRow(Copied(r))}

\* The trace that a run goes on with is of the kind that it wants.
Kinded(kind, m) == kind = KindOf(m.command)

OpenFlow(r) ==
  /\ run[r].pc \in Opening /\ run'[r].pc \in Opening \cup {"upstream"} /\ run'[r].i = 1
  /\ run'[r].pc = "openWrite" => trace' = trace /\ (trace.status = "absent" \/ Kinded(trace.kind, run[r]))
  /\ run'[r].pc = "upstream" => \/ Kinded(trace'.kind, run[r])
                                \/ run[r].pc = "openWrite" /\ trace'.kind = trace.kind /\ trace.status # "absent"

EnterFlow(r) ==
  \/ run[r].pc = "upstream" /\ run'[r].pc = "latest" /\ Stays(r) /\ run'[r].upstream = UpstreamOf(Stage(r))
  \/ /\ run[r].pc = "latest" /\ StagesOn(r)
     /\ Stored(Stage(r)) /\ Latest(Stage(r)).upstream = run[r].upstream /\ Latest(Stage(r)).input = run[r].command
  \/ /\ run[r].pc = "latest" /\ run'[r].pc = "enterRead" /\ Stays(r) /\ run'[r].upstream = run[r].upstream
     /\ run'[r].version = IF Stored(Stage(r)) THEN Latest(Stage(r)).version + 1 ELSE 1
  \/ /\ run[r].pc = "enterRead" /\ run'[r].pc = "enterWrite" /\ Bears(r)
     /\ run'[r].status = step[Stage(r)] /\ Legal(step[Stage(r)], "RUNNING")
  \/ run[r].pc = "enterWrite" /\ run'[r].pc = "execute" /\ Bears(r) /\ step' = [step EXCEPT ![Stage(r)] = "RUNNING"]

ExecuteFlow(r) ==
  /\ Bears(r)
  /\ \/ /\ run[r].pc \in Ahead \ {"enterRead", "enterWrite", "commitRead", "commitWrite"}
        /\ run'[r].pc \in {"recommend", "empty", "complete", "commitRead"}
        /\ run'[r].pc = "empty" => "snapshot" \notin rows /\ rows' = rows
        /\ run'[r].pc = "commitRead" /\ Stage(r) = "recommendation_publish" => run[r].pc = "publish" /\ published'
     \/ run[r].pc = "execute" /\ run'[r].pc = "artifactWrite" /\ step' = step
     \/ run[r].pc = "artifactWrite" /\ run'[r].pc = "artifactCommit" /\ step' = [step EXCEPT ![Stage(r)] = "RUNNING"]
     \/ /\ run[r].pc = "complete" /\ run'[r].pc = "publish"
        /\ trace'.status = "SUCCESS" /\ Writes(r, "trace") /\ artifacts' = artifacts
     \/ run[r].pc = "commitRead" /\ run'[r].pc = "commitWrite"

CommitFlow(r) ==
  \/ run[r].pc = "commitRead" /\ run'[r].pc = "finishRead" /\ Stays(r) /\ Keyed(Stage(r), run[r].version) # {}
  \/ /\ run[r].pc = "commitWrite" /\ run'[r].pc = "finishRead" /\ Stays(r)
     /\ Keyed(Stage(r), run[r].version) = {} /\ artifacts' = artifacts \cup {CommitRow(r)}
  \/ /\ run[r].pc = "finishRead" /\ run'[r].pc = "finishWrite" /\ Stays(r)
     /\ Legal(step[Stage(r)], "SUCCESS") /\ step' = step
  \/ run[r].pc = "finishWrite" /\ StagesOn(r)

ErrorFlow(r) ==
  \/ run[r].pc \in Staged /\ run'[r].pc = "markRead" /\ Stays(r)
  \/ run[r].pc = "markRead" /\ run'[r].pc = "markWrite" /\ Stays(r) /\ Legal(step[Stage(r)], "FAILED") /\ step' = step
  \/ run[r].pc \in Staged \cup Judging /\ run'[r].pc = "end" /\ PostProcessing(Stage(r))
  \/ run[r].pc \in Staged \cup Judging \cup {"end"} /\ run'[r].pc = "stopRead"

JudgeFlow(r) ==
  \/ run[r].pc = "judge" /\ run'[r].pc = "upstream" /\ run'[r].i = run[r].i + 1 /\ "snapshot" \in rows
  \/ run[r].pc = "judge" /\ run'[r].pc = "end" /\ run[r].i = Len(Plan(run[r].command)) /\ "snapshot" \in rows
  \/ run[r].pc = "judge" /\ run'[r].pc = "judgeEmpty" /\ Stays(r) /\ "recommendation_select" \notin run[r].memory
  \/ run[r].pc = "stopRead" /\ run'[r].pc = "stopWrite" /\ trace.status # "SUCCESS" /\ trace' = trace

EndFlow(r) ==
  \/ run'[r].pc \in {"failed", "dead"}
  \/ /\ run'[r].pc = "done"
     /\ \/ JudgeEmpty(r) \/ End(r)
        \/ Judge(r) /\ "recommendation_select" \in run[r].memory

\* What a handler leaves in the memory of its process.
MemoryFlow(r) ==
  \/ run'[r].memory \subseteq run[r].memory
  \/ run'[r].memory \subseteq run[r].memory \cup {Stage(r)} /\ (Stage(r) = "recommendation_select" => RecordEmpty(r))

Flow(r) ==
  /\ run'[r].command = run[r].command /\ MemoryFlow(r)
  /\ \/ Cut(r) \/ EndFlow(r)
     \/ CopyFlow(r) \/ OpenFlow(r) \/ EnterFlow(r) \/ ExecuteFlow(r) \/ CommitFlow(r) \/ ErrorFlow(r) \/ JudgeFlow(r)

\* Only an end leads to an end.
LEMMA EndFlowOver ==
  ASSUME NEW r, EndFlow(r)
  PROVE  run'[r].pc \in Over
BY DEF EndFlow, Over

\* The same, of what a step does to a row in general.
LEMMA LeaveFlow ==
  ASSUME Types, NEW r \in Runs, NEW pc \in Over, NEW e \in Error \cup {None}, run[r].pc # "off", Leave(r, pc, e),
         pc = "done" => JudgeEmpty(r) \/ End(r) \/ (Judge(r) /\ "recommendation_select" \in run[r].memory)
  PROVE  Flow(r)
BY LeaveMoves DEF Flow, EndFlow, MemoryFlow, Over

\* A caught error is an error flow.
LEMMA CaughtFlow ==
  ASSUME Types, NEW r \in Runs, run[r].pc \in Staged, UNCHANGED lease, NEW e \in Error, Become(r, Caught(r, e))
  PROVE  Flow(r)
BY CaughtMoves, CaughtRow DEF Flow, MemoryFlow, ErrorFlow, Stays

\* So is one that leaves the stage.
LEMMA ThrownFlow ==
  ASSUME Types, NEW r \in Runs, run[r].pc \in Staged \cup Judging, UNCHANGED lease, NEW e \in Error, Become(r, Thrown(r, e))
  PROVE  Flow(r)
BY ThrownMoves, ThrownRow DEF Flow, MemoryFlow, ErrorFlow

\* A stage that is done leads to the next one, the judgement or the end.
LEMMA AdvancedFlow ==
  ASSUME Types, NEW r \in Runs, run[r].pc \in Staged, UNCHANGED lease, Become(r, Advanced(r))
  PROVE  run'[r].command = run[r].command /\ StagesOn(r) /\ MemoryFlow(r)
BY AdvancedMoves, AdvancedRow DEF StagesOn, Stays, MemoryFlow

\* A copy that is done leads to the next one or to the rows.
LEMMA NextCopyFlow ==
  ASSUME Types, NEW r \in Runs, run[r].pc \in Copying, UNCHANGED lease, Become(r, NextCopy(r))
  PROVE  run'[r].command = run[r].command /\ CopiesOn(r) /\ MemoryFlow(r)
BY NextCopyMoves, NextCopyRow DEF CopiesOn, MemoryFlow

\* A handler that has done its work keeps what it has read.
LEMMA WorkedFlow ==
  ASSUME Types, NEW r \in Runs, run[r].pc \in Ahead \ {"enterRead", "enterWrite", "commitRead", "commitWrite"},
         UNCHANGED lease,
         Become(r, Worked(r)), Stage(r) = "recommendation_select" => RecordEmpty(r),
         Stage(r) = "recommendation_publish" => Publish(r)
  PROVE  Flow(r)
<1>1. run[r].pc \in Staged
  BY DEF Staged
<1>. QED
  BY <1>1, WorkedMoves, WorkedRow DEF Flow, MemoryFlow, ExecuteFlow, Bears, Stays, Publish, At

\* A row with a new place only.
LEMMA GoesTo ==
  ASSUME Types, NEW r \in Runs, NEW pc, Goto(r, pc)
  PROVE  run'[r].pc = pc /\ run'[r].command = run[r].command /\ Bears(r) /\ MemoryFlow(r)
BY DEF Types, Goto, Become, RunRow, Bears, Stays, MemoryFlow

\* The copies go where CopyFlow says.
LEMMA CopyFlows ==
  ASSUME Types, NEW r \in Runs, CopyRead(r) \/ CopyWrite(r) \/ CarryOver(r)
  PROVE  Flow(r)
<1>1. CASE CopyRead(r)
  <2>1. run[r].pc = "copyRead" /\ run[r].pc \in Copying /\ run[r].pc # "off"
    BY <1>1 DEF CopyRead, At, Copying
  <2>2. \/ Leave(r, "failed", "missing") \/ Leave(r, "failed", "differs")
        \/ Become(r, NextCopy(r)) /\ UNCHANGED lease /\ Stored(Copied(r)) /\ Agrees(Copied(r))
        \/ Goto(r, "copyWrite") /\ UNCHANGED lease /\ ~Stored(Copied(r))
    BY <1>1 DEF CopyRead
  <2>3. CASE Leave(r, "failed", "missing") \/ Leave(r, "failed", "differs")
    BY <2>1, <2>3, LeaveFlow DEF Over, Error
  <2>4. CASE Become(r, NextCopy(r)) /\ UNCHANGED lease /\ Stored(Copied(r)) /\ Agrees(Copied(r))
    <3>1. Latest(Copied(r)).content = None
      BY <2>4 DEF Agrees, Produced
    <3>. QED
      BY <2>1, <2>4, <3>1, NextCopyFlow DEF Flow, CopyFlow
  <2>5. CASE Goto(r, "copyWrite") /\ UNCHANGED lease /\ ~Stored(Copied(r))
    BY <2>1, <2>5, GoesTo DEF Flow, CopyFlow, Bears
  <2>. QED
    BY <2>2, <2>3, <2>4, <2>5
<1>2. CASE CopyWrite(r)
  <2>1. run[r].pc = "copyWrite" /\ run[r].pc \in Copying /\ run[r].pc # "off"
    BY <1>2 DEF CopyWrite, At, Copying
  <2>2. \/ Leave(r, "failed", "conflict")
        \/ /\ Become(r, NextCopy(r)) /\ UNCHANGED lease
           /\ Keyed(Copied(r), 1) = {} /\ artifacts' = artifacts \cup {CopyRow(Copied(r))}
    BY <1>2 DEF CopyWrite, CopyRow
  <2>3. CASE Leave(r, "failed", "conflict")
    BY <2>1, <2>3, LeaveFlow DEF Over, Error
  <2>. QED
    BY <2>1, <2>2, <2>3, NextCopyFlow DEF Flow, CopyFlow
<1>3. CASE CarryOver(r)
  <2>1. run[r].pc = "carry" /\ Goto(r, "openRead")
    BY <1>3 DEF CarryOver, At
  <2>2. run[r].i = 1
    BY <2>1 DEF Types, Fits, Opening
  <2>. QED
    BY <2>1, <2>2, GoesTo DEF Flow, OpenFlow, Opening, Bears, Stays
<1>. QED
  BY <1>1, <1>2, <1>3

\* The opening goes where OpenFlow says.
LEMMA OpenFlows ==
  ASSUME Types, NEW r \in Runs, OpenRead(r) \/ OpenWrite(r)
  PROVE  Flow(r)
<1>1. run[r].pc \in Opening /\ run[r].pc # "off" /\ run[r].i = 1
  BY DEF OpenRead, OpenWrite, At, Opening, Types, Fits
<1>2. \/ Leave(r, "failed", "identity")
      \/ /\ Goto(r, "upstream")
         /\ \/ Kinded(trace'.kind, run[r])
            \/ run[r].pc = "openWrite" /\ trace'.kind = trace.kind /\ trace.status # "absent"
      \/ Goto(r, "openWrite") /\ trace' = trace /\ (trace.status = "absent" \/ Kinded(trace.kind, run[r]))
  <2>1. CASE OpenRead(r)
    BY <2>1 DEF OpenRead, Kinded, store
  <2>2. CASE OpenWrite(r)
    BY <2>2 DEF OpenWrite, Kinded, At
  <2>. QED
    BY <2>1, <2>2
<1>3. CASE Leave(r, "failed", "identity")
  BY <1>1, <1>3, LeaveFlow DEF Over, Error
<1>4. CASE /\ Goto(r, "upstream")
           /\ \/ Kinded(trace'.kind, run[r])
              \/ run[r].pc = "openWrite" /\ trace'.kind = trace.kind /\ trace.status # "absent"
  BY <1>1, <1>4, GoesTo DEF Flow, OpenFlow, Opening, Bears, Stays
<1>5. CASE Goto(r, "openWrite") /\ trace' = trace /\ (trace.status = "absent" \/ Kinded(trace.kind, run[r]))
  BY <1>1, <1>5, GoesTo DEF Flow, OpenFlow, Opening, Bears, Stays
<1>. QED
  BY <1>2, <1>3, <1>4, <1>5

\* A stage is reused or entered.
LEMMA EnterFlows ==
  ASSUME Types, NEW r \in Runs, ReadUpstream(r) \/ ReadLatest(r) \/ EnterRead(r) \/ EnterWrite(r)
  PROVE  Flow(r)
<1>1. run[r].pc \in Staged
  BY DEF ReadUpstream, ReadLatest, EnterRead, EnterWrite, At, Staged, Ahead
<1>2. run[r] \in RunRow /\ run'[r] \in RunRow
  BY EnterMoves DEF Types, Moves
<1>3. CASE ReadUpstream(r)
  <2>1. run'[r] = [run[r] EXCEPT !.pc = "latest", !.upstream = UpstreamOf(Stage(r))]
    BY <1>3 DEF ReadUpstream, Become, Types
  <2>2. run'[r].pc = "latest" /\ run'[r].upstream = UpstreamOf(Stage(r)) /\ run'[r].i = run[r].i
        /\ run'[r].command = run[r].command /\ run'[r].memory = run[r].memory
    BY <1>2, <2>1 DEF RunRow
  <2>. QED
    BY <1>3, <2>2 DEF Flow, MemoryFlow, EnterFlow, Stays, ReadUpstream, At
<1>4. CASE ReadLatest(r)
  <2>. DEFINE v == IF Stored(Stage(r)) THEN Latest(Stage(r)).version + 1 ELSE 1
  <2>1. /\ UNCHANGED lease /\ run[r].pc = "latest"
        /\ \/ /\ Become(r, Advanced(r)) /\ Stored(Stage(r))
              /\ Latest(Stage(r)).upstream = run[r].upstream /\ Latest(Stage(r)).input = run[r].command
           \/ Become(r, [run[r] EXCEPT !.pc = "enterRead", !.version = v])
    BY <1>4 DEF ReadLatest, At, Valid
  <2>. HIDE DEF v
  <2>2. CASE /\ Become(r, Advanced(r)) /\ Stored(Stage(r))
             /\ Latest(Stage(r)).upstream = run[r].upstream /\ Latest(Stage(r)).input = run[r].command
    BY <1>1, <2>1, <2>2, AdvancedFlow DEF Flow, EnterFlow
  <2>3. CASE Become(r, [run[r] EXCEPT !.pc = "enterRead", !.version = v])
    <3>1. run'[r] = [run[r] EXCEPT !.pc = "enterRead", !.version = v]
      BY <2>3 DEF Become, Types
    <3>2. run'[r].pc = "enterRead" /\ run'[r].version = v /\ run'[r].i = run[r].i
          /\ run'[r].command = run[r].command /\ run'[r].upstream = run[r].upstream /\ run'[r].memory = run[r].memory
      BY <1>2, <3>1 DEF RunRow
    <3>. QED
      BY <2>1, <3>2 DEF Flow, MemoryFlow, EnterFlow, Stays, v
  <2>. QED
    BY <2>1, <2>2, <2>3
<1>5. CASE EnterRead(r)
  <2>. DEFINE s == step[Stage(r)]
  <2>1. /\ UNCHANGED lease /\ run[r].pc = "enterRead"
        /\ \/ Become(r, [run[r] EXCEPT !.pc = "enterWrite", !.status = s]) /\ Legal(s, "RUNNING")
           \/ Become(r, Thrown(r, "transition"))
    BY <1>5 DEF EnterRead, At
  <2>. HIDE DEF s
  <2>2. CASE Become(r, [run[r] EXCEPT !.pc = "enterWrite", !.status = s]) /\ Legal(s, "RUNNING")
    <3>1. run'[r] = [run[r] EXCEPT !.pc = "enterWrite", !.status = s]
      BY <2>2 DEF Become, Types
    <3>2. run'[r].pc = "enterWrite" /\ run'[r].status = s /\ run'[r].i = run[r].i
          /\ run'[r].command = run[r].command /\ run'[r].upstream = run[r].upstream /\ run'[r].version = run[r].version
          /\ run'[r].memory = run[r].memory
      BY <1>2, <3>1 DEF RunRow
    <3>. QED
      BY <2>1, <2>2, <3>2 DEF Flow, MemoryFlow, EnterFlow, Bears, Stays, s
  <2>3. CASE Become(r, Thrown(r, "transition"))
    BY <1>1, <2>1, <2>3, ThrownFlow DEF Error
  <2>. QED
    BY <2>1, <2>2, <2>3
<1>6. CASE EnterWrite(r)
  <2>1. /\ UNCHANGED lease /\ run[r].pc = "enterWrite"
        /\ \/ Goto(r, "execute") /\ step' = [step EXCEPT ![Stage(r)] = "RUNNING"]
           \/ Become(r, Thrown(r, "conflict"))
    BY <1>6 DEF EnterWrite, At
  <2>2. CASE Become(r, Thrown(r, "conflict"))
    BY <1>1, <2>1, <2>2, ThrownFlow DEF Error
  <2>. QED
    BY <2>1, <2>2, GoesTo DEF Flow, EnterFlow
<1>. QED
  BY <1>3, <1>4, <1>5, <1>6

\* A handler works, refuses or records that there is nothing.
LEMMA ExecutingFlows ==
  ASSUME Types, NEW r \in Runs, Executing(r)
  PROVE  Flow(r)
<1>1. run[r].pc \in Staged /\ run[r].pc \in Ahead \ {"enterRead", "enterWrite", "commitRead", "commitWrite"}
  BY DEF Executing, Refuse, Work, ArtifactStart, ArtifactWrite, ArtifactCommit, Score, Recommend, Select,
         RecordEmpty, StartPublish, Complete, Publish, Executes, At, Staged, Ahead
<1>2. UNCHANGED lease
  BY DEF Executing, Refuse, Work, ArtifactStart, ArtifactWrite, ArtifactCommit, Score, Recommend, Select,
         RecordEmpty, StartPublish, Complete, Publish, lease
<1>3. {"lease", "missing", "conflict", "empty", "aiPaused", "aiAttention"} \subseteq Error
  BY DEF Error
<1>4. CASE \E e \in Error : Become(r, Caught(r, e))
  BY <1>1, <1>2, <1>4, CaughtFlow
<1>5. CASE /\ Become(r, Worked(r))
           /\ Stage(r) = "recommendation_select" => RecordEmpty(r)
           /\ Stage(r) = "recommendation_publish" => Publish(r)
  BY <1>1, <1>2, <1>5, WorkedFlow
<1>6. CASE \E pc \in {"recommend", "empty", "complete", "commitRead"} :
             /\ Goto(r, pc)
             /\ pc = "commitRead" => Stage(r) # "recommendation_publish"
             /\ pc = "empty" => "snapshot" \notin rows /\ rows' = rows
  <2>1. PICK pc \in {"recommend", "empty", "complete", "commitRead"} :
          /\ Goto(r, pc)
          /\ pc = "commitRead" => Stage(r) # "recommendation_publish"
          /\ pc = "empty" => "snapshot" \notin rows /\ rows' = rows
    BY <1>6
  <2>2. run'[r].pc = pc /\ run'[r].command = run[r].command /\ Bears(r) /\ MemoryFlow(r)
    BY <2>1, GoesTo
  <2>. QED
    BY <1>1, <1>6, <2>1, <2>2 DEF Flow, ExecuteFlow
<1>7. CASE Goto(r, "artifactWrite") /\ run[r].pc = "execute" /\ step' = step
  BY <1>7, GoesTo DEF Flow, ExecuteFlow
<1>8. CASE ArtifactWrite(r)
  <2>1. Goto(r, "artifactCommit") /\ run[r].pc = "artifactWrite" /\ step' = [step EXCEPT ![Stage(r)] = "RUNNING"]
    BY <1>8 DEF ArtifactWrite, At
  <2>. QED
    BY <2>1, GoesTo DEF Flow, ExecuteFlow
<1>9. CASE Complete(r)
  <2>1. /\ Goto(r, "publish") /\ run[r].pc = "complete" /\ trace' = [trace EXCEPT !.status = "SUCCESS"]
        /\ Writes(r, "trace") /\ artifacts' = artifacts
    BY <1>9 DEF Complete, Completed, At
  <2>2. trace'.status = "SUCCESS"
    BY <2>1 DEF Types
  <2>. QED
    BY <2>1, <2>2, GoesTo DEF Flow, ExecuteFlow
<1>10. CASE Refuse(r) \/ Work(r)
  <2>1. \/ /\ Become(r, Worked(r)) /\ Stage(r) \notin {"recommendation_select", "recommendation_publish"}
        \/ \E e \in Error : Become(r, Caught(r, e))
    BY <1>3, <1>10 DEF Refuse, Work
  <2>. QED
    BY <1>4, <1>5, <2>1
<1>0. /\ Fits(run[r]) /\ Stage(r) = StageOf(run[r])
      /\ run[r].pc \in {"artifactCommit", "recommend"} => Stage(r) \notin {"recommendation_select", "recommendation_publish"}
      /\ run[r].pc = "empty" => Stage(r) = "recommendation_select"
      /\ run[r].pc = "publish" => Stage(r) = "recommendation_publish"
  BY <1>1, AtStage DEF Types, Fits
<1>11. CASE ArtifactStart(r)
  <2>1. /\ Become(r, Worked(r)) \/ (Goto(r, "artifactWrite") /\ run[r].pc = "execute" /\ step' = step)
        /\ Stage(r) \notin {"recommendation_select", "recommendation_publish"}
    BY <1>11 DEF ArtifactStart, Executes, At, store, ArtifactStages
  <2>. QED
    BY <1>5, <1>7, <2>1
<1>12. CASE ArtifactCommit(r) \/ RecordEmpty(r) \/ Publish(r)
  <2>1. Become(r, Worked(r)) /\ run[r].pc \in {"artifactCommit", "empty", "publish"}
    BY <1>12 DEF ArtifactCommit, RecordEmpty, Publish, At
  <2>2. /\ run[r].pc = "empty" => RecordEmpty(r)
        /\ run[r].pc = "publish" => Publish(r)
    BY <1>12 DEF ArtifactCommit, RecordEmpty, Publish, At
  <2>. QED
    BY <1>0, <1>5, <2>1, <2>2
<1>13. CASE Score(r)
  <2>1. Goto(r, "recommend") \/ Become(r, Caught(r, "conflict"))
    BY <1>13 DEF Score
  <2>2. Stage(r) = "evidence_score"
    BY <1>13 DEF Score
  <2>. QED
    BY <1>3, <1>4, <1>6, <2>1, <2>2
<1>14. CASE Recommend(r)
  <2>1. Become(r, Worked(r)) \/ Become(r, Caught(r, "conflict"))
    BY <1>14 DEF Recommend
  <2>2. Stage(r) \notin {"recommendation_select", "recommendation_publish"}
    BY <1>0, <1>14 DEF Recommend, At
  <2>. QED
    BY <1>3, <1>4, <1>5, <2>1, <2>2
<1>15. CASE Select(r)
  <2>1. \/ Goto(r, "commitRead") \/ Become(r, Caught(r, "empty"))
        \/ Goto(r, "empty") /\ "snapshot" \notin rows /\ rows' = rows
    BY <1>15 DEF Select, Goto, store
  <2>2. Stage(r) = "recommendation_select"
    BY <1>15 DEF Select
  <2>. QED
    BY <1>3, <1>4, <1>6, <2>1, <2>2
<1>16. CASE StartPublish(r)
  <2>1. Goto(r, "complete")
    BY <1>16 DEF StartPublish
  <2>. QED
    BY <1>6, <2>1
<1>. QED
  BY <1>8, <1>9, <1>10, <1>11, <1>12, <1>13, <1>14, <1>15, <1>16 DEF Executing

\* A stage is committed and finished, or marked.
LEMMA CommitFlows ==
  ASSUME Types, NEW r \in Runs,
         CommitRead(r) \/ CommitWrite(r) \/ FinishRead(r) \/ FinishWrite(r) \/ MarkRead(r) \/ MarkWrite(r)
  PROVE  Flow(r)
<1>1. run[r].pc \in Staged
  BY DEF CommitRead, CommitWrite, FinishRead, FinishWrite, MarkRead, MarkWrite, At, Staged, Ahead
<1>2. UNCHANGED lease
  BY DEF CommitRead, CommitWrite, FinishRead, FinishWrite, MarkRead, MarkWrite, lease
<1>3. {"lease", "conflict", "transition"} \subseteq Error
  BY DEF Error
<1>4. CASE \E e \in Error : Become(r, Caught(r, e))
  BY <1>1, <1>2, <1>4, CaughtFlow
<1>5. CASE CommitRead(r)
  <2>1. /\ run[r].pc = "commitRead"
        /\ \/ Goto(r, "commitWrite")
           \/ Goto(r, "finishRead") /\ Keyed(Stage(r), run[r].version) # {}
           \/ Become(r, Caught(r, "conflict")) \/ Become(r, Caught(r, "lease"))
    BY <1>5 DEF CommitRead, Goto, At
  <2>2. CASE Goto(r, "commitWrite")
    BY <2>1, <2>2, GoesTo DEF Flow, ExecuteFlow
  <2>3. CASE Goto(r, "finishRead") /\ Keyed(Stage(r), run[r].version) # {}
    BY <2>1, <2>3, GoesTo DEF Flow, CommitFlow, Bears
  <2>. QED
    BY <1>3, <1>4, <2>1, <2>2, <2>3
<1>6. CASE CommitWrite(r)
  <2>1. /\ run[r].pc = "commitWrite"
        /\ \/ /\ Goto(r, "finishRead") /\ Keyed(Stage(r), run[r].version) = {}
              /\ artifacts' = artifacts \cup {CommitRow(r)}
           \/ Become(r, Caught(r, "conflict"))
    BY <1>6 DEF CommitWrite, At, KeyIsFree, CommitRow
  <2>2. CASE /\ Goto(r, "finishRead") /\ Keyed(Stage(r), run[r].version) = {}
             /\ artifacts' = artifacts \cup {CommitRow(r)}
    BY <2>1, <2>2, GoesTo DEF Flow, CommitFlow, Bears
  <2>. QED
    BY <1>3, <1>4, <2>1, <2>2
<1>7. CASE FinishRead(r)
  <2>1. /\ run[r].pc = "finishRead" /\ step' = step
        /\ \/ Goto(r, "finishWrite") /\ Legal(step[Stage(r)], "SUCCESS")
           \/ Become(r, Caught(r, "transition"))
    BY <1>7 DEF FinishRead, At, store
  <2>2. CASE Goto(r, "finishWrite") /\ Legal(step[Stage(r)], "SUCCESS")
    BY <2>1, <2>2, GoesTo DEF Flow, CommitFlow, Bears
  <2>. QED
    BY <1>3, <1>4, <2>1, <2>2
<1>8. CASE FinishWrite(r)
  BY <1>1, <1>2, <1>8, AdvancedFlow DEF FinishWrite, At, Flow, CommitFlow
<1>9. CASE MarkRead(r) \/ MarkWrite(r)
  <2>1. run[r].pc \in {"markRead", "markWrite"} /\ run[r].error \in Error
    BY <1>9 DEF MarkRead, MarkWrite, At, Fits, RunRow, Types
  <2>2. \/ Become(r, Thrown(r, run[r].error))
        \/ Goto(r, "markWrite") /\ run[r].pc = "markRead" /\ Legal(step[Stage(r)], "FAILED") /\ step' = step
    BY <1>9 DEF MarkRead, MarkWrite, Goto, At, store
  <2>3. CASE Become(r, Thrown(r, run[r].error))
    BY <1>1, <1>2, <2>1, <2>3, ThrownFlow
  <2>. QED
    BY <2>2, <2>3, GoesTo DEF Flow, ErrorFlow, Bears
<1>. QED
  BY <1>5, <1>6, <1>7, <1>8, <1>9

\* The judgement and the two ends.
LEMMA JudgeFlows ==
  ASSUME Types, NEW r \in Runs, Judge(r) \/ JudgeEmpty(r) \/ End(r) \/ StopRead(r) \/ StopWrite(r)
  PROVE  Flow(r)
<1>1. run[r].pc \in {"judge", "judgeEmpty", "end", "stopRead", "stopWrite"} /\ run[r].pc # "off"
  BY DEF Judge, JudgeEmpty, End, StopRead, StopWrite, At
<1>2. run[r] \in RunRow /\ run[r].error \in Error \cup {None}
  BY DEF Types, RunRow
<1>3. CASE Judge(r)
  <2>0. run[r].pc = "judge" /\ run[r].pc \in Judging
    BY <1>3 DEF Judge, At, Judging
  <2>1. \/ Leave(r, "done", None) /\ "recommendation_select" \in run[r].memory
        \/ Become(r, [run[r] EXCEPT !.pc = "end"]) /\ run[r].i = Len(Plan(run[r].command)) /\ "snapshot" \in rows
        \/ Become(r, [run[r] EXCEPT !.pc = "upstream", !.i = run[r].i + 1]) /\ "snapshot" \in rows
        \/ Goto(r, "judgeEmpty") /\ "recommendation_select" \notin run[r].memory
        \/ Become(r, Thrown(r, "empty")) /\ UNCHANGED lease
    BY <1>2, <1>3 DEF Judge, RunRow
  <2>2. CASE Leave(r, "done", None) /\ "recommendation_select" \in run[r].memory
    BY <1>1, <1>3, <2>2, LeaveFlow DEF Over
  <2>3. CASE /\ Become(r, [run[r] EXCEPT !.pc = "end"]) /\ run[r].i = Len(Plan(run[r].command))
             /\ "snapshot" \in rows
    BY <2>0, <2>3, GoesTo DEF Goto, Flow, JudgeFlow
  <2>4. CASE Become(r, [run[r] EXCEPT !.pc = "upstream", !.i = run[r].i + 1]) /\ "snapshot" \in rows
    <3>1. run'[r].pc = "upstream" /\ run'[r].i = run[r].i + 1 /\ run'[r].command = run[r].command
          /\ run'[r].memory = run[r].memory
      BY <1>2, <2>4 DEF Become, RunRow, Types
    <3>. QED
      BY <2>0, <2>4, <3>1 DEF Flow, MemoryFlow, JudgeFlow
  <2>5. CASE Goto(r, "judgeEmpty") /\ "recommendation_select" \notin run[r].memory
    BY <2>0, <2>5, GoesTo DEF Flow, JudgeFlow, Bears
  <2>6. CASE Become(r, Thrown(r, "empty")) /\ UNCHANGED lease
    BY <2>0, <2>6, ThrownFlow DEF Error
  <2>. QED
    BY <2>1, <2>2, <2>3, <2>4, <2>5, <2>6
<1>4. CASE JudgeEmpty(r) \/ End(r) \/ StopRead(r) \/ StopWrite(r)
  <2>1. \/ Leave(r, "done", None) /\ (JudgeEmpty(r) \/ End(r))
        \/ Leave(r, "failed", run[r].error)
        \/ Goto(r, "stopWrite") /\ run[r].pc = "stopRead" /\ trace.status # "SUCCESS" /\ trace' = trace
    BY <1>4 DEF JudgeEmpty, End, StopRead, StopWrite, At, KeepsSuccess, store
  <2>2. CASE (Leave(r, "done", None) /\ (JudgeEmpty(r) \/ End(r))) \/ Leave(r, "failed", run[r].error)
    BY <1>1, <1>2, <2>2, LeaveFlow DEF Over
  <2>. QED
    BY <2>1, <2>2, GoesTo DEF Flow, JudgeFlow
<1>. QED
  BY <1>3, <1>4

\* A failing statement goes to the catch block that the code has there.
LEMMA FailFlows ==
  ASSUME Types, NEW r \in Runs, Fail(r) \/ Crash(r) \/ Cut(r)
  PROVE  Flow(r)
<1>1. run[r] \in RunRow /\ Fits(run[r]) /\ run[r].error \in Error \cup {None}
  BY DEF Types, RunRow
<1>2. "fault" \in Error /\ {"failed", "dead"} \subseteq Over
  BY DEF Error, Over
<1>3. CASE Crash(r)
  BY <1>2, <1>3, LeaveFlow DEF Crash, Live
<1>4. CASE Cut(r)
  BY <1>4 DEF Cut, Flow, MemoryFlow
<1>5. CASE Fail(r) /\ \E e \in Error \cup {None} : Leave(r, "failed", e)
  <2>1. run[r].pc # "off"
    BY <1>5 DEF Fail
  <2>. QED
    BY <1>2, <1>5, <2>1, LeaveFlow
<1>6. CASE Fail(r) /\ UNCHANGED lease /\ run[r].pc \in Staged /\ \E e \in Error : Become(r, Thrown(r, e))
  BY <1>6, ThrownFlow
<1>7. CASE Fail(r) /\ UNCHANGED lease /\ run[r].pc \in Staged /\ Become(r, Caught(r, "fault"))
  BY <1>2, <1>7, CaughtFlow
<1>8. CASE Fail(r) /\ run[r].pc \in {"judge", "judgeEmpty", "end"}
  <2>1. run'[r] = [run[r] EXCEPT !.pc = "stopRead", !.error = "fault"]
    BY <1>8 DEF Fail, Become, Types
  <2>2. run'[r].pc = "stopRead" /\ run'[r].command = run[r].command /\ run'[r].memory = run[r].memory
    BY <1>1, <2>1 DEF RunRow
  <2>. QED
    BY <1>8, <2>2 DEF Flow, MemoryFlow, ErrorFlow, Judging
<1>9. ASSUME Fail(r), run[r].pc \notin {"judge", "judgeEmpty", "end"}
      PROVE  \/ \E e \in Error \cup {None} : Leave(r, "failed", e)
             \/ UNCHANGED lease /\ run[r].pc \in Staged /\ \E e \in Error : Become(r, Thrown(r, e))
             \/ UNCHANGED lease /\ run[r].pc \in Staged /\ Become(r, Caught(r, "fault"))
  <2>1. run[r].pc \in {"markRead", "markWrite"} => run[r].error \in Error
    BY <1>1 DEF Fits
  <2>2. /\ {"upstream", "latest", "enterRead", "enterWrite"} \subseteq Staged
        /\ {"execute", "artifactWrite", "artifactCommit", "recommend", "empty", "complete", "publish",
            "commitRead", "commitWrite", "finishRead", "finishWrite"} \subseteq Staged
        /\ {"markRead", "markWrite"} \subseteq Staged
    BY DEF Staged, Ahead
  <2>. QED
    BY <1>1, <1>2, <1>9, <2>1, <2>2 DEF Fail
<1>. QED
  BY <1>3, <1>4, <1>5, <1>6, <1>7, <1>8, <1>9

\* Every step goes where Flow says.
LEMMA Flows ==
  ASSUME Types, NEW r \in Runs, Steps(r)
  PROVE  Flow(r)
BY CopyFlows, OpenFlows, EnterFlows, ExecutingFlows, CommitFlows, JudgeFlows, FailFlows DEF Steps, Proceed

-----------------------------------------------------------------------------
(* What is final stays *)

Owner == run[holder]

\* What the run that the lease row names has read of its stage still holds.
Marks ==
  "step" \notin late /\ holder \in Runs =>
    LET status == step[StageOf(Owner)]
    IN /\ Owner.pc = "enterWrite" => Owner.status = status /\ status \in {"absent", "PENDING", "RUNNING"}
       /\ Owner.pc \in {"execute", "artifactWrite", "artifactCommit"} => status = "RUNNING"
       /\ Owner.pc = "finishWrite" => status \in {"RUNNING", "SUCCESS"}
       /\ Owner.pc = "markWrite" => status # "SUCCESS"

\* Behind the publication there is nothing that could take the success back.
Ends ==
  "trace" \notin late /\ holder \in Runs /\ trace.status = "SUCCESS" =>
    \/ Owner.pc \in {"off", "end", "stopRead"} \cup Over
    \/ Owner.pc \in Staged /\ Place(StageOf(Owner)) >= Place("recommendation_publish")

Finals == Marks /\ Ends

\* A run that the lease row does not name writes late.
LEMMA Strangers ==
  ASSUME Types, NEW r \in Runs, Steps(r), holder # r
  PROVE  /\ holder \in Runs => run'[holder] = run[holder]
         /\ late \subseteq late'
         /\ "artifact" \notin late' => artifacts' = artifacts
         /\ "step" \notin late' => step' = step
         /\ "trace" \notin late' => trace' = trace
<1>1. Moves(r) /\ WriteMarks(r)
  BY StepMoves, StepMarks DEF Steps
<1>2. \A o \in Runs \ {r} : run'[o] = run[o]
  BY <1>1, Others DEF Moves
<1>. QED
  BY <1>1, <1>2 DEF WriteMarks

\* What the holder has read of its stage keeps holding.
LEMMA MarksKept ==
  ASSUME Types, Marks, NEW r \in Runs, Steps(r)
  PROVE  Marks'
<1>1. Moves(r) /\ WriteMarks(r) /\ Flow(r) /\ Types'
  BY StepMoves, StepMarks, Flows, NextTypes DEF Steps, Next
<1>2. CASE holder # r
  <2>1. /\ holder \in Runs => run'[holder] = run[holder]
        /\ late \subseteq late'
        /\ "step" \notin late' => step' = step
    BY <1>2, Strangers
  <2>2. holder' = holder
    BY <1>1 DEF Moves
  <2>. QED
    BY <2>1, <2>2 DEF Marks, Owner, StageOf
<1>3. CASE holder = r
  <2>. DEFINE m == run[r]
              n == run'[r]
              s == StageOf(m)
  <2>. SUFFICES ASSUME "step" \notin late'
                PROVE  LET status == step'[StageOf(n)]
                       IN /\ n.pc = "enterWrite" => n.status = status /\ status \in {"absent", "PENDING", "RUNNING"}
                          /\ n.pc \in {"execute", "artifactWrite", "artifactCommit"} => status = "RUNNING"
                          /\ n.pc = "finishWrite" => status \in {"RUNNING", "SUCCESS"}
                          /\ n.pc = "markWrite" => status # "SUCCESS"
    BY <1>1, <1>3 DEF Moves, Marks, Owner
  <2>1. late' = late /\ holder' = r
    BY <1>1, <1>3 DEF WriteMarks, Moves
  <2>2. /\ m.pc = "enterWrite" => m.status = step[s] /\ step[s] \in {"absent", "PENDING", "RUNNING"}
        /\ m.pc \in {"execute", "artifactWrite", "artifactCommit"} => step[s] = "RUNNING"
        /\ m.pc = "finishWrite" => step[s] \in {"RUNNING", "SUCCESS"}
        /\ m.pc = "markWrite" => step[s] # "SUCCESS"
    BY <1>3, <2>1 DEF Marks, Owner
  <2>3. CASE Cut(r)
    BY <2>2, <2>3 DEF Cut, store
  <2>4. CASE n.pc \in Over \cup {"end", "stopRead", "markRead"}
    BY <2>4 DEF Over
  <2>5. CASE CopyFlow(r) \/ OpenFlow(r) \/ JudgeFlow(r)
    BY <2>5 DEF CopyFlow, OpenFlow, JudgeFlow, CopiesOn, Opening
  <2>6. CASE EnterFlow(r) \/ ExecuteFlow(r) \/ CommitFlow(r) \/ ErrorFlow(r)
    <3>. SUFFICES ASSUME n.pc \in {"enterWrite", "execute", "artifactWrite", "artifactCommit", "finishWrite", "markWrite"}
                  PROVE  LET status == step'[StageOf(n)]
                         IN /\ n.pc = "enterWrite" => n.status = status /\ status \in {"absent", "PENDING", "RUNNING"}
                            /\ n.pc \in {"execute", "artifactWrite", "artifactCommit"} => status = "RUNNING"
                            /\ n.pc = "finishWrite" => status \in {"RUNNING", "SUCCESS"}
                            /\ n.pc = "markWrite" => status # "SUCCESS"
      OBVIOUS
    <3>1. m.pc \in Staged /\ n.command = m.command /\ n.i = m.i
      BY <1>1, <2>6 DEF Flow, EnterFlow, ExecuteFlow, CommitFlow, ErrorFlow, StagesOn, Stays, Bears, Staged, Ahead
    <3>2. Stage(r) = s /\ s \in Stages /\ StageOf(n) = s /\ step \in [Stages -> StepStatus]
      BY <3>1, AtStage DEF StageOf, Types
    <3>3. CASE n.pc = "enterWrite"
      <4>1. m.pc = "enterRead" /\ n.status = step[s] /\ Legal(step[s], "RUNNING")
        BY <2>6, <3>2, <3>3 DEF EnterFlow, ExecuteFlow, CommitFlow, ErrorFlow, StagesOn
      <4>2. step' = step
        BY <4>1, StepWrites
      <4>. QED
        BY <3>2, <3>3, <4>1, <4>2 DEF Legal
    <3>4. CASE n.pc = "execute"
      <4>1. step' = [step EXCEPT ![s] = "RUNNING"]
        BY <2>6, <3>2, <3>4 DEF EnterFlow, ExecuteFlow, CommitFlow, ErrorFlow, StagesOn
      <4>. QED
        BY <3>2, <3>4, <4>1
    <3>5. CASE n.pc = "artifactWrite"
      <4>1. m.pc = "execute" /\ step' = step
        BY <2>6, <3>2, <3>5 DEF EnterFlow, ExecuteFlow, CommitFlow, ErrorFlow, StagesOn
      <4>. QED
        BY <2>2, <3>2, <3>5, <4>1
    <3>6. CASE n.pc = "artifactCommit"
      <4>1. step' = [step EXCEPT ![s] = "RUNNING"]
        BY <2>6, <3>2, <3>6 DEF EnterFlow, ExecuteFlow, CommitFlow, ErrorFlow, StagesOn
      <4>. QED
        BY <3>2, <3>6, <4>1
    <3>7. CASE n.pc = "finishWrite"
      <4>1. Legal(step[s], "SUCCESS") /\ step' = step
        BY <2>6, <3>2, <3>7 DEF EnterFlow, ExecuteFlow, CommitFlow, ErrorFlow, StagesOn
      <4>. QED
        BY <3>2, <3>7, <4>1 DEF Legal
    <3>8. CASE n.pc = "markWrite"
      <4>1. Legal(step[s], "FAILED") /\ step' = step
        BY <2>6, <3>2, <3>8 DEF EnterFlow, ExecuteFlow, CommitFlow, ErrorFlow, StagesOn
      <4>. QED
        BY <3>2, <3>8, <4>1 DEF Legal
    <3>. QED
      BY <3>3, <3>4, <3>5, <3>6, <3>7, <3>8
  <2>. QED
    BY <1>1, <2>3, <2>4, <2>5, <2>6, EndFlowOver DEF Flow
<1>. QED
  BY <1>2, <1>3

\* Where the holder may be after the success keeps holding.
LEMMA EndsKept ==
  ASSUME Types, Ends, NEW r \in Runs, Steps(r)
  PROVE  Ends'
<1>1. Moves(r) /\ WriteMarks(r) /\ Flow(r) /\ Types'
  BY StepMoves, StepMarks, Flows, NextTypes DEF Steps, Next
<1>2. CASE holder # r
  <2>1. /\ holder \in Runs => run'[holder] = run[holder]
        /\ late \subseteq late'
        /\ "trace" \notin late' => trace' = trace
    BY <1>2, Strangers
  <2>2. holder' = holder
    BY <1>1 DEF Moves
  <2>. QED
    BY <2>1, <2>2 DEF Ends, Owner, StageOf
<1>3. CASE holder = r
  <2>. DEFINE m == run[r]
              n == run'[r]
              last == Place("recommendation_publish")
  <2>. SUFFICES ASSUME "trace" \notin late', trace'.status = "SUCCESS", n.pc \notin {"end", "stopRead"} \cup Over
                PROVE  n.pc \in Staged /\ Place(StageOf(n)) >= last
    BY <1>1, <1>3 DEF Moves, Ends, Owner
  <2>1. late' = late /\ holder' = r
    BY <1>1, <1>3 DEF WriteMarks, Moves
  <2>2. m \in RunRow /\ n \in RunRow /\ Fits(m) /\ Fits(n) /\ n.command = m.command
    BY <1>1 DEF Types, Flow
  <2>3. last = 12 /\ Place("recommendation_select") = 11
    BY Numbers
  <2>4. CASE trace.status # "SUCCESS"
    <3>1. m.pc = "complete" /\ n.pc = "publish"
      BY <2>4, TraceWrites DEF Over
    <3>2. StageOf(n) = "recommendation_publish" /\ n.pc \in Staged
      BY <2>2, <3>1 DEF Fits, Staged, Ahead
    <3>. QED
      BY <2>3, <3>2
  <2>5. CASE trace.status = "SUCCESS"
    <3>1. \/ m.pc \in {"off", "end", "stopRead"} \cup Over
          \/ m.pc \in Staged /\ Place(StageOf(m)) >= last
      BY <1>3, <2>1, <2>5 DEF Ends, Owner
    <3>2. CASE Cut(r)
      BY <3>1, <3>2 DEF Cut, Live, Over
    <3>3. CASE CopyFlow(r) \/ OpenFlow(r) \/ JudgeFlow(r)
      BY <2>5, <3>1, <3>3 DEF CopyFlow, OpenFlow, JudgeFlow, Opening, Staged, Ahead, Over
    <3>4. CASE EnterFlow(r) \/ ExecuteFlow(r) \/ CommitFlow(r) \/ ErrorFlow(r)
      <4>1. m.pc \in Staged /\ Place(StageOf(m)) >= last
        BY <3>1, <3>4 DEF EnterFlow, ExecuteFlow, CommitFlow, ErrorFlow, Staged, Ahead, Judging, Over
      <4>2. CASE n.pc \in Staged /\ n.i = m.i
        BY <2>2, <4>1, <4>2 DEF StageOf
      <4>3. CASE n.pc = "judge" /\ n.i = m.i
        <5>1. StageOf(n) = "recommendation_select" /\ StageOf(n) = StageOf(m)
          BY <2>2, <4>3 DEF Fits, Judging, StageOf
        <5>. QED
          BY <2>3, <4>1, <5>1
      <4>4. CASE n.pc = "upstream" /\ n.i = m.i + 1
        <5>1. m.i \in 1 .. Len(Plan(m.command)) /\ n.i \in 1 .. Len(Plan(m.command)) /\ m.command \in Commands
          BY <2>2, <4>1, <4>4 DEF Fits, Staged, Ahead
        <5>2. m.i < n.i
          BY <4>4, <5>1
        <5>3. Place(StageOf(m)) < Place(StageOf(n)) /\ Place(StageOf(m)) \in 1 .. 14 /\ Place(StageOf(n)) \in 1 .. 14
          BY <2>2, <5>1, <5>2, PlanFacts, EarlierInPlan DEF StageOf
        <5>. QED
          BY <2>3, <4>1, <4>4, <5>3 DEF Staged
      <4>5. \/ n.pc \in Staged /\ n.i = m.i
            \/ n.pc = "judge" /\ n.i = m.i
            \/ n.pc = "upstream" /\ n.i = m.i + 1
        BY <3>4 DEF EnterFlow, ExecuteFlow, CommitFlow, ErrorFlow, StagesOn, Stays, Bears, Staged, Ahead
      <4>. QED
        BY <4>2, <4>3, <4>4, <4>5
    <3>. QED
      BY <1>1, <3>2, <3>3, <3>4, EndFlowOver DEF Flow
  <2>. QED
    BY <2>4, <2>5
<1>. QED
  BY <1>2, <1>3

\* At first nobody holds the lease.
LEMMA InitFinals == Init => Finals
BY NoneAssumption DEF Init, Finals, Marks, Ends

\* Every step keeps both, the start of a run too.
LEMMA NextFinals ==
  ASSUME Types, Finals, [Next]_vars
  PROVE  Finals'
<1>1. ASSUME NEW r \in Runs, Begin(r)
      PROVE  Finals'
  <2>1. /\ holder' = r /\ UNCHANGED store
        /\ \/ run'[r].pc = "done" \/ (run'[r].pc \in {"openRead", "copyRead"} /\ trace.status # "SUCCESS")
    BY <1>1, BeginMoves DEF Begin
  <2>. QED
    BY <2>1 DEF Finals, Marks, Ends, Owner, Over, store
<1>2. CASE UNCHANGED vars
  BY <1>2 DEF vars, Finals, Marks, Ends, Owner, StageOf
<1>. QED
  BY <1>1, <1>2, MarksKept, EndsKept DEF Next, Steps, Finals

\* One step takes back no final status, of a stage or of the trace.
LEMMA FinalStep ==
  ASSUME Types, Finals, [Next]_vars
  PROVE  /\ "step" \notin late' => \A s \in Stages : step[s] \in {"SUCCESS", "FAILED"} => step'[s] = step[s]
         /\ "trace" \notin late' => (trace.status = "SUCCESS" => trace'.status = "SUCCESS")
<1>. DEFINE Final == /\ "step" \notin late' => \A s \in Stages : step[s] \in {"SUCCESS", "FAILED"} => step'[s] = step[s]
                     /\ "trace" \notin late' => (trace.status = "SUCCESS" => trace'.status = "SUCCESS")
<1>1. CASE UNCHANGED vars
  BY <1>1 DEF vars
<1>2. ASSUME NEW r \in Runs, Begin(r)
      PROVE  Final
  BY <1>2 DEF Begin, store
<1>3. ASSUME NEW r \in Runs, Steps(r), holder # r
      PROVE  Final
  BY <1>3, Strangers
<1>4. ASSUME NEW r \in Runs, Steps(r), holder = r
      PROVE  Final
  <2>1. late' = late
    BY <1>4, StepMarks DEF WriteMarks
  <2>2. ASSUME "step" \notin late', NEW s \in Stages, step[s] \in {"SUCCESS", "FAILED"}
        PROVE  step'[s] = step[s]
    <3>1. CASE step' = step
      BY <3>1
    <3>2. CASE step' # step
      <4>1. /\ run[r].pc \in {"enterWrite", "artifactWrite", "artifactCommit", "finishWrite", "markWrite"}
            /\ run[r].pc \in Staged
        BY <1>4, <3>2, StepWrites DEF Staged, Ahead
      <4>2. Stage(r) = StageOf(run[r]) /\ Stage(r) \in Stages /\ step \in [Stages -> StepStatus]
        BY <4>1, AtStage DEF Types
      <4>3. PICK status \in {"RUNNING", "SUCCESS", "FAILED"} :
              /\ step' = [step EXCEPT ![Stage(r)] = status]
              /\ run[r].pc \in {"enterWrite", "artifactWrite"} <=> status = "RUNNING"
              /\ run[r].pc \in {"artifactCommit", "finishWrite"} <=> status = "SUCCESS"
              /\ run[r].pc = "markWrite" <=> status = "FAILED"
        BY <1>4, <3>2, StepWrites
      <4>4. CASE Stage(r) # s
        BY <4>2, <4>3, <4>4
      <4>5. CASE Stage(r) = s
        <5>1. /\ run[r].pc = "enterWrite" => step[s] \in {"absent", "PENDING", "RUNNING"}
              /\ run[r].pc \in {"artifactWrite", "artifactCommit"} => step[s] = "RUNNING"
              /\ run[r].pc = "finishWrite" => step[s] \in {"RUNNING", "SUCCESS"}
              /\ run[r].pc = "markWrite" => step[s] # "SUCCESS"
          BY <1>4, <2>1, <2>2, <4>2, <4>5 DEF Finals, Marks, Owner
        <5>. QED
          BY <2>2, <4>1, <4>2, <4>3, <4>5, <5>1
      <4>. QED
        BY <4>4, <4>5
    <3>. QED
      BY <3>1, <3>2
  <2>3. ASSUME "trace" \notin late', trace.status = "SUCCESS"
        PROVE  trace'.status = "SUCCESS"
    <3>1. \/ run[r].pc \in {"off", "end", "stopRead"} \cup Over
          \/ run[r].pc \in Staged /\ Place(StageOf(run[r])) >= Place("recommendation_publish")
      BY <1>4, <2>1, <2>3 DEF Finals, Ends, Owner
    <3>2. run[r].pc \notin {"openWrite", "judgeEmpty", "stopWrite", "empty"}
      <4>1. run[r].pc = "empty" => StageOf(run[r]) = "recommendation_select"
        BY DEF Types, Fits
      <4>. QED
        BY <3>1, <4>1, Numbers DEF Staged, Ahead, Over
    <3>. QED
      BY <1>4, <2>3, <3>2, TraceWrites
  <2>. QED
    BY <2>2, <2>3
<1>. QED
  BY <1>1, <1>2, <1>3, <1>4 DEF Next, Steps

\* What the holder has read of a status still holds when it writes, unless a run
\* that another one had succeeded has written there.
LEMMA FinalsHold == Spec => [](Types /\ Finals)
<1>1. Init => Types /\ Finals
  BY InitTypes, InitFinals
<1>2. Types /\ Finals /\ [Next]_vars => (Types /\ Finals)'
  BY NextTypes, NextFinals
<1>. QED
  BY <1>1, <1>2, PTL DEF Spec

\* SUCCESS and FAILED of a stage and SUCCESS of the trace are final, unless a run
\* that another one has succeeded writes there.
THEOREM FinalIsFinal == Spec => FinalUnlessLate
<1>1. Types /\ Finals /\ [Next]_vars =>
        [/\ "step" \notin late' => \A s \in Stages : step[s] \in {"SUCCESS", "FAILED"} => step'[s] = step[s]
         /\ "trace" \notin late' => (trace.status = "SUCCESS" => trace'.status = "SUCCESS")]_vars
  BY FinalStep
<1>. QED
  BY <1>1, FinalsHold, PTL DEF Spec, FinalUnlessLate

-----------------------------------------------------------------------------
(* Sets of artifacts *)

\* A set of artifacts in which every stage that is there has a newest one.
Ledger(A) ==
  /\ A \subseteq ArtifactRow
  /\ \A a, b \in A : a.stage = b.stage /\ a.version = b.version => a = b
  /\ \A a \in A : \E b \in A : b.stage = a.stage /\ \A c \in A : c.stage = a.stage => c.version <= b.version

Has(A, s) == \E a \in A : a.stage = s
Newest(A, s) == CHOOSE a \in A : a.stage = s /\ \A b \in A : b.stage = s => b.version <= a.version

\* What a stage would find of its dependencies, and one that was built on it.
Found(A, s) == [d \in Dependencies[s] |-> Newest(A, d).content]
Built(A, s) == Has(A, s) /\ (\A d \in Dependencies[s] : Has(A, d)) /\ Newest(A, s).upstream = Found(A, s)

\* As in the source trace.
Copy(A, s) == Has(A, s) /\ Newest(A, s).content = None

\* Every artifact was built on artifacts that are there, and only the first of a
\* stage whose output differs can be a copy.
Books(A) ==
  \A a \in A :
    /\ a.version >= 1 /\ DOMAIN a.upstream = Dependencies[a.stage]
    /\ \A d \in Dependencies[a.stage] : \E b \in A : b.stage = d /\ b.content = a.upstream[d]
    /\ a.stage \notin Varying => a.content = None
    /\ a.stage \in Varying /\ a.content = None => a.version = 1

\* A stage that is there has a newest artifact.
LEMMA NewestIs ==
  ASSUME NEW A, Ledger(A), NEW s, Has(A, s)
  PROVE  /\ Newest(A, s) \in A /\ Newest(A, s).stage = s
         /\ \A b \in A : b.stage = s => b.version <= Newest(A, s).version
<1>1. PICK a \in A : a.stage = s
  BY DEF Has
<1>2. PICK b \in A : b.stage = s /\ \A c \in A : c.stage = s => c.version <= b.version
  BY <1>1 DEF Ledger
<1>. QED
  BY <1>2 DEF Newest

\* There is only one.
LEMMA NewestOnly ==
  ASSUME NEW A, Ledger(A), NEW a \in A, \A b \in A : b.stage = a.stage => b.version <= a.version
  PROVE  Has(A, a.stage) /\ Newest(A, a.stage) = a
<1>1. Has(A, a.stage)
  BY DEF Has
<1>. DEFINE n == Newest(A, a.stage)
<1>2. n \in A /\ n.stage = a.stage /\ \A b \in A : b.stage = a.stage => b.version <= n.version
  BY <1>1, NewestIs
<1>. HIDE DEF n
<1>3. n.version = a.version
  BY <1>2 DEF Ledger, ArtifactRow
<1>4. n = a
  BY <1>2, <1>3 DEF Ledger
<1>. QED
  BY <1>1, <1>4 DEF n

\* Artifacts of another stage do not change it.
LEMMA NewestKept ==
  ASSUME NEW A, NEW a, Ledger(A), Ledger(A \cup {a}), NEW s, Has(A, s), a.stage # s
  PROVE  Has(A \cup {a}, s) /\ Newest(A \cup {a}, s) = Newest(A, s)
<1>. DEFINE n == Newest(A, s)
            B == A \cup {a}
<1>1. n \in A /\ n.stage = s /\ \A b \in A : b.stage = s => b.version <= n.version
  BY NewestIs
<1>2. n \in B /\ \A b \in B : b.stage = n.stage => b.version <= n.version
  BY <1>1
<1>. HIDE DEF n
<1>3. Ledger(B)
  OBVIOUS
<1>. HIDE DEF B
<1>4. Has(B, n.stage) /\ Newest(B, n.stage) = n
  BY <1>2, <1>3, NewestOnly
<1>. QED
  BY <1>1, <1>4 DEF n, B

\* A new artifact leaves what neither is of its stage nor depends on it.
LEMMA BuiltKept ==
  ASSUME NEW A, NEW a, Ledger(A), Ledger(A \cup {a}), NEW s \in Stages, Built(A, s),
         a.stage # s, a.stage \notin Dependencies[s]
  PROVE  Built(A \cup {a}, s)
<1>1. Has(A \cup {a}, s) /\ Newest(A \cup {a}, s) = Newest(A, s)
  BY NewestKept DEF Built
<1>2. \A d \in Dependencies[s] : Has(A \cup {a}, d) /\ Newest(A \cup {a}, d) = Newest(A, d)
  BY NewestKept DEF Built
<1>3. Found(A \cup {a}, s) = Found(A, s)
  BY <1>2 DEF Found
<1>. QED
  BY <1>1, <1>2, <1>3 DEF Built

\* Nor what is found, if they are of no dependency.
LEMMA FoundKept ==
  ASSUME NEW A, NEW a, Ledger(A), Ledger(A \cup {a}), NEW s, \A d \in Dependencies[s] : Has(A, d),
         a.stage \notin Dependencies[s]
  PROVE  Found(A \cup {a}, s) = Found(A, s) /\ \A d \in Dependencies[s] : Has(A \cup {a}, d)
<1>1. \A d \in Dependencies[s] : Has(A \cup {a}, d) /\ Newest(A \cup {a}, d) = Newest(A, d)
  BY NewestKept
<1>. QED
  BY <1>1 DEF Found

\* A stage that is copied, and all that it depends on as well, was built on them.
LEMMA CopyIsBuilt ==
  ASSUME NEW A, Ledger(A), Books(A), NEW s, Copy(A, s), \A d \in Dependencies[s] : Copy(A, d)
  PROVE  Built(A, s)
<1>. DEFINE a == Newest(A, s)
<1>1. a \in A /\ a.stage = s
  BY NewestIs DEF Copy
<1>2. ASSUME NEW d \in Dependencies[s]
      PROVE  a.upstream[d] = Newest(A, d).content
  <2>. DEFINE n == Newest(A, d)
  <2>1. n \in A /\ n.stage = d /\ n.content = None /\ \A b \in A : b.stage = d => b.version <= n.version
    BY NewestIs DEF Copy
  <2>2. PICK b \in A : b.stage = d /\ b.content = a.upstream[d]
    BY <1>1 DEF Books
  <2>. HIDE DEF n, a
  <2>3. CASE d \notin Varying
    BY <2>1, <2>2, <2>3 DEF Books, n
  <2>4. CASE d \in Varying
    <3>1. n.version = 1 /\ b.version >= 1 /\ b.version <= n.version /\ b.version \in Nat
      BY <2>1, <2>2, <2>4 DEF Books, Ledger, ArtifactRow
    <3>2. b = n
      BY <2>1, <2>2, <3>1 DEF Ledger
    <3>. QED
      BY <2>2, <3>2 DEF n
  <2>. QED
    BY <2>3, <2>4
<1>3. DOMAIN a.upstream = Dependencies[s] /\ a.upstream \in Upstreams
  BY <1>1 DEF Books, Ledger, ArtifactRow
<1>. HIDE DEF a
<1>4. a.upstream = Found(A, s)
  <2>1. a.upstream = [d \in Dependencies[s] |-> a.upstream[d]]
    BY <1>3 DEF Upstreams
  <2>. QED
    BY <1>2, <2>1 DEF Found
<1>. QED
  BY <1>4 DEF Built, Copy, a

\* The model's operators, of what is stored.
LEMMA StoredIs ==
  ASSUME Types
  PROVE  /\ Ledger(artifacts)
         /\ \A s : Stored(s) <=> Has(artifacts, s)
         /\ \A s : Stored(s) => Latest(s) = Newest(artifacts, s)
         /\ \A s : (\A d \in Dependencies[s] : Has(artifacts, d)) => UpstreamOf(s) = Found(artifacts, s)
<1>1. Ledger(artifacts)
  BY DEF Types, Ledger, Numbered
<1>2. \A s : Stored(s) <=> Has(artifacts, s)
  BY DEF Stored, VersionsOf, Has
<1>3. ASSUME NEW s, Stored(s)
      PROVE  Latest(s) = Newest(artifacts, s)
  <2>. DEFINE a == Latest(s)
  <2>1. a \in artifacts /\ a.stage = s /\ \A v \in VersionsOf(s) : v <= a.version
    BY <1>3, LatestIs
  <2>2. \A b \in artifacts : b.stage = s => b.version \in VersionsOf(s)
    BY DEF VersionsOf
  <2>. HIDE DEF a
  <2>3. \A b \in artifacts : b.stage = a.stage => b.version <= a.version
    BY <2>1, <2>2
  <2>4. Newest(artifacts, a.stage) = a
    BY <1>1, <2>1, <2>3, NewestOnly
  <2>. QED
    BY <2>1, <2>4 DEF a
<1>4. ASSUME NEW s, \A d \in Dependencies[s] : Has(artifacts, d)
      PROVE  UpstreamOf(s) = Found(artifacts, s)
  <2>1. {e \in Dependencies[s] : Stored(e)} = Dependencies[s]
    BY <1>2, <1>4
  <2>2. \A d \in Dependencies[s] : Latest(d) = Newest(artifacts, d)
    BY <1>2, <1>3, <1>4
  <2>. QED
    BY <2>1, <2>2 DEF UpstreamOf, Found
<1>. QED
  BY <1>1, <1>2, <1>3, <1>4

-----------------------------------------------------------------------------
(* The run that the lease row names *)

\* What a run knows of the artifacts while nobody else writes them: of its copies,
\* before and after it has made them; of the stages of its plan that are behind
\* it; of its stage when that is committed or reused; what it has read of the
\* dependencies; and that its version is new.
Copies1(A, m) ==
  /\ m.pc \in Copying => \A j \in 1 .. Len(Copies(m.command)) : j < m.i => Copy(A, Copies(m.command)[j])
  /\ m.pc = "copyWrite" => ~Has(A, CopyOf(m))
Copies2(A, m) ==
  m.pc \in Opening \cup Staged \cup Judging => \A j \in 1 .. Len(Copies(m.command)) : Built(A, Copies(m.command)[j])
Behind(A, m) ==
  m.pc \in Staged \cup Judging => \A j \in 1 .. Len(Plan(m.command)) : j < m.i => Built(A, Plan(m.command)[j])
Done(A, m) == m.pc \in {"finishRead", "finishWrite"} \cup Judging => Built(A, StageOf(m))
Reading(A, m) == m.pc \in Ahead \cup {"latest"} => m.upstream = Found(A, StageOf(m))
Numbering(A, m) ==
  m.pc \in Ahead => m.version >= 1 /\ \A a \in A : a.stage = StageOf(m) => a.version < m.version

Leading(A, m) == Copies1(A, m) /\ Copies2(A, m) /\ Behind(A, m) /\ Done(A, m) /\ Reading(A, m) /\ Numbering(A, m)

\* Whatever precedes the stage is there.
LEMMA EarlierBuilt ==
  ASSUME NEW A, NEW m, Copies2(A, m), Behind(A, m), m.pc \in Staged \cup Judging, m.command \in Commands,
         m.i \in 1 .. Len(Plan(m.command))
  PROVE  /\ StageOf(m) \in Stages
         /\ \A t \in Stages : Place(t) < Place(StageOf(m)) => Built(A, t)
         /\ \A d \in Dependencies[StageOf(m)] : Has(A, d)
<1>1. StageOf(m) \in Stages
  BY PlanFacts, EarlierInPlan DEF StageOf
<1>2. ASSUME NEW t \in Stages, Place(t) < Place(StageOf(m))
      PROVE  Built(A, t)
  <2>1. \/ \E j \in 1 .. Len(Plan(m.command)) : j < m.i /\ Plan(m.command)[j] = t
        \/ \E j \in 1 .. Len(Copies(m.command)) : Copies(m.command)[j] = t
    BY <1>2, PlanFacts DEF StageOf
  <2>. QED
    BY <2>1 DEF Copies2, Behind
<1>3. \A d \in Dependencies[StageOf(m)] : Has(A, d)
  BY <1>1, <1>2, DependenciesEarlier DEF Built
<1>. QED
  BY <1>1, <1>2, <1>3

\* Copies that are as in the source trace were built on one another.
LEMMA CopiesAreBuilt ==
  ASSUME NEW A, Ledger(A), Books(A), NEW c \in Commands, \A j \in 1 .. Len(Copies(c)) : Copy(A, Copies(c)[j])
  PROVE  \A j \in 1 .. Len(Copies(c)) : Built(A, Copies(c)[j])
<1>. SUFFICES ASSUME NEW j \in 1 .. Len(Copies(c))
              PROVE  Built(A, Copies(c)[j])
  OBVIOUS
<1>1. \A d \in Dependencies[Copies(c)[j]] : \E k \in 1 .. Len(Copies(c)) : Copies(c)[k] = d
  BY PlanFacts
<1>2. \A d \in Dependencies[Copies(c)[j]] : Copy(A, d)
  BY <1>1
<1>. QED
  BY <1>2, CopyIsBuilt

\* A step of the holder adds its copy, its commit, or nothing.
LEMMA ArtifactFlow ==
  ASSUME Types, NEW r \in Runs, Steps(r)
  PROVE  \/ artifacts' = artifacts
         \/ /\ run[r].pc = "copyWrite" /\ CopiesOn(r) /\ run'[r].command = run[r].command
            /\ run[r].command \in Commands /\ run[r].i \in 1 .. Len(Copies(run[r].command))
            /\ CopyRow(CopyOf(run[r])) \in ArtifactRow /\ artifacts' = artifacts \cup {CopyRow(CopyOf(run[r]))}
         \/ /\ run[r].pc = "commitWrite" /\ run'[r].pc = "finishRead" /\ Stays(r) /\ run'[r].command = run[r].command
            /\ CommitRow(r) \in ArtifactRow /\ artifacts' = artifacts \cup {CommitRow(r)}
<1>1. CASE CopyWrite(r) /\ artifacts' # artifacts
  <2>1. /\ run[r].pc = "copyWrite" /\ run[r].pc \in Copying /\ run'[r] = NextCopy(r)
        /\ run[r].command \in Commands /\ run[r].i \in 1 .. Len(Copies(run[r].command))
        /\ CopyRow(CopyOf(run[r])) \in ArtifactRow /\ artifacts' = artifacts \cup {CopyRow(CopyOf(run[r]))}
    BY <1>1, CopyWrites DEF Copying
  <2>2. CopiesOn(r) /\ run'[r].command = run[r].command
    BY <2>1, NextCopyRow DEF CopiesOn
  <2>. QED
    BY <2>1, <2>2
<1>2. CASE CommitWrite(r) /\ artifacts' # artifacts
  <2>1. /\ run[r].pc = "commitWrite" /\ run'[r] = [run[r] EXCEPT !.pc = "finishRead"]
        /\ CommitRow(r) \in ArtifactRow /\ artifacts' = artifacts \cup {CommitRow(r)}
    BY <1>2, CommitWrites
  <2>2. run'[r].pc = "finishRead" /\ run'[r].i = run[r].i /\ run'[r].command = run[r].command
    BY <2>1 DEF Types, RunRow
  <2>. QED
    BY <2>1, <2>2 DEF Stays
<1>. QED
  BY <1>1, <1>2, Writers

\* A step that writes no artifact.
LEMMA LeadingQuiet ==
  ASSUME Types, NEW r \in Runs, Steps(r), artifacts' = artifacts, Leading(artifacts, run[r]), Books(artifacts)
  PROVE  Leading(artifacts, run'[r])
<1>. DEFINE m == run[r]
            n == run'[r]
            A == artifacts
<1>1. Flow(r) /\ m \in RunRow /\ n \in RunRow /\ Fits(m) /\ Fits(n)
  BY Flows, NextTypes DEF Types, Next, Steps
<1>2. Ledger(A) /\ Leading(A, m) /\ Books(A)
  BY StoredIs
<1>3. /\ n.command = m.command
      /\ m.pc \in Staged \cup Judging => Stage(r) = StageOf(m) /\ m.command \in Commands /\ m.i \in 1 .. Len(Plan(m.command))
      /\ m.i \in Nat
  BY <1>1, AtStage DEF Flow, RunRow
<1>4. /\ \A s : Stored(s) <=> Has(A, s)
      /\ \A s : Stored(s) => Latest(s) = Newest(A, s)
      /\ \A s : (\A d \in Dependencies[s] : Has(A, d)) => UpstreamOf(s) = Found(A, s)
  BY StoredIs
<1>5. m.pc \in Staged \cup Judging => \A d \in Dependencies[StageOf(m)] : Has(A, d)
  BY <1>2, <1>3, EarlierBuilt DEF Leading
<1>6. CASE Cut(r)
  BY <1>2, <1>6 DEF Cut
<1>7. CASE n.pc \in Over \cup Closing
  BY <1>7 DEF Over, Closing, Leading, Copies1, Copies2, Behind, Done, Reading, Numbering,
              Copying, Opening, Staged, Ahead, Judging
<1>8. CASE CopyFlow(r)
  <2>1. m.pc \in Copying /\ Copied(r) = CopyOf(m)
    BY <1>8 DEF CopyFlow, Copying, Copied, CopyOf
  <2>2. m.command \in Commands /\ m.i \in 1 .. Len(Copies(m.command)) /\ Len(Copies(m.command)) \in Nat
    BY <1>1, <2>1, PlanFacts DEF Fits, Copying
  <2>3. \A j \in 1 .. Len(Copies(m.command)) : j < m.i => Copy(A, Copies(m.command)[j])
    BY <1>2, <2>1 DEF Leading, Copies1
  <2>4. CASE m.pc = "copyRead" /\ n.pc = "copyWrite" /\ n.i = m.i /\ ~Stored(Copied(r))
    <3>1. CopyOf(n) = Copied(r)
      BY <1>3, <2>1, <2>4 DEF CopyOf
    <3>. QED
      BY <1>3, <1>4, <2>3, <2>4, <3>1 DEF Leading, Copies1, Copies2, Behind, Done, Reading, Numbering,
                                     Copying, Opening, Staged, Ahead, Judging
  <2>5. CASE CopiesOn(r) /\ Stored(Copied(r)) /\ Latest(Copied(r)).content = None
    <3>1. Copy(A, Copies(m.command)[m.i])
      BY <1>4, <2>1, <2>5 DEF Copy, CopyOf
    <3>2. \A j \in 1 .. Len(Copies(m.command)) : j <= m.i => Copy(A, Copies(m.command)[j])
      BY <2>2, <2>3, <3>1
    <3>3. CASE n.pc = "carry" /\ m.i = Len(Copies(m.command))
      <4>1. \A j \in 1 .. Len(Copies(m.command)) : Copy(A, Copies(m.command)[j])
        BY <2>2, <3>2, <3>3
      <4>2. \A j \in 1 .. Len(Copies(m.command)) : Built(A, Copies(m.command)[j])
        BY <1>2, <2>2, <4>1, CopiesAreBuilt
      <4>. QED
        BY <1>3, <3>3, <4>2 DEF Leading, Copies1, Copies2, Behind, Done, Reading, Numbering,
                           Copying, Opening, Staged, Ahead, Judging
    <3>4. CASE n.pc = "copyRead" /\ n.i = m.i + 1
      <4>1. \A j \in 1 .. Len(Copies(m.command)) : j < n.i => Copy(A, Copies(m.command)[j])
        BY <2>2, <3>2, <3>4
      <4>. QED
        BY <1>3, <3>4, <4>1 DEF Leading, Copies1, Copies2, Behind, Done, Reading, Numbering,
                           Copying, Opening, Staged, Ahead, Judging
    <3>. QED
      BY <2>5, <3>3, <3>4 DEF CopiesOn
  <2>6. CASE Keyed(Copied(r), 1) = {} /\ artifacts' = artifacts \cup {CopyRow(Copied(r))}
    <3>. DEFINE a == CopyRow(Copied(r))
    <3>1. a \in artifacts /\ a.stage = Copied(r) /\ a.version = 1
      BY <2>6 DEF CopyRow
    <3>. HIDE DEF a
    <3>. QED
      BY <2>6, <3>1 DEF Keyed
  <2>. QED
    BY <1>8, <2>4, <2>5, <2>6 DEF CopyFlow, Stays
<1>9. CASE OpenFlow(r)
  <2>1. m.pc \in Opening /\ n.pc \in Opening \cup {"upstream"} /\ n.i = 1
    BY <1>9 DEF OpenFlow
  <2>2. \A j \in 1 .. Len(Copies(n.command)) : Built(A, Copies(n.command)[j])
    BY <1>2, <1>3, <2>1 DEF Leading, Copies2
  <2>3. \A j \in 1 .. Len(Plan(n.command)) : ~(j < n.i)
    BY <2>1
  <2>. QED
    BY <2>1, <2>2, <2>3 DEF Leading, Copies1, Copies2, Behind, Done, Reading, Numbering,
                            Copying, Opening, Staged, Ahead, Judging
<1>10. CASE m.pc \in Staged \cup Judging /\ n.pc \in Staged \cup Judging
  <2>1. \A j \in 1 .. Len(Copies(n.command)) : Built(A, Copies(n.command)[j])
    BY <1>2, <1>3, <1>10 DEF Leading, Copies2
  <2>2. \A j \in 1 .. Len(Plan(m.command)) : j < m.i => Built(A, Plan(m.command)[j])
    BY <1>2, <1>10 DEF Leading, Behind
  <2>3. Copies1(A, n) /\ Copies2(A, n)
    BY <1>10, <2>1 DEF Copies1, Copies2, Copying, Staged, Ahead, Judging
  <2>4. Stage(r) = StageOf(m) /\ m.command \in Commands /\ m.i \in 1 .. Len(Plan(m.command))
    BY <1>3, <1>10
  <2>5. CASE n.i = m.i
    <3>1. StageOf(n) = StageOf(m)
      BY <1>3, <2>5 DEF StageOf
    <3>2. Behind(A, n)
      BY <1>3, <2>2, <2>5 DEF Behind
    <3>3. CASE n.pc \in {"upstream", "markRead", "markWrite"}
      BY <2>3, <3>2, <3>3 DEF Leading, Done, Reading, Numbering, Ahead, Judging
    <3>4. CASE n.pc = "latest" /\ n.upstream = UpstreamOf(Stage(r))
      BY <1>4, <1>5, <1>10, <2>3, <2>4, <3>1, <3>2, <3>4 DEF Leading, Done, Reading, Numbering, Ahead, Judging
    <3>5. CASE m.pc = "latest" /\ n.pc = "judge" /\ Stored(Stage(r)) /\ Latest(Stage(r)).upstream = m.upstream
      <4>1. m.upstream = Found(A, StageOf(m))
        BY <1>2, <3>5 DEF Leading, Reading
      <4>2. Built(A, StageOf(n))
        BY <1>4, <1>5, <1>10, <2>4, <3>1, <3>5, <4>1 DEF Built
      <4>. QED
        BY <2>3, <3>2, <3>5, <4>2 DEF Leading, Done, Reading, Numbering, Ahead, Judging
    <3>6. CASE /\ m.pc = "latest" /\ n.pc = "enterRead" /\ n.upstream = m.upstream
               /\ n.version = IF Stored(Stage(r)) THEN Latest(Stage(r)).version + 1 ELSE 1
      <4>1. n.upstream = Found(A, StageOf(n))
        BY <1>2, <3>1, <3>6 DEF Leading, Reading
      <4>2. n.version >= 1 /\ \A a \in A : a.stage = StageOf(n) => a.version < n.version
        <5>1. CASE Has(A, StageOf(m))
          <6>. DEFINE w == Newest(A, StageOf(m))
          <6>1. w \in A /\ w.stage = StageOf(m) /\ \A b \in A : b.stage = StageOf(m) => b.version <= w.version
            BY <1>2, <5>1, NewestIs
          <6>2. n.version = w.version + 1
            BY <1>4, <2>4, <3>6, <5>1
          <6>. HIDE DEF w
          <6>3. \A b \in A : b.version \in Nat
            BY <1>2 DEF Ledger, ArtifactRow
          <6>. QED
            BY <3>1, <6>1, <6>2, <6>3
        <5>2. CASE ~Has(A, StageOf(m))
          BY <1>4, <2>4, <3>1, <3>6, <5>2 DEF Has
        <5>. QED
          BY <5>1, <5>2
      <4>. QED
        BY <2>3, <3>2, <3>6, <4>1, <4>2 DEF Leading, Done, Reading, Numbering, Ahead, Judging
    <3>7. CASE m.pc \in Ahead /\ n.pc \in Ahead /\ n.upstream = m.upstream /\ n.version = m.version
      <4>1. n.upstream = Found(A, StageOf(n)) /\ n.version >= 1 /\ \A a \in A : a.stage = StageOf(n) => a.version < n.version
        BY <1>2, <3>1, <3>7 DEF Leading, Reading, Numbering
      <4>. QED
        BY <2>3, <3>2, <3>7, <4>1 DEF Leading, Done, Reading, Numbering, Ahead, Judging
    <3>8. CASE m.pc \in {"finishRead", "finishWrite"} \cup Judging /\ n.pc \in {"finishWrite"} \cup Judging
      <4>1. Built(A, StageOf(n))
        BY <1>2, <3>1, <3>8 DEF Leading, Done
      <4>. QED
        BY <2>3, <3>2, <3>8, <4>1 DEF Leading, Done, Reading, Numbering, Ahead, Judging
    <3>9. CASE m.pc \in Ahead /\ Keyed(Stage(r), m.version) # {}
      <4>1. \A a \in A : a.stage = StageOf(m) => a.version < m.version
        BY <1>2, <3>9 DEF Leading, Numbering
      <4>2. \A a \in A : a.version \in Nat
        BY <1>2 DEF Ledger, ArtifactRow
      <4>. QED
        BY <2>4, <3>9, <4>1, <4>2 DEF Keyed
    <3>10. CASE /\ m.pc = "commitWrite" /\ n.pc = "finishRead"
                /\ Keyed(Stage(r), m.version) = {} /\ artifacts' = artifacts \cup {CommitRow(r)}
      <4>1. CommitRow(r) \in artifacts /\ CommitRow(r).stage = Stage(r) /\ CommitRow(r).version = m.version
        BY <3>10 DEF CommitRow
      <4>. QED
        BY <3>10, <4>1 DEF Keyed
    <3>0. n.i # m.i + 1 /\ n.pc # "end"
      BY <1>3, <1>10, <2>5 DEF Staged, Ahead, Judging
    <3>11. CASE EnterFlow(r)
      <4>1. \/ n.pc = "latest" /\ n.upstream = UpstreamOf(Stage(r))
            \/ m.pc = "latest" /\ n.pc = "judge" /\ Stored(Stage(r)) /\ Latest(Stage(r)).upstream = m.upstream
            \/ /\ m.pc = "latest" /\ n.pc = "enterRead" /\ n.upstream = m.upstream
               /\ n.version = IF Stored(Stage(r)) THEN Latest(Stage(r)).version + 1 ELSE 1
            \/ m.pc \in Ahead /\ n.pc \in Ahead /\ n.upstream = m.upstream /\ n.version = m.version
        BY <3>0, <3>11 DEF EnterFlow, StagesOn, Bears, Ahead
      <4>. QED
        BY <3>4, <3>5, <3>6, <3>7, <4>1
    <3>12. CASE ExecuteFlow(r)
      BY <3>7, <3>12 DEF ExecuteFlow, Bears, Ahead
    <3>13. CASE CommitFlow(r)
      <4>1. \/ m.pc \in Ahead /\ Keyed(Stage(r), m.version) # {}
            \/ /\ m.pc = "commitWrite" /\ n.pc = "finishRead"
               /\ Keyed(Stage(r), m.version) = {} /\ artifacts' = artifacts \cup {CommitRow(r)}
            \/ m.pc \in {"finishRead", "finishWrite"} /\ n.pc \in {"finishWrite"} \cup Judging
        BY <3>0, <3>13 DEF CommitFlow, StagesOn, Ahead, Judging
      <4>. QED
        BY <3>8, <3>9, <3>10, <4>1
    <3>14. CASE ErrorFlow(r) \/ JudgeFlow(r)
      BY <1>10, <3>3, <3>8, <3>14, <2>5 DEF ErrorFlow, JudgeFlow, Staged, Ahead, Judging
    <3>. QED
      BY <1>1, <1>6, <1>7, <1>8, <1>9, <3>11, <3>12, <3>13, <3>14, EndFlowOver DEF Flow
  <2>6. CASE n.pc = "upstream" /\ n.i = m.i + 1 /\ Built(A, StageOf(m))
    <3>1. \A j \in 1 .. Len(Plan(m.command)) : j < n.i => j < m.i \/ j = m.i
      BY <2>4, <2>6
    <3>2. Behind(A, n)
      BY <1>3, <2>2, <2>6, <3>1 DEF Behind, StageOf
    <3>. QED
      BY <2>3, <2>6, <3>2 DEF Leading, Done, Reading, Numbering, Ahead, Judging
  <2>7. CASE n.pc = "upstream" /\ n.i = m.i + 1 /\ m.pc \in {"finishWrite"} \cup Judging
    <3>1. Built(A, StageOf(m))
      BY <1>2, <2>7 DEF Leading, Done
    <3>. QED
      BY <2>6, <2>7, <3>1
  <2>8. CASE /\ n.pc = "upstream" /\ n.i = m.i + 1 /\ m.pc = "latest"
             /\ Stored(Stage(r)) /\ Latest(Stage(r)).upstream = m.upstream
    <3>1. m.upstream = Found(A, StageOf(m))
      BY <1>2, <2>8 DEF Leading, Reading
    <3>2. Built(A, StageOf(m))
      BY <1>4, <1>5, <1>10, <2>4, <2>8, <3>1 DEF Built
    <3>. QED
      BY <2>6, <2>8, <3>2
  <2>9. CASE n.i # m.i
    <3>1. \/ n.pc = "upstream" /\ n.i = m.i + 1 /\ m.pc \in {"finishWrite"} \cup Judging
          \/ /\ n.pc = "upstream" /\ n.i = m.i + 1 /\ m.pc = "latest"
             /\ Stored(Stage(r)) /\ Latest(Stage(r)).upstream = m.upstream
          \/ Cut(r) \/ n.pc \in Over \cup Closing \/ CopyFlow(r) \/ OpenFlow(r)
      BY <1>1, <2>9, EndFlowOver DEF Flow, EnterFlow, ExecuteFlow, CommitFlow, ErrorFlow, JudgeFlow, StagesOn, Stays, Bears, Judging, Closing
    <3>. QED
      BY <1>6, <1>7, <1>8, <1>9, <2>7, <2>8, <3>1
  <2>. QED
    BY <2>5, <2>9
<1>11. \/ Cut(r) \/ n.pc \in Over \cup Closing \/ CopyFlow(r) \/ OpenFlow(r)
       \/ m.pc \in Staged \cup Judging /\ n.pc \in Staged \cup Judging
  BY <1>1, EndFlowOver DEF Flow, EnterFlow, ExecuteFlow, CommitFlow, ErrorFlow, JudgeFlow, StagesOn, Staged, Ahead, Judging, Closing
<1>. QED
  BY <1>6, <1>7, <1>8, <1>9, <1>10, <1>11

\* A step that copies an artifact.
LEMMA LeadingCopy ==
  ASSUME Types, NEW r \in Runs, Steps(r), Leading(artifacts, run[r]), Books(artifacts),
         run[r].pc = "copyWrite", CopiesOn(r), run'[r].command = run[r].command,
         run[r].command \in Commands, run[r].i \in 1 .. Len(Copies(run[r].command)),
         artifacts' = artifacts \cup {CopyRow(CopyOf(run[r]))}
  PROVE  Books(artifacts') /\ Leading(artifacts', run'[r])
<1>. DEFINE m == run[r]
            n == run'[r]
            A == artifacts
            C == Copies(m.command)
            s == C[m.i]
            a == CopyRow(s)
            B == A \cup {a}
<1>1. Ledger(A) /\ Ledger(B) /\ Books(A) /\ artifacts' = B
  BY StoredIs, ArtifactTypes DEF Ledger, Numbered, CopyOf
<1>2. InOrder(C) /\ Len(C) \in Nat /\ s \in Stages
  BY PlanFacts, EarlierInPlan
<1>3. a.stage = s /\ a.version = 1 /\ a.content = None /\ a.upstream = [d \in Dependencies[s] |-> None]
  BY DEF CopyRow, Produced
<1>4. ~Has(A, s) /\ \A j \in 1 .. Len(C) : j < m.i => Copy(A, C[j])
  BY DEF Leading, Copies1, Copying, CopyOf
<1>. HIDE DEF a
<1>5. Books(B)
  <2>1. ASSUME NEW d \in Dependencies[s]
        PROVE  \E b \in B : b.stage = d /\ b.content = a.upstream[d]
    <3>1. PICK j \in 1 .. Len(C) : j < m.i /\ C[j] = d
      BY PlanFacts
    <3>2. Newest(A, d) \in A /\ Newest(A, d).stage = d /\ Newest(A, d).content = None
      BY <1>1, <1>4, <3>1, NewestIs DEF Copy
    <3>. QED
      BY <1>3, <3>2
  <2>. QED
    BY <1>1, <1>3, <2>1 DEF Books
<1>6. Copy(B, s)
  <2>1. a \in B /\ \A b \in B : b.stage = a.stage => b.version <= a.version
    BY <1>3, <1>4 DEF Has
  <2>2. Has(B, a.stage) /\ Newest(B, a.stage) = a
    BY <1>1, <2>1, NewestOnly
  <2>. QED
    BY <1>3, <2>2 DEF Copy
<1>7. \A j \in 1 .. Len(C) : j < m.i => Copy(B, C[j])
  <2>. SUFFICES ASSUME NEW j \in 1 .. Len(C), j < m.i
                PROVE  Copy(B, C[j])
    OBVIOUS
  <2>1. C[j] # s
    BY <1>2, EarlierInPlan
  <2>. QED
    BY <1>1, <1>3, <1>4, <2>1, NewestKept DEF Copy
<1>8. \A j \in 1 .. Len(C) : j <= m.i => Copy(B, C[j])
  <2>. SUFFICES ASSUME NEW j \in 1 .. Len(C), j <= m.i
                PROVE  Copy(B, C[j])
    OBVIOUS
  <2>1. j = m.i \/ j < m.i
    BY <1>2
  <2>. QED
    BY <1>6, <1>7, <2>1
<1>9. CASE n.pc = "carry" /\ m.i = Len(C)
  <2>1. \A j \in 1 .. Len(C) : j <= m.i
    BY <1>2, <1>9
  <2>2. \A j \in 1 .. Len(C) : Built(B, C[j])
    BY <1>1, <1>5, <1>8, <2>1, CopiesAreBuilt
  <2>. QED
    BY <1>1, <1>5, <1>9, <2>2 DEF Leading, Copies1, Copies2, Behind, Done, Reading, Numbering,
                                   Copying, Opening, Staged, Ahead, Judging
<1>10. CASE n.pc = "copyRead" /\ n.i = m.i + 1
  <2>0. \A j \in 1 .. Len(C) : j < n.i => j <= m.i
    BY <1>2, <1>10
  <2>1. \A j \in 1 .. Len(C) : j < n.i => Copy(B, C[j])
    BY <1>8, <2>0
  <2>. QED
    BY <1>1, <1>5, <1>10, <2>1 DEF Leading, Copies1, Copies2, Behind, Done, Reading, Numbering,
                                    Copying, Opening, Staged, Ahead, Judging
<1>. QED
  BY <1>9, <1>10 DEF CopiesOn

\* A step that commits one.
LEMMA LeadingCommit ==
  ASSUME Types, NEW r \in Runs, Steps(r), Leading(artifacts, run[r]), Books(artifacts),
         run[r].pc = "commitWrite", run'[r].pc = "finishRead", Stays(r), run'[r].command = run[r].command,
         artifacts' = artifacts \cup {CommitRow(r)}
  PROVE  Books(artifacts') /\ Leading(artifacts', run'[r])
<1>. DEFINE m == run[r]
            n == run'[r]
            A == artifacts
            P == Plan(m.command)
            C == Copies(m.command)
            s == StageOf(m)
            a == CommitRow(r)
            B == A \cup {a}
<1>1. Ledger(A) /\ Ledger(B) /\ Books(A) /\ artifacts' = B
  BY StoredIs, ArtifactTypes DEF Ledger, Numbered
<1>2. /\ m.pc \in Staged /\ m.pc \in Ahead
      /\ m.command \in Commands /\ m.i \in 1 .. Len(P) /\ Stage(r) = s /\ s \in Stages /\ s = P[m.i]
      /\ n.i = m.i /\ StageOf(n) = s
  BY AtStage DEF Staged, Ahead, StageOf, Stays
<1>3. InOrder(P) /\ InOrder(C) /\ Len(P) \in Nat /\ Len(C) \in Nat
  BY <1>2, PlanFacts
<1>4. /\ \A t \in Stages : Place(t) < Place(s) => Built(A, t)
      /\ \A d \in Dependencies[s] : Has(A, d)
      /\ m.upstream = Found(A, s)
      /\ m.version >= 1 /\ \A b \in A : b.stage = s => b.version < m.version
      /\ \A j \in 1 .. Len(C) : Built(A, C[j])
      /\ \A j \in 1 .. Len(P) : j < m.i => Built(A, P[j])
  BY <1>2, EarlierBuilt DEF Leading, Reading, Numbering, Copies2, Behind
<1>5. /\ a.stage = s /\ a.version = m.version /\ a.upstream = Found(A, s)
      /\ a.content = IF s \in Varying THEN r ELSE None
  BY <1>2, <1>4 DEF CommitRow, Produced
<1>6. r # None /\ m.version \in Nat /\ \A b \in A : b.version \in Nat
  BY <1>1, NoneAssumption DEF Types, RunRow, Ledger, ArtifactRow
<1>7. Dependencies[s] \subseteq Stages /\ \A d \in Dependencies[s] : Place(d) < Place(s) /\ d # s
  BY <1>2, DependenciesEarlier, PlaceOfStage
<1>. HIDE DEF a
<1>8. Books(B)
  <2>1. ASSUME NEW d \in Dependencies[s]
        PROVE  \E b \in B : b.stage = d /\ b.content = a.upstream[d]
    <3>1. Newest(A, d) \in A /\ Newest(A, d).stage = d
      BY <1>1, <1>4, NewestIs
    <3>2. a.upstream[d] = Newest(A, d).content
      BY <1>5 DEF Found
    <3>. QED
      BY <3>1, <3>2
  <2>2. DOMAIN a.upstream = Dependencies[s]
    BY <1>5 DEF Found
  <2>. QED
    BY <1>1, <1>4, <1>5, <1>6, <2>1, <2>2 DEF Books
<1>9. Built(B, s)
  <2>1. a \in B /\ \A b \in B : b.stage = a.stage => b.version <= a.version
    BY <1>4, <1>5, <1>6
  <2>2. Has(B, s) /\ Newest(B, s) = a
    BY <1>1, <1>5, <2>1, NewestOnly
  <2>3. Found(B, s) = Found(A, s) /\ \A d \in Dependencies[s] : Has(B, d)
    BY <1>1, <1>4, <1>5, <1>7, FoundKept
  <2>. QED
    BY <1>5, <2>2, <2>3 DEF Built
<1>10. ASSUME NEW j \in 1 .. Len(C)
       PROVE  Built(B, C[j])
  <2>1. C[j] \in Stages /\ C[j] # s
    BY <1>2, <1>3, PlanFacts, EarlierInPlan
  <2>2. \A d \in Dependencies[C[j]] : \E k \in 1 .. Len(C) : C[k] = d
    <3>1. m.command \in Commands
      BY <1>2
    <3>2. \A c \in Commands : \A i \in 1 .. Len(Copies(c)) : \A d \in Dependencies[Copies(c)[i]] :
            \E k \in 1 .. Len(Copies(c)) : Copies(c)[k] = d
      BY PlanFacts
    <3>. QED
      BY <3>1, <3>2
  <2>3. \A k \in 1 .. Len(C) : C[k] # s
    BY <1>2, PlanFacts
  <2>4. s \notin Dependencies[C[j]]
    BY <2>2, <2>3
  <2>. QED
    BY <1>1, <1>4, <1>5, <2>1, <2>4, BuiltKept
<1>11. ASSUME NEW j \in 1 .. Len(P), j < m.i
       PROVE  Built(B, P[j])
  <2>1. P[j] \in Stages /\ Place(P[j]) < Place(s) /\ Place(s) \in 1 .. 14 /\ Place(P[j]) \in 1 .. 14
    <3>. DEFINE p == P
                i == m.i
    <3>1. InOrder(p) /\ i \in 1 .. Len(p) /\ j \in 1 .. Len(p) /\ j < i /\ s = p[i]
      BY <1>2, <1>3, <1>11
    <3>. HIDE DEF p, i
    <3>2. p[i] \in Stages /\ Place(p[i]) \in 1 .. 14 /\ p[j] \in Stages /\ Place(p[j]) \in 1 .. 14
          /\ Place(p[j]) < Place(p[i])
      BY <3>1, EarlierInPlan
    <3>. QED
      BY <3>1, <3>2 DEF p
  <2>2. s # P[j] /\ s \notin Dependencies[P[j]]
    BY <2>1, DependenciesEarlier
  <2>. QED
    BY <1>1, <1>4, <1>5, <1>11, <2>1, <2>2, BuiltKept
<1>12. Copies1(B, n) /\ Reading(B, n) /\ Numbering(B, n)
  BY DEF Copies1, Reading, Numbering, Copying, Ahead
<1>13. Copies2(B, n) /\ Behind(B, n) /\ Done(B, n)
  BY <1>2, <1>9, <1>10, <1>11 DEF Copies2, Behind, Done
<1>. QED
  BY <1>1, <1>8, <1>12, <1>13 DEF Leading

-----------------------------------------------------------------------------
(* What is published *)

Booked == "artifact" \notin late => Books(artifacts)
Leads == "artifact" \notin late /\ holder \in Runs => Leading(artifacts, run[holder])

\* From the completion of the trace on, what publication rests on is there.
Coherent ==
  (published \/ \E r \in Runs : run[r].pc = "publish") /\ late \cap {"artifact", "trace"} = {} =>
    trace.status = "SUCCESS" /\ \A s \in BehindPublication : Built(artifacts, s)

Published == Booked /\ Leads /\ Coherent

\* Every step keeps what the holder knows.
LEMMA LeadsKept ==
  ASSUME Types, Booked, Leads, NEW r \in Runs, Steps(r)
  PROVE  Booked' /\ Leads'
<1>1. Moves(r) /\ WriteMarks(r)
  BY StepMoves, StepMarks DEF Steps
<1>2. holder' = holder /\ late \subseteq late'
  BY <1>1 DEF Moves, WriteMarks
<1>. SUFFICES ASSUME "artifact" \notin late'
              PROVE  Books(artifacts') /\ (holder \in Runs => Leading(artifacts', run'[holder]))
  BY <1>2 DEF Booked, Leads
<1>3. Books(artifacts) /\ (holder \in Runs => Leading(artifacts, run[holder]))
  BY <1>2 DEF Booked, Leads
<1>4. CASE holder # r
  BY <1>3, <1>4, Strangers
<1>5. CASE holder = r
  BY <1>3, <1>5, ArtifactFlow, LeadingQuiet, LeadingCopy, LeadingCommit
<1>. QED
  BY <1>4, <1>5

\* Every step keeps what is published on its artifacts: only a copy, which is
\* not there yet, and a commit of the holder add one.
LEMMA CoherentKept ==
  ASSUME Types, Finals, Booked, Leads, Coherent, NEW r \in Runs, Steps(r)
  PROVE  Coherent'
<1>1. Moves(r) /\ WriteMarks(r) /\ Flow(r)
  BY StepMoves, StepMarks, Flows DEF Steps
<1>2. late \subseteq late' /\ \A o \in Runs \ {r} : run'[o] = run[o]
  BY <1>1, Others DEF Moves, WriteMarks
<1>. SUFFICES ASSUME published' \/ \E o \in Runs : run'[o].pc = "publish", late' \cap {"artifact", "trace"} = {}
              PROVE  trace'.status = "SUCCESS" /\ \A s \in BehindPublication : Built(artifacts', s)
  BY DEF Coherent
<1>3. late \cap {"artifact", "trace"} = {} /\ "artifact" \notin late' /\ "trace" \notin late'
  BY <1>2
<1>4. BehindPublication \subseteq Stages /\ \A s \in BehindPublication : Place(s) < Place("recommendation_publish")
  BY BehindPublicationEarlier
<1>5. CASE published \/ \E o \in Runs : run[o].pc = "publish"
  <2>1. trace.status = "SUCCESS" /\ \A s \in BehindPublication : Built(artifacts, s)
    BY <1>3, <1>5 DEF Coherent
  <2>2. trace'.status = "SUCCESS"
    BY <1>3, <2>1, FinalStep DEF Next, Steps
  <2>3. CASE artifacts' = artifacts
    BY <2>1, <2>2, <2>3
  <2>4. CASE artifacts' # artifacts
    <3>1. holder = r
      BY <1>3, <2>4, Strangers
    <3>2. \/ run[r].pc \in {"off", "end", "stopRead"} \cup Over
          \/ run[r].pc \in Staged /\ Place(StageOf(run[r])) >= Place("recommendation_publish")
      BY <1>3, <2>1, <3>1 DEF Finals, Ends, Owner
    <3>3. run[r].pc \in {"copyWrite", "commitWrite"}
      BY <2>4, ArtifactFlow
    <3>4. run[r].pc = "commitWrite" /\ run[r].pc \in Staged /\ Place(StageOf(run[r])) >= Place("recommendation_publish")
      BY <3>2, <3>3 DEF Staged, Ahead, Over
    <3>. DEFINE a == CommitRow(r)
    <3>5. a \in ArtifactRow /\ artifacts' = artifacts \cup {a} /\ a.stage = StageOf(run[r]) /\ a.stage \in Stages
      BY <2>4, <3>4, ArtifactFlow, AtStage DEF CommitRow
    <3>6. Ledger(artifacts) /\ Ledger(artifacts \cup {a})
      BY <3>5, StoredIs, ArtifactTypes DEF Ledger, Numbered
    <3>. HIDE DEF a
    <3>7. ASSUME NEW s \in BehindPublication
          PROVE  Built(artifacts \cup {a}, s)
      <4>1. a.stage # s /\ a.stage \notin BehindPublication
        BY <1>4, <3>4, <3>5, Numbers, PlaceOfStage
      <4>2. a.stage \notin Dependencies[s]
        BY <4>1, BehindPublicationEarlier
      <4>. QED
        BY <1>4, <2>1, <3>6, <4>1, <4>2, BuiltKept
    <3>. QED
      BY <2>2, <3>5, <3>7
  <2>. QED
    BY <2>3, <2>4
<1>6. CASE ~(published \/ \E o \in Runs : run[o].pc = "publish")
  <2>1. published' = published
    BY <1>6, Writers DEF Publish, At
  <2>2. run'[r].pc = "publish" /\ run[r].pc # "publish"
    BY <1>2, <1>6, <2>1
  <2>3. /\ run[r].pc = "complete" /\ trace'.status = "SUCCESS" /\ Writes(r, "trace") /\ artifacts' = artifacts
    BY <1>1, <2>2, EndFlowOver DEF Flow, CopyFlow, OpenFlow, EnterFlow, ExecuteFlow, CommitFlow, ErrorFlow, JudgeFlow,
                      CopiesOn, StagesOn, Opening, Over, Cut
  <2>4. holder = r
    BY <1>3, <2>3 DEF Writes
  <2>5. Leading(artifacts, run[r])
    BY <1>3, <2>4 DEF Leads
  <2>6. run[r].pc \in Staged /\ StageOf(run[r]) = "recommendation_publish"
    BY <2>3 DEF Types, Fits, Staged, Ahead
  <2>7. run[r].command \in Commands /\ run[r].i \in 1 .. Len(Plan(run[r].command))
    BY <2>6, AtStage
  <2>8. \A t \in Stages : Place(t) < Place("recommendation_publish") => Built(artifacts, t)
    BY <2>5, <2>6, <2>7, EarlierBuilt DEF Leading
  <2>. QED
    BY <1>4, <2>3, <2>8
<1>. QED
  BY <1>5, <1>6

\* At first there are no artifacts.
LEMMA InitPublished == Init => Published
BY NoneAssumption DEF Init, Published, Booked, Leads, Coherent, Books, Fresh

\* Every step keeps all three, the start of a run too.
LEMMA NextPublished ==
  ASSUME Types, Finals, Published, [Next]_vars
  PROVE  Published'
<1>1. ASSUME NEW r \in Runs, Begin(r)
      PROVE  Published'
  <2>1. /\ holder' = r /\ UNCHANGED store
        /\ run'[r].pc \in {"done", "openRead", "copyRead"} /\ run'[r].i = 1 /\ run'[r].command \in Commands
        /\ run'[r].pc = "openRead" => Copies(run'[r].command) = <<>>
    BY <1>1, BeginMoves DEF Begin
  <2>2. \A o \in Runs \ {r} : run'[o] = run[o]
    BY <1>1, BeginMoves, Others
  <2>3. Len(Copies(run'[r].command)) \in Nat
    BY <2>1, PlanFacts
  <2>4. Leading(artifacts, run'[r])
    <3>1. \A j \in 1 .. Len(Copies(run'[r].command)) : ~(j < run'[r].i)
      BY <2>1, <2>3
    <3>2. run'[r].pc = "openRead" => 1 .. Len(Copies(run'[r].command)) = {}
      BY <2>1
    <3>. QED
      BY <2>1, <3>1, <3>2 DEF Leading, Copies1, Copies2, Behind, Done, Reading, Numbering,
                          Copying, Opening, Staged, Ahead, Judging
  <2>5. Booked' /\ Leads'
    BY <2>1, <2>4 DEF Published, Booked, Leads, store
  <2>6. Coherent'
    <3>1. (\E o \in Runs : run'[o].pc = "publish") => \E o \in Runs : run[o].pc = "publish"
      BY <2>1, <2>2
    <3>. QED
      BY <2>1, <3>1 DEF Published, Coherent, store
  <2>. QED
    BY <2>5, <2>6 DEF Published
<1>2. CASE UNCHANGED vars
  BY <1>2 DEF vars, Published, Booked, Leads, Coherent
<1>. QED
  BY <1>1, <1>2, LeadsKept, CoherentKept DEF Next, Steps, Published

\* The inductive invariant of the publication.
LEMMA PublishedHolds == Spec => [](Types /\ Finals /\ Published)
<1>1. Init => Types /\ Finals /\ Published
  BY InitTypes, InitFinals, InitPublished
<1>2. Types /\ Finals /\ Published /\ [Next]_vars => (Types /\ Finals /\ Published)'
  BY NextTypes, NextFinals, NextPublished
<1>. QED
  BY <1>1, <1>2, PTL DEF Spec

\* What is published was computed from what the trace holds, unless a run that
\* another one had succeeded has written artifacts or the status of the trace.
THEOREM PublicationIsCoherent == Spec => []PublishedIsCoherent
<1>1. Types /\ Coherent => PublishedIsCoherent
  <2>. SUFFICES ASSUME Types, Coherent, published, late \cap {"artifact", "trace"} = {}, NEW s \in BehindPublication
                PROVE  Stored(s) /\ Latest(s).upstream = [d \in Dependencies[s] |-> Latest(d).content]
    BY DEF PublishedIsCoherent
  <2>1. Built(artifacts, s)
    BY DEF Coherent
  <2>2. Stored(s) /\ Latest(s) = Newest(artifacts, s)
    BY <2>1, StoredIs DEF Built
  <2>3. \A d \in Dependencies[s] : Latest(d) = Newest(artifacts, d)
    BY <2>1, StoredIs DEF Built
  <2>. QED
    BY <2>1, <2>2, <2>3 DEF Built, Found
<1>. QED
  BY <1>1, PublishedHolds, PTL DEF Published

-----------------------------------------------------------------------------
(* What the end of a run leaves *)

\* Between the handler and the end of its stage.
Ending == {"commitRead", "commitWrite", "finishRead", "finishWrite"}

\* A run that was cut short by a fault, or is about to end by one.
Wrecked(m) ==
  \/ m.pc = "dead"
  \/ m.error = "fault" /\ m.pc \in {"failed", "stopRead", "stopWrite"}
  \/ m.error = "fault" /\ m.pc \in {"markRead", "markWrite"} /\ ~PostProcessing(StageOf(m))

\* The trace is complete and its recommendations are published.
Recorded == trace.status = "SUCCESS" /\ published

\* Nobody but the holder is going on, and nobody has written late.
Alone == late = {} /\ \A r \in Runs : Live(r) => r = holder

\* A success has been published, or there is a reason that it has not.
Successful ==
  trace.status = "SUCCESS" =>
    published \/ trace.kind = "NEWS_INGEST" \/ \E o \in Runs : run[o].pc = "publish" \/ Wrecked(run[o])

\* An artifact of the publication that was not copied.
PublicationKept == \A a \in artifacts : a.stage = "recommendation_publish" /\ a.input # None => Recorded

\* A run that recorded that there is nothing to recommend still finds nothing.
FindsNothing(m) ==
  /\ m.pc = "empty" => "snapshot" \notin rows
  /\ "recommendation_select" \in m.memory /\ m.pc \notin {"stopRead", "stopWrite"} \cup Over =>
       /\ m.pc \in Ending \cup {"markRead", "markWrite", "judge"}
       /\ StageOf(m) = "recommendation_select" /\ "snapshot" \notin rows /\ trace.status = "COMPLETE_EMPTY"

\* A run works on a trace of its kind.
HasKind(m) ==
  /\ m.pc = "openWrite" => trace.status = "absent" \/ Kinded(trace.kind, m)
  /\ m.pc \in Staged \cup Judging \cup Closing => Kinded(trace.kind, m)

\* A run that has the publication behind it has completed and published it.
IsPast(m) ==
  /\ m.pc = "publish" => trace.status = "SUCCESS"
  /\ m.pc \in Ending /\ StageOf(m) = "recommendation_publish" => Recorded
  /\ m.pc \in Staged \cup Judging =>
       \A j \in 1 .. Len(Plan(m.command)) : j < m.i /\ Plan(m.command)[j] = "recommendation_publish" => Recorded
  /\ m.pc = "end" => \A j \in 1 .. Len(Plan(m.command)) : Plan(m.command)[j] = "recommendation_publish" => Recorded

Holds(m) == FindsNothing(m) /\ HasKind(m) /\ IsPast(m)

\* Runs that follow each other.
InTurn == Alone /\ Successful /\ PublicationKept /\ (holder \in Runs => Holds(run[holder]))
Serial == ~overlapped => InTurn

\* Only a run that is going on takes a step.
LEMMA StepsLive ==
  ASSUME NEW r \in Runs, Steps(r)
  PROVE  Live(r) /\ run[r].pc \notin {"off"} \cup Over
<1>1. CASE Proceed(r)
  BY <1>1 DEF Proceed, Executing, CopyRead, CarryOver, OpenRead, ReadUpstream, ReadLatest, EnterRead,
              CopyWrite, CommitWrite, EnterWrite, ArtifactWrite, ArtifactCommit, FinishWrite, MarkWrite,
              OpenWrite, RecordEmpty, Complete, JudgeEmpty, End, StopWrite,
              Refuse, Work, ArtifactStart, Score, Recommend, Select, StartPublish, Publish, Executes,
              CommitRead, FinishRead, MarkRead, Judge, StopRead, At, Live, Over
<1>2. CASE Fail(r) \/ Crash(r) \/ Cut(r)
  BY <1>2 DEF Fail, Crash, Cut, Live, Over
<1>. QED
  BY <1>1, <1>2 DEF Steps

\* Rows that handlers look for are written at these places only.
LEMMA RowsWritten ==
  ASSUME NEW r \in Runs, Steps(r)
  PROVE  rows' = rows \/ run[r].pc \in {"carry", "execute", "artifactCommit", "recommend", "complete", "end"}
BY Writers DEF CarryOver, Work, ArtifactCommit, Score, Recommend, Complete, End, Executes, At

\* What is published stays so.
LEMMA PublishedStays ==
  ASSUME Types, NEW r \in Runs, Steps(r), published
  PROVE  published'
BY Writers DEF Publish

\* What is left of a run that a fault ends, at each place that leads there.
LEMMA ThrownWreck ==
  ASSUME Types, NEW r \in Runs, run[r].pc \in Staged, ~PostProcessing(StageOf(run[r])),
         UNCHANGED lease, Become(r, Thrown(r, "fault"))
  PROVE  Wrecked(run'[r])
<1>1. Stage(r) = StageOf(run[r]) /\ "fault" \in Error
  BY AtStage DEF Error
<1>2. run'[r] = Thrown(r, "fault")
  BY <1>1, ThrownMoves
<1>3. run'[r].pc = "stopRead" /\ run'[r].error = "fault"
  BY <1>1, <1>2, ThrownRow
<1>. QED
  BY <1>3 DEF Wrecked

\* A run that a fault ends does not recover.
LEMMA WreckStays ==
  ASSUME Types, NEW r \in Runs, Steps(r), Wrecked(run[r])
  PROVE  Wrecked(run'[r])
<1>1. run[r] \in RunRow /\ run[r].pc \notin {"off"} \cup Over
  BY StepsLive DEF Types
<1>2. run[r].error = "fault" /\ run[r].pc \in {"stopRead", "stopWrite", "markRead", "markWrite"} /\ "fault" \in Error
  BY <1>1 DEF Wrecked, Over, Error
<1>3. CASE Crash(r)
  <2>1. run'[r].pc = "dead"
    BY <1>1, <1>3, LeaveMoves DEF Crash, Over
  <2>. QED
    BY <2>1 DEF Wrecked
<1>4. CASE Cut(r)
  BY <1>4 DEF Cut
<1>5. CASE Leave(r, "failed", "fault")
  <2>1. run'[r].pc = "failed" /\ run'[r].error = "fault"
    BY <1>1, <1>2, <1>5, LeaveMoves DEF Over
  <2>. QED
    BY <2>1 DEF Wrecked
<1>6. CASE run[r].pc = "stopRead" /\ Goto(r, "stopWrite")
  <2>1. run'[r].pc = "stopWrite" /\ run'[r].error = "fault"
    BY <1>1, <1>2, <1>6 DEF Goto, Become, Types, RunRow
  <2>. QED
    BY <2>1 DEF Wrecked
<1>7. CASE run[r].pc = "markRead" /\ Goto(r, "markWrite")
  <2>1. /\ run'[r].pc = "markWrite" /\ run'[r].error = "fault"
        /\ run'[r].command = run[r].command /\ run'[r].i = run[r].i
    BY <1>1, <1>2, <1>7 DEF Goto, Become, Types, RunRow
  <2>2. ~PostProcessing(StageOf(run'[r]))
    BY <1>7, <2>1 DEF Wrecked, StageOf
  <2>. QED
    BY <2>1, <2>2 DEF Wrecked
<1>8. CASE run[r].pc \in {"markRead", "markWrite"} /\ Become(r, Thrown(r, "fault")) /\ UNCHANGED lease
  <2>1. run[r].pc \in Staged
    BY <1>8 DEF Staged
  <2>. QED
    BY <1>8, <2>1, ThrownWreck DEF Wrecked
<1>9. CASE run[r].pc \in {"stopRead", "stopWrite"}
  <2>1. Proceed(r) => StopRead(r) \/ StopWrite(r)
    BY <1>9
     DEF Proceed, Executing, CopyRead, CarryOver, OpenRead, ReadUpstream, ReadLatest, EnterRead,
         CopyWrite, CommitWrite, EnterWrite, ArtifactWrite, ArtifactCommit, FinishWrite, MarkRead, MarkWrite,
         OpenWrite, RecordEmpty, Complete, JudgeEmpty, End,
         Refuse, Work, ArtifactStart, Score, Recommend, Select, StartPublish, Publish, Executes,
         CommitRead, FinishRead, Judge, At
  <2>2. Fail(r) \/ StopWrite(r) => Leave(r, "failed", "fault")
    BY <1>2, <1>9 DEF Fail, StopWrite
  <2>3. StopRead(r) => Leave(r, "failed", "fault") \/ (Goto(r, "stopWrite") /\ run[r].pc = "stopRead")
    BY <1>2 DEF StopRead, At
  <2>. QED
    BY <1>3, <1>4, <1>5, <1>6, <2>1, <2>2, <2>3 DEF Steps
<1>10. CASE run[r].pc \in {"markRead", "markWrite"}
  <2>1. Fail(r) => Become(r, Thrown(r, "fault")) /\ UNCHANGED lease
    BY <1>2, <1>10 DEF Fail
  <2>2. MarkRead(r) => /\ UNCHANGED lease
                       /\ \/ Become(r, Thrown(r, "fault"))
                          \/ Goto(r, "markWrite") /\ run[r].pc = "markRead"
    BY <1>2 DEF MarkRead, Goto, At
  <2>3. MarkWrite(r) => UNCHANGED lease /\ Become(r, Thrown(r, "fault"))
    BY <1>2 DEF MarkWrite
  <2>4. Proceed(r) => MarkRead(r) \/ MarkWrite(r)
    BY <1>10
     DEF Proceed, Executing, CopyRead, CarryOver, OpenRead, ReadUpstream, ReadLatest, EnterRead,
         CopyWrite, CommitWrite, EnterWrite, ArtifactWrite, ArtifactCommit, FinishWrite,
         OpenWrite, RecordEmpty, Complete, JudgeEmpty, End, StopWrite,
         Refuse, Work, ArtifactStart, Score, Recommend, Select, StartPublish, Publish, Executes,
         CommitRead, FinishRead, Judge, StopRead, At
  <2>. QED
    BY <1>3, <1>4, <1>7, <1>8, <1>10, <2>1, <2>2, <2>3, <2>4 DEF Steps
<1>. QED
  BY <1>2, <1>9, <1>10

\* A run between completeRunTrace and publishRecommendation publishes or is wrecked.
LEMMA PublishStep ==
  ASSUME Types, NEW r \in Runs, Steps(r), run[r].pc = "publish"
  PROVE  published' \/ run'[r].pc = "publish" \/ Wrecked(run'[r])
<1>1. run[r] \in RunRow /\ run[r].pc \in Staged /\ run[r].pc # "off" /\ "fault" \in Error
      /\ StageOf(run[r]) = "recommendation_publish"
  BY DEF Types, Fits, Staged, Ahead, Error
<1>2. Publish(r) \/ Crash(r) \/ Cut(r) \/ (Fail(r) /\ Become(r, Caught(r, "fault")) /\ UNCHANGED lease)
  <2>1. Proceed(r) => Publish(r)
    BY DEF Proceed, Executing, CopyRead, CarryOver, OpenRead, ReadUpstream, ReadLatest, EnterRead,
           CopyWrite, CommitWrite, EnterWrite, ArtifactWrite, ArtifactCommit, FinishWrite, MarkWrite,
           OpenWrite, RecordEmpty, Complete, JudgeEmpty, End, StopWrite,
           Refuse, Work, ArtifactStart, Score, Recommend, Select, StartPublish, Executes,
           CommitRead, FinishRead, MarkRead, Judge, StopRead, At
  <2>2. Fail(r) => Become(r, Caught(r, "fault")) /\ UNCHANGED lease
    BY DEF Fail
  <2>. QED
    BY <2>1, <2>2 DEF Steps
<1>3. CASE Publish(r)
  BY <1>3 DEF Publish
<1>4. CASE Crash(r)
  <2>1. run'[r].pc = "dead"
    BY <1>1, <1>4, LeaveMoves DEF Crash, Over
  <2>. QED
    BY <2>1 DEF Wrecked
<1>5. CASE Cut(r)
  BY <1>5 DEF Cut
<1>6. CASE Become(r, Caught(r, "fault")) /\ UNCHANGED lease
  <2>1. run'[r] = Caught(r, "fault")
    BY <1>1, <1>6, CaughtMoves
  <2>2. /\ run'[r].pc = "markRead" /\ run'[r].error = "fault"
        /\ run'[r].command = run[r].command /\ run'[r].i = run[r].i
    BY <1>1, <2>1, CaughtRow
  <2>3. StageOf(run'[r]) = "recommendation_publish"
    BY <1>1, <2>2 DEF StageOf
  <2>. QED
    BY <2>2, <2>3 DEF Wrecked, PostProcessing
<1>. QED
  BY <1>2, <1>3, <1>4, <1>5, <1>6

\* What is recorded stays so, as long as nobody writes late.
LEMMA RecordedStays ==
  ASSUME Types, Finals, NEW r \in Runs, Steps(r), late' = {}
  PROVE  /\ trace.status = "SUCCESS" => trace'.status = "SUCCESS"
         /\ Recorded => Recorded'
<1>1. trace.status = "SUCCESS" => trace'.status = "SUCCESS"
  BY FinalStep DEF Next, Steps
<1>. QED
  BY <1>1, PublishedStays DEF Recorded

\* Nobody but the holder takes a step, and it writes nothing late.
LEMMA AloneStep ==
  ASSUME Types, Alone, NEW r \in Runs, Steps(r)
  PROVE  holder = r /\ Alone'
<1>1. holder = r
  BY StepsLive DEF Alone
<1>2. Moves(r) /\ WriteMarks(r) /\ \A o \in Runs \ {r} : run'[o] = run[o]
  BY StepMoves, StepMarks, Others DEF Steps, Moves
<1>3. late' = {} /\ holder' = r
  BY <1>1, <1>2 DEF WriteMarks, Moves, Alone
<1>4. ASSUME NEW o \in Runs, Live(o)'
      PROVE  o = r
  BY <1>1, <1>2, <1>4 DEF Live, Alone
<1>. QED
  BY <1>1, <1>3, <1>4 DEF Alone

\* A success without a publication keeps its reason.
LEMMA SuccessfulStep ==
  ASSUME Types, InTurn, NEW r \in Runs, Steps(r)
  PROVE  Successful'
<1>1. holder = r /\ HasKind(run[r]) /\ \A o \in Runs \ {r} : run'[o] = run[o]
  BY AloneStep, StepMoves, Others DEF InTurn, Holds, Steps, Moves
<1>2. CASE trace'.status = "SUCCESS" /\ trace.status = "SUCCESS"
  <2>1. trace'.kind = trace.kind
    BY <1>2, TraceWrites
  <2>2. ASSUME NEW o \in Runs, run[o].pc = "publish" \/ Wrecked(run[o])
        PROVE  published' \/ \E p \in Runs : run'[p].pc = "publish" \/ Wrecked(run'[p])
    BY <1>1, <2>2, WreckStays, PublishStep
  <2>3. \/ published' \/ trace'.kind = "NEWS_INGEST" \/ \E p \in Runs : run'[p].pc = "publish" \/ Wrecked(run'[p])
    BY <1>2, <2>1, <2>2, PublishedStays DEF InTurn, Successful
  <2>. QED
    BY <2>3 DEF Successful, Wrecked, StageOf
<1>3. CASE trace'.status = "SUCCESS" /\ trace.status # "SUCCESS"
  <2>1. \/ run[r].pc = "complete" /\ run'[r].pc = "publish"
        \/ run[r].pc = "end" /\ trace' # trace
    BY <1>3, TraceWrites
  <2>2. CASE run'[r].pc = "publish"
    BY <2>2 DEF Successful
  <2>3. CASE run[r].pc = "end" /\ trace' # trace
    <3>1. End(r) /\ CompletesAtEnd(r)
      BY <2>3, Writers DEF OpenWrite, RecordEmpty, Complete, JudgeEmpty, StopWrite, At, End
    <3>2. KindOf(run[r].command) = "NEWS_INGEST"
      BY <3>1 DEF CompletesAtEnd, KindOf
    <3>3. trace.kind = "NEWS_INGEST" /\ trace'.kind = trace.kind
      BY <1>1, <2>3, <3>2, TraceWrites DEF HasKind, Closing, Kinded
    <3>. QED
      BY <3>3 DEF Successful
  <2>. QED
    BY <2>1, <2>2, <2>3
<1>. QED
  BY <1>2, <1>3 DEF Successful

\* The publication is committed when it has been recorded.
LEMMA PublicationKeptStep ==
  ASSUME Types, Finals, InTurn, NEW r \in Runs, Steps(r)
  PROVE  PublicationKept'
<1>1. holder = r /\ IsPast(run[r]) /\ (Recorded => Recorded')
  BY AloneStep, RecordedStays DEF InTurn, Holds, Alone
<1>2. CASE artifacts' = artifacts
  BY <1>1, <1>2 DEF InTurn, PublicationKept, Recorded
<1>3. CASE artifacts' = artifacts \cup {CopyRow(CopyOf(run[r]))}
  <2>1. CopyRow(CopyOf(run[r])).input = None
    BY DEF CopyRow
  <2>. QED
    BY <1>1, <1>3, <2>1 DEF InTurn, PublicationKept, Recorded
<1>4. CASE run[r].pc = "commitWrite" /\ artifacts' = artifacts \cup {CommitRow(r)}
  <2>1. CommitRow(r).stage = Stage(r) /\ Stage(r) = StageOf(run[r])
    BY <1>4, AtStage DEF CommitRow, Staged, Ahead
  <2>2. StageOf(run[r]) = "recommendation_publish" => Recorded
    BY <1>1, <1>4 DEF IsPast, Ending
  <2>. QED
    BY <1>1, <1>4, <2>1, <2>2 DEF InTurn, PublicationKept, Recorded
<1>. QED
  BY <1>2, <1>3, <1>4, ArtifactFlow

\* A run goes on with a trace of its kind.
LEMMA HasKindStep ==
  ASSUME Types, InTurn, NEW r \in Runs, Steps(r)
  PROVE  HasKind(run[r])'
<1>. DEFINE m == run[r]
            n == run'[r]
<1>1. holder = r /\ HasKind(m) /\ Flow(r) /\ n.command = m.command
  BY AloneStep, Flows DEF InTurn, Holds, Flow
<1>2. CASE OpenFlow(r)
  <2>1. CASE n.pc = "openWrite"
    BY <1>1, <1>2, <2>1 DEF OpenFlow, HasKind, Kinded, Staged, Ahead, Judging, Closing
  <2>2. CASE n.pc = "upstream"
    BY <1>1, <1>2, <2>2 DEF OpenFlow, HasKind, Kinded
  <2>3. CASE n.pc \in Opening \ {"openWrite"}
    BY <2>3 DEF HasKind, Opening, Staged, Ahead, Judging, Closing
  <2>. QED
    BY <1>2, <2>1, <2>2, <2>3 DEF OpenFlow
<1>3. CASE m.pc \in Staged \cup Judging \cup Closing
  <2>1. trace'.kind = trace.kind
    BY <1>3, TraceWrites DEF Staged, Ahead, Judging, Closing
  <2>2. n.pc # "openWrite"
    <3>1. CASE Cut(r)
      BY <1>3, <3>1 DEF Cut, Staged, Ahead, Judging, Closing
    <3>. QED
      BY <1>1, <1>3, <3>1, EndFlowOver
         DEF Flow, CopyFlow, OpenFlow, EnterFlow, ExecuteFlow, CommitFlow, ErrorFlow, JudgeFlow, CopiesOn, StagesOn,
             Opening, Staged, Ahead, Judging, Closing, Over
  <2>. QED
    BY <1>1, <1>3, <2>1, <2>2 DEF HasKind, Kinded
<1>4. CASE Cut(r)
  BY <1>1, <1>4 DEF Cut, store, HasKind, Kinded
<1>5. CASE EndFlow(r) \/ CopyFlow(r)
  <2>1. n.pc \in Over \cup Copying \cup {"carry"}
    BY <1>5, EndFlowOver DEF CopyFlow, CopiesOn, Copying
  <2>. QED
    BY <2>1 DEF HasKind, Over, Copying, Staged, Ahead, Judging, Closing
<1>6. CASE EnterFlow(r) \/ ExecuteFlow(r) \/ CommitFlow(r) \/ ErrorFlow(r) \/ JudgeFlow(r)
  <2>1. m.pc \in Staged \cup Judging \cup Closing
    BY <1>6 DEF EnterFlow, ExecuteFlow, CommitFlow, ErrorFlow, JudgeFlow, Staged, Ahead, Judging, Closing
  <2>. QED
    BY <1>3, <2>1
<1>. QED
  BY <1>1, <1>2, <1>4, <1>5, <1>6 DEF Flow

\* What was empty when the run looked is still empty at the end of the stage.
LEMMA FindsNothingStep ==
  ASSUME Types, InTurn, NEW r \in Runs, Steps(r)
  PROVE  FindsNothing(run[r])'
<1>. DEFINE m == run[r]
            n == run'[r]
            select == "recommendation_select"
            Stopped == {"stopRead", "stopWrite"} \cup Over
<1>1. holder = r /\ FindsNothing(m) /\ Flow(r) /\ n.command = m.command /\ Fits(m) /\ m.pc \notin {"off"} \cup Over
  BY AloneStep, Flows, StepsLive DEF InTurn, Holds, Flow, Types
<1>2. CASE Cut(r)
  BY <1>1, <1>2 DEF Cut, store, FindsNothing
<1>3. ASSUME n.pc = "empty", ~Cut(r)
      PROVE  "snapshot" \notin rows'
  <2>1. ExecuteFlow(r)
    BY <1>1, <1>3, EndFlowOver
       DEF Flow, CopyFlow, OpenFlow, EnterFlow, CommitFlow, ErrorFlow, JudgeFlow, CopiesOn, StagesOn, Opening, Over
  <2>. QED
    BY <1>3, <2>1 DEF ExecuteFlow
<1>4. ASSUME select \in m.memory, n.pc \notin Stopped, ~Cut(r)
      PROVE  /\ n.pc \in Ending \cup {"markRead", "markWrite", "judge"}
             /\ StageOf(n) = select /\ "snapshot" \notin rows' /\ trace'.status = "COMPLETE_EMPTY"
  <2>1. m.pc \notin {"stopRead", "stopWrite"}
    BY <1>1, <1>4, EndFlowOver
       DEF Flow, CopyFlow, OpenFlow, EnterFlow, ExecuteFlow, CommitFlow, ErrorFlow, JudgeFlow, Opening, Staged, Ahead,
           Judging, Over
  <2>2. /\ m.pc \in Ending \cup {"markRead", "markWrite", "judge"}
        /\ StageOf(m) = select /\ "snapshot" \notin rows /\ trace.status = "COMPLETE_EMPTY"
    BY <1>1, <1>4, <2>1 DEF FindsNothing
  <2>3. rows' = rows /\ trace' = trace
    BY <2>2, RowsWritten, TraceWrites DEF Ending
  <2>4. Stage(r) = select /\ ~PostProcessing(Stage(r))
    BY <2>2, AtStage DEF Ending, Staged, Ahead, Judging, PostProcessing
  <2>5. n.pc \in Ending \cup {"markRead", "markWrite", "judge"} /\ n.i = m.i
    <3>1. ~EndFlow(r)
      BY <1>4, EndFlowOver
    <3>2. CASE CopyFlow(r) \/ OpenFlow(r) \/ EnterFlow(r)
      BY <2>2, <3>2 DEF CopyFlow, OpenFlow, EnterFlow, Opening, Ending
    <3>3. CASE ExecuteFlow(r)
      BY <2>2, <3>3 DEF ExecuteFlow, Ending, Ahead, Bears, Stays
    <3>4. CASE CommitFlow(r)
      BY <2>2, <2>4, <3>4 DEF CommitFlow, StagesOn, Ending, Stays
    <3>5. CASE ErrorFlow(r)
      BY <1>4, <2>2, <2>4, <3>5 DEF ErrorFlow, Ending, Stays
    <3>6. CASE JudgeFlow(r)
      BY <1>4, <2>2, <3>6 DEF JudgeFlow, Ending
    <3>. QED
      BY <1>1, <1>4, <3>1, <3>2, <3>3, <3>4, <3>5, <3>6 DEF Flow
  <2>6. StageOf(n) = select
    BY <1>1, <2>2, <2>5 DEF StageOf
  <2>. QED
    BY <2>2, <2>3, <2>5, <2>6
<1>5. ASSUME select \notin m.memory, select \in n.memory, n.pc \notin Stopped
      PROVE  /\ n.pc \in Ending \cup {"markRead", "markWrite", "judge"}
             /\ StageOf(n) = select /\ "snapshot" \notin rows' /\ trace'.status = "COMPLETE_EMPTY"
  <2>1. RecordEmpty(r)
    BY <1>1, <1>5 DEF Flow, MemoryFlow
  <2>2. m.pc = "empty" /\ m.pc \in Staged /\ Become(r, Worked(r)) /\ UNCHANGED lease /\ rows' = rows
        /\ trace' = [trace EXCEPT !.status = "COMPLETE_EMPTY"]
    BY <2>1 DEF RecordEmpty, At, Staged, Ahead, lease
  <2>3. n.pc = "commitRead" /\ n.i = m.i
    BY <2>2, WorkedMoves, WorkedRow
  <2>4. StageOf(n) = select
    BY <1>1, <2>2, <2>3 DEF StageOf, Fits
  <2>5. "snapshot" \notin rows' /\ trace'.status = "COMPLETE_EMPTY"
    BY <1>1, <2>2 DEF FindsNothing, Types
  <2>. QED
    BY <2>3, <2>4, <2>5 DEF Ending
<1>. HIDE DEF m, n, select, Stopped
<1>6. CASE ~Cut(r)
  <2>. USE DEF m, n, select, Stopped
  <2>1. n.pc = "empty" => "snapshot" \notin rows'
    BY <1>3, <1>6
  <2>2. select \in n.memory /\ n.pc \notin Stopped =>
          /\ n.pc \in Ending \cup {"markRead", "markWrite", "judge"}
          /\ StageOf(n) = select /\ "snapshot" \notin rows' /\ trace'.status = "COMPLETE_EMPTY"
    BY <1>4, <1>5, <1>6
  <2>. QED
    BY <2>1, <2>2 DEF FindsNothing, StageOf
<1>. QED
  BY <1>2, <1>6

\* The publication stays behind the run.
LEMMA IsPastStep ==
  ASSUME Types, Finals, InTurn, NEW r \in Runs, Steps(r)
  PROVE  IsPast(run[r])'
<1>. DEFINE m == run[r]
            n == run'[r]
            last == "recommendation_publish"
            P == Plan(m.command)
            Late(i) == \A j \in 1 .. Len(P) : j < i /\ P[j] = last => Recorded
<1>0. /\ holder = r /\ IsPast(m) /\ Flow(r) /\ n.command = m.command /\ Fits(m) /\ Fits(n)
      /\ m \in RunRow /\ n \in RunRow
      /\ trace.status = "SUCCESS" => trace'.status = "SUCCESS"
      /\ Recorded => Recorded'
  BY AloneStep, Flows, NextTypes, RecordedStays DEF InTurn, Holds, Flow, Types, Next, Steps, Alone
<1>1. CASE Cut(r)
  BY <1>0, <1>1 DEF Cut, store, IsPast, Recorded
<1>2. ASSUME ~Cut(r), n.pc = "publish"
      PROVE  trace'.status = "SUCCESS"
  <2>1. ExecuteFlow(r)
    BY <1>0, <1>2, EndFlowOver
       DEF Flow, CopyFlow, OpenFlow, EnterFlow, CommitFlow, ErrorFlow, JudgeFlow, CopiesOn, StagesOn, Opening, Over
  <2>. QED
    BY <1>2, <2>1 DEF ExecuteFlow
<1>3. ASSUME ~Cut(r), n.pc \in Ending, StageOf(n) = last
      PROVE  Recorded'
  <2>1. /\ ExecuteFlow(r) \/ CommitFlow(r)
        /\ m.pc \in Staged /\ n.i = m.i
    BY <1>0, <1>3, EndFlowOver
       DEF Flow, CopyFlow, OpenFlow, EnterFlow, ExecuteFlow, CommitFlow, ErrorFlow, JudgeFlow, CopiesOn, StagesOn,
           Opening, Over, Ending, Bears, Stays, Staged, Ahead
  <2>2. Stage(r) = last /\ StageOf(m) = last
    BY <1>0, <1>3, <2>1, AtStage DEF StageOf
  <2>3. CASE n.pc = "commitRead"
    <3>1. m.pc = "publish" /\ published'
      BY <2>1, <2>2, <2>3 DEF ExecuteFlow, CommitFlow, StagesOn
    <3>. QED
      BY <1>0, <3>1 DEF IsPast, Recorded
  <2>4. CASE n.pc # "commitRead"
    <3>1. m.pc \in Ending
      BY <1>3, <2>1, <2>4 DEF ExecuteFlow, CommitFlow, Ending, StagesOn
    <3>. QED
      BY <1>0, <2>2, <3>1 DEF IsPast
  <2>. QED
    BY <2>3, <2>4
<1>4. ASSUME m.pc \in Staged \cup Judging
      PROVE  m.command \in Commands /\ m.i \in 1 .. Len(P) /\ InOrder(P) /\ Len(P) \in Nat /\ Late(m.i)
  BY <1>0, <1>4, AtStage, PlanFacts DEF IsPast
<1>5. ASSUME m.pc \in {"latest", "finishWrite"}, StagesOn(r), EnterFlow(r) \/ CommitFlow(r), StageOf(m) = last
      PROVE  Recorded
  <2>1. CASE m.pc = "finishWrite"
    BY <1>0, <1>5, <2>1 DEF IsPast, Ending
  <2>2. CASE m.pc = "latest"
    <3>1. m.pc \in Staged /\ m.command # None /\ Stage(r) = last
      BY <1>4, <1>5, <2>2, AtStage, CommandType DEF Staged
    <3>2. Stored(last) /\ Latest(last).input = m.command
      BY <1>5, <2>2, <3>1 DEF EnterFlow, CommitFlow, StagesOn
    <3>. QED
      BY <3>1, <3>2, LatestIs DEF InTurn, PublicationKept
  <2>. QED
    BY <1>5, <2>1, <2>2
<1>6. ASSUME m.pc \in {"latest", "finishWrite"}, StagesOn(r), EnterFlow(r) \/ CommitFlow(r)
      PROVE  Late(m.i + 1)
  <2>1. m.pc \in Staged
    BY <1>6 DEF Staged
  <2>2. \A j \in 1 .. Len(P) : j < m.i + 1 => j < m.i \/ j = m.i
    BY <1>4, <2>1
  <2>3. P[m.i] = StageOf(m)
    BY DEF StageOf
  <2>. QED
    BY <1>4, <1>5, <1>6, <2>1, <2>2, <2>3
<1>7. ASSUME m.pc = "judge"
      PROVE  Late(m.i + 1)
  <2>1. m.pc \in Judging /\ P[m.i] = "recommendation_select"
    BY <1>0, <1>7 DEF Fits, Judging, StageOf
  <2>2. \A j \in 1 .. Len(P) : j < m.i + 1 => j < m.i \/ j = m.i
    BY <1>4, <2>1
  <2>. QED
    BY <1>4, <2>1, <2>2
<1>8. ASSUME ~Cut(r), n.pc \in Staged \cup Judging
      PROVE  \A j \in 1 .. Len(P) : j < n.i /\ P[j] = last => Recorded
  <2>1. CASE n.i = 1
    BY <2>1
  <2>2. CASE m.pc \in Staged \cup Judging /\ n.i = m.i
    BY <1>4, <2>2
  <2>3. CASE /\ n.i = m.i + 1
             /\ \/ m.pc = "judge"
                \/ m.pc \in {"latest", "finishWrite"} /\ StagesOn(r) /\ (EnterFlow(r) \/ CommitFlow(r))
    BY <1>6, <1>7, <2>3
  <2>4. \/ n.i = 1
        \/ m.pc \in Staged \cup Judging /\ n.i = m.i
        \/ /\ n.i = m.i + 1
           /\ \/ m.pc = "judge"
              \/ m.pc \in {"latest", "finishWrite"} /\ StagesOn(r) /\ (EnterFlow(r) \/ CommitFlow(r))
    BY <1>0, <1>8, EndFlowOver
       DEF Flow, CopyFlow, OpenFlow, EnterFlow, ExecuteFlow, CommitFlow, ErrorFlow, JudgeFlow, CopiesOn, StagesOn,
           Opening, Over, Bears, Stays, Staged, Ahead, Judging
  <2>. QED
    BY <2>1, <2>2, <2>3, <2>4
<1>9. ASSUME ~Cut(r), n.pc = "end"
      PROVE  \A j \in 1 .. Len(P) : P[j] = last => Recorded
  <2>1. CASE m.i = Len(P) /\ m.pc \in Staged \cup Judging /\ Late(m.i + 1)
    <3>1. \A j \in 1 .. Len(P) : j < m.i + 1
      BY <1>4, <2>1
    <3>. QED
      BY <2>1, <3>1
  <2>2. CASE m.pc \in Staged \cup Judging /\ PostProcessing(Stage(r))
    <3>1. Place(StageOf(m)) \in {13, 14} /\ Place(last) = 12
      BY <2>2, AtStage, Numbers DEF PostProcessing
    <3>2. ASSUME NEW j \in 1 .. Len(P), P[j] = last
          PROVE  j < m.i
      <4>1. Place(P[j]) < Place(P[m.i])
        BY <3>1, <3>2 DEF StageOf
      <4>. QED
        BY <1>4, <2>2, <4>1, EarlierInPlan
    <3>. QED
      BY <1>4, <2>2, <3>2
  <2>3. \/ m.pc \in Staged \cup Judging /\ PostProcessing(Stage(r))
        \/ m.i = Len(P) /\ m.pc = "judge"
        \/ m.i = Len(P) /\ m.pc \in {"latest", "finishWrite"} /\ StagesOn(r) /\ (EnterFlow(r) \/ CommitFlow(r))
    BY <1>0, <1>9, EndFlowOver
       DEF Flow, CopyFlow, OpenFlow, EnterFlow, ExecuteFlow, CommitFlow, ErrorFlow, JudgeFlow, CopiesOn, StagesOn,
           Opening, Over
  <2>4. {"judge", "latest", "finishWrite"} \subseteq Staged \cup Judging
    BY DEF Staged, Judging
  <2>. QED
    BY <1>6, <1>7, <2>1, <2>2, <2>3, <2>4
<1>10. CASE ~Cut(r)
  <2>1. n.pc = "publish" => trace'.status = "SUCCESS"
    BY <1>2, <1>10
  <2>2. n.pc \in Ending /\ StageOf(n) = last => Recorded'
    BY <1>3, <1>10
  <2>3. n.pc \in Staged \cup Judging => \A j \in 1 .. Len(P) : j < n.i /\ P[j] = last => Recorded'
    BY <1>0, <1>8, <1>10
  <2>4. n.pc = "end" => \A j \in 1 .. Len(P) : P[j] = last => Recorded'
    BY <1>0, <1>9, <1>10
  <2>5. Plan(n.command) = P
    BY <1>0
  <2>. QED
    BY <2>1, <2>2, <2>3, <2>4, <2>5 DEF IsPast, StageOf
<1>. QED
  BY <1>1, <1>10

\* A run that begins after all others have ended.
LEMMA BeginInTurn ==
  ASSUME Types, InTurn, NEW r \in Runs, Begin(r), ~overlapped'
  PROVE  InTurn'
<1>1. /\ run' = [run EXCEPT ![r] = run'[r]] /\ run'[r] \in RunRow
      /\ run'[r].pc \in {"done", "openRead", "copyRead"} /\ run'[r].memory = {}
      /\ Fits(run'[r]) /\ holder' = r /\ UNCHANGED store /\ run[r].pc = "off"
      /\ \A o \in Runs \ {r} : ~Live(o)
  BY BeginMoves DEF Begin, At
<1>2. \A o \in Runs \ {r} : run'[o] = run[o]
  BY <1>1, Others
<1>3. Alone'
  BY <1>1, <1>2 DEF InTurn, Alone, Live, store
<1>4. Successful'
  <2>1. ~Wrecked(run[r]) /\ run[r].pc # "publish"
    BY <1>1 DEF Wrecked
  <2>2. trace.status = "SUCCESS" =>
          published \/ trace.kind = "NEWS_INGEST" \/ \E o \in Runs : run'[o].pc = "publish" \/ Wrecked(run'[o])
    BY <1>2, <2>1 DEF InTurn, Successful
  <2>. QED
    BY <1>1, <2>2 DEF Successful, Wrecked, StageOf, store
<1>5. PublicationKept'
  BY <1>1 DEF InTurn, PublicationKept, Recorded, store
<1>6. Holds(run[r])'
  BY <1>1 DEF Holds, FindsNothing, HasKind, IsPast, Ending, Staged, Ahead, Judging, Closing, Over
<1>. QED
  BY <1>1, <1>3, <1>4, <1>5, <1>6 DEF InTurn

\* Every other step.
LEMMA StepInTurn ==
  ASSUME Types, Finals, InTurn, NEW r \in Runs, Steps(r)
  PROVE  InTurn'
<1>1. holder = r /\ holder' = r /\ Alone'
  BY AloneStep, StepMoves DEF InTurn, Steps, Moves
<1>2. Holds(run[r])'
  BY FindsNothingStep, HasKindStep, IsPastStep DEF Holds
<1>. QED
  BY <1>1, <1>2, SuccessfulStep, PublicationKeptStep DEF InTurn

\* At first there is nothing to hold.
LEMMA InitSerial == Init => Serial
BY NoneAssumption DEF Init, Serial, InTurn, Alone, Successful, PublicationKept, Live, Fresh

\* Runs follow each other until one overlaps another one.
LEMMA NextSerial ==
  ASSUME Types, Finals, Serial, [Next]_vars
  PROVE  Serial'
<1>1. CASE UNCHANGED vars
  BY <1>1 DEF vars, Serial, InTurn, Alone, Successful, PublicationKept, Holds, FindsNothing, HasKind, IsPast,
              Recorded, Live, Wrecked, StageOf
<1>2. ASSUME NEW r \in Runs, Begin(r)
      PROVE  Serial'
  BY <1>2, BeginInTurn DEF Serial, Begin
<1>3. ASSUME NEW r \in Runs, Steps(r)
      PROVE  Serial'
  BY <1>3, StepInTurn, StepMoves DEF Serial, Steps, Moves
<1>. QED
  BY <1>1, <1>2, <1>3 DEF Next, Steps

\* Whichever plan a run of a daily trace has, it publishes or begins behind the publication.
LEMMA PlanPublishes ==
  ASSUME NEW c \in Commands, c.stop = None, c.start = None \/ "recommendation_publish" \in ToSet(Plan(c))
  PROVE  \E j \in 1 .. Len(Plan(c)) : Plan(c)[j] = "recommendation_publish"
<1>1. CASE "recommendation_publish" \in ToSet(Plan(c))
  BY <1>1 DEF ToSet
<1>2. CASE c.start = None
  <2>1. Lists(Plan(c), Stages)
    BY <1>2, PlanLists DEF Recomputed
  <2>2. "recommendation_publish" \in Stages
    BY StagesByNumber, Numbers, PlaceOfStage DEF Stages, StageIds, ToSet
  <2>. QED
    BY <2>1, <2>2 DEF Lists
<1>. QED
  BY <1>1, <1>2

\* What the step that ends a run well leaves.
Ended(r) ==
  LET command == run'[r].command
  IN \/ trace'.status = "COMPLETE_EMPTY"
     \/ /\ trace'.status = "SUCCESS"
        /\ published' \/ trace'.kind = "NEWS_INGEST" \/ \E o \in Runs \ {r} : Faulty(o)
     \/ command.start # None /\ "recommendation_publish" \notin ToSet(Plan(command))

\* A run that finds its trace complete.
LEMMA BeginEnded ==
  ASSUME Types, InTurn, NEW r \in Runs, Begin(r), run'[r].pc = "done", ~overlapped'
  PROVE  Ended(r)
<1>1. /\ trace.status = "SUCCESS" /\ UNCHANGED store /\ run[r].pc = "off" /\ \A o \in Runs \ {r} : ~Live(o)
  BY BeginMoves DEF Begin, At
<1>2. ASSUME NEW o \in Runs, run[o].pc = "publish" \/ Wrecked(run[o])
      PROVE  o \in Runs \ {r} /\ Faulty(o)
  BY <1>1, <1>2 DEF Wrecked, Live, Faulty, At
<1>3. published \/ trace.kind = "NEWS_INGEST" \/ \E o \in Runs \ {r} : Faulty(o)
  BY <1>1, <1>2 DEF InTurn, Successful
<1>. QED
  BY <1>1, <1>3 DEF Ended, store

\* A run that has come to its end.
LEMMA StepEnded ==
  ASSUME Types, Finals, InTurn, NEW r \in Runs, Steps(r), run'[r].pc = "done", run[r].pc # "done"
  PROVE  Ended(r)
<1>1. /\ holder = r /\ FindsNothing(run[r]) /\ HasKind(run[r]) /\ IsPast(run[r])
      /\ Flow(r) /\ run'[r].command = run[r].command /\ run[r].command \in Commands
      /\ Recorded => Recorded'
  BY AloneStep, Flows, RecordedStays, StepsLive DEF InTurn, Holds, Flow, Types, Fits, Alone
<1>2. JudgeEmpty(r) \/ End(r) \/ (Judge(r) /\ "recommendation_select" \in run[r].memory)
  <2>1. EndFlow(r)
    BY <1>1
       DEF Flow, Cut, CopyFlow, OpenFlow, EnterFlow, ExecuteFlow, CommitFlow, ErrorFlow, JudgeFlow, CopiesOn,
           StagesOn, Opening
  <2>. QED
    BY <2>1 DEF EndFlow
<1>3. CASE JudgeEmpty(r)
  BY <1>3 DEF JudgeEmpty, Types, Ended
<1>4. CASE Judge(r) /\ "recommendation_select" \in run[r].memory
  <2>1. run[r].pc = "judge" /\ trace' = trace
    BY <1>4 DEF Judge, At, store
  <2>2. trace.status = "COMPLETE_EMPTY"
    BY <1>1, <1>4, <2>1 DEF FindsNothing, Over
  <2>. QED
    BY <2>1, <2>2 DEF Ended
<1>5. CASE End(r) /\ run[r].command.stop # None
  <2>1. run[r].pc = "end" /\ trace' = [trace EXCEPT !.status = "SUCCESS"]
    BY <1>5 DEF End, At, CompletesAtEnd, Completed
  <2>2. trace'.status = "SUCCESS" /\ trace'.kind = trace.kind
    BY <2>1 DEF Types
  <2>3. trace.kind = "NEWS_INGEST"
    BY <1>1, <1>5, <2>1 DEF HasKind, Closing, Kinded, KindOf
  <2>. QED
    BY <2>2, <2>3 DEF Ended
<1>6. CASE End(r) /\ run[r].command.stop = None
  <2>1. run[r].pc = "end"
    BY <1>6 DEF End, At
  <2>2. CASE run[r].command.start # None /\ "recommendation_publish" \notin ToSet(Plan(run[r].command))
    BY <1>1, <2>2 DEF Ended
  <2>3. CASE run[r].command.start = None \/ "recommendation_publish" \in ToSet(Plan(run[r].command))
    <3>1. Recorded
      BY <1>1, <1>6, <2>1, <2>3, PlanPublishes DEF IsPast
    <3>. QED
      BY <1>1, <3>1 DEF Recorded, Ended
  <2>. QED
    BY <2>2, <2>3
<1>. QED
  BY <1>2, <1>3, <1>4, <1>5, <1>6

\* A step that ends a run, while runs follow each other.
LEMMA NextEnded ==
  ASSUME Types, Finals, Serial, [Next]_vars
  PROVE  \A r \in Runs : At(r, "done")' /\ ~At(r, "done") /\ ~overlapped' => Ended(r)
<1>. SUFFICES ASSUME NEW r \in Runs, run'[r].pc = "done", run[r].pc # "done", ~overlapped'
              PROVE  Ended(r)
  BY DEF At
<1>1. PICK o \in Runs : Begin(o) \/ Steps(o)
  BY DEF Next, Steps, vars
<1>2. o = r
  BY <1>1, BeginMoves, StepMoves, Others DEF Steps, Moves
<1>3. ~overlapped
  BY <1>1, StepMoves DEF Begin, Steps, Moves
<1>. QED
  BY <1>1, <1>2, <1>3, BeginEnded, StepEnded DEF Serial

\* Runs follow each other, in every behaviour, until one overlaps another one.
LEMMA SerialHolds == Spec => [](Types /\ Finals /\ Serial)
<1>1. Init => Types /\ Finals /\ Serial
  BY InitTypes, InitFinals, InitSerial
<1>2. Types /\ Finals /\ Serial /\ [Next]_vars => (Types /\ Finals /\ Serial)'
  BY NextTypes, NextFinals, NextSerial
<1>. QED
  BY <1>1, <1>2, PTL DEF Spec

\* A run that ends well leaves a trace that says so, and one that is published unless
\* it only took in news, its first run was cut short, or it begins behind the publication.
THEOREM EveryEndIsRecorded == Spec => EndIsRecorded
<1>. DEFINE Step == \A r \in Runs : At(r, "done")' /\ ~At(r, "done") /\ ~overlapped' =>
       LET command == run'[r].command
       IN \/ trace'.status = "COMPLETE_EMPTY"
          \/ /\ trace'.status = "SUCCESS"
             /\ published' \/ trace'.kind = "NEWS_INGEST" \/ \E o \in Runs \ {r} : Faulty(o)
          \/ command.start # None /\ "recommendation_publish" \notin ToSet(Plan(command))
<1>1. Types /\ Finals /\ Serial /\ [Next]_vars => [Step]_vars
  BY NextEnded DEF Ended
<1>. HIDE DEF Step
<1>2. Spec => [][Step]_vars
  BY <1>1, SerialHolds, PTL DEF Spec
<1>. QED
  BY <1>2 DEF Step, EndIsRecorded

-----------------------------------------------------------------------------
(* Why a run is refused: commands and errors *)

\* Errors that refuse a run.
Refusals == {"identity", "transition", "missing", "differs", "lease", "conflict"}

\* A command that can be carried out.
Workable(c) == c \in Commands /\ c.start \notin DeadEnds /\ ToSet(Copies(c)) \subseteq SourceStages

\* The run goes on when post-processing has the error; with any other it will end.
Spared(m) == m.pc \in {"markRead", "markWrite"} /\ PostProcessing(StageOf(m))
Erring(m) == m.error # None /\ ~Spared(m)

\* Where a run has an error.
Troubled == {"markRead", "markWrite", "stopRead", "stopWrite", "failed"}
Placed(m) ==
  /\ m.error # None => m.pc \in Troubled
  /\ m.pc = "failed" => m.error # None
ErrorsPlaced == \A r \in Runs : Placed(run[r])

\* What is recomputed is not kept; what publication and the handlers with a memory
\* rest on is recomputed with them, unless the plan begins at a dead end.
LEMMA PlanOfWorkable ==
  ASSUME NEW c \in Commands
  PROVE  /\ Recomputed(c) \subseteq Stages /\ Kept(c) \subseteq Stages /\ Recomputed(c) \cap Kept(c) = {}
         /\ c.start \notin DeadEnds =>
              /\ "recommendation_publish" \in Recomputed(c) => "recommendation_select" \in Recomputed(c)
              /\ "news_prepare" \in Recomputed(c) => "news_fetch" \in Recomputed(c)
              /\ "causal_extract" \in Recomputed(c) => "news_prepare" \in Recomputed(c)
              /\ "graph_snapshot" \in Recomputed(c) => "news_prepare" \in Recomputed(c)
<1>0. Stages = {"news_fetch", "news_prepare", "exposure_refresh", "causal_extract", "graph_snapshot",
                "market_features", "expectation_gap", "theme_forecast", "penalty_refresh", "evidence_score",
                "recommendation_select", "recommendation_publish", "reconciliation", "strategy_evaluation"}
  BY DEF Stages, StageIds, ToSet
<1>1. CASE c.start # None
  <2>0. c.start \in Stages
    BY <1>1, CommandType
  <2>. DEFINE I == Invalidated[c.start]
  <2>1. /\ I \subseteq Stages
        /\ \A t \in I : t = c.start \/ \E d \in Dependencies[t] : d \in I
    BY <2>0, InvalidatedFacts
  <2>2. Recomputed(c) = I /\ Kept(c) = Stages \ I
    BY <1>1 DEF Recomputed, Kept
  <2>. HIDE DEF I
  <2>3. /\ Dependencies["recommendation_publish"] = {"recommendation_select"}
        /\ Dependencies["news_prepare"] = {"news_fetch"}
        /\ Dependencies["causal_extract"] = {"news_prepare"}
        /\ Dependencies["graph_snapshot"] = {"causal_extract"}
    BY <1>0 DEF Dependencies
  <2>. QED
    BY <2>1, <2>2, <2>3 DEF DeadEnds
<1>2. CASE c.start = None /\ c.stop # None
  <2>0. c.stop \in Stages /\ Place(c.stop) \in 1 .. 14
    BY <1>2, CommandType, PlaceOfStage
  <2>1. Recomputed(c) = {s \in Stages : Place(s) <= Place(c.stop)} /\ Kept(c) = {}
    BY <1>2 DEF Recomputed, Kept
  <2>. QED
    BY <1>0, <2>0, <2>1, Numbers
<1>3. CASE c.start = None /\ c.stop = None
  BY <1>0, <1>3 DEF Recomputed, Kept
<1>. QED
  BY <1>1, <1>2, <1>3

\* The stage of a run is one that its command recomputes.
LEMMA StageIsRecomputed ==
  ASSUME Types, NEW r \in Runs, run[r].pc \in Staged \cup Judging
  PROVE  Stage(r) = StageOf(run[r]) /\ Stage(r) \in Recomputed(run[r].command) /\ Stage(r) \in Stages
BY AtStage, PlanLists DEF Lists, StageOf

\* What a step does to the error and the memory of a row.
Persists(r) ==
  /\ run'[r].error \in {None, run[r].error}
  /\ Erring(run[r]) => run'[r].pc = "dead" \/ Erring(run'[r])
Errs(r) ==
  /\ Placed(run'[r])
  /\ run'[r].pc \notin Over => run[r].memory \subseteq run'[r].memory
  /\ run[r].error # None => Persists(r)

\* A run that leaves takes its error with it.
LEMMA LeaveErrs ==
  ASSUME Types, NEW r \in Runs, Placed(run[r]), NEW pc \in Over, NEW e \in Error \cup {None}, run[r].pc # "off",
         Leave(r, pc, e),
         pc = "failed" <=> e # None, run[r].error # None => pc = "dead" \/ e = run[r].error
  PROVE  Errs(r)
<1>1. run'[r].pc = pc /\ run'[r].error = e /\ pc # "markRead" /\ pc # "markWrite"
  BY LeaveMoves DEF Over
<1>. QED
  BY <1>1 DEF Errs, Persists, Placed, Troubled, Erring, Spared

\* An error that is caught is the first one.
LEMMA CaughtErrs ==
  ASSUME Types, NEW r \in Runs, Placed(run[r]), run[r].pc \in Staged \ Troubled, UNCHANGED lease,
         NEW e \in Error, Become(r, Caught(r, e))
  PROVE  Errs(r)
BY CaughtMoves, CaughtRow DEF Errs, Placed, Troubled

\* An error that leaves the stage is a new one, or the one that was caught.
LEMMA ThrownErrs ==
  ASSUME Types, NEW r \in Runs, Placed(run[r]), run[r].pc \in Staged \cup Judging, UNCHANGED lease,
         NEW e \in Error, Become(r, Thrown(r, e)), run[r].error # None => e = run[r].error
  PROVE  Errs(r)
<1>1. run'[r] = Thrown(r, e)
  BY ThrownMoves
<1>2. /\ run'[r].memory = run[r].memory
      /\ \/ run'[r].pc = "end" /\ run'[r].error = None /\ PostProcessing(Stage(r))
         \/ run'[r].pc = "stopRead" /\ run'[r].error = e /\ ~PostProcessing(Stage(r))
  BY <1>1, ThrownRow
<1>3. Stage(r) = StageOf(run[r])
  BY AtStage
<1>4. run[r].error # None => run[r].pc \in {"markRead", "markWrite"}
  BY DEF Placed, Troubled, Staged, Ahead, Judging
<1>. QED
  BY <1>2, <1>3, <1>4, NoneIsNothing DEF Errs, Persists, Placed, Troubled, Erring, Spared

\* A row that keeps its error and its memory, where it has no error.
LEMMA OtherErrs ==
  ASSUME NEW r \in Runs, Placed(run[r]), run[r].pc \notin Troubled, run'[r].error = run[r].error,
         run[r].memory \subseteq run'[r].memory, run'[r].pc # "failed"
  PROVE  Errs(r)
BY DEF Errs, Placed

\* A row with a new place keeps them.
LEMMA GotoErrs ==
  ASSUME Types, NEW r \in Runs, NEW pc, Goto(r, pc)
  PROVE  run'[r].pc = pc /\ run'[r].i = run[r].i /\ run'[r].command = run[r].command
         /\ run'[r].error = run[r].error /\ run'[r].memory = run[r].memory
BY DEF Types, Goto, Become, RunRow

\* Copying and opening.
LEMMA CopyErrs ==
  ASSUME Types, NEW r \in Runs, Placed(run[r]),
         CopyRead(r) \/ CopyWrite(r) \/ CarryOver(r) \/ OpenRead(r) \/ OpenWrite(r)
  PROVE  Errs(r)
<1>1. run[r].pc \in Copying \cup Opening /\ run[r].pc \notin Troubled /\ run[r].pc # "off" /\ run[r].error = None
      /\ run[r] \in RunRow
  BY DEF CopyRead, CopyWrite, CarryOver, OpenRead, OpenWrite, At, Copying, Opening, Troubled, Placed, Types
<1>2. {"missing", "differs", "conflict", "identity"} \subseteq Error
  BY DEF Error
<1>3. \/ \E e \in Error : Leave(r, "failed", e)
      \/ run[r].pc \in Copying /\ UNCHANGED lease /\ Become(r, NextCopy(r))
      \/ \E pc \in {"copyWrite", "openRead", "openWrite", "upstream"} : Goto(r, pc)
  <2>1. CASE CopyRead(r)
    BY <1>2, <2>1 DEF CopyRead, At, Copying
  <2>2. CASE CopyWrite(r)
    BY <1>2, <2>2 DEF CopyWrite, At, Copying
  <2>3. CASE CarryOver(r) \/ OpenRead(r) \/ OpenWrite(r)
    BY <1>2, <2>3 DEF CarryOver, OpenRead, OpenWrite
  <2>. QED
    BY <2>1, <2>2, <2>3
<1>4. CASE \E e \in Error : Leave(r, "failed", e)
  BY <1>1, <1>4, LeaveErrs, NoneIsNothing DEF Over
<1>5. CASE run[r].pc \in Copying /\ UNCHANGED lease /\ Become(r, NextCopy(r))
  <2>1. run'[r].error = run[r].error /\ run'[r].memory = run[r].memory /\ run'[r].pc \in {"carry", "copyRead"}
    BY <1>5, NextCopyMoves, NextCopyRow
  <2>. QED
    BY <1>1, <2>1, OtherErrs
<1>6. CASE \E pc \in {"copyWrite", "openRead", "openWrite", "upstream"} : Goto(r, pc)
  BY <1>1, <1>6, GotoErrs, OtherErrs
<1>. QED
  BY <1>3, <1>4, <1>5, <1>6

\* Reusing or entering a stage.
LEMMA EnterErrs ==
  ASSUME Types, NEW r \in Runs, Placed(run[r]), ReadUpstream(r) \/ ReadLatest(r) \/ EnterRead(r) \/ EnterWrite(r)
  PROVE  Errs(r)
<1>1. run[r].pc \in Staged /\ run[r].pc \notin Troubled /\ run[r].error = None /\ run[r] \in RunRow
  BY DEF ReadUpstream, ReadLatest, EnterRead, EnterWrite, At, Staged, Ahead, Troubled, Placed, Types
<1>2. {"transition", "conflict"} \subseteq Error
  BY DEF Error
<1>3. CASE ReadUpstream(r)
  <2>1. run'[r] = [run[r] EXCEPT !.pc = "latest", !.upstream = UpstreamOf(Stage(r))]
    BY <1>3 DEF ReadUpstream, Become, Types
  <2>2. run'[r].pc = "latest" /\ run'[r].error = run[r].error /\ run'[r].memory = run[r].memory
    BY <1>1, <2>1 DEF RunRow
  <2>. QED
    BY <1>1, <2>2, OtherErrs
<1>4. CASE ReadLatest(r)
  <2>. DEFINE v == IF Stored(Stage(r)) THEN Latest(Stage(r)).version + 1 ELSE 1
  <2>1. UNCHANGED lease /\ (Become(r, Advanced(r)) \/ Become(r, [run[r] EXCEPT !.pc = "enterRead", !.version = v]))
    BY <1>4 DEF ReadLatest
  <2>. HIDE DEF v
  <2>2. CASE Become(r, Advanced(r))
    <3>1. run'[r].error = run[r].error /\ run'[r].memory = run[r].memory /\ run'[r].pc \in {"judge", "end", "upstream"}
      BY <1>1, <2>1, <2>2, AdvancedMoves, AdvancedRow
    <3>. QED
      BY <1>1, <3>1, OtherErrs
  <2>3. CASE Become(r, [run[r] EXCEPT !.pc = "enterRead", !.version = v])
    <3>1. run'[r] = [run[r] EXCEPT !.pc = "enterRead", !.version = v]
      BY <2>3 DEF Become, Types
    <3>2. run'[r].pc = "enterRead" /\ run'[r].error = run[r].error /\ run'[r].memory = run[r].memory
      BY <1>1, <3>1 DEF RunRow
    <3>. QED
      BY <1>1, <3>2, OtherErrs
  <2>. QED
    BY <2>1, <2>2, <2>3
<1>5. CASE EnterRead(r)
  <2>. DEFINE s == step[Stage(r)]
  <2>1. UNCHANGED lease /\ (Become(r, [run[r] EXCEPT !.pc = "enterWrite", !.status = s]) \/ Become(r, Thrown(r, "transition")))
    BY <1>5 DEF EnterRead
  <2>. HIDE DEF s
  <2>2. CASE Become(r, [run[r] EXCEPT !.pc = "enterWrite", !.status = s])
    <3>1. run'[r] = [run[r] EXCEPT !.pc = "enterWrite", !.status = s]
      BY <2>2 DEF Become, Types
    <3>2. run'[r].pc = "enterWrite" /\ run'[r].error = run[r].error /\ run'[r].memory = run[r].memory
      BY <1>1, <3>1 DEF RunRow
    <3>. QED
      BY <1>1, <3>2, OtherErrs
  <2>. QED
    BY <1>1, <1>2, <2>1, <2>2, ThrownErrs
<1>6. CASE EnterWrite(r)
  <2>1. UNCHANGED lease /\ (Goto(r, "execute") \/ Become(r, Thrown(r, "conflict")))
    BY <1>6 DEF EnterWrite
  <2>2. CASE Goto(r, "execute")
    BY <1>1, <2>2, GotoErrs, OtherErrs
  <2>. QED
    BY <1>1, <1>2, <2>1, <2>2, ThrownErrs
<1>. QED
  BY <1>3, <1>4, <1>5, <1>6

\* Executing a stage.
LEMMA ExecutingErrs ==
  ASSUME Types, NEW r \in Runs, Placed(run[r]), Executing(r)
  PROVE  Errs(r)
<1>1. run[r].pc \in Staged /\ run[r].pc \notin Troubled /\ run[r].error = None /\ run[r] \in RunRow
  BY DEF Executing, Refuse, Work, ArtifactStart, ArtifactWrite, ArtifactCommit, Score, Recommend, Select,
         RecordEmpty, StartPublish, Complete, Publish, Executes, At, Staged, Ahead, Troubled, Placed, Types
<1>2. {"lease", "missing", "conflict", "empty", "aiPaused", "aiAttention"} \subseteq Error
  BY DEF Error
<1>3. /\ UNCHANGED lease
      /\ \/ \E e \in Error : Become(r, Caught(r, e))
         \/ Become(r, Worked(r))
         \/ \E pc \in {"recommend", "empty", "complete", "commitRead", "artifactWrite", "artifactCommit", "publish"} :
              Goto(r, pc)
  <2>1. CASE Refuse(r) \/ Work(r) \/ ArtifactStart(r) \/ Recommend(r)
    BY <1>2, <2>1 DEF Refuse, Work, ArtifactStart, Recommend, lease
  <2>2. CASE Score(r) \/ ArtifactWrite(r) \/ ArtifactCommit(r)
    BY <1>2, <2>2 DEF Score, ArtifactWrite, ArtifactCommit, lease
  <2>3. CASE Select(r)
    <3>1. UNCHANGED lease /\ (Goto(r, "commitRead") \/ Goto(r, "empty") \/ Become(r, Caught(r, "empty")))
      BY <2>3 DEF Select, Goto
    <3>. QED
      BY <1>2, <3>1
  <2>4. CASE RecordEmpty(r) \/ StartPublish(r) \/ Complete(r) \/ Publish(r)
    BY <2>4 DEF RecordEmpty, StartPublish, Complete, Publish, lease
  <2>. QED
    BY <2>1, <2>2, <2>3, <2>4 DEF Executing
<1>4. CASE \E e \in Error : Become(r, Caught(r, e))
  BY <1>1, <1>3, <1>4, CaughtErrs
<1>5. CASE Become(r, Worked(r))
  <2>1. run'[r].pc = "commitRead" /\ run'[r].error = run[r].error /\ run[r].memory \subseteq run'[r].memory
    BY <1>1, <1>3, <1>5, WorkedMoves, WorkedRow
  <2>. QED
    BY <1>1, <2>1, OtherErrs
<1>6. CASE \E pc \in {"recommend", "empty", "complete", "commitRead", "artifactWrite", "artifactCommit", "publish"} :
             Goto(r, pc)
  BY <1>1, <1>6, GotoErrs, OtherErrs
<1>. QED
  BY <1>3, <1>4, <1>5, <1>6

\* Committing and finishing a stage, or marking it.
LEMMA CommitErrs ==
  ASSUME Types, NEW r \in Runs, Placed(run[r]),
         CommitRead(r) \/ CommitWrite(r) \/ FinishRead(r) \/ FinishWrite(r) \/ MarkRead(r) \/ MarkWrite(r)
  PROVE  Errs(r)
<1>1. run[r].pc \in Staged /\ run[r] \in RunRow /\ UNCHANGED lease
  BY DEF CommitRead, CommitWrite, FinishRead, FinishWrite, MarkRead, MarkWrite, At, Staged, Ahead, Types, lease
<1>2. {"lease", "conflict", "transition"} \subseteq Error
  BY DEF Error
<1>3. CASE MarkRead(r) \/ MarkWrite(r)
  <2>1. run[r].pc \in {"markRead", "markWrite"} /\ run[r].error \in Error
    BY <1>3 DEF MarkRead, MarkWrite, At, Fits, RunRow, Types
  <2>2. Become(r, Thrown(r, run[r].error)) \/ Goto(r, "markWrite")
    BY <1>3 DEF MarkRead, MarkWrite, Goto
  <2>3. CASE Goto(r, "markWrite")
    <3>1. run'[r].pc = "markWrite" /\ run'[r].i = run[r].i /\ run'[r].command = run[r].command
          /\ run'[r].error = run[r].error /\ run'[r].memory = run[r].memory
      BY <2>3, GotoErrs
    <3>. QED
      BY <2>1, <3>1 DEF Errs, Persists, Placed, Troubled, Erring, Spared, StageOf
  <2>. QED
    BY <1>1, <2>1, <2>2, <2>3, ThrownErrs
<1>4. CASE ~(MarkRead(r) \/ MarkWrite(r))
  <2>1. run[r].pc \notin Troubled /\ run[r].error = None
    BY <1>4 DEF CommitRead, CommitWrite, FinishRead, FinishWrite, At, Troubled, Placed
  <2>2. \/ \E e \in Error : Become(r, Caught(r, e))
        \/ \E pc \in {"finishRead", "commitWrite", "finishWrite"} : Goto(r, pc)
        \/ Become(r, Advanced(r))
    <3>1. CASE CommitRead(r)
      <4>1. Goto(r, "finishRead") \/ Goto(r, "commitWrite") \/ Become(r, Caught(r, "conflict")) \/ Become(r, Caught(r, "lease"))
        BY <3>1 DEF CommitRead, Goto
      <4>. QED
        BY <1>2, <4>1
    <3>. QED
      BY <1>2, <1>4, <3>1 DEF CommitWrite, FinishRead, FinishWrite
  <2>3. CASE \E e \in Error : Become(r, Caught(r, e))
    BY <1>1, <2>1, <2>3, CaughtErrs
  <2>4. CASE \E pc \in {"finishRead", "commitWrite", "finishWrite"} : Goto(r, pc)
    BY <2>1, <2>4, GotoErrs, OtherErrs
  <2>5. CASE Become(r, Advanced(r))
    <3>1. run'[r].error = run[r].error /\ run'[r].memory = run[r].memory /\ run'[r].pc \in {"judge", "end", "upstream"}
      BY <1>1, <2>5, AdvancedMoves, AdvancedRow
    <3>. QED
      BY <2>1, <3>1, OtherErrs
  <2>. QED
    BY <2>2, <2>3, <2>4, <2>5
<1>. QED
  BY <1>3, <1>4

\* The judgement and the ends.
LEMMA JudgeErrs ==
  ASSUME Types, NEW r \in Runs, Placed(run[r]), Judge(r) \/ JudgeEmpty(r) \/ End(r) \/ StopRead(r) \/ StopWrite(r)
  PROVE  Errs(r)
<1>1. run[r].pc \in {"judge", "judgeEmpty", "end", "stopRead", "stopWrite"} /\ run[r].pc # "off" /\ run[r] \in RunRow
  BY DEF Judge, JudgeEmpty, End, StopRead, StopWrite, At, Types
<1>2. CASE StopRead(r) \/ StopWrite(r)
  <2>1. run[r].pc \in {"stopRead", "stopWrite"} /\ run[r].error \in Error
    BY <1>2 DEF StopRead, StopWrite, At, Fits, RunRow, Types
  <2>2. Leave(r, "failed", run[r].error) \/ Goto(r, "stopWrite")
    BY <1>2 DEF StopRead, StopWrite
  <2>3. CASE Leave(r, "failed", run[r].error)
    BY <1>1, <2>1, <2>3, LeaveErrs, NoneIsNothing DEF Over
  <2>4. CASE Goto(r, "stopWrite")
    <3>1. run'[r].pc = "stopWrite" /\ run'[r].error = run[r].error /\ run'[r].memory = run[r].memory
      BY <2>4, GotoErrs
    <3>. QED
      BY <2>1, <3>1 DEF Errs, Persists, Placed, Troubled, Erring, Spared
  <2>. QED
    BY <2>2, <2>3, <2>4
<1>3. CASE Judge(r) \/ JudgeEmpty(r) \/ End(r)
  <2>1. run[r].pc \notin Troubled /\ run[r].error = None
    BY <1>3 DEF Judge, JudgeEmpty, End, At, Troubled, Placed
  <2>2. \/ Leave(r, "done", None)
        \/ \E pc \in {"end", "judgeEmpty"} : Goto(r, pc)
        \/ Become(r, [run[r] EXCEPT !.pc = "upstream", !.i = run[r].i + 1])
        \/ run[r].pc \in Judging /\ UNCHANGED lease /\ Become(r, Thrown(r, "empty"))
    BY <1>1, <1>3 DEF Judge, JudgeEmpty, End, At, Goto, Judging, RunRow
  <2>3. CASE Leave(r, "done", None)
    BY <1>1, <2>1, <2>3, LeaveErrs DEF Over
  <2>4. CASE \E pc \in {"end", "judgeEmpty"} : Goto(r, pc)
    BY <2>1, <2>4, GotoErrs, OtherErrs
  <2>5. CASE Become(r, [run[r] EXCEPT !.pc = "upstream", !.i = run[r].i + 1])
    <3>1. run'[r].pc = "upstream" /\ run'[r].error = run[r].error /\ run'[r].memory = run[r].memory
      BY <1>1, <2>5 DEF Become, Types, RunRow
    <3>. QED
      BY <2>1, <3>1, OtherErrs
  <2>6. CASE run[r].pc \in Judging /\ UNCHANGED lease /\ Become(r, Thrown(r, "empty"))
    BY <2>1, <2>6, ThrownErrs DEF Error
  <2>. QED
    BY <2>2, <2>3, <2>4, <2>5, <2>6
<1>. QED
  BY <1>2, <1>3

\* Faults.
LEMMA FailErrs ==
  ASSUME Types, NEW r \in Runs, Placed(run[r]), Fail(r) \/ Crash(r) \/ Cut(r)
  PROVE  Errs(r)
<1>1. run[r] \in RunRow /\ Fits(run[r]) /\ run[r].error \in Error \cup {None} /\ "fault" \in Error
  BY DEF Types, RunRow, Error
<1>2. CASE Crash(r)
  <2>1. run[r].pc # "off" /\ Leave(r, "dead", None)
    BY <1>2 DEF Crash, Live
  <2>. QED
    BY <2>1, LeaveErrs DEF Over
<1>3. CASE Cut(r)
  BY <1>3 DEF Cut, Errs, Persists
<1>4. CASE Fail(r) /\ run[r].pc \in Troubled
  <2>1. run[r].error \in Error /\ run[r].pc # "off"
    BY <1>1, <1>4 DEF Fits, Troubled, Placed
  <2>2. \/ Leave(r, "failed", run[r].error)
        \/ run[r].pc \in Staged /\ UNCHANGED lease /\ Become(r, Thrown(r, run[r].error))
    BY <1>4 DEF Fail, Troubled, Staged
  <2>3. CASE Leave(r, "failed", run[r].error)
    BY <2>1, <2>3, LeaveErrs, NoneIsNothing DEF Over
  <2>. QED
    BY <2>1, <2>2, <2>3, ThrownErrs
<1>5. CASE Fail(r) /\ run[r].pc \notin Troubled
  <2>1. run[r].error = None
    BY <1>5 DEF Placed
  <2>2. \/ Leave(r, "failed", "fault") /\ run[r].pc # "off"
        \/ run[r].pc \in Staged /\ UNCHANGED lease /\ Become(r, Thrown(r, "fault"))
        \/ run[r].pc \in Staged /\ UNCHANGED lease /\ Become(r, Caught(r, "fault"))
        \/ Become(r, [run[r] EXCEPT !.pc = "stopRead", !.error = "fault"])
    BY <1>5 DEF Fail, Troubled, Staged, Ahead
  <2>3. CASE Leave(r, "failed", "fault") /\ run[r].pc # "off"
    BY <1>1, <2>1, <2>3, LeaveErrs, NoneIsNothing DEF Over
  <2>4. CASE Become(r, [run[r] EXCEPT !.pc = "stopRead", !.error = "fault"])
    <3>1. run'[r].pc = "stopRead" /\ run'[r].memory = run[r].memory
      BY <1>1, <2>4 DEF Become, Types, RunRow
    <3>. QED
      BY <2>1, <3>1 DEF Errs, Placed, Troubled
  <2>. QED
    BY <1>1, <1>5, <2>1, <2>2, <2>3, <2>4, ThrownErrs, CaughtErrs
<1>. QED
  BY <1>2, <1>3, <1>4, <1>5

\* Every step keeps an error where it belongs, and what a process remembers.
LEMMA StepErrs ==
  ASSUME Types, NEW r \in Runs, Placed(run[r]), Steps(r)
  PROVE  Errs(r)
BY CopyErrs, EnterErrs, ExecutingErrs, CommitErrs, JudgeErrs, FailErrs DEF Steps, Proceed

-----------------------------------------------------------------------------
(* Why a run is refused: what a trace holds between runs of one command *)

\* All that has been run is of one command, and nothing has gone wrong.
Smooth(c) == \A o \in Runs : run[o].pc = "off" \/ (run[o].command = c /\ run[o].pc # "dead" /\ ~Erring(run[o]))

\* The stages up to the selection, and the rows that two of them leave.
Early(c) == {s \in Recomputed(c) : Place(s) <= Place("recommendation_select")}
RowOf == [s \in {"causal_extract", "graph_snapshot"} |-> IF s = "causal_extract" THEN "candidates" ELSE "graph"]

\* The run that the lease row names is going on; between the entry of a stage and its commit.
Going == holder \in Runs /\ Live(holder)
Entered == Ahead \ {"enterRead", "enterWrite"}

\* Copies are as in the source trace, and the trace is of the kind of the command.
KeptAgree(c) == \A a \in artifacts : a.stage \in Kept(c) => a.content = Produced(a.stage, None)
KindAgrees(c) == trace.status # "absent" => trace.kind = KindOf(c)

\* A stage that is there can be reused; one that is not has not been entered, except by
\* the run that is at it.
Reusable(c) == \A s \in Recomputed(c) : Has(artifacts, s) => Built(artifacts, s) /\ Newest(artifacts, s).input = c
Untouched(c) ==
  \A s \in Recomputed(c) : ~PostProcessing(s) /\ ~Has(artifacts, s) =>
    step[s] = "absent" \/ (Going /\ Owner.pc \in Entered /\ StageOf(Owner) = s)

\* A stage that is there has left its rows, and was executed by the process that goes
\* on, unless all that another one could need of a handler's memory is there.
RowsLeft(c) == \A s \in Recomputed(c) \cap DOMAIN RowOf : Has(artifacts, s) => RowOf[s] \in rows
ByOne(c) ==
  \/ trace.status = "SUCCESS"
  \/ \A s \in Early(c) : Has(artifacts, s)
  \/ \A s \in Early(c) : Has(artifacts, s) => Going /\ s \in Owner.memory

Inherited(c) == KeptAgree(c) /\ KindAgrees(c) /\ Reusable(c) /\ Untouched(c) /\ RowsLeft(c) /\ ByOne(c)

\* What a run finds at its stage: that it is not there yet, and marked as entered; that it is one
\* that has such a place; and what its handler has left before the commit.
Uncommitted(m) == m.pc \in Ahead => ~Has(artifacts, StageOf(m))
Underway(m) == m.pc \in Entered \cup {"finishRead"} => step[StageOf(m)] \in {"RUNNING", "SUCCESS"}
Handled(m) ==
  /\ m.pc \in {"artifactWrite", "artifactCommit"} => StageOf(m) \in ArtifactStages
  /\ m.pc = "recommend" => StageOf(m) = "evidence_score"
Accomplished(m) ==
  m.pc \in {"commitRead", "commitWrite"} =>
    /\ StageOf(m) # "recommendation_select" => StageOf(m) \in m.memory
    /\ StageOf(m) \in DOMAIN RowOf => RowOf[StageOf(m)] \in rows

\* The rows that are carried over, the recommendations to be published, and at the end the
\* stages up to the selection.
Carried(m) ==
  m.pc \in {"openRead", "openWrite"} \cup Staged \cup Judging =>
    \A s \in Kept(m.command) \cap DOMAIN RowOf : RowOf[s] \in rows
Selected(m) == m.pc \in Staged /\ StageOf(m) = "recommendation_publish" => "snapshot" \in rows
Through(m) == m.pc = "end" => \A s \in Early(m.command) : Has(artifacts, s)

OnTrack(m) ==
  /\ Uncommitted(m) /\ Underway(m) /\ Handled(m) /\ Accomplished(m)
  /\ Carried(m) /\ Selected(m) /\ Through(m)

\* Recommendations are published by what completes the trace.
ReleasedLast == "released" \in rows => trace.status = "SUCCESS"

\* Runs of a command that can be carried out, one after the other and with no disturbance.
Resumable ==
  ~overlapped =>
    /\ ReleasedLast
    /\ \A c \in Commands : Workable(c) /\ Smooth(c) => Inherited(c) /\ (Going => OnTrack(Owner))

-----------------------------------------------------------------------------
(* Why a run is refused: no handler refuses a run that is on track *)

\* What lies behind the stage of a run is there.
LEMMA BehindStage ==
  ASSUME Types, NEW r \in Runs, run[r].pc \in Staged \cup Judging, Leading(artifacts, run[r])
  PROVE  /\ \A t \in Stages : Place(t) < Place(StageOf(run[r])) => Built(artifacts, t)
         /\ \A t \in Stages : Place(t) < Place(StageOf(run[r])) =>
              t \in Recomputed(run[r].command) \/ t \in Kept(run[r].command)
<1>1. /\ run[r].command \in Commands /\ run[r].i \in 1 .. Len(Plan(run[r].command))
      /\ Copies2(artifacts, run[r]) /\ Behind(artifacts, run[r])
  BY AtStage DEF Leading
<1>2. \A t \in Stages : Place(t) < Place(StageOf(run[r])) => Built(artifacts, t)
  BY <1>1, EarlierBuilt
<1>3. ASSUME NEW t \in Stages, Place(t) < Place(StageOf(run[r]))
      PROVE  t \in Recomputed(run[r].command) \/ t \in Kept(run[r].command)
  <2>1. \/ \E j \in 1 .. Len(Plan(run[r].command)) : j < run[r].i /\ Plan(run[r].command)[j] = t
        \/ \E j \in 1 .. Len(Copies(run[r].command)) : Copies(run[r].command)[j] = t
    BY <1>1, <1>3, PlanFacts DEF StageOf
  <2>. QED
    BY <1>1, <2>1, PlanLists DEF Lists
<1>. QED
  BY <1>2, <1>3

\* The rows of an earlier stage are there.
LEMMA RowsOfEarlier ==
  ASSUME Types, NEW r \in Runs, run[r].pc \in Staged, Leading(artifacts, run[r]),
         RowsLeft(run[r].command), Carried(run[r])
  PROVE  /\ Place(StageOf(run[r])) > 4 => "candidates" \in rows
         /\ Place(StageOf(run[r])) > 5 => "graph" \in rows
<1>0. {"causal_extract", "graph_snapshot"} \subseteq Stages
  BY DEF Stages, StageIds, ToSet
<1>1. /\ \A t \in Stages : Place(t) < Place(StageOf(run[r])) => Has(artifacts, t)
      /\ \A t \in Stages : Place(t) < Place(StageOf(run[r])) =>
           t \in Recomputed(run[r].command) \/ t \in Kept(run[r].command)
  BY BehindStage DEF Built
<1>2. \A t \in DOMAIN RowOf : t \in Stages /\ Place(t) < Place(StageOf(run[r])) => RowOf[t] \in rows
  BY <1>1 DEF RowsLeft, Carried
<1>3. DOMAIN RowOf = {"causal_extract", "graph_snapshot"}
      /\ RowOf["causal_extract"] = "candidates" /\ RowOf["graph_snapshot"] = "graph"
  BY DEF RowOf
<1>4. StageOf(run[r]) \in Stages /\ Place(StageOf(run[r])) \in 1 .. 14
  BY AtStage, PlaceOfStage
<1>. QED
  BY <1>0, <1>2, <1>3, <1>4, Numbers

\* A handler finds the rows and the memory that it needs.
LEMMA Supplies ==
  ASSUME Types, Finals, InTurn, NEW r \in Runs, Steps(r), run[r].pc = "execute", Leading(artifacts, run[r]),
         Workable(run[r].command), Inherited(run[r].command), OnTrack(run[r])
  PROVE  Supplied(r, Stage(r))
<1>. DEFINE m == run[r]
            s == StageOf(run[r])
<1>0. holder = r /\ late = {}
  BY AloneStep DEF InTurn, Alone
<1>1. run[r].pc \in Staged /\ run[r].pc \in Ahead /\ Stage(r) = s /\ s \in Recomputed(m.command) /\ s \in Stages
      /\ m.command \in Commands
  BY StageIsRecomputed, AtStage DEF Staged, Ahead
<1>2. /\ Place(s) > 4 => "candidates" \in rows
      /\ Place(s) > 5 => "graph" \in rows
  BY <1>1, RowsOfEarlier DEF Inherited, OnTrack
<1>3. Place(s) \in 1 .. 14
  BY <1>1, PlaceOfStage
<1>4. ASSUME Place(s) <= 11, NEW t \in Recomputed(m.command), Place(t) < Place(s)
      PROVE  t \in m.memory
  <2>1. t \in Stages /\ Place(t) \in 1 .. 14
    BY <1>1, <1>4, PlanOfWorkable, PlaceOfStage
  <2>2. Has(artifacts, t)
    BY <1>1, <1>4, <2>1, BehindStage DEF Built
  <2>3. t \in Early(m.command) /\ s \in Early(m.command)
    BY <1>1, <1>3, <1>4, <2>1, Numbers DEF Early
  <2>4. ~Has(artifacts, s)
    BY <1>1 DEF OnTrack, Uncommitted
  <2>5. trace.status # "SUCCESS"
    BY <1>0, <1>1, <1>3, <1>4, Numbers DEF Finals, Ends, Owner, Over
  <2>. QED
    BY <1>0, <2>2, <2>3, <2>4, <2>5 DEF Inherited, ByOne, Owner
<1>5. s = "recommendation_publish" => "snapshot" \in rows
  BY <1>1 DEF OnTrack, Selected
<1>6. CASE s \in {"news_prepare", "causal_extract", "graph_snapshot"}
  <2>1. /\ s = "news_prepare" => "news_fetch" \in Recomputed(m.command)
        /\ s \in {"causal_extract", "graph_snapshot"} => "news_prepare" \in Recomputed(m.command)
    BY <1>1, <1>6, PlanOfWorkable DEF Workable
  <2>2. /\ s = "news_prepare" => "news_fetch" \in m.memory
        /\ s \in {"causal_extract", "graph_snapshot"} => "news_prepare" \in m.memory
    BY <1>4, <1>6, <2>1, Numbers
  <2>3. s = "graph_snapshot" => "candidates" \in rows
    BY <1>2, Numbers
  <2>. QED
    BY <1>1, <1>6, <2>2, <2>3 DEF Supplied
<1>7. CASE s \notin {"news_prepare", "causal_extract", "graph_snapshot"}
  <2>1. s \in {"expectation_gap", "theme_forecast", "evidence_score"} => "candidates" \in rows /\ "graph" \in rows
    BY <1>2, Numbers
  <2>. HIDE DEF s, m
  <2>. QED
    BY <1>1, <1>5, <1>7, <2>1 DEF Supplied
<1>. QED
  BY <1>6, <1>7

\* A copy finds what the source trace has, as it was copied before, or nothing.
LEMMA CopyUnrefused ==
  ASSUME Types, NEW r \in Runs, Placed(run[r]), CopyRead(r) \/ CopyWrite(r), Leading(artifacts, run[r]),
         Workable(run[r].command), KeptAgree(run[r].command)
  PROVE  run'[r].error = None
<1>. DEFINE c == run[r].command
<1>1. /\ run[r].pc \in Copying /\ run[r].error = None /\ c \in Commands
      /\ run[r].i \in 1 .. Len(Copies(c)) /\ Copied(r) = Copies(c)[run[r].i]
  BY DEF CopyRead, CopyWrite, At, Copying, Placed, Troubled, Workable, Types, Fits, Copied
<1>2. Copied(r) \in Kept(c) /\ Copied(r) \in SourceStages
  <2>1. Lists(Copies(c), Kept(c)) /\ Copies(c) \in Seq(Stages)
    BY <1>1, PlanLists DEF Lists, InOrder
  <2>. QED
    BY <1>1, <2>1 DEF Lists, Workable, ToSet
<1>3. CASE CopyRead(r)
  <2>1. Stored(Copied(r)) => Agrees(Copied(r))
    BY <1>2, LatestIs DEF KeptAgree, Agrees
  <2>2. Goto(r, "copyWrite") \/ (UNCHANGED lease /\ Become(r, NextCopy(r)))
    BY <1>2, <1>3, <2>1 DEF CopyRead
  <2>. QED
    BY <1>1, <2>2, GotoErrs, NextCopyMoves, NextCopyRow
<1>4. CASE CopyWrite(r)
  <2>1. Keyed(Copied(r), 1) = {}
    BY <1>4, CopyWrites DEF Leading, Copies1, Has, Keyed
  <2>2. run'[r] = NextCopy(r)
    BY <1>4, <2>1, CopyWrites
  <2>. QED
    BY <1>1, <2>2, NextCopyRow
<1>. QED
  BY <1>3, <1>4

\* The trace is of the kind that the run wants, and nobody has touched the stage.
LEMMA EnterUnrefused ==
  ASSUME Types, Finals, InTurn, NEW r \in Runs, Steps(r), Placed(run[r]),
         CarryOver(r) \/ OpenRead(r) \/ OpenWrite(r) \/ ReadUpstream(r) \/ ReadLatest(r) \/ EnterRead(r) \/ EnterWrite(r),
         Inherited(run[r].command), OnTrack(run[r])
  PROVE  run'[r].error = None
<1>0. run[r].error = None /\ run[r] \in RunRow /\ holder = r /\ late = {}
  BY AloneStep DEF InTurn, Alone, CarryOver, OpenRead, OpenWrite, ReadUpstream, ReadLatest, EnterRead, EnterWrite,
         At, Placed, Troubled, Types
<1>1. CASE CarryOver(r) \/ OpenWrite(r)
  BY <1>0, <1>1, GotoErrs DEF CarryOver, OpenWrite
<1>2. CASE OpenRead(r)
  <2>1. Goto(r, "upstream") \/ Goto(r, "openWrite")
    BY <1>2 DEF OpenRead, Inherited, KindAgrees
  <2>. QED
    BY <1>0, <2>1, GotoErrs
<1>3. CASE ReadUpstream(r)
  BY <1>0, <1>3 DEF ReadUpstream, Become, Types, RunRow
<1>4. CASE ReadLatest(r)
  <2>. DEFINE v == IF Stored(Stage(r)) THEN Latest(Stage(r)).version + 1 ELSE 1
  <2>1. /\ UNCHANGED lease /\ run[r].pc \in Staged
        /\ Become(r, Advanced(r)) \/ Become(r, [run[r] EXCEPT !.pc = "enterRead", !.version = v])
    BY <1>4 DEF ReadLatest, At, Staged
  <2>. HIDE DEF v
  <2>2. CASE Become(r, Advanced(r))
    BY <1>0, <2>1, <2>2, AdvancedMoves, AdvancedRow
  <2>3. CASE Become(r, [run[r] EXCEPT !.pc = "enterRead", !.version = v])
    BY <1>0, <2>3 DEF Become, Types, RunRow
  <2>. QED
    BY <2>1, <2>2, <2>3
<1>5. CASE EnterRead(r)
  <2>1. run[r].pc = "enterRead" /\ run[r].pc \in Staged /\ run[r].pc \in Ahead /\ UNCHANGED lease
    BY <1>5 DEF EnterRead, At, Staged, Ahead
  <2>2. Stage(r) = StageOf(run[r]) /\ Stage(r) \in Recomputed(run[r].command)
    BY <2>1, StageIsRecomputed
  <2>3. CASE PostProcessing(Stage(r))
    <3>1. \/ Become(r, [run[r] EXCEPT !.pc = "enterWrite", !.status = step[Stage(r)]])
          \/ Become(r, Thrown(r, "transition"))
      BY <1>5 DEF EnterRead
    <3>2. CASE Become(r, Thrown(r, "transition"))
      <4>1. Thrown(r, "transition").error = None
        BY <2>1, <2>3, ThrownRow DEF Error
      <4>. QED
        BY <2>1, <3>2, <4>1, ThrownMoves DEF Error
    <3>3. CASE Become(r, [run[r] EXCEPT !.pc = "enterWrite", !.status = step[Stage(r)]])
      BY <1>0, <3>3 DEF Become, Types, RunRow
    <3>. QED
      BY <3>1, <3>2, <3>3
  <2>4. CASE ~PostProcessing(Stage(r))
    <3>1. ~Has(artifacts, Stage(r))
      BY <2>1, <2>2 DEF OnTrack, Uncommitted
    <3>2. step[Stage(r)] = "absent"
      BY <1>0, <2>1, <2>2, <2>4, <3>1 DEF Inherited, Untouched, Owner, Entered
    <3>3. Become(r, [run[r] EXCEPT !.pc = "enterWrite", !.status = step[Stage(r)]])
      BY <1>5, <3>2 DEF EnterRead, Legal
    <3>. QED
      BY <1>0, <3>3 DEF Become, Types, RunRow
  <2>. QED
    BY <2>3, <2>4
<1>6. CASE EnterWrite(r)
  <2>1. run[r].pc = "enterWrite" /\ run[r].pc \in Staged
    BY <1>6 DEF EnterWrite, At, Staged, Ahead
  <2>2. run[r].status = step[Stage(r)]
    BY <1>0, <2>1, AtStage DEF Finals, Marks, Owner
  <2>3. Goto(r, "execute")
    BY <1>6, <2>2 DEF EnterWrite
  <2>. QED
    BY <1>0, <2>3, GotoErrs
<1>. QED
  BY <1>1, <1>2, <1>3, <1>4, <1>5, <1>6

\* No handler finds anything missing, nor a publication that it would replace.
LEMMA ExecutingUnrefused ==
  ASSUME Types, Finals, InTurn, NEW r \in Runs, Steps(r), Placed(run[r]), Executing(r), Leading(artifacts, run[r]),
         ReleasedLast, Workable(run[r].command), Inherited(run[r].command), OnTrack(run[r])
  PROVE  run'[r].error \notin Refusals
<1>0. /\ holder = r /\ late = {} /\ run[r].error = None /\ run[r] \in RunRow /\ run[r].pc \in Staged /\ UNCHANGED lease
      /\ {"empty", "aiPaused", "aiAttention"} \subseteq Error /\ {None, "empty", "aiPaused", "aiAttention"} \cap Refusals = {}
  <2>1. holder = r /\ late = {}
    BY AloneStep DEF InTurn, Alone
  <2>2. run[r].error = None /\ run[r].pc \in Staged
    BY DEF Executing, Refuse, Work, ArtifactStart, ArtifactWrite, ArtifactCommit, Score, Recommend, Select,
           RecordEmpty, StartPublish, Complete, Publish, Executes, At, Staged, Ahead, Troubled, Placed
  <2>3. UNCHANGED lease
    BY DEF Executing, Refuse, Work, ArtifactStart, ArtifactWrite, ArtifactCommit, Score, Recommend, Select,
           RecordEmpty, StartPublish, Complete, Publish, lease
  <2>4. {"lease", "missing", "conflict", "empty", "identity", "transition", "differs", "aiPaused", "aiAttention"} \subseteq Error
        /\ None \notin Error
    BY NoneIsNothing DEF Error
  <2>. QED
    BY <2>1, <2>2, <2>3, <2>4 DEF Refusals, Types
<1>1. ~Refuse(r)
  BY <1>0, Supplies DEF Refuse, At
<1>2. ASSUME run[r].pc = "recommend" \/ (run[r].pc = "execute" /\ Stage(r) = "evidence_score")
      PROVE  "released" \notin rows
  <2>1. StageOf(run[r]) = "evidence_score"
    BY <1>0, <1>2, AtStage DEF OnTrack, Handled
  <2>2. trace.status # "SUCCESS"
    BY <1>0, <1>2, <2>1, Numbers DEF Finals, Ends, Owner, Over
  <2>. QED
    BY <2>2 DEF ReleasedLast
<1>3. \/ \E e \in {"empty", "aiPaused", "aiAttention"} : Become(r, Caught(r, e))
      \/ Become(r, Worked(r))
      \/ \E pc \in {"recommend", "empty", "complete", "commitRead", "artifactWrite", "artifactCommit", "publish"} :
           Goto(r, pc)
  <2>1. CASE Work(r) \/ ArtifactStart(r)
    BY <2>1 DEF Work, ArtifactStart
  <2>2. CASE Score(r) \/ Recommend(r)
    BY <1>2, <2>2 DEF Score, Recommend, Executes, At
  <2>3. CASE ArtifactWrite(r) \/ ArtifactCommit(r)
    BY <2>3 DEF ArtifactWrite, ArtifactCommit
  <2>4. CASE Select(r)
    <3>1. Goto(r, "commitRead") \/ Goto(r, "empty") \/ Become(r, Caught(r, "empty"))
      BY <2>4 DEF Select, Goto
    <3>. QED
      BY <3>1
  <2>5. CASE RecordEmpty(r) \/ StartPublish(r) \/ Complete(r) \/ Publish(r)
    BY <2>5 DEF RecordEmpty, StartPublish, Complete, Publish
  <2>. QED
    BY <1>1, <2>1, <2>2, <2>3, <2>4, <2>5 DEF Executing
<1>4. CASE \E e \in {"empty", "aiPaused", "aiAttention"} : Become(r, Caught(r, e))
  BY <1>0, <1>4, CaughtMoves, CaughtRow
<1>5. CASE Become(r, Worked(r))
  BY <1>0, <1>5, WorkedMoves, WorkedRow
<1>6. CASE \E pc \in {"recommend", "empty", "complete", "commitRead", "artifactWrite", "artifactCommit", "publish"} :
             Goto(r, pc)
  BY <1>0, <1>6, GotoErrs
<1>. QED
  BY <1>3, <1>4, <1>5, <1>6

\* The version is new, the lease row names the run, and the stage is marked as entered.
LEMMA CommitUnrefused ==
  ASSUME Types, Finals, InTurn, NEW r \in Runs, Steps(r), Placed(run[r]), run[r].error = None,
         CommitRead(r) \/ CommitWrite(r) \/ FinishRead(r) \/ FinishWrite(r) \/ MarkRead(r) \/ MarkWrite(r),
         Leading(artifacts, run[r]), OnTrack(run[r])
  PROVE  run'[r].error = None
<1>0. holder = r /\ run[r] \in RunRow /\ run[r].pc \in Staged /\ UNCHANGED lease /\ run[r].pc \notin {"markRead", "markWrite"}
      /\ Stage(r) = StageOf(run[r])
  <2>1. holder = r
    BY AloneStep DEF InTurn, Alone
  <2>2. run[r].pc \in Staged /\ UNCHANGED lease
    BY DEF CommitRead, CommitWrite, FinishRead, FinishWrite, MarkRead, MarkWrite, At, Staged, Ahead, lease
  <2>. QED
    BY <2>1, <2>2, AtStage DEF Types, Fits
<1>1. run[r].pc \in {"commitRead", "commitWrite"} => Keyed(Stage(r), run[r].version) = {}
  <2>1. run[r].pc \in {"commitRead", "commitWrite"} =>
          \A a \in artifacts : a.stage = Stage(r) => a.version < run[r].version
    BY <1>0 DEF Leading, Numbering, Ahead
  <2>2. \A a \in artifacts : a.version \in Nat
    BY DEF Types, ArtifactRow
  <2>3. run[r].version \in Nat
    BY <1>0 DEF RunRow
  <2>. QED
    BY <2>1, <2>2, <2>3 DEF Keyed
<1>2. \/ \E pc \in {"commitWrite", "finishRead", "finishWrite"} : Goto(r, pc)
      \/ Become(r, Advanced(r))
  <2>1. CASE CommitRead(r)
    BY <1>0, <1>1, <2>1 DEF CommitRead, At, Goto
  <2>2. CASE CommitWrite(r)
    BY <1>1, <2>2 DEF CommitWrite, At, KeyIsFree
  <2>3. CASE FinishRead(r)
    <3>1. step[Stage(r)] \in {"RUNNING", "SUCCESS"}
      BY <1>0, <2>3 DEF FinishRead, At, OnTrack, Underway
    <3>. QED
      BY <2>3, <3>1 DEF FinishRead, Legal
  <2>4. CASE FinishWrite(r)
    BY <2>4 DEF FinishWrite
  <2>. QED
    BY <1>0, <2>1, <2>2, <2>3, <2>4 DEF MarkRead, MarkWrite, At
<1>. QED
  BY <1>0, <1>2, GotoErrs, AdvancedMoves, AdvancedRow

\* The judgement and the ends refuse nothing, and a fault is none.
LEMMA JudgeUnrefused ==
  ASSUME Types, NEW r \in Runs, Placed(run[r]), run[r].error = None,
         \/ Judge(r) \/ JudgeEmpty(r) \/ End(r) \/ StopRead(r) \/ StopWrite(r)
         \/ Fail(r) \/ Crash(r) \/ Cut(r)
  PROVE  run'[r].error \notin Refusals
<1>0. /\ run[r] \in RunRow /\ Fits(run[r]) /\ {"empty", "fault"} \subseteq Error
      /\ None \notin Refusals /\ "empty" \notin Refusals /\ "fault" \notin Refusals
  <2>1. {"lease", "missing", "conflict", "empty", "identity", "transition", "differs", "fault"} \subseteq Error /\ None \notin Error
    BY NoneIsNothing DEF Error
  <2>. QED
    BY <2>1 DEF Refusals, Types
<1>1. \/ \E pc \in Over, e \in {None, "fault"} : Leave(r, pc, e) /\ run[r].pc # "off"
      \/ \E pc \in {"end", "judgeEmpty"} : Goto(r, pc)
      \/ Become(r, [run[r] EXCEPT !.pc = "upstream", !.i = run[r].i + 1])
      \/ \E e \in {"empty", "fault"} : run[r].pc \in Staged \cup Judging /\ UNCHANGED lease /\ Become(r, Thrown(r, e))
      \/ run[r].pc \in Staged /\ UNCHANGED lease /\ Become(r, Caught(r, "fault"))
      \/ Become(r, [run[r] EXCEPT !.pc = "stopRead", !.error = "fault"])
      \/ UNCHANGED run
  <2>0. ~StopRead(r) /\ ~StopWrite(r) /\ run[r].pc \notin Troubled
    BY <1>0 DEF StopRead, StopWrite, At, Fits, Placed, Troubled
  <2>1. CASE Judge(r) \/ JudgeEmpty(r) \/ End(r)
    BY <2>1 DEF Judge, JudgeEmpty, End, At, Goto, Judging, Over, RunRow
  <2>2. CASE Fail(r)
    <3>1. \/ Leave(r, "failed", "fault") /\ run[r].pc # "off"
          \/ run[r].pc \in Staged /\ UNCHANGED lease /\ Become(r, Thrown(r, "fault"))
          \/ run[r].pc \in Staged /\ UNCHANGED lease /\ Become(r, Caught(r, "fault"))
          \/ Become(r, [run[r] EXCEPT !.pc = "stopRead", !.error = "fault"])
      BY <2>0, <2>2 DEF Fail, Troubled, Staged, Ahead
    <3>. QED
      BY <3>1 DEF Over
  <2>3. CASE Crash(r) \/ Cut(r)
    BY <2>3 DEF Crash, Cut, Live, Over
  <2>. QED
    BY <2>0, <2>1, <2>2, <2>3
<1>2. CASE \E pc \in Over, e \in {None, "fault"} : Leave(r, pc, e) /\ run[r].pc # "off"
  BY <1>0, <1>2, LeaveMoves
<1>3. CASE \E pc \in {"end", "judgeEmpty"} : Goto(r, pc)
  BY <1>0, <1>3, GotoErrs
<1>4. CASE Become(r, [run[r] EXCEPT !.pc = "upstream", !.i = run[r].i + 1])
  BY <1>0, <1>4 DEF Become, Types, RunRow
<1>5. CASE \E e \in {"empty", "fault"} : run[r].pc \in Staged \cup Judging /\ UNCHANGED lease /\ Become(r, Thrown(r, e))
  BY <1>0, <1>5, ThrownMoves, ThrownRow
<1>6. CASE run[r].pc \in Staged /\ UNCHANGED lease /\ Become(r, Caught(r, "fault"))
  BY <1>0, <1>6, CaughtMoves, CaughtRow
<1>7. CASE Become(r, [run[r] EXCEPT !.pc = "stopRead", !.error = "fault"])
  BY <1>0, <1>7 DEF Become, Types, RunRow
<1>. QED
  BY <1>0, <1>1, <1>2, <1>3, <1>4, <1>5, <1>6, <1>7

\* A run that is on track is not refused.
LEMMA Unrefused ==
  ASSUME Types, Finals, InTurn, NEW r \in Runs, Steps(r), Placed(run[r]), Leading(artifacts, run[r]),
         ReleasedLast, Workable(run[r].command), Inherited(run[r].command), OnTrack(run[r]),
         run[r].error \notin Refusals
  PROVE  run'[r].error \notin Refusals
<1>0. None \notin Refusals
  <2>1. Refusals \subseteq Error /\ None \notin Error
    BY NoneIsNothing DEF Error, Refusals
  <2>. QED
    BY <2>1
<1>1. CASE run[r].error # None
  BY <1>0, <1>1, StepErrs DEF Errs, Persists
<1>2. CASE run[r].error = None
  BY <1>0, <1>2, CopyUnrefused, EnterUnrefused, ExecutingUnrefused, CommitUnrefused, JudgeUnrefused
     DEF Steps, Proceed, Inherited
<1>. QED
  BY <1>1, <1>2

-----------------------------------------------------------------------------
(* Why a run is refused: the steps of a run that is on track *)

\* Nothing has gone wrong with a run so far, but for its post-processing.
Unbroken(m) ==
  /\ m.pc \notin {"off", "failed", "dead", "stopRead", "stopWrite"}
  /\ m.pc \in {"markRead", "markWrite"} => PostProcessing(StageOf(m))

\* A step of the run that the lease row names, before and after which all is well.
Smoothly(r) ==
  /\ holder = r /\ holder' = r /\ late = {} /\ late' = {}
  /\ Flow(r) /\ run'[r].command = run[r].command /\ Types' /\ Errs(r)
  /\ Leading(artifacts, run[r]) /\ Leading(artifacts', run'[r])
  /\ Workable(run[r].command) /\ Unbroken(run[r]) /\ Unbroken(run'[r])
  /\ ReleasedLast /\ Inherited(run[r].command) /\ OnTrack(run[r])

\* A row of a smooth command is unbroken.
LEMMA SmoothRow ==
  ASSUME NEW m \in RunRow, Fits(m), Placed(m), m.pc # "off", m.pc # "dead", ~Erring(m)
  PROVE  Unbroken(m)
BY DEF Fits, Placed, Erring, Spared, Unbroken

\* If all is well after the step, it was before.
LEMMA GoesSmoothly ==
  ASSUME Types, Finals, Published, InTurn, ErrorsPlaced, Resumable, ~overlapped, NEW r \in Runs, Steps(r),
         NEW c \in Commands, Workable(c), Smooth(c)'
  PROVE  Smoothly(r) /\ c = run[r].command
<1>1. holder = r /\ Alone' /\ late = {}
  BY AloneStep DEF InTurn, Alone
<1>2. /\ Moves(r) /\ Flow(r) /\ Types' /\ Live(r) /\ Errs(r)
      /\ run'[r].command = run[r].command /\ holder' = r /\ late' = {}
  BY <1>1, StepMoves, Flows, NextTypes, StepsLive, StepErrs DEF Steps, Next, Moves, Flow, Alone, ErrorsPlaced
<1>3. \A o \in Runs \ {r} : run'[o] = run[o]
  BY <1>2, Others DEF Moves
<1>4. run'[r].pc # "off"
  BY <1>1, <1>2 DEF Flow, Cut, Live, EndFlow, CopyFlow, OpenFlow, EnterFlow, ExecuteFlow, CommitFlow, ErrorFlow,
                    JudgeFlow, CopiesOn, StagesOn, Opening
<1>5. run'[r].command = c /\ run'[r].pc # "dead" /\ ~Erring(run'[r])
  BY <1>4 DEF Smooth, Erring, Spared
<1>6. ~Erring(run[r])
  BY <1>2, <1>5 DEF Errs, Persists, Erring
<1>7. Smooth(c)
  <2>1. ASSUME NEW o \in Runs \ {r}
        PROVE  run[o].pc = "off" \/ (run[o].command = c /\ run[o].pc # "dead" /\ ~Erring(run[o]))
    BY <1>3, <2>1 DEF Smooth, Erring, Spared
  <2>. QED
    BY <1>2, <1>5, <1>6, <2>1 DEF Smooth, Live
<1>8. Going /\ Owner = run[r]
  BY <1>1, <1>2 DEF Going, Owner
<1>9. ReleasedLast /\ Inherited(c) /\ OnTrack(run[r])
  BY <1>7, <1>8 DEF Resumable
<1>10. Leading(artifacts, run[r]) /\ Leading(artifacts', run'[r])
  <2>1. Leads /\ Leads'
    BY LeadsKept DEF Published
  <2>. QED
    BY <1>1, <1>2, <2>1 DEF Leads
<1>11. Unbroken(run[r]) /\ Unbroken(run'[r])
  <2>1. Unbroken(run[r])
    BY <1>2, <1>6, SmoothRow DEF Types, Live, ErrorsPlaced
  <2>2. Unbroken(run'[r])
    BY <1>2, <1>4, <1>5, SmoothRow DEF Moves, Errs
  <2>. QED
    BY <2>1, <2>2
<1>. QED
  BY <1>1, <1>2, <1>5, <1>9, <1>10, <1>11 DEF Smoothly

\* What a step does to the artifacts of a trace, of which none is made twice.
LEMMA NewArtifact ==
  ASSUME Types, NEW r \in Runs, Steps(r), Smoothly(r)
  PROVE  /\ \A s : Has(artifacts, s) => Has(artifacts', s)
         /\ \/ artifacts' = artifacts
            \/ /\ run[r].pc = "copyWrite" /\ run'[r].pc \in {"carry", "copyRead"}
               /\ \E s \in Kept(run[r].command) :
                    ~Has(artifacts, s) /\ CopyRow(s) \in ArtifactRow /\ artifacts' = artifacts \cup {CopyRow(s)}
            \/ /\ run[r].pc = "commitWrite" /\ run'[r].pc = "finishRead" /\ StageOf(run'[r]) = Stage(r)
               /\ Stage(r) = StageOf(run[r]) /\ Stage(r) \in Recomputed(run[r].command) /\ ~Has(artifacts, Stage(r))
               /\ CommitRow(r) \in ArtifactRow /\ artifacts' = artifacts \cup {CommitRow(r)}
<1>1. \A s : Has(artifacts, s) => Has(artifacts', s)
  BY ArtifactTypes DEF Has
<1>2. CASE run[r].pc = "copyWrite" /\ CopiesOn(r) /\ run'[r].command = run[r].command
           /\ run[r].command \in Commands /\ run[r].i \in 1 .. Len(Copies(run[r].command))
           /\ CopyRow(CopyOf(run[r])) \in ArtifactRow /\ artifacts' = artifacts \cup {CopyRow(CopyOf(run[r]))}
  <2>1. ~Has(artifacts, CopyOf(run[r]))
    BY <1>2 DEF Smoothly, Leading, Copies1
  <2>2. CopyOf(run[r]) \in Kept(run[r].command)
    BY <1>2, PlanLists DEF Lists, CopyOf
  <2>. QED
    BY <1>1, <1>2, <2>1, <2>2 DEF CopiesOn
<1>3. CASE run[r].pc = "commitWrite" /\ run'[r].pc = "finishRead" /\ Stays(r) /\ run'[r].command = run[r].command
           /\ CommitRow(r) \in ArtifactRow /\ artifacts' = artifacts \cup {CommitRow(r)}
  <2>1. Stage(r) = StageOf(run[r]) /\ Stage(r) \in Recomputed(run[r].command) /\ run[r].pc \in Ahead
    BY <1>3, StageIsRecomputed DEF Staged, Ahead
  <2>2. ~Has(artifacts, Stage(r))
    BY <2>1 DEF Smoothly, OnTrack, Uncommitted
  <2>3. StageOf(run'[r]) = Stage(r)
    BY <1>3, <2>1 DEF Stays, StageOf
  <2>. QED
    BY <1>1, <1>3, <2>1, <2>2, <2>3
<1>. QED
  BY <1>1, <1>2, <1>3, ArtifactFlow

\* A copy is as in the source trace.
LEMMA KeptAgreeStep ==
  ASSUME Types, NEW r \in Runs, Steps(r), Smoothly(r)
  PROVE  KeptAgree(run[r].command)'
<1>. DEFINE c == run[r].command
<1>0. c \in Commands /\ run'[r].command = c
  BY DEF Smoothly, Workable
<1>1. \A a \in artifacts : a.stage \in Kept(c) => a.content = Produced(a.stage, None)
  BY DEF Smoothly, Inherited, KeptAgree
<1>2. \A s : CopyRow(s).stage = s /\ CopyRow(s).content = Produced(s, None)
  BY DEF CopyRow
<1>3. CommitRow(r).stage = Stage(r)
  BY DEF CommitRow
<1>4. Recomputed(c) \cap Kept(c) = {}
  BY <1>0, PlanOfWorkable
<1>5. \A a \in artifacts' : a.stage \in Kept(c) => a.content = Produced(a.stage, None)
  BY <1>1, <1>2, <1>3, <1>4, NewArtifact
<1>. QED
  BY <1>0, <1>5 DEF KeptAgree, Kept

\* The trace is of the kind of the command.
LEMMA KindAgreesStep ==
  ASSUME Types, InTurn, NEW r \in Runs, Steps(r), Smoothly(r)
  PROVE  KindAgrees(run[r].command)'
<1>. DEFINE c == run[r].command
<1>0. run'[r].command = c /\ HasKind(run[r])
  BY DEF Smoothly, InTurn, Holds
<1>1. trace.status # "absent" => trace.kind = KindOf(c)
  BY DEF Smoothly, Inherited, KindAgrees
<1>2. run[r].pc \in {"empty", "judgeEmpty", "complete", "end", "stopWrite"} => trace.kind = KindOf(c)
  BY <1>0 DEF HasKind, Kinded, Staged, Ahead, Judging, Closing
<1>3. trace'.status # "absent" => trace'.kind = KindOf(c)
  BY <1>1, <1>2, TraceWrites
<1>. QED
  BY <1>0, <1>3 DEF KindAgrees, KindOf

\* What is there can be reused, also after a copy or a commit.
LEMMA ReusableStep ==
  ASSUME Types, NEW r \in Runs, Steps(r), Smoothly(r)
  PROVE  Reusable(run[r].command)'
<1>. DEFINE c == run[r].command
            Usable(A, s) == Built(A, s) /\ Newest(A, s).input = c
<1>0. c \in Commands /\ run'[r].command = c /\ Ledger(artifacts)
  BY StoredIs DEF Smoothly, Workable
<1>1. Ledger(artifacts')
  <2>1. Types'
    BY DEF Smoothly
  <2>. QED
    BY <2>1 DEF Types, Numbered, Ledger
<1>2. \A s \in Recomputed(c) : Has(artifacts, s) => Usable(artifacts, s)
  BY DEF Smoothly, Inherited, Reusable
<1>3. Recomputed(c) \subseteq Stages /\ Recomputed(c) \cap Kept(c) = {}
  BY <1>0, PlanOfWorkable
<1>4. ASSUME NEW a \in ArtifactRow, artifacts' = artifacts \cup {a}, ~Has(artifacts, a.stage),
             NEW s \in Recomputed(c), s # a.stage, Has(artifacts', s)
      PROVE  Usable(artifacts', s)
  <2>1. Has(artifacts, s)
    BY <1>4 DEF Has
  <2>2. Built(artifacts, s) /\ Newest(artifacts, s).input = c
    BY <1>2, <2>1
  <2>3. a.stage \notin Dependencies[s]
    BY <1>4, <2>2 DEF Built
  <2>4. Built(artifacts', s)
    BY <1>0, <1>1, <1>3, <1>4, <2>2, <2>3, BuiltKept
  <2>5. Newest(artifacts', s) = Newest(artifacts, s)
    BY <1>0, <1>1, <1>4, <2>1, NewestKept
  <2>. QED
    BY <2>2, <2>4, <2>5
<1>. SUFFICES \A s \in Recomputed(c) : Has(artifacts', s) => Usable(artifacts', s)
  BY <1>0 DEF Reusable, Recomputed
<1>5. CASE artifacts' = artifacts
  BY <1>2, <1>5
<1>6. CASE \E t \in Kept(c) : ~Has(artifacts, t) /\ CopyRow(t) \in ArtifactRow /\ artifacts' = artifacts \cup {CopyRow(t)}
  <2>1. PICK t \in Kept(c) : ~Has(artifacts, t) /\ CopyRow(t) \in ArtifactRow /\ artifacts' = artifacts \cup {CopyRow(t)}
    BY <1>6
  <2>2. CopyRow(t).stage = t
    BY DEF CopyRow
  <2>. HIDE DEF Usable
  <2>. QED
    BY <1>3, <1>4, <2>1, <2>2
<1>7. CASE /\ run[r].pc = "commitWrite" /\ run'[r].pc = "finishRead" /\ StageOf(run'[r]) = Stage(r)
           /\ Stage(r) \in Recomputed(c) /\ ~Has(artifacts, Stage(r))
           /\ CommitRow(r) \in ArtifactRow /\ artifacts' = artifacts \cup {CommitRow(r)}
  <2>1. CommitRow(r).stage = Stage(r) /\ CommitRow(r).input = c
    BY DEF CommitRow
  <2>2. Built(artifacts', Stage(r))
    BY <1>7 DEF Smoothly, Leading, Done
  <2>3. Newest(artifacts', Stage(r)) = CommitRow(r)
    <3>1. \A b \in artifacts' : b.stage = Stage(r) => b = CommitRow(r)
      BY <1>7 DEF Has
    <3>2. CommitRow(r).version \in Nat
      BY <1>7 DEF ArtifactRow
    <3>3. \A b \in artifacts' : b.stage = CommitRow(r).stage => b.version <= CommitRow(r).version
      BY <2>1, <3>1, <3>2
    <3>. HIDE DEF CommitRow
    <3>. QED
      BY <1>1, <1>7, <2>1, <3>3, NewestOnly
  <2>4. Usable(artifacts', Stage(r))
    BY <2>1, <2>2, <2>3
  <2>. HIDE DEF Usable
  <2>. QED
    BY <1>4, <1>7, <2>1, <2>4
<1>. QED
  BY <1>5, <1>6, <1>7, NewArtifact

\* From a stage that was entered, a run that is on track goes on to its commit.
LEMMA EnteredGoesOn ==
  ASSUME Types, NEW r \in Runs, Steps(r), Smoothly(r), run[r].pc \in Entered, ~PostProcessing(StageOf(run[r])),
         ~Has(artifacts', StageOf(run[r]))
  PROVE  run'[r].pc \in Entered /\ StageOf(run'[r]) = StageOf(run[r])
<1>1. run[r].pc \in Staged /\ run[r].pc \in Ahead /\ Stage(r) = StageOf(run[r]) /\ Stage(r) \in Stages
  BY AtStage DEF Entered, Staged, Ahead
<1>2. run'[r].command = run[r].command /\ Flow(r) /\ Unbroken(run'[r])
      /\ \A s : Has(artifacts, s) => Has(artifacts', s)
  BY NewArtifact DEF Smoothly
<1>3. Stays(r) => StageOf(run'[r]) = StageOf(run[r])
  BY <1>2 DEF Stays, StageOf
<1>4. run'[r].pc \notin {"failed", "dead", "stopRead", "stopWrite"}
  BY <1>2 DEF Unbroken
<1>5. ~ErrorFlow(r)
  <2>1. run'[r].pc = "markRead" /\ Stays(r) => FALSE
    BY <1>2, <1>3 DEF Unbroken
  <2>. QED
    BY <1>1, <1>4, <2>1 DEF ErrorFlow, Entered, Ahead
<1>6. CommitFlow(r) => FALSE
  <2>1. ~(run[r].pc = "commitRead" /\ Keyed(Stage(r), run[r].version) # {})
    BY <1>1, <1>2 DEF Keyed, Has
  <2>2. ~(run[r].pc = "commitWrite" /\ artifacts' = artifacts \cup {CommitRow(r)})
    <3>1. CommitRow(r).stage = Stage(r)
      BY DEF CommitRow
    <3>. QED
      BY <1>1, <3>1 DEF Has
  <2>. QED
    BY <2>1, <2>2 DEF CommitFlow, Entered, Ahead
<1>7. ~EndFlow(r)
  BY <1>4 DEF EndFlow, JudgeEmpty, End, Judge, At, Entered, Ahead
<1>8. ExecuteFlow(r) => run'[r].pc \in Entered /\ Stays(r)
  BY DEF ExecuteFlow, Entered, Ahead, Bears
<1>9. Cut(r) => run' = run
  BY DEF Cut
<1>. QED
  BY <1>2, <1>3, <1>5, <1>6, <1>7, <1>8, <1>9
     DEF Flow, CopyFlow, OpenFlow, EnterFlow, JudgeFlow, Entered, Ahead, Opening

\* A stage that is not there is entered by the run that is at it.
LEMMA UntouchedStep ==
  ASSUME Types, NEW r \in Runs, Steps(r), Smoothly(r)
  PROVE  Untouched(run[r].command)'
<1>. DEFINE c == run[r].command
<1>0. run'[r].command = c /\ holder = r /\ holder' = r /\ c \in Commands /\ Recomputed(c) \subseteq Stages
  BY PlanOfWorkable DEF Smoothly, Workable
<1>. SUFFICES ASSUME NEW s \in Recomputed(c), ~PostProcessing(s), ~Has(artifacts', s)
              PROVE  step'[s] = "absent" \/ (run'[r].pc \in Entered /\ StageOf(run'[r]) = s)
  <2>1. \A pc : pc \in Entered => pc \notin {"off", "done", "failed", "dead"}
    BY DEF Entered, Ahead
  <2>. HIDE DEF c
  <2>2. (run'[r].command = run[r].command)
    BY DEF Smoothly
  <2>. USE DEF c
  <2>. QED
    BY <1>0, <2>1 DEF Untouched, Going, Owner, Live, Recomputed
<1>1. ~Has(artifacts, s)
  BY NewArtifact
<1>2. CASE run[r].pc \in Entered /\ StageOf(run[r]) = s
  BY <1>2, EnteredGoesOn
<1>3. CASE ~(run[r].pc \in Entered /\ StageOf(run[r]) = s)
  <2>1. step[s] = "absent"
    BY <1>0, <1>1, <1>3 DEF Smoothly, Inherited, Untouched, Owner
  <2>2. CASE step' = step
    BY <2>1, <2>2
  <2>3. ASSUME NEW status, step' = [step EXCEPT ![Stage(r)] = status], Stage(r) = s,
               run[r].pc \in {"enterWrite", "artifactWrite", "artifactCommit", "finishWrite", "markWrite"},
               run[r].pc = "enterWrite" => run'[r] = [run[r] EXCEPT !.pc = "execute"]
        PROVE  run'[r].pc \in Entered /\ StageOf(run'[r]) = s
    <3>1. run[r].pc \in Staged /\ Stage(r) = StageOf(run[r])
      BY <2>3, AtStage DEF Staged, Ahead
    <3>2. run[r].pc # "finishWrite"
      BY <1>1, <2>3, <3>1 DEF Smoothly, Leading, Done, Built
    <3>3. run[r].pc # "markWrite"
      BY <2>3, <3>1 DEF Smoothly, Unbroken
    <3>4. run[r].pc = "enterWrite"
      BY <1>3, <2>3, <3>1, <3>2, <3>3 DEF Entered, Ahead
    <3>5. run'[r].pc = "execute" /\ run'[r].i = run[r].i /\ run'[r].command = run[r].command
      BY <2>3, <3>4 DEF Types, RunRow
    <3>. QED
      BY <2>3, <3>1, <3>5 DEF StageOf, Entered, Ahead
  <2>4. CASE \E status \in {"RUNNING", "SUCCESS", "FAILED"} :
               /\ step' = [step EXCEPT ![Stage(r)] = status]
               /\ run[r].pc = "enterWrite" => run'[r] = [run[r] EXCEPT !.pc = "execute"]
               /\ run[r].pc \in {"enterWrite", "artifactWrite", "artifactCommit", "finishWrite", "markWrite"}
    <3>1. CASE Stage(r) = s
      BY <2>3, <2>4, <3>1
    <3>2. CASE Stage(r) # s
      BY <1>0, <2>1, <2>4, <3>2 DEF Types
    <3>. QED
      BY <3>1, <3>2
  <2>5. step' = step \/ \E status \in {"RUNNING", "SUCCESS", "FAILED"} :
               /\ step' = [step EXCEPT ![Stage(r)] = status]
               /\ run[r].pc = "enterWrite" => run'[r] = [run[r] EXCEPT !.pc = "execute"]
               /\ run[r].pc \in {"enterWrite", "artifactWrite", "artifactCommit", "finishWrite", "markWrite"}
    BY StepWrites
  <2>. QED
    BY <2>2, <2>4, <2>5
<1>. QED
  BY <1>2, <1>3

\* The rows of a trace.
LEMMA RowsGrow ==
  ASSUME Types, NEW r \in Runs, Steps(r)
  PROVE  /\ "candidates" \in rows => "candidates" \in rows'
         /\ "graph" \in rows => "graph" \in rows'
         /\ "released" \in rows' => "released" \in rows \/ trace'.status = "SUCCESS"
         /\ "snapshot" \in rows /\ "snapshot" \notin rows' => Recommend(r) \/ (Score(r) /\ Stage(r) = "evidence_score")
<1>1. CASE rows' = rows
  BY <1>1
<1>2. CASE CarryOver(r) \/ Work(r) \/ ArtifactCommit(r)
  BY <1>2 DEF CarryOver, Work, ArtifactCommit
<1>3. CASE Score(r) \/ Recommend(r)
  BY <1>3 DEF Score, Recommend
<1>4. CASE Complete(r) \/ End(r)
  <2>1. rows' = rows \/ (trace' = Completed /\ rows' = Released)
    BY <1>4 DEF Complete, End
  <2>. QED
    BY <1>1, <2>1 DEF Completed, Released, Types
<1>. QED
  BY <1>1, <1>2, <1>3, <1>4, Writers

\* A stage that is committed has left its rows.
LEMMA RowsLeftStep ==
  ASSUME Types, NEW r \in Runs, Steps(r), Smoothly(r)
  PROVE  RowsLeft(run[r].command)'
<1>. DEFINE c == run[r].command
<1>0. run'[r].command = c
  BY DEF Smoothly
<1>1. \A s \in Recomputed(c) \cap DOMAIN RowOf : Has(artifacts, s) => RowOf[s] \in rows
  BY DEF Smoothly, Inherited, RowsLeft
<1>2. DOMAIN RowOf = {"causal_extract", "graph_snapshot"}
      /\ RowOf["causal_extract"] = "candidates" /\ RowOf["graph_snapshot"] = "graph"
  BY DEF RowOf
<1>3. \A s \in DOMAIN RowOf : RowOf[s] \in rows => RowOf[s] \in rows'
  BY <1>2, RowsGrow
<1>4. CASE artifacts' = artifacts
  BY <1>0, <1>1, <1>3, <1>4 DEF RowsLeft, Recomputed, RowOf
<1>5. CASE \E s \in Kept(c) : artifacts' = artifacts \cup {CopyRow(s)}
  <2>1. PICK t \in Kept(c) : artifacts' = artifacts \cup {CopyRow(t)}
    BY <1>5
  <2>2. CopyRow(t).stage = t /\ Recomputed(c) \cap Kept(c) = {}
    BY PlanOfWorkable DEF CopyRow, Smoothly, Workable
  <2>3. \A s \in Recomputed(c) : Has(artifacts', s) => Has(artifacts, s)
    BY <2>1, <2>2 DEF Has
  <2>. QED
    BY <1>0, <1>1, <1>3, <2>3 DEF RowsLeft, Recomputed, RowOf
<1>6. CASE /\ run[r].pc = "commitWrite" /\ Stage(r) = StageOf(run[r])
           /\ artifacts' = artifacts \cup {CommitRow(r)}
  <2>1. CommitRow(r).stage = Stage(r)
    BY DEF CommitRow
  <2>2. \A s : Has(artifacts', s) => Has(artifacts, s) \/ s = Stage(r)
    BY <1>6, <2>1 DEF Has
  <2>3. Stage(r) \in DOMAIN RowOf => RowOf[Stage(r)] \in rows
    BY <1>6 DEF Smoothly, OnTrack, Accomplished
  <2>. QED
    BY <1>0, <1>1, <1>3, <2>2, <2>3 DEF RowsLeft, Recomputed, RowOf
<1>. QED
  BY <1>4, <1>5, <1>6, NewArtifact

\* A run that ends well has the stages up to the selection behind it.
LEMMA DoneThrough ==
  ASSUME Types, NEW r \in Runs, Steps(r), Smoothly(r), run'[r].pc = "done"
  PROVE  \A s \in Early(run[r].command) : Has(artifacts, s)
<1>1. EndFlow(r)
  BY StepsLive
     DEF Smoothly, Flow, Cut, CopyFlow, OpenFlow, EnterFlow, ExecuteFlow, CommitFlow, ErrorFlow, JudgeFlow, CopiesOn,
         StagesOn, Opening, Over
<1>2. run[r].pc = "end" \/ run[r].pc \in Judging
  BY <1>1 DEF EndFlow, JudgeEmpty, End, Judge, At, Judging
<1>3. CASE run[r].pc = "end"
  BY <1>3 DEF Smoothly, OnTrack, Through
<1>4. CASE run[r].pc \in Judging
  <2>1. StageOf(run[r]) = "recommendation_select" /\ Built(artifacts, StageOf(run[r]))
    BY <1>4 DEF Types, Fits, Smoothly, Leading, Done
  <2>2. \A t \in Stages : Place(t) < Place(StageOf(run[r])) => Built(artifacts, t)
    BY <1>4, BehindStage DEF Smoothly
  <2>3. \A t \in Stages : Place(t) <= Place("recommendation_select") =>
          t = "recommendation_select" \/ Place(t) < Place("recommendation_select")
    BY PlaceOfStage, Numbers DEF Stages, StageIds, ToSet
  <2>4. Early(run[r].command) \subseteq {t \in Stages : Place(t) <= Place("recommendation_select")}
    BY PlanOfWorkable DEF Early, Smoothly, Workable
  <2>. QED
    BY <2>1, <2>2, <2>3, <2>4 DEF Built
<1>. QED
  BY <1>2, <1>3, <1>4

\* What the stages have left in the memory of a process is there while it is needed.
LEMMA ByOneStep ==
  ASSUME Types, Finals, NEW r \in Runs, Steps(r), Smoothly(r)
  PROVE  ByOne(run[r].command)'
<1>. DEFINE c == run[r].command
<1>0. run'[r].command = c /\ holder = r /\ holder' = r
  BY DEF Smoothly
<1>1. trace.status = "SUCCESS" => trace'.status = "SUCCESS"
  BY RecordedStays DEF Smoothly
<1>2. \A s : Has(artifacts, s) => Has(artifacts', s)
  BY NewArtifact
<1>3. SUFFICES \/ trace'.status = "SUCCESS"
               \/ \A s \in Early(c) : Has(artifacts', s)
               \/ run'[r].pc \notin {"off", "done", "failed", "dead"} /\ \A s \in Early(c) : Has(artifacts', s) => s \in run'[r].memory
  BY <1>0 DEF ByOne, Early, Recomputed, Going, Owner, Live
<1>4. CASE trace.status = "SUCCESS" \/ \A s \in Early(c) : Has(artifacts, s)
  BY <1>1, <1>2, <1>4
<1>5. CASE run'[r].pc = "done"
  BY <1>2, <1>5, DoneThrough
<1>6. CASE run'[r].pc # "done" /\ \A s \in Early(c) : Has(artifacts, s) => s \in run[r].memory
  <2>1. run'[r].pc \notin {"off", "done", "failed", "dead"} /\ run[r].memory \subseteq run'[r].memory
    BY <1>6 DEF Smoothly, Unbroken, Errs, Over
  <2>2. CASE \A s \in Early(c) : Has(artifacts', s) => Has(artifacts, s)
    BY <1>6, <2>1, <2>2
  <2>3. CASE /\ run[r].pc = "commitWrite" /\ Stage(r) = StageOf(run[r])
             /\ artifacts' = artifacts \cup {CommitRow(r)}
    <3>1. CommitRow(r).stage = Stage(r)
      BY DEF CommitRow
    <3>2. Has(artifacts', Stage(r)) /\ \A s : Has(artifacts', s) => Has(artifacts, s) \/ s = Stage(r)
      BY <2>3, <3>1 DEF Has
    <3>3. Stage(r) # "recommendation_select" => Stage(r) \in run[r].memory
      BY <2>3 DEF Smoothly, OnTrack, Accomplished
    <3>4. CASE Stage(r) # "recommendation_select"
      BY <1>6, <2>1, <3>2, <3>3, <3>4
    <3>5. CASE Stage(r) = "recommendation_select"
      <4>1. \A t \in Stages : Place(t) < Place("recommendation_select") => Has(artifacts, t)
        BY <2>3, <3>5, BehindStage DEF Smoothly, Built, Staged, Ahead
      <4>2. \A t \in Stages : Place(t) <= Place("recommendation_select") =>
              t = "recommendation_select" \/ Place(t) < Place("recommendation_select")
        BY PlaceOfStage, Numbers DEF Stages, StageIds, ToSet
      <4>3. Early(c) \subseteq {t \in Stages : Place(t) <= Place("recommendation_select")}
        BY PlanOfWorkable DEF Early, Smoothly, Workable
      <4>. QED
        BY <1>2, <3>2, <3>5, <4>1, <4>2, <4>3
    <3>. QED
      BY <3>4, <3>5
  <2>4. CASE \E t \in Kept(c) : artifacts' = artifacts \cup {CopyRow(t)}
    <3>1. PICK t \in Kept(c) : artifacts' = artifacts \cup {CopyRow(t)}
      BY <2>4
    <3>2. CopyRow(t).stage = t /\ Recomputed(c) \cap Kept(c) = {}
      BY PlanOfWorkable DEF CopyRow, Smoothly, Workable
    <3>3. \A s \in Early(c) : Has(artifacts', s) => Has(artifacts, s)
      BY <3>1, <3>2 DEF Has, Early
    <3>. QED
      BY <2>2, <3>3
  <2>. QED
    BY <2>2, <2>3, <2>4, NewArtifact
<1>. QED
  BY <1>0, <1>4, <1>5, <1>6 DEF Smoothly, Inherited, ByOne, Owner

\* What a trace holds between runs of one command is kept.
LEMMA InheritedStep ==
  ASSUME Types, Finals, InTurn, NEW r \in Runs, Steps(r), Smoothly(r)
  PROVE  Inherited(run[r].command)' /\ ReleasedLast'
<1>1. ReleasedLast'
  BY RowsGrow, RecordedStays DEF Smoothly, ReleasedLast
<1>. QED
  BY <1>1, KeptAgreeStep, KindAgreesStep, ReusableStep, UntouchedStep, RowsLeftStep, ByOneStep DEF Inherited

\* At a handler.
Handling == Entered \ {"commitRead", "commitWrite"}

\* Which steps a run can take where.
LEMMA StepsAt ==
  ASSUME NEW r \in Runs, Steps(r)
  PROVE  /\ run[r].pc = "latest" => ReadLatest(r) \/ Fail(r) \/ Crash(r) \/ Cut(r)
         /\ run[r].pc \in Handling => Executing(r) \/ Fail(r) \/ Crash(r) \/ Cut(r)
         /\ run[r].pc = "carry" => CarryOver(r) \/ Fail(r) \/ Crash(r) \/ Cut(r)
<1>. DEFINE There(from) == run[r].pc \in from
<1>1. /\ CopyRead(r) \/ CopyWrite(r) \/ OpenRead(r) \/ OpenWrite(r) => There({"copyRead", "copyWrite", "openRead", "openWrite"})
      /\ CarryOver(r) => There({"carry"})
      /\ ReadUpstream(r) \/ EnterRead(r) \/ EnterWrite(r) => There({"upstream", "enterRead", "enterWrite"})
      /\ ReadLatest(r) => There({"latest"})
  BY DEF CopyRead, CopyWrite, CarryOver, OpenRead, OpenWrite, ReadUpstream, ReadLatest, EnterRead, EnterWrite, At
<1>2. Executing(r) => There(Handling)
  BY DEF Executing, Refuse, Work, ArtifactStart, ArtifactWrite, ArtifactCommit, Score, Recommend, Select,
         RecordEmpty, StartPublish, Complete, Publish, Executes, At, Handling, Entered, Ahead
<1>3. /\ CommitRead(r) \/ CommitWrite(r) \/ FinishRead(r) \/ FinishWrite(r) \/ MarkRead(r) \/ MarkWrite(r) =>
           There({"commitRead", "commitWrite", "finishRead", "finishWrite", "markRead", "markWrite"})
      /\ Judge(r) \/ JudgeEmpty(r) \/ End(r) \/ StopRead(r) \/ StopWrite(r) =>
           There({"judge", "judgeEmpty", "end", "stopRead", "stopWrite"})
  BY DEF CommitRead, CommitWrite, FinishRead, FinishWrite, MarkRead, MarkWrite, Judge, JudgeEmpty, End, StopRead,
         StopWrite, At
<1>4. Handling \cap {"copyRead", "copyWrite", "openRead", "openWrite", "carry", "upstream", "enterRead", "enterWrite",
                     "latest", "commitRead", "commitWrite", "finishRead", "finishWrite", "markRead", "markWrite",
                     "judge", "judgeEmpty", "end", "stopRead", "stopWrite"} = {}
  BY DEF Handling, Entered, Ahead
<1>5. There({"latest"}) \/ There({"carry"}) \/ There(Handling) =>
        ReadLatest(r) \/ CarryOver(r) \/ Executing(r) \/ Fail(r) \/ Crash(r) \/ Cut(r)
  BY <1>1, <1>3, <1>4 DEF Steps, Proceed
<1>. QED
  BY <1>1, <1>2, <1>4, <1>5

\* What a fault leads to.
LEMMA FaultsLead ==
  ASSUME Types, NEW r \in Runs, Fail(r) \/ Crash(r) \/ Cut(r)
  PROVE  /\ run' = run \/ run'[r].pc \in {"end", "stopRead", "markRead"} \cup Over
         /\ run'[r].pc = "markRead" => run[r].pc \in Staged
<1>1. CASE Fail(r)
  <2>1. \/ Leave(r, "failed", "fault") /\ run[r].pc # "off"
        \/ Leave(r, "failed", run[r].error) /\ run[r].pc # "off"
        \/ run[r].pc \in Staged /\ UNCHANGED lease /\ Become(r, Thrown(r, "fault"))
        \/ run[r].pc \in Staged /\ UNCHANGED lease /\ Become(r, Caught(r, "fault"))
        \/ run[r].pc \in Staged /\ UNCHANGED lease /\ run[r].error # None /\ Become(r, Thrown(r, run[r].error))
        \/ Become(r, [run[r] EXCEPT !.pc = "stopRead", !.error = "fault"])
    BY <1>1 DEF Fail, Staged, Ahead, Types, Fits
  <2>2. "fault" \in Error /\ run[r].error \in Error \cup {None} /\ run[r] \in RunRow
    BY DEF Error, Types, RunRow
  <2>3. CASE Become(r, [run[r] EXCEPT !.pc = "stopRead", !.error = "fault"])
    BY <2>2, <2>3 DEF Become, Types, RunRow
  <2>. QED
    BY <2>1, <2>2, <2>3, LeaveMoves, ThrownMoves, ThrownRow, CaughtMoves, CaughtRow DEF Over
<1>2. CASE Crash(r)
  BY <1>2, LeaveMoves DEF Crash, Live, Over
<1>3. CASE Cut(r)
  BY <1>3 DEF Cut, Staged
<1>. QED
  BY <1>1, <1>2, <1>3

\* Where a run comes from that is ahead of its commit.
LEMMA AheadFrom ==
  ASSUME Types, NEW r \in Runs, Steps(r), Flow(r), run'[r].pc \in Ahead
  PROVE  /\ StageOf(run'[r]) = StageOf(run[r]) /\ run[r].pc \in Staged
         /\ run[r].pc \in Ahead \/ (run[r].pc = "latest" /\ run'[r].pc = "enterRead" /\ ReadLatest(r))
         /\ run'[r].pc \in Entered => run[r].pc \in Entered \/ (run[r].pc = "enterWrite" /\ run'[r].pc = "execute"
                                                                 /\ step' = [step EXCEPT ![Stage(r)] = "RUNNING"])
<1>1. ~EndFlow(r) /\ ~CopyFlow(r) /\ ~OpenFlow(r) /\ ~CommitFlow(r) /\ ~ErrorFlow(r) /\ ~JudgeFlow(r)
  BY DEF EndFlow, CopyFlow, OpenFlow, CommitFlow, ErrorFlow, JudgeFlow, CopiesOn, StagesOn, Opening, Ahead
<1>2. run'[r].command = run[r].command /\ (Cut(r) \/ EnterFlow(r) \/ ExecuteFlow(r))
  BY <1>1 DEF Flow
<1>3. Stays(r) => StageOf(run'[r]) = StageOf(run[r])
  BY <1>2 DEF Stays, StageOf
<1>4. CASE Cut(r)
  <2>1. run' = run
    BY <1>4 DEF Cut
  <2>. QED
    BY <2>1 DEF Staged
<1>5. CASE EnterFlow(r)
  <2>1. /\ Stays(r)
        /\ \/ run[r].pc = "latest" /\ run'[r].pc = "enterRead"
           \/ run[r].pc = "enterRead" /\ run'[r].pc = "enterWrite"
           \/ run[r].pc = "enterWrite" /\ run'[r].pc = "execute" /\ step' = [step EXCEPT ![Stage(r)] = "RUNNING"]
    BY <1>5 DEF EnterFlow, StagesOn, Bears, Ahead
  <2>2. run[r].pc = "latest" => ReadLatest(r)
    BY <2>1, StepsAt, FaultsLead DEF Over
  <2>. QED
    BY <1>3, <2>1, <2>2 DEF Ahead, Entered, Staged
<1>6. CASE ExecuteFlow(r)
  BY <1>3, <1>6 DEF ExecuteFlow, Bears, Ahead, Entered, Staged
<1>. QED
  BY <1>2, <1>4, <1>5, <1>6

\* A stage that a run enters is not there: it would have been reused.
LEMMA UncommittedStep ==
  ASSUME Types, NEW r \in Runs, Steps(r), Smoothly(r)
  PROVE  Uncommitted(run[r])'
<1>. SUFFICES ASSUME run'[r].pc \in Ahead
              PROVE  ~Has(artifacts', StageOf(run'[r]))
  BY DEF Uncommitted, StageOf, Plan
<1>1. /\ StageOf(run'[r]) = StageOf(run[r]) /\ run[r].pc \in Staged
      /\ run[r].pc \in Ahead \/ (run[r].pc = "latest" /\ run'[r].pc = "enterRead" /\ ReadLatest(r))
  BY AheadFrom DEF Smoothly
<1>2. artifacts' = artifacts
  BY NewArtifact DEF Ahead
<1>3. CASE run[r].pc \in Ahead
  BY <1>1, <1>2, <1>3 DEF Smoothly, OnTrack, Uncommitted
<1>4. CASE run[r].pc = "latest" /\ run'[r].pc = "enterRead" /\ ReadLatest(r)
  <2>1. Stage(r) = StageOf(run[r]) /\ Stage(r) \in Recomputed(run[r].command)
    BY <1>1, StageIsRecomputed
  <2>2. ASSUME Has(artifacts, Stage(r))
        PROVE  FALSE
    <3>1. Built(artifacts, Stage(r)) /\ Newest(artifacts, Stage(r)).input = run[r].command
      BY <2>1, <2>2 DEF Smoothly, Inherited, Reusable
    <3>2. run[r].upstream = Found(artifacts, Stage(r))
      BY <1>4, <2>1 DEF Smoothly, Leading, Reading
    <3>3. Stored(Stage(r)) /\ Latest(Stage(r)) = Newest(artifacts, Stage(r))
      BY <2>2, StoredIs
    <3>4. Valid(Latest(Stage(r)), run[r].command, run[r].upstream)
      BY <3>1, <3>2, <3>3 DEF Valid, Built
    <3>5. UNCHANGED lease /\ Become(r, Advanced(r))
      BY <1>4, <3>3, <3>4 DEF ReadLatest
    <3>. QED
      BY <1>1, <1>4, <3>5, AdvancedMoves, AdvancedRow
  <2>. QED
    BY <1>1, <1>2, <2>1, <2>2
<1>. QED
  BY <1>1, <1>3, <1>4

\* A stage that was entered is marked so.
LEMMA UnderwayStep ==
  ASSUME Types, NEW r \in Runs, Steps(r), Smoothly(r)
  PROVE  Underway(run[r])'
<1>. SUFFICES ASSUME run'[r].pc \in Entered \cup {"finishRead"}
              PROVE  step'[StageOf(run'[r])] \in {"RUNNING", "SUCCESS"}
  BY DEF Underway, StageOf, Plan
<1>1. /\ StageOf(run'[r]) = StageOf(run[r]) /\ run[r].pc \in Staged
      /\ \/ run[r].pc \in Entered \cup {"finishRead"}
         \/ run[r].pc = "enterWrite" /\ step' = [step EXCEPT ![Stage(r)] = "RUNNING"]
  <2>1. CASE run'[r].pc \in Entered
    BY <2>1, AheadFrom DEF Smoothly, Entered
  <2>2. CASE run'[r].pc = "finishRead"
    <3>1. run'[r].command = run[r].command /\ (Cut(r) \/ CommitFlow(r))
      BY <2>2 DEF Smoothly, Flow, EndFlow, CopyFlow, OpenFlow, EnterFlow, ExecuteFlow, ErrorFlow, JudgeFlow, CopiesOn,
                  StagesOn, Opening, Over, JudgeEmpty, End, Judge
    <3>2. CASE Cut(r)
      BY <2>2, <3>2 DEF Cut, Staged
    <3>3. CASE CommitFlow(r)
      <4>1. Stays(r) /\ run[r].pc \in {"commitRead", "commitWrite"}
        BY <2>2, <3>3 DEF CommitFlow, StagesOn
      <4>. QED
        BY <3>1, <4>1 DEF Stays, StageOf, Entered, Staged, Ahead
    <3>. QED
      BY <3>1, <3>2, <3>3
  <2>. QED
    BY <2>1, <2>2
<1>2. Stage(r) = StageOf(run[r]) /\ Stage(r) \in Stages /\ step \in [Stages -> StepStatus]
  BY <1>1, AtStage DEF Types
<1>3. CASE run[r].pc = "enterWrite" /\ step' = [step EXCEPT ![Stage(r)] = "RUNNING"]
  BY <1>1, <1>2, <1>3
<1>4. CASE run[r].pc \in Entered \cup {"finishRead"}
  <2>1. step[StageOf(run[r])] \in {"RUNNING", "SUCCESS"}
    BY <1>4 DEF Smoothly, OnTrack, Underway
  <2>2. run[r].pc # "markWrite"
    BY <1>4 DEF Entered, Ahead
  <2>3. step' = step \/ \E status \in {"RUNNING", "SUCCESS"} : step' = [step EXCEPT ![Stage(r)] = status]
    BY <2>2, StepWrites
  <2>. QED
    BY <1>1, <1>2, <2>1, <2>3
<1>. QED
  BY <1>1, <1>3, <1>4

\* What a handler leaves when it has worked, and the stage of those that go on.
LEMMA HandlerLeaves ==
  ASSUME Types, Finals, NEW r \in Runs, Smoothly(r), Executing(r)
  PROVE  /\ run'[r].pc = "artifactWrite" => Stage(r) \in ArtifactStages
         /\ run'[r].pc = "artifactCommit" => run[r].pc = "artifactWrite"
         /\ run'[r].pc = "recommend" => Stage(r) = "evidence_score"
         /\ run'[r].pc = "commitRead" =>
              /\ Stage(r) # "recommendation_select" => Stage(r) \in run'[r].memory
              /\ Stage(r) = "causal_extract" => "candidates" \in rows'
              /\ Stage(r) = "graph_snapshot" => "graph" \in rows'
<1>0. /\ holder = r /\ late = {} /\ run[r] \in RunRow /\ run[r].pc \in Staged /\ UNCHANGED lease
      /\ Stage(r) = StageOf(run[r])
  <2>1. run[r].pc \in Staged
    BY DEF Executing, Refuse, Work, ArtifactStart, ArtifactWrite, ArtifactCommit, Score, Recommend, Select,
           RecordEmpty, StartPublish, Complete, Publish, Executes, At, Staged, Ahead
  <2>2. UNCHANGED lease
    BY DEF Executing, Refuse, Work, ArtifactStart, ArtifactWrite, ArtifactCommit, Score, Recommend, Select,
           RecordEmpty, StartPublish, Complete, Publish, lease
  <2>. QED
    BY <2>1, <2>2, AtStage DEF Smoothly, Types
<1>1. \A e \in Error : Become(r, Caught(r, e)) => run'[r].pc = "markRead"
  BY <1>0, CaughtMoves, CaughtRow
<1>2. Become(r, Worked(r)) => run'[r].pc = "commitRead" /\ Stage(r) \in run'[r].memory
  BY <1>0, WorkedMoves, WorkedRow
<1>3. \A pc : Goto(r, pc) => run'[r].pc = pc
  BY GotoErrs
<1>4. {"lease", "missing", "conflict", "empty", "aiPaused", "aiAttention"} \subseteq Error
  BY DEF Error
<1>5. CASE Refuse(r)
  BY <1>1, <1>4, <1>5 DEF Refuse
<1>6. CASE Work(r)
  BY <1>1, <1>2, <1>4, <1>6 DEF Work, ArtifactStages
<1>7. CASE ArtifactStart(r)
  <2>1. step[Stage(r)] # "SUCCESS"
    BY <1>0, <1>7 DEF ArtifactStart, Executes, At, Finals, Marks, Owner
  <2>. QED
    BY <1>3, <1>7, <2>1 DEF ArtifactStart
<1>8. CASE ArtifactWrite(r)
  BY <1>3, <1>8 DEF ArtifactWrite, At
<1>9. CASE ArtifactCommit(r)
  <2>1. Stage(r) \in ArtifactStages
    BY <1>0, <1>9 DEF ArtifactCommit, At, Smoothly, OnTrack, Handled
  <2>. QED
    BY <1>2, <1>9, <2>1 DEF ArtifactCommit, ArtifactStages
<1>10. CASE Score(r)
  BY <1>1, <1>3, <1>4, <1>10 DEF Score
<1>11. CASE Recommend(r)
  <2>1. Stage(r) = "evidence_score"
    BY <1>0, <1>11 DEF Recommend, At, Smoothly, OnTrack, Handled
  <2>. QED
    BY <1>1, <1>2, <1>4, <1>11, <2>1 DEF Recommend
<1>12. CASE Select(r)
  <2>1. Stage(r) = "recommendation_select"
        /\ (Goto(r, "commitRead") \/ Goto(r, "empty") \/ Become(r, Caught(r, "empty")))
    BY <1>12 DEF Select, Goto
  <2>. QED
    BY <1>1, <1>3, <1>4, <2>1
<1>13. CASE RecordEmpty(r) \/ Publish(r)
  <2>1. Stage(r) \in {"recommendation_select", "recommendation_publish"}
    BY <1>0, <1>13 DEF RecordEmpty, Publish, At, Types, Fits
  <2>. QED
    BY <1>2, <1>13, <2>1 DEF RecordEmpty, Publish
<1>14. CASE StartPublish(r) \/ Complete(r)
  BY <1>3, <1>14 DEF StartPublish, Complete
<1>. QED
  BY <1>5, <1>6, <1>7, <1>8, <1>9, <1>10, <1>11, <1>12, <1>13, <1>14 DEF Executing

\* What a step of a handler does, if it goes on.
LEMMA HandlingGoesOn ==
  ASSUME Types, NEW r \in Runs, Steps(r), run[r].pc \in Handling, run'[r].pc \in Entered
  PROVE  Executing(r) \/ run' = run
BY StepsAt, FaultsLead DEF Entered, Ahead, Over

\* The handlers that go on at another place are those of the stages that have one.
LEMMA HandledStep ==
  ASSUME Types, Finals, NEW r \in Runs, Steps(r), Smoothly(r)
  PROVE  Handled(run[r])'
<1>. DEFINE Where(m) == /\ m.pc \in {"artifactWrite", "artifactCommit"} => StageOf(m) \in ArtifactStages
                        /\ m.pc = "recommend" => StageOf(m) = "evidence_score"
<1>1. SUFFICES ASSUME run'[r].pc \in {"artifactWrite", "artifactCommit", "recommend"}
               PROVE  Where(run'[r])
  BY DEF Handled, StageOf, Plan, ArtifactStages
<1>2. StageOf(run'[r]) = StageOf(run[r]) /\ run[r].pc \in Staged
      /\ (run[r].pc \in Entered \/ (run[r].pc = "enterWrite" /\ run'[r].pc = "execute"))
  BY <1>1, AheadFrom DEF Smoothly, Ahead, Entered
<1>3. Stage(r) = StageOf(run[r]) /\ Where(run[r])
  BY <1>2, AtStage DEF Smoothly, OnTrack, Handled
<1>4. run[r].pc \in Handling
  <2>1. run[r].pc \notin {"commitRead", "commitWrite"}
    BY <1>1 DEF Smoothly, Flow, Cut, EndFlow, CopyFlow, OpenFlow, EnterFlow, ExecuteFlow, CommitFlow, ErrorFlow, JudgeFlow,
                Opening, Over, Ahead, CopiesOn, StagesOn
  <2>. QED
    BY <1>1, <1>2, <2>1 DEF Handling
<1>5. Executing(r) \/ run' = run
  BY <1>1, <1>4, HandlingGoesOn DEF Entered, Ahead
<1>6. CASE run' = run
  BY <1>3, <1>6
<1>7. CASE Executing(r)
  BY <1>2, <1>3, <1>7, HandlerLeaves
<1>. QED
  BY <1>5, <1>6, <1>7

\* Before the commit the handler has left its rows and is remembered.
LEMMA AccomplishedStep ==
  ASSUME Types, Finals, NEW r \in Runs, Steps(r), Smoothly(r)
  PROVE  Accomplished(run[r])'
<1>0. DOMAIN RowOf = {"causal_extract", "graph_snapshot"}
      /\ RowOf["causal_extract"] = "candidates" /\ RowOf["graph_snapshot"] = "graph"
  BY DEF RowOf
<1>. DEFINE s == StageOf(run[r])
<1>1. SUFFICES ASSUME run'[r].pc \in {"commitRead", "commitWrite"}
               PROVE  /\ StageOf(run'[r]) # "recommendation_select" => StageOf(run'[r]) \in run'[r].memory
                      /\ StageOf(run'[r]) \in DOMAIN RowOf => RowOf[StageOf(run'[r])] \in rows'
  BY DEF Accomplished, StageOf, Plan, RowOf
<1>2. /\ StageOf(run'[r]) = s /\ run[r].pc \in Entered /\ Stage(r) = s
      /\ run[r].memory \subseteq run'[r].memory
  <2>1. StageOf(run'[r]) = s /\ run[r].pc \in Entered /\ run[r].pc \in Staged
    BY <1>1, AheadFrom DEF Smoothly, Ahead, Entered
  <2>. QED
    BY <1>1, <2>1, AtStage DEF Smoothly, Errs, Over
<1>3. CASE run[r].pc \in {"commitRead", "commitWrite"}
  BY <1>0, <1>2, <1>3, RowsGrow DEF Smoothly, OnTrack, Accomplished
<1>4. CASE run[r].pc \in Handling
  <2>1. run'[r].pc \in Entered
    BY <1>1 DEF Entered, Ahead
  <2>2. Executing(r)
    BY <1>1, <1>4, <2>1, HandlingGoesOn DEF Handling
  <2>3. run'[r].pc = "commitRead"
    BY <1>1, <1>4 DEF Smoothly, Flow, Cut, EndFlow, CopyFlow, OpenFlow, EnterFlow, ExecuteFlow, CommitFlow, ErrorFlow, JudgeFlow,
                Opening, Over, Handling, CopiesOn, StagesOn
  <2>. QED
    BY <1>0, <1>2, <2>2, <2>3, HandlerLeaves
<1>. QED
  BY <1>2, <1>3, <1>4 DEF Handling

\* The rows that a run carries over stay.
LEMMA CarriedStep ==
  ASSUME Types, NEW r \in Runs, Steps(r), Smoothly(r)
  PROVE  Carried(run[r])'
<1>0. DOMAIN RowOf = {"causal_extract", "graph_snapshot"}
      /\ RowOf["causal_extract"] = "candidates" /\ RowOf["graph_snapshot"] = "graph"
  BY DEF RowOf
<1>. DEFINE c == run[r].command
            Onward == {"openRead", "openWrite"} \cup Staged \cup Judging
<1>1. run'[r].command = c /\ c \in Commands
  BY DEF Smoothly, Workable
<1>2. SUFFICES ASSUME run'[r].pc \in Onward
               PROVE  \A s \in Kept(c) \cap DOMAIN RowOf : RowOf[s] \in rows'
  BY <1>1 DEF Carried, Kept, RowOf
<1>3. CASE run[r].pc \in Onward
  BY <1>0, <1>3, RowsGrow DEF Smoothly, OnTrack, Carried
<1>4. CASE run[r].pc \notin Onward
  <2>1. run[r].pc = "carry"
    BY <1>2, <1>4 DEF Smoothly, Flow, Cut, EndFlow, CopyFlow, OpenFlow, EnterFlow, ExecuteFlow, CommitFlow, ErrorFlow, JudgeFlow,
                Opening, Over, CopiesOn, StagesOn, Staged, Ahead, Judging
  <2>2. CarryOver(r)
    BY <1>2, <2>1, StepsAt, FaultsLead DEF Over, Staged, Ahead, Judging
  <2>3. ToSet(Copies(c)) = Kept(c)
    <3>1. Lists(Copies(c), Kept(c)) /\ Copies(c) \in Seq(Stages)
      BY <1>1, PlanLists DEF Lists, InOrder
    <3>. QED
      BY <3>1 DEF Lists, ToSet
  <2>. QED
    BY <1>0, <2>2, <2>3 DEF CarryOver
<1>. QED
  BY <1>3, <1>4

\* The stage before the publication is the selection.
LEMMA SelectionBefore ==
  ASSUME NEW c \in Commands, Workable(c), NEW i \in 1 .. Len(Plan(c)), Plan(c)[i] = "recommendation_publish"
  PROVE  i > 1 /\ Plan(c)[i - 1] = "recommendation_select"
<1>1. Lists(Plan(c), Recomputed(c)) /\ InOrder(Plan(c)) /\ Len(Plan(c)) \in Nat
  BY PlanLists, PlanFacts DEF Lists
<1>2. "recommendation_select" \in Recomputed(c)
  <2>1. "recommendation_publish" \in Recomputed(c)
    BY <1>1 DEF Lists
  <2>. QED
    BY <2>1, PlanOfWorkable DEF Workable
<1>3. PICK j \in 1 .. Len(Plan(c)) : Plan(c)[j] = "recommendation_select"
  BY <1>1, <1>2 DEF Lists
<1>4. j < i
  BY <1>1, <1>3, Numbers, EarlierInPlan
<1>5. i - 1 \in 1 .. Len(Plan(c))
  BY <1>1, <1>4
<1>6. ~(j < i - 1)
  <2>1. Plan(c)[i - 1] \in Stages /\ Place(Plan(c)[i - 1]) \in 1 .. 14 /\ Place(Plan(c)[i - 1]) < 12
    BY <1>1, <1>5, Numbers, EarlierInPlan
  <2>2. \A k \in 1 .. Len(Plan(c)) : j < k => 11 < Place(Plan(c)[k])
    BY <1>1, <1>3, Numbers, EarlierInPlan
  <2>. QED
    BY <1>5, <2>1, <2>2
<1>7. j = i - 1
  BY <1>1, <1>4, <1>6
<1>. QED
  BY <1>3, <1>4, <1>7

\* What is selected is there until it is published.
LEMMA SelectedStep ==
  ASSUME Types, NEW r \in Runs, Steps(r), Smoothly(r)
  PROVE  Selected(run[r])'
<1>. SUFFICES ASSUME run'[r].pc \in Staged, StageOf(run'[r]) = "recommendation_publish"
              PROVE  "snapshot" \in rows'
  BY DEF Selected, StageOf, Plan
<1>. DEFINE c == run[r].command
<1>1. /\ run'[r].command = c /\ c \in Commands /\ run[r] \in RunRow /\ run[r].i \in Nat
      /\ run'[r].i \in 1 .. Len(Plan(c)) /\ Plan(c)[run'[r].i] = "recommendation_publish"
  BY DEF Smoothly, Workable, Types, Fits, RunRow, StageOf
<1>2. run'[r].i > 1 /\ Plan(c)[run'[r].i - 1] = "recommendation_select"
  BY <1>1, SelectionBefore DEF Smoothly
<1>3. CASE run[r].pc \in Staged /\ StageOf(run[r]) = "recommendation_publish"
  <2>1. "snapshot" \in rows /\ Stage(r) = "recommendation_publish"
    BY <1>3, AtStage DEF Smoothly, OnTrack, Selected
  <2>2. ~Recommend(r)
    BY <1>3 DEF Recommend, At, Smoothly, OnTrack, Handled
  <2>. QED
    BY <2>1, <2>2, RowsGrow
<1>4. CASE run[r].pc = "judge"
  <2>1. "snapshot" \in rows
    <3>1. CASE EndFlow(r) \/ CopyFlow(r) \/ OpenFlow(r) \/ EnterFlow(r) \/ ExecuteFlow(r) \/ CommitFlow(r) \/ Cut(r)
      BY <1>4, <3>1 DEF EndFlow, CopyFlow, OpenFlow, EnterFlow, ExecuteFlow, CommitFlow, Opening, Ahead, Staged, Cut
    <3>2. CASE ErrorFlow(r) \/ JudgeFlow(r)
      BY <1>4, <3>2 DEF ErrorFlow, JudgeFlow, Staged, Ahead
    <3>. QED
      BY <3>1, <3>2 DEF Smoothly, Flow
  <2>2. ~Recommend(r) /\ ~Score(r)
    BY <1>4 DEF Recommend, Score, Executes, At
  <2>. QED
    BY <2>1, <2>2, RowsGrow
<1>5. run[r].pc # "judge" => run[r].pc \in Staged /\ Stays(r)
  <2>1. StagesOn(r) /\ run[r].pc \in Staged => FALSE
    <3>1. SUFFICES ASSUME run[r].pc \in Staged, run'[r].i = run[r].i + 1, Stage(r) # "recommendation_select"
                   PROVE  FALSE
      BY DEF StagesOn, Staged, Ahead
    <3>2. Stage(r) = Plan(c)[run[r].i]
      BY DEF Stage
    <3>3. run[r].i = run'[r].i - 1
      BY <1>1, <3>1
    <3>. QED
      BY <1>2, <3>1, <3>2, <3>3
  <2>2. ~OpenFlow(r)
    BY <1>2 DEF OpenFlow, Opening, Staged, Ahead
  <2>3. ~EndFlow(r) /\ ~CopyFlow(r)
    BY DEF EndFlow, CopyFlow, CopiesOn, Staged, Ahead
  <2>4. CASE Cut(r)
    BY <2>4 DEF Cut, Stays
  <2>5. CASE EnterFlow(r) \/ CommitFlow(r)
    BY <2>1, <2>5 DEF EnterFlow, CommitFlow, Bears, Staged, Ahead
  <2>6. CASE ExecuteFlow(r)
    BY <2>6 DEF ExecuteFlow, Bears, Staged, Ahead
  <2>7. CASE ErrorFlow(r) \/ JudgeFlow(r)
    BY <2>7 DEF ErrorFlow, JudgeFlow, Staged, Ahead
  <2>. QED
    BY <2>2, <2>3, <2>4, <2>5, <2>6, <2>7 DEF Smoothly, Flow
<1>. QED
  BY <1>1, <1>3, <1>4, <1>5 DEF Stays, StageOf

\* At its end a run has the stages up to the selection behind it.
LEMMA ThroughStep ==
  ASSUME Types, NEW r \in Runs, Steps(r), Smoothly(r)
  PROVE  Through(run[r])'
<1>. DEFINE c == run[r].command
            s == StageOf(run[r])
<1>0. run'[r].command = c /\ c \in Commands /\ Early(c) \subseteq {t \in Stages : Place(t) <= 11} /\ Early(c) \subseteq Recomputed(c)
  BY PlanOfWorkable, Numbers DEF Smoothly, Workable, Early
<1>1. \A t : Has(artifacts, t) => Has(artifacts', t)
  BY NewArtifact
<1>. SUFFICES ASSUME run'[r].pc = "end"
              PROVE  \A t \in Early(c) : Has(artifacts, t)
  BY <1>0, <1>1 DEF Through, Early, Recomputed
<1>2. CASE run[r].pc = "end"
  BY <1>2 DEF Smoothly, OnTrack, Through
<1>3. CASE run[r].pc # "end"
  <2>1. /\ run[r].pc \in Staged \cup Judging
        /\ \/ run[r].i = Len(Plan(c)) /\ run[r].pc \in {"latest", "finishWrite", "judge"} /\ (run[r].pc = "latest" => Stored(Stage(r)))
           \/ PostProcessing(Stage(r))
    BY <1>3 DEF Smoothly, Flow, Cut, EndFlow, CopyFlow, OpenFlow, EnterFlow, ExecuteFlow, CommitFlow, ErrorFlow, JudgeFlow,
                Opening, CopiesOn, StagesOn, Staged, Ahead, Judging
  <2>2. Stage(r) = s /\ s \in Stages /\ run[r].i \in 1 .. Len(Plan(c))
    BY <2>1, AtStage
  <2>3. \A t \in Stages : Place(t) < Place(s) => Has(artifacts, t)
    BY <2>1, BehindStage DEF Smoothly, Built
  <2>4. CASE PostProcessing(s)
    <3>1. Place(s) \in {13, 14}
      BY <2>4, Numbers DEF PostProcessing
    <3>2. \A t \in Stages : Place(t) \in 1 .. 14
      BY PlaceOfStage
    <3>. HIDE DEF s
    <3>3. \A t \in Stages : Place(t) <= 11 => Place(t) < Place(s)
      BY <3>1, <3>2
    <3>. QED
      BY <1>0, <2>3, <3>3
  <2>5. CASE run[r].i = Len(Plan(c)) /\ run[r].pc \in {"latest", "finishWrite", "judge"} /\ (run[r].pc = "latest" => Stored(Stage(r)))
    <3>1. Has(artifacts, s)
      <4>1. CASE run[r].pc = "latest"
        BY <2>2, <2>5, <4>1, StoredIs
      <4>2. CASE run[r].pc # "latest"
        BY <2>5, <4>2 DEF Smoothly, Leading, Done, Judging, Built
      <4>. QED
        BY <4>1, <4>2
    <3>2. ASSUME NEW t \in Recomputed(c)
          PROVE  t = s \/ (t \in Stages /\ Place(t) < Place(s))
      <4>1. Lists(Plan(c), Recomputed(c)) /\ InOrder(Plan(c)) /\ Len(Plan(c)) \in Nat
        BY <1>0, PlanLists DEF Lists
      <4>2. PICK j \in 1 .. Len(Plan(c)) : Plan(c)[j] = t
        BY <4>1 DEF Lists
      <4>3. s = Plan(c)[run[r].i]
        BY DEF StageOf
      <4>4. j < run[r].i => Place(t) < Place(s) /\ t \in Stages
        BY <2>2, <4>1, <4>2, <4>3, EarlierInPlan
      <4>. HIDE DEF s
      <4>. QED
        BY <2>5, <4>1, <4>2, <4>3, <4>4
    <3>. QED
      BY <1>0, <2>3, <3>1, <3>2
  <2>. QED
    BY <2>1, <2>2, <2>4, <2>5
<1>. QED
  BY <1>2, <1>3

\* A run that is on track stays so.
LEMMA OnTrackStep ==
  ASSUME Types, Finals, NEW r \in Runs, Steps(r), Smoothly(r)
  PROVE  OnTrack(run[r])'
BY UncommittedStep, UnderwayStep, HandledStep, AccomplishedStep, CarriedStep, SelectedStep, ThroughStep DEF OnTrack

-----------------------------------------------------------------------------
(* Why a run is refused: the inductive invariant *)

\* A run that begins after all others have ended finds what they have left.
LEMMA BeginResumable ==
  ASSUME Types, Resumable, NEW r \in Runs, Begin(r), ~overlapped'
  PROVE  Resumable'
<1>1. /\ holder' = r /\ artifacts' = artifacts /\ step' = step /\ trace' = trace /\ rows' = rows
      /\ ~overlapped /\ run[r].pc = "off" /\ \A o \in Runs : ~Live(o)
  BY DEF Begin, At, Live, store
<1>2. /\ run' = [run EXCEPT ![r] = run'[r]] /\ run'[r] \in RunRow /\ Fits(run'[r])
      /\ run'[r].pc \in {"done", "openRead", "copyRead"} /\ run'[r].command \in Commands
      /\ run'[r].pc = "openRead" => Copies(run'[r].command) = <<>>
  BY <1>1, BeginMoves
<1>3. \A o \in Runs \ {r} : run'[o] = run[o]
  BY <1>2, Others
<1>4. ~Going
  BY <1>1 DEF Going
<1>5. ASSUME NEW c \in Commands, Workable(c), Smooth(c)'
      PROVE  Inherited(c)' /\ (Going => OnTrack(Owner))'
  <2>1. run'[r].command = c
    BY <1>2, <1>5 DEF Smooth
  <2>2. Smooth(c)
    <3>1. ASSUME NEW o \in Runs \ {r}
          PROVE  run[o].pc = "off" \/ (run[o].command = c /\ run[o].pc # "dead" /\ ~Erring(run[o]))
      BY <1>3, <1>5, <3>1 DEF Smooth, Erring, Spared
    <3>. QED
      BY <1>1, <3>1 DEF Smooth
  <2>3. Inherited(c)
    BY <1>1, <1>5, <2>2 DEF Resumable
  <2>4. Inherited(c)'
    <3>1. KeptAgree(c)' /\ KindAgrees(c)' /\ Reusable(c)' /\ RowsLeft(c)'
      BY <1>1, <2>3 DEF Inherited, KeptAgree, KindAgrees, Reusable, RowsLeft
    <3>2. Untouched(c)'
      BY <1>1, <1>4, <2>3 DEF Inherited, Untouched
    <3>3. ByOne(c)'
      BY <1>1, <1>4, <2>3 DEF Inherited, ByOne
    <3>. QED
      BY <3>1, <3>2, <3>3 DEF Inherited
  <2>5. ASSUME Going'
        PROVE  OnTrack(run[r])'
    <3>1. run'[r].pc \in {"openRead", "copyRead"}
      BY <1>1, <1>2, <2>5 DEF Going, Live
    <3>2. run'[r].pc = "openRead" => Kept(c) = {}
      <4>1. Lists(Copies(c), Kept(c))
        BY PlanLists
      <4>. QED
        BY <1>2, <2>1, <4>1 DEF Lists
    <3>3. Carried(run[r])'
      BY <2>1, <3>1, <3>2 DEF Carried, Kept, Staged, Ahead, Judging
    <3>4. /\ Uncommitted(run[r])' /\ Underway(run[r])' /\ Handled(run[r])' /\ Accomplished(run[r])'
          /\ Selected(run[r])' /\ Through(run[r])'
      BY <3>1 DEF Uncommitted, Underway, Handled, Accomplished, Selected, Through, Staged, Entered, Ahead
    <3>. QED
      BY <3>3, <3>4 DEF OnTrack
  <2>6. Owner' = run'[r]
    BY <1>1 DEF Owner
  <2>7. OnTrack(run[r])' => OnTrack(Owner)'
    BY <2>6 DEF OnTrack, Uncommitted, Underway, Handled, Accomplished, Carried, Selected, Through, StageOf, Plan, RowOf
  <2>. QED
    BY <2>4, <2>5, <2>7
<1>6. ReleasedLast'
  BY <1>1 DEF Resumable, ReleasedLast
<1>7. \A c \in Commands : Workable(c)' => Workable(c)
  BY DEF Workable, Copies
<1>. QED
  BY <1>5, <1>6, <1>7 DEF Resumable

\* Every other step keeps what lets runs follow each other.
LEMMA StepResumable ==
  ASSUME Types, Finals, Published, InTurn, ErrorsPlaced, Resumable, ~overlapped, NEW r \in Runs, Steps(r)
  PROVE  Resumable'
<1>1. holder = r /\ late' = {} /\ ReleasedLast /\ holder' = holder
  BY AloneStep, StepMoves DEF InTurn, Alone, Resumable, Moves, Steps
<1>2. ReleasedLast'
  BY <1>1, RowsGrow, RecordedStays DEF ReleasedLast
<1>3. ASSUME NEW c \in Commands, Workable(c), Smooth(c)'
      PROVE  Inherited(c)' /\ (Going => OnTrack(Owner))'
  <2>1. Smoothly(r) /\ c = run[r].command /\ run'[r].command = c
    BY <1>3, GoesSmoothly DEF Smoothly
  <2>2. Inherited(run[r].command)' /\ OnTrack(run[r])'
    BY <2>1, InheritedStep, OnTrackStep
  <2>3. Inherited(c)'
    BY <2>1, <2>2
  <2>4. Owner' = run'[r]
    BY <1>1 DEF Owner
  <2>5. OnTrack(run[r])' => OnTrack(Owner)'
    BY <2>4 DEF OnTrack, Uncommitted, Underway, Handled, Accomplished, Carried, Selected, Through, StageOf, Plan, RowOf
  <2>. QED
    BY <2>2, <2>3, <2>5
<1>4. \A c \in Commands : Workable(c)' => Workable(c)
  BY DEF Workable, Copies
<1>. QED
  BY <1>2, <1>3, <1>4 DEF Resumable

\* At first there is nothing to follow.
LEMMA InitResumable == Init => Resumable /\ ErrorsPlaced
<1>. SUFFICES ASSUME Init
              PROVE  Resumable /\ ErrorsPlaced
  OBVIOUS
<1>1. holder \notin Runs /\ artifacts = {} /\ rows = {} /\ trace.status = "absent" /\ (\A s \in Stages : step[s] = "absent")
      /\ \A r \in Runs : run[r].error = None /\ run[r].pc = "off"
  BY NoneIsNothing DEF Init, Fresh
<1>2. ErrorsPlaced
  BY <1>1 DEF ErrorsPlaced, Placed
<1>3. \A c \in Commands : Recomputed(c) \subseteq Stages
  BY PlanOfWorkable
<1>. QED
  BY <1>1, <1>2, <1>3
     DEF Resumable, ReleasedLast, Inherited, KeptAgree, KindAgrees, Reusable, Untouched, RowsLeft, ByOne, Going, Has

\* Every step keeps it.
LEMMA NextResumable ==
  ASSUME Types, Finals, Published, Serial, ErrorsPlaced, Resumable, [Next]_vars
  PROVE  Resumable' /\ ErrorsPlaced'
<1>1. ASSUME NEW r \in Runs, Begin(r)
      PROVE  Resumable' /\ ErrorsPlaced'
  <2>1. run' = [run EXCEPT ![r] = run'[r]] /\ run'[r].pc \in {"done", "openRead", "copyRead"} /\ run'[r].error = None
        /\ \A o \in Runs \ {r} : run'[o] = run[o]
    BY <1>1, BeginMoves, Others
  <2>2. ErrorsPlaced'
    <3>1. ASSUME NEW o \in Runs
          PROVE  Placed(run'[o])
      BY <2>1 DEF ErrorsPlaced, Placed
    <3>. QED
      BY <3>1 DEF ErrorsPlaced, Placed
  <2>. QED
    BY <1>1, <2>2, BeginResumable DEF Resumable
<1>2. ASSUME NEW r \in Runs, Steps(r)
      PROVE  Resumable' /\ ErrorsPlaced'
  <2>1. Moves(r) /\ Errs(r)
    BY <1>2, StepMoves, StepErrs DEF Steps, ErrorsPlaced
  <2>2. \A o \in Runs \ {r} : run'[o] = run[o]
    BY <2>1, Others DEF Moves
  <2>3. ErrorsPlaced'
    <3>1. ASSUME NEW o \in Runs
          PROVE  Placed(run'[o])
      BY <2>1, <2>2 DEF ErrorsPlaced, Placed, Errs
    <3>. QED
      BY <3>1 DEF ErrorsPlaced, Placed
  <2>4. CASE overlapped
    BY <2>1, <2>3, <2>4 DEF Moves, Resumable
  <2>5. CASE ~overlapped
    BY <1>2, <2>3, <2>5, StepResumable DEF Serial
  <2>. QED
    BY <2>4, <2>5
<1>3. CASE UNCHANGED vars
  <2>1. ErrorsPlaced'
    BY <1>3 DEF vars, ErrorsPlaced, Placed
  <2>2. Resumable'
    BY <1>3 DEF vars, Resumable, ReleasedLast, Workable, Smooth, Erring, Spared, Inherited, KeptAgree, KindAgrees, Reusable,
        Untouched, RowsLeft, ByOne, Going, Owner, Live, Early, OnTrack, Uncommitted, Underway, Handled, Accomplished,
        Carried, Selected, Through
  <2>. QED
    BY <2>1, <2>2
<1>. QED
  BY <1>1, <1>2, <1>3 DEF Next, Steps

-----------------------------------------------------------------------------
(* Why a run is refused: a cause that stays *)

\* A command that cannot be carried out, or a run before it that was disturbed or of
\* another command.
Cause(r) ==
  \/ ~Workable(run[r].command)
  \/ \E o \in Runs \ {r} : run[o].pc \in Over /\ (Disturbed(o) \/ run[o].command # run[r].command)
Caused == ~overlapped => \A r \in Runs : run[r].error \in Refusals => Cause(r)

\* A run that has no cause to be refused is on track.
LEMMA CauselessIsSmooth ==
  ASSUME Types, InTurn, Caused, ~overlapped, NEW r \in Runs, Steps(r), ~Cause(r), run[r].error = None
  PROVE  Smooth(run[r].command)
<1>. DEFINE c == run[r].command
<1>1. holder = r /\ Live(r) /\ Workable(c) /\ \A o \in Runs \ {r} : ~Live(o)
  BY AloneStep, StepsLive DEF InTurn, Alone, Cause
<1>2. ASSUME NEW o \in Runs \ {r}, run[o].pc # "off"
      PROVE  run[o].command = c /\ run[o].pc # "dead" /\ ~Erring(run[o])
  <2>1. run[o].pc \in Over
    BY <1>1, <1>2 DEF Live, Over
  <2>2. ~Disturbed(o) /\ run[o].command = c
    BY <2>1 DEF Cause
  <2>3. run[o].error \notin Refusals
    <3>1. SUFFICES ASSUME Cause(o)
                   PROVE  FALSE
      BY DEF Caused
    <3>2. PICK p \in Runs \ {o} : run[p].pc \in Over /\ (Disturbed(p) \/ run[p].command # c)
      BY <1>1, <2>2, <3>1 DEF Cause
    <3>3. p # r
      BY <1>1, <3>2 DEF Live, Over
    <3>. QED
      BY <3>2, <3>3 DEF Cause
  <2>4. run[o].error \in Error \cup {None}
    BY DEF Types, RunRow
  <2>5. run[o].error = None
    BY <2>2, <2>3, <2>4 DEF Disturbed, Refusals, Error
  <2>. QED
    BY <2>2, <2>5 DEF Disturbed, At, Erring
<1>3. run[r].pc # "dead" /\ ~Erring(run[r])
  BY <1>1 DEF Live, Erring
<1>. QED
  BY <1>2, <1>3 DEF Smooth

\* A step of a run gives no other one a cause or takes it, and refuses none without.
LEMMA StepCaused ==
  ASSUME Types, Finals, Published, InTurn, ErrorsPlaced, Resumable, Caused, ~overlapped, NEW r \in Runs, Steps(r)
  PROVE  Caused'
<1>1. /\ holder = r /\ late = {} /\ Live(r) /\ Moves(r) /\ Flow(r) /\ Errs(r) /\ Placed(run[r])
      /\ run'[r].command = run[r].command
  BY AloneStep, StepsLive, StepMoves, Flows, StepErrs DEF InTurn, Alone, Steps, Flow, ErrorsPlaced
<1>2. \A o \in Runs \ {r} : run'[o] = run[o]
  BY <1>1, Others DEF Moves
<1>3. ASSUME NEW q \in Runs, Cause(q)
      PROVE  Cause(q)'
  <2>1. run'[q].command = run[q].command
    BY <1>1, <1>2
  <2>2. CASE ~Workable(run[q].command)
    BY <2>1, <2>2 DEF Cause, Workable, Copies
  <2>3. CASE \E o \in Runs \ {q} : run[o].pc \in Over /\ (Disturbed(o) \/ run[o].command # run[q].command)
    <3>1. PICK o \in Runs \ {q} : run[o].pc \in Over /\ (Disturbed(o) \/ run[o].command # run[q].command)
      BY <2>3
    <3>2. o # r
      BY <1>1, <3>1 DEF Live, Over
    <3>3. run'[o] = run[o]
      BY <1>2, <3>2
    <3>. QED
      BY <2>1, <3>1, <3>3 DEF Cause, Disturbed, At
  <2>. QED
    BY <1>3, <2>2, <2>3 DEF Cause
<1>4. ASSUME run'[r].error \in Refusals, ~Cause(r)
      PROVE  FALSE
  <2>0. None \notin Refusals
    <3>1. Refusals \subseteq Error
      BY DEF Error, Refusals
    <3>. QED
      BY <3>1, NoneIsNothing
  <2>1. run[r].error \notin Refusals
    BY <1>4 DEF Caused
  <2>2. run[r].error = None
    BY <1>1, <1>4, <2>0, <2>1 DEF Errs, Persists
  <2>3. Smooth(run[r].command) /\ Workable(run[r].command) /\ run[r].command \in Commands
    BY <1>4, <2>2, CauselessIsSmooth DEF Cause, Workable
  <2>4. Going /\ Owner = run[r]
    BY <1>1 DEF Going, Owner
  <2>5. ReleasedLast /\ Inherited(run[r].command) /\ OnTrack(run[r])
    BY <2>3, <2>4 DEF Resumable
  <2>6. Leading(artifacts, run[r])
    BY <1>1 DEF Published, Leads
  <2>. QED
    BY <1>1, <1>4, <2>1, <2>3, <2>5, <2>6, Unrefused
<1>5. ASSUME NEW q \in Runs, run'[q].error \in Refusals
      PROVE  Cause(q)'
  <2>1. CASE q = r
    BY <1>3, <1>4, <1>5, <2>1
  <2>2. CASE q # r
    BY <1>2, <1>3, <1>5, <2>2 DEF Caused
  <2>. QED
    BY <2>1, <2>2
<1>. QED
  BY <1>5 DEF Caused

\* Every step keeps a cause for every refusal.
LEMMA NextCaused ==
  ASSUME Types, Finals, Published, Serial, ErrorsPlaced, Resumable, Caused, [Next]_vars
  PROVE  Caused'
<1>. SUFFICES ASSUME ~overlapped'
              PROVE  Caused'
  BY DEF Caused
<1>1. ASSUME NEW r \in Runs, Begin(r)
      PROVE  Caused'
  <2>1. run' = [run EXCEPT ![r] = run'[r]] /\ run'[r].error = None /\ (\A o \in Runs \ {r} : run'[o] = run[o])
        /\ run[r].pc = "off" /\ ~overlapped
    BY <1>1, BeginMoves, Others DEF Begin, At
  <2>2. ASSUME NEW q \in Runs, run'[q].error \in Refusals
        PROVE  Cause(q)'
    <3>0. q # r
      <4>1. Refusals \subseteq Error
        BY DEF Error, Refusals
      <4>. QED
        BY <2>1, <2>2, <4>1, NoneIsNothing
    <3>1. run'[q] = run[q] /\ Cause(q)
      BY <2>1, <2>2, <3>0 DEF Caused
    <3>2. CASE ~Workable(run[q].command)
      BY <3>1, <3>2 DEF Cause, Workable, Copies
    <3>3. CASE \E o \in Runs \ {q} : run[o].pc \in Over /\ (Disturbed(o) \/ run[o].command # run[q].command)
      <4>1. PICK o \in Runs \ {q} : run[o].pc \in Over /\ (Disturbed(o) \/ run[o].command # run[q].command)
        BY <3>3
      <4>2. run'[o] = run[o]
        BY <2>1, <4>1 DEF Over
      <4>. QED
        BY <3>1, <4>1, <4>2 DEF Cause, Disturbed, At
    <3>. QED
      BY <3>1, <3>2, <3>3 DEF Cause
  <2>. QED
    BY <2>2 DEF Caused
<1>2. ASSUME NEW r \in Runs, Steps(r)
      PROVE  Caused'
  <2>1. ~overlapped
    BY <1>2, StepMoves DEF Steps, Moves
  <2>. QED
    BY <1>2, <2>1, StepCaused DEF Serial
<1>3. CASE UNCHANGED vars
  BY <1>3 DEF vars, Caused, Cause, Workable, Disturbed, At
<1>. QED
  BY <1>1, <1>2, <1>3 DEF Next, Steps

\* A cause is one that an operator could know.
LEMMA CausedSuffices == Types /\ ErrorsPlaced /\ Caused => RefusalHasCause
<1>. SUFFICES ASSUME Types, ErrorsPlaced, Caused, ~overlapped, NEW r \in Runs, Refused(r)
              PROVE  \/ run[r].command.start \in DeadEnds
                     \/ ~(ToSet(Copies(run[r].command)) \subseteq SourceStages)
                     \/ \E o \in Runs \ {r} : Disturbed(o) \/ run[o].command \notin {None, run[r].command}
  BY DEF RefusalHasCause
<1>1. run[r].error \in Refusals /\ run[r].error # None
  <2>1. Refusals \subseteq Error
    BY DEF Error, Refusals
  <2>2. run[r].error \in Refusals
    BY DEF Refused, Refusals
  <2>. QED
    BY <2>1, <2>2, NoneIsNothing
<1>2. run[r].command \in Commands
  BY <1>1 DEF ErrorsPlaced, Placed, Troubled, Types, Fits
<1>3. CASE ~Workable(run[r].command)
  BY <1>2, <1>3 DEF Workable
<1>4. CASE \E o \in Runs \ {r} : run[o].pc \in Over /\ (Disturbed(o) \/ run[o].command # run[r].command)
  <2>1. PICK o \in Runs \ {r} : run[o].pc \in Over /\ (Disturbed(o) \/ run[o].command # run[r].command)
    BY <1>4
  <2>2. run[o].command # None
    BY <2>1, NoneIsNothing DEF Types, Fits, Over
  <2>. QED
    BY <2>1, <2>2
<1>. QED
  BY <1>1, <1>3, <1>4 DEF Caused, Cause

\* Runs of a workable command follow each other without being refused, and every
\* refusal has a cause, in every behaviour.
LEMMA CausedHolds == Spec => [](Types /\ Finals /\ Published /\ Serial /\ ErrorsPlaced /\ Resumable /\ Caused)
<1>1. Init => Types /\ Finals /\ Published /\ Serial /\ ErrorsPlaced /\ Resumable /\ Caused
  <2>1. Init => Caused
    <3>1. Refusals \subseteq Error
      BY DEF Error, Refusals
    <3>. QED
      BY <3>1, NoneIsNothing DEF Init, Fresh, Caused
  <2>. QED
    BY <2>1, InitTypes, InitFinals, InitPublished, InitSerial, InitResumable
<1>2. Types /\ Finals /\ Published /\ Serial /\ ErrorsPlaced /\ Resumable /\ Caused /\ [Next]_vars =>
        (Types /\ Finals /\ Published /\ Serial /\ ErrorsPlaced /\ Resumable /\ Caused)'
  BY NextTypes, NextFinals, NextPublished, NextSerial, NextResumable, NextCaused
<1>. QED
  BY <1>1, <1>2, PTL DEF Spec

\* A run is refused only for a reason that an operator could know: it started where a
\* recomputation cannot, or an earlier run was disturbed, overlapped, or was of another command.
THEOREM RefusalsHaveCause == Spec => []RefusalHasCause
BY CausedHolds, CausedSuffices, PTL

-----------------------------------------------------------------------------
(* The lease of the trace.  RegistryRun has its lock and its holder as two  *)
(* variables that change in one step; RunLease has the statements, failures *)
(* and heartbeats of it.  Its proofs stand for any stages that checkpoints  *)
(* are named after and any length of the lease.                             *)

CONSTANTS Checkpoints, \* names of the checkpoints of a run
          LeaseTicks   \* length of the lease, in ticks of the clock

VARIABLES leaseLock, leaseRow, leaseRun, leaseCheckpoint, leaseLate

Lease == INSTANCE RunLease WITH
  Stages <- Checkpoints, lock <- leaseLock, row <- leaseRow, run <- leaseRun,
  checkpoint <- leaseCheckpoint, late <- leaseLate

\* What RunLease assumes of its constants.
LeaseConstants == LeaseTicks \in Nat \ {0} /\ None \notin Runs \cup Checkpoints

\* Only the holder of the lock has a session, and the lock is always held
\* through one.
LockIsSession == \A r \in Runs : leaseLock = r <=> leaseRun[r].conn = "up"

\* A run that has not begun has no connection.
OffIsOffline == \A r \in Runs : leaseRun[r].pc = "off" => leaseRun[r].conn = "none"

\* A starting run has read the row, and nobody has written it since; a run
\* that has started and still has its session owns the row.
SessionFollowsRow ==
  \A r \in Runs : Lease!Session(r) =>
    /\ leaseRun[r].pc = "writing" => leaseRun[r].gen = leaseRow.gen + 1
    /\ leaseRun[r].pc = "running" => Lease!StillMine(r)

\* A run that has started is not ahead of the row.
NotAhead == \A r \in Runs : Lease!Started(r) => leaseRun[r].gen <= leaseRow.gen

\* A run with a late checkpoint is superseded for good, and is past no check.
LateIsSpent ==
  \A r \in Runs, st \in Checkpoints : <<r, st>> \in leaseLate => leaseRow.gen > leaseRun[r].gen /\ leaseRun[r].job # "fenced"

\* A run that lives but has not started has no work.
OnlyStartedWork == \A r \in Runs : leaseRun[r].job # "none" => Lease!Started(r)

\* A run that has not started yet has nothing late.
LateIsPast == \A r \in Runs, st \in Checkpoints : <<r, st>> \in leaseLate => leaseRun[r].pc \in {"running", "closed", "dead"}

Generations == LockIsSession /\ OffIsOffline /\ SessionFollowsRow /\ NotAhead /\ Lease!GenerationsDiffer

Lateness == LateIsSpent /\ OnlyStartedWork /\ LateIsPast /\ Lease!OneLateCheckpoint

LeaseInv == Lease!TypeOK /\ Generations /\ Lateness

\* The first state has an unlocked trace and no runs.
LEMMA LeaseInitInv ==
  ASSUME LeaseConstants, Lease!Init
  PROVE  LeaseInv
BY DEF LeaseConstants, Lease!Init, LeaseInv, Generations, Lateness, Lease!TypeOK, Lease!Run,
       Lease!RunPc, LockIsSession, OffIsOffline, SessionFollowsRow, Lease!Session, NotAhead,
       Lease!Started, Lease!GenerationsDiffer, LateIsSpent, OnlyStartedWork, LateIsPast,
       Lease!OneLateCheckpoint

-----------------------------------------------------------------------------
(* The lease: types *)

\* What WriteLease and the heartbeat write is a row.
LEMMA PersistedType ==
  ASSUME LeaseConstants, Lease!TypeOK, NEW r \in Runs
  PROVE  Lease!Persisted(r) \in [owner : Runs \cup {None}, gen : Nat, ttl : -1 .. LeaseTicks]
BY DEF LeaseConstants, Lease!Persisted, Lease!TypeOK, Lease!Run

\* What is left of a run that ends is a run without work.
LEMMA EndedType ==
  ASSUME LeaseConstants, Lease!TypeOK, NEW r \in Runs
  PROVE  Lease!Ended(r) \in Lease!Run /\ Lease!Ended(r).job = "none" /\ Lease!Ended(r).stage = None
BY DEF Lease!Ended, Lease!TypeOK, Lease!Run, Lease!RunPc

\* The run's connection survives it.
LEMMA DeadType ==
  ASSUME LeaseConstants, Lease!TypeOK, NEW r \in Runs, NEW x, x = [Lease!Ended(r) EXCEPT !.pc = "dead", !.conn = leaseRun[r].conn]
  PROVE  x \in Lease!Run /\ x.job = "none" /\ x.stage = None
<1>1. leaseRun[r].conn \in {"none", "up", "cut"}
  BY DEF Lease!TypeOK, Lease!Run
<1>. QED
  BY <1>1, EndedType DEF Lease!Run, Lease!RunPc

\* A step that changes the memory of one run, and what else it writes.
LEMMA OneRunStep ==
  ASSUME LeaseConstants, Lease!TypeOK, NEW r \in Runs, NEW x \in Lease!Run,
         x.job = "none" <=> x.stage = None,
         leaseRun' = [leaseRun EXCEPT ![r] = x]
  PROVE  /\ leaseRun' \in [Runs -> Lease!Run]
         /\ \A q \in Runs : leaseRun'[q].job = "none" <=> leaseRun'[q].stage = None
BY DEF Lease!TypeOK

\* Every step of the lease and of checkpointWork keeps the types.
LEMMA LeaseTypesStep ==
  ASSUME LeaseConstants, Lease!TypeOK, [Lease!Next]_(Lease!vars)
  PROVE  Lease!TypeOK'
<1>1. ASSUME NEW r \in Runs, Lease!Connect(r) PROVE Lease!TypeOK'
  <2>1. CASE Lease!LockIsFree
    <3>. DEFINE x == [leaseRun[r] EXCEPT !.pc = "reading", !.conn = "up"]
    <3>1. x \in Lease!Run /\ (x.job = "none" <=> x.stage = None)
      BY DEF Lease!TypeOK, Lease!Run, Lease!RunPc
    <3>2. leaseRun' = [leaseRun EXCEPT ![r] = x]
      BY <1>1, <2>1 DEF Lease!Connect, Lease!TypeOK, Lease!Run
    <3>. QED
      BY <1>1, <2>1, <3>1, <3>2, OneRunStep DEF Lease!Connect, Lease!TypeOK
  <2>2. CASE ~Lease!LockIsFree
    <3>1. leaseRun' = [leaseRun EXCEPT ![r] = Lease!Ended(r)] /\ leaseLock' = leaseLock /\ UNCHANGED <<leaseRow, leaseCheckpoint, leaseLate>>
      BY <1>1, <2>2 DEF Lease!Connect
    <3>2. /\ leaseRun' \in [Runs -> Lease!Run]
          /\ \A q \in Runs : leaseRun'[q].job = "none" <=> leaseRun'[q].stage = None
      BY <3>1, EndedType, OneRunStep
    <3>. QED
      BY <3>1, <3>2 DEF Lease!TypeOK
  <2>. QED
    BY <2>1, <2>2
<1>2. ASSUME NEW r \in Runs, Lease!ReadLease(r) PROVE Lease!TypeOK'
  <2>. DEFINE x == [leaseRun[r] EXCEPT !.pc = "writing", !.gen = Lease!NextGeneration]
  <2>1. x \in Lease!Run /\ (x.job = "none" <=> x.stage = None)
    <3>1. leaseRow.gen + 1 \in Nat /\ leaseRun[r] \in Lease!Run /\ (leaseRun[r].job = "none" <=> leaseRun[r].stage = None)
      BY DEF Lease!TypeOK
    <3>. QED
      BY <3>1 DEF Lease!Run, Lease!RunPc, Lease!NextGeneration
  <2>2. leaseRun' = [leaseRun EXCEPT ![r] = x]
    BY <1>2 DEF Lease!ReadLease, Lease!TypeOK, Lease!Run, Lease!NextGeneration
  <2>. QED
    BY <1>2, <2>1, <2>2, OneRunStep DEF Lease!ReadLease, Lease!NextGeneration, Lease!TypeOK
<1>3. ASSUME NEW r \in Runs, Lease!WriteLease(r) PROVE Lease!TypeOK'
  <2>. DEFINE x == [leaseRun[r] EXCEPT !.pc = "running"]
  <2>1. x \in Lease!Run /\ (x.job = "none" <=> x.stage = None)
    BY <1>3 DEF Lease!TypeOK, Lease!Run, Lease!RunPc
  <2>2. leaseRun' = [leaseRun EXCEPT ![r] = x]
    BY <1>3 DEF Lease!WriteLease, Lease!TypeOK, Lease!Run
  <2>. QED
    BY <1>3, <2>1, <2>2, OneRunStep, PersistedType DEF Lease!WriteLease, Lease!TypeOK
<1>4. ASSUME NEW r \in Runs, Lease!StartFails(r) PROVE Lease!TypeOK'
  <2>. DEFINE x == Lease!Ended(r)
  <2>1. x \in Lease!Run /\ (x.job = "none" <=> x.stage = None)
    BY EndedType
  <2>2. leaseRun' = [leaseRun EXCEPT ![r] = x]
    BY <1>4, EndedType DEF Lease!StartFails, Lease!TypeOK, Lease!Run
  <2>. QED
    BY <1>4, <2>1, <2>2, OneRunStep, PersistedType
    DEF Lease!StartFails, Lease!Unlocked, Lease!TypeOK
<1>5. ASSUME NEW r \in Runs, Lease!BeatRead(r) PROVE Lease!TypeOK'
  <2>. DEFINE x == [leaseRun[r] EXCEPT !.beat = IF Lease!StillMine(r) THEN "read" ELSE "rest", !.aborted = @ \/ ~Lease!StillMine(r)]
  <2>1. x \in Lease!Run /\ (x.job = "none" <=> x.stage = None)
    BY <1>5 DEF Lease!TypeOK, Lease!Run, Lease!RunPc
  <2>2. leaseRun' = [leaseRun EXCEPT ![r] = x]
    BY <1>5 DEF Lease!BeatRead, Lease!TypeOK, Lease!Run
  <2>. QED
    BY <1>5, <2>1, <2>2, OneRunStep DEF Lease!BeatRead, Lease!TypeOK
<1>6. ASSUME NEW r \in Runs, Lease!BeatWrite(r) PROVE Lease!TypeOK'
  <2>. DEFINE x == [leaseRun[r] EXCEPT !.beat = "rest"]
  <2>1. x \in Lease!Run /\ (x.job = "none" <=> x.stage = None)
    BY <1>6 DEF Lease!TypeOK, Lease!Run, Lease!RunPc
  <2>2. leaseRun' = [leaseRun EXCEPT ![r] = x]
    BY <1>6 DEF Lease!BeatWrite, Lease!TypeOK, Lease!Run
  <2>. QED
    BY <1>6, <2>1, <2>2, OneRunStep, PersistedType DEF Lease!BeatWrite, Lease!TypeOK
<1>7. ASSUME NEW r \in Runs, Lease!BeatFails(r) PROVE Lease!TypeOK'
  <2>. DEFINE x == Lease!BeatFailed(r)
  <2>1. x \in Lease!Run /\ (x.job = "none" <=> x.stage = None)
    BY <1>7 DEF Lease!TypeOK, Lease!Run, Lease!RunPc, Lease!BeatFailed
  <2>2. leaseRun' = [leaseRun EXCEPT ![r] = x]
    BY <1>7 DEF Lease!BeatFails, Lease!TypeOK, Lease!Run, Lease!BeatFailed
  <2>. QED
    BY <1>7, <2>1, <2>2, OneRunStep, PersistedType
    DEF Lease!BeatFails, Lease!BeatFailed, Lease!TypeOK
<1>8. ASSUME NEW r \in Runs, Lease!Abort(r) PROVE Lease!TypeOK'
  <2>. DEFINE x == [leaseRun[r] EXCEPT !.aborted = TRUE]
  <2>1. x \in Lease!Run /\ (x.job = "none" <=> x.stage = None)
    BY <1>8 DEF Lease!TypeOK, Lease!Run, Lease!RunPc
  <2>2. leaseRun' = [leaseRun EXCEPT ![r] = x]
    BY <1>8 DEF Lease!Abort, Lease!TypeOK, Lease!Run
  <2>. QED
    BY <1>8, <2>1, <2>2, OneRunStep DEF Lease!Abort, Lease!TypeOK
<1>9. ASSUME NEW r \in Runs, Lease!Begin(r) PROVE Lease!TypeOK'
  <2>1. PICK st \in Checkpoints : leaseRun' = [leaseRun EXCEPT ![r].job = "work", ![r].stage = st]
    BY <1>9 DEF Lease!Begin
  <2>. DEFINE x == [leaseRun[r] EXCEPT !.job = "work", !.stage = st]
  <2>4. st # None /\ leaseRun[r] \in Lease!Run
    BY DEF LeaseConstants, Lease!TypeOK
  <2>2. x \in Lease!Run /\ (x.job = "none" <=> x.stage = None)
    BY <2>4 DEF Lease!Run
  <2>3. leaseRun' = [leaseRun EXCEPT ![r] = x]
    BY <2>1 DEF Lease!TypeOK, Lease!Run
  <2>. QED
    BY <1>9, <2>2, <2>3, OneRunStep DEF Lease!Begin, Lease!TypeOK
<1>10. ASSUME NEW r \in Runs, Lease!Fence(r) PROVE Lease!TypeOK'
  <2>. DEFINE x == [leaseRun[r] EXCEPT !.job = "fenced"]
  <2>1. x \in Lease!Run /\ (x.job = "none" <=> x.stage = None)
    BY <1>10 DEF Lease!TypeOK, Lease!Run, Lease!RunPc, Lease!Fence
  <2>2. leaseRun' = [leaseRun EXCEPT ![r] = x]
    BY <1>10 DEF Lease!Fence, Lease!TypeOK, Lease!Run
  <2>. QED
    BY <1>10, <2>1, <2>2, OneRunStep DEF Lease!Fence, Lease!TypeOK
<1>11. ASSUME NEW r \in Runs, Lease!Insert(r) PROVE Lease!TypeOK'
  <2>. DEFINE x == [leaseRun[r] EXCEPT !.job = "none", !.stage = None]
  <2>1. x \in Lease!Run /\ (x.job = "none" <=> x.stage = None)
    BY <1>11 DEF Lease!TypeOK, Lease!Run, Lease!RunPc
  <2>2. leaseRun' = [leaseRun EXCEPT ![r] = x]
    BY <1>11 DEF Lease!Insert, Lease!TypeOK, Lease!Run
  <2>. QED
    <3>1. leaseRun[r].stage \in Checkpoints
      BY <1>11 DEF Lease!Insert, Lease!TypeOK, Lease!Run
    <3>2. leaseCheckpoint' \in [Checkpoints -> Runs \cup {None}] /\ leaseLate' \subseteq Runs \X Checkpoints
      BY <1>11, <3>1 DEF Lease!Insert, Lease!TypeOK
    <3>. QED
      BY <1>11, <2>1, <2>2, <3>2, OneRunStep DEF Lease!Insert, Lease!TypeOK
<1>12. ASSUME NEW r \in Runs, Lease!Close(r) PROVE Lease!TypeOK'
  <2>. DEFINE x == Lease!Ended(r)
  <2>1. x \in Lease!Run /\ (x.job = "none" <=> x.stage = None)
    BY EndedType
  <2>2. leaseRun' = [leaseRun EXCEPT ![r] = x]
    BY <1>12, EndedType DEF Lease!Close, Lease!TypeOK, Lease!Run
  <2>. QED
    BY <1>12, <2>1, <2>2, OneRunStep DEF Lease!Close, Lease!Released, Lease!Unlocked, Lease!TypeOK
<1>13. ASSUME NEW r \in Runs, Lease!Crash(r) PROVE Lease!TypeOK'
  <2>. DEFINE x == [Lease!Ended(r) EXCEPT !.pc = "dead", !.conn = leaseRun[r].conn]
  <2>1. x \in Lease!Run /\ (x.job = "none" <=> x.stage = None)
    BY DeadType
  <2>2. leaseRun' = [leaseRun EXCEPT ![r] = x]
    BY <1>13, EndedType DEF Lease!Crash, Lease!TypeOK, Lease!Run
  <2>. QED
    BY <1>13, <2>1, <2>2, OneRunStep DEF Lease!Crash, Lease!TypeOK
<1>14. ASSUME NEW r \in Runs, Lease!Cut(r) PROVE Lease!TypeOK'
  <2>. DEFINE x == [leaseRun[r] EXCEPT !.conn = "cut"]
  <2>1. x \in Lease!Run /\ (x.job = "none" <=> x.stage = None)
    BY <1>14 DEF Lease!TypeOK, Lease!Run, Lease!RunPc
  <2>2. leaseRun' = [leaseRun EXCEPT ![r] = x]
    BY <1>14 DEF Lease!Cut, Lease!TypeOK, Lease!Run
  <2>. QED
    BY <1>14, <2>1, <2>2, OneRunStep DEF Lease!Cut, Lease!Unlocked, Lease!TypeOK
<1>15. CASE Lease!Tick
  BY <1>15 DEF LeaseConstants, Lease!Tick, Lease!TypeOK
<1>16. CASE UNCHANGED Lease!vars
  BY <1>16 DEF Lease!vars, Lease!TypeOK
<1>. QED
  BY <1>1, <1>2, <1>3, <1>4, <1>5, <1>6, <1>7, <1>8, <1>9, <1>10, <1>11, <1>12, <1>13, <1>14, <1>15,
     <1>16
  DEF Lease!Next

-----------------------------------------------------------------------------
(* The invariant *)

\* A run that does not get the lock ends.
LEMMA ConnectLoses ==
  ASSUME LeaseConstants, Lease!TypeOK, NEW r \in Runs, Lease!Connect(r), ~Lease!LockIsFree
  PROVE  /\ \A q \in Runs : q # r => leaseRun'[q] = leaseRun[q]
         /\ leaseRun[r].pc = "off" /\ leaseRun'[r].pc = "closed" /\ leaseRun'[r].conn = "none"
         /\ leaseRun'[r].job = "none" /\ leaseRun'[r].gen = leaseRun[r].gen
         /\ UNCHANGED <<leaseLock, leaseRow, leaseLate>>
<1>1. leaseRun[r].pc = "off" /\ leaseRun' = [leaseRun EXCEPT ![r] = Lease!Ended(r)] /\ UNCHANGED <<leaseLock, leaseRow, leaseLate>>
  BY DEF Lease!Connect
<1>. QED
  BY <1>1 DEF Lease!Ended, Lease!TypeOK, Lease!Run

\* Every step keeps the ties between lock, session, generation and row.
LEMMA GenerationsStep ==
  ASSUME LeaseConstants, Lease!TypeOK, Generations, [Lease!Next]_(Lease!vars)
  PROVE  Generations'
<1>1. ASSUME NEW r \in Runs, Lease!Connect(r) PROVE Generations'
  <2>1. CASE Lease!LockIsFree
    BY <1>1, <2>1
    DEF LeaseConstants, Lease!Connect, Lease!LockIsFree, Lease!TypeOK, Lease!Run, Generations,
        LockIsSession, OffIsOffline, SessionFollowsRow, NotAhead, Lease!GenerationsDiffer,
        Lease!Session, Lease!StillMine, Lease!Started
  <2>2. CASE ~Lease!LockIsFree
    BY <1>1, <2>2, ConnectLoses
    DEF Lease!TypeOK, OffIsOffline, Generations, LockIsSession, SessionFollowsRow, NotAhead,
        Lease!GenerationsDiffer, Lease!Session, Lease!StillMine, Lease!Started
  <2>. QED
    BY <2>1, <2>2
<1>2. ASSUME NEW r \in Runs, Lease!ReadLease(r) PROVE Generations'
  BY <1>2
  DEF LeaseConstants, Lease!ReadLease, Lease!NextGeneration, Lease!TypeOK, Lease!Run, Lease!RunPc,
      Generations, LockIsSession, OffIsOffline, SessionFollowsRow, NotAhead,
      Lease!GenerationsDiffer, Lease!Session, Lease!StillMine, Lease!Started
<1>3. ASSUME NEW r \in Runs, Lease!WriteLease(r) PROVE Generations'
  BY <1>3
  DEF LeaseConstants, Lease!WriteLease, Lease!Persisted, Lease!TypeOK, Lease!Run, Lease!RunPc,
      Generations, LockIsSession, OffIsOffline, SessionFollowsRow, NotAhead,
      Lease!GenerationsDiffer, Lease!Session, Lease!StillMine, Lease!Started
<1>4. ASSUME NEW r \in Runs, Lease!StartFails(r) PROVE Generations'
  BY <1>4
  DEF LeaseConstants, Lease!StartFails, Lease!Persisted, Lease!Ended, Lease!Unlocked, Lease!TypeOK,
      Lease!Run, Lease!RunPc, Generations, LockIsSession, OffIsOffline, SessionFollowsRow, NotAhead,
      Lease!GenerationsDiffer, Lease!Session, Lease!StillMine, Lease!Started
<1>5. ASSUME NEW r \in Runs, Lease!BeatRead(r) PROVE Generations'
  BY <1>5
  DEF LeaseConstants, Lease!BeatRead, Lease!TypeOK, Lease!Run, Lease!RunPc, Generations,
      LockIsSession, OffIsOffline, SessionFollowsRow, NotAhead, Lease!GenerationsDiffer,
      Lease!Session, Lease!StillMine, Lease!Started
<1>6. ASSUME NEW r \in Runs, Lease!BeatWrite(r) PROVE Generations'
  BY <1>6
  DEF LeaseConstants, Lease!BeatWrite, Lease!Persisted, Lease!TypeOK, Lease!Run, Lease!RunPc,
      Generations, LockIsSession, OffIsOffline, SessionFollowsRow, NotAhead,
      Lease!GenerationsDiffer, Lease!Session, Lease!StillMine, Lease!Started
<1>7. ASSUME NEW r \in Runs, Lease!BeatFails(r) PROVE Generations'
  BY <1>7
  DEF LeaseConstants, Lease!BeatFails, Lease!Persisted, Lease!BeatFailed, Lease!TypeOK, Lease!Run,
      Lease!RunPc, Generations, LockIsSession, OffIsOffline, SessionFollowsRow, NotAhead,
      Lease!GenerationsDiffer, Lease!Session, Lease!StillMine, Lease!Started
<1>8. ASSUME NEW r \in Runs, Lease!Abort(r) PROVE Generations'
  BY <1>8
  DEF LeaseConstants, Lease!Abort, Lease!TypeOK, Lease!Run, Lease!RunPc, Generations, LockIsSession,
      OffIsOffline, SessionFollowsRow, NotAhead, Lease!GenerationsDiffer, Lease!Session,
      Lease!StillMine, Lease!Started
<1>9. ASSUME NEW r \in Runs, Lease!Begin(r) PROVE Generations'
  BY <1>9
  DEF LeaseConstants, Lease!Begin, Lease!Active, Lease!TypeOK, Lease!Run, Lease!RunPc, Generations,
      LockIsSession, OffIsOffline, SessionFollowsRow, NotAhead, Lease!GenerationsDiffer,
      Lease!Session, Lease!StillMine, Lease!Started
<1>10. ASSUME NEW r \in Runs, Lease!Fence(r) PROVE Generations'
  BY <1>10
  DEF LeaseConstants, Lease!Fence, Lease!Active, Lease!IsHolder, Lease!TypeOK, Lease!Run,
      Lease!RunPc, Generations, LockIsSession, OffIsOffline, SessionFollowsRow, NotAhead,
      Lease!GenerationsDiffer, Lease!Session, Lease!StillMine, Lease!Started
<1>11. ASSUME NEW r \in Runs, Lease!Insert(r) PROVE Generations'
  BY <1>11
  DEF LeaseConstants, Lease!Insert, Lease!Active, Lease!TypeOK, Lease!Run, Lease!RunPc, Generations,
      LockIsSession, OffIsOffline, SessionFollowsRow, NotAhead, Lease!GenerationsDiffer,
      Lease!Session, Lease!StillMine, Lease!Started
<1>12. ASSUME NEW r \in Runs, Lease!Close(r) PROVE Generations'
  BY <1>12
  DEF LeaseConstants, Lease!Close, Lease!Ended, Lease!Released, Lease!Unlocked, Lease!TypeOK,
      Lease!Run, Lease!RunPc, Generations, LockIsSession, OffIsOffline, SessionFollowsRow, NotAhead,
      Lease!GenerationsDiffer, Lease!Session, Lease!StillMine, Lease!Started
<1>13. ASSUME NEW r \in Runs, Lease!Crash(r) PROVE Generations'
  BY <1>13
  DEF LeaseConstants, Lease!Crash, Lease!Ended, Lease!Alive, Lease!TypeOK, Lease!Run, Lease!RunPc,
      Generations, LockIsSession, OffIsOffline, SessionFollowsRow, NotAhead,
      Lease!GenerationsDiffer, Lease!Session, Lease!StillMine, Lease!Started
<1>14. ASSUME NEW r \in Runs, Lease!Cut(r) PROVE Generations'
  BY <1>14
  DEF LeaseConstants, Lease!Cut, Lease!Unlocked, Lease!TypeOK, Lease!Run, Lease!RunPc, Generations,
      LockIsSession, OffIsOffline, SessionFollowsRow, NotAhead, Lease!GenerationsDiffer,
      Lease!Session, Lease!StillMine, Lease!Started
<1>15. CASE Lease!Tick
  BY <1>15
  DEF Lease!Tick, Lease!TypeOK, Generations, LockIsSession, OffIsOffline, SessionFollowsRow,
      NotAhead, Lease!GenerationsDiffer, Lease!Session, Lease!StillMine, Lease!Started
<1>16. CASE UNCHANGED Lease!vars
  BY <1>16
  DEF Lease!vars, Generations, LockIsSession, OffIsOffline, SessionFollowsRow, NotAhead,
      Lease!GenerationsDiffer, Lease!Session, Lease!StillMine, Lease!Started
<1>. QED
  BY <1>1, <1>2, <1>3, <1>4, <1>5, <1>6, <1>7, <1>8, <1>9, <1>10, <1>11, <1>12, <1>13, <1>14, <1>15,
     <1>16
  DEF Lease!Next

\* Who writes the row has a session: a starting run writes the generation
\* after the one it read, a running one writes its own row again.
LEMMA RowGrows ==
  ASSUME LeaseConstants, Lease!TypeOK, Generations, [Lease!Next]_(Lease!vars)
  PROVE  /\ leaseRow'.gen > leaseRow.gen \/ (leaseRow'.gen = leaseRow.gen /\ leaseRow'.owner = leaseRow.owner)
         /\ leaseRow.gen \in Nat /\ leaseRow'.gen \in Nat /\ leaseRow'.gen >= leaseRow.gen
<1>1. ASSUME NEW r \in Runs, Lease!Session(r), leaseRun[r].pc \in {"writing", "running"}, leaseRow' = Lease!Persisted(r)
      PROVE  leaseRow'.gen > leaseRow.gen \/ (leaseRow'.gen = leaseRow.gen /\ leaseRow'.owner = leaseRow.owner)
  BY <1>1
  DEF Lease!Persisted, Lease!TypeOK, Lease!Run, Generations, SessionFollowsRow, Lease!Session,
      Lease!StillMine
<1>2. ASSUME NEW r \in Runs, Lease!WriteLease(r) \/ Lease!BeatWrite(r) \/ Lease!StartFails(r) \/ Lease!BeatFails(r)
      PROVE  \/ leaseRow' = leaseRow
             \/ Lease!Session(r) /\ leaseRun[r].pc \in {"writing", "running"} /\ leaseRow' = Lease!Persisted(r)
  BY <1>2 DEF Lease!WriteLease, Lease!BeatWrite, Lease!StartFails, Lease!BeatFails
<1>3. ASSUME NEW r \in Runs, Lease!Connect(r) \/ Lease!ReadLease(r) \/ Lease!BeatRead(r) \/ Lease!Abort(r) \/ Lease!Begin(r)
                               \/ Lease!Fence(r) \/ Lease!Insert(r) \/ Lease!Close(r) \/ Lease!Crash(r) \/ Lease!Cut(r)
      PROVE  leaseRow' = leaseRow
  BY <1>3
  DEF Lease!Connect, Lease!ReadLease, Lease!BeatRead, Lease!Abort, Lease!Begin, Lease!Fence,
      Lease!Insert, Lease!Close, Lease!Released, Lease!Crash, Lease!Cut
<1>4. Lease!Tick => leaseRow'.gen = leaseRow.gen /\ leaseRow'.owner = leaseRow.owner
  BY DEF Lease!Tick, Lease!TypeOK
<1>5. UNCHANGED Lease!vars => leaseRow' = leaseRow
  BY DEF Lease!vars
<1>6. leaseRow.gen \in Nat /\ leaseRow'.gen \in Nat
  BY LeaseTypesStep DEF Lease!TypeOK
<1>7. leaseRow'.gen > leaseRow.gen \/ (leaseRow'.gen = leaseRow.gen /\ leaseRow'.owner = leaseRow.owner)
  <2>1. ASSUME Lease!Next PROVE leaseRow'.gen > leaseRow.gen \/ (leaseRow'.gen = leaseRow.gen /\ leaseRow'.owner = leaseRow.owner)
    BY <2>1, <1>1, <1>2, <1>3, <1>4 DEF Lease!Next
  <2>. QED
    BY <2>1, <1>5
<1>. QED
  BY <1>6, <1>7

\* Every step keeps a late run without a second checked checkpoint.
LEMMA LatenessStep ==
  ASSUME LeaseConstants, Lease!TypeOK, Generations, Lateness, [Lease!Next]_(Lease!vars)
  PROVE  Lateness'
<1>1. ASSUME NEW r \in Runs, Lease!Connect(r) PROVE Lateness'
  <2>1. CASE Lease!LockIsFree
    BY <1>1, <2>1
    DEF LeaseConstants, Lease!Connect, Lease!LockIsFree, Lease!TypeOK, Lease!Run, Lateness,
        LateIsSpent, OnlyStartedWork, LateIsPast, Lease!OneLateCheckpoint, Lease!Started
  <2>2. CASE ~Lease!LockIsFree
    BY <1>1, <2>2, ConnectLoses
    DEF Lateness, LateIsSpent, OnlyStartedWork, LateIsPast, Lease!OneLateCheckpoint, Lease!Started
  <2>. QED
    BY <2>1, <2>2
<1>2. ASSUME NEW r \in Runs, Lease!ReadLease(r) PROVE Lateness'
  BY <1>2
  DEF LeaseConstants, Lease!ReadLease, Lease!NextGeneration, Lease!TypeOK, Lease!Run, Lease!RunPc,
      Lateness, LateIsSpent, OnlyStartedWork, LateIsPast, Lease!OneLateCheckpoint, Lease!Started
<1>3. ASSUME NEW r \in Runs, Lease!WriteLease(r) PROVE Lateness'
  BY <1>3, RowGrows
  DEF LeaseConstants, Lease!WriteLease, Lease!TypeOK, Lease!Run, Lease!RunPc, Lateness, LateIsSpent,
      OnlyStartedWork, LateIsPast, Lease!OneLateCheckpoint, Lease!Started
<1>4. ASSUME NEW r \in Runs, Lease!StartFails(r) PROVE Lateness'
  BY <1>4, RowGrows
  DEF LeaseConstants, Lease!StartFails, Lease!Ended, Lease!Unlocked, Lease!TypeOK, Lease!Run,
      Lease!RunPc, Lateness, LateIsSpent, OnlyStartedWork, LateIsPast, Lease!OneLateCheckpoint,
      Lease!Started
<1>5. ASSUME NEW r \in Runs, Lease!BeatRead(r) PROVE Lateness'
  BY <1>5
  DEF LeaseConstants, Lease!BeatRead, Lease!TypeOK, Lease!Run, Lease!RunPc, Lateness, LateIsSpent,
      OnlyStartedWork, LateIsPast, Lease!OneLateCheckpoint, Lease!Started
<1>6. ASSUME NEW r \in Runs, Lease!BeatWrite(r) PROVE Lateness'
  BY <1>6, RowGrows
  DEF LeaseConstants, Lease!BeatWrite, Lease!TypeOK, Lease!Run, Lease!RunPc, Lateness, LateIsSpent,
      OnlyStartedWork, LateIsPast, Lease!OneLateCheckpoint, Lease!Started
<1>7. ASSUME NEW r \in Runs, Lease!BeatFails(r) PROVE Lateness'
  BY <1>7, RowGrows
  DEF LeaseConstants, Lease!BeatFails, Lease!BeatFailed, Lease!TypeOK, Lease!Run, Lease!RunPc,
      Lateness, LateIsSpent, OnlyStartedWork, LateIsPast, Lease!OneLateCheckpoint, Lease!Started
<1>8. ASSUME NEW r \in Runs, Lease!Abort(r) PROVE Lateness'
  BY <1>8
  DEF LeaseConstants, Lease!Abort, Lease!TypeOK, Lease!Run, Lease!RunPc, Lateness, LateIsSpent,
      OnlyStartedWork, LateIsPast, Lease!OneLateCheckpoint, Lease!Started
<1>9. ASSUME NEW r \in Runs, Lease!Begin(r) PROVE Lateness'
  BY <1>9
  DEF LeaseConstants, Lease!Begin, Lease!Active, Lease!TypeOK, Lease!Run, Lease!RunPc, Lateness,
      LateIsSpent, OnlyStartedWork, LateIsPast, Lease!OneLateCheckpoint, Lease!Started
<1>10. ASSUME NEW r \in Runs, Lease!Fence(r) PROVE Lateness'
  BY <1>10
  DEF LeaseConstants, Lease!Fence, Lease!Active, Lease!IsHolder, Lease!TypeOK, Lease!Run,
      Lease!RunPc, Lateness, LateIsSpent, OnlyStartedWork, LateIsPast, Lease!OneLateCheckpoint,
      Lease!Started
<1>11. ASSUME NEW r \in Runs, Lease!Insert(r) PROVE Lateness'
  BY <1>11
  DEF LeaseConstants, Lease!Insert, Lease!Active, Lease!TypeOK, Lease!Run, Lease!RunPc, Lateness,
      LateIsSpent, OnlyStartedWork, LateIsPast, Lease!OneLateCheckpoint, Lease!Started
<1>12. ASSUME NEW r \in Runs, Lease!Close(r) PROVE Lateness'
  BY <1>12
  DEF LeaseConstants, Lease!Close, Lease!Ended, Lease!Released, Lease!Unlocked, Lease!TypeOK,
      Lease!Run, Lease!RunPc, Lateness, LateIsSpent, OnlyStartedWork, LateIsPast,
      Lease!OneLateCheckpoint, Lease!Started
<1>13. ASSUME NEW r \in Runs, Lease!Crash(r) PROVE Lateness'
  BY <1>13
  DEF LeaseConstants, Lease!Crash, Lease!Ended, Lease!Alive, Lease!TypeOK, Lease!Run, Lease!RunPc,
      Lateness, LateIsSpent, OnlyStartedWork, LateIsPast, Lease!OneLateCheckpoint, Lease!Started
<1>14. ASSUME NEW r \in Runs, Lease!Cut(r) PROVE Lateness'
  BY <1>14
  DEF LeaseConstants, Lease!Cut, Lease!Unlocked, Lease!TypeOK, Lease!Run, Lease!RunPc, Lateness,
      LateIsSpent, OnlyStartedWork, LateIsPast, Lease!OneLateCheckpoint, Lease!Started
<1>15. CASE Lease!Tick
  BY <1>15
  DEF Lease!Tick, Lease!TypeOK, Lateness, LateIsSpent, OnlyStartedWork, LateIsPast,
      Lease!OneLateCheckpoint, Lease!Started
<1>16. CASE UNCHANGED Lease!vars
  BY <1>16
  DEF Lease!vars, Lateness, LateIsSpent, OnlyStartedWork, LateIsPast, Lease!OneLateCheckpoint,
      Lease!Started
<1>. QED
  BY <1>1, <1>2, <1>3, <1>4, <1>5, <1>6, <1>7, <1>8, <1>9, <1>10, <1>11, <1>12, <1>13, <1>14, <1>15,
     <1>16
  DEF Lease!Next

-----------------------------------------------------------------------------
(* The lease: theorems *)

\* The inductive invariant holds in every reachable state.
LEMMA LeaseInvariant == LeaseConstants => (Lease!Spec => []LeaseInv)
<1>. SUFFICES ASSUME LeaseConstants
              PROVE  Lease!Spec => []LeaseInv
  OBVIOUS
<1>1. Lease!Init => LeaseInv
  BY LeaseInitInv
<1>2. LeaseInv /\ [Lease!Next]_(Lease!vars) => LeaseInv'
  BY LeaseTypesStep, GenerationsStep, LatenessStep DEF LeaseInv
<1>. QED
  BY <1>1, <1>2, PTL DEF Lease!Spec

\* The variables keep their types: a run that ended or died holds no work.
THEOREM LeaseTypeCorrect == LeaseConstants => (Lease!Spec => []Lease!TypeOK)
BY LeaseInvariant, PTL DEF LeaseInv

\* No two started runs have the same generation, so the check before a
\* checkpoint tells a superseded run from its successor (start()).
THEOREM RunsToldApart == LeaseConstants => (Lease!Spec => []Lease!GenerationsDiffer)
BY LeaseInvariant, PTL DEF LeaseInv, Generations

\* The row never returns to an older generation or owner, whichever statements
\* were on their way when a connection was dropped (renew()).
THEOREM LeaseMovesForward == LeaseConstants => (Lease!Spec => Lease!GenerationsGrow)
<1>. SUFFICES ASSUME LeaseConstants
              PROVE  Lease!Spec => Lease!GenerationsGrow
  OBVIOUS
<1>. DEFINE Forward ==
       leaseRow'.gen > leaseRow.gen \/ (leaseRow'.gen = leaseRow.gen /\ leaseRow'.owner = leaseRow.owner)
<1>1. LeaseInv /\ [Lease!Next]_(Lease!vars) => [Forward]_(Lease!vars)
  BY RowGrows DEF LeaseInv
<1>2. Lease!Spec => []LeaseInv
  BY LeaseInvariant
<1>. QED
  BY <1>1, <1>2, PTL DEF Lease!Spec, Lease!GenerationsGrow

\* A superseded run stores at most one more checkpoint (checkpointWork).
THEOREM LateAtMostOnce == LeaseConstants => (Lease!Spec => []Lease!OneLateCheckpoint)
BY LeaseInvariant, PTL DEF LeaseInv, Lateness

=============================================================================
