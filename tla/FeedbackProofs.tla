----------------------------- MODULE FeedbackProofs -----------------------------
(***************************************************************************)
(* Proofs about Selector and Feedback for any candidates, traces, days and *)
(* bounds: what the two passes of the selection promise, that the choice   *)
(* of a run is such a selection, and what a run may rely on from the runs  *)
(* of its trace and of other days.                                         *)
(***************************************************************************)
EXTENDS Feedback, FiniteSetTheorems, TLAPS

-----------------------------------------------------------------------------
(* The two passes *)

\* Whoever has been looked at is taken, waits, or met a quota.
Judged(cs) == \A c \in cs : c \in taken \cup postponed \/ Full(c)

\* Nobody has a second one before everybody has a first one.
Spread == \A c, d \in taken : c # d /\ c.industry = d.industry /\ c.industry # None => Known(taken) = Known(pool)

\* Whoever has none cannot have any.
Served == \A e \in pool : e.industry \notin Known(taken) \cup {None} => TypeFull(e)

SelectorInv ==
  /\ TypeOK
  /\ QuotasKept
  /\ \A c \in postponed : c.industry \in Known(taken)
  /\ pass = "rest" => taken = {}
  /\ pass = "first" => Cardinality(taken) < Limit /\ Judged(pool \ todo) /\ Spread
  /\ pass \in {"fill", "done"} => \/ Judged(pool) /\ Served
                                  \/ Cardinality(taken) = Limit /\ Spread
  /\ pass = "done" => postponed = {} \/ Cardinality(taken) = Limit

LEMMA Caps ==
  /\ Limit \in Nat \ {0} /\ MaxPerType \in Nat \ {0} /\ TopDiversity \in Nat
  /\ IndustryCap \in Nat \ {0}
BY LimitsAssumption DEF IndustryCap, Larger

\* What is counted is finite.
LEMMA Counts ==
  ASSUME TypeOK
  PROVE  /\ IsFiniteSet(taken) /\ Cardinality(taken) \in Nat
         /\ \A type : IsFiniteSet(OfType(type)) /\ Cardinality(OfType(type)) \in Nat
         /\ \A i : IsFiniteSet(OfIndustry(i)) /\ Cardinality(OfIndustry(i)) \in Nat
<1>1. \A S \in SUBSET pool : IsFiniteSet(S) /\ Cardinality(S) \in Nat
  BY FS_Subset, FS_CardinalityType DEF TypeOK
<1>2. taken \in SUBSET pool /\ (\A type : OfType(type) \in SUBSET pool) /\ \A i : OfIndustry(i) \in SUBSET pool
  BY DEF TypeOK, OfType, OfIndustry
<1>. QED
  BY <1>1, <1>2

\* More taken: quotas that are used up stay so, and covered industries covered.
LEMMA Growing ==
  ASSUME TypeOK, TypeOK', taken \subseteq taken'
  PROVE  /\ \A c : TypeFull(c) => TypeFull(c)'
         /\ \A c : Full(c) => Full(c)'
         /\ Known(taken) \subseteq Known(taken')
         /\ Cardinality(taken) <= Cardinality(taken')
<1>. DEFINE Countable(S) == IsFiniteSet(S) /\ Cardinality(S) \in Nat
<1>0. \A S \in (SUBSET pool) \cup (SUBSET pool') : Countable(S)
  BY FS_Subset, FS_CardinalityType DEF TypeOK
<1>1. /\ \A type : Countable(OfType(type)) /\ Countable(OfType(type)')
      /\ \A i : Countable(OfIndustry(i)) /\ Countable(OfIndustry(i)')
      /\ Countable(taken) /\ Countable(taken')
  <2>1. /\ \A type : OfType(type) \in SUBSET pool /\ OfType(type)' \in SUBSET (pool')
        /\ \A i : OfIndustry(i) \in SUBSET pool /\ OfIndustry(i)' \in SUBSET (pool')
        /\ taken \in SUBSET pool /\ taken' \in SUBSET (pool')
    BY DEF TypeOK, OfType, OfIndustry
  <2>. HIDE DEF Countable
  <2>2. ASSUME NEW type PROVE Countable(OfType(type)) /\ Countable(OfType(type)')
    BY <1>0, <2>1
  <2>3. ASSUME NEW i PROVE Countable(OfIndustry(i)) /\ Countable(OfIndustry(i)')
    BY <1>0, <2>1
  <2>. QED
    BY <1>0, <2>1, <2>2, <2>3
<1>2. ASSUME NEW type PROVE Cardinality(OfType(type)) <= Cardinality(OfType(type)')
  <2>1. OfType(type) \in SUBSET (OfType(type)')
    BY DEF OfType
  <2>. QED
    BY <1>1, <2>1, FS_Subset
<1>3. ASSUME NEW i PROVE Cardinality(OfIndustry(i)) <= Cardinality(OfIndustry(i)')
  <2>1. OfIndustry(i) \in SUBSET (OfIndustry(i)')
    BY DEF OfIndustry
  <2>. QED
    BY <1>1, <2>1, FS_Subset
<1>4. \A c : TypeFull(c) => TypeFull(c)'
  <2>. SUFFICES ASSUME NEW c, TypeFull(c) PROVE TypeFull(c)'
    OBVIOUS
  <2>1. Cardinality(OfType(SignalType(c))) <= Cardinality(OfType(SignalType(c))')
    BY <1>2
  <2>. QED
    BY <1>1, <2>1, Caps DEF TypeFull
<1>5. \A c : IndustryFull(c) => IndustryFull(c)'
  <2>. SUFFICES ASSUME NEW c, IndustryFull(c) PROVE IndustryFull(c)'
    OBVIOUS
  <2>1. Cardinality(OfIndustry(c.industry)) <= Cardinality(OfIndustry(c.industry)')
    BY <1>3
  <2>. QED
    BY <1>1, <2>1, Caps DEF IndustryFull
<1>6. Cardinality(taken) <= Cardinality(taken')
  BY <1>1, FS_Subset
<1>. QED
  BY <1>4, <1>5, <1>6 DEF Full, Known

\* Whoever is within the quotas may be taken.
LEMMA Adding ==
  ASSUME TypeOK, TypeOK', QuotasKept, NEW c \in pool, ~Full(c), Cardinality(taken) < Limit,
         taken' = taken \cup {c}
  PROVE  QuotasKept' /\ Cardinality(taken') <= Limit
<1>1. /\ IsFiniteSet(taken) /\ Cardinality(taken) \in Nat
      /\ \A type : IsFiniteSet(OfType(type)) /\ Cardinality(OfType(type)) \in Nat
      /\ \A i : IsFiniteSet(OfIndustry(i)) /\ Cardinality(OfIndustry(i)) \in Nat
  BY Counts
<1>2. \A S : IsFiniteSet(S) => Cardinality(S \cup {c}) \in {Cardinality(S), Cardinality(S) + 1}
  BY FS_AddElement
<1>3. Cardinality(taken') <= Limit
  BY <1>1, <1>2, Caps
<1>4. ASSUME NEW d \in taken' PROVE Cardinality(OfType(SignalType(d))') <= MaxPerType
  <2>1. CASE SignalType(d) = SignalType(c)
    <3>1. OfType(SignalType(d))' = OfType(SignalType(c)) \cup {c}
      BY <2>1 DEF OfType
    <3>2. Cardinality(OfType(SignalType(c))) < MaxPerType
      BY <1>1, Caps DEF Full, TypeFull
    <3>. QED
      BY <1>1, <1>2, <3>1, <3>2, Caps
  <2>2. CASE SignalType(d) # SignalType(c)
    <3>1. d \in taken /\ OfType(SignalType(d))' = OfType(SignalType(d))
      BY <2>2 DEF OfType
    <3>. QED
      BY <3>1 DEF QuotasKept
  <2>. QED
    BY <2>1, <2>2
<1>5. ASSUME NEW d \in taken', d.industry # None PROVE Cardinality(OfIndustry(d.industry)') <= IndustryCap
  <2>1. CASE d.industry = c.industry
    <3>1. OfIndustry(d.industry)' = OfIndustry(c.industry) \cup {c}
      BY <2>1 DEF OfIndustry
    <3>2. Cardinality(OfIndustry(c.industry)) < IndustryCap
      BY <1>1, <1>5, <2>1, Caps DEF Full, IndustryFull
    <3>. QED
      BY <1>1, <1>2, <3>1, <3>2, Caps
  <2>2. CASE d.industry # c.industry
    <3>1. d \in taken /\ OfIndustry(d.industry)' = OfIndustry(d.industry)
      BY <2>2 DEF OfIndustry
    <3>. QED
      BY <1>5, <3>1 DEF QuotasKept
  <2>. QED
    BY <2>1, <2>2
<1>. QED
  BY <1>3, <1>4, <1>5 DEF QuotasKept

LEMMA SelectorTypes ==
  ASSUME TypeOK, [SelectorNext]_selection
  PROVE  TypeOK'
<1>1. ASSUME NEW cs \in SUBSET Candidate, NEW stocks, NEW keywords, IsFiniteSet(cs), Load(cs, stocks, keywords)
      PROVE  TypeOK'
  <2>1. pool' \in SUBSET cs
    BY <1>1 DEF Load
  <2>2. IsFiniteSet(pool') /\ pool' \subseteq Candidate
    BY <1>1, <2>1, FS_Subset
  <2>. QED
    BY <1>1, <2>2 DEF Load, TypeOK
<1>2. CASE Loop
  BY <1>2 DEF TypeOK, Loop, Skip, Postpone, Take, EndFirst, Fill, EndFill
<1>3. CASE Unload
  BY <1>3, FS_EmptySet DEF TypeOK, Unload
<1>4. CASE UNCHANGED selection
  BY <1>4 DEF TypeOK, selection
<1>. QED
  BY <1>1, <1>2, <1>3, <1>4 DEF SelectorNext

\* With nothing more taken, the quotas are as they were.
LEMMA Same ==
  ASSUME taken' = taken
  PROVE  /\ QuotasKept' <=> QuotasKept
         /\ \A c : TypeFull(c)' <=> TypeFull(c)
         /\ \A c : Full(c)' <=> Full(c)
BY DEF QuotasKept, Full, TypeFull, IndustryFull, OfType, OfIndustry

LEMMA NobodyTaken ==
  ASSUME TypeOK', taken' = {}
  PROVE  QuotasKept' /\ Cardinality(taken') < Limit
<1>1. Cardinality(taken') = 0
  BY FS_EmptySet
<1>. QED
  BY <1>1, Caps DEF QuotasKept

LEMMA LoadKeeps ==
  ASSUME TypeOK', NEW cs, NEW stocks, NEW keywords, Load(cs, stocks, keywords)
  PROVE  SelectorInv'
BY NobodyTaken DEF SelectorInv, Load, Judged, Spread

LEMMA SkipKeeps ==
  ASSUME SelectorInv, TypeOK', Skip
  PROVE  SelectorInv'
<1>1. pass = "first" /\ UNCHANGED <<pass, pool, taken, postponed>>
  BY DEF Skip
<1>2. Judged(pool \ todo)'
  BY <1>1, Same DEF Skip, SelectorInv, Judged
<1>. QED
  BY <1>1, <1>2, Same DEF SelectorInv, Spread

LEMMA PostponeKeeps ==
  ASSUME SelectorInv, TypeOK', Postpone
  PROVE  SelectorInv'
<1>1. pass = "first" /\ UNCHANGED <<pass, pool, taken>>
  BY DEF Postpone
<1>2. Judged(pool \ todo)'
  BY <1>1, Same DEF Postpone, SelectorInv, Judged
<1>3. (\A c \in postponed : c.industry \in Known(taken))'
  BY <1>1 DEF Postpone, SelectorInv, Crowded
<1>. QED
  BY <1>1, <1>2, <1>3, Same DEF SelectorInv, Spread

LEMMA TakeKeeps ==
  ASSUME SelectorInv, TypeOK', Take
  PROVE  SelectorInv'
<1>1. PICK c \in todo : ~Full(c) /\ ~Crowded(c) /\ todo' = todo \ {c} /\ taken' = taken \cup {c}
  BY DEF Take
<1>2. /\ pass = "first" /\ UNCHANGED <<pool, postponed>> /\ c \in pool /\ Cardinality(taken) < Limit
      /\ pass' = IF Cardinality(taken') >= Limit THEN "fill" ELSE "first"
  BY <1>1 DEF Take, SelectorInv, TypeOK
<1>3. QuotasKept' /\ Cardinality(taken') <= Limit
  BY <1>1, <1>2, Adding DEF SelectorInv
<1>4. /\ \A d : Full(d) => Full(d)'
      /\ Known(taken) \subseteq Known(taken')
  BY <1>1, Growing DEF SelectorInv
<1>5. Judged(pool \ todo)'
  BY <1>1, <1>2, <1>4 DEF SelectorInv, Judged
<1>6. Spread'
  <2>. SUFFICES ASSUME NEW d \in taken', NEW e \in taken',
                       d # e, d.industry = e.industry, d.industry # None
                PROVE  Known(taken') = Known(pool)
    BY <1>2 DEF Spread
  <2>1. Known(taken) = Known(pool)
    <3>1. CASE d \in taken /\ e \in taken
      BY <1>2, <3>1 DEF SelectorInv, Spread
    <3>2. CASE c \in {d, e}
      <4>1. c.industry \in Known(taken)
        BY <1>1, <3>2 DEF Known
      <4>. QED
        BY <1>1, <4>1 DEF Crowded
    <3>. QED
      BY <1>1, <3>1, <3>2
  <2>2. Known(taken') \subseteq Known(pool)
    BY <1>1, <1>2 DEF Known, SelectorInv, TypeOK
  <2>. QED
    BY <1>4, <2>1, <2>2
<1>7. Cardinality(taken') \in Nat
  BY FS_Subset, FS_CardinalityType DEF TypeOK
<1>8. (\A d \in postponed : d.industry \in Known(taken))'
  BY <1>2, <1>4 DEF SelectorInv
<1>. QED
  BY <1>2, <1>3, <1>5, <1>6, <1>7, <1>8, Caps DEF SelectorInv

LEMMA EndFirstKeeps ==
  ASSUME SelectorInv, TypeOK', EndFirst
  PROVE  SelectorInv'
<1>1. pass = "first" /\ pass' = "fill" /\ todo = {} /\ UNCHANGED <<pool, todo, taken, postponed>>
  BY DEF EndFirst
<1>2. Judged(pool)
  BY <1>1 DEF SelectorInv
<1>3. Served
  <2>. SUFFICES ASSUME NEW e \in pool, e.industry \notin Known(taken) \cup {None} PROVE TypeFull(e)
    BY DEF Served
  <2>1. Full(e)
    BY <1>2 DEF Judged, SelectorInv, Known
  <2>2. OfIndustry(e.industry) = {}
    BY DEF OfIndustry, Known
  <2>3. ~IndustryFull(e)
    BY <2>2, FS_EmptySet, Caps DEF IndustryFull
  <2>. QED
    BY <2>1, <2>3 DEF Full
<1>4. Judged(pool)' /\ Served'
  BY <1>1, <1>2, <1>3, Same DEF Judged, Served
<1>. QED
  BY <1>1, <1>4, Same DEF SelectorInv

LEMMA FillKeeps ==
  ASSUME SelectorInv, TypeOK', Fill
  PROVE  SelectorInv'
<1>1. PICK c \in postponed : postponed' = postponed \ {c} /\ taken' = IF Full(c) THEN taken ELSE taken \cup {c}
  BY DEF Fill
<1>2. /\ pass = "fill" /\ UNCHANGED <<pass, pool, todo>> /\ c \in pool
      /\ Cardinality(taken) < Limit
  BY <1>1 DEF Fill, SelectorInv, TypeOK
<1>3. Judged(pool) /\ Served
  BY <1>2, Counts, Caps DEF SelectorInv
<1>4. /\ \A d : Full(d) => Full(d)'
      /\ \A d : TypeFull(d) => TypeFull(d)'
      /\ Known(taken) \subseteq Known(taken')
  BY <1>1, Growing DEF SelectorInv
<1>5. Judged(pool)'
  BY <1>1, <1>2, <1>3, <1>4 DEF Judged
<1>6. Served'
  BY <1>2, <1>3, <1>4 DEF Served
<1>7. (\A d \in postponed : d.industry \in Known(taken))'
  BY <1>1, <1>4 DEF SelectorInv
<1>8. QuotasKept'
  BY <1>1, <1>2, Adding, Same DEF SelectorInv
<1>. QED
  BY <1>2, <1>5, <1>6, <1>7, <1>8 DEF SelectorInv

LEMMA EndFillKeeps ==
  ASSUME SelectorInv, TypeOK', EndFill
  PROVE  SelectorInv'
<1>1. pass = "fill" /\ pass' = "done" /\ UNCHANGED <<pool, todo, taken, postponed>>
  BY DEF EndFill
<1>2. Cardinality(taken) >= Limit => Cardinality(taken) = Limit
  BY Counts, Caps DEF SelectorInv, QuotasKept
<1>3. (Judged(pool)' <=> Judged(pool)) /\ (Served' <=> Served) /\ (Spread' <=> Spread)
  BY <1>1, Same DEF Judged, Served, Spread
<1>. QED
  BY <1>1, <1>2, <1>3, Same DEF EndFill, SelectorInv

LEMMA UnloadKeeps ==
  ASSUME TypeOK', Unload
  PROVE  SelectorInv'
BY NobodyTaken DEF SelectorInv, Unload

LEMMA StillKeeps ==
  ASSUME SelectorInv, TypeOK', UNCHANGED selection
  PROVE  SelectorInv'
<1>1. UNCHANGED <<pass, pool, todo, taken, postponed>>
  BY DEF selection
<1>2. (\A cs : Judged(cs)' <=> Judged(cs)) /\ (Served' <=> Served) /\ (Spread' <=> Spread)
  BY <1>1, Same DEF Judged, Served, Spread
<1>. QED
  BY <1>1, <1>2, Same DEF SelectorInv

LEMMA SelectorKeeps ==
  ASSUME SelectorInv, [SelectorNext]_selection
  PROVE  SelectorInv'
<1>1. TypeOK'
  BY SelectorTypes DEF SelectorInv
<1>. QED
  BY <1>1, LoadKeeps, SkipKeeps, PostponeKeeps, TakeKeeps, EndFirstKeeps, FillKeeps, EndFillKeeps, UnloadKeeps,
     StillKeeps DEF SelectorNext, Loop

LEMMA SelectorStarts ==
  ASSUME Resting
  PROVE  SelectorInv
<1>1. Cardinality({}) = 0 /\ IsFiniteSet({})
  BY FS_EmptySet
<1>. QED
  BY <1>1, Caps DEF Resting, SelectorInv, TypeOK, QuotasKept

LEMMA SelectorMeans ==
  ASSUME SelectorInv
  PROVE  QuotasKept /\ SpreadFirst /\ NoRoomLeft
<1>1. SpreadFirst
  BY DEF SelectorInv, SpreadFirst, Spread, Served, Known, TypeOK
<1>2. NoRoomLeft
  BY Counts, Caps DEF SelectorInv, NoRoomLeft, Judged
<1>. QED
  BY <1>1, <1>2 DEF SelectorInv

-----------------------------------------------------------------------------
(* The types of Feedback *)

Row == [symbol : Stocks, cut : BOOLEAN]
InputsType == [facts : [from : Nat, by : Traces \cup {None}],
               penalties : SUBSET [trace : Traces, symbol : Stocks, keyword : Keywords, from : Nat]]
StepOf(S) == [done : BOOLEAN, inputs : InputsType, rows : SUBSET S]
TraceType == [status : {"none", "PENDING", "FAILED", "COMPLETE_EMPTY", "SUCCESS"}, synced : BOOLEAN,
              scoring : StepOf(Row), evidence : SUBSET Row, choice : StepOf(Stocks), picks : SUBSET Stocks,
              published : BOOLEAN, settled : SUBSET Stocks]
Points == {"off", "sync", "refresh", "begin", "score", "scoring", "select", "selecting", "settle", "publish",
           "after", "tail"}
RunType == [pc : Points, inputs : InputsType, redo : BOOLEAN, seen : SUBSET Traces]

StateOK ==
  /\ world \in World
  /\ [facts |-> facts, penalties |-> penalties] \in InputsType
  /\ store \in [Traces -> TraceType]
  /\ run \in [Traces -> RunType]
  /\ torn \in SUBSET Traces
  /\ before \in [Traces -> SUBSET Traces]

\* What is read is of the types of what is stored.
LEMMA InputTypes ==
  ASSUME StateOK, NEW t \in Traces
  PROVE  /\ Day(t) \in Nat /\ Inputs(t) \in InputsType
         /\ NewPenalties(Day(t)) \subseteq [trace : Traces, symbol : Stocks, keyword : Keywords, from : Nat]
<1>1. Day(t) \in Nat
  BY DEF StateOK, World, Days, Day
<1>2. FactsAt(Day(t)) \in [from : Nat, by : Traces \cup {None}]
  BY DEF StateOK, InputsType, FactsAt, Never
<1>3. Inputs(t) \in InputsType
  BY <1>2 DEF StateOK, InputsType, Inputs, ValidAt
<1>4. NewPenalties(Day(t)) \subseteq [trace : Traces, symbol : Stocks, keyword : Keywords, from : Nat]
  BY <1>1 DEF NewPenalties, Losses, StateOK, World
<1>. QED
  BY <1>1, <1>3, <1>4

LEMMA EvidenceType ==
  ASSUME StateOK, NEW inputs
  PROVE  Evidence(inputs) \subseteq Row
<1>1. \A s : Cut(s, inputs.penalties) \in BOOLEAN
  BY DEF Cut
<1>2. world.named \subseteq Stocks
  BY DEF StateOK, World
<1>. QED
  BY <1>1, <1>2 DEF Evidence, Row

\* The candidates of a trace are finitely many: one at most of each kind per row.
LEMMA CandidateTypes ==
  ASSUME StateOK, NEW t \in Traces
  PROVE  Candidates(t) \in SUBSET Candidate /\ IsFiniteSet(Candidates(t))
<1>1. store[t].evidence \subseteq Row
  BY DEF StateOK, TraceType
<1>2. \A row \in Row : Evidenced(row) \in Candidate
  <2>. SUFFICES ASSUME NEW row \in Row PROVE Evidenced(row) \in Candidate
    OBVIOUS
  <2>1. EvidenceScore(row) \in Nat
    BY NumbersAssumption DEF EvidenceScore
  <2>. QED
    BY <2>1 DEF StateOK, World, Evidenced, Row, Candidate
<1>3. \A s \in Stocks : Surging(s) \in Candidate
  BY NumbersAssumption DEF StateOK, World, Surging, Candidate
<1>. DEFINE All == {Evidenced(row) : row \in Row} \cup {Surging(s) : s \in Stocks}
<1>4. Candidates(t) \in SUBSET All
  BY <1>1 DEF Candidates
<1>5. All \subseteq Candidate
  BY <1>2, <1>3
<1>6. IsFiniteSet(All)
  <2>1. IsFiniteSet(BOOLEAN)
    <3>1. BOOLEAN = {TRUE} \cup {FALSE} /\ IsFiniteSet({TRUE}) /\ IsFiniteSet({FALSE})
      BY FS_Singleton
    <3>. QED
      BY <3>1, FS_Union
  <2>2. IsFiniteSet(Stocks \X BOOLEAN)
    BY <2>1, StocksAssumption, FS_Product
  <2>. DEFINE f == [x \in Stocks \X BOOLEAN |-> Evidenced([symbol |-> x[1], cut |-> x[2]])]
              g == [s \in Stocks |-> Surging(s)]
  <2>3. IsFiniteSet({Evidenced(row) : row \in Row})
    <3>1. f \in Surjection(Stocks \X BOOLEAN, {Evidenced(row) : row \in Row})
      <4>1. \A x \in Stocks \X BOOLEAN : [symbol |-> x[1], cut |-> x[2]] \in Row
        BY DEF Row
      <4>2. \A row \in Row : <<row.symbol, row.cut>> \in Stocks \X BOOLEAN /\ f[<<row.symbol, row.cut>>] = Evidenced(row)
        BY DEF Row
      <4>3. f \in [Stocks \X BOOLEAN -> {Evidenced(row) : row \in Row}]
        BY <4>1
      <4>4. ASSUME NEW y \in {Evidenced(row) : row \in Row} PROVE \E x \in Stocks \X BOOLEAN : f[x] = y
        <5>. PICK row \in Row : y = Evidenced(row)
          OBVIOUS
        <5>. QED
          BY <4>2
      <4>. HIDE DEF f
      <4>. QED
        BY <4>3, <4>4 DEF Surjection
    <3>. QED
      BY <2>2, <3>1, FS_Surjection
  <2>4. IsFiniteSet({Surging(s) : s \in Stocks})
    <3>1. g \in Surjection(Stocks, {Surging(s) : s \in Stocks})
      BY DEF Surjection
    <3>. QED
      BY <3>1, StocksAssumption, FS_Surjection
  <2>. QED
    BY <2>3, <2>4, FS_Union
<1>. QED
  BY <1>4, <1>5, <1>6, FS_Subset

\* What a run keeps away from is of the stocks and keywords.
LEMMA RestingTypes ==
  ASSUME StateOK, NEW t \in Traces
  PROVE  /\ RestingStocks(DayBefore(t)) \in SUBSET Stocks
         /\ RestingKeywords(DayBefore(t)) \in SUBSET (Keywords \cup {Momentum})
<1>1. DayBefore(t) \subseteq Traces
  BY DEF DayBefore, Published
<1>2. \A u \in Traces : store[u].picks \subseteq Stocks /\ store[u].evidence \subseteq Row
  BY DEF StateOK, TraceType
<1>3. \A s \in Stocks : world.keyword[s] \in Keywords
  BY DEF StateOK, World
<1>. QED
  BY <1>1, <1>2, <1>3 DEF RestingStocks, RestingKeywords, Row

LEMMA StateStarts ==
  ASSUME Init
  PROVE  StateOK /\ TypeOK
<1>1. world \in World
  BY WorldsAssumption DEF Init
<1>2. TypeOK
  BY FS_EmptySet DEF Init, Resting, TypeOK
<1>3. NoInputs \in InputsType /\ NoStep \in StepOf(Row) /\ NoStep \in StepOf(Stocks)
  BY DEF NoInputs, Never, InputsType, NoStep, StepOf
<1>4. NewTrace \in TraceType /\ Off \in RunType
  BY <1>3 DEF NewTrace, TraceType, Off, RunType, Points
<1>5. PICK t \in world.traces :
        IF world.scored
        THEN /\ facts = [from |-> Day(t), by |-> t]
             /\ store = [u \in Traces |-> IF u = t THEN Scored(world, t) ELSE NewTrace]
        ELSE facts = Never /\ store = [u \in Traces |-> NewTrace]
  BY DEF Init
<1>6. t \in Traces /\ Day(t) \in Nat /\ world.named \subseteq Stocks
  BY <1>1 DEF World, Day, Days
<1>7. Scored(world, t) \in TraceType
  <2>. DEFINE rows == {[symbol |-> s, cut |-> FALSE] : s \in world.named}
              inputs == [facts |-> [from |-> world.day[t], by |-> t], penalties |-> {}]
  <2>1. rows \in SUBSET Row /\ inputs \in InputsType
    <3>1. \A s \in Stocks : [symbol |-> s, cut |-> FALSE] \in Row
      BY DEF Row
    <3>2. [from |-> world.day[t], by |-> t] \in [from : Nat, by : Traces \cup {None}]
      BY <1>6 DEF Day
    <3>3. inputs \in InputsType
      BY <3>2 DEF InputsType
    <3>. QED
      BY <1>6, <3>1, <3>3
  <2>2. [done |-> TRUE, inputs |-> inputs, rows |-> rows] \in StepOf(Row)
    BY <2>1 DEF StepOf
  <2>3. Scored(world, t) = [NewTrace EXCEPT !.status = "PENDING", !.synced = TRUE, !.evidence = rows,
                                            !.scoring = [done |-> TRUE, inputs |-> inputs, rows |-> rows]]
    BY DEF Scored
  <2>. HIDE DEF rows, inputs
  <2>. QED
    BY <1>4, <2>1, <2>2, <2>3 DEF TraceType
<1>8. store \in [Traces -> TraceType]
  BY <1>4, <1>5, <1>7
<1>9. facts \in [from : Nat, by : Traces \cup {None}]
  BY <1>5, <1>6 DEF Never
<1>. QED
  BY <1>1, <1>2, <1>4, <1>8, <1>9 DEF StateOK, Init, InputsType

\* Every step of a run is a step of the selection, or none.
LEMMA StepChooses ==
  ASSUME StateOK, [Next]_vars
  PROVE  [SelectorNext]_selection
<1>1. ASSUME NEW t \in Traces, Step(t) PROVE [SelectorNext]_selection
  <2>1. CASE StartSelection(t)
    BY <2>1, CandidateTypes, RestingTypes DEF StartSelection, SelectorNext
  <2>2. CASE Choose(t)
    BY <2>2 DEF Choose, SelectorNext
  <2>3. CASE Fail(t) \/ Crash(t)
    BY <2>3 DEF Fail, Crash, Leave, SelectorNext
  <2>. QED
    BY <1>1, <2>1, <2>2, <2>3
    DEF Step, Start, Sync, Refresh, Begin, KeepScore, Refuse, StartScoring, Score, KeepChoice, EndEmpty, Settle,
        Publish, Finish, Backfill
<1>2. CASE Loop
  BY <1>2 DEF SelectorNext
<1>3. CASE UNCHANGED vars
  BY <1>3 DEF vars
<1>. QED
  BY <1>1, <1>2, <1>3 DEF Next

LEMMA StateKeeps ==
  ASSUME StateOK, TypeOK, [Next]_vars
  PROVE  StateOK'
<1>. USE DEF Points
<1>1. ASSUME NEW t \in Traces, Step(t) PROVE StateOK'
  <2>. DEFINE p == store[t]
              r == run[t]
  <2>0. /\ p \in TraceType /\ r \in RunType /\ Inputs(t) \in InputsType
        /\ NoStep \in StepOf(Row) /\ NoStep \in StepOf(Stocks)
    BY InputTypes DEF StateOK, NoInputs, Never, InputsType, NoStep, StepOf
  <2>a. ASSUME NEW pc \in Points, Goto(t, pc) PROVE run' \in [Traces -> RunType]
    BY <2>a DEF Goto, StateOK, RunType
  <2>b. ASSUME NEW status \in {"none", "PENDING", "FAILED", "COMPLETE_EMPTY", "SUCCESS"}
        PROVE  [store EXCEPT ![t].status = status] \in [Traces -> TraceType]
    BY DEF StateOK, TraceType
  <2>1. CASE Start(t)
    <3>1. store' \in [Traces -> TraceType] /\ run' \in [Traces -> RunType]
      BY <2>a, <2>b, <2>1 DEF Start
    <3>. QED
      BY <2>1, <3>1 DEF Start, StateOK
  <2>2. CASE Sync(t)
    <3>1. facts' \in [from : Nat, by : Traces \cup {None}]
      BY <2>2, InputTypes DEF Sync, StateOK, InputsType
    <3>2. store' \in [Traces -> TraceType]
      <4>1. [p EXCEPT !.synced = TRUE] \in TraceType
        BY <2>0 DEF TraceType
      <4>. QED
        BY <2>2, <4>1 DEF Sync, StateOK
    <3>3. run' \in [Traces -> RunType]
      BY <2>a, <2>2 DEF Sync
    <3>. QED
      BY <2>2, <3>1, <3>2, <3>3 DEF Sync, StateOK, InputsType
  <2>3. CASE Refresh(t)
    BY <2>a, <2>3, InputTypes DEF Refresh, StateOK, InputsType
  <2>4. CASE Begin(t)
    BY <2>0, <2>4 DEF Begin, StateOK, RunType
  <2>5. CASE KeepScore(t) \/ KeepChoice(t) \/ Finish(t)
    BY <2>a, <2>5 DEF KeepScore, KeepChoice, Finish, StateOK
  <2>6. CASE Refuse(t)
    BY <2>0, <2>a, <2>6 DEF Refuse, StateOK, TraceType
  <2>7. CASE StartScoring(t)
    BY <2>0, <2>7 DEF StartScoring, StateOK, TraceType, RunType
  <2>8. CASE Score(t)
    <3>. DEFINE rows == Evidence(Inputs(t))
    <3>1. [done |-> TRUE, inputs |-> r.inputs, rows |-> rows] \in StepOf(Row) /\ rows \in SUBSET Row
      BY <2>0, EvidenceType DEF StepOf, RunType
    <3>2. store' = [store EXCEPT ![t].scoring = [done |-> TRUE, inputs |-> r.inputs, rows |-> rows],
                                 ![t].evidence = rows, ![t].picks = {}, ![t].settled = {}]
      BY <2>8 DEF Score
    <3>. HIDE DEF rows
    <3>3. store' \in [Traces -> TraceType]
      <4>1. [p EXCEPT !.scoring = [done |-> TRUE, inputs |-> r.inputs, rows |-> rows],
                      !.evidence = rows, !.picks = {}, !.settled = {}] \in TraceType
        BY <2>0, <3>1 DEF TraceType
      <4>. QED
        BY <3>2, <4>1 DEF StateOK
    <3>4. torn' \in SUBSET Traces
      BY <2>8 DEF Score, StateOK
    <3>. QED
      BY <2>a, <2>8, <3>3, <3>4 DEF Score, StateOK
  <2>9. CASE StartSelection(t)
    BY <2>0, <2>9 DEF StartSelection, StateOK, TraceType, RunType, Published
  <2>10. CASE Choose(t)
    <3>. DEFINE picks == {c.symbol : c \in taken}
    <3>1. picks \in SUBSET Stocks
      BY DEF TypeOK, Candidate
    <3>2. [done |-> TRUE, inputs |-> r.inputs, rows |-> picks] \in StepOf(Stocks)
      BY <2>0, <3>1 DEF StepOf, RunType
    <3>3. store' = [store EXCEPT ![t].choice = [done |-> TRUE, inputs |-> r.inputs, rows |-> picks],
                                 ![t].picks = picks, ![t].settled = {}]
      BY <2>10 DEF Choose
    <3>. HIDE DEF picks
    <3>4. store' \in [Traces -> TraceType]
      <4>1. [p EXCEPT !.choice = [done |-> TRUE, inputs |-> r.inputs, rows |-> picks],
                      !.picks = picks, !.settled = {}] \in TraceType
        BY <2>0, <3>1, <3>2 DEF TraceType
      <4>. QED
        BY <3>3, <4>1 DEF StateOK
    <3>5. before' \in [Traces -> SUBSET Traces]
      BY <2>10 DEF Choose, StateOK, RunType
    <3>. QED
      BY <2>a, <2>10, <3>4, <3>5 DEF Choose, StateOK
  <2>11. CASE EndEmpty(t)
    <3>1. store' \in [Traces -> TraceType] /\ run' \in [Traces -> RunType]
      BY <2>a, <2>b, <2>11 DEF EndEmpty
    <3>. QED
      BY <2>11, <3>1 DEF EndEmpty, StateOK
  <2>12. CASE Settle(t)
    <3>1. PICK settled \in {p.settled, p.picks} : store' = [store EXCEPT ![t].settled = settled]
      BY <2>12 DEF Settle
    <3>2. store' \in [Traces -> TraceType]
      <4>1. [p EXCEPT !.settled = settled] \in TraceType
        BY <2>0 DEF TraceType
      <4>. QED
        BY <3>1, <4>1 DEF StateOK
    <3>3. run' \in [Traces -> RunType]
      BY <2>a, <2>12 DEF Settle
    <3>. QED
      BY <2>12, <3>2, <3>3 DEF Settle, StateOK
  <2>13. CASE Publish(t)
    <3>1. store' \in [Traces -> TraceType]
      <4>1. [p EXCEPT !.status = "SUCCESS", !.published = TRUE] \in TraceType
        BY <2>0 DEF TraceType
      <4>. QED
        BY <2>13, <4>1 DEF Publish, StateOK
    <3>2. run' \in [Traces -> RunType]
      BY <2>a, <2>13 DEF Publish
    <3>. QED
      BY <2>13, <3>1, <3>2 DEF Publish, StateOK
  <2>14. CASE Fail(t)
    <3>1. store' \in [Traces -> TraceType] /\ run' \in [Traces -> RunType]
      BY <2>a, <2>b, <2>14 DEF Fail, Leave, StateOK
    <3>. QED
      BY <2>14, <3>1 DEF Fail, StateOK
  <2>15. CASE Crash(t)
    BY <2>a, <2>15 DEF Crash, Leave, StateOK
  <2>16. CASE Backfill(t)
    <3>1. store' \in [Traces -> TraceType]
      <4>1. [p EXCEPT !.settled = p.picks] \in TraceType
        BY <2>0 DEF TraceType
      <4>. QED
        BY <2>16, <4>1 DEF Backfill, StateOK
    <3>. QED
      BY <2>16, <3>1 DEF Backfill, StateOK
  <2>. QED
    BY <1>1, <2>1, <2>2, <2>3, <2>4, <2>5, <2>6, <2>7, <2>8, <2>9, <2>10, <2>11, <2>12, <2>13, <2>14, <2>15, <2>16
    DEF Step
<1>2. CASE Loop /\ UNCHANGED <<world, facts, penalties, store, run, faults, torn, before>>
  BY <1>2 DEF StateOK
<1>3. CASE UNCHANGED vars
  BY <1>3 DEF vars, StateOK
<1>. QED
  BY <1>1, <1>2, <1>3 DEF Next

-----------------------------------------------------------------------------
(* What a run relies on *)

\* A run rewrites its trace only before it is published.
Unpublished == \A t \in Traces : run[t].pc \in {"scoring", "selecting"} => ~store[t].published

\* The selector works for one run at a time.
OneSelects ==
  \A t \in Traces : run[t].pc = "selecting" =>
    pass # "rest" /\ \A u \in Traces : run[u].pc = "selecting" => u = t

\* A penalty rests on a published recommendation.
EarnedBy(p, u) ==
  /\ store[u].published /\ Visible(u, p.from)
  /\ \E other \in store[u].evidence :
       other.symbol \in store[u].picks \cap world.losing /\ world.keyword[other.symbol] = p.keyword
Earned == \A p \in penalties : \E u \in Traces : EarnedBy(p, u)

\* What a completed scoring left is what its inputs give.
Scorings ==
  \A t \in Traces \ torn : store[t].scoring.done =>
    store[t].scoring.rows = Evidence(store[t].scoring.inputs)

\* The candidates of a run are none of the day before, as far as it was published.
Chosen ==
  \A t \in Traces : run[t].pc = "selecting" =>
    \A u \in run[t].seen :
      u \in Published /\ (Day(u) + 1 = Day(t) => \A c \in pool : c.symbol \notin store[u].picks)

\* And so are its recommendations.
Apart ==
  \A t \in Traces : \A u \in before[t] :
    u \in Published /\ (Day(u) + 1 = Day(t) => store[t].picks \cap store[u].picks = {})

Base == StateOK /\ SelectorInv /\ Unpublished /\ OneSelects

\* A step of a run changes nothing of other traces.
LEMMA OthersStay ==
  ASSUME StateOK, NEW t \in Traces, Step(t), NEW u \in Traces \ {t}
  PROVE  store'[u] = store[u] /\ run'[u] = run[u] /\ before'[u] = before[u] /\ (u \in torn' <=> u \in torn)
<1>1. store'[u] = store[u]
  BY ZenonT(40) DEF StateOK, Step, Start, Sync, Refresh, Begin, KeepScore, Refuse, StartScoring, Score, KeepChoice,
         StartSelection, Choose, EndEmpty, Settle, Publish, Finish, Fail, Crash, Backfill
<1>2. run'[u] = run[u]
  BY ZenonT(40) DEF StateOK, Step, Start, Sync, Refresh, Begin, KeepScore, Refuse, StartScoring, Score, KeepChoice, Goto, Leave,
         StartSelection, Choose, EndEmpty, Settle, Publish, Finish, Fail, Crash, Backfill
<1>3. before'[u] = before[u] /\ (u \in torn' <=> u \in torn)
  BY DEF StateOK, Step, Start, Sync, Refresh, Begin, KeepScore, Refuse, StartScoring, Score, KeepChoice,
         StartSelection, Choose, EndEmpty, Settle, Publish, Finish, Fail, Crash, Backfill
<1>. QED
  BY <1>1, <1>2, <1>3

\* Nothing of a published trace changes but what is settled, and the bookkeeping.
LEMMA StepFreezes ==
  ASSUME StateOK, Unpublished, NEW t \in Traces, Step(t), NEW u \in Traces, store[u].published
  PROVE  store'[u].published /\ store'[u].evidence = store[u].evidence /\ store'[u].picks = store[u].picks
<1>1. CASE u # t
  BY <1>1, OthersStay
<1>2. CASE u = t
  <2>1. ~Score(t) /\ ~Choose(t)
    BY <1>2 DEF Unpublished, Score, Choose, At
  <2>2. store[t] \in TraceType /\ t \in DOMAIN store
    BY DEF StateOK
  <2>. QED
    BY <1>2, <2>1, <2>2
    DEF StateOK, TraceType, Step, Start, Sync, Refresh, Begin, KeepScore, Refuse, StartScoring, KeepChoice,
        StartSelection, EndEmpty, Settle, Publish, Finish, Fail, Crash, Backfill
<1>. QED
  BY <1>1, <1>2

LEMMA Freezes ==
  ASSUME StateOK, Unpublished, [Next]_vars, NEW u \in Traces, store[u].published
  PROVE  store'[u].published /\ store'[u].evidence = store[u].evidence /\ store'[u].picks = store[u].picks
<1>1. CASE \E t \in Traces : Step(t)
  BY <1>1, StepFreezes
<1>2. CASE store' = store
  BY <1>2
<1>. QED
  BY <1>1, <1>2 DEF Next, vars

LEMMA WorldStays ==
  ASSUME [Next]_vars
  PROVE  world' = world
BY ZenonT(40) DEF Next, vars, Step, Start, Sync, Refresh, Begin, KeepScore, Refuse, StartScoring, Score, KeepChoice,
       StartSelection, Choose, EndEmpty, Settle, Publish, Finish, Fail, Crash, Backfill

LEMMA UnpublishedKept ==
  ASSUME StateOK, Unpublished, [Next]_vars
  PROVE  Unpublished'
<1>1. ASSUME NEW t \in Traces, Step(t) PROVE Unpublished'
  <2>. SUFFICES ASSUME NEW u \in Traces, run'[u].pc \in {"scoring", "selecting"} PROVE ~store'[u].published
    BY DEF Unpublished
  <2>1. CASE u # t
    BY <1>1, <2>1, OthersStay DEF Unpublished
  <2>2. CASE u = t
    <3>1. store[t] \in TraceType /\ t \in DOMAIN store /\ run[t] \in RunType /\ t \in DOMAIN run
      BY DEF StateOK
    <3>2. StartScoring(t) \/ StartSelection(t) \/ Backfill(t)
      BY <1>1, <2>2, <3>1
      DEF Step, RunType, Goto, Leave, Start, Sync, Refresh, Begin, KeepScore, Refuse, Score, KeepChoice, Choose,
          EndEmpty, Settle, Publish, Finish, Fail, Crash
    <3>. QED
      BY <2>2, <3>1, <3>2 DEF Unpublished, StateOK, TraceType, StartScoring, StartSelection, Backfill, MayRewrite
  <2>. QED
    BY <2>1, <2>2
<1>2. CASE Loop /\ UNCHANGED <<world, facts, penalties, store, run, faults, torn, before>>
  BY <1>2 DEF Unpublished
<1>3. CASE UNCHANGED vars
  BY <1>3 DEF Unpublished, vars
<1>. QED
  BY <1>1, <1>2, <1>3 DEF Next

LEMMA OneSelectsKept ==
  ASSUME StateOK, OneSelects, [Next]_vars
  PROVE  OneSelects'
<1>1. ASSUME NEW t \in Traces, Step(t) PROVE OneSelects'
  <2>0. run[t] \in RunType /\ t \in DOMAIN run
    BY DEF StateOK
  <2>1. CASE StartSelection(t)
    <3>1. pass = "rest" /\ pass' = "first"
      BY <2>1 DEF StartSelection, Load
    <3>2. \A u \in Traces \ {t} : run'[u].pc # "selecting"
      BY <1>1, <3>1, OthersStay DEF OneSelects
    <3>. QED
      BY <3>1, <3>2 DEF OneSelects
  <2>2. CASE Choose(t) \/ Fail(t) \/ Crash(t)
    <3>1. run'[t].pc # "selecting"
      BY <2>0, <2>2 DEF RunType, Choose, Fail, Crash, Goto, Leave
    <3>2. run[t].pc = "selecting" \/ UNCHANGED pass
      BY <2>2 DEF Choose, Fail, Crash, Leave, selection, At
    <3>. QED
      BY <1>1, <3>1, <3>2, OthersStay DEF OneSelects
  <2>3. CASE ~(StartSelection(t) \/ Choose(t) \/ Fail(t) \/ Crash(t))
    <3>1. UNCHANGED pass
      BY <1>1, <2>3 DEF Step, Start, Sync, Refresh, Begin, KeepScore, Refuse, StartScoring, Score, KeepChoice,
         EndEmpty, Settle, Publish, Finish, Backfill, selection
    <3>2. run'[t].pc = "selecting" => run[t].pc = "selecting"
      BY <1>1, <2>0, <2>3 DEF RunType, Step, Goto, Start, Sync, Refresh, Begin, KeepScore, Refuse, StartScoring, Score, KeepChoice,
         EndEmpty, Settle, Publish, Finish, Backfill
    <3>. QED
      BY <1>1, <3>1, <3>2, OthersStay DEF OneSelects
  <2>. QED
    BY <2>1, <2>2, <2>3
<1>2. CASE Loop /\ UNCHANGED <<world, facts, penalties, store, run, faults, torn, before>>
  BY <1>2 DEF OneSelects, Loop, Skip, Postpone, Take, EndFirst, Fill, EndFill
<1>3. CASE UNCHANGED vars
  BY <1>3 DEF OneSelects, vars, selection
<1>. QED
  BY <1>1, <1>2, <1>3 DEF Next

\* A penalty that has been earned stays so.
LEMMA EarnedByKept ==
  ASSUME StateOK, Unpublished, [Next]_vars, NEW p, NEW u \in Traces, EarnedBy(p, u)
  PROVE  EarnedBy(p, u)'
<1>1. world' = world
  BY WorldStays
<1>2. store[u].published
  BY DEF EarnedBy
<1>3. store'[u].published /\ store'[u].evidence = store[u].evidence /\ store'[u].picks = store[u].picks
  BY <1>2, Freezes
<1>. QED
  BY <1>1, <1>3 DEF EarnedBy, Visible, Day

LEMMA NewAreEarned ==
  ASSUME NEW d, NEW p \in NewPenalties(d)
  PROVE  \E u \in Traces : EarnedBy(p, u) /\ p.from = d
<1>1. PICK l \in Losses(d) :
        p = [trace |-> l.trace, symbol |-> l.symbol, keyword |-> world.keyword[l.symbol], from |-> d]
  BY DEF NewPenalties
<1>2. /\ l.trace \in Traces /\ store[l.trace].published /\ Visible(l.trace, d)
      /\ l.symbol \in store[l.trace].picks \cap store[l.trace].settled \cap world.losing
  BY DEF Losses
<1>3. PICK row \in store[l.trace].evidence : row.symbol = l.symbol
  BY DEF Losses
<1>4. p.from = d /\ p.keyword = world.keyword[l.symbol]
  BY <1>1
<1>5. EarnedBy(p, l.trace)
  BY <1>2, <1>3, <1>4 DEF EarnedBy
<1>. QED
  BY <1>2, <1>4, <1>5

LEMMA EarnedKept ==
  ASSUME StateOK, Unpublished, Earned, [Next]_vars
  PROVE  Earned'
<1>1. penalties' = penalties \/ \E t \in Traces : penalties' = penalties \cup NewPenalties(Day(t))
  BY ZenonT(40) DEF Next, vars, Step, Start, Sync, Refresh, Begin, KeepScore, Refuse, StartScoring, Score, KeepChoice,
         StartSelection, Choose, EndEmpty, Settle, Publish, Finish, Fail, Crash, Backfill
<1>2. \A p \in penalties' : \E u \in Traces : EarnedBy(p, u)
  BY <1>1, NewAreEarned DEF Earned
<1>. SUFFICES ASSUME NEW p \in penalties' PROVE \E u \in Traces : EarnedBy(p, u)'
  BY DEF Earned
<1>3. PICK u \in Traces : EarnedBy(p, u)
  BY <1>2
<1>4. EarnedBy(p, u)'
  BY <1>3, EarnedByKept
<1>. QED
  BY <1>4

\* What a step does to the evidence of its trace.
LEMMA EvidenceSteps ==
  ASSUME StateOK, NEW t \in Traces, Step(t), ~Score(t)
  PROVE  /\ store'[t].evidence = store[t].evidence
         /\ store'[t].scoring = store[t].scoring \/ ~store'[t].scoring.done
         /\ torn' = torn
<1>1. store[t] \in TraceType /\ t \in DOMAIN store
  BY DEF StateOK
<1>. QED
  BY <1>1
  DEF TraceType, NoStep, Step, Start, Sync, Refresh, Begin, KeepScore, Refuse, StartScoring, KeepChoice,
      StartSelection, Choose, EndEmpty, Settle, Publish, Finish, Fail, Crash, Backfill

LEMMA ScoreStep ==
  ASSUME StateOK, NEW t \in Traces, Score(t)
  PROVE  /\ store'[t].evidence = Evidence(Inputs(t))
         /\ store'[t].scoring = [done |-> TRUE, inputs |-> run[t].inputs, rows |-> Evidence(Inputs(t))]
         /\ store'[t].picks = {}
         /\ run'[t].inputs = run[t].inputs
         /\ t \notin torn' => Inputs(t) = run[t].inputs
<1>1. store[t] \in TraceType /\ t \in DOMAIN store /\ run[t] \in RunType /\ t \in DOMAIN run
  BY DEF StateOK
<1>. QED
  BY <1>1 DEF Score, Goto, TraceType, RunType

LEMMA ScoringsKept ==
  ASSUME StateOK, Scorings, [Next]_vars
  PROVE  Scorings'
<1>0. \A inputs : Evidence(inputs)' = Evidence(inputs)
  BY WorldStays DEF Evidence, Cut
<1>1. ASSUME NEW t \in Traces, Step(t) PROVE Scorings'
  <2>. SUFFICES ASSUME NEW u \in Traces \ torn', store'[u].scoring.done
                PROVE  store'[u].scoring.rows = Evidence(store'[u].scoring.inputs)
    BY <1>0 DEF Scorings
  <2>1. CASE u # t
    BY <1>1, <2>1, OthersStay DEF Scorings
  <2>2. CASE u = t /\ ~Score(t)
    BY <1>1, <2>2, EvidenceSteps DEF Scorings
  <2>3. CASE u = t /\ Score(t)
    <3>1. Inputs(t) = run[t].inputs
      BY <2>3, ScoreStep
    <3>2. store'[t].scoring = [done |-> TRUE, inputs |-> run[t].inputs, rows |-> Evidence(Inputs(t))]
      BY <2>3, ScoreStep
    <3>3. store'[t].scoring.rows = Evidence(Inputs(t)) /\ store'[t].scoring.inputs = run[t].inputs
      BY <3>2
    <3>. QED
      BY <2>3, <3>1, <3>3
  <2>. QED
    BY <2>1, <2>2, <2>3
<1>2. CASE Loop /\ UNCHANGED <<world, facts, penalties, store, run, faults, torn, before>>
  BY <1>0, <1>2 DEF Scorings
<1>3. CASE UNCHANGED vars
  BY <1>0, <1>3 DEF Scorings, vars
<1>. QED
  BY <1>1, <1>2, <1>3 DEF Next

LEMMA EvidenceKept ==
  ASSUME StateOK, Scorings, EvidenceIsOfInputs, [Next]_vars
  PROVE  EvidenceIsOfInputs'
<1>. DEFINE Uses == {"select", "selecting", "settle", "publish"}
<1>0. \A inputs : Evidence(inputs)' = Evidence(inputs)
  BY WorldStays DEF Evidence, Cut
<1>1. ASSUME NEW t \in Traces, Step(t) PROVE EvidenceIsOfInputs'
  <2>. SUFFICES ASSUME NEW u \in Traces \ torn', run'[u].pc \in Uses
                PROVE  store'[u].evidence = Evidence(run'[u].inputs)
    BY <1>0 DEF EvidenceIsOfInputs
  <2>0. run[t] \in RunType /\ t \in DOMAIN run
    BY DEF StateOK
  <2>1. CASE u # t
    BY <1>1, <2>1, OthersStay DEF EvidenceIsOfInputs
  <2>2. CASE u = t /\ Score(t)
    BY <2>2, ScoreStep
  <2>3. CASE u = t /\ KeepScore(t)
    <3>1. run'[t].inputs = run[t].inputs
      BY <2>0, <2>3 DEF KeepScore, Goto, RunType
    <3>2. UNCHANGED <<store, torn>>
      BY <2>3 DEF KeepScore
    <3>. QED
      BY <2>3, <3>1, <3>2 DEF KeepScore, ScoreReusable, Reusable, Scorings
  <2>4. CASE u = t /\ ~Score(t) /\ ~KeepScore(t)
    <3>0. KeepChoice(t) \/ StartSelection(t) \/ Choose(t) \/ Settle(t) \/ Backfill(t)
      BY <1>1, <2>0, <2>4
      DEF RunType, Goto, Leave, Step, Start, Sync, Refresh, Begin, Refuse, StartScoring, EndEmpty, Publish, Finish,
          Fail, Crash
    <3>1. run'[t].inputs = run[t].inputs /\ run[t].pc \in Uses
      BY <2>0, <2>4, <3>0, ZenonT(40) DEF RunType, Goto, At, KeepChoice, StartSelection, Choose, Settle, Backfill
    <3>. QED
      BY <1>1, <2>4, <3>1, EvidenceSteps DEF EvidenceIsOfInputs
  <2>. QED
    BY <2>1, <2>2, <2>3, <2>4
<1>2. CASE Loop /\ UNCHANGED <<world, facts, penalties, store, run, faults, torn, before>>
  BY <1>0, <1>2 DEF EvidenceIsOfInputs
<1>3. CASE UNCHANGED vars
  BY <1>0, <1>3 DEF EvidenceIsOfInputs, vars
<1>. QED
  BY <1>1, <1>2, <1>3 DEF Next

\* The cause of a cut score.
CutBy(t, row, u) ==
  /\ store[u].published
  /\ Day(u) + DelayDays <= Day(t) /\ Day(t) <= Day(u) + LookbackDays + PenaltyDays
  /\ \E other \in store[u].evidence :
       other.symbol \in store[u].picks \cap world.losing /\ world.keyword[other.symbol] = world.keyword[row.symbol]

LEMMA CutByKept ==
  ASSUME StateOK, Unpublished, [Next]_vars, NEW t \in Traces, NEW row, NEW u \in Traces, CutBy(t, row, u)
  PROVE  CutBy(t, row, u)'
<1>1. world' = world
  BY WorldStays
<1>2. store'[u].published /\ store'[u].evidence = store[u].evidence /\ store'[u].picks = store[u].picks
  BY Freezes DEF CutBy
<1>. QED
  BY <1>1, <1>2 DEF CutBy, Day

\* What is cut now is cut for a cause.
LEMMA CutHasCause ==
  ASSUME StateOK, Earned, NEW t \in Traces, NEW row \in Evidence(Inputs(t)), row.cut
  PROVE  \E u \in Traces : CutBy(t, row, u)
<1>1. PICK s \in world.named : row = [symbol |-> s, cut |-> Cut(s, Inputs(t).penalties)]
  BY DEF Evidence
<1>2. row.symbol = s /\ Cut(s, Inputs(t).penalties)
  BY <1>1
<1>3. PICK p \in ValidAt(Day(t)) : p.keyword = world.keyword[s]
  BY <1>2 DEF Cut, Inputs
<1>4. p \in penalties /\ p.from \in Nat /\ p.from <= Day(t) /\ Day(t) <= p.from + PenaltyDays
  BY <1>3 DEF ValidAt, StateOK, InputsType
<1>5. PICK u \in Traces : EarnedBy(p, u)
  BY <1>4 DEF Earned
<1>6. p.from <= Day(u) + LookbackDays /\ Day(u) + DelayDays <= p.from
  BY <1>5 DEF EarnedBy, Visible
<1>7. Day(t) \in Nat /\ Day(u) \in Nat
  BY InputTypes
<1>8. Day(u) + DelayDays <= Day(t) /\ Day(t) <= Day(u) + LookbackDays + PenaltyDays
  BY <1>4, <1>6, <1>7, NumbersAssumption
<1>. QED
  BY <1>2, <1>3, <1>5, <1>8 DEF EarnedBy, CutBy

LEMMA CutsMean ==
  PenaltiesAreEarned <=> \A t \in Traces : \A row \in store[t].evidence : row.cut => \E u \in Traces : CutBy(t, row, u)
BY DEF PenaltiesAreEarned, CutBy

LEMMA CutsKept ==
  ASSUME StateOK, Unpublished, Earned, PenaltiesAreEarned, [Next]_vars
  PROVE  PenaltiesAreEarned'
<1>. DEFINE Caused(t, row) == \E u \in Traces : CutBy(t, row, u)
<1>1. ASSUME NEW t \in Traces, NEW row \in store'[t].evidence, row.cut PROVE Caused(t, row)
  <2>1. CASE row \in store[t].evidence
    BY <1>1, <2>1, CutsMean
  <2>2. CASE row \notin store[t].evidence
    <3>1. Score(t)
      BY <1>1, <2>2, OthersStay, EvidenceSteps DEF Next, vars
    <3>. QED
      BY <1>1, <3>1, ScoreStep, CutHasCause
  <2>. QED
    BY <2>1, <2>2
<1>2. ASSUME NEW t \in Traces, NEW row \in store'[t].evidence, row.cut
      PROVE  \E u \in Traces : CutBy(t, row, u)'
  BY <1>1, <1>2, CutByKept
<1>. QED
  BY <1>2 DEF PenaltiesAreEarned, CutBy

\* The pool of a run that selects is its own.
LEMMA PoolStays ==
  ASSUME StateOK, OneSelects, [Next]_vars, NEW t \in Traces, run[t].pc = "selecting", run'[t].pc = "selecting"
  PROVE  pool' = pool /\ run'[t].seen = run[t].seen
<1>1. pass # "rest" /\ \A u \in Traces : run[u].pc = "selecting" => u = t
  BY DEF OneSelects
<1>2. ASSUME NEW u \in Traces, Step(u) PROVE pool' = pool /\ run'[t].seen = run[t].seen
  <2>0. run[t] \in RunType /\ t \in DOMAIN run
    BY DEF StateOK
  <2>1. CASE u = t
    <3>1. Backfill(t)
      BY <1>1, <1>2, <2>0, <2>1, ZenonT(40)
      DEF Step, RunType, Goto, Leave, At, Start, Sync, Refresh, Begin, KeepScore, Refuse, StartScoring, Score,
          KeepChoice, StartSelection, Choose, EndEmpty, Settle, Publish, Finish, Fail, Crash
    <3>. QED
      BY <3>1 DEF Backfill, selection
  <2>2. CASE u # t
    <3>1. run[u].pc # "selecting" /\ ~StartSelection(u)
      BY <1>1, <2>2 DEF StartSelection, Load
    <3>2. UNCHANGED selection
      BY <1>2, <3>1
      DEF Step, Leave, At, Start, Sync, Refresh, Begin, KeepScore, Refuse, StartScoring, Score,
          KeepChoice, Choose, EndEmpty, Settle, Publish, Finish, Fail, Crash, Backfill
    <3>. QED
      BY <1>2, <2>2, <3>2, OthersStay DEF selection
  <2>. QED
    BY <2>1, <2>2
<1>3. CASE Loop /\ UNCHANGED <<world, facts, penalties, store, run, faults, torn, before>>
  BY <1>3 DEF Loop, Skip, Postpone, Take, EndFirst, Fill, EndFill
<1>. QED
  BY <1>2, <1>3 DEF Next, vars, selection

LEMMA ChosenKept ==
  ASSUME StateOK, Unpublished, OneSelects, Chosen, [Next]_vars
  PROVE  Chosen'
<1>1. world' = world
  BY WorldStays
<1>. SUFFICES ASSUME NEW t \in Traces, run'[t].pc = "selecting", NEW u \in run'[t].seen
              PROVE  /\ u \in Published'
                     /\ Day(u) + 1 = Day(t) => \A c \in pool' : c.symbol \notin store'[u].picks
  BY <1>1 DEF Chosen, Day
<1>2. CASE run[t].pc = "selecting"
  <2>1. pool' = pool /\ run'[t].seen = run[t].seen
    BY <1>2, PoolStays
  <2>2. u \in Published /\ (Day(u) + 1 = Day(t) => \A c \in pool : c.symbol \notin store[u].picks)
    BY <1>2, <2>1 DEF Chosen
  <2>3. u \in Traces /\ store'[u].published /\ store'[u].picks = store[u].picks
    BY <2>2, Freezes DEF Published
  <2>. QED
    BY <2>1, <2>2, <2>3 DEF Published
<1>3. CASE run[t].pc # "selecting"
  <2>0. run[t] \in RunType /\ t \in DOMAIN run /\ run'[t].pc # run[t].pc
    BY <1>3 DEF StateOK
  <2>1. Step(t)
    BY <2>0, OthersStay DEF Next, vars
  <2>2. StartSelection(t)
    BY <2>0, <2>1, ZenonT(40)
    DEF Step, RunType, Goto, Leave, Start, Sync, Refresh, Begin, KeepScore, Refuse, StartScoring, Score,
        KeepChoice, Choose, EndEmpty, Settle, Publish, Finish, Fail, Crash, Backfill
  <2>3. run'[t].seen = Published
    BY <2>0, <2>2 DEF StartSelection, RunType
  <2>4. \A c \in pool' : c.symbol \notin RestingStocks(DayBefore(t))
    BY <2>2 DEF StartSelection, Load, Rested
  <2>5. u \in Traces /\ store[u].published
    BY <2>3 DEF Published
  <2>6. store'[u].published /\ store'[u].picks = store[u].picks
    BY <2>5, Freezes
  <2>7. Day(u) + 1 = Day(t) => store[u].picks \subseteq RestingStocks(DayBefore(t))
    BY <2>5 DEF RestingStocks, DayBefore, Published
  <2>. QED
    BY <2>4, <2>5, <2>6, <2>7 DEF Published
<1>. QED
  BY <1>2, <1>3

\* What a step does to the recommendations of its trace.
LEMMA PickSteps ==
  ASSUME StateOK, NEW t \in Traces, Step(t), ~Choose(t)
  PROVE  before' = before /\ store'[t].picks \subseteq store[t].picks
<1>1. store[t] \in TraceType /\ t \in DOMAIN store
  BY DEF StateOK
<1>2. before' = before
  BY DEF Step, Start, Sync, Refresh, Begin, KeepScore, Refuse, StartScoring, Score, KeepChoice,
         StartSelection, EndEmpty, Settle, Publish, Finish, Fail, Crash, Backfill
<1>3. CASE Score(t)
  BY <1>2, <1>3, ScoreStep
<1>4. CASE ~Score(t)
  BY <1>1, <1>2, <1>4
  DEF TraceType, NoStep, Step, Start, Sync, Refresh, Begin, KeepScore, Refuse, StartScoring, KeepChoice,
      StartSelection, EndEmpty, Settle, Publish, Finish, Fail, Crash, Backfill
<1>. QED
  BY <1>3, <1>4

LEMMA ChooseStep ==
  ASSUME StateOK, NEW t \in Traces, Choose(t)
  PROVE  before'[t] = run[t].seen /\ store'[t].picks = {c.symbol : c \in taken}
<1>1. store[t] \in TraceType /\ t \in DOMAIN store /\ t \in DOMAIN before
  BY DEF StateOK
<1>. QED
  BY <1>1 DEF Choose, TraceType

LEMMA ApartKept ==
  ASSUME StateOK, TypeOK, Unpublished, Chosen, Apart, [Next]_vars
  PROVE  Apart'
<1>1. world' = world
  BY WorldStays
<1>. SUFFICES ASSUME NEW t \in Traces, NEW u \in before'[t]
              PROVE  u \in Published' /\ (Day(u) + 1 = Day(t) => store'[t].picks \cap store'[u].picks = {})
  BY <1>1 DEF Apart, Day
<1>2. CASE Choose(t)
  <2>1. u \in run[t].seen /\ run[t].pc = "selecting" /\ store'[t].picks = {c.symbol : c \in taken}
    BY <1>2, ChooseStep DEF Choose, At
  <2>2. u \in Published /\ (Day(u) + 1 = Day(t) => \A c \in pool : c.symbol \notin store[u].picks)
    BY <2>1 DEF Chosen
  <2>3. u \in Traces /\ store'[u].published /\ store'[u].picks = store[u].picks
    BY <2>2, Freezes DEF Published
  <2>. QED
    BY <2>1, <2>2, <2>3 DEF Published, TypeOK
<1>3. CASE ~Choose(t)
  <2>1. u \in before[t] /\ store'[t].picks \subseteq store[t].picks
    BY <1>3, OthersStay, PickSteps DEF Next, vars
  <2>2. u \in Published /\ (Day(u) + 1 = Day(t) => store[t].picks \cap store[u].picks = {})
    BY <2>1 DEF Apart
  <2>3. u \in Traces /\ store'[u].published /\ store'[u].picks = store[u].picks
    BY <2>2, Freezes DEF Published
  <2>. QED
    BY <2>1, <2>2, <2>3 DEF Published
<1>. QED
  BY <1>2, <1>3

-----------------------------------------------------------------------------
(* The theorems *)

FeedbackInv ==
  /\ StateOK /\ SelectorInv /\ Unpublished /\ OneSelects /\ Earned /\ PenaltiesAreEarned
  /\ Scorings /\ EvidenceIsOfInputs /\ Chosen /\ Apart

LEMMA FeedbackStarts ==
  ASSUME Init
  PROVE  FeedbackInv
<1>1. StateOK /\ SelectorInv
  BY StateStarts, SelectorStarts DEF Init
<1>2. \A t \in Traces : run[t].pc = "off" /\ before[t] = {}
  BY DEF Init, Off
<1>3. penalties = {}
  BY DEF Init
<1>4. ASSUME NEW u \in Traces
      PROVE  /\ \A row \in store[u].evidence : ~row.cut
             /\ store[u].scoring.done => store[u].scoring.rows = Evidence(store[u].scoring.inputs)
  <2>1. CASE store[u] = NewTrace
    BY <2>1 DEF NewTrace, NoStep
  <2>2. CASE store[u] # NewTrace
    <3>1. PICK t \in world.traces : store[u] = Scored(world, t)
      BY <2>2 DEF Init
    <3>2. t \in Traces
      BY <1>1 DEF StateOK, World
    <3>. DEFINE rows == {[symbol |-> s, cut |-> FALSE] : s \in world.named}
                inputs == [facts |-> [from |-> world.day[t], by |-> t], penalties |-> {}]
    <3>3. store[u].evidence = rows /\ store[u].scoring = [done |-> TRUE, inputs |-> inputs, rows |-> rows]
      BY <3>1 DEF Scored, NewTrace
    <3>4. inputs.facts # Never /\ inputs.penalties = {}
      BY <3>2, TracesAssumption DEF Never
    <3>5. \A s : Cut(s, inputs.penalties) = FALSE
      BY <3>4 DEF Cut
    <3>6. Evidence(inputs) = rows
      BY <3>4, <3>5 DEF Evidence
    <3>7. \A row \in rows : ~row.cut
      OBVIOUS
    <3>. HIDE DEF rows, inputs
    <3>. QED
      BY <3>3, <3>6, <3>7
  <2>. QED
    BY <2>1, <2>2
<1>. QED
  BY <1>1, <1>2, <1>3, <1>4
  DEF FeedbackInv, Unpublished, OneSelects, Earned, PenaltiesAreEarned, Scorings, EvidenceIsOfInputs, Chosen, Apart

LEMMA FeedbackKeeps ==
  ASSUME FeedbackInv, [Next]_vars
  PROVE  FeedbackInv'
<1>1. StateOK' /\ SelectorInv'
  BY StateKeeps, StepChooses, SelectorKeeps DEF FeedbackInv, SelectorInv
<1>2. Unpublished' /\ OneSelects' /\ Earned' /\ PenaltiesAreEarned'
  BY UnpublishedKept, OneSelectsKept, EarnedKept, CutsKept DEF FeedbackInv
<1>3. Scorings' /\ EvidenceIsOfInputs' /\ Chosen' /\ Apart'
  BY ScoringsKept, EvidenceKept, ChosenKept, ApartKept DEF FeedbackInv, SelectorInv
<1>. QED
  BY <1>1, <1>2, <1>3 DEF FeedbackInv

LEMMA FeedbackHolds == Spec => []FeedbackInv
<1>1. Init => FeedbackInv
  BY FeedbackStarts
<1>2. FeedbackInv /\ [Next]_vars => FeedbackInv'
  BY FeedbackKeeps
<1>. QED
  BY <1>1, <1>2, PTL DEF Spec

\* The selection keeps what it promises for any candidates, whoever calls it.
THEOREM SelectionIsFair == SelectorSpec => [](QuotasKept /\ SpreadFirst /\ NoRoomLeft)
<1>1. Resting => SelectorInv
  BY SelectorStarts
<1>2. SelectorInv /\ [SelectorNext]_selection => SelectorInv'
  BY SelectorKeeps
<1>3. SelectorInv => QuotasKept /\ SpreadFirst /\ NoRoomLeft
  BY SelectorMeans
<1>. QED
  BY <1>1, <1>2, <1>3, PTL DEF SelectorSpec

\* The choice that the runs make of their candidates is such a selection.
THEOREM RunsSelect == Spec => SelectorSpec
<1>1. Init => Resting
  BY DEF Init
<1>2. FeedbackInv /\ [Next]_vars => [SelectorNext]_selection
  BY StepChooses DEF FeedbackInv
<1>. QED
  BY <1>1, <1>2, FeedbackHolds, PTL DEF Spec, SelectorSpec

\* Both passes together give no signal type and no industry more than its share.
THEOREM QuotasHold == Spec => []QuotasKept
BY SelectionIsFair, RunsSelect, PTL

\* No industry has a second recommendation before each that can has its first.
THEOREM SpreadHolds == Spec => []SpreadFirst
BY SelectionIsFair, RunsSelect, PTL

\* Nobody is left out for whom there was room: what the first pass postpones, the
\* second one looks at.
THEOREM NobodyIsLost == Spec => []NoRoomLeft
BY SelectionIsFair, RunsSelect, PTL

\* What has been published is not rewritten by the runs that are called again.
THEOREM PublishedStays == Spec => PublishedIsFrozen
<1>1. FeedbackInv /\ [Next]_vars =>
        [\A t \in Traces : store[t].published =>
           store'[t].published /\ store'[t].evidence = store[t].evidence /\ store'[t].picks = store[t].picks]_vars
  BY Freezes DEF FeedbackInv
<1>. QED
  BY <1>1, FeedbackHolds, PTL DEF Spec, PublishedIsFrozen

\* Scores are cut for losses that were known on the day of the trace.
THEOREM PenaltiesHaveCause == Spec => []PenaltiesAreEarned
<1>1. FeedbackInv => PenaltiesAreEarned
  BY DEF FeedbackInv
<1>. QED
  BY <1>1, FeedbackHolds, PTL

\* A run recommends from the evidence that its inputs give.
THEOREM EvidenceIsCurrent == Spec => []EvidenceIsOfInputs
<1>1. FeedbackInv => EvidenceIsOfInputs
  BY DEF FeedbackInv
<1>. QED
  BY <1>1, FeedbackHolds, PTL

\* The recommendations of a day differ from those that the day before had published.
THEOREM RepeatsAreLate == Spec => []RepeatsHaveCause
<1>1. FeedbackInv => RepeatsHaveCause
  BY DEF FeedbackInv, Apart, RepeatsHaveCause, Published
<1>. QED
  BY <1>1, FeedbackHolds, PTL
=============================================================================
