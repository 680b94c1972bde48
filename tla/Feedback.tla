-------------------------------- MODULE Feedback --------------------------------
(***************************************************************************)
(* How the recommendations of one day act on those of a later one: the     *)
(* scoring and the selection of a trace (runBacktest of backtest-engine.ts *)
(* with the engines it calls), and its publication, the loss of a          *)
(* published recommendation, the penalty of its keywords                   *)
(* (keyword-performance-penalty-service.ts), and the cooldown of what was  *)
(* recommended the day before.                                             *)
(*                                                                         *)
(* A run works on a trace, whose day (asOf) is in the past or is today; a  *)
(* trace has one run at a time (module RunLease), runs of different traces *)
(* overlap, and days may be replayed in any order.  A run that is called   *)
(* again for its trace reuses what is stored under the fingerprint of its  *)
(* inputs.  The causal signals of a trace, the news, the candles and the   *)
(* aliases do not change here; a keyword names each stock.                 *)
(***************************************************************************)
EXTENDS Selector

CONSTANTS
  Traces,
  LastDay,      \* days are 1 .. LastDay (bound)
  RefreshDays,  \* tickFlowRefreshIntervalDays
  LookbackDays, \* how far back a loss counts
  DelayDays,    \* from the day of a recommendation to its visible yield
  PenaltyDays,  \* cooldownDays of a penalty
  FullScore, CutScore, SurgeScore, \* scores: of evidence, of penalised evidence, of the momentum channel
  Worlds        \* the circumstances of a behaviour: see World (bound)

Days == 1 .. LastDay
World == [traces : SUBSET Traces, day : [Traces -> Days], executor : [Traces -> {"legacy", "registry"}],
          named : SUBSET Stocks, keyword : [Stocks -> Keywords], industry : [Stocks -> Industries \cup {None}],
          fails : [Stocks -> SUBSET Gates], losing : SUBSET Stocks, surging : SUBSET (Days \X Stocks),
          scored : BOOLEAN, faults : Nat]
\* named: the stocks whose keyword is in the causal signals; losing: their yields are
\* below the threshold; surging: they surge that day; scored: a run of each trace has
\* crashed after its scoring; faults: how many statements fail or processes die.
ASSUME WorldsAssumption == Worlds \subseteq World
ASSUME NumbersAssumption == {LastDay, RefreshDays, LookbackDays, DelayDays, PenaltyDays} \subseteq Nat
                              /\ {FullScore, CutScore, SurgeScore} \subseteq Nat
ASSUME TracesAssumption == None \notin Traces

VARIABLES
  world,
  facts,     \* StockExposureFact: the day they are valid from, and the trace that synced them
  penalties, \* KeywordPerformancePenalty
  store,     \* the rows of the traces
  run,       \* memory of the runs
  faults,    \* statements that may still fail
  torn,      \* history: traces that were scored with other inputs than the fingerprint names
  before     \* history: the traces that were published when a trace chose its recommendations

vars == <<world, facts, penalties, store, run, faults, torn, before, selection>>

Day(t) == world.day[t]

-----------------------------------------------------------------------------
(* What the runs read *)

Never == [from |-> 0, by |-> None]
NoInputs == [facts |-> Never, penalties |-> {}]
NoStep == [done |-> FALSE, inputs |-> NoInputs, rows |-> {}]
NewTrace == [status |-> "none", synced |-> FALSE, scoring |-> NoStep, evidence |-> {},
             choice |-> NoStep, picks |-> {}, published |-> FALSE, settled |-> {}]
Off == [pc |-> "off", inputs |-> NoInputs, redo |-> FALSE, seen |-> {}]

Active(d) == facts # Never /\ facts.from <= d
FactsAt(d) == IF Active(d) THEN facts ELSE Never
ValidAt(d) == {p \in penalties : p.from <= d /\ d <= p.from + PenaltyDays}

Inputs(t) == [facts |-> FactsAt(Day(t)), penalties |-> ValidAt(Day(t))]

Cut(s, ps) == \E p \in ps : p.keyword = world.keyword[s]

\* The evidence that scoring finds with these inputs.
Evidence(inputs) ==
  {[symbol |-> s, cut |-> Cut(s, inputs.penalties)] : s \in IF inputs.facts = Never THEN {} ELSE world.named}

\* mutant of Visible: a yield counts as soon as it is stored
VisibleOnceStored(u, d) == Day(u) < d /\ d <= Day(u) + LookbackDays

\* A loss of u counts on day d: u is of an earlier day, and its yields are visible.
Visible(u, d) == Day(u) < d /\ d <= Day(u) + LookbackDays /\ Day(u) + DelayDays <= d

\* The published recommendations with a visible loss, with the keywords of their evidence.
Losses(d) ==
  {l \in [trace : Traces, symbol : Stocks] :
     LET u == store[l.trace] IN
     /\ u.published /\ Visible(l.trace, d)
     /\ l.symbol \in u.picks \cap u.settled \cap world.losing
     /\ \E row \in u.evidence : row.symbol = l.symbol}

\* skipDuplicates: a loss is penalised once.
Penalised(l) == \E p \in penalties : p.trace = l.trace /\ p.symbol = l.symbol

NewPenalties(d) ==
  {[trace |-> l.trace, symbol |-> l.symbol, keyword |-> world.keyword[l.symbol], from |-> d] :
     l \in {m \in Losses(d) : ~Penalised(m)}}

Published == {u \in Traces : store[u].published}

\* mutant of DayBefore: the day itself
SameDay(t) == {u \in Published : Day(u) = Day(t)}

DayBefore(t) == {u \in Published : Day(u) + 1 = Day(t)}

RestingStocks(us) == UNION {store[u].picks : u \in us}
RestingKeywords(us) ==
  UNION {{world.keyword[row.symbol] : row \in {r \in store[u].evidence : r.symbol \in store[u].picks}} : u \in us}

-----------------------------------------------------------------------------
(* The candidates of a trace *)

Surges(t, s) == <<Day(t), s>> \in world.surging
EvidenceScore(row) == IF row.cut THEN CutScore ELSE FullScore

Evidenced(row) ==
  [symbol |-> row.symbol, industry |-> world.industry[row.symbol], keyword |-> world.keyword[row.symbol],
   score |-> EvidenceScore(row), momentum |-> FALSE, fails |-> world.fails[row.symbol]]
Surging(s) ==
  [symbol |-> s, industry |-> world.industry[s], keyword |-> Momentum,
   score |-> SurgeScore, momentum |-> TRUE, fails |-> world.fails[s]]

\* A stock of both channels keeps the better score; without any evidence nothing is chosen.
Candidates(t) ==
  LET rows == store[t].evidence
  IN IF rows = {} THEN {}
     ELSE {Evidenced(row) : row \in {r \in rows : ~(Surges(t, r.symbol) /\ SurgeScore > EvidenceScore(r))}}
            \cup {Surging(s) : s \in {s \in Stocks : /\ Surges(t, s)
                                                     /\ \A r \in rows : r.symbol = s => SurgeScore > EvidenceScore(r)}}

-----------------------------------------------------------------------------
(* A run *)

Quiet == pass \in {"rest", "done"}
At(t, pc) == run[t].pc = pc /\ Quiet
Goto(t, pc) == run' = [run EXCEPT ![t].pc = pc]

\* executeMain.  A registry run is not called again for its trace: see RegistryRun.
Start(t) ==
  /\ At(t, "off") /\ t \in world.traces
  /\ store[t].status # "SUCCESS"
  /\ world.executor[t] = "registry" => store[t].status = "none"
  /\ store' = [store EXCEPT ![t].status = "PENDING"]
  /\ Goto(t, "sync")
  /\ UNCHANGED <<world, facts, penalties, faults, torn, before, selection>>

Fresh(d) == Active(d) /\ d <= facts.from + RefreshDays

\* syncAndVerifyStockExposureFacts under its checkpoint: once for a trace.
Sync(t) ==
  /\ At(t, "sync")
  /\ facts' = IF store[t].synced \/ Fresh(Day(t)) THEN facts ELSE [from |-> Day(t), by |-> t]
  /\ store' = [store EXCEPT ![t].synced = TRUE]
  /\ Goto(t, IF world.executor[t] = "registry" THEN "refresh" ELSE "begin")
  /\ UNCHANGED <<world, penalties, faults, torn, before, selection>>

\* refreshBaselinePenalty: before the scoring (registry), or after the publication.
Refresh(t) ==
  /\ At(t, "refresh") \/ At(t, "after")
  /\ penalties' = penalties \cup NewPenalties(Day(t))
  /\ Goto(t, IF run[t].pc = "after" THEN "tail" ELSE "begin")
  /\ UNCHANGED <<world, facts, store, faults, torn, before, selection>>

\* runBacktest: the completed steps and the fingerprint are read.
Begin(t) ==
  /\ At(t, "begin")
  /\ run' = [run EXCEPT ![t].pc = "score", ![t].inputs = Inputs(t), ![t].redo = FALSE]
  /\ UNCHANGED <<world, facts, penalties, store, faults, torn, before, selection>>

\* mutant of Reusable: the rows of a step are enough
ReusableByRows(step, inputs, rows) == step.done /\ step.rows = rows

\* A step is reused if it is of these inputs and its rows are as it left them.
Reusable(step, inputs, rows) == step.done /\ step.inputs = inputs /\ step.rows = rows

ScoreReusable(t) == Reusable(store[t].scoring, run[t].inputs, store[t].evidence)
ChoiceReusable(t) == ~run[t].redo /\ Reusable(store[t].choice, run[t].inputs, store[t].picks)

KeepScore(t) ==
  /\ At(t, "score") /\ ScoreReusable(t)
  /\ Goto(t, "select")
  /\ UNCHANGED <<world, facts, penalties, store, faults, torn, before, selection>>

\* mutant of MayRewrite: published or not
MayAlwaysRewrite(t) == TRUE

MayRewrite(t) == ~store[t].published

\* "Published recommendation artifacts cannot be rewritten"; the step fails as well.
Refuse(t) ==
  /\ \/ At(t, "score") /\ ~ScoreReusable(t)
     \/ At(t, "select") /\ ~ChoiceReusable(t)
  /\ ~MayRewrite(t)
  /\ store' = [store EXCEPT ![t].status = "FAILED",
                            ![t].scoring = IF run[t].pc = "score" THEN NoStep ELSE @,
                            ![t].choice = IF run[t].pc = "select" THEN NoStep ELSE @]
  /\ Goto(t, "off")
  /\ UNCHANGED <<world, facts, penalties, faults, torn, before, selection>>

\* startStepTrace is outside the transaction, and outlives it.
StartScoring(t) ==
  /\ At(t, "score") /\ ~ScoreReusable(t) /\ MayRewrite(t)
  /\ store' = [store EXCEPT ![t].scoring = NoStep]
  /\ run' = [run EXCEPT ![t].pc = "scoring", ![t].redo = TRUE]
  /\ UNCHANGED <<world, facts, penalties, faults, torn, before, selection>>

\* The transaction: what was scored and recommended goes, the evidence is found.
Score(t) ==
  /\ At(t, "scoring")
  /\ LET rows == Evidence(Inputs(t))
     IN store' = [store EXCEPT ![t].scoring = [done |-> TRUE, inputs |-> run[t].inputs, rows |-> rows],
                               ![t].evidence = rows, ![t].picks = {}, ![t].settled = {}]
  /\ torn' = IF Inputs(t) = run[t].inputs THEN torn \ {t} ELSE torn \cup {t}
  /\ Goto(t, "select")
  /\ UNCHANGED <<world, facts, penalties, faults, before, selection>>

KeepChoice(t) ==
  /\ At(t, "select") /\ ChoiceReusable(t)
  /\ Goto(t, "settle")
  /\ UNCHANGED <<world, facts, penalties, store, faults, torn, before, selection>>

\* generatePhysicalRecommendationsWithDiagnostics.  The loop of the selector reads
\* nothing that other runs write: nothing else happens meanwhile.
StartSelection(t) ==
  /\ At(t, "select") /\ ~ChoiceReusable(t) /\ MayRewrite(t)
  /\ store' = [store EXCEPT ![t].choice = NoStep]
  /\ run' = [run EXCEPT ![t].pc = "selecting", ![t].seen = Published]
  /\ Load(Candidates(t), RestingStocks(DayBefore(t)), RestingKeywords(DayBefore(t)))
  /\ UNCHANGED <<world, facts, penalties, faults, torn, before>>

Choose(t) ==
  /\ At(t, "selecting") /\ pass = "done"
  /\ LET picks == {c.symbol : c \in taken}
     IN store' = [store EXCEPT ![t].choice = [done |-> TRUE, inputs |-> run[t].inputs, rows |-> picks],
                               ![t].picks = picks, ![t].settled = {}]
  /\ before' = [before EXCEPT ![t] = run[t].seen]
  /\ Goto(t, "settle")
  /\ Unload
  /\ UNCHANGED <<world, facts, penalties, faults, torn>>

\* classifyEmptyResult
EndEmpty(t) ==
  /\ At(t, "settle") /\ store[t].picks = {}
  /\ store' = [store EXCEPT ![t].status = IF store[t].evidence # {} THEN "COMPLETE_EMPTY" ELSE "FAILED"]
  /\ Goto(t, "off")
  /\ UNCHANGED <<world, facts, penalties, faults, torn, before, selection>>

\* The reconciliation of the run, which finds the later candles of a replayed day.
Settle(t) ==
  /\ At(t, "settle") /\ store[t].picks # {}
  /\ \E settled \in {store[t].settled, store[t].picks} : store' = [store EXCEPT ![t].settled = settled]
  /\ Goto(t, "publish")
  /\ UNCHANGED <<world, facts, penalties, faults, torn, before, selection>>

\* completeRunTrace; what publishRecommendation adds is in Publication.
Publish(t) ==
  /\ At(t, "publish")
  /\ store' = [store EXCEPT ![t].status = "SUCCESS", ![t].published = TRUE]
  /\ Goto(t, IF world.executor[t] = "registry" THEN "off" ELSE "after")
  /\ UNCHANGED <<world, facts, penalties, faults, torn, before, selection>>

\* The diagnostics and the metrics of a legacy run.
Finish(t) ==
  /\ At(t, "tail")
  /\ Goto(t, "off")
  /\ UNCHANGED <<world, facts, penalties, store, faults, torn, before, selection>>

Fault == faults > 0 /\ faults' = faults - 1
Leave(t) == Goto(t, "off") /\ IF run[t].pc = "selecting" THEN Unload ELSE UNCHANGED selection

\* A statement fails: the transaction is rolled back and the trace FAILED, published or
\* not.  After the publication a failing refresh is only noted.
Fail(t) ==
  /\ run[t].pc # "off" /\ Quiet /\ Fault
  /\ IF run[t].pc = "after" THEN Goto(t, "tail") /\ UNCHANGED <<store, selection>>
     ELSE Leave(t) /\ store' = [store EXCEPT ![t].status = "FAILED"]
  /\ UNCHANGED <<world, facts, penalties, torn, before>>

Crash(t) ==
  /\ run[t].pc # "off" /\ Quiet /\ Fault
  /\ Leave(t)
  /\ UNCHANGED <<world, facts, penalties, store, torn, before>>

\* backfill-yield-records (module YieldBackfill), when the later candles are there.
Backfill(t) ==
  /\ Quiet /\ store[t].settled # store[t].picks
  /\ store' = [store EXCEPT ![t].settled = store[t].picks]
  /\ UNCHANGED <<world, facts, penalties, run, faults, torn, before, selection>>

-----------------------------------------------------------------------------

\* A day of a scored world has its facts, and the evidence of all named stocks.
Scored(w, t) ==
  LET inputs == [facts |-> [from |-> w.day[t], by |-> t], penalties |-> {}]
      rows == {[symbol |-> s, cut |-> FALSE] : s \in w.named}
  IN [NewTrace EXCEPT !.status = "PENDING", !.synced = TRUE, !.evidence = rows,
                      !.scoring = [done |-> TRUE, inputs |-> inputs, rows |-> rows]]

Init ==
  /\ world \in Worlds
  /\ \E t \in world.traces :
       IF world.scored
       THEN /\ facts = [from |-> Day(t), by |-> t]
            /\ store = [u \in Traces |-> IF u = t THEN Scored(world, t) ELSE NewTrace]
       ELSE facts = Never /\ store = [u \in Traces |-> NewTrace]
  /\ penalties = {}
  /\ run = [t \in Traces |-> Off]
  /\ faults = world.faults
  /\ torn = {}
  /\ before = [t \in Traces |-> {}]
  /\ Resting

Step(t) ==
  \/ Start(t) \/ Sync(t) \/ Refresh(t) \/ Begin(t)
  \/ KeepScore(t) \/ Refuse(t) \/ StartScoring(t) \/ Score(t)
  \/ KeepChoice(t) \/ StartSelection(t) \/ Choose(t)
  \/ EndEmpty(t) \/ Settle(t) \/ Publish(t) \/ Finish(t)
  \/ Fail(t) \/ Crash(t) \/ Backfill(t)

Next ==
  \/ \E t \in Traces : Step(t)
  \/ Loop /\ UNCHANGED <<world, facts, penalties, store, run, faults, torn, before>>

Spec == Init /\ [][Next]_vars

-----------------------------------------------------------------------------
(* Properties *)

\* What a published trace rests on stays as it was published, whatever later runs of
\* that trace do: the recommendations and the evidence that explains them.
PublishedIsFrozen ==
  [][\A t \in Traces : store[t].published =>
       store'[t].published /\ store'[t].evidence = store[t].evidence /\ store'[t].picks = store[t].picks]_vars

\* A score is cut only for a loss that was known on the day of the trace, also when
\* the day is replayed after later days have been run: a published recommendation of
\* an earlier day, with evidence of that keyword and a yield that was visible.
PenaltiesAreEarned ==
  \A t \in Traces : \A row \in store[t].evidence : row.cut =>
    \E u \in Traces : \E other \in store[u].evidence :
      /\ store[u].published
      /\ Day(u) + DelayDays <= Day(t) /\ Day(t) <= Day(u) + LookbackDays + PenaltyDays
      /\ other.symbol \in store[u].picks \cap world.losing
      /\ world.keyword[other.symbol] = world.keyword[row.symbol]

\* A run goes on to recommend with the evidence that its inputs give, stored by itself
\* or by an earlier run of the trace, unless the inputs changed between the
\* fingerprint and the scoring.
EvidenceIsOfInputs ==
  \A t \in Traces \ torn : run[t].pc \in {"select", "selecting", "settle", "publish"} =>
    store[t].evidence = Evidence(run[t].inputs)

\* A stock is recommended on two days in a row only if the first day was published
\* after the recommendations of the second had been chosen: a run that is resumed
\* does not choose again.
RepeatsHaveCause ==
  \A t, u \in Published :
    /\ Day(u) + 1 = Day(t)
    /\ store[t].picks \cap store[u].picks # {}
    => u \notin before[t]
=============================================================================
