-------------------------------- MODULE Evening ---------------------------------
(* The evening chain: the scheduler of                                      *)
(* src/backend/src/services/mvp-daily-scheduler.ts runs                      *)
(*   sync-stock-history && backfill-yield-records && run-daily-recommendation *)
(* on its evenings, an operator runs the same commands by hand, and both    *)
(* share the candles, the recommendation rows, the refresh ledger and tmp/.  *)
(* Of the daily run its news, its candle check and its recommendation rows  *)
(* are here; the rest of it is in RegistryRun and Publication.              *)
EXTENDS NewsIntake

CONSTANTS
  Scheduled,   \* the days with a run in the evening: weekdays of the schedule table
  Picks,       \* the stocks that a run recommends
  Worlds       \* the circumstances of a behaviour: see World (bound)

Night == "night"
Hand == "hand"
ASSUME CommandsAssumption == Commands = {Night, Hand}
ASSUME ScheduleAssumption == Scheduled \subseteq Days /\ Picks \subseteq Stocks

Works == {"none", "sync", "fill", "news", "daily"}
HandWorks == {"sync", "missing", "fill", "daily"}
World == [from : 1 .. 2 * LastDay, stored : Sessions, asked : SUBSET Sessions, hands : Nat, allowed : SUBSET HandWorks, slow : BOOLEAN,
          daytime : BOOLEAN, faults : 0 .. MaxFaults]
\* from: the tick of the start; stored: the last day with candles; asked: the days
\* that have recommendations by then;
\* hands, allowed: how many and which commands the operator runs; slow: time
\* passes while commands work; daytime: the operator works while the exchange does.
ASSUME WorldsAssumption == Worlds \subseteq World

VARIABLES
  world,
  work,      \* the command that a caller is running
  next,      \* the day of the next scheduled run, 0 beyond the model
  since,     \* the tick at which the chain started
  hands,     \* commands that the operator may still run
  started,   \* history: how often the chain of an evening was started
  excused    \* history: evenings at which a chain was still working, or the scheduler not up

vars == <<now, candle, sync, faults, blamed, rows, fill, ledger, file, intake,
          world, work, next, since, hands, started, excused>>
dataVars == <<now, candle, sync, faults, blamed, rows, fill, ledger, file, intake>>

Earliest(set) == IF set = {} THEN 0 ELSE Min(set)

\* mutant of NextRun: the time of a run counts until its tick is over
NextRunAgain(t) == Earliest({d \in Scheduled : 2 * d >= t})

\* getNextRunForTask: the first scheduled evening after an instant of tick t
\* that is past 20:00 if t is an evening.
NextRun(t) == Earliest({d \in Scheduled : 2 * d > t})

Init ==
  /\ world \in Worlds
  /\ now = world.from
  /\ candle = [s \in Stocks |-> [d \in Days |-> IF d \in Trades[s] /\ d <= world.stored THEN 2 * d ELSE 0]]
  /\ rows = [id \in (world.asked \X Picks) |-> NewRow]
  /\ sync = [p \in Commands |-> NoSync]
  /\ fill = [p \in Commands |-> NoFill]
  /\ intake = [p \in Commands |-> NoIntake]
  /\ faults = world.faults /\ blamed = {}
  /\ ledger = [d \in Sessions |-> "none"]
  /\ file = [n \in Names |-> "none"]
  /\ work = [p \in Commands |-> "none"]
  /\ next = Earliest({d \in Scheduled : 2 * d >= now})
  /\ since = now
  /\ hands = world.hands
  /\ started = [d \in Scheduled |-> 0]
  /\ excused = {d \in Scheduled : 2 * d < now}

Idle(p) == work[p] = "none"
Does(p, what) == work' = [work EXCEPT ![p] = what]
chainVars == <<world, next, since, started, excused>>

-----------------------------------------------------------------------------
(* Time *)

Due == Idle(Night) /\ now = 2 * next

\* The evening of a chain that is still working when 20:00 comes is skipped.
Tick ==
  /\ now < 2 * LastDay /\ ~Due
  /\ world.slow \/ \A p \in Commands : Idle(p)
  /\ now' = now + 1
  /\ excused' = IF ~Idle(Night) /\ since < now /\ now = 2 * Day /\ Day \in Scheduled THEN excused \cup {Day} ELSE excused
  /\ UNCHANGED <<candle, sync, faults, blamed, rows, fill, ledger, file, intake, world, work, next, since, hands, started>>

-----------------------------------------------------------------------------
(* The commands *)

\* The range is taken from the table, whatever another sync has in its queue.
Sync(p, mode, start) ==
  /\ Goes(p, Loaded(mode, start))
  /\ Does(p, "sync")
  /\ Blame(IF \E q \in Commands \ {p} : ~Rests(q) THEN Overlooked(start) ELSE {})
  /\ UNCHANGED <<now, candle, faults, rows, fill, ledger, file, intake>>

Backfill(p) ==
  /\ Select(p) /\ Does(p, "fill")
  /\ UNCHANGED <<now, candle, sync, faults, blamed, ledger, file, intake>>

\* resolveNextWeekdayAsOf with refineAsOfWithTradingCalendar: the next session.
AsOf(t) == Earliest({d \in Sessions : 2 * d - 1 > t})

Daily(p) ==
  /\ StartIntake(p, AsOf(now)) /\ Does(p, "news")
  /\ UNCHANGED <<now, candle, sync, faults, blamed, rows, fill>>

\* The chain goes on with && and ends with the first command that fails.
Ends(p) == Does(p, "none")

\* After the chain the scheduler looks for the next evening.  Its 20:00 may lie
\* before or after the end of a chain of an earlier evening.
Rearmed ==
  \/ next' = NextRun(now) /\ excused' = IF since < now /\ now = 2 * Day /\ Day \in Scheduled THEN excused \cup {Day} ELSE excused
  \/ since < now /\ now = 2 * Day /\ Day \in Scheduled /\ next' = Day /\ UNCHANGED excused

ChainEnds(p) ==
  /\ Ends(p)
  /\ IF p = Night THEN Rearmed ELSE UNCHANGED <<next, excused>>
  /\ UNCHANGED <<world, since, hands, started>>

SyncExits(p) ==
  /\ work[p] = "sync" /\ Rests(p)
  /\ IF p = Night /\ At(p, "done") THEN Backfill(p) /\ UNCHANGED <<chainVars, hands>>
     ELSE ChainEnds(p) /\ UNCHANGED dataVars

FillExits(p) ==
  /\ work[p] = "fill" /\ ~Fills(p)
  /\ IF p = Night /\ fill[p].pc = "done" /\ AsOf(now) # 0 THEN Daily(p) /\ UNCHANGED <<chainVars, hands>>
     ELSE ChainEnds(p) /\ UNCHANGED dataVars

NewsEnds(p) ==
  /\ work[p] = "news" /\ IntakeRests(p)
  /\ IF In(p, "ok") THEN Does(p, "daily") /\ UNCHANGED <<chainVars, hands>> ELSE ChainEnds(p)
  /\ UNCHANGED dataVars

\* market_features, then evidence_score.  The newest candle of any stock has to
\* be of the last session; if Sina does not say which one that is, of the day of
\* asOf, which no candle has.
Recommend(p) ==
  LET asOf == intake[p].asOf
  IN /\ work[p] = "daily"
     /\ \/ /\ LatestCandle >= Session
           /\ rows' = [id \in DOMAIN rows \cup ({asOf} \X Picks) |-> IF id \in DOMAIN rows THEN rows[id] ELSE NewRow]
           /\ UNCHANGED faults
        \/ LatestCandle < Session /\ UNCHANGED <<rows, faults>>
        \/ LatestCandle < asOf /\ Fault /\ UNCHANGED rows
     /\ ChainEnds(p)
     /\ UNCHANGED <<now, candle, sync, blamed, fill, ledger, file, intake>>

-----------------------------------------------------------------------------
(* The scheduler and the operator *)

\* The timer fires.  completedToday would skip a second run of a day that has
\* succeeded; NextRun never comes back to an evening.
Wake ==
  /\ Due
  /\ Sync(Night, "incremental", LatestCandle)
  /\ since' = now
  /\ started' = [started EXCEPT ![Day] = @ + 1]
  /\ UNCHANGED <<world, next, hands, excused>>

HandStarts ==
  /\ Idle(Hand) /\ hands > 0 /\ hands' = hands - 1
  /\ world.daytime \/ now = 2 * Day
  /\ \/ "sync" \in world.allowed /\ Sync(Hand, "incremental", LatestCandle)
     \/ "missing" \in world.allowed /\ Sync(Hand, "missing", 1)
     \/ "fill" \in world.allowed /\ Backfill(Hand)
     \/ "daily" \in world.allowed /\ AsOf(now) # 0 /\ Daily(Hand)
  /\ UNCHANGED chainVars

\* The container of the scheduler is restarted: its chain dies, and the evening
\* is over unless its 20:00 is still to come.
Restart ==
  /\ Fault /\ ~Idle(Night)
  /\ sync' = [sync EXCEPT ![Night] = NoSync]
  /\ fill' = [fill EXCEPT ![Night] = NoFill]
  /\ intake' = [intake EXCEPT ![Night] = NoIntake]
  /\ blamed' = IF work[Night] = "sync" THEN Stocks ELSE blamed
  /\ Ends(Night)
  /\ Rearmed
  /\ UNCHANGED <<now, candle, rows, ledger, file, world, since, hands, started>>

Steps(p) ==
  \/ SyncStep(p) /\ UNCHANGED <<rows, fill, newsVars, chainVars, work, hands>>
  \/ FillStep(p) /\ UNCHANGED <<newsVars, chainVars, work, hands>>
  \/ IntakeStep(p) /\ UNCHANGED <<chainVars, work, hands>>
  \/ SyncExits(p) \/ FillExits(p) \/ NewsEnds(p) \/ Recommend(p)

Next == Tick \/ Wake \/ HandStarts \/ Restart \/ \E p \in Commands : Steps(p)
Spec == Init /\ [][Next]_vars

\* Requests have timeouts, and the timer of the scheduler fires.
Fairness == WF_vars(Wake) /\ \A p \in Commands : WF_vars(Steps(p))
FairSpec == Spec /\ Fairness
-----------------------------------------------------------------------------
(* Properties *)

TypeOK ==
  /\ now \in 1 .. 2 * LastDay
  /\ candle \in [Stocks -> [Days -> 0 .. 2 * LastDay]]
  /\ DOMAIN rows \subseteq Ids /\ \A id \in DOMAIN rows : rows[id] \in Row
  /\ faults \in 0 .. MaxFaults /\ blamed \subseteq Stocks
  /\ \A p \in Commands : /\ sync[p].queue \subseteq Lines /\ sync[p].todo \subseteq Stocks
                         /\ Cardinality(sync[p].queue) < BatchSize
                         /\ sync[p].streak \in 0 .. BreakerThreshold + Workers
  /\ work \in [Commands -> Works] /\ hands \in Nat /\ next \in Scheduled \cup {0}
  /\ \A p \in Commands : /\ work[p] = "fill" => fill[p].pc # "idle"
                         /\ work[p] = "news" => ~In(p, "idle")

\* A sync that ends with exit code 0 and whose calendar came from AKTools has
\* left no session of its range without a candle, for every stock that traded
\* and that it does not report as failed, unless a write of that candle failed.
CleanSyncIsComplete ==
  \A p \in Commands : At(p, "done") /\ sync[p].calendar = "aktools" =>
    \A s \in Stocks \ sync[p].failed : \A d \in sync[p].days \cap Trades[s] :
      candle[s][d] # 0 \/ <<s, d>> \in sync[p].lost

\* When commands run after the close and end before the next session, every
\* stored candle is the final price of its own day.
PricesAreFinal ==
  ~world.slow /\ ~world.daytime =>
    \A s \in Stocks, d \in Days : candle[s][d] # 0 => candle[s][d] = 2 * d /\ d \in Trades[s]

Settled(id) == rows[id].reconciled /\ rows[id].exit[Last] # 0
Sold(s, asOf, h) == Max(Least(h, {d \in Trades[s] : d > asOf}))

\* The yields of a row that no backfill will visit again are those of the right
\* days, unless at some time the candles of its stock had a hole: a sync failed
\* on the stock, two syncs ran at a time, batches landed out of order, candles
\* arrived between the two reads of a row, or a late quote was stored for a
\* suspended day.  Nothing else can freeze a row over a hole in its candles.
SettledYieldsAreRight ==
  \A id \in DOMAIN rows : Settled(id) /\ id[2] \notin blamed =>
    /\ rows[id].base = Max({d \in Trades[id[2]] : d <= id[1]})
    /\ \A h \in Horizons : rows[id].exit[h] = Sold(id[2], id[1], h)

\* A run stops for want of news only if its own request or statement failed, or
\* if it met another run; and only a run that met another one turns the success
\* that the ledger holds into a failure.
IntakeFailsForCause ==
  [][\A p \in Commands :
       /\ In(p, "stop")' /\ ~In(p, "stop") => intake[p].hurt \/ intake[p].met
       /\ \A d \in Sessions : ledger[d] = "success" /\ ledger'[d] = "failed" /\ intake[p] # intake'[p] => intake[p].met]_newsVars

\* Every evening of the schedule has one chain, unless an earlier chain was
\* still working or was killed with the scheduler: none is run twice.
EveningsAreAccounted ==
  \A d \in Scheduled : started[d] <= 1 /\ (2 * d < now => started[d] = 1 \/ d \in excused)

\* The scheduler waits for its chain without a timeout, and gets it back: a chain
\* that has started ends.
ChainsEnd == ~Idle(Night) ~> Idle(Night)
=============================================================================
