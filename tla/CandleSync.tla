------------------------------- MODULE CandleSync -------------------------------
(* The synchronisation of the daily candles                                 *)
(* (src/backend/scripts/sync-stock-history.ts) against the Candle table,    *)
(* the AKTools, Yahoo and Sina sources, and the clock of the exchange.      *)
(*                                                                          *)
(* Day d has two ticks: 2d - 1 while its session is open and 2d after it    *)
(* closed.  A price is the tick at which it was read, at most 2d for a price *)
(* of the session of day d: the candle of day d holds the final price of    *)
(* its day exactly when it is 2d.                                           *)
EXTENDS Integers, FiniteSets, FiniteSetsExt

CONSTANTS
  LastDay,           \* the days of the model are 1 .. LastDay (bound)
  Sessions,          \* the days on which the exchange opens
  Stocks,            \* the stocks, numbered in the order of their symbols
  Trades,            \* the sessions in which a stock trades (it is suspended in the others)
  Commands,          \* the callers of the scripts: the chain of the scheduler, an operator
  Workers,           \* STOCK_HISTORY_AKTOOLS_CONCURRENCY
  BatchSize,         \* INSERT_BATCH_SIZE
  BreakerThreshold,  \* STOCK_HISTORY_BREAKER_THRESHOLD
  MaxFaults          \* failed requests, failed statements and killed processes (bound)

Days == 1 .. LastDay

ASSUME DaysAssumption == LastDay \in Nat \ {0} /\ 1 \in Sessions /\ Sessions \subseteq Days
ASSUME StocksAssumption == /\ Stocks \subseteq Nat \ {0} /\ IsFiniteSet(Stocks) /\ Stocks # {}
                           /\ Trades \in [Stocks -> SUBSET Sessions]
                           /\ \A d \in Sessions : \E s \in Stocks : d \in Trades[s]
ASSUME SyncAssumption == {Workers, BatchSize, BreakerThreshold} \subseteq Nat \ {0} /\ MaxFaults \in Nat

VARIABLES
  now,      \* the tick of the clock
  candle,   \* Candle: the price of a stock on a day, 0 without a row
  sync,     \* the processes of sync-stock-history
  faults,   \* the faults that are left
  blamed    \* history: stocks whose candles were at some time not those of a first part of their
            \* sessions: one was not fetched, not stored, passed over, or of no session

Day == (now + 1) \div 2
Session == Max({d \in Sessions : d <= Day})
Closed(d) == 2 * d <= now

Main == 0
Lines == Stocks \X Days \X (1 .. 2 * LastDay)
NoRows == [w \in Stocks \cup {Main} |-> {}]
NoSync ==
  [pc |-> "idle", mode |-> "incremental", stage |-> "none", start |-> 1, end |-> 1, have |-> [s \in Stocks |-> {}], pending |-> {},
   alive |-> TRUE, calendar |-> "none", days |-> {}, lo |-> 1, hi |-> 1, todo |-> {}, spot |-> {}, covered |-> {},
   price |-> 0, queue |-> {}, writing |-> NoRows, streak |-> 0, failed |-> {}, lost |-> {}]

Least(n, set) == {s \in set : Cardinality({t \in set : t < s}) < n}
At(p, pc) == sync[p].pc = pc
Stored(s) == {d \in Days : candle[s][d] # 0}

\* mutant of SpotDay: the snapshot is stored under the last day of the range
SpotDayOfRange(c) == c.end

\* The day of the snapshot: the last session of the calendar.
SpotDay(c) == Max(c.days)

Blame(set) == blamed' = blamed \cup set
Fault == faults > 0 /\ faults' = faults - 1
Goes(p, c) == sync' = [sync EXCEPT ![p] = c]

-----------------------------------------------------------------------------
(* What a source answers *)

\* The history of a stock: its sessions that have opened, at their price of now.
History(s, lo, hi) ==
  {<<s, d, IF Closed(d) THEN 2 * d ELSE now>> : d \in {d \in Trades[s] : d \in lo .. hi /\ d <= Day}}

\* A snapshot of the market: the price of the session that opened last.
Quote == IF Closed(Session) THEN 2 * Session ELSE now
Quoted == {s \in Stocks : Session \in Trades[s]}

\* The sessions of a range that the history of the probe symbols shows.
Listed(lo, hi) == {d \in Sessions : d \in lo .. hi /\ d <= Day}

-----------------------------------------------------------------------------
(* The range and the calendar *)

\* selectStocksNeedingSync: only a range of one day is decided from the table.
Pending(start, end) == IF start # end THEN Stocks ELSE {s \in Stocks : end \notin Stored(s)}

Loaded(mode, start) ==
  [NoSync EXCEPT !.mode = mode,
                 !.pc = IF Pending(start, Day) = {} THEN "done" ELSE IF mode = "incremental" THEN "probe" ELSE "pool",
                 !.stage = IF mode = "incremental" THEN "none" ELSE "all",
                 !.start = start, !.end = Day, !.lo = start, !.hi = Day,
                 !.have = [s \in Stocks |-> Stored(s) \cap (start .. Day)],
                 !.pending = Pending(start, Day),
                 !.todo = IF mode = "incremental" THEN {} ELSE Pending(start, Day)]

\* resolveDateRange: from the newest candle of any stock to today.
LatestCandle == Max(UNION {Stored(s) : s \in Stocks})

\* A sync that still holds the sessions before the newest candle keeps another
\* one from seeing that they are missing.
Overlooked(start) == {s \in Stocks : \E d \in Trades[s] : d < start /\ d \notin Stored(s)}

Probe(p) ==
  /\ At(p, "probe")
  /\ \/ Goes(p, [sync[p] EXCEPT !.pc = "calendar"]) /\ UNCHANGED faults
     \/ Goes(p, [sync[p] EXCEPT !.pc = "calendar", !.alive = FALSE]) /\ Fault
  /\ UNCHANGED <<now, candle, blamed>>

\* mutant of Gaps: only stocks that have no earlier session of the range
GapsOfNone(c, days) == {s \in Stocks : c.have[s] \cap (days \ {Max(days)}) = {} /\ days # {Max(days)}}

\* Stocks that lack a session before the day of the snapshot.
Gaps(c, days) == {s \in Stocks : \E d \in days \ {Max(days)} : d \notin c.have[s]}

\* The calendar is known: the gaps before its last day are filled stock by stock.
Planned(c, kind, days) ==
  [c EXCEPT !.pc = "pool", !.stage = "gap", !.calendar = kind, !.days = days, !.hi = Max(days) - 1,
            !.todo = Gaps(c, days)]

\* The snapshot path failed: every pending stock is fetched over the whole
\* range, and the failures that the snapshot path has seen are forgotten.
FallBack(c) ==
  [c EXCEPT !.pc = "pool", !.stage = "all", !.lo = c.start, !.hi = c.end, !.todo = c.pending, !.spot = {}, !.failed = {}]

\* Without an answer of AKTools the date of a Sina quote is the whole calendar,
\* if it lies in the range: the sessions before it are not looked at.
Calendar(p) ==
  LET c == sync[p]
  IN /\ At(p, "calendar")
     /\ \/ /\ Listed(c.start, c.end) # {}
           /\ Goes(p, Planned(c, "aktools", Listed(c.start, c.end)))
           /\ UNCHANGED <<faults, blamed>>
        \/ /\ IF Listed(c.start, c.end) # {} THEN Fault ELSE UNCHANGED faults
           /\ \/ /\ Session \in c.start .. c.end
                 /\ Goes(p, Planned(c, "sina", {Session}))
                 /\ Blame({s \in Stocks : \E d \in Trades[s] : d >= c.start /\ d < Session /\ d \notin c.have[s]})
              \/ Goes(p, FallBack(c)) /\ UNCHANGED blamed
     /\ UNCHANGED <<now, candle>>

-----------------------------------------------------------------------------
(* One stock of a pool *)

InFlight(c) == Least(Workers, c.todo)
Awaited(p, s) == /\ sync[p].pc \in {"pool", "tripped"} /\ s \in InFlight(sync[p]) /\ sync[p].writing[s] = {}

\* enqueueRows: a full queue is taken as a whole and written.
Enqueued(c, w, lines) ==
  IF lines # {} /\ Cardinality(c.queue \cup lines) >= BatchSize
  THEN [c EXCEPT !.queue = {}, !.writing[w] = c.queue \cup lines]
  ELSE [c EXCEPT !.queue = @ \cup lines]

\* filterRowsToMissingTradingDays
Missing(c, lines) == {l \in lines : l[2] \notin c.have[l[1]]}

Owning(c, lines) == [c EXCEPT !.have = [s \in Stocks |-> @[s] \cup {l[2] : l \in {m \in lines : m[1] = s}}]]
Leave(c, s) == IF c.writing[s] # {} THEN c ELSE [c EXCEPT !.todo = @ \ {s}]

Answered(c, s, lines) ==
  Leave(Enqueued(Owning([c EXCEPT !.streak = 0], Missing(c, lines)), s, Missing(c, lines)), s)

\* The breaker counts transport errors in a row.  When it trips, the requests
\* that are in flight go on, and nothing else is started or written.
Refused(c, s, transport) ==
  LET streak == IF transport THEN c.streak + 1 ELSE 0
  IN IF streak >= BreakerThreshold
     THEN [c EXCEPT !.streak = streak, !.pc = "tripped", !.todo = InFlight(c) \ {s}]
     ELSE [c EXCEPT !.streak = streak, !.failed = @ \cup {s}, !.todo = @ \ {s}]

\* syncOneStock with fetchRowsWithFallback: rows of AKTools or of Yahoo.  The mode
\* that asks Yahoo alone is content with no rows.
Fetch(p, s) ==
  LET c == sync[p] lines == History(s, c.lo, c.hi)
  IN /\ Awaited(p, s) /\ (lines # {} \/ c.mode = "missing")
     /\ Goes(p, Answered(c, s, lines))
     /\ UNCHANGED <<now, candle, faults, blamed>>

\* Both sources are empty for a stock that was suspended in the whole range; a
\* failure of one is a transport error or not.
FetchFails(p, s) ==
  LET c == sync[p]
  IN /\ Awaited(p, s)
     /\ \/ /\ History(s, c.lo, c.hi) = {} /\ c.mode = "incremental"
           /\ Goes(p, Refused(c, s, FALSE))
           /\ UNCHANGED <<faults, blamed>>
        \/ \E transport \in BOOLEAN :
             /\ Fault
             /\ Goes(p, Refused(c, s, transport))
             /\ Blame(IF \E l \in History(s, c.lo, c.hi) : l[2] \notin c.have[s] THEN {s} ELSE {})
     /\ UNCHANGED <<now, candle>>

-----------------------------------------------------------------------------
(* The table *)

\* createMany with skipDuplicates: the first row of a day stays.
Insert(lines) ==
  [s \in Stocks |-> [d \in Days |->
    IF candle[s][d] = 0 /\ \E l \in lines : l[1] = s /\ l[2] = d
    THEN (CHOOSE l \in lines : l[1] = s /\ l[2] = d)[3] ELSE candle[s][d]]]

Landed(c, w) ==
  LET written == [c EXCEPT !.writing[w] = {}]
  IN IF w = Main THEN IF c.pc = "last" THEN [written EXCEPT !.pc = "done"] ELSE written
     ELSE Leave(written, w)

\* Rows of a stock that wait in the queue since the gaps were filled can be under
\* way in the batch of one worker, and a later row of it in that of another.
Overtaken(c, w) ==
  {s \in Stocks : \E l \in c.writing[w], m \in c.queue \cup UNION {c.writing[v] : v \in (Stocks \cup {Main}) \ {w}} :
                   l[1] = s /\ m[1] = s /\ m[2] < l[2]}

Write(p, w) ==
  LET c == sync[p]
  IN /\ c.writing[w] # {}
     /\ candle' = Insert(c.writing[w])
     /\ Goes(p, Landed(c, w))
     /\ Blame(Overtaken(c, w))
     /\ UNCHANGED <<now, faults>>

\* The rows of the batch are lost, of whichever stock they are: their stocks
\* count as owning them.  A worker reports the failure for its own stock, the
\* loop over the snapshot falls back, and the last write ends the process.
WriteFails(p, w) ==
  LET c == [sync[p] EXCEPT !.writing[w] = {}, !.lost = @ \cup {<<l[1], l[2]>> : l \in sync[p].writing[w]}]
  IN /\ sync[p].writing[w] # {}
     /\ Fault
     /\ Blame({l[1] : l \in sync[p].writing[w]})
     /\ \/ w \in Stocks /\ \E transport \in BOOLEAN : Goes(p, Refused(c, w, transport))
        \/ w = Main /\ Goes(p, IF c.pc = "last" THEN [c EXCEPT !.pc = "failed"] ELSE FallBack(c))
     /\ UNCHANGED <<now, candle>>

-----------------------------------------------------------------------------
(* The snapshot of the market *)

Finished(p, stage) == At(p, "pool") /\ sync[p].stage = stage /\ sync[p].todo = {}

\* Sina answers in batches, and a batch that fails is left out.  Without any row
\* the snapshot of AKTools stands in for it, unless AKTools was found dead.  A quote
\* of a later session goes under the day of the snapshot too.
Snapshot(p) ==
  LET c == sync[p]
      Spot(set) == /\ Goes(p, [c EXCEPT !.pc = "spot", !.spot = set, !.covered = set, !.price = Quote])
                   /\ Blame({s \in set : SpotDay(c) \notin Trades[s]})
  IN /\ Finished(p, "gap")
     /\ \/ Quoted # {} /\ Spot(Quoted) /\ UNCHANGED faults
        \/ \E set \in SUBSET Quoted \ {{}, Quoted} : Spot(set) /\ Fault
        \/ Goes(p, FallBack(c)) /\ Fault /\ UNCHANGED blamed
     /\ UNCHANGED <<now, candle>>

SpotRow(p) ==
  LET c == sync[p]
      s == Min(c.spot)
      row == <<s, SpotDay(c), c.price>>
      rest == [c EXCEPT !.spot = @ \ {s}]
  IN /\ At(p, "spot") /\ c.spot # {} /\ c.writing[Main] = {}
     /\ Goes(p, IF SpotDay(c) \in c.have[s] THEN rest ELSE Enqueued(Owning(rest, {row}), Main, {row}))
     /\ UNCHANGED <<now, candle, faults, blamed>>

\* The stocks without a row of that day get one from their history.
Uncovered(c) == {s \in Stocks \ c.covered : SpotDay(c) \notin c.have[s]}

Complete(p) ==
  LET c == sync[p]
  IN /\ At(p, "spot") /\ c.spot = {} /\ c.writing[Main] = {}
     /\ Goes(p, [c EXCEPT !.pc = "pool", !.stage = "uncovered", !.lo = SpotDay(c), !.hi = SpotDay(c), !.todo = Uncovered(c)])
     /\ UNCHANGED <<now, candle, faults, blamed>>

\* flushQueue, and the report.
Flush(p) ==
  LET c == sync[p]
  IN /\ Finished(p, "uncovered") \/ Finished(p, "all")
     /\ Goes(p, IF c.queue = {} THEN [c EXCEPT !.pc = "done"]
                ELSE [c EXCEPT !.pc = "last", !.queue = {}, !.writing[Main] = c.queue])
     /\ UNCHANGED <<now, candle, faults, blamed>>

\* The process of a tripped breaker ends with its last request; its queue is lost.
Abandon(p) ==
  LET c == sync[p]
  IN /\ At(p, "tripped") /\ c.todo = {}
     /\ Goes(p, [c EXCEPT !.pc = "failed", !.queue = {}, !.lost = @ \cup {<<l[1], l[2]>> : l \in c.queue}])
     /\ Blame(Stocks)
     /\ UNCHANGED <<now, candle, faults>>

SyncStep(p) ==
  \/ Probe(p) \/ Calendar(p) \/ Snapshot(p) \/ SpotRow(p) \/ Complete(p) \/ Flush(p) \/ Abandon(p)
  \/ \E s \in Stocks : Fetch(p, s) \/ FetchFails(p, s)
  \/ \E w \in Stocks \cup {Main} : Write(p, w) \/ WriteFails(p, w)

\* mutant of Rests: only a sync that succeeds is noticed
RestsDone(p) == sync[p].pc \in {"idle", "done"}

\* The process has exited, or there is none.
Rests(p) == sync[p].pc \in {"idle", "done", "failed"}
=============================================================================
