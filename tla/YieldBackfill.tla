------------------------------ MODULE YieldBackfill -----------------------------
(* The reconciliation of past recommendations with the candles              *)
(* (src/backend/scripts/backfill-yield-records.ts and the yield functions   *)
(* of src/backend/src/services/backtest-engine.ts).                         *)
(*                                                                          *)
(* A row of RecommendationSnapshot is <<asOf, stock>>.  The yield of a       *)
(* horizon h compares the price of the last candle up to asOf with the one  *)
(* of the h-th candle after it; candles do not change, so the two days say  *)
(* which yield it is.  The YieldRecord rows, which hold the same values and  *)
(* which nothing reads, are left out.                                       *)
EXTENDS CandleSync

CONSTANTS
  Horizons   \* YIELD_HORIZONS

ASSUME HorizonsAssumption == IsFiniteSet(Horizons) /\ Horizons # {} /\ Horizons \subseteq Nat \ {0}

Ids == Sessions \X Stocks
Last == Max(Horizons)

VARIABLES
  rows,   \* RecommendationSnapshot: the rows that exist, with what is reconciled of them
  fill    \* the processes of backfill-yield-records

Row == [base : 0 .. LastDay, exit : [Horizons -> 0 .. LastDay], reconciled : BOOLEAN]
NewRow == [base |-> 0, exit |-> [h \in Horizons |-> 0], reconciled |-> FALSE]
NoFill == [pc |-> "idle", todo |-> {}, clock |-> 1, base |-> {}, future |-> {}, read |-> {}]

Fills(p) == fill[p].pc = "rows"

\* A row is visited until it is reconciled and its last horizon has a candle.
Open == {id \in DOMAIN rows : ~rows[id].reconciled \/ rows[id].exit[Last] = 0}

\* The select of the open rows, and the reference time of the whole run.
Select(p) ==
  /\ ~Fills(p)
  /\ fill' = [fill EXCEPT ![p] = [NoFill EXCEPT !.pc = "rows", !.todo = Open, !.clock = now]]
  /\ UNCHANGED rows

\* Rows are taken from the newest to the oldest asOf.
Newest(ids) == CHOOSE id \in ids : \A other \in ids : other[1] < id[1] \/ (other[1] = id[1] /\ other[2] >= id[2])

\* The two candle reads of a row are in flight together.
UpTo(id) == {d \in Stored(id[2]) : d <= id[1]}
After(id) == {d \in Stored(id[2]) : d > id[1]}

ReadBase(p) ==
  LET id == Newest(fill[p].todo)
  IN /\ Fills(p) /\ fill[p].todo # {} /\ "base" \notin fill[p].read
     /\ fill' = [fill EXCEPT ![p].read = @ \cup {"base"}, ![p].base = UpTo(id)]
     /\ UNCHANGED <<rows, blamed>>

\* Candles that have arrived since the other read do not go with it.
ReadFuture(p) ==
  LET id == Newest(fill[p].todo)
  IN /\ Fills(p) /\ fill[p].todo # {} /\ "future" \notin fill[p].read
     /\ fill' = [fill EXCEPT ![p].read = @ \cup {"future"}, ![p].future = Least(Last, After(id))]
     /\ Blame(IF "base" \in fill[p].read /\ fill[p].base # UpTo(id) THEN {id[2]} ELSE {})
     /\ UNCHANGED rows

\* One visible yield is enough.
Reconciled(exit, clock) == \E h \in Horizons : exit[h] # 0 /\ 2 * exit[h] <= clock

\* mutant of Exits: a missing horizon takes the last candle there is
ExitsFilled(future) ==
  [h \in Horizons |-> IF future = {} THEN 0 ELSE IF Cardinality(future) < h THEN Max(future) ELSE Max(Least(h, future))]

\* buildYieldRecordDrafts: the h-th candle, or nothing.
Exits(future) == [h \in Horizons |-> IF Cardinality(future) < h THEN 0 ELSE Max(Least(h, future))]

\* buildRecommendationSnapshotYieldUpdate: null without a base or a later candle.
Updated(f, id) ==
  IF f.base = {} \/ f.future = {} THEN rows[id]
  ELSE [base |-> Max(f.base), exit |-> Exits(f.future), reconciled |-> Reconciled(Exits(f.future), f.clock)]

Update(p) ==
  LET f == fill[p] id == Newest(f.todo)
  IN /\ Fills(p) /\ f.todo # {} /\ f.read = {"base", "future"}
     /\ rows' = [rows EXCEPT ![id] = Updated(f, id)]
     /\ fill' = [fill EXCEPT ![p].todo = @ \ {id}, ![p].read = {}, ![p].base = {}, ![p].future = {}]

Finish(p) ==
  /\ Fills(p) /\ fill[p].todo = {}
  /\ fill' = [fill EXCEPT ![p].pc = "done"]
  /\ UNCHANGED rows

\* A statement fails: the rows that are done stay.
Break(p) ==
  /\ Fills(p) /\ Fault
  /\ fill' = [fill EXCEPT ![p].pc = "failed"]
  /\ UNCHANGED rows

FillStep(p) ==
  /\ \/ (ReadBase(p) \/ ReadFuture(p)) /\ UNCHANGED faults
     \/ (Update(p) \/ Finish(p)) /\ UNCHANGED <<faults, blamed>>
     \/ Break(p) /\ UNCHANGED blamed
  /\ UNCHANGED <<now, candle, sync>>
=============================================================================
