-------------------------- MODULE AiWorkflowProofs --------------------------
(***************************************************************************)
(* Proofs about AiWorkflow, for every set of news, sessions, workers and   *)
(* items, every budget and every lease duration.                           *)
(*                                                                         *)
(* The first part is proved of Spec, stalled and crashed sessions          *)
(* included.                                                               *)
(*                                                                         *)
(* The second part is the safety of AiWorkflow: no news is lost, doubled,  *)
(* overpaid or announced too early, and the workflow implements            *)
(* ExtractionContract.  Both hold in two worlds: of PunctualSpec, where    *)
(* processes crash but do not stall, and of Spec with one worker per       *)
(* session, where they stall as well.  The one thing that differs is why a *)
(* worker never shares its row: everything else is proved once, from Calm. *)
(***************************************************************************)
EXTENDS AiWorkflowWorlds, TLAPS

ItemRow == [status : ItemStatus, root : Items, news : SUBSET News,
            owner : Owner, ttl : Ttl, requests : 0 .. MaxRequests]
\* A worker between its claim and the end of its task has an item.
JobRow == {j \in [pc : JobPc, item : Items \cup {None}, news : SUBSET News] :
             j.pc \notin {"idle", "exited"} => j.item \in Items}
SessRow == [pc : SessPc, aborted : BOOLEAN, result : WfStatus]
WfRow == [status : WfStatus, owner : Owner, ttl : Ttl, prepared : BOOLEAN]

-----------------------------------------------------------------------------
(* The values that rows take *)

\* The values written into a row are in its column types.
LEMMA Columns ==
  /\ RowStatus \subseteq ItemStatus
  /\ "absent" \in ItemStatus /\ "deleted" \in ItemStatus
  /\ {"PENDING", "RUNNING", "WAITING", "PAUSED", "NEEDS_ATTENTION", "SPLIT", "SUCCESS"} = RowStatus
  /\ None \in Owner /\ Sessions \subseteq Owner
  /\ -1 \in Ttl /\ LeaseTicks \in Ttl
  /\ 0 \in 0 .. MaxRequests
BY RequestsAssumption, LeaseAssumption DEF ItemStatus, RowStatus, Owner, Ttl

\* A period less is still a time to live.
LEMMA ElapseType == ASSUME NEW t \in Ttl PROVE Elapse(t) \in Ttl
BY LeaseAssumption DEF Elapse, Ttl

\* Changing status, owner and lease, the batch, or the counter of a row.
LEMMA RowLease ==
  ASSUME NEW row \in ItemRow, NEW st \in ItemStatus, NEW o \in Owner, NEW t \in Ttl
  PROVE  /\ [row EXCEPT !.status = st, !.owner = o, !.ttl = t] \in ItemRow
         /\ [row EXCEPT !.status = st] \in ItemRow
         /\ [row EXCEPT !.ttl = t] \in ItemRow
BY DEF ItemRow

\* A row may take any batch, also when a repack deletes it.
LEMMA RowBatch ==
  ASSUME NEW row \in ItemRow, NEW S \in SUBSET News
  PROVE  /\ [row EXCEPT !.news = S] \in ItemRow
         /\ [row EXCEPT !.status = "deleted", !.news = S] \in ItemRow
BY Columns DEF ItemRow

\* A request within the budget keeps the counter in its range.
LEMMA RowCount ==
  ASSUME NEW row \in ItemRow, row.requests < MaxRequests
  PROVE  [row EXCEPT !.requests = @ + 1] \in ItemRow
<1>1. row.requests + 1 \in 0 .. MaxRequests
  BY RequestsAssumption DEF ItemRow
<1> QED
  BY <1>1 DEF ItemRow

\* Moving a session on, or aborting it.
LEMMA SessMove ==
  ASSUME NEW row \in SessRow, NEW pc \in SessPc, NEW st \in WfStatus
  PROVE  /\ [row EXCEPT !.pc = pc, !.result = st] \in SessRow
         /\ [row EXCEPT !.pc = pc] \in SessRow
         /\ [row EXCEPT !.aborted = TRUE] \in SessRow
         /\ [row EXCEPT !.pc = pc, !.aborted = TRUE] \in SessRow
BY DEF SessRow

\* Moving a worker on.
LEMMA JobMove ==
  ASSUME NEW row \in JobRow, NEW pc \in JobPc, row.item \in Items
  PROVE  [row EXCEPT !.pc = pc] \in JobRow
BY DEF JobRow

\* A worker without an item.
LEMMA NoJobType == NoJob \in JobRow /\ Exited \in JobRow
BY DEF NoJob, Exited, JobRow, JobPc

\* A new row, at the identity of its root or of an existing one, is a row.
LEMMA NewRowType ==
  ASSUME NEW r \in Items, NEW S \in SUBSET News
  PROVE  NewRow(r, S) \in ItemRow
BY Columns DEF NewRow, ItemRow

-----------------------------------------------------------------------------
(* The item table *)

Table == [Items -> ItemRow]

\* Parking an item keeps the table well typed.
LEMMA ParkType ==
  ASSUME item \in Table, NEW i \in Items, NEW st \in RowStatus
  PROVE  Park(i, st) \in Table
<1> DEFINE row == [item[i] EXCEPT !.status = st, !.owner = None, !.ttl = -1]
<1>1. row \in ItemRow
  BY Columns, RowLease DEF Table
<1>2. Park(i, st) = [item EXCEPT ![i] = row]
  BY DEF Park
<1> QED
  BY <1>1, <1>2 DEF Table

\* So does every repacking of an item that a claim may choose.
LEMMA RepackType ==
  ASSUME item \in Table, NEW i \in Items, NEW rows \in Repackings(i)
  PROVE  rows \in Table
<1>1. CASE rows = item
  BY <1>1
<1>2. ASSUME NEW more \in Absorbable(i), rows = Absorb(i, more)
      PROVE  rows \in Table
  <2>1. more \in SUBSET News
    BY DEF Absorbable, ItemRow, Table
  <2>2. ASSUME NEW j \in Items
        PROVE  Absorb(i, more)[j] \in ItemRow
    <3> DEFINE old == item[j]
    <3>1. old \in ItemRow /\ old.news \in SUBSET News
      BY DEF Table, ItemRow
    <3>2. /\ [old EXCEPT !.news = @ \cup more] \in ItemRow
          /\ [old EXCEPT !.status = "deleted", !.news = {}] \in ItemRow
          /\ [old EXCEPT !.news = @ \ more] \in ItemRow
      <4>1. old.news \cup more \in SUBSET News /\ old.news \ more \in SUBSET News /\ {} \in SUBSET News
        BY <3>1, <2>1
      <4> QED
        BY <3>1, <4>1, RowBatch
    <3> QED
      BY <3>1, <3>2 DEF Absorb
  <2>3. Absorb(i, more) = [j \in Items |-> Absorb(i, more)[j]]
    BY DEF Absorb
  <2> QED
    BY <1>2, <2>2, <2>3 DEF Table
<1>3. ASSUME NEW head \in (SUBSET item[i].news) \ {{}, item[i].news}, NEW new \in Fresh,
             rows = CutOff(i, head, new)
      PROVE  rows \in Table
  <2>1. new \in Items /\ item[i] \in ItemRow /\ item[i].news \in SUBSET News
    BY DEF Fresh, ItemRow, Table
  <2>2. NewRow(new, item[i].news \ head) \in ItemRow
    BY <2>1, NewRowType
  <2>3. [item[i] EXCEPT !.news = head] \in ItemRow
    BY <2>1, RowBatch
  <2>4. rows = [[item EXCEPT ![i] = [item[i] EXCEPT !.news = head]]
                  EXCEPT ![new] = NewRow(new, item[i].news \ head)]
    BY <1>3 DEF CutOff
  <2> QED
    BY <2>1, <2>2, <2>3, <2>4 DEF Table
<1> QED
  BY <1>1, <1>2, <1>3 DEF Repackings

-----------------------------------------------------------------------------
(* Type correctness *)

Types ==
  /\ wf \in WfRow
  /\ item \in Table
  /\ sess \in [Sessions -> SessRow]
  /\ job \in [Sessions -> [Workers -> JobRow]]
  /\ commits \in [News -> Nat]
  /\ paid \in [News -> Nat]

\* Types, written for the proofs, gives the type invariant of the module.
LEMMA TypesGiveTypeOK == Types => TypeOK
BY DEF Types, TypeOK, Table, ItemRow, WfRow, SessRow, JobRow

\* An empty table has its types.
LEMMA InitType == Init => Types
<1> SUFFICES ASSUME Init PROVE Types
  OBVIOUS
<1>1. item \in Table
  <2>1. ASSUME NEW i \in Items PROVE [NewRow(i, {}) EXCEPT !.status = "absent"] \in ItemRow
    BY Columns, NewRowType, RowLease
  <2> QED
    BY <2>1 DEF Init, Table
<1>2. wf \in WfRow
  BY Columns DEF Init, WfRow, WfStatus
<1>3. sess \in [Sessions -> SessRow]
  BY DEF Init, SessRow, SessPc, WfStatus
<1>4. job \in [Sessions -> [Workers -> JobRow]]
  BY NoJobType DEF Init
<1>5. commits \in [News -> Nat] /\ paid \in [News -> Nat]
  BY DEF Init
<1> QED
  BY <1>1, <1>2, <1>3, <1>4, <1>5 DEF Types

\* The steps of a session other than planning write the columns they may.
LEMMA SessionType ==
  ASSUME Types, NEW s \in Sessions,
         \/ Start(s) \/ Renew(s) \/ Abort(s) \/ Crash(s)
         \/ PrepareFails(s) \/ Settle(s) \/ MarkComplete(s) \/ Leave(s)
         \/ CloseTasks(s) \/ CloseWorkflow(s)
  PROVE  Types'
<1> USE DEF Types
<1>1. CASE Start(s)
  <2>1. wf' \in WfRow
    BY <1>1, Columns DEF Start, WfRow, WfStatus
  <2>2. sess' \in [Sessions -> SessRow]
    BY <1>1 DEF Start, SessRow, SessPc
  <2> QED
    BY <1>1, <2>1, <2>2 DEF Start
<1>2. CASE Renew(s)
  <2>1. wf' \in WfRow
    BY <1>2, Columns DEF Renew, WfRow
  <2>2. item' \in Table
    <3>1. ASSUME NEW i \in Items PROVE item[i] \in ItemRow /\ [item[i] EXCEPT !.ttl = LeaseTicks] \in ItemRow
      BY Columns, RowLease DEF Table
    <3> QED
      BY <1>2, <3>1 DEF Renew, Table
  <2>3. sess' \in [Sessions -> SessRow]
    BY <1>2 DEF Renew, SessRow
  <2> QED
    BY <1>2, <2>1, <2>2, <2>3 DEF Renew
<1>3. CASE Abort(s)
  <2>1. sess' \in [Sessions -> SessRow]
    BY <1>3 DEF Abort, SessRow
  <2> QED
    BY <1>3, <2>1 DEF Abort
<1>4. CASE Crash(s)
  <2>1. sess' \in [Sessions -> SessRow]
    <3>1. sess' = [sess EXCEPT ![s] = [sess[s] EXCEPT !.pc = "dead", !.aborted = TRUE]]
      BY <1>4 DEF Crash
    <3>2. "dead" \in SessPc /\ "PAUSED" \in WfStatus
      BY DEF SessPc, WfStatus
    <3> QED
      BY <3>1, <3>2, SessMove
  <2>2. job' \in [Sessions -> [Workers -> JobRow]]
    BY <1>4, NoJobType DEF Crash
  <2> QED
    BY <1>4, <2>1, <2>2 DEF Crash
<1>5. CASE PrepareFails(s) \/ Settle(s) \/ Leave(s)
  <2>1. PICK pc \in SessPc, st \in WfStatus :
          sess' = [sess EXCEPT ![s] = [sess[s] EXCEPT !.pc = pc, !.result = st]]
    <3>1. CASE PrepareFails(s)
      <4>1. PICK st \in {"NEEDS_ATTENTION", "PAUSED"} :
              sess' = [sess EXCEPT ![s] = [sess[s] EXCEPT !.pc = "failing", !.result = st]]
        BY <3>1 DEF PrepareFails
      <4> QED
        BY <4>1 DEF SessPc, WfStatus
    <3>2. CASE Settle(s)
      BY <3>2 DEF Settle, SessPc, WfStatus
    <3>3. CASE Leave(s)
      <4>1. PICK st \in {"PAUSED", "AI_COMPLETE", "FAILED"} :
              sess' = [sess EXCEPT ![s] = [sess[s] EXCEPT !.pc = "failing", !.result = st]]
        BY <3>3 DEF Leave
      <4> QED
        BY <4>1 DEF SessPc, WfStatus
    <3> QED
      BY <1>5, <3>1, <3>2, <3>3
  <2>2. sess' \in [Sessions -> SessRow]
    BY <2>1, SessMove
  <2> QED
    BY <1>5, <2>2 DEF PrepareFails, Settle, Leave
<1>6. CASE MarkComplete(s) \/ CloseWorkflow(s)
  <2>1. wf' \in WfRow
    BY <1>6, Columns DEF MarkComplete, CloseWorkflow, WfRow, WfStatus, SessRow
  <2>2. sess' \in [Sessions -> SessRow]
    BY <1>6 DEF MarkComplete, CloseWorkflow, SessRow, SessPc
  <2> QED
    BY <1>6, <2>1, <2>2 DEF MarkComplete, CloseWorkflow
<1>7. CASE CloseTasks(s)
  <2>1. item' \in Table
    <3>1. ASSUME NEW i \in Items
          PROVE  /\ item[i] \in ItemRow
                 /\ [item[i] EXCEPT !.status = "PAUSED", !.owner = None, !.ttl = -1] \in ItemRow
      BY Columns, RowLease DEF Table
    <3> QED
      BY <1>7, <3>1 DEF CloseTasks, Table
  <2>2. sess' \in [Sessions -> SessRow]
    <3>1. sess' = [sess EXCEPT ![s] = [sess[s] EXCEPT !.pc = "closing", !.aborted = TRUE]]
      BY <1>7 DEF CloseTasks
    <3>2. "closing" \in SessPc /\ "PAUSED" \in WfStatus
      BY DEF SessPc, WfStatus
    <3> QED
      BY <3>1, <3>2, SessMove
  <2> QED
    BY <1>7, <2>1, <2>2 DEF CloseTasks
<1> QED
  BY <1>1, <1>2, <1>3, <1>4, <1>5, <1>6, <1>7

\* Planning inserts rows or puts rows back.
LEMMA PrepareType ==
  ASSUME Types, NEW s \in Sessions, Prepare(s)
  PROVE  Types'
<1> USE DEF Types
<1>1. item' \in Table
  <2>1. ASSUME NEW batch \in [Fresh -> SUBSET {n \in News : commits[n] = 0}]
        PROVE  Planned(batch) \in Table
    <3>1. ASSUME NEW i \in Fresh PROVE NewRow(i, batch[i]) \in ItemRow
      BY NewRowType DEF Fresh
    <3> QED
      BY <3>1 DEF Planned, Table
  <2>2. Requeued \in Table
    <3>1. ASSUME NEW i \in Items
          PROVE  /\ item[i] \in ItemRow
                 /\ [item[i] EXCEPT !.status = "PENDING", !.owner = None, !.ttl = -1] \in ItemRow
      BY Columns, RowLease DEF Table
    <3> QED
      BY <3>1 DEF Requeued, Table
  <2> QED
    BY <2>1, <2>2 DEF Prepare
<1>2. wf' \in WfRow
  BY DEF Prepare, WfRow
<1>3. sess' \in [Sessions -> SessRow]
  BY DEF Prepare, SessRow, SessPc
<1>4. commits' \in [News -> Nat]
  BY DEF Prepare
<1> QED
  BY <1>1, <1>2, <1>3, <1>4 DEF Prepare

\* A worker that takes, keeps or drops an item moves within its types.
LEMMA GotoType ==
  ASSUME Types, NEW s \in Sessions, NEW w \in Workers, NEW pc \in JobPc,
         job[s][w].pc \notin {"idle", "exited"}, Goto(s, w, pc)
  PROVE  job' \in [Sessions -> [Workers -> JobRow]]
<1> DEFINE moved == [job[s][w] EXCEPT !.pc = pc]
<1>1. job[s][w] \in JobRow /\ job[s][w].item \in Items
  BY DEF Types, JobRow
<1>2. moved \in JobRow
  BY <1>1, JobMove
<1>3. job' = [job EXCEPT ![s] = [job[s] EXCEPT ![w] = moved]]
  BY DEF Goto
<1> QED
  BY <1>2, <1>3 DEF Types

\* A step that replaces the memory of one worker keeps the table of jobs.
LEMMA SetJobType ==
  ASSUME Types, NEW s \in Sessions, NEW w \in Workers, NEW j \in JobRow, SetJob(s, w, j)
  PROVE  job' \in [Sessions -> [Workers -> JobRow]]
<1>1. job' = [job EXCEPT ![s] = [job[s] EXCEPT ![w] = j]]
  BY DEF SetJob
<1> QED
  BY <1>1 DEF Types

\* The catch block of a worker keeps the types.
LEMMA CatchType ==
  ASSUME Types, NEW s \in Sessions, NEW w \in Workers, NEW kind,
         job[s][w].pc \notin {"idle", "exited"}, Catch(s, w, kind)
  PROVE  /\ job' \in [Sessions -> [Workers -> JobRow]]
         /\ sess' \in [Sessions -> SessRow]
<1>1. CASE SetJob(s, w, Exited) /\ sess' = [sess EXCEPT ![s].aborted = TRUE]
  BY <1>1, SetJobType, NoJobType DEF Types, SessRow
<1>2. CASE Goto(s, w, "split") /\ sess' = sess
  BY <1>2, GotoType DEF Types, JobPc
<1>3. CASE Goto(s, w, "attention") /\ sess' = sess
  BY <1>3, GotoType DEF Types, JobPc
<1> QED
  BY <1>1, <1>2, <1>3 DEF Catch

\* What the steps of a worker write.
LEMMA ClaimType ==
  ASSUME Types, NEW s \in Sessions, NEW w \in Workers,
         ClaimTask(s, w) \/ ClaimFails(s, w) \/ NoTask(s, w)
  PROVE  Types'
<1>1. CASE ClaimTask(s, w)
  <2> PICK i \in Items : Claimable(i) /\ \E rows \in Repackings(i) :
          /\ item' = [rows EXCEPT ![i].status = "RUNNING", ![i].owner = s, ![i].ttl = LeaseTicks]
          /\ SetJob(s, w, [pc |-> "resolve", item |-> i, news |-> rows[i].news])
    BY <1>1 DEF ClaimTask
  <2>1. PICK rows \in Repackings(i) :
          /\ item' = [rows EXCEPT ![i].status = "RUNNING", ![i].owner = s, ![i].ttl = LeaseTicks]
          /\ SetJob(s, w, [pc |-> "resolve", item |-> i, news |-> rows[i].news])
    OBVIOUS
  <2>2. rows \in Table
    BY RepackType DEF Types
  <2>3. item' \in Table
    <3>1. [rows[i] EXCEPT !.status = "RUNNING", !.owner = s, !.ttl = LeaseTicks] \in ItemRow
      BY <2>2, Columns, RowLease DEF Table
    <3>2. item' = [rows EXCEPT ![i] = [rows[i] EXCEPT !.status = "RUNNING", !.owner = s, !.ttl = LeaseTicks]]
      BY <2>1
    <3> QED
      BY <2>2, <3>1, <3>2 DEF Table
  <2>4. [pc |-> "resolve", item |-> i, news |-> rows[i].news] \in JobRow
    BY <2>2 DEF Table, ItemRow, JobRow, JobPc
  <2>5. job' \in [Sessions -> [Workers -> JobRow]]
    BY <2>1, <2>4, SetJobType
  <2> QED
    BY <1>1, <2>3, <2>5 DEF ClaimTask, Types
<1>2. CASE ClaimFails(s, w) \/ NoTask(s, w)
  <2>1. job' \in [Sessions -> [Workers -> JobRow]]
    BY <1>2, SetJobType, NoJobType DEF ClaimFails, NoTask
  <2>2. sess' \in [Sessions -> SessRow]
    BY <1>2 DEF ClaimFails, NoTask, Types, SessRow
  <2> QED
    BY <1>2, <2>1, <2>2 DEF ClaimFails, NoTask, Types
<1> QED
  BY <1>1, <1>2

\* The steps from the cache to the answer keep the types.
LEMMA RequestType ==
  ASSUME Types, NEW s \in Sessions, NEW w \in Workers,
         Resolve(s, w) \/ Waiting(s, w) \/ Reserve(s, w) \/ NoModel(s, w) \/ Reply(s, w)
  PROVE  Types'
<1>1. CASE Resolve(s, w) \/ NoModel(s, w) \/ Reply(s, w)
  <2>1. job[s][w].pc \notin {"idle", "exited"}
    BY <1>1 DEF Resolve, NoModel, Reply, At
  <2>2. \/ \E kind \in {"attention", "pause", "split"} : Catch(s, w, kind)
        \/ sess' = sess /\ \E pc \in {"commit", "request"} : Goto(s, w, pc)
    BY <1>1 DEF Resolve, NoModel, Reply
  <2>3. job' \in [Sessions -> [Workers -> JobRow]] /\ sess' \in [Sessions -> SessRow]
    <3>1. {"commit", "request"} \subseteq JobPc
      BY DEF JobPc
    <3> QED
      BY <2>1, <2>2, <3>1, CatchType, GotoType DEF Types
  <2> QED
    BY <1>1, <2>3 DEF Resolve, NoModel, Reply, Types
<1>2. CASE Waiting(s, w)
  <2>1. item' \in Table
    <3>1. ASSUME NEW i \in Items PROVE [item[i] EXCEPT !.status = "WAITING"] \in ItemRow
      <4>1. item[i] \in ItemRow /\ "WAITING" \in ItemStatus
        BY Columns DEF Types, Table
      <4> QED
        BY <4>1, RowLease, Columns
    <3>2. job[s][w].item \in Items
      BY <1>2 DEF Waiting, At, Types, JobRow
    <3> QED
      BY <1>2, <3>1, <3>2 DEF Waiting, Types, Table
  <2> QED
    BY <1>2, <2>1 DEF Waiting, Types
<1>3. CASE Reserve(s, w)
  <2> DEFINE i == job[s][w].item
             r == item[i].root
  <2>1. job[s][w].pc \notin {"idle", "exited"} /\ i \in Items
    BY <1>3 DEF Reserve, At, Types, JobRow
  <2>2. CASE /\ HasBudget(r)
             /\ item' = [item EXCEPT ![r].requests = @ + 1, ![i].status = "RUNNING"]
             /\ paid' = Bump(paid, job[s][w].news)
             /\ Goto(s, w, "sent")
             /\ sess' = sess
             /\ UNCHANGED <<wf, commits>>
    <3> DEFINE t == [item EXCEPT ![r] = [item[r] EXCEPT !.requests = @ + 1]]
    <3>1. t \in Table
      BY <2>2, RowCount DEF HasBudget, Rows, Types, Table
    <3>2. item' = [t EXCEPT ![i] = [t[i] EXCEPT !.status = "RUNNING"]]
      BY <2>2
    <3>3. [t[i] EXCEPT !.status = "RUNNING"] \in ItemRow
      <4>1. t[i] \in ItemRow
        BY <2>1, <3>1 DEF Table
      <4> HIDE DEF t
      <4> QED
        BY <4>1, Columns, RowLease
    <3>4. item' \in Table
      <4> HIDE DEF t
      <4> QED
        BY <2>1, <3>1, <3>2, <3>3 DEF Table
    <3>5. job' \in [Sessions -> [Workers -> JobRow]]
      BY <2>1, <2>2, GotoType DEF JobPc
    <3>6. paid' \in [News -> Nat]
      <4>1. paid' = Bump(paid, job[s][w].news) /\ paid \in [News -> Nat]
        BY <2>2 DEF Types
      <4> QED
        BY <4>1 DEF Bump
    <3> QED
      BY <2>2, <3>4, <3>5, <3>6 DEF Types
  <2>3. CASE /\ \E kind \in {"attention", "pause"} : Catch(s, w, kind)
             /\ UNCHANGED <<wf, item, commits, paid>>
    BY <2>1, <2>3, CatchType DEF Types
  <2> QED
    BY <1>3, <2>2, <2>3 DEF Reserve
<1> QED
  BY <1>1, <1>2, <1>3

\* The ways to finish a task keep the types.
LEMMA OutcomeType ==
  ASSUME Types, NEW s \in Sessions, NEW w \in Workers,
         Commit(s, w) \/ StoreFails(s, w) \/ Split(s, w) \/ NeedsAttention(s, w)
  PROVE  Types'
<1> DEFINE i == job[s][w].item
<1>1. job[s][w].pc \notin {"idle", "exited"} /\ i \in Items /\ job[s][w].news \in SUBSET News
  BY DEF Commit, StoreFails, Split, NeedsAttention, At, Types, JobRow
<1>2. \A st \in RowStatus : Park(i, st) \in Table
  BY <1>1, ParkType DEF Types
<1>3. CASE Commit(s, w)
  <2>1. CASE /\ item' = Park(i, "SUCCESS")
             /\ commits' = Bump(commits, job[s][w].news)
             /\ SetJob(s, w, NoJob)
             /\ sess' = sess
    <3>1. commits' \in [News -> Nat]
      BY <2>1 DEF Bump, Types
    <3>2. item' \in Table
      BY <2>1, <1>2, Columns
    <3>3. job' \in [Sessions -> [Workers -> JobRow]]
      BY <2>1, SetJobType, NoJobType
    <3> QED
      BY <1>3, <2>1, <3>1, <3>2, <3>3 DEF Commit, Types
  <2>2. CASE Catch(s, w, "pause") /\ UNCHANGED <<item, commits>>
    BY <1>1, <1>3, <2>2, CatchType DEF Commit, Types
  <2> QED
    BY <1>3, <2>1, <2>2 DEF Commit
<1>4. CASE StoreFails(s, w)
  BY <1>1, <1>4, CatchType DEF StoreFails, Types
<1>5. CASE Split(s, w)
  <2>1. ASSUME NEW first \in Halves(job[s][w].news), NEW a \in Fresh, NEW b \in Fresh,
               item' = [Park(i, "SPLIT") EXCEPT ![a] = NewRow(item[i].root, first),
                                                ![b] = NewRow(item[i].root, job[s][w].news \ first)]
        PROVE  item' \in Table
    <3>1. first \in SUBSET News /\ job[s][w].news \ first \in SUBSET News
      BY <1>1 DEF Halves
    <3>2. item[i].root \in Items
      BY <1>1 DEF Types, Table, ItemRow
    <3>3. /\ NewRow(item[i].root, first) \in ItemRow
          /\ NewRow(item[i].root, job[s][w].news \ first) \in ItemRow
      BY <3>1, <3>2, NewRowType
    <3> QED
      BY <1>2, <2>1, <3>3, Columns DEF Table, Fresh
  <2>2. item' \in Table
    BY <1>5, <2>1 DEF Split, Types
  <2>3. job' \in [Sessions -> [Workers -> JobRow]]
    BY <1>5, SetJobType, NoJobType DEF Split
  <2>4. sess' \in [Sessions -> SessRow]
    BY <1>5 DEF Split, Types, SessRow
  <2> QED
    BY <1>5, <2>2, <2>3, <2>4 DEF Split, Types
<1>6. CASE NeedsAttention(s, w)
  <2>1. item' \in Table
    BY <1>2, <1>6, Columns DEF NeedsAttention, Types
  <2>2. job' \in [Sessions -> [Workers -> JobRow]]
    BY <1>6, SetJobType, NoJobType DEF NeedsAttention
  <2> QED
    BY <1>6, <2>1, <2>2 DEF NeedsAttention, Types
<1> QED
  BY <1>3, <1>4, <1>5, <1>6

\* Passing time keeps the types.
LEMMA TickType ==
  ASSUME Types, Tick
  PROVE  Types'
<1>1. wf' \in WfRow
  BY ElapseType DEF Tick, Types, WfRow
<1>2. item' \in Table
  <2>1. ASSUME NEW i \in Items PROVE [item[i] EXCEPT !.ttl = Elapse(@)] \in ItemRow
    <3>1. item[i] \in ItemRow /\ Elapse(item[i].ttl) \in Ttl
      BY ElapseType DEF Types, Table, ItemRow
    <3> QED
      BY <3>1 DEF ItemRow
  <2> QED
    BY <2>1 DEF Tick, Table
<1> QED
  BY <1>1, <1>2 DEF Tick, Types

\* Every step keeps the types.
LEMMA StepType == Types /\ [Next]_vars => Types'
<1>1. ASSUME Types, NEW s \in Sessions, SessionStep(s) \/ Start(s) \/ Renew(s) \/ Abort(s) \/ Crash(s)
      PROVE  Types'
  BY <1>1, SessionType, PrepareType DEF SessionStep
<1>2. ASSUME Types, NEW s \in Sessions, NEW w \in Workers, WorkerStep(s, w)
      PROVE  Types'
  BY <1>2, ClaimType, RequestType, OutcomeType DEF WorkerStep
<1>3. ASSUME Types, UNCHANGED vars PROVE Types'
  BY <1>3 DEF Types, vars
<1> QED
  BY <1>1, <1>2, <1>3, TickType DEF Next

\* Every reachable state is well typed: no handler writes a value that the
\* columns and the program counters do not have (TypeOK).
THEOREM TypeCorrect == Spec => []TypeOK
<1>1. Spec => []Types
  BY InitType, StepType, PTL DEF Spec
<1> QED
  BY <1>1, TypesGiveTypeOK, PTL

-----------------------------------------------------------------------------
(* Roots stay, finished tasks stay finished *)

\* Only a row that a worker holds has an owner.  So a zombie, whose item was
\* reset, split or committed meanwhile, fails every "owner = me" condition.
OwnersWork ==
  \A i \in Items : item[i].owner # None => item[i].status \in {"RUNNING", "WAITING"}

\* A row is its own root or descends from a split one.
ChildrenOfSplit ==
  \A i \in Rows : item[i].root = i \/ item[item[i].root].status = "SPLIT"

Inv == Types /\ OwnersWork /\ ChildrenOfSplit

\* The invariant holds of an empty table.
LEMMA InitInv == Init => Inv
<1> SUFFICES ASSUME Init PROVE Inv
  OBVIOUS
<1>1. \A i \in Items : item[i].owner = None /\ item[i].status = "absent"
  BY DEF Init, NewRow
<1> QED
  BY <1>1, InitType DEF Inv, OwnersWork, ChildrenOfSplit, Rows, RowStatus

\* What any step does to one row.
RowStep(i) ==
  /\ item[i].status = "SPLIT" => item'[i].status = "SPLIT"
  /\ item[i].status = "SUCCESS" => item'[i].status = "SUCCESS" /\ item'[i].news = item[i].news
  /\ item'[i].status \in RowStatus =>
       \/ item[i].status \in RowStatus /\ item'[i].root = item[i].root
       \/ item'[i].root = i
       \/ item'[item'[i].root].status = "SPLIT"
  /\ item'[i].owner # None => item'[i].status \in {"RUNNING", "WAITING"}

\* A row that is not written.
LEMMA KeptRow ==
  ASSUME Inv, NEW i \in Items, item'[i] = item[i]
  PROVE  RowStep(i)
BY DEF Inv, Types, Table, ItemRow, OwnersWork, RowStep

\* Planning adds rows, a resume puts back only what is not finished.
LEMMA PrepareRow ==
  ASSUME Inv, NEW s \in Sessions, Prepare(s), NEW i \in Items
  PROVE  RowStep(i)
<1>1. ASSUME NEW batch, item' = Planned(batch) PROVE RowStep(i)
  <2>1. CASE i \in Fresh /\ batch[i] # {}
    <3>1. item'[i] = NewRow(i, batch[i]) /\ item[i].status = "absent"
      BY <1>1, <2>1 DEF Planned, Fresh
    <3> QED
      BY <3>1 DEF NewRow, RowStep
  <2>2. CASE ~(i \in Fresh /\ batch[i] # {})
    BY <1>1, <2>2, KeptRow DEF Planned
  <2> QED
    BY <2>1, <2>2
<1>2. ASSUME item' = Requeued PROVE RowStep(i)
  <2>1. CASE \/ item[i].status \in {"PAUSED", "WAITING", "NEEDS_ATTENTION"}
             \/ item[i].status = "RUNNING" /\ Expired(item[i].ttl)
    <3>1. item'[i] = [item[i] EXCEPT !.status = "PENDING", !.owner = None, !.ttl = -1]
      BY <1>2, <2>1 DEF Requeued
    <3>2. item[i] \in ItemRow
      BY DEF Inv, Types, Table
    <3> QED
      BY <2>1, <3>1, <3>2 DEF RowStep, ItemRow, RowStatus
  <2>2. CASE ~(\/ item[i].status \in {"PAUSED", "WAITING", "NEEDS_ATTENTION"}
               \/ item[i].status = "RUNNING" /\ Expired(item[i].ttl))
    BY <1>2, <2>2, KeptRow DEF Requeued
  <2> QED
    BY <2>1, <2>2
<1> QED
  BY <1>1, <1>2 DEF Prepare

\* The heartbeat and close touch only rows that are held.
LEMMA SessionRow ==
  ASSUME Inv, NEW s \in Sessions, NEW i \in Items, Renew(s) \/ CloseTasks(s)
  PROVE  RowStep(i)
<1>1. item[i] \in ItemRow
  BY DEF Inv, Types, Table
<1>2. CASE item'[i] = [item[i] EXCEPT !.ttl = LeaseTicks]
  BY <1>1, <1>2 DEF RowStep, ItemRow, Inv, OwnersWork
<1>3. CASE Holds(s, i) /\ item'[i] = [item[i] EXCEPT !.status = "PAUSED", !.owner = None, !.ttl = -1]
  BY <1>1, <1>3 DEF RowStep, ItemRow, Holds, RowStatus
<1>4. CASE item'[i] = item[i]
  BY <1>4, KeptRow
<1> QED
  BY <1>2, <1>3, <1>4 DEF Renew, CloseTasks

\* A claim with its repack deletes only roots that nobody has tried.
LEMMA ClaimRow ==
  ASSUME Inv, NEW s \in Sessions, NEW w \in Workers, ClaimTask(s, w), NEW j \in Items
  PROVE  RowStep(j)
<1> PICK i \in Items : Claimable(i) /\ \E rows \in Repackings(i) :
        item' = [rows EXCEPT ![i].status = "RUNNING", ![i].owner = s, ![i].ttl = LeaseTicks]
  BY DEF ClaimTask
<1>1. PICK rows \in Repackings(i) :
        item' = [rows EXCEPT ![i].status = "RUNNING", ![i].owner = s, ![i].ttl = LeaseTicks]
  OBVIOUS
<1>2. rows \in Table /\ rows[j] \in ItemRow /\ item[j] \in ItemRow
  BY RepackType DEF Inv, Types, Table
<1>3. \/ rows[j] = item[j]
      \/ rows[j] = NewRow(j, rows[j].news) /\ item[j].status = "absent"
      \/ /\ item[j].status = "PENDING" /\ item[j].owner = None
         /\ rows[j].root = item[j].root /\ rows[j].owner = None
         /\ rows[j].status \in {"PENDING", "deleted"}
      \/ i = j /\ rows[j].root = item[j].root
  <2>1. CASE rows = item
    BY <2>1
  <2>2. ASSUME NEW more \in Absorbable(i), rows = Absorb(i, more)
        PROVE  \/ rows[j] = item[j]
               \/ /\ item[j].status = "PENDING" /\ item[j].owner = None
                  /\ rows[j].root = item[j].root /\ rows[j].owner = None
                  /\ rows[j].status \in {"PENDING", "deleted"}
               \/ i = j /\ rows[j].root = item[j].root
    BY <1>2, <2>2 DEF Absorb, Untried, ItemRow
  <2>3. ASSUME NEW head, NEW new \in Fresh, rows = CutOff(i, head, new)
        PROVE  \/ rows[j] = item[j]
               \/ rows[j] = NewRow(j, rows[j].news) /\ item[j].status = "absent"
               \/ i = j /\ rows[j].root = item[j].root
    <3>1. CASE j = new
      <4>1. rows[j] = NewRow(j, item[i].news \ head)
        BY <2>3, <3>1 DEF CutOff, Inv, Types, Table
      <4> QED
        BY <3>1, <4>1 DEF NewRow, Fresh
    <3>2. CASE j # new
      BY <1>2, <2>3, <3>2 DEF CutOff, Inv, Types, Table, ItemRow
    <3> QED
      BY <3>1, <3>2
  <2> QED
    BY <2>1, <2>2, <2>3 DEF Repackings
<1>4. CASE i = j
  <2>1. item'[j] = [rows[j] EXCEPT !.status = "RUNNING", !.owner = s, !.ttl = LeaseTicks]
    BY <1>1, <1>2, <1>4 DEF Table
  <2>2. item'[j].status = "RUNNING" /\ item'[j].root = rows[j].root
    BY <1>2, <2>1 DEF ItemRow
  <2>3. item[j].status \in {"PENDING", "WAITING"}
    BY <1>4 DEF Claimable
  <2>4. rows[j].root = item[j].root
    BY <1>3, <2>3
  <2> QED
    BY <2>2, <2>3, <2>4 DEF RowStep, RowStatus
<1>5. CASE i # j
  <2>1. item'[j] = rows[j]
    BY <1>1, <1>2, <1>5 DEF Table
  <2>2. CASE rows[j] = item[j]
    BY <2>1, <2>2, KeptRow
  <2>3. CASE rows[j] = NewRow(j, rows[j].news) /\ item[j].status = "absent"
    <3>1. rows[j].root = j /\ rows[j].owner = None
      BY <2>3 DEF NewRow
    <3> QED
      BY <2>1, <2>3, <3>1 DEF RowStep
  <2>4. CASE /\ item[j].status = "PENDING" /\ item[j].owner = None
             /\ rows[j].root = item[j].root /\ rows[j].owner = None
             /\ rows[j].status \in {"PENDING", "deleted"}
    BY <2>1, <2>4 DEF RowStep, RowStatus
  <2> QED
    BY <1>3, <1>5, <2>2, <2>3, <2>4
<1> QED
  BY <1>4, <1>5

\* A worker changes its row only while it owns it.
LEMMA WorkerRow ==
  ASSUME Inv, NEW s \in Sessions, NEW w \in Workers, NEW j \in Items,
         Waiting(s, w) \/ Reserve(s, w) \/ Commit(s, w) \/ Split(s, w) \/ NeedsAttention(s, w)
  PROVE  RowStep(j)
<1> DEFINE i == job[s][w].item
<1>1. i \in Items
  BY DEF Waiting, Reserve, Commit, Split, NeedsAttention, At, Inv, Types, JobRow
<1>2. item[i] \in ItemRow /\ item[j] \in ItemRow
  BY <1>1 DEF Inv, Types, Table
<1>3. ASSUME NEW st, item' = Park(i, st), item[i].owner = s, st \in RowStatus
      PROVE  RowStep(j)
  <2>1. CASE i = j
    <3>1. item'[j] = [item[j] EXCEPT !.status = st, !.owner = None, !.ttl = -1]
      BY <1>3, <2>1 DEF Park, Inv, Types, Table
    <3>2. item[j].status \in {"RUNNING", "WAITING"}
      BY <1>3, <2>1, NoneAssumption DEF Inv, OwnersWork
    <3> QED
      BY <1>2, <3>1, <3>2 DEF RowStep, ItemRow, RowStatus
  <2>2. CASE i # j
    <3>1. item'[j] = item[j]
      BY <1>3, <2>2 DEF Park, Inv, Types, Table
    <3> QED
      BY <3>1, KeptRow
  <2> QED
    BY <2>1, <2>2
<1>4. CASE item' = item
  BY <1>4, KeptRow
<1>5. CASE Waiting(s, w)
  <2>1. CASE Holds(s, i) /\ item' = [item EXCEPT ![i].status = "WAITING"]
    <3>1. CASE i = j
      <4>1. item'[j].status = "WAITING" /\ item'[j].root = item[j].root
        BY <1>2, <2>1, <3>1 DEF Inv, Types, Table, ItemRow
      <4> QED
        BY <2>1, <3>1, <4>1 DEF RowStep, Holds, RowStatus
    <3>2. CASE i # j
      BY <2>1, <3>2, KeptRow DEF Inv, Types, Table
    <3> QED
      BY <3>1, <3>2
  <2> QED
    BY <1>4, <1>5, <2>1 DEF Waiting
<1>6. CASE Reserve(s, w)
  <2> DEFINE r == item[i].root
  <2>1. CASE /\ Holds(s, i)
             /\ item' = [item EXCEPT ![r].requests = @ + 1, ![i].status = "RUNNING"]
    <3>1. /\ item'[j].root = item[j].root
          /\ item'[j].owner = item[j].owner
          /\ item'[j].news = item[j].news
          /\ item'[j].status = IF j = i THEN "RUNNING" ELSE item[j].status
      <4>1. item \in Table /\ r \in Items
        BY <1>2 DEF Inv, Types, ItemRow
      <4> QED
        BY <1>1, <1>2, <2>1, <4>1 DEF Table, ItemRow
    <3> QED
      BY <2>1, <3>1 DEF RowStep, Holds, RowStatus, Inv, OwnersWork
  <2> QED
    BY <1>4, <1>6, <2>1 DEF Reserve
<1>7. CASE Commit(s, w)
  BY <1>3, <1>4, <1>7, Columns DEF Commit, MayCommit
<1>8. CASE Split(s, w)
  <2>1. ASSUME item[i].owner = s,
               NEW first \in Halves(job[s][w].news), NEW a \in Fresh, NEW b \in Fresh, a # b,
               item' = [Park(i, "SPLIT") EXCEPT ![a] = NewRow(item[i].root, first),
                                                ![b] = NewRow(item[i].root, job[s][w].news \ first)]
        PROVE  RowStep(j)
    <3>1. item[i].status \in {"RUNNING", "WAITING"}
      BY <1>1, <2>1, NoneAssumption DEF Inv, OwnersWork
    <3>2. i \notin Fresh
      BY <3>1 DEF Fresh
    <3>3. /\ item'[i] = [item[i] EXCEPT !.status = "SPLIT", !.owner = None, !.ttl = -1]
          /\ \A k \in Items \ {i, a, b} : item'[k] = item[k]
          /\ item'[a] = NewRow(item[i].root, first)
          /\ item'[b] = NewRow(item[i].root, job[s][w].news \ first)
      BY <1>1, <2>1, <3>2 DEF Park, Inv, Types, Table, Fresh
    <3>4. item'[i].status = "SPLIT" /\ item'[i].owner = None /\ item'[i].root = item[i].root
      BY <1>2, <3>3 DEF ItemRow
    <3>5. item'[item[i].root].status = "SPLIT"
      <4>1. item[i].root = i \/ item[item[i].root].status = "SPLIT"
        BY <1>1, <3>1 DEF Inv, ChildrenOfSplit, Rows, RowStatus
      <4>2. item[i].root \in Items
        BY <1>2 DEF ItemRow
      <4> QED
        BY <3>3, <3>4, <4>1, <4>2 DEF Fresh
    <3>6. CASE j = i
      BY <3>1, <3>4, <3>6 DEF RowStep, RowStatus
    <3>7. CASE j \in {a, b}
      <4>1. item'[j].root = item[i].root /\ item'[j].owner = None /\ item[j].status = "absent"
        BY <3>3, <3>7 DEF NewRow, Fresh
      <4> QED
        BY <3>5, <4>1 DEF RowStep
    <3>8. CASE j \notin {i, a, b}
      BY <3>3, <3>8, KeptRow
    <3> QED
      BY <3>6, <3>7, <3>8
  <2> QED
    BY <1>4, <1>8, <2>1 DEF Split
<1>9. CASE NeedsAttention(s, w)
  BY <1>3, <1>4, <1>9, Columns DEF NeedsAttention
<1> QED
  BY <1>5, <1>6, <1>7, <1>8, <1>9

\* Passing time changes no row but its lease.
LEMMA TickRow ==
  ASSUME Inv, Tick, NEW i \in Items
  PROVE  RowStep(i)
<1>1. item[i] \in ItemRow /\ item'[i] = [item[i] EXCEPT !.ttl = Elapse(@)]
  BY DEF Tick, Inv, Types, Table
<1>2. /\ item'[i].status = item[i].status /\ item'[i].news = item[i].news
      /\ item'[i].root = item[i].root /\ item'[i].owner = item[i].owner
  BY <1>1 DEF ItemRow
<1> QED
  BY <1>2 DEF RowStep, Inv, OwnersWork

\* Every step does to every row what RowStep allows.
LEMMA StepRow ==
  ASSUME Inv, [Next]_vars, NEW i \in Items
  PROVE  RowStep(i)
<1>1. CASE item' = item
  BY <1>1, KeptRow
<1>2. ASSUME NEW s \in Sessions, SessionStep(s) \/ Start(s) \/ Renew(s) \/ Abort(s) \/ Crash(s)
      PROVE  RowStep(i)
  BY <1>1, <1>2, PrepareRow, SessionRow
     DEF SessionStep, Start, Abort, Crash, PrepareFails, Settle, MarkComplete, Leave, CloseWorkflow
<1>3. ASSUME NEW s \in Sessions, NEW w \in Workers, WorkerStep(s, w)
      PROVE  RowStep(i)
  BY <1>1, <1>3, ClaimRow, WorkerRow
     DEF WorkerStep, ClaimFails, NoTask, Resolve, NoModel, Reply, StoreFails
<1> QED
  BY <1>1, <1>2, <1>3, TickRow DEF Next, vars

\* The invariant is inductive.
LEMMA StepInv == Inv /\ [Next]_vars => Inv'
<1> SUFFICES ASSUME Inv, [Next]_vars PROVE Inv'
  OBVIOUS
<1>1. Types'
  BY StepType DEF Inv
<1>2. OwnersWork'
  BY StepRow DEF RowStep, OwnersWork
<1>3. ChildrenOfSplit'
  <2> SUFFICES ASSUME NEW i \in Items, item'[i].status \in RowStatus
               PROVE  item'[i].root = i \/ item'[item'[i].root].status = "SPLIT"
    BY DEF ChildrenOfSplit, Rows
  <2>1. CASE item[i].status \in RowStatus /\ item'[i].root = item[i].root
    <3>1. item[i].root \in Items
      BY DEF Inv, Types, Table, ItemRow
    <3>2. item[i].root = i \/ item[item[i].root].status = "SPLIT"
      BY <2>1 DEF Inv, ChildrenOfSplit, Rows
    <3> QED
      BY <2>1, <3>1, <3>2, StepRow DEF RowStep
  <2> QED
    BY <2>1, StepRow DEF RowStep
<1> QED
  BY <1>1, <1>2, <1>3 DEF Inv

\* The invariant holds in every reachable state.
LEMMA InvHolds == Spec => []Inv
BY InitInv, StepInv, PTL DEF Spec

\* The row that carries the request budget of an item exists whenever the item
\* does: a repack deletes only untried roots, which have no children.
THEOREM RootsStayAlive == Spec => []RootsAlive
<1>1. Inv => RootsAlive
  BY DEF Inv, Types, Table, ItemRow, ChildrenOfSplit, RootsAlive, Rows, RowStatus
<1> QED
  BY <1>1, InvHolds, PTL

\* No later step of any session, zombies included, reopens a finished task or
\* changes the news it covered.
THEOREM FinishedStaysFinished == Spec => SuccessIsFinal
<1>1. Inv /\ [Next]_vars =>
        [\A i \in Items : item[i].status = "SUCCESS" =>
           item'[i].status = "SUCCESS" /\ item'[i].news = item[i].news]_vars
  BY StepRow DEF RowStep
<1> QED
  BY <1>1, InvHolds, PTL DEF Spec, SuccessIsFinal

-----------------------------------------------------------------------------
(* Safety *)

Working(s, w) == job[s][w].pc \notin {"idle", "exited"}
Mine(s, w) == Working(s, w) /\ item[job[s][w].item].owner = s

Leaf(row) == row.status \in RowStatus /\ row.status # "SPLIT"

-----------------------------------------------------------------------------
(* The invariant *)

\* A worker whose row is still leased to its session knows its batch.
Remembered == \A s \in Sessions, w \in Workers : Mine(s, w) => item[job[s][w].item].news = job[s][w].news

\* ... and no sibling works on the same row.
Alone ==
  \A s \in Sessions, w, v \in Workers :
    w # v /\ Mine(s, w) /\ Working(s, v) => job[s][w].item # job[s][v].item

Disjoint ==
  \A i, j \in Items : i # j /\ Leaf(item[i]) /\ Leaf(item[j]) => item[i].news \cap item[j].news = {}

\* The news of a finished row have their outcome, those of others do not.
Accounted ==
  \A i \in Items : Leaf(item[i]) =>
    \A n \in item[i].news : commits[n] = IF item[i].status = "SUCCESS" THEN 1 ELSE 0

\* What was paid for a news is charged to the root of the row that holds it.
Charged ==
  \A i \in Items : Leaf(item[i]) => \A n \in item[i].news : paid[n] <= item[item[i].root].requests

\* Before the planning nothing has happened, after it every news has an outcome
\* or a row.
NothingYet ==
  /\ \A i \in Items : item[i].status \notin RowStatus
  /\ \A n \in News : commits[n] = 0 /\ paid[n] = 0
Planning ==
  /\ ~wf.prepared => NothingYet
  /\ wf.prepared => \A n \in News : commits[n] = 0 => \E i \in Items : Leaf(item[i]) /\ n \in item[i].news
  /\ \A s \in Sessions : sess[s].pc = "running" => wf.prepared

AllDone == \A n \in News : commits[n] > 0

\* Whoever knows or says that the workflow is complete is right.
Announced ==
  /\ wf.status = "AI_COMPLETE" => AllDone
  /\ \A s \in Sessions : sess[s].pc \in {"checked", "returned"} \/ sess[s].result = "AI_COMPLETE" => AllDone

Tasks == Remembered /\ Alone
Books == Disjoint /\ Accounted /\ Charged /\ CommittedOnce /\ BudgetPerNews
Safe == Inv /\ Tasks /\ Books /\ Planning /\ Announced

\* A worker works only on a row that is leased to its session.
Entitled == \A s \in Sessions, w \in Workers : Working(s, w) => sess[s].pc = "running" /\ Mine(s, w)

OneWorker == \A w, v \in Workers : w = v

\* What the claim of a row needs.
Calm == OneWorker \/ Entitled

-----------------------------------------------------------------------------
(* Steps that move no news *)

\* A row keeps its batch, its place and its counter.
SameBatch(i) ==
  /\ item'[i].news = item[i].news /\ item'[i].root = item[i].root
  /\ item'[i].requests = item[i].requests
  /\ item'[i].status \in RowStatus <=> item[i].status \in RowStatus
  /\ item'[i].status = "SPLIT" <=> item[i].status = "SPLIT"
  /\ item'[i].status = "SUCCESS" <=> item[i].status = "SUCCESS"

SameOwner(i) == item'[i].owner \in {item[i].owner, None}

\* Workers go on with their task or drop it.
SameTasks ==
  \A s \in Sessions, w \in Workers : Working(s, w)' =>
    /\ Working(s, w)
    /\ job'[s][w].item = job[s][w].item /\ job'[s][w].news = job[s][w].news

Quiet ==
  /\ \A i \in Items : SameBatch(i) /\ SameOwner(i)
  /\ SameTasks
  /\ UNCHANGED <<commits, paid>>

\* A working worker has a row and a batch.
LEMMA JobItem ==
  ASSUME Types, NEW s \in Sessions, NEW w \in Workers, Working(s, w)
  PROVE  job[s][w].item \in Items /\ job[s][w].news \in SUBSET News
BY DEF Types, JobRow, Working

\* A row that is not written.
LEMMA SameRow ==
  ASSUME NEW i \in Items, item'[i] = item[i]
  PROVE  SameBatch(i) /\ SameOwner(i)
BY DEF SameBatch, SameOwner

\* A row whose lease is written.
LEMMA LeasedRow ==
  ASSUME NEW i \in Items, item[i] \in ItemRow, NEW o, NEW t, NEW st \in RowStatus \ {"SPLIT", "SUCCESS"},
         item[i].status \in RowStatus \ {"SPLIT", "SUCCESS"},
         \/ item'[i] = [item[i] EXCEPT !.status = st, !.owner = o, !.ttl = t]
         \/ item'[i] = [item[i] EXCEPT !.status = st]
         \/ item'[i] = [item[i] EXCEPT !.ttl = t]
  PROVE  SameBatch(i) /\ (item'[i].owner = o \/ item'[i].owner = item[i].owner)
<1>1. item[i] = [status |-> item[i].status, root |-> item[i].root, news |-> item[i].news,
                 owner |-> item[i].owner, ttl |-> item[i].ttl, requests |-> item[i].requests]
  BY DEF ItemRow
<1>2. CASE item'[i] = [item[i] EXCEPT !.status = st, !.owner = o, !.ttl = t]
  BY <1>1, <1>2 DEF SameBatch
<1>3. CASE item'[i] = [item[i] EXCEPT !.status = st]
  BY <1>1, <1>3 DEF SameBatch
<1>4. CASE item'[i] = [item[i] EXCEPT !.ttl = t]
  BY <1>1, <1>4 DEF SameBatch
<1> QED
  BY <1>2, <1>3, <1>4

\* The memory of workers after a jump, a new task or the catch block.
LEMMA GotoTasks ==
  ASSUME Types, NEW s \in Sessions, NEW w \in Workers, NEW pc \in JobPc, Working(s, w), Goto(s, w, pc)
  PROVE  SameTasks
<1>1. job' = [job EXCEPT ![s] = [job[s] EXCEPT ![w] = [job[s][w] EXCEPT !.pc = pc]]]
  BY DEF Goto
<1>2. job[s][w] \in JobRow
  BY DEF Types
<1>3. job'[s][w].item = job[s][w].item /\ job'[s][w].news = job[s][w].news
  BY <1>1, <1>2 DEF Types, JobRow
<1>4. \A t \in Sessions, v \in Workers : <<t, v>> # <<s, w>> => job'[t][v] = job[t][v]
  BY <1>1 DEF Types
<1> QED
  BY <1>3, <1>4 DEF SameTasks, Working

LEMMA SetJobTasks ==
  ASSUME Types, NEW s \in Sessions, NEW w \in Workers, NEW j,
         j.pc \in {"idle", "exited"}, SetJob(s, w, j)
  PROVE  SameTasks
<1>1. job' = [job EXCEPT ![s] = [job[s] EXCEPT ![w] = j]]
  BY DEF SetJob
<1>2. job'[s][w] = j
  BY <1>1 DEF Types
<1>3. \A t \in Sessions, v \in Workers : <<t, v>> # <<s, w>> => job'[t][v] = job[t][v]
  BY <1>1 DEF Types
<1> QED
  BY <1>2, <1>3 DEF SameTasks, Working

LEMMA CatchTasks ==
  ASSUME Types, NEW s \in Sessions, NEW w \in Workers, NEW kind, Working(s, w), Catch(s, w, kind)
  PROVE  SameTasks
<1>1. "split" \in JobPc /\ "attention" \in JobPc /\ Exited.pc = "exited"
  BY DEF JobPc, Exited
<1> QED
  BY <1>1, GotoTasks, SetJobTasks DEF Catch

LEMMA KeptTasks == ASSUME UNCHANGED job PROVE SameTasks
BY DEF SameTasks, Working

-----------------------------------------------------------------------------
(* The books after a step that moves news between rows *)

Moved ==
  /\ \A j \in Items : Leaf(item'[j]) => \A n \in item'[j].news :
       \E k \in Items : /\ Leaf(item[k]) /\ n \in item[k].news
                        /\ item'[j].status = "SUCCESS" <=> item[k].status = "SUCCESS"
                        /\ item[item[k].root].requests <= item'[item'[j].root].requests
  /\ \A k \in Items : Leaf(item[k]) => \A n \in item[k].news :
       \E j \in Items : Leaf(item'[j]) /\ n \in item'[j].news
  /\ Disjoint'

\* Wherever a news goes, it takes its account along.
LEMMA MovedBooks ==
  ASSUME Inv, Inv', Books, Moved, UNCHANGED <<commits, paid>>
  PROVE  Books'
<1>1. Accounted'
  BY DEF Moved, Books, Accounted
<1>2. Charged'
  <2> SUFFICES ASSUME NEW j \in Items, Leaf(item'[j]), NEW n \in item'[j].news
               PROVE  paid[n] <= item'[item'[j].root].requests
    BY DEF Charged
  <2>1. PICK k \in Items : /\ Leaf(item[k]) /\ n \in item[k].news
                           /\ item[item[k].root].requests <= item'[item'[j].root].requests
    BY DEF Moved
  <2>2. paid[n] <= item[item[k].root].requests
    BY <2>1 DEF Books, Charged
  <2>3. n \in News /\ paid[n] \in Nat
    BY <2>1 DEF Inv, Types, Table, ItemRow
  <2>4. item[item[k].root].requests \in Nat
    BY DEF Inv, Types, Table, ItemRow
  <2>5. item'[item'[j].root].requests \in Nat
    BY DEF Inv, Types, Table, ItemRow
  <2> QED
    BY <2>1, <2>2, <2>3, <2>4, <2>5
<1> QED
  BY <1>1, <1>2 DEF Moved, Books, CommittedOnce, BudgetPerNews

LEMMA QuietMoved ==
  ASSUME Inv, Books, \A i \in Items : SameBatch(i)
  PROVE  Moved
<1>1. \A i \in Items : Leaf(item'[i]) <=> Leaf(item[i])
  BY DEF SameBatch, Leaf
<1>2. \A i \in Items : item[i].root \in Items /\ item[item[i].root].requests \in Nat
  BY DEF Inv, Types, Table, ItemRow
<1>3. \A i \in Items : /\ item'[i].news = item[i].news
                       /\ item'[i].status = "SUCCESS" <=> item[i].status = "SUCCESS"
                       /\ item[item[i].root].requests = item'[item'[i].root].requests
  BY <1>2 DEF SameBatch
<1>4. Disjoint'
  BY <1>1, <1>3 DEF Books, Disjoint
<1> QED
  BY <1>1, <1>2, <1>3, <1>4 DEF Moved

\* A step by which workers get no new row keeps what they know.
LEMMA KeptRowsTasks ==
  ASSUME Inv, Tasks, SameTasks,
         \A i \in Items : SameOwner(i) /\ (item'[i].owner # None => item'[i].news = item[i].news)
  PROVE  Tasks'
<1>1. \A s \in Sessions, w \in Workers : Mine(s, w)' =>
        /\ Mine(s, w) /\ job'[s][w].item = job[s][w].item
        /\ item'[job[s][w].item].news = item[job[s][w].item].news
  <2> SUFFICES ASSUME NEW s \in Sessions, NEW w \in Workers, Mine(s, w)'
               PROVE  /\ Mine(s, w) /\ job'[s][w].item = job[s][w].item
                      /\ item'[job[s][w].item].news = item[job[s][w].item].news
    OBVIOUS
  <2>1. Working(s, w) /\ job'[s][w].item = job[s][w].item
    BY DEF Mine, SameTasks
  <2>2. job[s][w].item \in Items
    BY <2>1, JobItem DEF Inv
  <2>3. item'[job[s][w].item].owner = s
    BY <2>1 DEF Mine
  <2> QED
    BY <2>1, <2>2, <2>3, NoneAssumption DEF Mine, SameOwner
<1>2. Remembered'
  BY <1>1 DEF Tasks, Remembered, SameTasks, Mine
<1>3. Alone'
  BY <1>1 DEF Tasks, Alone, SameTasks, Mine
<1> QED
  BY <1>2, <1>3 DEF Tasks

\* A quiet step keeps tasks and books.
LEMMA QuietKeeps ==
  ASSUME Inv, Inv', Tasks, Books, Quiet
  PROVE  Tasks' /\ Books'
<1>1. Tasks'
  BY KeptRowsTasks DEF Quiet, SameBatch
<1>2. Books'
  BY QuietMoved, MovedBooks DEF Quiet
<1> QED
  BY <1>1, <1>2

\* What the heartbeat, the end of a session and an abort write.
LEMMA SessionQuiet ==
  ASSUME Inv, NEW s \in Sessions,
         \/ Start(s) \/ Renew(s) \/ Abort(s) \/ Crash(s) \/ PrepareFails(s) \/ Settle(s)
         \/ MarkComplete(s) \/ Leave(s) \/ CloseTasks(s) \/ CloseWorkflow(s)
  PROVE  Quiet
<1>1. \A i \in Items : item[i] \in ItemRow
  BY DEF Inv, Types, Table
<1>2. CASE Renew(s) \/ CloseTasks(s)
  <2>1. ASSUME NEW i \in Items PROVE SameBatch(i) /\ SameOwner(i)
    <3>1. CASE Holds(s, i) /\ item'[i] = [item[i] EXCEPT !.ttl = LeaseTicks]
      <4>1. item[i].status \in RowStatus \ {"SPLIT", "SUCCESS"}
        BY <3>1 DEF Holds, RowStatus
      <4> QED
        BY <1>1, <3>1, <4>1, LeasedRow DEF SameOwner, ItemRow
    <3>2. CASE Holds(s, i) /\ item'[i] = [item[i] EXCEPT !.status = "PAUSED", !.owner = None, !.ttl = -1]
      <4>1. item[i].status \in RowStatus \ {"SPLIT", "SUCCESS"} /\ "PAUSED" \in RowStatus \ {"SPLIT", "SUCCESS"}
        BY <3>2 DEF Holds, RowStatus
      <4> QED
        BY <1>1, <3>2, <4>1, LeasedRow DEF SameOwner
    <3>3. CASE item'[i] = item[i]
      BY <3>3, SameRow
    <3> QED
      BY <1>2, <3>1, <3>2, <3>3 DEF Renew, CloseTasks
  <2>2. SameTasks /\ UNCHANGED <<commits, paid>>
    BY <1>2, KeptTasks DEF Renew, CloseTasks
  <2> QED
    BY <2>1, <2>2 DEF Quiet
<1>3. CASE Crash(s)
  <2>1. SameTasks
    BY <1>3 DEF Crash, SameTasks, Working, Exited, Inv, Types
  <2> QED
    BY <1>3, <2>1, SameRow DEF Crash, Quiet
<1>4. CASE \/ Start(s) \/ Abort(s) \/ PrepareFails(s) \/ Settle(s)
           \/ MarkComplete(s) \/ Leave(s) \/ CloseWorkflow(s)
  BY <1>4, SameRow, KeptTasks
     DEF Start, Abort, PrepareFails, Settle, MarkComplete, Leave, CloseWorkflow, Quiet
<1> QED
  BY <1>2, <1>3, <1>4

\* A resume changes the status of rows and takes their owner away.
LEMMA RequeueQuiet ==
  ASSUME Inv, NEW s \in Sessions, Prepare(s), Rows # {}
  PROVE  Quiet
<1>1. item' = Requeued /\ UNCHANGED <<job, commits, paid>>
  BY DEF Prepare
<1>2. ASSUME NEW i \in Items PROVE SameBatch(i) /\ SameOwner(i)
  <2>1. CASE \/ item[i].status \in {"PAUSED", "WAITING", "NEEDS_ATTENTION"}
             \/ item[i].status = "RUNNING" /\ Expired(item[i].ttl)
    <3>1. item'[i] = [item[i] EXCEPT !.status = "PENDING", !.owner = None, !.ttl = -1]
      BY <1>1, <2>1 DEF Requeued
    <3>2. item[i].status \in RowStatus \ {"SPLIT", "SUCCESS"} /\ "PENDING" \in RowStatus \ {"SPLIT", "SUCCESS"}
      BY <2>1 DEF RowStatus
    <3>3. item[i] \in ItemRow
      BY DEF Inv, Types, Table
    <3> QED
      BY <3>1, <3>2, <3>3, LeasedRow DEF SameOwner
  <2>2. CASE ~(\/ item[i].status \in {"PAUSED", "WAITING", "NEEDS_ATTENTION"}
               \/ item[i].status = "RUNNING" /\ Expired(item[i].ttl))
    BY <1>1, <2>2, SameRow DEF Requeued
  <2> QED
    BY <2>1, <2>2
<1> QED
  BY <1>1, <1>2, KeptTasks DEF Quiet

LEMMA TickQuiet ==
  ASSUME Inv, Tick
  PROVE  Quiet
<1>1. ASSUME NEW i \in Items PROVE SameBatch(i) /\ SameOwner(i)
  <2>1. item[i] \in ItemRow /\ item'[i] = [item[i] EXCEPT !.ttl = Elapse(@)]
    BY DEF Tick, Inv, Types, Table
  <2>2. /\ item'[i].status = item[i].status /\ item'[i].root = item[i].root
        /\ item'[i].news = item[i].news /\ item'[i].owner = item[i].owner
        /\ item'[i].requests = item[i].requests
    BY <2>1 DEF ItemRow
  <2> QED
    BY <2>2 DEF SameBatch, SameOwner
<1> QED
  BY <1>1, KeptTasks DEF Tick, Quiet

\* A request that is granted, and the transactions that finish a task.
Pays(s, w) ==
  LET i == job[s][w].item
      r == item[i].root
  IN /\ Holds(s, i) /\ HasBudget(r)
     /\ item' = [item EXCEPT ![r].requests = @ + 1, ![i].status = "RUNNING"]
     /\ paid' = Bump(paid, job[s][w].news)
     /\ Goto(s, w, "sent")
     /\ UNCHANGED <<wf, sess, commits>>

Commits(s, w) ==
  LET i == job[s][w].item
  IN /\ MayCommit(s, i)
     /\ item' = Park(i, "SUCCESS")
     /\ commits' = Bump(commits, job[s][w].news)
     /\ SetJob(s, w, NoJob)
     /\ UNCHANGED <<wf, sess, paid>>

Splits(s, w) ==
  LET i == job[s][w].item
  IN /\ item[i].owner = s
     /\ \E first \in Halves(job[s][w].news), a, b \in Fresh :
          /\ a # b
          /\ item' = [Park(i, "SPLIT") EXCEPT ![a] = NewRow(item[i].root, first),
                                              ![b] = NewRow(item[i].root, job[s][w].news \ first)]
     /\ SetJob(s, w, NoJob)
     /\ UNCHANGED <<wf, sess, commits, paid>>

\* Every other step of a worker is quiet, but its claim.
LEMMA WorkerQuiet ==
  ASSUME Inv, NEW s \in Sessions, NEW w \in Workers, WorkerStep(s, w), ~ClaimTask(s, w)
  PROVE  Quiet \/ (Working(s, w) /\ (Pays(s, w) \/ Commits(s, w) \/ Splits(s, w)))
<1>1. CASE UNCHANGED <<item, commits, paid>> /\ SameTasks
  BY <1>1, SameRow DEF Quiet
<1>2. Exited.pc = "exited" /\ NoJob.pc = "idle" /\ {"request", "sent", "commit", "split", "attention"} \subseteq JobPc
  BY DEF Exited, NoJob, JobPc
<1>3. Types
  BY DEF Inv
<1>4. CASE ClaimFails(s, w) \/ NoTask(s, w)
  BY <1>1, <1>2, <1>3, <1>4, SetJobTasks DEF ClaimFails, NoTask
<1>5. CASE Resolve(s, w) \/ NoModel(s, w) \/ Reply(s, w) \/ StoreFails(s, w)
  <2>1. Working(s, w)
    BY <1>5 DEF Resolve, NoModel, Reply, StoreFails, At, Working
  <2>2. \/ \E kind \in {"attention", "pause", "split"} : Catch(s, w, kind)
        \/ \E pc \in {"commit", "request"} : Goto(s, w, pc)
    BY <1>5 DEF Resolve, NoModel, Reply, StoreFails
  <2>3. SameTasks
    BY <1>2, <1>3, <2>1, <2>2, CatchTasks, GotoTasks
  <2> QED
    BY <1>1, <1>5, <2>3 DEF Resolve, NoModel, Reply, StoreFails
<1>6. CASE Waiting(s, w)
  <2> DEFINE i == job[s][w].item
  <2>1. i \in Items
    BY <1>6, JobItem DEF Waiting, At, Working, Inv
  <2>2. CASE item' = item
    BY <1>1, <1>6, <2>2, KeptTasks DEF Waiting
  <2>3. CASE Holds(s, i) /\ item' = [item EXCEPT ![i].status = "WAITING"]
    <3>1. ASSUME NEW j \in Items PROVE SameBatch(j) /\ SameOwner(j)
      <4>1. CASE j = i
        <5>1. item[j] \in ItemRow /\ item'[j] = [item[j] EXCEPT !.status = "WAITING"]
          BY <2>3, <4>1 DEF Inv, Types, Table
        <5>2. item[j].status \in RowStatus \ {"SPLIT", "SUCCESS"} /\ "WAITING" \in RowStatus \ {"SPLIT", "SUCCESS"}
          BY <2>3, <4>1 DEF Holds, RowStatus
        <5> QED
          BY <5>1, <5>2, LeasedRow DEF SameOwner
      <4>2. CASE j # i
        BY <2>3, <4>2, SameRow DEF Inv, Types, Table
      <4> QED
        BY <4>1, <4>2
    <3> QED
      BY <1>6, <3>1, KeptTasks DEF Waiting, Quiet
  <2> QED
    BY <1>6, <2>2, <2>3 DEF Waiting
<1>7. CASE NeedsAttention(s, w)
  <2> DEFINE i == job[s][w].item
  <2>1. i \in Items
    BY <1>7, JobItem DEF NeedsAttention, At, Working, Inv
  <2>2. SameTasks
    BY <1>2, <1>3, <1>7, SetJobTasks DEF NeedsAttention
  <2>3. CASE item' = item
    BY <1>1, <1>7, <2>2, <2>3 DEF NeedsAttention
  <2>4. CASE item[i].owner = s /\ item' = Park(i, "NEEDS_ATTENTION")
    <3>1. ASSUME NEW j \in Items PROVE SameBatch(j) /\ SameOwner(j)
      <4>1. CASE j = i
        <5>1. /\ item[j] \in ItemRow
              /\ item'[j] = [item[j] EXCEPT !.status = "NEEDS_ATTENTION", !.owner = None, !.ttl = -1]
          BY <2>4, <4>1 DEF Inv, Types, Table, Park
        <5>2. /\ item[j].status \in RowStatus \ {"SPLIT", "SUCCESS"}
              /\ "NEEDS_ATTENTION" \in RowStatus \ {"SPLIT", "SUCCESS"}
          BY <2>4, <4>1, NoneAssumption DEF Inv, OwnersWork, RowStatus
        <5> QED
          BY <5>1, <5>2, LeasedRow DEF SameOwner
      <4>2. CASE j # i
        BY <2>4, <4>2, SameRow DEF Inv, Types, Table, Park
      <4> QED
        BY <4>1, <4>2
    <3> QED
      BY <1>7, <2>2, <3>1 DEF NeedsAttention, Quiet
  <2> QED
    BY <1>7, <2>3, <2>4 DEF NeedsAttention
<1>8. CASE Reserve(s, w)
  <2>1. Working(s, w)
    BY <1>8 DEF Reserve, At, Working
  <2>2. Pays(s, w) \/ (UNCHANGED <<item, commits, paid>> /\ \E kind \in {"attention", "pause"} : Catch(s, w, kind))
    BY <1>8 DEF Reserve, Pays
  <2> QED
    BY <1>1, <1>3, <2>1, <2>2, CatchTasks
<1>9. CASE Commit(s, w)
  <2>1. Working(s, w)
    BY <1>9 DEF Commit, At, Working
  <2>2. Commits(s, w) \/ (UNCHANGED <<item, commits, paid>> /\ Catch(s, w, "pause"))
    BY <1>9 DEF Commit, Commits
  <2> QED
    BY <1>1, <1>3, <2>1, <2>2, CatchTasks
<1>10. CASE Split(s, w)
  <2>1. Working(s, w)
    BY <1>10 DEF Split, At, Working
  <2>2. Splits(s, w) \/ (UNCHANGED <<item, commits, paid>> /\ SetJob(s, w, Exited))
    BY <1>10 DEF Split, Splits
  <2> QED
    BY <1>1, <1>2, <1>3, <2>1, <2>2, SetJobTasks
<1> QED
  BY <1>4, <1>5, <1>6, <1>7, <1>8, <1>9, <1>10 DEF WorkerStep

-----------------------------------------------------------------------------
(* The steps that write the books *)

LEMMA NewRowFields ==
  ASSUME NEW r, NEW S
  PROVE  /\ NewRow(r, S).status = "PENDING" /\ NewRow(r, S).root = r /\ NewRow(r, S).news = S
         /\ NewRow(r, S).owner = None /\ NewRow(r, S).requests = 0
BY DEF NewRow

\* The first planning finds nothing paid and nobody at work.
LEMMA PlanKeeps ==
  ASSUME Inv, Tasks, Books, Planning, NEW s \in Sessions, Prepare(s), Rows = {}
  PROVE  /\ Tasks' /\ Books'
         /\ \A n \in News : commits'[n] = 0 => \E i \in Items : Leaf(item'[i]) /\ n \in item'[i].news
<1>1. PICK batch \in [Fresh -> SUBSET {n \in News : commits[n] = 0}] :
        /\ \A i, j \in Fresh : i # j => batch[i] \cap batch[j] = {}
        /\ item' = Planned(batch)
        /\ commits' = [n \in News |-> IF \E i \in Fresh : n \in batch[i] THEN 0 ELSE 1]
  BY DEF Prepare
<1>2. UNCHANGED <<job, paid>>
  BY DEF Prepare
<1>3. \A i \in Items : item[i].status \notin RowStatus /\ item[i].owner = None
  BY DEF Rows, Inv, OwnersWork, RowStatus
<1>4. ASSUME NEW i \in Items
      PROVE  \/ /\ i \in Fresh /\ batch[i] # {} /\ item'[i].news = batch[i] /\ item'[i].owner = None
                /\ item'[i].status = "PENDING" /\ item'[i].root = i /\ item'[i].requests = 0
             \/ ~(i \in Fresh /\ batch[i] # {}) /\ item'[i] = item[i]
  <2>1. item'[i] = IF i \in Fresh /\ batch[i] # {} THEN NewRow(i, batch[i]) ELSE item[i]
    BY <1>1 DEF Planned
  <2> QED
    BY <2>1, NewRowFields
<1>5. \A i \in Items : item'[i].owner = None
  BY <1>3, <1>4
<1>6. Tasks'
  BY <1>2, <1>3, <1>5, KeptTasks, KeptRowsTasks DEF SameOwner
<1>7. \A i \in Items : Leaf(item'[i]) => /\ i \in Fresh /\ batch[i] # {} /\ item'[i].news = batch[i]
                                         /\ item'[i].status = "PENDING" /\ item'[i].root = i /\ item'[i].requests = 0
  BY <1>3, <1>4 DEF Leaf
<1>8. \A i \in Items : i \in Fresh /\ batch[i] # {} => Leaf(item'[i]) /\ item'[i].news = batch[i]
  BY <1>4 DEF Leaf, RowStatus
<1>9. \A n \in News : commits[n] = 0 => paid[n] = 0
  BY <1>3 DEF Planning, NothingYet, Leaf
<1>10. Disjoint'
  BY <1>1, <1>7 DEF Disjoint
<1>11. Accounted'
  BY <1>1, <1>7 DEF Accounted
<1>12. Charged'
  BY <1>1, <1>2, <1>7, <1>9 DEF Charged
<1>13. CommittedOnce' /\ BudgetPerNews'
  BY <1>1, <1>2 DEF Books, CommittedOnce, BudgetPerNews
<1>14. ASSUME NEW n \in News, commits'[n] = 0 PROVE \E i \in Items : Leaf(item'[i]) /\ n \in item'[i].news
  <2>1. PICK i \in Fresh : n \in batch[i]
    BY <1>1, <1>14
  <2> QED
    BY <1>8, <2>1 DEF Fresh
<1> QED
  BY <1>6, <1>10, <1>11, <1>12, <1>13, <1>14 DEF Books

\* The commit: its news had no outcome, and no other row has them.
LEMMA CommitKeeps ==
  ASSUME Inv, Tasks, Books, NEW s \in Sessions, NEW w \in Workers, Working(s, w), Commits(s, w)
  PROVE  /\ Tasks' /\ Books'
         /\ \A n \in job[s][w].news : commits[n] = 0
         /\ \A i \in Items : Leaf(item[i]) => Leaf(item'[i]) /\ item'[i].news = item[i].news
<1> DEFINE i == job[s][w].item
<1>1. i \in Items /\ item[i] \in ItemRow /\ Types
  BY JobItem DEF Inv, Types, Table
<1>2. item[i].owner = s /\ item[i].status = "RUNNING" /\ item[i].news = job[s][w].news
  BY DEF Commits, MayCommit, Tasks, Remembered, Mine
<1>3. item'[i] = [item[i] EXCEPT !.status = "SUCCESS", !.owner = None, !.ttl = -1]
  BY <1>1 DEF Commits, Park, Types, Table
<1>4. /\ item'[i].status = "SUCCESS" /\ item'[i].owner = None /\ item'[i].news = item[i].news
      /\ item'[i].root = item[i].root /\ item'[i].requests = item[i].requests
  BY <1>1, <1>3 DEF ItemRow
<1>5. \A j \in Items : j # i => item'[j] = item[j]
  BY <1>1 DEF Commits, Park, Types, Table
<1>6. Leaf(item[i]) /\ Leaf(item'[i])
  BY <1>2, <1>4 DEF Leaf, RowStatus
<1>7. \A n \in News : commits'[n] = IF n \in item[i].news THEN commits[n] + 1 ELSE commits[n]
  BY <1>1, <1>2 DEF Commits, Bump
<1>8. UNCHANGED paid
  BY DEF Commits
<1>9. \A n \in item[i].news : n \in News /\ commits[n] = 0
  BY <1>1, <1>2, <1>6 DEF Books, Accounted, ItemRow
<1> HIDE DEF i
<1>10. Tasks'
  <2>1. SameTasks
    <3>1. NoJob.pc = "idle"
      BY DEF NoJob
    <3> QED
      BY <1>1, <3>1, SetJobTasks DEF Commits
  <2> QED
    BY <1>4, <1>5, <2>1, KeptRowsTasks DEF SameOwner
<1>11. \A j \in Items : /\ Leaf(item'[j]) <=> Leaf(item[j])
                        /\ item'[j].news = item[j].news /\ item'[j].root = item[j].root
                        /\ item'[j].requests = item[j].requests
  BY <1>4, <1>5, <1>6
<1>12. Disjoint'
  BY <1>11 DEF Books, Disjoint
<1>13. Accounted'
  <2> SUFFICES ASSUME NEW j \in Items, Leaf(item[j]), NEW n \in item[j].news
               PROVE  commits'[n] = IF item'[j].status = "SUCCESS" THEN 1 ELSE 0
    BY <1>11 DEF Accounted
  <2>1. n \in News
    BY <1>1 DEF Types, Table, ItemRow
  <2>2. CASE j = i
    BY <1>4, <1>7, <1>9, <2>1, <2>2
  <2>3. CASE j # i
    <3>1. n \notin item[i].news
      BY <1>1, <1>6, <2>3 DEF Books, Disjoint
    <3> QED
      BY <1>5, <1>7, <2>1, <2>3, <3>1 DEF Books, Accounted
  <2> QED
    BY <2>2, <2>3
<1>14. Charged'
  <2>1. \A j \in Items : item[j].root \in Items
    BY <1>1 DEF Types, Table, ItemRow
  <2> QED
    BY <1>8, <1>11, <2>1 DEF Books, Charged
<1>15. CommittedOnce' /\ BudgetPerNews'
  BY <1>1, <1>7, <1>8, <1>9 DEF Books, CommittedOnce, BudgetPerNews, Types
<1> QED
  BY <1>2, <1>9, <1>10, <1>11, <1>12, <1>13, <1>14, <1>15 DEF Books

\* A paid request is charged to the root of the row that holds its news.
LEMMA PayKeeps ==
  ASSUME Inv, Inv', Tasks, Books, NEW s \in Sessions, NEW w \in Workers, Working(s, w), Pays(s, w)
  PROVE  /\ Tasks' /\ Books'
         /\ \A n \in job[s][w].news : commits[n] = 0
         /\ \A i \in Items : Leaf(item[i]) => Leaf(item'[i]) /\ item'[i].news = item[i].news
<1> DEFINE i == job[s][w].item
           r == item[i].root
<1>1. i \in Items /\ item[i] \in ItemRow /\ r \in Items /\ Types
  BY JobItem DEF Inv, Types, Table, ItemRow
<1>2. item[i].owner = s /\ item[i].status \in {"RUNNING", "WAITING"} /\ item[i].news = job[s][w].news
  BY DEF Pays, Holds, Tasks, Remembered, Mine
<1>3. \A j \in Items : item[j] \in ItemRow /\ item'[j] \in ItemRow
  BY DEF Inv, Types, Table
<1>4. \A j \in Items : /\ item'[j].root = item[j].root /\ item'[j].news = item[j].news /\ item'[j].owner = item[j].owner
                       /\ item'[j].status = IF j = i THEN "RUNNING" ELSE item[j].status
                       /\ item'[j].requests = IF j = r THEN item[j].requests + 1 ELSE item[j].requests
  <2> DEFINE charged(j) == IF j = r THEN [item[j] EXCEPT !.requests = @ + 1] ELSE item[j]
  <2>1. item' = [item EXCEPT ![r].requests = @ + 1, ![i].status = "RUNNING"]
    BY DEF Pays
  <2>2. ASSUME NEW j \in Items
        PROVE  item'[j] = IF j = i THEN [charged(j) EXCEPT !.status = "RUNNING"] ELSE charged(j)
    BY <1>1, <2>1 DEF Types, Table
  <2>3. ASSUME NEW j \in Items
        PROVE  /\ charged(j).root = item[j].root /\ charged(j).news = item[j].news
               /\ charged(j).owner = item[j].owner /\ charged(j).status = item[j].status
               /\ charged(j).requests = IF j = r THEN item[j].requests + 1 ELSE item[j].requests
               /\ charged(j) = [status |-> charged(j).status, root |-> charged(j).root, news |-> charged(j).news,
                                owner |-> charged(j).owner, ttl |-> charged(j).ttl, requests |-> charged(j).requests]
    BY <1>3 DEF ItemRow
  <2> HIDE DEF charged
  <2>4. ASSUME NEW j \in Items
        PROVE  LET row == [charged(j) EXCEPT !.status = "RUNNING"]
               IN /\ row.root = charged(j).root /\ row.news = charged(j).news /\ row.owner = charged(j).owner
                  /\ row.status = "RUNNING" /\ row.requests = charged(j).requests
    BY <2>3
  <2> SUFFICES ASSUME NEW j \in Items
               PROVE  /\ item'[j].root = item[j].root /\ item'[j].news = item[j].news /\ item'[j].owner = item[j].owner
                      /\ item'[j].status = IF j = i THEN "RUNNING" ELSE item[j].status
                      /\ item'[j].requests = IF j = r THEN item[j].requests + 1 ELSE item[j].requests
    OBVIOUS
  <2> HIDE DEF i, r
  <2>5. CASE j = i
    <3>1. item'[j] = [charged(j) EXCEPT !.status = "RUNNING"]
      BY <2>2, <2>5
    <3> QED
      BY <2>3, <2>4, <2>5, <3>1
  <2>6. CASE j # i
    <3>1. item'[j] = charged(j)
      BY <2>2, <2>6
    <3> QED
      BY <2>3, <2>6, <3>1
  <2> QED
    BY <2>5, <2>6
<1>5. \A n \in News : paid'[n] = IF n \in item[i].news THEN paid[n] + 1 ELSE paid[n]
  BY <1>1, <1>2 DEF Pays, Bump
<1>6. UNCHANGED commits
  BY DEF Pays
<1> HIDE DEF i, r
<1>7. \A j \in Items : /\ Leaf(item'[j]) <=> Leaf(item[j])
                       /\ item'[j].status = "SUCCESS" <=> item[j].status = "SUCCESS"
  BY <1>2, <1>4 DEF Leaf, RowStatus
<1>8. Leaf(item[i]) /\ item[i].status # "SUCCESS"
  BY <1>2 DEF Leaf, RowStatus
<1>9. \A n \in item[i].news : n \in News /\ commits[n] = 0
  BY <1>1, <1>8 DEF Books, Accounted, ItemRow
<1>10. Tasks'
  <2>1. SameTasks
    <3>1. "sent" \in JobPc
      BY DEF JobPc
    <3> QED
      BY <1>1, <3>1, GotoTasks DEF Pays
  <2> QED
    BY <1>4, <2>1, KeptRowsTasks DEF SameOwner
<1>11. Disjoint'
  BY <1>4, <1>7 DEF Books, Disjoint
<1>12. Accounted'
  BY <1>4, <1>6, <1>7 DEF Books, Accounted
<1>13. Charged'
  <2> SUFFICES ASSUME NEW j \in Items, Leaf(item[j]), NEW n \in item[j].news
               PROVE  paid'[n] <= item'[item[j].root].requests
    BY <1>4, <1>7 DEF Charged
  <2>1. n \in News /\ paid[n] \in Nat
    BY <1>1 DEF Types, Table, ItemRow
  <2>2. item[j].root \in Items /\ item[item[j].root].requests \in Nat
    BY <1>3 DEF ItemRow
  <2>3. paid[n] <= item[item[j].root].requests
    BY DEF Books, Charged
  <2>4. CASE j = i
    BY <1>4, <1>5, <2>1, <2>2, <2>3, <2>4 DEF r, i
  <2>5. CASE j # i
    <3>1. n \notin item[i].news
      BY <1>1, <1>8, <2>5 DEF Books, Disjoint
    <3> QED
      BY <1>4, <1>5, <2>1, <2>2, <2>3, <3>1
  <2> QED
    BY <2>4, <2>5
<1>14. CommittedOnce'
  BY <1>6 DEF Books, CommittedOnce
<1>15. BudgetPerNews'
  <2> SUFFICES ASSUME NEW n \in News PROVE paid'[n] <= MaxRequests
    BY DEF BudgetPerNews
  <2>1. CASE n \in item[i].news
    <3>1. Leaf(item'[i]) /\ n \in item'[i].news /\ item'[i].root \in Items
      BY <1>1, <1>3, <1>4, <1>7, <1>8, <2>1 DEF ItemRow
    <3>2. paid'[n] <= item'[item'[i].root].requests
      BY <1>1, <1>13, <3>1 DEF Charged
    <3>3. item'[item'[i].root].requests \in 0 .. MaxRequests
      BY <1>3, <3>1 DEF ItemRow
    <3>4. paid'[n] \in Nat
      BY DEF Inv, Types
    <3> QED
      BY <3>2, <3>3, <3>4, RequestsAssumption
  <2>2. CASE n \notin item[i].news
    BY <1>5, <2>2 DEF Books, BudgetPerNews
  <2> QED
    BY <2>1, <2>2
<1> QED
  BY <1>2, <1>4, <1>7, <1>9, <1>10, <1>11, <1>12, <1>13, <1>14, <1>15 DEF Books

\* A root is a row: it is the leaf itself or has been split.
LEMMA RootStored ==
  ASSUME Inv, NEW i \in Items, Leaf(item[i])
  PROVE  item[i].root \in Items /\ item[i].root \notin Fresh
<1>1. item[i].root \in Items
  BY DEF Inv, Types, Table, ItemRow
<1>2. item[i].root = i \/ item[item[i].root].status = "SPLIT"
  BY DEF Inv, ChildrenOfSplit, Rows, Leaf
<1> QED
  BY <1>1, <1>2 DEF Fresh, Leaf, RowStatus

\* A split hands the batch of its row to two new ones.
LEMMA SplitKeeps ==
  ASSUME Inv, Inv', Tasks, Books, NEW s \in Sessions, NEW w \in Workers, Working(s, w), Splits(s, w)
  PROVE  Tasks' /\ Books' /\ Moved
<1> DEFINE i == job[s][w].item
<1>1. i \in Items /\ item[i] \in ItemRow /\ Types
  BY JobItem DEF Inv, Types, Table
<1>2. item[i].owner = s /\ item[i].status \in {"RUNNING", "WAITING"} /\ item[i].news = job[s][w].news
  BY <1>1, NoneAssumption DEF Splits, Tasks, Remembered, Mine, Inv, OwnersWork
<1>3. PICK first \in Halves(job[s][w].news), a \in Fresh, b \in Fresh :
        /\ a # b
        /\ item' = [Park(i, "SPLIT") EXCEPT ![a] = NewRow(item[i].root, first),
                                            ![b] = NewRow(item[i].root, job[s][w].news \ first)]
  BY DEF Splits
<1>4. Leaf(item[i]) /\ i \notin Fresh /\ item[i].status # "SUCCESS"
  BY <1>2 DEF Leaf, RowStatus, Fresh
<1>5. /\ item'[i] = [item[i] EXCEPT !.status = "SPLIT", !.owner = None, !.ttl = -1]
      /\ item'[a] = NewRow(item[i].root, first)
      /\ item'[b] = NewRow(item[i].root, job[s][w].news \ first)
      /\ \A j \in Items \ {i, a, b} : item'[j] = item[j]
  BY <1>1, <1>3, <1>4 DEF Park, Types, Table, Fresh
<1>6. /\ item'[i].status = "SPLIT" /\ item'[i].owner = None
      /\ item'[i].root = item[i].root /\ item'[i].requests = item[i].requests
  BY <1>1, <1>5 DEF ItemRow
<1>7. first \subseteq item[i].news
  BY <1>2, <1>3 DEF Halves
<1> DEFINE r == item[i].root
<1>8. /\ item'[a].news = first /\ item'[a].root = r /\ item'[a].status = "PENDING" /\ item'[a].owner = None
      /\ item'[b].news = item[i].news \ first /\ item'[b].root = r /\ item'[b].status = "PENDING" /\ item'[b].owner = None
  <2>1. /\ item'[a] = NewRow(r, first) /\ item'[b] = NewRow(r, item[i].news \ first)
    BY <1>2, <1>5
  <2> HIDE DEF r, i
  <2>2. \A S : /\ NewRow(r, S).news = S /\ NewRow(r, S).root = r
               /\ NewRow(r, S).status = "PENDING" /\ NewRow(r, S).owner = None
    BY NewRowFields
  <2> QED
    BY <2>1, <2>2
<1>9. a \in Items /\ b \in Items /\ ~Leaf(item[a]) /\ ~Leaf(item[b])
  BY DEF Fresh, Leaf, RowStatus
<1>10. ~Leaf(item'[i]) /\ Leaf(item'[a]) /\ Leaf(item'[b])
  BY <1>6, <1>8 DEF Leaf, RowStatus
<1>11. \A j \in Items : Leaf(item[j]) => item'[item[j].root].requests = item[item[j].root].requests
  <2> SUFFICES ASSUME NEW j \in Items, Leaf(item[j])
               PROVE  item'[item[j].root].requests = item[item[j].root].requests
    OBVIOUS
  <2>1. item[j].root \in Items /\ item[j].root \notin Fresh
    BY RootStored
  <2> QED
    BY <1>5, <1>6, <2>1
<1>12. UNCHANGED <<commits, paid>>
  BY DEF Splits
<1>13. SetJob(s, w, NoJob)
  BY DEF Splits
<1> HIDE DEF i, r
<1>14. Tasks'
  <2>1. SameTasks
    <3>1. NoJob.pc = "idle"
      BY DEF NoJob
    <3> QED
      BY <1>1, <1>13, <3>1, SetJobTasks
  <2> QED
    BY <1>5, <1>6, <1>8, <2>1, KeptRowsTasks DEF SameOwner
<1>15. Moved
  <2>1. ASSUME NEW j \in Items, Leaf(item'[j]), NEW n \in item'[j].news
        PROVE  \E k \in Items : /\ Leaf(item[k]) /\ n \in item[k].news
                                /\ item'[j].status = "SUCCESS" <=> item[k].status = "SUCCESS"
                                /\ item[item[k].root].requests <= item'[item'[j].root].requests
    <3>1. \A k \in Items : Leaf(item[k]) => item[item[k].root].requests \in Nat
      BY <1>1, RootStored DEF Types, Table, ItemRow
    <3>2. CASE j \in {a, b}
      <4>1. n \in item[i].news /\ item'[j].status # "SUCCESS" /\ item'[j].root = item[i].root
        BY <1>7, <1>8, <2>1, <3>2 DEF r
      <4>2. item[item[i].root].requests <= item'[item'[j].root].requests
        BY <1>1, <1>4, <1>11, <3>1, <4>1
      <4> QED
        BY <1>1, <1>4, <4>1, <4>2
    <3>3. CASE j \notin {a, b}
      <4>1. item'[j] = item[j]
        BY <1>5, <1>10, <2>1, <3>3
      <4> QED
        BY <1>11, <2>1, <3>1, <4>1
    <3> QED
      BY <3>2, <3>3
  <2>2. ASSUME NEW k \in Items, Leaf(item[k]), NEW n \in item[k].news
        PROVE  \E j \in Items : Leaf(item'[j]) /\ n \in item'[j].news
    <3>1. CASE k = i
      BY <1>8, <1>9, <1>10, <2>2, <3>1
    <3>2. CASE k # i
      <4>1. item'[k] = item[k]
        BY <1>5, <1>9, <2>2, <3>2
      <4> QED
        BY <2>2, <4>1
    <3> QED
      BY <3>1, <3>2
  <2>3. \A j \in Items : Leaf(item'[j]) => IF j \in {a, b} THEN item'[j].news \subseteq item[i].news
                                          ELSE j # i /\ Leaf(item[j]) /\ item'[j].news = item[j].news
    BY <1>5, <1>7, <1>8, <1>10
  <2>4. Disjoint'
    <3> SUFFICES ASSUME NEW j \in Items, NEW k \in Items, j # k, Leaf(item'[j]), Leaf(item'[k])
                 PROVE  item'[j].news \cap item'[k].news = {}
      BY DEF Disjoint
    <3>1. CASE j \in {a, b} /\ k \in {a, b}
      BY <1>8, <3>1
    <3>2. CASE ~(j \in {a, b} /\ k \in {a, b})
      BY <1>1, <1>4, <2>3, <3>2 DEF Books, Disjoint
    <3> QED
      BY <3>1, <3>2
  <2> QED
    BY <2>1, <2>2, <2>4 DEF Moved
<1> QED
  BY <1>12, <1>14, <1>15, MovedBooks

\* A claim gives its worker a row that nobody works on.
LEMMA ClaimTasks ==
  ASSUME Inv, Tasks, Calm, NEW s \in Sessions, NEW w \in Workers, ClaimTask(s, w)
  PROVE  Tasks'
<1>1. PICK i \in Items : /\ Claimable(i)
                         /\ \E rows \in Repackings(i) :
                              /\ item' = [rows EXCEPT ![i].status = "RUNNING", ![i].owner = s, ![i].ttl = LeaseTicks]
                              /\ SetJob(s, w, [pc |-> "resolve", item |-> i, news |-> rows[i].news])
  BY DEF ClaimTask
<1>2. PICK rows \in Repackings(i) :
        /\ item' = [rows EXCEPT ![i].status = "RUNNING", ![i].owner = s, ![i].ttl = LeaseTicks]
        /\ SetJob(s, w, [pc |-> "resolve", item |-> i, news |-> rows[i].news])
  BY <1>1
<1>3. Types /\ rows \in Table
  BY RepackType DEF Inv, Types
<1>4. \A k \in Items : k # i => item'[k] = rows[k]
  BY <1>2, <1>3 DEF Table
<1>5. item'[i].owner = s /\ item'[i].news = rows[i].news
  <2>1. item'[i] = [rows[i] EXCEPT !.status = "RUNNING", !.owner = s, !.ttl = LeaseTicks] /\ rows[i] \in ItemRow
    BY <1>2, <1>3 DEF Table
  <2> QED
    BY <2>1 DEF ItemRow
<1>6. ASSUME NEW k \in Items, k # i, rows[k].owner # None
      PROVE  rows[k] = item[k]
  <2>1. CASE rows = item
    BY <2>1
  <2>2. ASSUME NEW more, rows = Absorb(i, more) PROVE rows[k] = item[k]
    <3>1. item[k] \in ItemRow
      BY <1>3 DEF Types, Table
    <3> QED
      BY <1>6, <2>2, <3>1 DEF Absorb, Untried, ItemRow
  <2>3. ASSUME NEW head, NEW new \in Fresh, rows = CutOff(i, head, new) PROVE rows[k] = item[k]
    <3>1. CASE k = new
      <4>1. rows[k] = NewRow(new, item[i].news \ head)
        BY <1>3, <2>3, <3>1 DEF CutOff, Types, Table, Fresh
      <4> QED
        BY <1>6, <4>1, NewRowFields
    <3>2. CASE k # new
      BY <1>3, <1>6, <2>3, <3>2 DEF CutOff, Types, Table
    <3> QED
      BY <3>1, <3>2
  <2> QED
    BY <2>1, <2>2, <2>3 DEF Repackings
<1>7. \A k \in Items : k # i /\ item'[k].owner # None => item'[k] = item[k]
  BY <1>4, <1>6
<1>8. /\ job'[s][w] = [pc |-> "resolve", item |-> i, news |-> rows[i].news]
      /\ \A t \in Sessions, v \in Workers : <<t, v>> # <<s, w>> => job'[t][v] = job[t][v]
  BY <1>2, <1>3 DEF SetJob, Types
<1>9. ASSUME NEW v \in Workers, v # w, Working(s, v)
      PROVE  job[s][v].item # i
  BY <1>1, <1>9, NoneAssumption DEF Calm, OneWorker, Entitled, Mine, Claimable
<1>10. ASSUME NEW t \in Sessions, NEW v \in Workers, <<t, v>> # <<s, w>>, Mine(t, v)'
       PROVE  /\ Mine(t, v) /\ job'[t][v] = job[t][v] /\ job[t][v].item # i
              /\ item'[job[t][v].item] = item[job[t][v].item]
  <2>1. Working(t, v) /\ job'[t][v] = job[t][v]
    BY <1>8, <1>10 DEF Mine, Working
  <2>2. job[t][v].item \in Items
    BY <1>3, <2>1, JobItem
  <2>3. item'[job[t][v].item].owner = t
    BY <1>10, <2>1 DEF Mine
  <2>4. job[t][v].item # i
    BY <1>5, <1>9, <1>10, <2>1, <2>3
  <2> QED
    BY <1>7, <2>1, <2>2, <2>3, <2>4, NoneAssumption DEF Mine
<1>11. Remembered'
  <2> SUFFICES ASSUME NEW t \in Sessions, NEW v \in Workers, Mine(t, v)'
               PROVE  item'[job'[t][v].item].news = job'[t][v].news
    BY DEF Remembered
  <2>1. CASE <<t, v>> = <<s, w>>
    BY <1>5, <1>8, <2>1
  <2>2. CASE <<t, v>> # <<s, w>>
    BY <1>10, <2>2 DEF Tasks, Remembered
  <2> QED
    BY <2>1, <2>2
<1>12. Alone'
  <2> SUFFICES ASSUME NEW t \in Sessions, NEW v \in Workers, NEW u \in Workers, v # u, Mine(t, v)', Working(t, u)'
               PROVE  job'[t][v].item # job'[t][u].item
    BY DEF Alone
  <2>1. CASE <<t, v>> = <<s, w>>
    BY <1>8, <1>9, <2>1 DEF Working
  <2>2. CASE <<t, v>> # <<s, w>> /\ <<t, u>> = <<s, w>>
    BY <1>8, <1>10, <2>2
  <2>3. CASE <<t, v>> # <<s, w>> /\ <<t, u>> # <<s, w>>
    BY <1>8, <1>10, <2>3 DEF Tasks, Alone, Working
  <2> QED
    BY <2>1, <2>2, <2>3
<1> QED
  BY <1>11, <1>12 DEF Tasks

\* Batches of other untried roots go to the claimed one.
LEMMA AbsorbMoves ==
  ASSUME Inv, Books, NEW i \in Items, Untried(i), NEW more \in Absorbable(i)
  PROVE  LET rows == Absorb(i, more)
         IN /\ \A j \in Items : /\ rows[j].root = item[j].root /\ rows[j].requests = item[j].requests
                                /\ Leaf(rows[j]) => Leaf(item[j]) /\ rows[j].status = item[j].status
                                /\ j # i => rows[j].news \subseteq item[j].news
                                /\ j # i /\ Leaf(rows[j]) => rows[j].news \cap more = {}
            /\ Leaf(rows[i]) /\ rows[i].news = item[i].news \cup more
            /\ \A j \in Items : Leaf(item[j]) => /\ item[j].news \subseteq rows[j].news \cup more
                                                 /\ rows[j].news # {} => Leaf(rows[j])
<1> DEFINE rows == Absorb(i, more)
<1>1. \A j \in Items : item[j] \in ItemRow
  BY DEF Inv, Types, Table
<1>2. /\ rows[i] = [item[i] EXCEPT !.news = item[i].news \cup more]
      /\ Leaf(item[i]) /\ Untried(i)
  BY DEF Absorb, Untried, Leaf, RowStatus
<1>3. ASSUME NEW n \in more PROVE \E k \in Items \ {i} : Untried(k) /\ n \in item[k].news
  BY <1>3 DEF Absorbable
<1>4. ASSUME NEW j \in Items, j # i
      PROVE  \/ rows[j] = item[j] /\ (~Untried(j) \/ item[j].news \cap more = {})
             \/ Untried(j) /\ item[j].news \subseteq more /\ rows[j] = [item[j] EXCEPT !.status = "deleted", !.news = {}]
             \/ Untried(j) /\ rows[j] = [item[j] EXCEPT !.news = item[j].news \ more]
  BY <1>4 DEF Absorb
<1>5. ASSUME NEW j \in Items, j # i, ~Untried(j), Leaf(item[j])
      PROVE  item[j].news \cap more = {}
  <2> SUFFICES ASSUME NEW n \in more, n \in item[j].news PROVE FALSE
    OBVIOUS
  <2>1. PICK k \in Items \ {i} : Untried(k) /\ n \in item[k].news
    BY <1>3
  <2>2. Leaf(item[k]) /\ k # j
    BY <1>5, <2>1 DEF Untried, Leaf, RowStatus
  <2> QED
    BY <1>5, <2>1, <2>2 DEF Books, Disjoint
<1>6. /\ rows[i].root = item[i].root /\ rows[i].requests = item[i].requests
      /\ rows[i].status = item[i].status /\ rows[i].news = item[i].news \cup more
  BY <1>1, <1>2 DEF ItemRow
<1>7. ASSUME NEW j \in Items, j # i
      PROVE  /\ rows[j].root = item[j].root /\ rows[j].requests = item[j].requests
             /\ Leaf(rows[j]) => Leaf(item[j]) /\ rows[j].status = item[j].status
             /\ rows[j].news \subseteq item[j].news
             /\ Leaf(rows[j]) => rows[j].news \cap more = {}
             /\ item[j].news \subseteq rows[j].news \cup more
             /\ Leaf(item[j]) /\ rows[j].news # {} => Leaf(rows[j])
  <2>1. CASE rows[j] = item[j] /\ (~Untried(j) \/ item[j].news \cap more = {})
    BY <1>5, <1>7, <2>1
  <2>2. CASE Untried(j) /\ item[j].news \subseteq more /\ rows[j] = [item[j] EXCEPT !.status = "deleted", !.news = {}]
    <3>1. /\ rows[j].root = item[j].root /\ rows[j].requests = item[j].requests
          /\ rows[j].status = "deleted" /\ rows[j].news = {}
      BY <1>1, <2>2 DEF ItemRow
    <3> QED
      BY <2>2, <3>1 DEF Leaf, RowStatus
  <2>3. CASE Untried(j) /\ rows[j] = [item[j] EXCEPT !.news = item[j].news \ more]
    <3>1. /\ rows[j].root = item[j].root /\ rows[j].requests = item[j].requests
          /\ rows[j].status = item[j].status /\ rows[j].news = item[j].news \ more
      BY <1>1, <2>3 DEF ItemRow
    <3> QED
      BY <3>1 DEF Leaf
  <2> QED
    BY <1>4, <1>7, <2>1, <2>2, <2>3
<1> HIDE DEF rows
<1>8. Leaf(rows[i])
  BY <1>2, <1>6 DEF Leaf
<1>9. /\ \A j \in Items : /\ rows[j].root = item[j].root /\ rows[j].requests = item[j].requests
                          /\ Leaf(rows[j]) => Leaf(item[j]) /\ rows[j].status = item[j].status
                          /\ j # i => rows[j].news \subseteq item[j].news
                          /\ j # i /\ Leaf(rows[j]) => rows[j].news \cap more = {}
      /\ \A j \in Items : Leaf(item[j]) => /\ item[j].news \subseteq rows[j].news \cup more
                                           /\ rows[j].news # {} => Leaf(rows[j])
  BY <1>2, <1>6, <1>7, <1>8
<1> QED
  BY <1>6, <1>8, <1>9 DEF rows

\* Where the news of the rows are after a repack.
Repacked(rows) ==
  /\ \A j \in Items : Leaf(rows[j]) => \A n \in rows[j].news :
       \E k \in Items : /\ Leaf(item[k]) /\ n \in item[k].news
                        /\ rows[j].status = "SUCCESS" <=> item[k].status = "SUCCESS"
                        /\ item[item[k].root].requests <= rows[rows[j].root].requests
  /\ \A k \in Items : Leaf(item[k]) => \A n \in item[k].news :
       \E j \in Items : Leaf(rows[j]) /\ n \in rows[j].news
  /\ \A j, k \in Items : j # k /\ Leaf(rows[j]) /\ Leaf(rows[k]) => rows[j].news \cap rows[k].news = {}

LEMMA AbsorbRepacks ==
  ASSUME Inv, Books, NEW i \in Items, Untried(i), NEW more \in Absorbable(i)
  PROVE  Repacked(Absorb(i, more))
<1> DEFINE rows == Absorb(i, more)
<1>1. /\ \A j \in Items : /\ rows[j].root = item[j].root /\ rows[j].requests = item[j].requests
                          /\ Leaf(rows[j]) => Leaf(item[j]) /\ rows[j].status = item[j].status
                          /\ j # i => rows[j].news \subseteq item[j].news
                          /\ j # i /\ Leaf(rows[j]) => rows[j].news \cap more = {}
      /\ Leaf(rows[i]) /\ rows[i].news = item[i].news \cup more
      /\ \A j \in Items : Leaf(item[j]) => /\ item[j].news \subseteq rows[j].news \cup more
                                           /\ rows[j].news # {} => Leaf(rows[j])
  BY AbsorbMoves
<1>2. \A n \in more : \E k \in Items : Untried(k) /\ n \in item[k].news
  BY DEF Absorbable
<1>3. \A j \in Items : item[j].root \in Items /\ item[j].requests \in Nat
  BY DEF Inv, Types, Table, ItemRow
<1> HIDE DEF rows
<1>4. ASSUME NEW j \in Items, Leaf(rows[j]), NEW n \in rows[j].news
      PROVE  \E k \in Items : /\ Leaf(item[k]) /\ n \in item[k].news
                              /\ rows[j].status = "SUCCESS" <=> item[k].status = "SUCCESS"
                              /\ item[item[k].root].requests <= rows[rows[j].root].requests
  <2>1. rows[rows[j].root].requests = item[item[j].root].requests /\ rows[rows[j].root].requests \in Nat
    BY <1>1, <1>3
  <2>2. CASE n \in item[j].news
    BY <1>1, <1>3, <1>4, <2>1, <2>2
  <2>3. CASE n \notin item[j].news
    <3>1. j = i /\ n \in more
      BY <1>1, <1>4, <2>3
    <3>2. PICK k \in Items : Untried(k) /\ n \in item[k].news
      BY <1>2, <3>1
    <3>3. Leaf(item[k]) /\ item[k].status # "SUCCESS" /\ item[item[k].root].requests = 0
      BY <3>2 DEF Untried, Leaf, RowStatus
    <3>4. rows[j].status # "SUCCESS"
      BY <1>1, <3>1 DEF Untried
    <3> QED
      BY <2>1, <3>2, <3>3, <3>4
  <2> QED
    BY <2>2, <2>3
<1>5. ASSUME NEW k \in Items, Leaf(item[k]), NEW n \in item[k].news
      PROVE  \E j \in Items : Leaf(rows[j]) /\ n \in rows[j].news
  BY <1>1, <1>5
<1>6. ASSUME NEW j \in Items, NEW k \in Items, j # k, Leaf(rows[j]), Leaf(rows[k])
      PROVE  rows[j].news \cap rows[k].news = {}
  <2>1. item[j].news \cap item[k].news = {}
    BY <1>1, <1>6 DEF Books, Disjoint
  <2> QED
    BY <1>1, <1>6, <2>1
<1> QED
  BY <1>4, <1>5, <1>6 DEF Repacked, rows

LEMMA CutOffRepacks ==
  ASSUME Inv, Books, NEW i \in Items, Untried(i), NEW head \in SUBSET item[i].news, NEW new \in Fresh
  PROVE  Repacked(CutOff(i, head, new))
<1> DEFINE rows == CutOff(i, head, new)
<1>1. new \in Items /\ new # i /\ Leaf(item[i]) /\ ~Leaf(item[new])
  BY DEF Fresh, Untried, Leaf, RowStatus
<1>2. \A j \in Items : item[j] \in ItemRow
  BY DEF Inv, Types, Table
<1>3. /\ rows[i] = [item[i] EXCEPT !.news = head]
      /\ rows[new] = NewRow(new, item[i].news \ head)
      /\ \A j \in Items \ {i, new} : rows[j] = item[j]
  BY <1>1 DEF CutOff, Inv, Types, Table
<1>4. /\ rows[i].status = item[i].status /\ rows[i].root = item[i].root
      /\ rows[i].requests = item[i].requests /\ rows[i].news = head
  BY <1>2, <1>3 DEF ItemRow
<1> HIDE DEF rows
<1>5. /\ rows[new].status = "PENDING" /\ rows[new].root = new
      /\ rows[new].requests = 0 /\ rows[new].news = item[i].news \ head
  <2>1. \A S : /\ NewRow(new, S).status = "PENDING" /\ NewRow(new, S).root = new
               /\ NewRow(new, S).requests = 0 /\ NewRow(new, S).news = S
    BY NewRowFields
  <2> QED
    BY <1>3, <2>1
<1>6. Leaf(rows[i]) /\ Leaf(rows[new])
  BY <1>1, <1>4, <1>5 DEF Leaf, RowStatus
<1>7. \A j \in Items : Leaf(item[j]) => /\ item[j].root \in Items /\ item[item[j].root].requests \in Nat
                                        /\ rows[item[j].root].requests = item[item[j].root].requests
  <2> SUFFICES ASSUME NEW j \in Items, Leaf(item[j])
               PROVE  /\ item[j].root \in Items /\ item[item[j].root].requests \in Nat
                      /\ rows[item[j].root].requests = item[item[j].root].requests
    OBVIOUS
  <2>1. item[j].root \in Items /\ item[j].root # new
    BY RootStored
  <2>2. item[item[j].root].requests \in Nat
    BY <1>2, <2>1 DEF ItemRow
  <2> QED
    BY <1>3, <1>4, <2>1, <2>2
<1>8. item[i].status = "PENDING" /\ item[i].root = i /\ item[i].requests = 0
  BY DEF Untried
<1>9. ASSUME NEW j \in Items, Leaf(rows[j]), NEW n \in rows[j].news
      PROVE  \E k \in Items : /\ Leaf(item[k]) /\ n \in item[k].news
                              /\ rows[j].status = "SUCCESS" <=> item[k].status = "SUCCESS"
                              /\ item[item[k].root].requests <= rows[rows[j].root].requests
  <2>1. CASE j = new
    BY <1>1, <1>5, <1>8, <1>9, <2>1
  <2>2. CASE j = i
    BY <1>1, <1>4, <1>7, <1>8, <1>9, <2>2
  <2>3. CASE j \notin {i, new}
    BY <1>3, <1>7, <1>9, <2>3
  <2> QED
    BY <2>1, <2>2, <2>3
<1>10. ASSUME NEW k \in Items, Leaf(item[k]), NEW n \in item[k].news
       PROVE  \E j \in Items : Leaf(rows[j]) /\ n \in rows[j].news
  <2>1. CASE k = i
    BY <1>1, <1>4, <1>5, <1>6, <1>10, <2>1
  <2>2. CASE k # i
    <3>1. rows[k] = item[k]
      BY <1>1, <1>3, <1>10, <2>2
    <3> QED
      BY <1>10, <3>1
  <2> QED
    BY <2>1, <2>2
<1>11. ASSUME NEW j \in Items, NEW k \in Items, j # k, Leaf(rows[j]), Leaf(rows[k])
       PROVE  rows[j].news \cap rows[k].news = {}
  <2>1. ASSUME NEW m \in Items, Leaf(rows[m])
        PROVE  IF m \in {i, new} THEN rows[m].news \subseteq item[i].news
               ELSE Leaf(item[m]) /\ rows[m].news = item[m].news
    BY <1>3, <1>4, <1>5, <2>1
  <2>2. CASE j \in {i, new} /\ k \in {i, new}
    BY <1>4, <1>5, <1>11, <2>2
  <2>3. CASE ~(j \in {i, new} /\ k \in {i, new})
    BY <1>1, <1>11, <2>1, <2>3 DEF Books, Disjoint
  <2> QED
    BY <2>2, <2>3
<1> QED
  BY <1>9, <1>10, <1>11 DEF Repacked, rows

\* A claim moves news only between rows nobody has paid for.
LEMMA ClaimMoved ==
  ASSUME Inv, Books, NEW s \in Sessions, NEW w \in Workers, ClaimTask(s, w)
  PROVE  Moved
<1>1. PICK i \in Items : /\ Claimable(i)
                         /\ \E rows \in Repackings(i) :
                              item' = [rows EXCEPT ![i].status = "RUNNING", ![i].owner = s, ![i].ttl = LeaseTicks]
  BY DEF ClaimTask
<1>2. PICK rows \in Repackings(i) :
        item' = [rows EXCEPT ![i].status = "RUNNING", ![i].owner = s, ![i].ttl = LeaseTicks]
  BY <1>1
<1>3. rows \in Table
  BY RepackType DEF Inv, Types
<1>4. \A j \in Items : item[j].root \in Items /\ item[item[j].root].requests \in Nat
  BY DEF Inv, Types, Table, ItemRow
<1>5. Repacked(rows)
  <2>1. CASE rows = item
    BY <1>4, <2>1 DEF Repacked, Books, Disjoint
  <2>2. CASE rows # item
    BY <2>2, AbsorbRepacks, CutOffRepacks DEF Repackings
  <2> QED
    BY <2>1, <2>2
<1>6. Leaf(rows[i]) /\ rows[i].status # "SUCCESS"
  <2>1. item[i] \in ItemRow /\ item[i].status \in {"PENDING", "WAITING"}
    BY <1>1 DEF Inv, Types, Table, Claimable
  <2>2. rows[i].status = item[i].status
    <3>1. CASE rows = item
      BY <3>1
    <3>2. ASSUME NEW more, rows = Absorb(i, more) PROVE rows[i].status = item[i].status
      BY <2>1, <3>2 DEF Absorb, ItemRow
    <3>3. ASSUME NEW head, NEW new \in Fresh, rows = CutOff(i, head, new) PROVE rows[i].status = item[i].status
      <4>1. i # new
        BY <2>1 DEF Fresh
      <4>2. rows[i] = [item[i] EXCEPT !.news = head]
        BY <3>3, <4>1 DEF CutOff, Inv, Types, Table
      <4> QED
        BY <2>1, <4>2 DEF ItemRow
    <3> QED
      BY <3>1, <3>2, <3>3 DEF Repackings
  <2> QED
    BY <2>1, <2>2 DEF Leaf, RowStatus
<1>7. /\ item'[i].status = "RUNNING" /\ item'[i].root = rows[i].root
      /\ item'[i].news = rows[i].news /\ item'[i].requests = rows[i].requests
      /\ \A j \in Items : j # i => item'[j] = rows[j]
  <2>1. item'[i] = [rows[i] EXCEPT !.status = "RUNNING", !.owner = s, !.ttl = LeaseTicks] /\ rows[i] \in ItemRow
    BY <1>2, <1>3 DEF Table
  <2>2. \A j \in Items : j # i => item'[j] = rows[j]
    BY <1>2, <1>3 DEF Table
  <2> QED
    BY <2>1, <2>2 DEF ItemRow
<1>8. \A j \in Items : /\ Leaf(item'[j]) <=> Leaf(rows[j])
                       /\ item'[j].status = "SUCCESS" <=> rows[j].status = "SUCCESS"
                       /\ item'[j].news = rows[j].news /\ item'[j].root = rows[j].root
                       /\ item'[j].requests = rows[j].requests
  BY <1>6, <1>7 DEF Leaf, RowStatus
<1>9. \A j \in Items : rows[j].root \in Items
  BY <1>3 DEF Table, ItemRow
<1>10. Disjoint'
  BY <1>5, <1>8 DEF Repacked, Disjoint
<1> QED
  BY <1>5, <1>8, <1>9, <1>10 DEF Repacked, Moved

-----------------------------------------------------------------------------
(* The invariant is inductive *)

\* What a step does to the books, one way or another.
Writes(s, w) == Pays(s, w) \/ Commits(s, w) \/ Splits(s, w)

LEMMA Kinds ==
  ASSUME Inv, [Next]_vars
  PROVE  \/ Quiet
         \/ \E s \in Sessions : Prepare(s) /\ Rows = {}
         \/ \E s \in Sessions, w \in Workers : ClaimTask(s, w)
         \/ \E s \in Sessions, w \in Workers : Working(s, w) /\ Writes(s, w)
<1>1. CASE UNCHANGED vars
  BY <1>1, SameRow, KeptTasks DEF vars, Quiet
<1>2. ASSUME NEW s \in Sessions, Start(s) \/ Renew(s) \/ Abort(s) \/ Crash(s) \/ SessionStep(s)
      PROVE  Quiet \/ (Prepare(s) /\ Rows = {})
  BY <1>2, SessionQuiet, RequeueQuiet DEF SessionStep
<1>3. ASSUME NEW s \in Sessions, NEW w \in Workers, WorkerStep(s, w)
      PROVE  Quiet \/ ClaimTask(s, w) \/ (Working(s, w) /\ Writes(s, w))
  BY <1>3, WorkerQuiet DEF Writes
<1> QED
  BY <1>1, <1>2, <1>3, TickQuiet DEF Next

\* Outcomes come in batches of news that had none.
Delivery ==
  \E batch \in SUBSET News :
    /\ \A n \in batch : commits[n] = 0
    /\ commits' = [n \in News |-> IF n \in batch THEN 1 ELSE commits[n]]

Kept ==
  \A n \in News : commits[n] = 0 => \A i \in Items : Leaf(item[i]) /\ n \in item[i].news =>
    \E j \in Items : Leaf(item'[j]) /\ n \in item'[j].news

LEMMA NoDelivery ==
  ASSUME commits \in [News -> Nat], UNCHANGED commits
  PROVE  Delivery
<1>1. commits' = [n \in News |-> IF n \in {} THEN 1 ELSE commits[n]]
  OBVIOUS
<1> QED
  BY <1>1, {} \in SUBSET News DEF Delivery

LEMMA StepBooks ==
  ASSUME Inv, Inv', Tasks, Books, Planning, Calm, [Next]_vars
  PROVE  /\ Tasks' /\ Books' /\ Delivery
         /\ \A n \in News : paid'[n] > paid[n] => commits[n] = 0
         /\ Kept
<1>1. commits \in [News -> Nat] /\ paid \in [News -> Nat] /\ item \in Table
  BY DEF Inv, Types
<1>2. CASE Tasks' /\ Moved /\ UNCHANGED <<commits, paid>>
  <2>1. Kept
    BY <1>2 DEF Moved, Kept
  <2>2. Delivery
    BY <1>1, <1>2, NoDelivery
  <2>3. \A n \in News : ~(paid'[n] > paid[n])
    BY <1>1, <1>2
  <2> QED
    BY <1>2, <2>1, <2>2, <2>3, MovedBooks
<1>3. CASE Quiet
  BY <1>2, <1>3, QuietKeeps, QuietMoved DEF Quiet
<1>4. ASSUME NEW s \in Sessions, Prepare(s), Rows = {}
      PROVE  /\ Tasks' /\ Books' /\ Delivery /\ Kept
             /\ \A n \in News : paid'[n] > paid[n] => commits[n] = 0
  <2>1. PICK batch \in [Fresh -> SUBSET {n \in News : commits[n] = 0}] :
          commits' = [n \in News |-> IF \E i \in Fresh : n \in batch[i] THEN 0 ELSE 1]
    BY <1>4 DEF Prepare
  <2>2. \A n \in News : commits[n] \in {0, 1}
    BY <1>1 DEF Books, CommittedOnce
  <2>3. Delivery
    <3> DEFINE done == {n \in News : commits[n] = 0 /\ ~\E i \in Fresh : n \in batch[i]}
    <3>1. \A n \in News : commits'[n] = IF n \in done THEN 1 ELSE commits[n]
      BY <2>1, <2>2
    <3>2. commits' = [n \in News |-> IF n \in done THEN 1 ELSE commits[n]]
      BY <2>1, <3>1
    <3> QED
      BY <3>2 DEF Delivery
  <2>4. UNCHANGED paid
    BY <1>4 DEF Prepare
  <2>5. Kept
    BY <1>4 DEF Kept, Rows, Leaf
  <2> QED
    BY <1>1, <1>4, <2>3, <2>4, <2>5, PlanKeeps
<1>5. ASSUME NEW s \in Sessions, NEW w \in Workers, ClaimTask(s, w)
      PROVE  Tasks' /\ Moved /\ UNCHANGED <<commits, paid>>
  BY <1>5, ClaimTasks, ClaimMoved DEF ClaimTask
<1>6. ASSUME NEW s \in Sessions, NEW w \in Workers, Working(s, w), Writes(s, w)
      PROVE  /\ Tasks' /\ Books' /\ Delivery /\ Kept
             /\ \A n \in News : paid'[n] > paid[n] => commits[n] = 0
  <2> DEFINE batch == job[s][w].news
  <2>1. batch \in SUBSET News
    BY <1>6, JobItem DEF Inv
  <2>2. CASE Pays(s, w)
    <3>1. paid' = Bump(paid, batch) /\ UNCHANGED commits
      BY <2>2 DEF Pays
    <3>2. \A n \in News : paid'[n] > paid[n] => n \in batch
      BY <1>1, <3>1 DEF Bump
    <3>3. Delivery
      BY <1>1, <3>1, NoDelivery
    <3>4. Tasks' /\ Books' /\ Kept /\ \A n \in batch : commits[n] = 0
      BY <1>6, <2>2, PayKeeps DEF Kept
    <3> QED
      BY <3>2, <3>3, <3>4
  <2>3. CASE Commits(s, w)
    <3>1. commits' = Bump(commits, batch) /\ UNCHANGED paid
      BY <2>3 DEF Commits
    <3>2. Tasks' /\ Books' /\ Kept /\ \A n \in batch : commits[n] = 0
      BY <1>6, <2>3, CommitKeeps DEF Kept
    <3>3. commits' = [n \in News |-> IF n \in batch THEN 1 ELSE commits[n]]
      <4>1. \A n \in News : commits'[n] = IF n \in batch THEN 1 ELSE commits[n]
        BY <1>1, <2>1, <3>1, <3>2 DEF Bump
      <4> QED
        BY <3>1, <4>1 DEF Bump
    <3> QED
      BY <1>1, <2>1, <3>1, <3>2, <3>3 DEF Delivery
  <2>4. CASE Splits(s, w)
    BY <1>2, <1>6, <2>4, SplitKeeps DEF Splits
  <2> QED
    BY <1>6, <2>2, <2>3, <2>4 DEF Writes
<1> QED
  BY <1>2, <1>3, <1>4, <1>5, <1>6, Kinds

\* How the control state of the workflow moves.
LEMMA Control ==
  ASSUME Inv, [Next]_vars
  PROVE  /\ wf'.prepared <=> wf.prepared \/ \E s \in Sessions : Prepare(s)
         /\ wf'.status = "AI_COMPLETE" =>
              \/ wf.status = "AI_COMPLETE"
              \/ \E s \in Sessions : sess[s].pc = "checked" \/ sess[s].result = "AI_COMPLETE"
         /\ \A s \in Sessions :
              /\ sess'[s].pc = "running" => sess[s].pc = "running" \/ Prepare(s)
              /\ sess'[s].pc \in {"checked", "returned"} =>
                   sess[s].pc \in {"checked", "returned"} \/ (sess[s].pc = "running" /\ Unfinished = {})
              /\ sess'[s].result = "AI_COMPLETE" => sess[s].result = "AI_COMPLETE" \/ sess[s].pc = "returned"
<1>1. wf \in WfRow /\ sess \in [Sessions -> SessRow]
  BY DEF Inv, Types
<1> DEFINE Goal ==
      /\ wf'.prepared <=> wf.prepared
      /\ wf'.status = "AI_COMPLETE" =>
           \/ wf.status = "AI_COMPLETE"
           \/ \E s \in Sessions : sess[s].pc = "checked" \/ sess[s].result = "AI_COMPLETE"
      /\ \A s \in Sessions :
           /\ sess'[s].pc = "running" => sess[s].pc = "running"
           /\ sess'[s].pc \in {"checked", "returned"} =>
                sess[s].pc \in {"checked", "returned"} \/ (sess[s].pc = "running" /\ Unfinished = {})
           /\ sess'[s].result = "AI_COMPLETE" => sess[s].result = "AI_COMPLETE" \/ sess[s].pc = "returned"
<1>2. ASSUME UNCHANGED wf, UNCHANGED sess PROVE Goal
  BY <1>2
<1>3. ASSUME NEW s \in Sessions, UNCHANGED wf, sess' = [sess EXCEPT ![s].aborted = TRUE] PROVE Goal
  <2>1. /\ sess'[s] = [sess[s] EXCEPT !.aborted = TRUE] /\ sess[s] \in SessRow
        /\ \A t \in Sessions : t # s => sess'[t] = sess[t]
    BY <1>1, <1>3
  <2>2. sess'[s].pc = sess[s].pc /\ sess'[s].result = sess[s].result
    BY <2>1 DEF SessRow
  <2> QED
    BY <1>3, <2>1, <2>2
<1>4. ASSUME NEW s \in Sessions, NEW pc, NEW st,
             \/ sess' = [sess EXCEPT ![s].pc = pc]
             \/ sess' = [sess EXCEPT ![s].pc = pc, ![s].aborted = TRUE]
             \/ sess' = [sess EXCEPT ![s].pc = pc, ![s].result = st]
      PROVE  /\ sess'[s].pc = pc /\ sess'[s].result \in {sess[s].result, st}
             /\ \A t \in Sessions : t # s => sess'[t] = sess[t]
  <2>1. /\ \/ sess'[s] = [sess[s] EXCEPT !.pc = pc]
           \/ sess'[s] = [sess[s] EXCEPT !.pc = pc, !.aborted = TRUE]
           \/ sess'[s] = [sess[s] EXCEPT !.pc = pc, !.result = st]
        /\ sess[s] \in SessRow
        /\ \A t \in Sessions : t # s => sess'[t] = sess[t]
    BY <1>1, <1>4
  <2> QED
    BY <2>1 DEF SessRow
<1>5. ASSUME NEW s \in Sessions, Start(s) PROVE Goal
  <2>1. sess' = [sess EXCEPT ![s].pc = "started"] /\ wf'.prepared = wf.prepared /\ wf'.status = "RUNNING"
    BY <1>1, <1>5 DEF Start, WfRow
  <2>2. /\ sess'[s].pc = "started" /\ sess'[s].result \in {sess[s].result, sess[s].result}
        /\ \A t \in Sessions : t # s => sess'[t] = sess[t]
    BY <1>4, <2>1
  <2> QED
    BY <2>1, <2>2
<1>6. ASSUME NEW s \in Sessions, Prepare(s) PROVE
        /\ wf'.prepared /\ wf'.status = wf.status
        /\ sess'[s].pc = "running" /\ sess'[s].result = sess[s].result
        /\ \A t \in Sessions : t # s => sess'[t] = sess[t]
  <2>1. sess' = [sess EXCEPT ![s].pc = "running"] /\ wf'.prepared /\ wf'.status = wf.status
    BY <1>1, <1>6 DEF Prepare, WfRow
  <2>2. /\ sess'[s].pc = "running" /\ sess'[s].result \in {sess[s].result, sess[s].result}
        /\ \A t \in Sessions : t # s => sess'[t] = sess[t]
    BY <1>4, <2>1
  <2> QED
    BY <2>1, <2>2
<1>7. ASSUME NEW s \in Sessions, PrepareFails(s) \/ Crash(s) \/ CloseTasks(s) PROVE Goal
  <2>1. PICK pc \in {"failing", "dead", "closing"}, st \in {"NEEDS_ATTENTION", "PAUSED"} :
          \/ sess' = [sess EXCEPT ![s].pc = pc, ![s].aborted = TRUE]
          \/ sess' = [sess EXCEPT ![s].pc = pc, ![s].result = st]
    BY <1>7 DEF PrepareFails, Crash, CloseTasks
  <2>2. /\ sess'[s].pc = pc /\ sess'[s].result \in {sess[s].result, st}
        /\ \A t \in Sessions : t # s => sess'[t] = sess[t]
    BY <1>4, <2>1
  <2>3. UNCHANGED wf
    BY <1>7 DEF PrepareFails, Crash, CloseTasks
  <2> QED
    BY <2>1, <2>2, <2>3
<1>8. ASSUME NEW s \in Sessions, Settle(s) PROVE Goal
  <2>1. PICK pc \in {"failing", "checked"}, st \in {"NEEDS_ATTENTION", "PAUSED"} :
          /\ sess' = [sess EXCEPT ![s].pc = pc, ![s].result = st]
          /\ pc = "checked" => Unfinished = {}
    BY <1>8 DEF Settle
  <2>2. /\ sess'[s].pc = pc /\ sess'[s].result \in {sess[s].result, st}
        /\ \A t \in Sessions : t # s => sess'[t] = sess[t]
    BY <1>4, <2>1
  <2> QED
    BY <1>8, <2>1, <2>2 DEF Settle
<1>9. ASSUME NEW s \in Sessions, MarkComplete(s) PROVE Goal
  <2>1. sess' = [sess EXCEPT ![s].pc = "returned"] /\ wf'.prepared = wf.prepared /\ sess[s].pc = "checked"
    BY <1>1, <1>9 DEF MarkComplete, WfRow
  <2>2. /\ sess'[s].pc = "returned" /\ sess'[s].result \in {sess[s].result, sess[s].result}
        /\ \A t \in Sessions : t # s => sess'[t] = sess[t]
    BY <1>4, <2>1
  <2> QED
    BY <2>1, <2>2
<1>10. ASSUME NEW s \in Sessions, Leave(s) PROVE Goal
  <2>1. PICK st : sess' = [sess EXCEPT ![s].pc = "failing", ![s].result = st]
    BY <1>10 DEF Leave
  <2>2. /\ sess'[s].pc = "failing" /\ sess'[s].result \in {sess[s].result, st}
        /\ \A t \in Sessions : t # s => sess'[t] = sess[t]
    BY <1>4, <2>1
  <2> QED
    BY <1>10, <2>2 DEF Leave
<1>11. ASSUME NEW s \in Sessions, CloseWorkflow(s) PROVE Goal
  <2>1. /\ sess' = [sess EXCEPT ![s].pc = "dead"] /\ wf'.prepared = wf.prepared
        /\ wf'.status \in {wf.status, sess[s].result}
    BY <1>1, <1>11 DEF CloseWorkflow, WfRow
  <2>2. /\ sess'[s].pc = "dead" /\ sess'[s].result \in {sess[s].result, sess[s].result}
        /\ \A t \in Sessions : t # s => sess'[t] = sess[t]
    BY <1>4, <2>1
  <2> QED
    BY <2>1, <2>2
<1>12. ASSUME NEW s \in Sessions, Renew(s) PROVE Goal
  <2>1. wf'.prepared = wf.prepared /\ wf'.status = wf.status
    BY <1>1, <1>12 DEF Renew, WfRow
  <2>2. \A t \in Sessions : sess'[t].pc = sess[t].pc /\ sess'[t].result = sess[t].result
    <3>1. CASE sess' = sess
      BY <3>1
    <3>2. CASE sess' = [sess EXCEPT ![s].aborted = TRUE]
      <4>1. /\ sess'[s] = [sess[s] EXCEPT !.aborted = TRUE] /\ sess[s] \in SessRow
            /\ \A t \in Sessions : t # s => sess'[t] = sess[t]
        BY <1>1, <3>2
      <4> QED
        BY <4>1 DEF SessRow
    <3> QED
      BY <1>12, <3>1, <3>2 DEF Renew
  <2> QED
    BY <2>1, <2>2
<1>13. ASSUME NEW s \in Sessions, Abort(s) PROVE Goal
  BY <1>3, <1>13 DEF Abort
<1>14. ASSUME NEW s \in Sessions, NEW w \in Workers, WorkerStep(s, w) PROVE Goal
  <2>1. UNCHANGED wf
    BY <1>14 DEF WorkerStep, ClaimTask, ClaimFails, NoTask, Resolve, Waiting, Reserve, NoModel, Reply,
                 Commit, StoreFails, Split, NeedsAttention
  <2>2. UNCHANGED sess \/ sess' = [sess EXCEPT ![s].aborted = TRUE]
    BY <1>14 DEF WorkerStep, ClaimTask, ClaimFails, NoTask, Resolve, Waiting, Reserve, NoModel, Reply,
                 Commit, StoreFails, Split, NeedsAttention, Catch
  <2> QED
    BY <1>2, <1>3, <2>1, <2>2
<1>15. ASSUME Tick PROVE Goal
  <2>1. wf'.prepared = wf.prepared /\ wf'.status = wf.status /\ UNCHANGED sess
    BY <1>1, <1>15 DEF Tick, WfRow
  <2> QED
    BY <2>1
<1>16. Goal \/ \E s \in Sessions : Prepare(s)
  <2> HIDE DEF Goal
  <2>1. CASE UNCHANGED vars
    BY <1>2, <2>1 DEF vars
  <2> QED
    BY <1>5, <1>7, <1>8, <1>9, <1>10, <1>11, <1>12, <1>13, <1>14, <1>15, <2>1 DEF Next, SessionStep
<1>17. CASE \E s \in Sessions : Prepare(s)
  BY <1>6, <1>17
<1>18. CASE Goal /\ ~\E s \in Sessions : Prepare(s)
  BY <1>18
<1> QED
  BY <1>16, <1>17, <1>18

\* Workers work only while their session runs.
LEMMA WorkerRuns ==
  ASSUME NEW s \in Sessions, NEW w \in Workers, WorkerStep(s, w)
  PROVE  sess[s].pc = "running"
<1>1. CASE ClaimTask(s, w) \/ ClaimFails(s, w) \/ NoTask(s, w)
  BY <1>1 DEF ClaimTask, ClaimFails, NoTask, At
<1>2. CASE Resolve(s, w) \/ Waiting(s, w) \/ Reserve(s, w) \/ NoModel(s, w) \/ Reply(s, w)
  BY <1>2 DEF Resolve, Waiting, Reserve, NoModel, Reply, At
<1>3. CASE Commit(s, w) \/ StoreFails(s, w) \/ Split(s, w) \/ NeedsAttention(s, w)
  BY <1>3 DEF Commit, StoreFails, Split, NeedsAttention, At
<1> QED
  BY <1>1, <1>2, <1>3 DEF WorkerStep

\* Before the planning nobody works, and nothing is written.
LEMMA BeforePlanning ==
  ASSUME Inv, Planning, [Next]_vars, ~wf'.prepared
  PROVE  NothingYet'
<1>1. ~wf.prepared /\ \A s \in Sessions : ~Prepare(s)
  BY Control
<1>2. NothingYet /\ \A s \in Sessions : sess[s].pc # "running"
  BY <1>1 DEF Planning
<1>3. \A s \in Sessions, w \in Workers : ~WorkerStep(s, w)
  BY <1>2, WorkerRuns
<1>4. Quiet
  <2>1. CASE UNCHANGED vars
    BY <2>1, SameRow, KeptTasks DEF vars, Quiet
  <2>2. ASSUME NEW s \in Sessions, Start(s) \/ Renew(s) \/ Abort(s) \/ Crash(s) \/ SessionStep(s)
        PROVE  Quiet
    BY <1>1, <2>2, SessionQuiet DEF SessionStep
  <2> QED
    BY <1>3, <2>1, <2>2, TickQuiet DEF Next
<1> QED
  BY <1>2, <1>4 DEF NothingYet, Quiet, SameBatch

\* A step from a safe state: what it does to outcomes, payments and promises.
LEMMA StepSafe ==
  ASSUME Safe, Calm, [Next]_vars
  PROVE  Safe' /\ Delivery /\ (\A n \in News : paid'[n] > paid[n] => commits[n] = 0)
<1>1. Inv /\ Inv' /\ Tasks /\ Books /\ Planning /\ Announced
  BY StepInv DEF Safe
<1>2. /\ Tasks' /\ Books' /\ Delivery /\ Kept
      /\ \A n \in News : paid'[n] > paid[n] => commits[n] = 0
  BY <1>1, StepBooks
<1>3. commits \in [News -> Nat] /\ commits' \in [News -> Nat]
  BY <1>1 DEF Inv, Types
<1>4. \A n \in News : commits'[n] = 0 => commits[n] = 0
  BY <1>2, <1>3 DEF Delivery
<1>5. Planning'
  <2>1. ASSUME wf'.prepared, NEW n \in News, commits'[n] = 0
        PROVE  \E i \in Items : Leaf(item'[i]) /\ n \in item'[i].news
    <3>1. CASE wf.prepared
      BY <1>1, <1>2, <1>4, <2>1, <3>1 DEF Planning, Kept
    <3>2. CASE ~wf.prepared
      <4>1. PICK s \in Sessions : Prepare(s)
        BY <1>1, <2>1, <3>2, Control
      <4>2. Rows = {}
        BY <1>1, <3>2 DEF Planning, NothingYet, Rows
      <4> QED
        BY <1>1, <2>1, <4>1, <4>2, PlanKeeps
    <3> QED
      BY <3>1, <3>2
  <2>2. \A s \in Sessions : sess'[s].pc = "running" => wf'.prepared
    BY <1>1, Control DEF Planning
  <2> QED
    BY <1>1, <2>1, <2>2, BeforePlanning DEF Planning
<1>6. Announced'
  <2>1. AllDone => AllDone'
    BY <1>2, <1>3 DEF AllDone, Delivery
  <2>2. ASSUME NEW s \in Sessions, sess[s].pc = "running", Unfinished = {}
        PROVE  AllDone
    <3> SUFFICES ASSUME NEW n \in News, commits[n] = 0 PROVE FALSE
      BY <1>3 DEF AllDone
    <3>1. PICK i \in Items : Leaf(item[i]) /\ n \in item[i].news
      BY <1>1, <2>2 DEF Planning
    <3>2. item[i].status = "SUCCESS"
      BY <2>2, <3>1 DEF Unfinished, Leaves, Rows, Leaf
    <3> QED
      BY <1>1, <3>1, <3>2 DEF Books, Accounted
  <2>3. wf'.status = "AI_COMPLETE" => AllDone
    BY <1>1, Control DEF Announced
  <2>4. \A s \in Sessions : sess'[s].pc \in {"checked", "returned"} \/ sess'[s].result = "AI_COMPLETE" => AllDone
    BY <1>1, <2>2, Control DEF Announced
  <2> QED
    BY <2>1, <2>3, <2>4 DEF Announced
<1> QED
  BY <1>1, <1>2, <1>5, <1>6 DEF Safe

LEMMA InitSafe == Init => Safe
<1> SUFFICES ASSUME Init PROVE Safe
  OBVIOUS
<1>1. Inv
  BY InitInv
<1>2. \A i \in Items : item[i].status = "absent"
  <2>1. \A i \in Items : item[i] = [NewRow(i, {}) EXCEPT !.status = "absent"]
    BY DEF Init
  <2> QED
    BY <2>1 DEF NewRow
<1>3. \A i \in Items : item[i].status \notin RowStatus /\ ~Leaf(item[i])
  BY <1>2 DEF Leaf, RowStatus
<1>4. \A s \in Sessions, w \in Workers : ~Working(s, w)
  BY DEF Init, Working, NoJob
<1>5. Tasks
  BY <1>4 DEF Tasks, Remembered, Alone, Mine
<1>6. \A n \in News : commits[n] = 0 /\ paid[n] = 0
  BY DEF Init
<1>7. Books
  BY <1>3, <1>6, RequestsAssumption
     DEF Books, Disjoint, Accounted, Charged, CommittedOnce, BudgetPerNews
<1>8. \A s \in Sessions : sess[s].pc = "off" /\ sess[s].result = "PAUSED"
  BY DEF Init
<1>9. ~wf.prepared /\ wf.status = "PENDING"
  BY DEF Init
<1>10. Planning
  BY <1>3, <1>6, <1>8, <1>9 DEF Planning, NothingYet
<1>11. Announced
  BY <1>8, <1>9 DEF Announced
<1> QED
  BY <1>1, <1>5, <1>7, <1>10, <1>11 DEF Safe

-----------------------------------------------------------------------------
(* Without stalled processes, workers work only on rows of their session *)

\* A process at work holds the lease of the workflow, so it is the only one.
Leased == \A s \in Sessions : sess[s].pc \in Beating => wf.owner = s /\ wf.ttl >= 0

\* A row that has an owner keeps it in a claim, unless it is the claimed one.
LEMMA ClaimOwners ==
  ASSUME Inv, NEW t \in Sessions, NEW v \in Workers, ClaimTask(t, v)
  PROVE  /\ \A j \in Items : item[j].owner # None => item'[j].owner = item[j].owner
         /\ item'[job'[t][v].item].owner = t
<1>1. PICK i \in Items : /\ Claimable(i)
                         /\ \E rows \in Repackings(i) :
                              /\ item' = [rows EXCEPT ![i].status = "RUNNING", ![i].owner = t, ![i].ttl = LeaseTicks]
                              /\ SetJob(t, v, [pc |-> "resolve", item |-> i, news |-> rows[i].news])
  BY DEF ClaimTask
<1>2. PICK rows \in Repackings(i) :
        /\ item' = [rows EXCEPT ![i].status = "RUNNING", ![i].owner = t, ![i].ttl = LeaseTicks]
        /\ SetJob(t, v, [pc |-> "resolve", item |-> i, news |-> rows[i].news])
  BY <1>1
<1>3. Types /\ rows \in Table
  BY RepackType DEF Inv, Types
<1>4. \A k \in Items : k # i => item'[k] = rows[k]
  BY <1>2, <1>3 DEF Table
<1>5. item'[i].owner = t
  <2>1. item'[i] = [rows[i] EXCEPT !.status = "RUNNING", !.owner = t, !.ttl = LeaseTicks] /\ rows[i] \in ItemRow
    BY <1>2, <1>3 DEF Table
  <2> QED
    BY <2>1 DEF ItemRow
<1>6. job'[t][v].item = i
  <2>1. job' = [job EXCEPT ![t] = [job[t] EXCEPT ![v] = [pc |-> "resolve", item |-> i, news |-> rows[i].news]]]
    BY <1>2 DEF SetJob
  <2>2. job'[t][v] = [pc |-> "resolve", item |-> i, news |-> rows[i].news]
    BY <1>3, <2>1 DEF Types
  <2> QED
    BY <2>2
<1>7. ASSUME NEW k \in Items, item[k].owner # None
      PROVE  k # i /\ rows[k] = item[k]
  <2>1. k # i /\ item[k].status \in {"RUNNING", "WAITING"}
    BY <1>1, <1>7 DEF Claimable, Inv, OwnersWork
  <2>2. CASE rows = item
    BY <2>1, <2>2
  <2>3. ASSUME NEW more, rows = Absorb(i, more) PROVE rows[k] = item[k]
    BY <1>7, <2>1, <2>3 DEF Absorb, Untried
  <2>4. ASSUME NEW head, NEW new \in Fresh, rows = CutOff(i, head, new) PROVE rows[k] = item[k]
    <3>1. k # new
      BY <2>1 DEF Fresh
    <3> QED
      BY <1>3, <2>1, <2>4, <3>1 DEF CutOff, Types, Table
  <2> QED
    BY <2>1, <2>2, <2>3, <2>4 DEF Repackings
<1> QED
  BY <1>4, <1>5, <1>6, <1>7

\* A row loses its owner only by the worker that has it, when it is done.
LEMMA WorkerOwners ==
  ASSUME Inv, NEW t \in Sessions, NEW v \in Workers, WorkerStep(t, v)
  PROVE  /\ \A s \in Sessions, w \in Workers : <<s, w>> # <<t, v>> => job'[s][w] = job[s][w]
         /\ \A s \in Sessions : sess'[s].pc = sess[s].pc
         /\ \A j \in Items : item[j].owner # None =>
              \/ item'[j].owner = item[j].owner
              \/ Working(t, v) /\ ~Working(t, v)' /\ j = job[t][v].item
         /\ Working(t, v)' => \/ Working(t, v) /\ job'[t][v].item = job[t][v].item
                              \/ item'[job'[t][v].item].owner = t
<1>1. Types
  BY DEF Inv
<1>2. ASSUME NEW pc, Goto(t, v, pc)
      PROVE  /\ \A s \in Sessions, w \in Workers : <<s, w>> # <<t, v>> => job'[s][w] = job[s][w]
             /\ job'[t][v].item = job[t][v].item
  <2>1. job' = [job EXCEPT ![t] = [job[t] EXCEPT ![v] = [job[t][v] EXCEPT !.pc = pc]]]
    BY <1>2 DEF Goto
  <2>2. job'[t][v] = [job[t][v] EXCEPT !.pc = pc] /\ job[t][v] \in JobRow
    BY <1>1, <2>1 DEF Types
  <2> QED
    BY <1>1, <2>1, <2>2 DEF Types, JobRow
<1>3. ASSUME NEW j, SetJob(t, v, j)
      PROVE  /\ \A s \in Sessions, w \in Workers : <<s, w>> # <<t, v>> => job'[s][w] = job[s][w]
             /\ job'[t][v] = j
  <2>1. job' = [job EXCEPT ![t] = [job[t] EXCEPT ![v] = j]]
    BY <1>3 DEF SetJob
  <2> QED
    BY <1>1, <2>1 DEF Types
<1>4. Exited.pc = "exited" /\ NoJob.pc = "idle"
  BY DEF Exited, NoJob
<1>5. \A s \in Sessions, w \in Workers : <<s, w>> # <<t, v>> => job'[s][w] = job[s][w]
  <2>1. UNCHANGED job \/ (\E pc : Goto(t, v, pc)) \/ (\E j : SetJob(t, v, j))
    <3>1. CASE ClaimTask(t, v) \/ ClaimFails(t, v) \/ NoTask(t, v)
      BY <3>1 DEF ClaimTask, ClaimFails, NoTask
    <3>2. CASE Resolve(t, v) \/ Waiting(t, v) \/ Reserve(t, v) \/ NoModel(t, v) \/ Reply(t, v)
      BY <3>2 DEF Resolve, Waiting, Reserve, NoModel, Reply, Catch
    <3>3. CASE Commit(t, v) \/ StoreFails(t, v) \/ Split(t, v) \/ NeedsAttention(t, v)
      BY <3>3 DEF Commit, StoreFails, Split, NeedsAttention, Catch
    <3> QED
      BY <3>1, <3>2, <3>3 DEF WorkerStep
  <2> QED
    BY <1>2, <1>3, <2>1
<1>6. \A s \in Sessions : sess'[s].pc = sess[s].pc
  <2>1. UNCHANGED sess \/ sess' = [sess EXCEPT ![t].aborted = TRUE]
    BY DEF WorkerStep, ClaimTask, ClaimFails, NoTask, Resolve, Waiting, Reserve, NoModel, Reply,
           Commit, StoreFails, Split, NeedsAttention, Catch
  <2>2. CASE sess' = [sess EXCEPT ![t].aborted = TRUE]
    <3>1. /\ sess'[t] = [sess[t] EXCEPT !.aborted = TRUE] /\ sess[t] \in SessRow
          /\ \A s \in Sessions : s # t => sess'[s] = sess[s]
      BY <1>1, <2>2 DEF Types
    <3> QED
      BY <3>1 DEF SessRow
  <2> QED
    BY <2>1, <2>2
<1>7. CASE ClaimTask(t, v)
  BY <1>5, <1>6, <1>7, ClaimOwners
<1>8. CASE ~ClaimTask(t, v)
  <2>1. \/ Quiet
        \/ Working(t, v) /\ (Pays(t, v) \/ Commits(t, v) \/ Splits(t, v))
    BY <1>8, WorkerQuiet
  <2>2. Working(t, v)' => Working(t, v) /\ job'[t][v].item = job[t][v].item
    BY <1>2, <1>3, <1>4, <2>1 DEF Quiet, SameTasks, Pays, Commits, Splits, Working
  <2>3. ASSUME NEW j \in Items, item[j].owner # None
        PROVE  \/ item'[j].owner = item[j].owner
               \/ Working(t, v) /\ ~Working(t, v)' /\ j = job[t][v].item
    <3> DEFINE i == job[t][v].item
    <3>1. item \in Table /\ item[j] \in ItemRow
      BY <1>1 DEF Types, Table
    <3>2. CASE UNCHANGED item
      BY <3>2
    <3>3. ASSUME i \in Items, NEW st, item' = [item EXCEPT ![i].status = st]
          PROVE  item'[j].owner = item[j].owner
      <4>1. item'[j] = item[j] \/ item'[j] = [item[j] EXCEPT !.status = st]
        BY <3>1, <3>3 DEF Table
      <4> QED
        BY <3>1, <4>1 DEF ItemRow
    <3>4. ASSUME NEW st, NEW k, SetJob(t, v, k), k.pc = "idle", Working(t, v), item' = Park(i, st)
          PROVE  item'[j].owner = item[j].owner \/ (~Working(t, v)' /\ j = i)
      <4>1. ~Working(t, v)'
        BY <1>3, <3>4 DEF Working
      <4>2. j # i => item'[j] = item[j]
        BY <3>1, <3>4 DEF Park, Table
      <4> QED
        BY <4>1, <4>2
    <3>5. CASE Reserve(t, v)
      <4>1. CASE ~Pays(t, v)
        BY <3>2, <3>5, <4>1 DEF Reserve, Pays
      <4>2. CASE Pays(t, v)
        <5>1. PICK mid : mid = [item EXCEPT ![item[i].root].requests = @ + 1]
          OBVIOUS
        <5>2. item' = [mid EXCEPT ![i].status = "RUNNING"]
          BY <4>2, <5>1 DEF Pays
        <5>3. mid[j] = item[j] \/ mid[j] = [item[j] EXCEPT !.requests = @ + 1]
          BY <3>1, <5>1 DEF Table
        <5>4. item'[j] = mid[j] \/ item'[j] = [mid[j] EXCEPT !.status = "RUNNING"]
          BY <3>1, <5>1, <5>2 DEF Table
        <5> QED
          BY <3>1, <5>3, <5>4 DEF ItemRow
      <4> QED
        BY <4>1, <4>2
    <3>6. CASE Commit(t, v)
      <4>1. Working(t, v)
        BY <3>6 DEF Commit, At, Working
      <4> QED
        BY <1>4, <3>2, <3>4, <3>6, <4>1 DEF Commit
    <3>7. CASE Split(t, v)
      <4>1. CASE ~Splits(t, v)
        BY <3>2, <3>7, <4>1 DEF Split, Splits
      <4>2. CASE Splits(t, v)
        <5>1. Working(t, v)
          BY <3>7 DEF Split, At, Working
        <5>2. PICK first \in Halves(job[t][v].news), a \in Fresh, b \in Fresh :
                item' = [Park(i, "SPLIT") EXCEPT ![a] = NewRow(item[i].root, first),
                                                 ![b] = NewRow(item[i].root, job[t][v].news \ first)]
          BY <4>2 DEF Splits
        <5>3. j # a /\ j # b
          BY <2>3 DEF Inv, OwnersWork, Fresh
        <5>4. j # i => item'[j] = item[j]
          BY <3>1, <5>2, <5>3 DEF Park, Table
        <5>5. ~Working(t, v)'
          BY <1>3, <1>4, <4>2 DEF Splits, Working
        <5> QED
          BY <5>1, <5>4, <5>5
      <4> QED
        BY <4>1, <4>2
    <3>8. CASE Waiting(t, v)
      <4>1. i \in Items
        BY <1>1, <3>8, JobItem DEF Waiting, At, Working
      <4> QED
        BY <3>2, <3>3, <3>8, <4>1 DEF Waiting
    <3>9. CASE NeedsAttention(t, v)
      <4>1. Working(t, v)
        BY <3>9 DEF NeedsAttention, At, Working
      <4> QED
        BY <1>4, <3>2, <3>4, <3>9, <4>1 DEF NeedsAttention
    <3>10. CASE ClaimFails(t, v) \/ NoTask(t, v) \/ Resolve(t, v) \/ NoModel(t, v) \/ Reply(t, v) \/ StoreFails(t, v)
      BY <3>2, <3>10 DEF ClaimFails, NoTask, Resolve, NoModel, Reply, StoreFails
    <3> QED
      BY <1>8, <3>5, <3>6, <3>7, <3>8, <3>9, <3>10 DEF WorkerStep
  <2> QED
    BY <1>5, <1>6, <2>2, <2>3
<1> QED
  BY <1>7, <1>8

\* The steps of a session, seen from the leases: who beats, who runs, who owns.
LEMMA SessionLeases ==
  ASSUME Inv, NEW t \in Sessions, Renew(t) \/ Abort(t) \/ Crash(t) \/ SessionStep(t)
  PROVE  /\ \A s \in Sessions : sess'[s].pc \in Beating => sess[s].pc \in Beating
         /\ \A s \in Sessions : s # t => sess'[s].pc = sess[s].pc
         /\ wf'.owner # wf.owner => wf.owner = t /\ sess[t].pc = "closing"
<1>1. sess \in [Sessions -> SessRow] /\ wf \in WfRow
  BY DEF Inv, Types
<1>2. \A s \in Sessions : s # t => sess'[s] = sess[s]
  <2>1. UNCHANGED sess \/ \E row : sess' = [sess EXCEPT ![t] = row]
    <3>1. CASE Renew(t) \/ Abort(t) \/ Crash(t)
      BY <3>1 DEF Renew, Abort, Crash
    <3>2. CASE SessionStep(t)
      BY <3>2 DEF SessionStep, Prepare, PrepareFails, Settle, MarkComplete, Leave, CloseTasks, CloseWorkflow
    <3> QED
      BY <3>1, <3>2
  <2> QED
    BY <1>1, <2>1
<1>3. sess'[t].pc \in Beating => sess[t].pc \in Beating
  <2>1. CASE sess[t].pc \in Beating
    BY <2>1
  <2>2. CASE sess[t].pc \notin Beating
    <3>1. CASE Crash(t)
      <4>1. sess'[t] = [sess[t] EXCEPT !.pc = "dead", !.aborted = TRUE] /\ sess[t] \in SessRow
        BY <1>1, <3>1 DEF Crash
      <4> QED
        BY <4>1 DEF SessRow, Beating
    <3>2. CASE CloseWorkflow(t)
      <4>1. sess'[t] = [sess[t] EXCEPT !.pc = "dead"] /\ sess[t] \in SessRow
        BY <1>1, <3>2 DEF CloseWorkflow
      <4> QED
        BY <4>1 DEF SessRow, Beating
    <3> QED
      BY <2>2, <3>1, <3>2 DEF Renew, Abort, SessionStep, Prepare, PrepareFails, Settle, MarkComplete, Leave,
                              CloseTasks, Beating
  <2> QED
    BY <2>1, <2>2
<1>4. wf'.owner # wf.owner => wf.owner = t /\ sess[t].pc = "closing"
  <2>1. CASE CloseWorkflow(t)
    BY <2>1 DEF CloseWorkflow
  <2>2. CASE Renew(t) \/ Prepare(t) \/ MarkComplete(t)
    BY <1>1, <2>2 DEF Renew, Prepare, MarkComplete, WfRow
  <2>3. CASE UNCHANGED wf
    BY <2>3
  <2> QED
    BY <2>1, <2>2, <2>3 DEF Abort, Crash, SessionStep, PrepareFails, Settle, Leave, CloseTasks
<1> QED
  BY <1>2, <1>3, <1>4

LEMMA StepLeased ==
  ASSUME Inv, Leased, [Next /\ Punctual]_vars
  PROVE  Leased'
<1>1. CASE UNCHANGED vars
  BY <1>1 DEF vars, Leased
<1>2. CASE Next /\ Punctual
  <2>1. ASSUME NEW s \in Sessions, Start(s) PROVE Leased'
    <3>1. \A t \in Sessions : sess[t].pc \notin Beating
      <4>1. \A t \in Sessions : wf.owner = t => wf.owner # None
        BY NoneAssumption
      <4>2. wf.ttl >= 0 => ~Expired(wf.ttl)
        BY DEF Inv, Types, WfRow, Ttl, Expired
      <4> QED
        BY <2>1, <4>1, <4>2 DEF Leased, Start
    <3>2. wf'.owner = s /\ wf'.ttl = LeaseTicks
      BY <2>1 DEF Start, Inv, Types, WfRow
    <3>3. \A t \in Sessions : t # s => sess'[t] = sess[t]
      BY <2>1 DEF Start, Inv, Types
    <3> QED
      BY <3>1, <3>2, <3>3, LeaseAssumption DEF Leased
  <2>2. CASE ~\E s \in Sessions : Start(s)
    <3>1. /\ \A s \in Sessions : sess'[s].pc \in Beating => sess[s].pc \in Beating
          /\ \A s \in Sessions : sess[s].pc \in Beating /\ wf.owner = s => wf'.owner = s
      <4>1. ASSUME NEW t \in Sessions, Renew(t) \/ Abort(t) \/ Crash(t) \/ SessionStep(t)
            PROVE  /\ \A s \in Sessions : sess'[s].pc \in Beating => sess[s].pc \in Beating
                   /\ \A s \in Sessions : sess[s].pc \in Beating /\ wf.owner = s => wf'.owner = s
        BY <4>1, SessionLeases DEF Beating
      <4>2. ASSUME NEW t \in Sessions, NEW v \in Workers, WorkerStep(t, v)
            PROVE  /\ \A s \in Sessions : sess'[s].pc = sess[s].pc
                   /\ UNCHANGED wf
        <5>1. UNCHANGED wf
          BY <4>2 DEF WorkerStep, ClaimTask, ClaimFails, NoTask, Resolve, Waiting, Reserve, NoModel, Reply,
                      Commit, StoreFails, Split, NeedsAttention
        <5> QED
          BY <4>2, <5>1, WorkerOwners
      <4>3. CASE Tick
        BY <4>3 DEF Tick, Inv, Types, WfRow
      <4> QED
        BY <1>2, <2>2, <4>1, <4>2, <4>3 DEF Next
    <3> QED
      BY <1>2, <3>1 DEF Leased, Punctual
  <2> QED
    BY <2>1, <2>2
<1> QED
  BY <1>1, <1>2

LEMMA StepEntitled ==
  ASSUME Inv, Tasks, Leased, Entitled, [Next]_vars
  PROVE  Entitled'
<1>1. \A s, t \in Sessions : sess[s].pc \in Beating /\ sess[t].pc \in Beating => s = t
  BY DEF Leased
<1>2. ASSUME \A s \in Sessions : sess[s].pc = "running" => sess'[s].pc = "running",
             \A i \in Items : item[i].owner # None => item'[i].owner = item[i].owner, UNCHANGED job
      PROVE  Entitled'
  BY <1>2, NoneAssumption, JobItem DEF Entitled, Mine, Working, Inv
<1>3. ASSUME UNCHANGED job, \A s \in Sessions, w \in Workers : ~Working(s, w)
      PROVE  Entitled'
  BY <1>3 DEF Entitled, Working
<1>4. CASE UNCHANGED vars
  BY <1>2, <1>4 DEF vars
<1>5. ASSUME NEW t \in Sessions, Start(t) PROVE Entitled'
  <2>1. \A s \in Sessions : sess[s].pc = "running" => sess'[s].pc = "running"
    BY <1>5 DEF Start, Inv, Types
  <2> QED
    BY <1>2, <1>5, <2>1 DEF Start
<1>6. ASSUME NEW t \in Sessions, Renew(t) PROVE Entitled'
  <2>1. ASSUME NEW i \in Items PROVE item'[i].owner = item[i].owner
    <3>1. item[i] \in ItemRow /\ (item'[i] = item[i] \/ item'[i] = [item[i] EXCEPT !.ttl = LeaseTicks])
      BY <1>6 DEF Renew, Inv, Types, Table
    <3> QED
      BY <3>1 DEF ItemRow
  <2>2. ASSUME NEW s \in Sessions PROVE sess'[s].pc = sess[s].pc
    <3>1. sess[s] \in SessRow /\ (sess'[s] = sess[s] \/ sess'[s] = [sess[s] EXCEPT !.aborted = TRUE])
      BY <1>6 DEF Renew, Inv, Types
    <3> QED
      BY <3>1 DEF SessRow
  <2> QED
    BY <1>2, <1>6, <2>1, <2>2 DEF Renew
<1>7. ASSUME NEW t \in Sessions, Abort(t) PROVE Entitled'
  <2>1. ASSUME NEW s \in Sessions PROVE sess'[s].pc = sess[s].pc
    <3>1. sess[s] \in SessRow /\ (sess'[s] = sess[s] \/ sess'[s] = [sess[s] EXCEPT !.aborted = TRUE])
      BY <1>7 DEF Abort, Inv, Types
    <3> QED
      BY <3>1 DEF SessRow
  <2> QED
    BY <1>2, <1>7, <2>1 DEF Abort
<1>8. ASSUME NEW t \in Sessions, Crash(t) PROVE Entitled'
  <2>1. \A s \in Sessions : s # t => sess'[s] = sess[s] /\ job'[s] = job[s]
    BY <1>8 DEF Crash, Inv, Types
  <2>2. \A w \in Workers : ~Working(t, w)'
    BY <1>8 DEF Crash, Working, Exited, Inv, Types
  <2>3. UNCHANGED item
    BY <1>8 DEF Crash
  <2> QED
    BY <2>1, <2>2, <2>3 DEF Entitled, Mine, Working
<1>9. ASSUME NEW t \in Sessions, Prepare(t) \/ CloseTasks(t) PROVE Entitled'
  <2>1. sess[t].pc \in Beating /\ sess[t].pc # "running" /\ UNCHANGED job
    BY <1>9 DEF Prepare, CloseTasks, Beating
  <2>2. \A s \in Sessions, w \in Workers : ~Working(s, w)
    BY <1>1, <2>1 DEF Entitled, Beating
  <2> QED
    BY <1>3, <2>1, <2>2
<1>10. ASSUME NEW t \in Sessions, PrepareFails(t) \/ MarkComplete(t) \/ Leave(t) \/ CloseWorkflow(t)
       PROVE  Entitled'
  <2>1. UNCHANGED <<item, job>> /\ sess[t].pc # "running"
    BY <1>10 DEF PrepareFails, MarkComplete, Leave, CloseWorkflow
  <2>2. \A s \in Sessions : s # t => sess'[s].pc = sess[s].pc
    BY <1>10, SessionLeases DEF SessionStep
  <2> QED
    BY <1>2, <2>1, <2>2
<1>11. ASSUME NEW t \in Sessions, Settle(t) PROVE Entitled'
  <2>1. UNCHANGED <<item, job>> /\ \A w \in Workers : ~Working(t, w)
    BY <1>11 DEF Settle, Working
  <2>2. \A s \in Sessions : s # t => sess'[s].pc = sess[s].pc
    BY <1>11, SessionLeases DEF SessionStep
  <2> QED
    BY <2>1, <2>2 DEF Entitled, Mine, Working
<1>12. ASSUME NEW t \in Sessions, NEW v \in Workers, WorkerStep(t, v) PROVE Entitled'
  <2> SUFFICES ASSUME NEW s \in Sessions, NEW w \in Workers, Working(s, w)'
               PROVE  sess'[s].pc = "running" /\ item'[job'[s][w].item].owner = s
    BY DEF Entitled, Mine
  <2>1. sess[t].pc = "running" /\ sess'[s].pc = sess[s].pc
    BY <1>12, WorkerRuns, WorkerOwners
  <2>2. CASE <<s, w>> = <<t, v>>
    <3>1. CASE Working(t, v) /\ job'[t][v].item = job[t][v].item
      <4>1. job[t][v].item \in Items /\ item[job[t][v].item].owner = t /\ t # None
        BY <3>1, JobItem, NoneAssumption DEF Inv, Entitled, Mine
      <4>2. item'[job[t][v].item].owner = item[job[t][v].item].owner
        BY <1>12, <2>2, <4>1, WorkerOwners
      <4> QED
        BY <2>1, <2>2, <3>1, <4>1, <4>2
    <3>2. CASE item'[job'[t][v].item].owner = t
      BY <2>1, <2>2, <3>2
    <3> QED
      BY <1>12, <2>2, <3>1, <3>2, WorkerOwners
  <2>3. CASE <<s, w>> # <<t, v>>
    <3>1. Working(s, w) /\ job'[s][w] = job[s][w]
      BY <1>12, <2>3, WorkerOwners DEF Working
    <3>2. sess[s].pc = "running" /\ Mine(s, w) /\ s # None
      BY <3>1, NoneAssumption DEF Entitled
    <3>3. job[s][w].item \in Items /\ item[job[s][w].item].owner = s
      BY <3>1, <3>2, JobItem DEF Inv, Mine
    <3>4. ~(Working(t, v) /\ job[s][w].item = job[t][v].item)
      <4>1. s = t
        BY <1>1, <2>1, <3>2 DEF Beating
      <4> QED
        BY <2>3, <3>2, <4>1 DEF Tasks, Alone
    <3>5. item'[job[s][w].item].owner = s
      BY <1>12, <3>2, <3>3, <3>4, WorkerOwners
    <3> QED
      BY <2>1, <3>1, <3>2, <3>5
  <2> QED
    BY <2>2, <2>3
<1>13. CASE Tick
  <2>1. ASSUME NEW i \in Items PROVE item'[i].owner = item[i].owner
    <3>1. item[i] \in ItemRow /\ item'[i] = [item[i] EXCEPT !.ttl = Elapse(@)]
      BY <1>13 DEF Tick, Inv, Types, Table
    <3> QED
      BY <3>1 DEF ItemRow
  <2> QED
    BY <1>2, <1>13, <2>1 DEF Tick
<1> QED
  BY <1>4, <1>5, <1>6, <1>7, <1>8, <1>9, <1>10, <1>11, <1>12, <1>13 DEF Next, SessionStep

-----------------------------------------------------------------------------
(* What safe states and safe steps promise *)

LEMMA SafeMeans ==
  ASSUME Safe
  PROVE  NewsPartitioned /\ CommittedOnce /\ CompleteMeansCovered /\ BudgetPerNews
<1>1. \A i \in Items : i \in Leaves <=> Leaf(item[i])
  BY DEF Leaves, Rows, Leaf
<1>2. Leaves \subseteq Items /\ \A i \in Items : item[i].news \subseteq News
  BY DEF Leaves, Rows, Safe, Inv, Types, Table, ItemRow
<1>3. commits \in [News -> Nat]
  BY DEF Safe, Inv, Types
<1>4. \A i, j \in Leaves : i # j => item[i].news \cap item[j].news = {}
  BY <1>1, <1>2 DEF Safe, Books, Disjoint
<1>5. wf.prepared => News = Covered \cup {n \in News : commits[n] > 0}
  <2> SUFFICES ASSUME wf.prepared, NEW n \in News, commits[n] = 0 PROVE n \in Covered
    BY <1>2, <1>3 DEF Covered
  <2>1. PICK i \in Items : Leaf(item[i]) /\ n \in item[i].news
    BY DEF Safe, Planning
  <2> QED
    BY <1>1, <2>1 DEF Covered
<1> QED
  BY <1>4, <1>5 DEF NewsPartitioned, CompleteMeansCovered, Safe, Books, Announced, AllDone

\* The announcement changes by steps that deliver nothing.
LEMMA StatusAlone ==
  ASSUME Inv, [Next]_vars, wf'.status # wf.status
  PROVE  UNCHANGED commits
<1>1. wf \in WfRow
  BY DEF Inv, Types
<1>2. ASSUME NEW s \in Sessions, NEW w \in Workers, WorkerStep(s, w) PROVE UNCHANGED wf
  BY <1>2 DEF WorkerStep, ClaimTask, ClaimFails, NoTask, Resolve, Waiting, Reserve, NoModel, Reply,
              Commit, StoreFails, Split, NeedsAttention
<1>3. \A s \in Sessions : ~Prepare(s)
  BY <1>1 DEF Prepare, WfRow
<1> QED
  BY <1>2, <1>3 DEF Next, vars, Start, Renew, Abort, Crash, SessionStep, PrepareFails, Settle, MarkComplete,
                    Leave, CloseTasks, CloseWorkflow, Tick

LEMMA StepContract ==
  ASSUME Safe, Calm, [Next]_vars
  PROVE  [Contract!Next]_<<commits, wf.status = "AI_COMPLETE">>
<1>1. Safe' /\ Delivery /\ Inv
  BY StepSafe DEF Safe
<1>2. commits \in [News -> Nat] /\ commits' \in [News -> Nat]
  BY <1>1 DEF Safe, Inv, Types
<1>3. CASE (wf.status = "AI_COMPLETE")' = (wf.status = "AI_COMPLETE")
  <2>1. Contract!Deliver
    BY <1>1, <1>3 DEF Delivery, Contract!Deliver
  <2> QED
    BY <2>1 DEF Contract!Next
<1>4. CASE (wf.status = "AI_COMPLETE")' # (wf.status = "AI_COMPLETE")
  <2>1. UNCHANGED commits
    BY <1>1, <1>4, StatusAlone
  <2>2. CASE wf'.status = "AI_COMPLETE"
    <3>1. \A n \in News : commits[n] = 1
      BY <1>1, <1>2, <2>1, <2>2 DEF Safe, Announced, AllDone, Books, CommittedOnce
    <3>2. Contract!Announce
      BY <2>1, <2>2, <3>1 DEF Contract!Announce
    <3> QED
      BY <3>2 DEF Contract!Next
  <2>3. CASE wf'.status # "AI_COMPLETE"
    <3>1. Contract!Reopen
      BY <2>1, <2>3 DEF Contract!Reopen
    <3> QED
      BY <3>1 DEF Contract!Next
  <2> QED
    BY <2>2, <2>3
<1> QED
  BY <1>3, <1>4

LEMMA InitContract == Init => Contract!Init
BY DEF Init, Contract!Init

-----------------------------------------------------------------------------
(* Theorems *)

LEMMA SafeWhenPunctual == PunctualSpec => [](Safe /\ Leased /\ Entitled)
<1>1. Init => Safe /\ Leased /\ Entitled
  BY InitSafe DEF Init, Leased, Entitled, Beating, Working, NoJob
<1>2. Safe /\ Leased /\ Entitled /\ [Next /\ Punctual]_vars => (Safe /\ Leased /\ Entitled)'
  <2> SUFFICES ASSUME Safe, Leased, Entitled, [Next /\ Punctual]_vars
               PROVE  Safe' /\ Leased' /\ Entitled'
    OBVIOUS
  <2>1. [Next]_vars
    OBVIOUS
  <2> QED
    BY <2>1, StepSafe, StepLeased, StepEntitled DEF Safe, Calm
<1> QED
  BY <1>1, <1>2, PTL DEF PunctualSpec

LEMMA SafeWithOneWorker == ASSUME OneWorker PROVE Spec => []Safe
<1>1. Safe /\ [Next]_vars => Safe'
  BY StepSafe DEF Calm
<1> QED
  BY <1>1, InitSafe, PTL DEF Spec

\* While no process stalls, planning, repacking, splitting, crashes and resumes
\* neither lose nor double a news, with any number of workers.
THEOREM NewsStayPartitioned == PunctualSpec => []NewsPartitioned
BY SafeWhenPunctual, SafeMeans, PTL

\* ... every news gets its outcome at most once.
THEOREM NewsCommittedOnce == PunctualSpec => []CommittedOnce
BY SafeWhenPunctual, SafeMeans, PTL

\* ... a workflow that says it is complete has an outcome for every news.
THEOREM CompleteIsCovered == PunctualSpec => []CompleteMeansCovered
BY SafeWhenPunctual, SafeMeans, PTL

\* ... the request budget of a news survives splits, crashes and resumes.
THEOREM NewsWithinBudget == PunctualSpec => []BudgetPerNews
BY SafeWhenPunctual, SafeMeans, PTL

\* ... a news that has its outcome is never paid for again.
THEOREM PaidOnlyBeforeCommit == PunctualSpec => NoPaymentAfterCommit
<1>1. Safe /\ Leased /\ Entitled /\ [Next /\ Punctual]_vars =>
        [\A n \in News : paid'[n] > paid[n] => commits[n] = 0]_vars
  BY StepSafe DEF Calm
<1> QED
  BY <1>1, SafeWhenPunctual, PTL DEF PunctualSpec, NoPaymentAfterCommit

\* ... the whole workflow implements what the pipeline is promised.
THEOREM PunctualImplementsContract == PunctualSpec => ImplementsContract
<1>1. Safe /\ Leased /\ Entitled /\ [Next /\ Punctual]_vars =>
        [Contract!Next]_<<commits, wf.status = "AI_COMPLETE">>
  BY StepContract DEF Calm
<1> QED
  BY <1>1, InitContract, SafeWhenPunctual, PTL DEF PunctualSpec, ImplementsContract, Contract!Spec

\* With one worker per session (globalConcurrency 1) the books stay
\* right when processes stall past their leases as well.
THEOREM OneWorkerBooks ==
  ASSUME OneWorker
  PROVE  Spec => [](NewsPartitioned /\ CommittedOnce /\ CompleteMeansCovered /\ BudgetPerNews)
BY SafeWithOneWorker, SafeMeans, PTL

\* ... and the workflow implements its contract, zombies included.
THEOREM OneWorkerContract == ASSUME OneWorker PROVE Spec => ImplementsContract
<1>1. Safe /\ [Next]_vars => [Contract!Next]_<<commits, wf.status = "AI_COMPLETE">>
  BY StepContract DEF Calm
<1> QED
  BY <1>1, InitContract, SafeWithOneWorker, PTL DEF Spec, ImplementsContract, Contract!Spec

-----------------------------------------------------------------------------
(* The reason for attention *)

Owned == \A i \in Items : item[i].status \in {"RUNNING", "WAITING"} => item[i].owner # None

\* A session that has not planned has idle workers and no rows.
NotYet ==
  \A s \in Sessions : sess[s].pc \in {"off", "started"} =>
    /\ \A w \in Workers : job[s][w].pc = "idle"
    /\ \A i \in Items : item[i].owner # s

\* A session that runs and is not aborted attends to its rows: none is left
\* paused, each one it owns has its worker, and the last worker to leave has
\* seen that there is nothing to claim.
Attends(s) ==
  sess[s].pc = "running" /\ ~sess[s].aborted =>
    /\ \A i \in Items : item[i].status # "PAUSED"
    /\ \A i \in Items : item[i].owner = s => \E w \in Workers : Working(s, w) /\ job[s][w].item = i
    /\ (\A w \in Workers : job[s][w].pc = "exited") => \A i \in Items : ~Claimable(i)

Attended == Owned /\ NotYet /\ \A s \in Sessions : Attends(s)

SameLeases == \A i \in Items : item'[i].status = item[i].status /\ item'[i].owner = item[i].owner

\* Steps that leave the rows and the workers alone, and start no session.
LEMMA LeasesKept ==
  ASSUME Attended, SameLeases, UNCHANGED job,
         \A s \in Sessions : sess'[s].pc = "running" /\ ~sess'[s].aborted =>
                               sess[s].pc = "running" /\ ~sess[s].aborted,
         \A s \in Sessions : sess'[s].pc \in {"off", "started"} => sess[s].pc \in {"off", "started"}
  PROVE  Attended'
<1>1. Owned'
  BY DEF Attended, Owned, SameLeases
<1>2. NotYet'
  BY DEF Attended, NotYet, SameLeases
<1>3. ASSUME NEW s \in Sessions, sess'[s].pc = "running", ~sess'[s].aborted
      PROVE  /\ \A i \in Items : item'[i].status # "PAUSED"
             /\ \A i \in Items : item'[i].owner = s => \E w \in Workers : Working(s, w)' /\ job'[s][w].item = i
             /\ (\A w \in Workers : job'[s][w].pc = "exited") => \A i \in Items : ~Claimable(i)'
  <2>1. /\ \A i \in Items : item[i].status # "PAUSED"
        /\ \A i \in Items : item[i].owner = s => \E w \in Workers : Working(s, w) /\ job[s][w].item = i
        /\ (\A w \in Workers : job[s][w].pc = "exited") => \A i \in Items : ~Claimable(i)
    BY <1>3 DEF Attended, Attends
  <2>2. \A i \in Items : Claimable(i)' <=> Claimable(i)
    BY DEF SameLeases, Claimable
  <2> QED
    BY <2>1, <2>2 DEF SameLeases, Working
<1> QED
  BY <1>1, <1>2, <1>3 DEF Attended, Attends

\* What the claim of a row leaves behind.
LEMMA ClaimFacts ==
  ASSUME Inv, NEW t \in Sessions, NEW v \in Workers, ClaimTask(t, v)
  PROVE  /\ Working(t, v)' /\ job'[t][v].item \in Items
         /\ item'[job'[t][v].item].owner = t
         /\ item'[job'[t][v].item].status = "RUNNING"
         /\ \A j \in Items : j # job'[t][v].item =>
              \/ item'[j].status = item[j].status /\ item'[j].owner = item[j].owner
              \/ item'[j].status \in {"deleted", "PENDING"} /\ item'[j].owner = None
<1>1. PICK i \in Items : /\ Claimable(i)
                         /\ \E rows \in Repackings(i) :
                              /\ item' = [rows EXCEPT ![i].status = "RUNNING", ![i].owner = t, ![i].ttl = LeaseTicks]
                              /\ SetJob(t, v, [pc |-> "resolve", item |-> i, news |-> rows[i].news])
  BY DEF ClaimTask
<1>2. PICK rows \in Repackings(i) :
        /\ item' = [rows EXCEPT ![i].status = "RUNNING", ![i].owner = t, ![i].ttl = LeaseTicks]
        /\ SetJob(t, v, [pc |-> "resolve", item |-> i, news |-> rows[i].news])
  BY <1>1
<1>3. Types /\ rows \in Table
  BY RepackType DEF Inv, Types
<1>4. \A k \in Items : k # i => item'[k] = rows[k]
  BY <1>2, <1>3 DEF Table
<1>5. item'[i].owner = t /\ item'[i].status = "RUNNING"
  <2>1. item'[i] = [rows[i] EXCEPT !.status = "RUNNING", !.owner = t, !.ttl = LeaseTicks] /\ rows[i] \in ItemRow
    BY <1>2, <1>3 DEF Table
  <2> QED
    BY <2>1 DEF ItemRow
<1>6. job'[t][v] = [pc |-> "resolve", item |-> i, news |-> rows[i].news]
  BY <1>2, <1>3 DEF SetJob, Types
<1>7. ASSUME NEW k \in Items, k # i
      PROVE  \/ rows[k].status = item[k].status /\ rows[k].owner = item[k].owner
             \/ rows[k].status \in {"deleted", "PENDING"} /\ rows[k].owner = None
  <2>0. item[k] \in ItemRow
    BY <1>3 DEF Types, Table
  <2>1. CASE rows = item
    BY <2>1
  <2>2. ASSUME NEW more, rows = Absorb(i, more)
        PROVE  \/ rows[k].status = item[k].status /\ rows[k].owner = item[k].owner
               \/ rows[k].status \in {"deleted", "PENDING"} /\ rows[k].owner = None
    <3>1. rows[k] = IF ~Untried(k) \/ item[k].news \cap more = {} THEN item[k]
                    ELSE IF item[k].news \subseteq more THEN [item[k] EXCEPT !.status = "deleted", !.news = {}]
                    ELSE [item[k] EXCEPT !.news = @ \ more]
      BY <1>7, <2>2 DEF Absorb
    <3> QED
      BY <2>0, <3>1 DEF Untried, ItemRow
  <2>3. ASSUME NEW head, NEW new \in Fresh, rows = CutOff(i, head, new)
        PROVE  \/ rows[k].status = item[k].status /\ rows[k].owner = item[k].owner
               \/ rows[k].status \in {"deleted", "PENDING"} /\ rows[k].owner = None
    <3>1. CASE k = new
      <4>1. rows[k] = NewRow(new, item[i].news \ head)
        BY <1>3, <2>3, <3>1 DEF CutOff, Types, Table, Fresh
      <4> QED
        BY <4>1 DEF NewRow
    <3>2. CASE k # new
      BY <1>3, <1>7, <2>3, <3>2 DEF CutOff, Types, Table
    <3> QED
      BY <3>1, <3>2
  <2> QED
    BY <2>1, <2>2, <2>3 DEF Repackings
<1> QED
  BY <1>4, <1>5, <1>6, <1>7 DEF Working

\* What a step of a worker leaves behind: who owns the rows, and why the
\* worker has dropped its task or has left.
LEMMA WorkerFacts ==
  ASSUME Inv, Owned, Entitled, NEW t \in Sessions, NEW v \in Workers, WorkerStep(t, v)
  PROVE  /\ \A j \in Items :
              /\ item'[j].status \in {"RUNNING", "WAITING"} => item'[j].owner # None
              /\ item'[j].status = "PAUSED" => item[j].status = "PAUSED"
              /\ item'[j].owner \in {item[j].owner, None} \/ (item'[j].owner = t /\ Working(t, v)' /\ job'[t][v].item = j)
         /\ Working(t, v) => \/ Working(t, v)' /\ job'[t][v].item = job[t][v].item
                             \/ sess'[t].aborted
                             \/ item'[job[t][v].item].owner = None
         /\ job'[t][v].pc = "exited" /\ ~sess'[t].aborted => NoTask(t, v)
<1> DEFINE i == job[t][v].item
           Rows1 == \A j \in Items :
              /\ item'[j].status \in {"RUNNING", "WAITING"} => item'[j].owner # None
              /\ item'[j].status = "PAUSED" => item[j].status = "PAUSED"
              /\ item'[j].owner \in {item[j].owner, None} \/ (item'[j].owner = t /\ Working(t, v)' /\ job'[t][v].item = j)
           Task1 == Working(t, v) => \/ Working(t, v)' /\ job'[t][v].item = job[t][v].item
                                     \/ sess'[t].aborted
                                     \/ item'[job[t][v].item].owner = None
           Exit1 == job'[t][v].pc = "exited" /\ ~sess'[t].aborted => NoTask(t, v)
<1>0. Types /\ item \in Table /\ t # None /\ sess \in [Sessions -> SessRow]
  BY NoneAssumption DEF Inv, Types
<1>1. ASSUME UNCHANGED item PROVE Rows1
  BY <1>1 DEF Owned
<1>2. ASSUME NEW pc, pc \notin {"idle", "exited"}, Goto(t, v, pc)
      PROVE  Working(t, v)' /\ job'[t][v].item = job[t][v].item /\ job'[t][v].pc # "exited"
  <2>1. job' = [job EXCEPT ![t] = [job[t] EXCEPT ![v] = [job[t][v] EXCEPT !.pc = pc]]]
    BY <1>2 DEF Goto
  <2>2. job'[t][v] = [job[t][v] EXCEPT !.pc = pc] /\ job[t][v] \in JobRow
    BY <1>0, <2>1 DEF Types
  <2> QED
    BY <1>2, <2>2 DEF JobRow, Working
<1>3. ASSUME NEW j, SetJob(t, v, j)
      PROVE  job'[t][v] = j
  <2>1. job' = [job EXCEPT ![t] = [job[t] EXCEPT ![v] = j]]
    BY <1>3 DEF SetJob
  <2> QED
    BY <1>0, <2>1 DEF Types
<1>4. ASSUME sess' = [sess EXCEPT ![t].aborted = TRUE]
      PROVE  sess'[t].aborted
  <2>1. sess'[t] = [sess[t] EXCEPT !.aborted = TRUE] /\ sess[t] \in SessRow
    BY <1>0, <1>4
  <2> QED
    BY <2>1 DEF SessRow
<1>5. ASSUME NEW kind, Catch(t, v, kind)
      PROVE  Task1 /\ Exit1
  <2>1. CASE sess[t].aborted \/ kind = "pause"
    BY <1>4, <1>5, <2>1 DEF Catch
  <2>2. CASE ~(sess[t].aborted \/ kind = "pause")
    BY <1>2, <1>5, <2>2 DEF Catch
  <2> QED
    BY <2>1, <2>2
<1>6. ASSUME NEW st \in {"SUCCESS", "NEEDS_ATTENTION", "SPLIT"}, Working(t, v), item' = Park(i, st)
      PROVE  /\ item'[i].owner = None /\ item'[i].status = st
             /\ \A j \in Items : j # i => item'[j] = item[j]
  <2>1. i \in Items
    BY <1>0, <1>6, JobItem
  <2>2. item'[i] = [item[i] EXCEPT !.status = st, !.owner = None, !.ttl = -1] /\ item[i] \in ItemRow
    BY <1>0, <1>6, <2>1 DEF Park, Table
  <2> QED
    BY <1>0, <1>6, <2>2 DEF ItemRow, Park, Table
<1>7. NoJob.pc = "idle" /\ Exited.pc = "exited"
  BY DEF NoJob, Exited
<1>8. CASE ClaimTask(t, v)
  <2>1. ~Working(t, v)
    BY <1>8 DEF ClaimTask, At, Working
  <2>2. Rows1 /\ Exit1
    BY <1>0, <1>8, ClaimFacts DEF Owned, Working
  <2> QED
    BY <2>1, <2>2
<1>9. CASE ClaimFails(t, v)
  <2>1. sess'[t].aborted /\ UNCHANGED item
    BY <1>4, <1>9 DEF ClaimFails
  <2> QED
    BY <1>1, <2>1
<1>10. CASE NoTask(t, v)
  <2>1. ~Working(t, v) /\ UNCHANGED item
    BY <1>10 DEF NoTask, At, Working
  <2> QED
    BY <1>1, <1>10, <2>1
<1>11. CASE Resolve(t, v) \/ NoModel(t, v) \/ Reply(t, v)
  <2>1. Rows1
    BY <1>1, <1>11 DEF Resolve, NoModel, Reply
  <2>2. Task1 /\ Exit1
    <3> HIDE DEF Task1, Exit1
    <3>1. (\E kind : Catch(t, v, kind)) \/ (\E pc \in {"commit", "request"} : Goto(t, v, pc))
      BY <1>11 DEF Resolve, NoModel, Reply
    <3>2. ASSUME NEW pc \in {"commit", "request"}, Goto(t, v, pc)
          PROVE  Task1 /\ Exit1
      BY <1>2, <3>2 DEF Task1, Exit1
    <3> QED
      BY <1>5, <3>1, <3>2
  <2> QED
    BY <2>1, <2>2
<1>12. CASE Waiting(t, v)
  <2>1. Working(t, v) /\ UNCHANGED job /\ job[t][v].pc # "exited"
    BY <1>12 DEF Waiting, At, Working
  <2>2. i \in Items
    BY <1>0, <2>1, JobItem
  <2>3. CASE UNCHANGED item
    BY <1>1, <2>1, <2>3 DEF Working
  <2>4. CASE Holds(t, i) /\ item' = [item EXCEPT ![i].status = "WAITING"]
    <3>1. item'[i] = [item[i] EXCEPT !.status = "WAITING"] /\ item[i] \in ItemRow
          /\ \A j \in Items : j # i => item'[j] = item[j]
      BY <1>0, <2>2, <2>4 DEF Table
    <3>2. item'[i].owner = item[i].owner /\ item'[i].status = "WAITING" /\ item[i].owner = t
      BY <2>4, <3>1 DEF Holds, ItemRow
    <3> QED
      BY <1>0, <2>1, <3>1, <3>2 DEF Owned, Working
  <2> QED
    BY <1>12, <2>3, <2>4 DEF Waiting
<1>13. CASE Reserve(t, v)
  <2>1. Working(t, v)
    BY <1>13 DEF Reserve, At, Working
  <2>2. i \in Items
    BY <1>0, <2>1, JobItem
  <2>3. CASE \E kind : Catch(t, v, kind) /\ UNCHANGED item
    BY <1>1, <1>5, <2>3
  <2>4. CASE /\ Holds(t, i) /\ Goto(t, v, "sent")
             /\ item' = [item EXCEPT ![item[i].root].requests = @ + 1, ![i].status = "RUNNING"]
    <3>1. PICK mid : mid = [item EXCEPT ![item[i].root].requests = @ + 1]
      OBVIOUS
    <3>2. item' = [mid EXCEPT ![i].status = "RUNNING"]
      BY <2>4, <3>1
    <3>3. ASSUME NEW j \in Items
          PROVE  item'[j].owner = item[j].owner /\ item'[j].status = IF j = i THEN "RUNNING" ELSE item[j].status
      <4>1. item[j] \in ItemRow /\ (mid[j] = item[j] \/ mid[j] = [item[j] EXCEPT !.requests = @ + 1])
        BY <1>0, <3>1 DEF Table
      <4>2. mid[j].owner = item[j].owner /\ mid[j].status = item[j].status
            /\ (mid[j] = [mid[j] EXCEPT !.ttl = @])
        BY <4>1 DEF ItemRow
      <4>3. item'[j] = IF j = i THEN [mid[j] EXCEPT !.status = "RUNNING"] ELSE mid[j]
        BY <1>0, <2>2, <3>1, <3>2 DEF Table
      <4> QED
        BY <4>1, <4>2, <4>3 DEF ItemRow
    <3>4. item[i].owner = t
      BY <2>4 DEF Holds
    <3>5. Working(t, v)' /\ job'[t][v].item = job[t][v].item /\ job'[t][v].pc # "exited"
      BY <1>2, <2>4
    <3> QED
      BY <1>0, <3>3, <3>4, <3>5 DEF Owned
  <2> QED
    BY <1>13, <2>3, <2>4 DEF Reserve
<1>14. CASE Commit(t, v) \/ StoreFails(t, v) \/ Split(t, v) \/ NeedsAttention(t, v)
  <2>1. Working(t, v)
    BY <1>14 DEF Commit, StoreFails, Split, NeedsAttention, At, Working
  <2>2. item[i].owner = t
    BY <2>1 DEF Entitled, Mine
  <2>3. CASE \E kind : Catch(t, v, kind) /\ UNCHANGED item
    BY <1>1, <1>5, <2>3
  <2>4. ASSUME NEW st \in {"SUCCESS", "NEEDS_ATTENTION"}, item' = Park(i, st), SetJob(t, v, NoJob)
        PROVE  Rows1 /\ Task1 /\ Exit1
    <3>1. item'[i].owner = None /\ item'[i].status = st /\ \A j \in Items : j # i => item'[j] = item[j]
      BY <1>6, <2>1, <2>4
    <3>2. job'[t][v] = NoJob
      BY <1>3, <2>4
    <3> QED
      BY <1>7, <3>1, <3>2 DEF Owned
  <2>5. CASE Split(t, v)
    <3>1. PICK first \in Halves(job[t][v].news), a \in Fresh, b \in Fresh :
               /\ a # b
               /\ item' = [Park(i, "SPLIT") EXCEPT ![a] = NewRow(item[i].root, first),
                                                   ![b] = NewRow(item[i].root, job[t][v].news \ first)]
               /\ SetJob(t, v, NoJob)
      BY <2>2, <2>5 DEF Split
    <3>2. job'[t][v] = NoJob
      BY <1>3, <3>1
    <3>3. i \in Items /\ i # a /\ i # b /\ a \in Items /\ b \in Items
      <4>1. i \in Items /\ item[i].status \in {"RUNNING", "WAITING"}
        BY <1>0, <2>1, <2>2, JobItem DEF Inv, OwnersWork
      <4> QED
        BY <4>1 DEF Fresh
    <3>4. Park(i, "SPLIT") \in Table
      BY <1>0, <3>3, ParkType DEF RowStatus
    <3>5. Park(i, "SPLIT")[i].owner = None /\ Park(i, "SPLIT")[i].status = "SPLIT"
          /\ \A j \in Items : j # i => Park(i, "SPLIT")[j] = item[j]
      <4>1. Park(i, "SPLIT")[i] = [item[i] EXCEPT !.status = "SPLIT", !.owner = None, !.ttl = -1] /\ item[i] \in ItemRow
        BY <1>0, <3>3 DEF Park, Table
      <4> QED
        BY <1>0, <4>1 DEF ItemRow, Park, Table
    <3>6. /\ item'[a] = NewRow(item[i].root, first)
          /\ item'[b] = NewRow(item[i].root, job[t][v].news \ first)
          /\ \A j \in Items : j # a /\ j # b => item'[j] = Park(i, "SPLIT")[j]
      BY <3>1, <3>3, <3>4 DEF Table
    <3>7. item'[a].owner = None /\ item'[a].status = "PENDING" /\ item'[b].owner = None /\ item'[b].status = "PENDING"
      BY <3>6 DEF NewRow
    <3>8. Rows1
      <4> SUFFICES ASSUME NEW j \in Items
                   PROVE  /\ item'[j].status \in {"RUNNING", "WAITING"} => item'[j].owner # None
                          /\ item'[j].status = "PAUSED" => item[j].status = "PAUSED"
                          /\ item'[j].owner \in {item[j].owner, None}
        OBVIOUS
      <4>1. CASE j \in {a, b}
        BY <3>7, <4>1
      <4>2. CASE j = i
        BY <3>3, <3>5, <3>6, <4>2
      <4>3. CASE j \notin {a, b, i}
        BY <3>5, <3>6, <4>3 DEF Owned
      <4> QED
        BY <4>1, <4>2, <4>3
    <3>9. Task1 /\ Exit1
      BY <1>7, <3>2, <3>3, <3>5, <3>6
    <3> QED
      BY <3>8, <3>9
  <2> QED
    BY <1>14, <2>2, <2>3, <2>4, <2>5 DEF Commit, StoreFails, NeedsAttention
<1> QED
  BY <1>8, <1>9, <1>10, <1>11, <1>12, <1>13, <1>14 DEF WorkerStep

\* The workers of the session that runs keep attending to its rows.
LEMMA WorkerAttends ==
  ASSUME Inv, Leased, Entitled, Attended, NEW t \in Sessions, NEW v \in Workers, WorkerStep(t, v)
  PROVE  Attended'
<1>1. /\ sess[t].pc = "running" /\ t # None
      /\ \A s \in Sessions : sess'[s].pc = sess[s].pc
      /\ \A s \in Sessions : s # t => sess[s].pc \notin Beating
      /\ \A s \in Sessions, w \in Workers : <<s, w>> # <<t, v>> => job'[s][w] = job[s][w]
  BY WorkerRuns, WorkerOwners, NoneAssumption DEF Leased, Beating
<1>2. /\ \A j \in Items :
           /\ item'[j].status \in {"RUNNING", "WAITING"} => item'[j].owner # None
           /\ item'[j].status = "PAUSED" => item[j].status = "PAUSED"
           /\ item'[j].owner \in {item[j].owner, None} \/ (item'[j].owner = t /\ Working(t, v)' /\ job'[t][v].item = j)
      /\ Working(t, v) => \/ Working(t, v)' /\ job'[t][v].item = job[t][v].item
                          \/ sess'[t].aborted
                          \/ item'[job[t][v].item].owner = None
      /\ job'[t][v].pc = "exited" /\ ~sess'[t].aborted => NoTask(t, v)
  BY WorkerFacts DEF Attended
<1>3. Owned'
  BY <1>2 DEF Owned
<1>4. NotYet'
  <2> SUFFICES ASSUME NEW s \in Sessions, sess'[s].pc \in {"off", "started"}
               PROVE  (\A w \in Workers : job'[s][w].pc = "idle") /\ \A i \in Items : item'[i].owner # s
    BY DEF NotYet
  <2>1. s # t /\ s # None /\ (\A w \in Workers : job[s][w].pc = "idle") /\ \A i \in Items : item[i].owner # s
    BY <1>1, NoneAssumption DEF Attended, NotYet
  <2> QED
    BY <1>1, <1>2, <2>1
<1>5. ASSUME NEW s \in Sessions, s # t PROVE Attends(s)'
  BY <1>1, <1>5 DEF Attends, Beating
<1>6. Attends(t)'
  <2> SUFFICES ASSUME ~sess'[t].aborted
               PROVE  /\ \A i \in Items : item'[i].status # "PAUSED"
                      /\ \A i \in Items : item'[i].owner = t => \E w \in Workers : Working(t, w)' /\ job'[t][w].item = i
                      /\ (\A w \in Workers : job'[t][w].pc = "exited") => \A i \in Items : ~Claimable(i)'
    BY DEF Attends
  <2>1. ~sess[t].aborted
    <3>1. UNCHANGED sess \/ sess' = [sess EXCEPT ![t].aborted = TRUE]
      BY DEF WorkerStep, ClaimTask, ClaimFails, NoTask, Resolve, Waiting, Reserve, NoModel, Reply,
             Commit, StoreFails, Split, NeedsAttention, Catch
    <3>2. sess' # [sess EXCEPT ![t].aborted = TRUE]
      <4>1. sess \in [Sessions -> SessRow]
        BY DEF Inv, Types
      <4>2. [sess EXCEPT ![t].aborted = TRUE][t].aborted
        BY <4>1 DEF SessRow
      <4> QED
        BY <4>2
    <3> QED
      BY <3>1, <3>2
  <2>2. /\ \A i \in Items : item[i].status # "PAUSED"
        /\ \A i \in Items : item[i].owner = t => \E w \in Workers : Working(t, w) /\ job[t][w].item = i
    BY <1>1, <2>1 DEF Attended, Attends
  <2>3. ASSUME NEW i \in Items, item'[i].owner = t
        PROVE  \E w \in Workers : Working(t, w)' /\ job'[t][w].item = i
    <3>1. CASE Working(t, v)' /\ job'[t][v].item = i
      BY <3>1
    <3>2. CASE ~(Working(t, v)' /\ job'[t][v].item = i)
      <4>1. item[i].owner = t
        BY <1>1, <1>2, <2>3, <3>2
      <4>2. PICK w \in Workers : Working(t, w) /\ job[t][w].item = i
        BY <2>2, <4>1
      <4>3. w # v
        BY <1>1, <1>2, <2>3, <3>2, <4>2
      <4>4. job'[t][w] = job[t][w]
        BY <1>1, <4>3
      <4> QED
        BY <4>2, <4>4 DEF Working
    <3> QED
      BY <3>1, <3>2
  <2>4. ASSUME \A w \in Workers : job'[t][w].pc = "exited", NEW i \in Items
        PROVE  ~Claimable(i)'
    <3>1. NoTask(t, v)
      BY <1>2, <2>4
    <3>2. \A w \in Workers \ {v} : job[t][w].pc = "exited"
      BY <1>1, <2>4
    <3>3. ~RowsMayBeLocked(t, v)
      BY <1>1, <3>2 DEF RowsMayBeLocked, Beating
    <3>4. \A j \in Items : ~Claimable(j)
      BY <2>1, <3>1, <3>3 DEF NoTask
    <3>5. UNCHANGED item
      BY <3>1 DEF NoTask
    <3> QED
      BY <3>4, <3>5 DEF Claimable
  <2> QED
    BY <1>2, <2>2, <2>3, <2>4
<1> QED
  BY <1>3, <1>4, <1>5, <1>6 DEF Attended

\* A session that plans starts with idle workers and no paused row.
LEMMA PrepareAttends ==
  ASSUME Inv, Leased, Attended, NEW t \in Sessions, Prepare(t)
  PROVE  Attended'
<1>1. /\ sess[t].pc = "started" /\ sess \in [Sessions -> SessRow] /\ item \in Table /\ t # None
      /\ sess' = [sess EXCEPT ![t].pc = "running"] /\ UNCHANGED job
  BY NoneAssumption DEF Prepare, Inv, Types
<1>2. /\ \A s \in Sessions : s # t => sess'[s] = sess[s] /\ sess[s].pc \notin Beating
      /\ sess'[t].pc = "running"
  <2>1. sess'[t] = [sess[t] EXCEPT !.pc = "running"] /\ sess[t] \in SessRow
        /\ \A s \in Sessions : s # t => sess'[s] = sess[s]
    BY <1>1
  <2> QED
    BY <1>1, <2>1 DEF Leased, Beating, SessRow
<1>3. ASSUME NEW i \in Items
      PROVE  /\ item'[i].status \in {"RUNNING", "WAITING"} => item'[i].owner # None
             /\ item'[i].status # "PAUSED"
             /\ item'[i].owner \in {item[i].owner, None}
  <2>0. item[i] \in ItemRow
    BY <1>1 DEF Table
  <2>1. CASE Rows = {}
    <3>1. PICK batch : item' = Planned(batch)
      BY <2>1 DEF Prepare
    <3>2. item'[i] = IF i \in Fresh /\ batch[i] # {} THEN NewRow(i, batch[i]) ELSE item[i]
      BY <3>1 DEF Planned
    <3>3. item[i].status \notin RowStatus
      BY <2>1 DEF Rows
    <3> QED
      BY <3>2, <3>3 DEF NewRow, RowStatus
  <2>2. CASE Rows # {}
    <3>1. item' = Requeued
      BY <2>2 DEF Prepare
    <3>2. item'[i] = IF \/ item[i].status \in {"PAUSED", "WAITING", "NEEDS_ATTENTION"}
                        \/ item[i].status = "RUNNING" /\ Expired(item[i].ttl)
                     THEN [item[i] EXCEPT !.status = "PENDING", !.owner = None, !.ttl = -1]
                     ELSE item[i]
      BY <3>1 DEF Requeued
    <3> QED
      BY <2>0, <3>2 DEF ItemRow, Attended, Owned
  <2> QED
    BY <2>1, <2>2
<1>4. Owned'
  BY <1>3 DEF Owned
<1>5. /\ \A w \in Workers : job[t][w].pc = "idle"
      /\ \A i \in Items : item[i].owner # t
  BY <1>1 DEF Attended, NotYet
<1>6. NotYet'
  <2> SUFFICES ASSUME NEW s \in Sessions, sess'[s].pc \in {"off", "started"}
               PROVE  (\A w \in Workers : job'[s][w].pc = "idle") /\ \A i \in Items : item'[i].owner # s
    BY DEF NotYet
  <2>1. s # t /\ s # None /\ (\A w \in Workers : job[s][w].pc = "idle") /\ \A i \in Items : item[i].owner # s
    BY <1>2, NoneAssumption DEF Attended, NotYet
  <2> QED
    BY <1>1, <1>3, <2>1
<1>7. ASSUME NEW s \in Sessions PROVE Attends(s)'
  <2>1. CASE s # t
    BY <1>2, <2>1 DEF Attends, Beating
  <2>2. CASE s = t
    <3>1. \A i \in Items : item'[i].owner # t
      BY <1>1, <1>3, <1>5
    <3>2. \E w \in Workers : job'[t][w].pc # "exited"
      BY <1>1, <1>5, WorkersAssumption
    <3> QED
      BY <1>3, <2>2, <3>1, <3>2 DEF Attends
  <2> QED
    BY <2>1, <2>2
<1> QED
  BY <1>4, <1>6, <1>7 DEF Attended

LEMMA StepAttended ==
  ASSUME Inv, Leased, Entitled, Attended, [Next]_vars
  PROVE  Attended'
<1>0. sess \in [Sessions -> SessRow] /\ item \in Table
  BY DEF Inv, Types
<1>1. ASSUME NEW t \in Sessions, NEW pc \in {"started", "failing", "checked", "returned", "dead"}, NEW st,
             \/ sess' = [sess EXCEPT ![t].pc = pc]
             \/ sess' = [sess EXCEPT ![t].pc = pc, ![t].result = st],
             pc = "started" => sess[t].pc = "off",
             UNCHANGED <<item, job>>
      PROVE  Attended'
  <2>1. /\ sess'[t].pc = pc /\ \A s \in Sessions : s # t => sess'[s] = sess[s]
    <3>1. /\ \/ sess'[t] = [sess[t] EXCEPT !.pc = pc]
             \/ sess'[t] = [sess[t] EXCEPT !.pc = pc, !.result = st]
          /\ sess[t] \in SessRow
          /\ \A s \in Sessions : s # t => sess'[s] = sess[s]
      BY <1>0, <1>1
    <3> QED
      BY <3>1 DEF SessRow
  <2>2. \A s \in Sessions : /\ sess'[s].pc = "running" /\ ~sess'[s].aborted => sess[s].pc = "running" /\ ~sess[s].aborted
                            /\ sess'[s].pc \in {"off", "started"} => sess[s].pc \in {"off", "started"}
    BY <1>1, <2>1
  <2>3. SameLeases
    BY <1>1 DEF SameLeases
  <2> QED
    BY <1>1, <2>2, <2>3, LeasesKept
<1>2. ASSUME NEW t \in Sessions, UNCHANGED sess \/ sess' = [sess EXCEPT ![t].aborted = TRUE], SameLeases, UNCHANGED job
      PROVE  Attended'
  <2>1. \A s \in Sessions : sess'[s].pc = sess[s].pc /\ (~sess'[s].aborted => ~sess[s].aborted)
    <3> SUFFICES ASSUME NEW s \in Sessions
                 PROVE  sess'[s].pc = sess[s].pc /\ (~sess'[s].aborted => ~sess[s].aborted)
      OBVIOUS
    <3>1. sess[s] \in SessRow /\ (sess'[s] = sess[s] \/ sess'[s] = [sess[s] EXCEPT !.aborted = TRUE])
      BY <1>0, <1>2
    <3> QED
      BY <3>1 DEF SessRow
  <2> QED
    BY <1>2, <2>1, LeasesKept
<1>3. ASSUME NEW t \in Sessions, Start(t) \/ PrepareFails(t) \/ Settle(t) \/ MarkComplete(t) \/ Leave(t) \/ CloseWorkflow(t)
      PROVE  Attended'
  <2>1. CASE Start(t)
    BY <1>1, <2>1 DEF Start
  <2>2. CASE PrepareFails(t)
    BY <1>1, <2>2 DEF PrepareFails
  <2>3. CASE Settle(t)
    <3>1. PICK pc \in {"failing", "checked"}, st \in {"PAUSED", "NEEDS_ATTENTION"} : sess' = [sess EXCEPT ![t].pc = pc, ![t].result = st]
      BY <2>3 DEF Settle
    <3>2. pc # "started" /\ UNCHANGED <<item, job>>
      BY <2>3 DEF Settle
    <3> QED
      BY <1>1, <3>1, <3>2
  <2>4. CASE MarkComplete(t)
    BY <1>1, <2>4 DEF MarkComplete
  <2>5. CASE Leave(t)
    <3>1. PICK st : sess' = [sess EXCEPT ![t].pc = "failing", ![t].result = st]
      BY <2>5 DEF Leave
    <3> QED
      BY <1>1, <2>5, <3>1 DEF Leave
  <2>6. CASE CloseWorkflow(t)
    BY <1>1, <2>6 DEF CloseWorkflow
  <2> QED
    BY <1>3, <2>1, <2>2, <2>3, <2>4, <2>5, <2>6
<1>4. ASSUME NEW t \in Sessions, Renew(t) \/ Abort(t)
      PROVE  Attended'
  <2>1. SameLeases
    <3> SUFFICES ASSUME NEW i \in Items PROVE item'[i].status = item[i].status /\ item'[i].owner = item[i].owner
      BY DEF SameLeases
    <3>1. item[i] \in ItemRow /\ (item'[i] = item[i] \/ item'[i] = [item[i] EXCEPT !.ttl = LeaseTicks])
      BY <1>0, <1>4 DEF Renew, Abort, Table
    <3> QED
      BY <3>1 DEF ItemRow
  <2>2. UNCHANGED job /\ (UNCHANGED sess \/ sess' = [sess EXCEPT ![t].aborted = TRUE])
    BY <1>4 DEF Renew, Abort
  <2> QED
    BY <1>2, <2>1, <2>2
<1>5. ASSUME NEW t \in Sessions, Crash(t) \/ CloseTasks(t)
      PROVE  Attended'
  <2>1. PICK pc \in {"dead", "closing"} : sess' = [sess EXCEPT ![t].pc = pc, ![t].aborted = TRUE]
    BY <1>5 DEF Crash, CloseTasks
  <2>2. sess'[t].pc \in {"dead", "closing"} /\ \A s \in Sessions : s # t => sess'[s] = sess[s]
    <3>1. sess'[t] = [sess[t] EXCEPT !.pc = pc, !.aborted = TRUE] /\ sess[t] \in SessRow
          /\ \A s \in Sessions : s # t => sess'[s] = sess[s]
      BY <1>0, <2>1
    <3> QED
      BY <3>1 DEF SessRow
  <2>3. \A s \in Sessions : s # t => job'[s] = job[s]
    BY <1>5 DEF Crash, CloseTasks, Inv, Types
  <2>4. ASSUME NEW i \in Items
        PROVE  item'[i] = item[i] \/ (item'[i].status = "PAUSED" /\ item'[i].owner = None)
    <3>1. item[i] \in ItemRow /\ \/ item'[i] = item[i]
                                 \/ item'[i] = [item[i] EXCEPT !.status = "PAUSED", !.owner = None, !.ttl = -1]
      BY <1>0, <1>5 DEF Crash, CloseTasks, Table
    <3> QED
      BY <3>1 DEF ItemRow
  <2>5. Owned'
    BY <2>4 DEF Attended, Owned
  <2>6. NotYet'
    BY <2>2, <2>3, <2>4, NoneAssumption DEF Attended, NotYet
  <2>7. ASSUME NEW s \in Sessions, sess'[s].pc = "running"
        PROVE  Attends(s)'
    <3>1. s # t /\ sess[s].pc = "running"
      BY <2>2, <2>7
    <3>2. Crash(t)
      BY <1>5, <3>1 DEF CloseTasks, Leased, Beating
    <3>3. UNCHANGED item /\ job'[s] = job[s] /\ sess'[s] = sess[s]
      BY <2>2, <2>3, <3>1, <3>2 DEF Crash
    <3> QED
      BY <3>3 DEF Attended, Attends, Working, Claimable
  <2> QED
    BY <2>5, <2>6, <2>7 DEF Attended, Attends
<1>6. CASE Tick
  <2>1. SameLeases
    <3> SUFFICES ASSUME NEW i \in Items PROVE item'[i].status = item[i].status /\ item'[i].owner = item[i].owner
      BY DEF SameLeases
    <3>1. item[i] \in ItemRow /\ item'[i] = [item[i] EXCEPT !.ttl = Elapse(@)]
      BY <1>0, <1>6 DEF Tick, Table
    <3> QED
      BY <3>1 DEF ItemRow
  <2> QED
    BY <1>6, <2>1, LeasesKept DEF Tick
<1>7. CASE UNCHANGED vars
  BY <1>7, LeasesKept DEF vars, SameLeases
<1> QED
  BY <1>3, <1>4, <1>5, <1>6, <1>7, PrepareAttends, WorkerAttends DEF Next, SessionStep

\* A session that turns to attention while it runs has seen why.
LEMMA AttentionCaused ==
  ASSUME Inv, Attended, [Next]_vars
  PROVE  AttentionHasCause
<1> SUFFICES ASSUME NEW s \in Sessions, sess[s].pc = "running", sess'[s].pc = "failing",
                    sess'[s].result = "NEEDS_ATTENTION"
             PROVE  \E i \in Leaves : item[i].status = "NEEDS_ATTENTION" \/ item[i].owner \notin {None, s}
  BY DEF AttentionHasCause
<1>0. sess \in [Sessions -> SessRow]
  BY DEF Inv, Types
<1>1. Settle(s)
  <2>1. \A t \in Sessions, v \in Workers : ~WorkerStep(t, v)
    BY WorkerOwners DEF Inv
  <2>2. ASSUME NEW t \in Sessions, t # s, Start(t) \/ Renew(t) \/ Abort(t) \/ Crash(t) \/ SessionStep(t)
        PROVE  FALSE
    <3>1. CASE Start(t)
      BY <1>0, <2>2, <3>1 DEF Start
    <3>2. CASE Renew(t) \/ Abort(t) \/ Crash(t) \/ SessionStep(t)
      BY <2>2, <3>2, SessionLeases
    <3> QED
      BY <2>2, <3>1, <3>2
  <2>3. ~Crash(s) /\ ~Renew(s) /\ ~Abort(s)
    <3>1. sess[s] \in SessRow
      BY <1>0
    <3>2. ~Crash(s)
      <4> SUFFICES ASSUME Crash(s) PROVE FALSE
        OBVIOUS
      <4>1. sess'[s] = [sess[s] EXCEPT !.pc = "dead", !.aborted = TRUE]
        BY <1>0 DEF Crash
      <4> QED
        BY <3>1, <4>1 DEF SessRow
    <3>3. ASSUME Renew(s) \/ Abort(s) PROVE FALSE
      <4>1. sess'[s] = sess[s] \/ sess'[s] = [sess[s] EXCEPT !.aborted = TRUE]
        BY <1>0, <3>3 DEF Renew, Abort
      <4> QED
        BY <3>1, <4>1 DEF SessRow
    <3> QED
      BY <3>2, <3>3
  <2>4. ~Start(s) /\ ~Prepare(s) /\ ~PrepareFails(s) /\ ~MarkComplete(s) /\ ~Leave(s) /\ ~CloseTasks(s) /\ ~CloseWorkflow(s)
    BY DEF Start, Prepare, PrepareFails, MarkComplete, Leave, CloseTasks, CloseWorkflow
  <2>5. ~UNCHANGED sess
    OBVIOUS
  <2> QED
    BY <2>1, <2>2, <2>3, <2>4, <2>5 DEF Next, SessionStep, Tick, vars
<1>2. ~sess[s].aborted /\ Unfinished # {} /\ \A w \in Workers : job[s][w].pc = "exited"
  <2>1. sess[s] \in SessRow
    BY <1>0
  <2>2. PICK pc : sess'[s] = [sess[s] EXCEPT !.pc = pc, !.result = IF sess[s].aborted THEN "PAUSED" ELSE "NEEDS_ATTENTION"]
    BY <1>0, <1>1 DEF Settle
  <2>3. ~sess[s].aborted
    BY <2>1, <2>2 DEF SessRow
  <2>4. Unfinished # {}
    <3> SUFFICES ASSUME Unfinished = {} PROVE FALSE
      OBVIOUS
    <3>1. sess'[s] = [sess[s] EXCEPT !.pc = "checked", !.result = "NEEDS_ATTENTION"]
      BY <1>0, <1>1, <2>3 DEF Settle
    <3> QED
      BY <2>1, <3>1 DEF SessRow
  <2> QED
    BY <1>1, <2>3, <2>4 DEF Settle
<1>3. PICK i \in Leaves : item[i].status # "SUCCESS"
  BY <1>2 DEF Unfinished
<1>4. i \in Items /\ item[i].status \in {"PENDING", "RUNNING", "WAITING", "PAUSED", "NEEDS_ATTENTION"}
  BY <1>3 DEF Leaves, Rows, RowStatus
<1>5. item[i].status # "PAUSED" /\ ~Claimable(i) /\ item[i].owner # s
  BY <1>2, <1>4 DEF Attended, Attends, Working
<1>6. item[i].status = "PENDING" => item[i].owner = None
  BY <1>4 DEF Inv, OwnersWork
<1>7. item[i].status # "PENDING"
  BY <1>5, <1>6 DEF Claimable
<1> QED
  BY <1>3, <1>4, <1>5, <1>7 DEF Attended, Owned

LEMMA InitAttended == Init => Attended
<1> SUFFICES ASSUME Init PROVE Attended
  OBVIOUS
<1>1. \A i \in Items : item[i].status = "absent" /\ item[i].owner = None
  <2>1. \A i \in Items : item[i] = [NewRow(i, {}) EXCEPT !.status = "absent"]
    BY DEF Init
  <2> QED
    BY <2>1 DEF NewRow
<1>2. \A s \in Sessions : sess[s].pc = "off" /\ \A w \in Workers : job[s][w].pc = "idle"
  BY DEF Init, NoJob
<1> QED
  BY <1>1, <1>2, NoneAssumption DEF Attended, Owned, NotYet, Attends

\* While no process stalls a session asks for attention only because a task
\* does, or because a row still belongs to another session: its own workers
\* leave no row behind, whatever they race for, fail at or split.
THEOREM AttentionIsCaused == PunctualSpec => [][AttentionHasCause]_vars
<1>1. Init => Attended
  BY InitAttended
<1>2. Safe /\ Leased /\ Entitled /\ Attended /\ [Next /\ Punctual]_vars => Attended'
  BY StepAttended DEF Safe
<1>3. Safe /\ Attended /\ [Next /\ Punctual]_vars => [AttentionHasCause]_vars
  BY AttentionCaused DEF Safe
<1> QED
  BY <1>1, <1>2, <1>3, SafeWhenPunctual, PTL DEF PunctualSpec

\* The same where both worlds are one specification: without stalls the
\* invariants are those of PunctualSpec.
THEOREM PunctualAttentionHolds == MixedSpec => PunctualAttention
<1> DEFINE World == ~stalls => Safe /\ Leased /\ Entitled /\ Attended
           Step == Next /\ (~stalls => Punctual) /\ UNCHANGED stalls
<1>1. MixedInit => World
  <2> SUFFICES ASSUME MixedInit, ~stalls PROVE Safe /\ Leased /\ Entitled /\ Attended
    OBVIOUS
  <2>1. Init
    <3>1. \A w, active \in Workers : (IF stalls /\ w # active THEN Exited ELSE NoJob) = NoJob
      OBVIOUS
    <3>2. job = [s \in Sessions |-> [w \in Workers |-> NoJob]]
      BY <3>1 DEF MixedInit
    <3> QED
      BY <3>2 DEF MixedInit, Init
  <2> QED
    BY <2>1, InitSafe, InitAttended DEF Init, Leased, Entitled, Beating, Working, NoJob
<1>2. World /\ [Step]_<<vars, stalls>> => World'
  <2> SUFFICES ASSUME World, [Step]_<<vars, stalls>>, ~stalls' PROVE Safe' /\ Leased' /\ Entitled' /\ Attended'
    OBVIOUS
  <2>1. ~stalls /\ [Next /\ Punctual]_vars /\ [Next]_vars
    OBVIOUS
  <2> QED
    BY <2>1, StepSafe, StepLeased, StepEntitled, StepAttended DEF Safe, Calm
<1>3. World /\ [Step]_<<vars, stalls>> => [~stalls => AttentionHasCause]_vars
  <2> SUFFICES ASSUME World, [Step]_<<vars, stalls>>, ~stalls, ~UNCHANGED vars PROVE AttentionHasCause
    OBVIOUS
  <2>1. [Next]_vars
    OBVIOUS
  <2> QED
    BY <2>1, AttentionCaused DEF Safe
<1> HIDE DEF World, Step
<1>4. MixedSpec => []World
  BY <1>1, <1>2, PTL DEF MixedSpec, Step
<1> QED
  BY <1>3, <1>4, PTL DEF MixedSpec, PunctualAttention, Step

=============================================================================
