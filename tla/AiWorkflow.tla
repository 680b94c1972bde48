----------------------------- MODULE AiWorkflow -----------------------------
(***************************************************************************)
(* The durable causal-extraction workflow of one trace                     *)
(* (backend/src/services/ai-causal-workflow.ts together with the           *)
(* reservation transaction of ai-scheduler-store.ts).                      *)
(*                                                                         *)
(* A trace owns one AiWorkflow row and a set of AiWorkItem rows, each row  *)
(* holding a batch of news.  A session (one process, one random owner id)  *)
(* leases the workflow row, prepares the items, and runs Workers workers;  *)
(* each worker claims an item, resolves the content cache, sends requests, *)
(* and commits, splits or parks the item.  Sessions crash, stall past      *)
(* their leases and are replaced by later sessions of the same trace.      *)
(*                                                                         *)
(* Time: "ttl" is leaseUntil - now, counted in heartbeat periods.          *)
(* leaseUntil > now is ttl > 0, leaseUntil < now is ttl < 0; Tick lets one *)
(* period pass and -1 stands for every expired lease, so the clock needs   *)
(* no bound.                                                               *)
(***************************************************************************)
EXTENDS Integers, FiniteSets

CONSTANTS News,         \* the news handed to causal extraction
          Sessions,     \* executor processes of this trace, each used once
          Workers,      \* concurrent workers inside a session
          Items,        \* identities of AiWorkItem rows (bounds the uuids)
          MaxRequests,  \* maxAttempts: external requests a root may make
          LeaseTicks,   \* lease duration, in heartbeat periods
          None          \* SQL NULL

ASSUME RequestsAssumption == MaxRequests \in Nat \ {0}
ASSUME WorkersAssumption == Workers # {}
ASSUME LeaseAssumption == LeaseTicks \in Nat \ {0}
ASSUME NoneAssumption == None \notin Sessions /\ None \notin Items

VARIABLES wf,      \* the AiWorkflow row: status, owner, ttl, prepared
          item,    \* the AiWorkItem rows
          sess,    \* per session: program counter, abort flag, close status
          job,     \* per session and worker: program counter, item, news
          commits, \* history: how many times each news got a committed outcome
          paid     \* history: how many paid requests carried each news

vars == <<wf, item, sess, job, commits, paid>>

-----------------------------------------------------------------------------
(* Types *)

WfStatus == {"PENDING", "RUNNING", "PAUSED", "NEEDS_ATTENTION", "AI_COMPLETE", "FAILED"}
RowStatus == {"PENDING", "RUNNING", "WAITING", "PAUSED", "NEEDS_ATTENTION", "SPLIT", "SUCCESS"}
ItemStatus == RowStatus \cup {"absent", "deleted"}
SessPc == {"off", "started", "running", "checked", "returned", "failing", "closing", "dead"}
JobPc == {"idle", "resolve", "request", "sent", "commit", "split", "attention", "exited"}
Owner == Sessions \cup {None}
Ttl == -1 .. LeaseTicks

TypeOK ==
  /\ wf \in [status : WfStatus, owner : Owner, ttl : Ttl, prepared : BOOLEAN]
  /\ item \in [Items -> [status : ItemStatus, root : Items, news : SUBSET News,
                         owner : Owner, ttl : Ttl, requests : 0 .. MaxRequests]]
  /\ sess \in [Sessions -> [pc : SessPc, aborted : BOOLEAN, result : WfStatus]]
  /\ job \in [Sessions -> [Workers -> [pc : JobPc, item : Items \cup {None}, news : SUBSET News]]]
  /\ commits \in [News -> Nat]
  /\ paid \in [News -> Nat]

-----------------------------------------------------------------------------
(* Rows *)

NoJob == [pc |-> "idle", item |-> None, news |-> {}]
Exited == [pc |-> "exited", item |-> None, news |-> {}]

\* INSERT INTO "AiWorkItem": the column defaults of a new row.
NewRow(root, news) ==
  [status |-> "PENDING", root |-> root, news |-> news, owner |-> None, ttl |-> -1, requests |-> 0]

Fresh == {i \in Items : item[i].status = "absent"}
Rows == {i \in Items : item[i].status \in RowStatus}
Leaves == {i \in Rows : item[i].status # "SPLIT"}

Expired(ttl) == ttl < 0
Live(ttl) == ttl > 0

\* WHERE status IN ('PENDING','WAITING') AND owner IS NULL
Claimable(i) == item[i].status \in {"PENDING", "WAITING"} /\ item[i].owner = None

\* WHERE owner = me AND status IN ('RUNNING','WAITING')
Holds(s, i) == item[i].owner = s /\ item[i].status \in {"RUNNING", "WAITING"}

\* a root which never made a paid request, waiting to be claimed
Untried(i) ==
  /\ item[i].status = "PENDING"
  /\ item[i].owner = None
  /\ item[i].root = i
  /\ item[i].requests = 0

\* mutant of MayCommit: the commit does not check the owner
MayCommitAnyOwner(s, i) == item[i].status = "RUNNING" /\ Live(item[i].ttl)

\* the row the commit transaction locks: still RUNNING under my live lease
MayCommit(s, i) == item[i].owner = s /\ item[i].status = "RUNNING" /\ Live(item[i].ttl)

\* mutant of HasBudget: one request too many
HasBudgetOffByOne(r) == r \in Rows /\ item[r].requests <= MaxRequests

\* the shared counter of a root and its split children
HasBudget(r) == r \in Rows /\ item[r].requests < MaxRequests

\* mutant of Unfinished: rows waiting for a person are forgotten
UnfinishedRunning == {i \in Leaves : item[i].status \in {"PENDING", "RUNNING", "WAITING"}}

\* status NOT IN ('SUCCESS','SPLIT')
Unfinished == {i \in Leaves : item[i].status # "SUCCESS"}

\* the status an item is put in when it leaves the hands of a worker
Park(i, status) == [item EXCEPT ![i].status = status, ![i].owner = None, ![i].ttl = -1]

\* the two batches of a split: the first takes the odd news
Halves(S) == {A \in SUBSET S : Cardinality(A) = (Cardinality(S) + 1) \div 2}

SetJob(s, w, j) == job' = [job EXCEPT ![s][w] = j]
Goto(s, w, pc) == job' = [job EXCEPT ![s][w].pc = pc]

Bump(f, S) == [n \in News |-> IF n \in S THEN f[n] + 1 ELSE f[n]]

-----------------------------------------------------------------------------
Init ==
  /\ wf = [status |-> "PENDING", owner |-> None, ttl |-> -1, prepared |-> FALSE]
  /\ item = [i \in Items |-> [NewRow(i, {}) EXCEPT !.status = "absent"]]
  /\ sess = [s \in Sessions |-> [pc |-> "off", aborted |-> FALSE, result |-> "PAUSED"]]
  /\ job = [s \in Sessions |-> [w \in Workers |-> NoJob]]
  /\ commits = [n \in News |-> 0]
  /\ paid = [n \in News |-> 0]

-----------------------------------------------------------------------------
(* The session *)

\* AiWorkflowSession.start: one conditional UPDATE leases the workflow row.
Start(s) ==
  /\ sess[s].pc = "off"
  /\ wf.owner = None \/ Expired(wf.ttl)
  /\ wf' = [wf EXCEPT !.status = "RUNNING", !.owner = s, !.ttl = LeaseTicks]
  /\ sess' = [sess EXCEPT ![s].pc = "started"]
  /\ UNCHANGED <<item, job, commits, paid>>

\* Rows of the first planning: one per batch of news without a cached outcome.
Planned(batch) ==
  [i \in Items |-> IF i \in Fresh /\ batch[i] # {} THEN NewRow(i, batch[i]) ELSE item[i]]

\* mutant of Requeued: every row without a running lease is put back
RequeuedAll ==
  [i \in Items |->
     IF item[i].status \in RowStatus \ {"SPLIT"} /\ Expired(item[i].ttl)
     THEN [item[i] EXCEPT !.status = "PENDING", !.owner = None, !.ttl = -1]
     ELSE item[i]]

\* mutant of Requeued: only the rows of a dead process are put back
RequeuedRunning ==
  [i \in Items |->
     IF item[i].status = "RUNNING" /\ Expired(item[i].ttl)
     THEN [item[i] EXCEPT !.status = "PENDING", !.owner = None, !.ttl = -1]
     ELSE item[i]]

\* A resume puts back what no worker is entitled to any more.
Requeued ==
  [i \in Items |->
     IF \/ item[i].status \in {"PAUSED", "WAITING", "NEEDS_ATTENTION"}
        \/ item[i].status = "RUNNING" /\ Expired(item[i].ttl)
     THEN [item[i] EXCEPT !.status = "PENDING", !.owner = None, !.ttl = -1]
     ELSE item[i]]

\* The planning transaction of DurableCausalExtractionService.run.  It locks
\* the workflow row but does not look at its owner.  News found in the ledger
\* or the content cache get their outcome here (both keep what they hold, so a
\* second planning finds it again and skips the duplicates); the planner puts
\* each of the others in one batch.
Prepare(s) ==
  /\ sess[s].pc = "started"
  /\ \/ /\ Rows = {}
        /\ \E batch \in [Fresh -> SUBSET {n \in News : commits[n] = 0}] :
             /\ \A i, j \in Fresh : i # j => batch[i] \cap batch[j] = {}
             /\ item' = Planned(batch)
             /\ commits' = [n \in News |-> IF \E i \in Fresh : n \in batch[i] THEN 0 ELSE 1]
     \/ /\ Rows # {}
        /\ item' = Requeued
        /\ commits' = commits
  /\ wf' = [wf EXCEPT !.prepared = TRUE]
  /\ sess' = [sess EXCEPT ![s].pc = "running"]
  /\ UNCHANGED <<job, paid>>

\* A changed manifest, an impossible plan or a database error ends the session.
PrepareFails(s) ==
  /\ sess[s].pc = "started"
  /\ \E st \in {"NEEDS_ATTENTION", "PAUSED"} :
       sess' = [sess EXCEPT ![s].pc = "failing", ![s].result = st]
  /\ UNCHANGED <<wf, item, job, commits, paid>>

Beating == {"started", "running", "checked", "returned", "failing"}

\* AiWorkflowSession.renew, every ten seconds until close.  The statements
\* run one after the other: an error after the first leaves only it done.
Renew(s) ==
  /\ sess[s].pc \in Beating
  /\ IF wf.owner = s
     THEN /\ wf' = [wf EXCEPT !.ttl = LeaseTicks]
          /\ \/ /\ item' = [i \in Items |-> IF Holds(s, i) THEN [item[i] EXCEPT !.ttl = LeaseTicks] ELSE item[i]]
                /\ sess' = sess
             \/ /\ item' = item
                /\ sess' = [sess EXCEPT ![s].aborted = TRUE]
     ELSE /\ sess' = [sess EXCEPT ![s].aborted = TRUE]
          /\ UNCHANGED <<wf, item>>
  /\ UNCHANGED <<job, commits, paid>>

\* mutant of Abort: the timer is not armed while workers run
AbortBeforeWork(s) ==
  /\ sess[s].pc = "started"
  /\ ~sess[s].aborted
  /\ sess' = [sess EXCEPT ![s].aborted = TRUE]
  /\ UNCHANGED <<wf, item, job, commits, paid>>

\* The one-hour timer, a lost run lease or an unreachable database aborts.
Abort(s) ==
  /\ sess[s].pc \in Beating
  /\ ~sess[s].aborted
  /\ sess' = [sess EXCEPT ![s].aborted = TRUE]
  /\ UNCHANGED <<wf, item, job, commits, paid>>

\* After every worker has exited: any row not SUCCESS or SPLIT needs attention.
Settle(s) ==
  /\ sess[s].pc = "running"
  /\ \A w \in Workers : job[s][w].pc = "exited"
  /\ sess' = [sess EXCEPT
       ![s].pc = IF sess[s].aborted \/ Unfinished # {} THEN "failing" ELSE "checked",
       ![s].result = IF sess[s].aborted THEN "PAUSED" ELSE "NEEDS_ATTENTION"]
  /\ UNCHANGED <<wf, item, job, commits, paid>>

MarkComplete(s) ==
  /\ sess[s].pc = "checked"
  /\ wf' = IF wf.owner = s THEN [wf EXCEPT !.status = "AI_COMPLETE"] ELSE wf
  /\ sess' = [sess EXCEPT ![s].pc = "returned"]
  /\ UNCHANGED <<item, job, commits, paid>>

\* The caller chooses the status to close with: completion, a pause when the
\* session was aborted meanwhile, or FAILED when no candidate came out.
Leave(s) ==
  /\ sess[s].pc = "returned"
  /\ \E st \in IF sess[s].aborted THEN {"PAUSED"} ELSE {"AI_COMPLETE", "FAILED"} :
       sess' = [sess EXCEPT ![s].pc = "failing", ![s].result = st]
  /\ UNCHANGED <<wf, item, job, commits, paid>>

\* AiWorkflowSession.close, first statement: give back the items.
CloseTasks(s) ==
  /\ sess[s].pc = "failing"
  /\ item' = [i \in Items |->
       IF Holds(s, i) THEN [item[i] EXCEPT !.status = "PAUSED", !.owner = None, !.ttl = -1] ELSE item[i]]
  /\ sess' = [sess EXCEPT ![s].pc = "closing", ![s].aborted = TRUE]
  /\ UNCHANGED <<wf, job, commits, paid>>

\* AiWorkflowSession.close, second statement: give back the workflow row.
CloseWorkflow(s) ==
  /\ sess[s].pc = "closing"
  /\ wf' = IF wf.owner = s THEN [wf EXCEPT !.status = sess[s].result, !.owner = None, !.ttl = -1] ELSE wf
  /\ sess' = [sess EXCEPT ![s].pc = "dead"]
  /\ UNCHANGED <<item, job, commits, paid>>

\* The process dies: its memory is gone, its rows keep their leases.
Crash(s) ==
  /\ sess[s].pc \notin {"off", "dead"}
  /\ sess' = [sess EXCEPT ![s].pc = "dead", ![s].aborted = TRUE]
  /\ job' = [job EXCEPT ![s] = [w \in Workers |-> Exited]]
  /\ UNCHANGED <<wf, item, commits, paid>>

-----------------------------------------------------------------------------
(* The workers of a session *)

At(s, w, pc) == sess[s].pc = "running" /\ job[s][w].pc = pc

\* Repacking an untried root i while claiming it.  Absorb takes the head of
\* the other untried roots: those taken whole are deleted, at most one is cut.
Absorb(i, more) ==
  [j \in Items |->
     IF j = i THEN [item[j] EXCEPT !.news = @ \cup more]
     ELSE IF ~Untried(j) \/ item[j].news \cap more = {} THEN item[j]
     ELSE IF item[j].news \subseteq more THEN [item[j] EXCEPT !.status = "deleted", !.news = {}]
     ELSE [item[j] EXCEPT !.news = @ \ more]]

Absorbable(i) ==
  {more \in SUBSET UNION {item[j].news : j \in {k \in Items \ {i} : Untried(k)}} :
     Cardinality({j \in Items \ {i} : /\ Untried(j)
                                      /\ item[j].news \cap more # {}
                                      /\ ~(item[j].news \subseteq more)}) <= 1}

\* mutant of CutOff: the claimed row keeps the tail as well
CutOffKeepsTail(i, head, new) == [item EXCEPT ![new] = NewRow(new, item[i].news \ head)]

\* CutOff keeps the head in i and moves the tail into a new root.
CutOff(i, head, new) ==
  [item EXCEPT ![i].news = head, ![new] = NewRow(new, item[i].news \ head)]

Repackings(i) ==
  {item}
  \cup IF ~Untried(i) THEN {}
       ELSE {Absorb(i, more) : more \in Absorbable(i)}
            \cup {CutOff(i, head, new) : head \in (SUBSET item[i].news) \ {{}, item[i].news}, new \in Fresh}

\* The claim transaction of a worker: repack, then lease the item.  It does
\* not look at the workflow row.
ClaimTask(s, w) ==
  /\ At(s, w, "idle")
  /\ ~sess[s].aborted
  /\ \E i \in Items :
       /\ Claimable(i)
       /\ \E rows \in Repackings(i) :
            /\ item' = [rows EXCEPT ![i].status = "RUNNING", ![i].owner = s, ![i].ttl = LeaseTicks]
            /\ SetJob(s, w, [pc |-> "resolve", item |-> i, news |-> rows[i].news])
  /\ UNCHANGED <<wf, sess, commits, paid>>

\* An unplannable batch or a database error while claiming stops the session.
ClaimFails(s, w) ==
  /\ At(s, w, "idle")
  /\ ~sess[s].aborted
  /\ \E i \in Items : Claimable(i)
  /\ sess' = [sess EXCEPT ![s].aborted = TRUE]
  /\ SetJob(s, w, Exited)
  /\ UNCHANGED <<wf, item, commits, paid>>

\* FOR UPDATE SKIP LOCKED: a row locked by another claim or planning
\* transaction is not seen, so a worker may find nothing and leave.
RowsMayBeLocked(s, w) ==
  \/ \E v \in Workers \ {w} : job[s][v].pc = "idle"
  \/ \E t \in Sessions \ {s} :
       \/ sess[t].pc = "started"
       \/ sess[t].pc = "running" /\ \E v \in Workers : job[t][v].pc = "idle"

NoTask(s, w) ==
  /\ At(s, w, "idle")
  /\ sess[s].aborted \/ RowsMayBeLocked(s, w) \/ \A i \in Items : ~Claimable(i)
  /\ SetJob(s, w, Exited)
  /\ UNCHANGED <<wf, item, sess, commits, paid>>

\* The catch block of a worker: an aborted session stops here, otherwise the
\* task is split (more than one news) or needs attention, or the error is one
\* that pauses the whole session.
Catch(s, w, kind) ==
  IF sess[s].aborted \/ kind = "pause"
  THEN /\ sess' = [sess EXCEPT ![s].aborted = TRUE]
       /\ SetJob(s, w, Exited)
  ELSE /\ sess' = sess
       /\ Goto(s, w, IF kind = "split" /\ Cardinality(job[s][w].news) > 1 THEN "split" ELSE "attention")

\* resolveTaskCache: every news is already cached, or some must be extracted,
\* or the wait for another run's extraction timed out, or the database failed.
Resolve(s, w) ==
  /\ At(s, w, "resolve")
  /\ \/ /\ \E pc \in {"commit", "request"} : Goto(s, w, pc)
        /\ sess' = sess
     \/ \E kind \in {"attention", "pause"} : Catch(s, w, kind)
  /\ UNCHANGED <<wf, item, commits, paid>>

\* AiSchedulerStore.waiting: no capacity now, the item waits with its owner.
Waiting(s, w) ==
  /\ At(s, w, "request")
  /\ ~sess[s].aborted
  /\ LET i == job[s][w].item
     IN item' = IF Holds(s, i) THEN [item EXCEPT ![i].status = "WAITING"] ELSE item
  /\ UNCHANGED <<wf, sess, job, commits, paid>>

\* PostgresAiSchedulerStore.transact with reserve: the item is still leased to
\* this owner and its root has budget left.
Reserve(s, w) ==
  /\ At(s, w, "request")
  /\ LET i == job[s][w].item
         r == item[i].root
         entitled == Holds(s, i) /\ Live(item[i].ttl) /\ ~sess[s].aborted
     IN \/ /\ entitled /\ HasBudget(r)
           /\ item' = [item EXCEPT ![r].requests = @ + 1, ![i].status = "RUNNING"]
           /\ paid' = Bump(paid, job[s][w].news)
           /\ Goto(s, w, "sent")
           /\ sess' = sess
        \/ /\ entitled /\ ~HasBudget(r)
           /\ Catch(s, w, "attention")
           /\ UNCHANGED <<item, paid>>
        \/ /\ ~entitled
           /\ Catch(s, w, "pause")
           /\ UNCHANGED <<item, paid>>
  /\ UNCHANGED <<wf, commits>>

\* No candidate model is usable, or none can take an input of this size.
NoModel(s, w) ==
  /\ At(s, w, "request")
  /\ \E kind \in {"attention", "split"} : Catch(s, w, kind)
  /\ UNCHANGED <<wf, item, commits, paid>>

\* The request comes back: a complete answer, an error to retry with another
\* model, a length, refusal or structure error to split, or an answer that
\* misses some of the news.
Reply(s, w) ==
  /\ At(s, w, "sent")
  /\ \/ /\ ~sess[s].aborted
        /\ \E pc \in {"commit", "request"} : Goto(s, w, pc)
        /\ sess' = sess
     \/ \E kind \in {"attention", "split"} : Catch(s, w, kind)
  /\ UNCHANGED <<wf, item, commits, paid>>

\* The commit transaction: candidates, cache and SUCCESS together, while the
\* item is RUNNING and leased to this owner; otherwise the session pauses.
Commit(s, w) ==
  /\ At(s, w, "commit")
  /\ LET i == job[s][w].item
     IN IF MayCommit(s, i)
        THEN /\ item' = Park(i, "SUCCESS")
             /\ commits' = Bump(commits, job[s][w].news)
             /\ SetJob(s, w, NoJob)
             /\ sess' = sess
        ELSE /\ Catch(s, w, "pause")
             /\ UNCHANGED <<item, commits>>
  /\ UNCHANGED <<wf, paid>>

\* The transaction that commits, splits or parks the item fails: a lost cache
\* lease or a database error.  The row keeps its owner until the session closes.
StoreFails(s, w) ==
  /\ \E pc \in {"commit", "split", "attention"} : At(s, w, pc)
  /\ Catch(s, w, "pause")
  /\ UNCHANGED <<wf, item, commits, paid>>

\* The split transaction: the item becomes SPLIT and two children share its root.
Split(s, w) ==
  /\ At(s, w, "split")
  /\ LET i == job[s][w].item
     IN IF item[i].owner = s
        THEN \E first \in Halves(job[s][w].news), a, b \in Fresh :
               /\ a # b
               /\ item' = [Park(i, "SPLIT") EXCEPT ![a] = NewRow(item[i].root, first),
                                                   ![b] = NewRow(item[i].root, job[s][w].news \ first)]
               /\ SetJob(s, w, NoJob)
               /\ sess' = sess
        ELSE /\ sess' = [sess EXCEPT ![s].aborted = TRUE]
             /\ SetJob(s, w, Exited)
             /\ item' = item
  /\ UNCHANGED <<wf, commits, paid>>

\* UPDATE ... SET status = 'NEEDS_ATTENTION' WHERE owner = me.
NeedsAttention(s, w) ==
  /\ At(s, w, "attention")
  /\ LET i == job[s][w].item
     IN item' = IF item[i].owner = s THEN Park(i, "NEEDS_ATTENTION") ELSE item
  /\ SetJob(s, w, NoJob)
  /\ UNCHANGED <<wf, sess, commits, paid>>

-----------------------------------------------------------------------------
(* Time *)

Elapse(ttl) == IF ttl > -1 THEN ttl - 1 ELSE ttl

Tick ==
  /\ wf' = [wf EXCEPT !.ttl = Elapse(@)]
  /\ item' = [i \in Items |-> [item[i] EXCEPT !.ttl = Elapse(@)]]
  /\ UNCHANGED <<sess, job, commits, paid>>

-----------------------------------------------------------------------------
SessionStep(s) ==
  \/ Prepare(s) \/ PrepareFails(s) \/ Settle(s) \/ MarkComplete(s)
  \/ Leave(s) \/ CloseTasks(s) \/ CloseWorkflow(s)

WorkerStep(s, w) ==
  \/ ClaimTask(s, w) \/ ClaimFails(s, w) \/ NoTask(s, w)
  \/ Resolve(s, w) \/ Waiting(s, w) \/ Reserve(s, w) \/ NoModel(s, w) \/ Reply(s, w)
  \/ Commit(s, w) \/ StoreFails(s, w) \/ Split(s, w) \/ NeedsAttention(s, w)

Next ==
  \/ \E s \in Sessions : Start(s) \/ Renew(s) \/ Abort(s) \/ Crash(s) \/ SessionStep(s)
  \/ \E s \in Sessions, w \in Workers : WorkerStep(s, w)
  \/ Tick

Spec == Init /\ [][Next]_vars

\* The environment without stalled processes: a session that has not crashed
\* renews its workflow lease (every ten seconds) before the lease expires.
Punctual == \A s \in Sessions : sess[s].pc \in Beating /\ wf.owner = s => wf'.ttl >= 0

PunctualSpec == Init /\ [][Next /\ Punctual]_vars

\* The steps a process takes by itself go on until it dies, its one-hour timer
\* fires, and time passes.  Starting, renewing and crashing are not promised,
\* nor that a provider has capacity or answers: a worker which waits for one
\* is sure to go on only once the session is aborted.
SelfDriven(s, w) == job[s][w].pc \notin {"request", "sent"} \/ sess[s].aborted

Fairness ==
  /\ WF_vars(Tick)
  /\ \A s \in Sessions :
       /\ WF_vars(SessionStep(s))
       /\ WF_vars(Abort(s))
       /\ \A w \in Workers : WF_vars(SelfDriven(s, w) /\ WorkerStep(s, w))

FairSpec == Spec /\ Fairness

-----------------------------------------------------------------------------
(* Properties *)

\* Planning, repacking, splitting and resuming (run, worker) neither lose nor
\* duplicate a news: once planned, the rows which are not SPLIT hold pairwise
\* disjoint batches, and together with the news whose outcome is committed
\* they cover the whole input.
Covered == UNION {item[i].news : i \in Leaves}

NewsPartitioned ==
  /\ \A i, j \in Leaves : i # j => item[i].news \cap item[j].news = {}
  /\ wf.prepared => News = Covered \cup {n \in News : commits[n] > 0}

\* The row that carries the request budget of an item is never deleted by a
\* repack, so the reservation (transact) always finds the shared counter.
RootsAlive == \A i \in Rows : item[i].root \in Rows

\* Every news gets its outcome at most once, across workers, splits, crashes
\* and resumed sessions (the commit transaction of the worker loop).
CommittedOnce == \A n \in News : commits[n] <= 1

\* A workflow closed as AI_COMPLETE has an outcome for every news: none is
\* lost silently, whatever crashed, stalled or was split on the way.
CompleteMeansCovered ==
  wf.status = "AI_COMPLETE" => \A n \in News : commits[n] > 0

\* The budget is shared by a root and all its split children and survives
\* resumes: no news is ever part of more than maxAttempts paid requests.
BudgetPerNews == \A n \in News : paid[n] <= MaxRequests

\* A finished task stays finished: no zombie, close or resume reopens it, and
\* no repack changes what it covered (README: completed tasks, legal empty
\* results included, are not requested again).
SuccessIsFinal ==
  [][\A i \in Items : item[i].status = "SUCCESS" =>
        item'[i].status = "SUCCESS" /\ item'[i].news = item[i].news]_vars

\* A news whose outcome is committed is never paid for again.
NoPaymentAfterCommit ==
  [][\A n \in News : paid'[n] > paid[n] => commits[n] = 0]_vars

\* A session turns to NEEDS_ATTENTION only because a task does (README: the
\* budget ran out, no model is usable, and the like), or because it met the
\* row of another session whose lease had not run out.
AttentionHasCause ==
  \A s \in Sessions :
    sess[s].pc = "running" /\ sess'[s].pc = "failing" /\ sess'[s].result = "NEEDS_ATTENTION"
      => \E i \in Leaves : item[i].status = "NEEDS_ATTENTION" \/ item[i].owner \notin {None, s}

\* Every session that leases the workflow ends, whatever its requests answer,
\* with all its workers gone: no retry or waiting loop outlives the deadline.
SessionsEnd == \A s \in Sessions : sess[s].pc = "started" ~> sess[s].pc = "dead"

\* What the workflow promises to the rest of the pipeline.
Contract == INSTANCE ExtractionContract WITH
              outcomes <- commits,
              complete <- wf.status = "AI_COMPLETE"

ImplementsContract == Contract!Spec

=============================================================================
