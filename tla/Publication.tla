----------------------------- MODULE Publication -----------------------------
(***************************************************************************)
(* Publication of the recommendations of one cluster and one asOf:         *)
(* completeRunTrace (trace-manager.ts), publishRecommendation              *)
(* (publish-recommendation.ts) and their callers in                        *)
(* run-daily-recommendation.ts.  Several traces may produce the same day.  *)
(*                                                                         *)
(* The run lease admits one run per trace, so runs of different traces and *)
(* publish-only jobs overlap.  publishRecommendation is one transaction at *)
(* READ COMMITTED: each statement sees what is committed when it starts    *)
(* and what its own transaction wrote; an UPDATE waits for the rows that   *)
(* another transaction has updated, and then looks at them again.          *)
(***************************************************************************)
EXTENDS Naturals, Sequences

CONSTANTS Traces,     \* traces of the cluster and asOf
          Jobs,       \* processes that complete or publish
          Kind,       \* job -> "registry" or "legacy" (a run, by its executor),
                      \* "publishOnly" or "force" (forceNewVersion)
          Of,         \* job -> the trace of a run or of a forced publication
          MaxVersion, \* bound on the versions of a trace
          None        \* SQL NULL

ASSUME KindAssumption == Kind \in [Jobs -> {"registry", "legacy", "publishOnly", "force"}]
ASSUME OfAssumption == Of \in [Jobs -> Traces]
ASSUME VersionAssumption == MaxVersion \in Nat \ {0}
Records == Traces \X (1 .. MaxVersion) \* unique (traceId, publishVersion)
ASSUME NoneAssumption == None \notin Records \cup Traces

VARIABLES finished,     \* traces with RunTrace.status = SUCCESS, in the order of completedAt
          supersededBy, \* RecommendationPublish: what superseded a record; absent records are not in its domain
          job,          \* memory of the processes
          known         \* history: per committed record, the records its transaction could see

vars == <<finished, supersededBy, job, known>>

-----------------------------------------------------------------------------
Committed == DOMAIN supersededBy

JobPc == {"idle", "complete", "publish", "insert", "scan", "supersede", "report", "done", "failed"}
Job == [pc : JobPc,
        trace : Traces \cup {None},
        latest : Records \cup {None},  \* the newest record of the trace, as read
        record : Records \cup {None},  \* the record this transaction creates
        seen : SUBSET Records,         \* committed when the last UPDATE started
        locked : SUBSET Records,       \* rows this transaction has updated
        result : Records \cup {None},  \* what the caller is told is published
        reused : BOOLEAN]

Successful(t) == \E i \in DOMAIN finished : finished[i] = t

TypeOK ==
  /\ finished \in Seq(Traces)
  /\ \A i, k \in DOMAIN finished : finished[i] = finished[k] => i = k
  /\ Committed \subseteq Records /\ supersededBy \in [Committed -> Records \cup {None}]
  /\ job \in [Jobs -> Job]
  /\ \A x \in Committed : supersededBy[x] \in Committed \cup {None}
  /\ known \in [Committed -> SUBSET Records]

NoRecords == [x \in {} |-> None]
Fresh == [pc |-> "idle", trace |-> None, latest |-> None, record |-> None, seen |-> {}, locked |-> {},
          result |-> None, reused |-> FALSE]

Init ==
  /\ finished = <<>>
  /\ supersededBy = NoRecords
  /\ job = [j \in Jobs |-> Fresh]
  /\ known = NoRecords

At(j, pc) == job[j].pc = pc
IsRun(j) == Kind[j] \in {"registry", "legacy"}
Ended(j) == At(j, "done") \/ At(j, "failed")

-----------------------------------------------------------------------------
(* The callers *)

\* PipelineRunLease: one run of a trace at a time.
LeaseIsFree(j) == \A i \in Jobs : i # j /\ IsRun(i) /\ Of[i] = Of[j] => At(i, "idle") \/ Ended(i)

\* A run of a completed trace reports so and returns; another one goes on.
StartRun(j) ==
  /\ At(j, "idle") /\ IsRun(j)
  /\ LeaseIsFree(j)
  /\ job' = [job EXCEPT ![j].pc = IF Successful(Of[j]) THEN "done" ELSE "complete", ![j].trace = Of[j]]
  /\ UNCHANGED <<finished, supersededBy, known>>

\* completeRunTrace, a transaction of its own, after the recommendations are
\* stored: the trace is SUCCESS, its snapshot isPublished.
Complete(j) ==
  /\ At(j, "complete")
  /\ finished' = Append(finished, job[j].trace)
  /\ job' = [job EXCEPT ![j].pc = "publish"]
  /\ UNCHANGED <<supersededBy, known>>

\* publishLatestSnapshot: the successful trace of the day that completed last.
StartPublishOnly(j) ==
  /\ At(j, "idle") /\ Kind[j] = "publishOnly"
  /\ IF finished = <<>>
     THEN job' = [job EXCEPT ![j].pc = "failed"]
     ELSE job' = [job EXCEPT ![j].pc = "publish", ![j].trace = finished[Len(finished)]]
  /\ UNCHANGED <<finished, supersededBy, known>>

StartForce(j) ==
  /\ At(j, "idle") /\ Kind[j] = "force"
  /\ Successful(Of[j])
  /\ job' = [job EXCEPT ![j].pc = "publish", ![j].trace = Of[j]]
  /\ UNCHANGED <<finished, supersededBy, known>>

-----------------------------------------------------------------------------
(* publishRecommendation, statement by statement *)

Versions(t) == {v \in 1 .. MaxVersion : <<t, v>> \in Committed}
Latest(t) == IF Versions(t) = {} THEN None
             ELSE <<t, CHOOSE v \in Versions(t) : \A w \in Versions(t) : v >= w>>

NextVersion(latest) == IF latest = None THEN 1 ELSE latest[2] + 1

\* What the caller does with the answer: a run goes on to post-processing,
\* diagnostics and metrics.
Answered(j) == IF IsRun(j) THEN "report" ELSE "done"

\* The trace has a record and no new version is asked for: that record is the
\* answer, whatever superseded it.
Reuse(j) ==
  /\ At(j, "publish")
  /\ Kind[j] # "force"
  /\ LET latest == Latest(job[j].trace)
     IN /\ latest # None
        /\ job' = [job EXCEPT ![j].pc = Answered(j), ![j].result = latest, ![j].reused = TRUE]
  /\ UNCHANGED <<finished, supersededBy, known>>

ReadLatest(j) ==
  /\ At(j, "publish")
  /\ LET latest == Latest(job[j].trace)
     IN /\ latest = None \/ Kind[j] = "force"
        /\ NextVersion(latest) <= MaxVersion
        /\ job' = [job EXCEPT ![j].pc = "insert", ![j].latest = latest,
                              ![j].record = <<job[j].trace, NextVersion(latest)>>]
  /\ UNCHANGED <<finished, supersededBy, known>>

\* The INSERT and the UPDATE of the previous version.  An equal key that
\* another transaction is inserting is waited for, a committed one is an error.
InTransaction(j) == job[j].pc \in {"insert", "scan", "supersede"}
Inserted(j) == job[j].pc \in {"scan", "supersede"}
KeyIsFree(j) == \A i \in Jobs : i # j /\ Inserted(i) => job[i].record # job[j].record
Unlocked(j, rows) == \A i \in Jobs : i # j /\ InTransaction(i) => job[i].locked \cap rows = {}
Previous(j) == {job[j].latest} \ {None}

Insert(j) ==
  /\ At(j, "insert")
  /\ KeyIsFree(j)
  /\ job[j].record \notin Committed
  /\ Unlocked(j, Previous(j))
  /\ job' = [job EXCEPT ![j].pc = "scan", ![j].locked = Previous(j)]
  /\ UNCHANGED <<finished, supersededBy, known>>

\* The updateMany starts: its snapshot.
Scan(j) ==
  /\ At(j, "scan")
  /\ job' = [job EXCEPT ![j].pc = "supersede", ![j].seen = Committed]
  /\ UNCHANGED <<finished, supersededBy, known>>

\* mutant of Targets: only the records of this trace are superseded
TargetsOfTrace(j) == {x \in job[j].seen : supersededBy[x] = None /\ x[1] = job[j].trace}

\* mutant of Targets: the new record is not excluded
TargetsWithSelf(j) == {x \in job[j].seen : supersededBy[x] = None} \cup {job[j].record}

\* WHERE clusterKey, asOf, supersededBy IS NULL, id <> created: of the rows of
\* the snapshot, those that are active once no other transaction holds them.
Targets(j) == {x \in job[j].seen : supersededBy[x] = None}

\* The update goes through and the transaction commits.
Commit(j) ==
  /\ At(j, "supersede")
  /\ Unlocked(j, job[j].seen)
  /\ LET new == job[j].record
         hit == Targets(j) \cup job[j].locked
     IN /\ supersededBy' = [x \in Committed \cup {new} |->
             IF x \in hit THEN new ELSE IF x = new THEN None ELSE supersededBy[x]]
        /\ known' = [x \in Committed \cup {new} |-> IF x = new THEN job[j].seen ELSE known[x]]
        /\ job' = [job EXCEPT ![j].pc = Answered(j), ![j].result = new, ![j].locked = {}]
  /\ UNCHANGED finished

Report(j) ==
  /\ At(j, "report")
  /\ job' = [job EXCEPT ![j].pc = "done"]
  /\ UNCHANGED <<finished, supersededBy, known>>

\* failRunTrace: the legacy error path sets FAILED whatever the status is, the
\* registry's leaves a SUCCESS alone.
Undone(j) == Kind[j] = "legacy"

\* The completed traces without t, which completed once.
Without(t) == LET i == CHOOSE i \in DOMAIN finished : finished[i] = t
              IN SubSeq(finished, 1, i - 1) \o SubSeq(finished, i + 1, Len(finished))

\* A statement fails (unique key, a deadlock that the database breaks, the
\* transaction timeout, a lost lease, a diagnostic query), or the process dies:
\* an open transaction rolls back, and a process that lives marks its trace.
Fail(j, dies) ==
  /\ job[j].pc \notin {"idle", "done", "failed"}
  /\ job' = [job EXCEPT ![j] = [Fresh EXCEPT !.pc = "failed"]]
  /\ finished' = IF ~dies /\ Undone(j) /\ Successful(job[j].trace)
                 THEN Without(job[j].trace)
                 ELSE finished
  /\ UNCHANGED <<supersededBy, known>>

Next ==
  \E j \in Jobs :
    \/ StartRun(j) \/ Complete(j) \/ StartPublishOnly(j) \/ StartForce(j)
    \/ Reuse(j) \/ ReadLatest(j) \/ Insert(j) \/ Scan(j) \/ Commit(j) \/ Report(j)
    \/ \E dies \in BOOLEAN : Fail(j, dies)

Spec == Init /\ [][Next]_vars

-----------------------------------------------------------------------------
(* Properties *)

\* Following supersededBy from any record ends at an active one: no two
\* transactions supersede each other's records, and a day that was published
\* stays published.
ChainsEnd ==
  \A xs \in SUBSET Committed : xs # {} => \E x \in xs : supersededBy[x] \notin xs

\* A record that was committed when a later publication of the day looked for
\* records to supersede stays superseded: two active records of a day, which
\* publish-recommendation.ts:101 wants to avoid, come only from transactions
\* that overlapped, and no reuse brings a superseded record back.
DoubleActiveMeansOverlap ==
  \A x, y \in Committed : x \in known[y] => supersededBy[x] # None

\* What fails after the publication of a trace does not turn its SUCCESS into a
\* failure (run-daily-recommendation.ts:1978), so publish-only finds the trace
\* and a rerun does not repeat it; only the error path of the legacy executor
\* undoes it.
UndoneByLegacy(t) == \E j \in Jobs : Kind[j] = "legacy" /\ Of[j] = t /\ At(j, "failed")

PublishedSucceeded == \A x \in Committed : Successful(x[1]) \/ UndoneByLegacy(x[1])

=============================================================================
