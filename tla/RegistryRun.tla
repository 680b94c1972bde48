----------------------------- MODULE RegistryRun -----------------------------
(***************************************************************************)
(* A trace that is run by the registry executor: runRegistryDailyPipeline  *)
(* (run-daily-recommendation.ts), executeStage (stage-executor.ts), the    *)
(* artifacts (artifact-store.ts), the status machine of a stage            *)
(* (stage-status.ts) and the copy of upstream artifacts                    *)
(* (registry-pipeline.ts).                                                 *)
(*                                                                         *)
(* Several runs of the trace follow each other, each with its own command  *)
(* line.  The advisory lock admits one at a time, unless the server drops  *)
(* the connection of a run that goes on; then the lease row (holder) tells *)
(* the runs apart (module RunLease).  One action is one statement or one   *)
(* transaction.  The trace that a recompute copies from has ended.         *)
(***************************************************************************)
EXTENDS StageGraph

CONSTANTS Runs,         \* processes that run this trace
          Commands,     \* [stop |-> --stop-after, start |-> --recompute-from]
          CommandsOf,   \* run -> the commands it may be started with
          Unstable,     \* bound: <<run, command>> whose connection the server may drop
          MaxFaulty,    \* bound: runs that crash or meet a failing statement
          Varying,      \* stages whose output differs from execution to execution
          SourceStages, \* stages of the source trace that have an artifact, in version 1
          None          \* no value

Kinds == {"DAILY_RECOMMENDATION", "NEWS_INGEST"}
Error == {"identity", "transition", "missing", "differs", "lease", "conflict", "empty",
          "aiPaused", "aiAttention", "fault"}

ASSUME CommandAssumption ==
  /\ Commands \subseteq [stop : Stages \cup {None}, start : Stages \cup {None}]
  /\ \A c \in Commands : c.stop = None \/ c.start = None
ASSUME CommandsOfAssumption == CommandsOf \in [Runs -> SUBSET Commands] /\ Unstable \subseteq Runs \X Commands
ASSUME MaxFaultyAssumption == MaxFaulty \in Nat
ASSUME VaryingAssumption == Varying \subseteq Stages /\ SourceStages \subseteq Stages
ASSUME NoneAssumption ==
  /\ None \notin Runs /\ None \notin Stages /\ None \notin Commands
  /\ None \notin Kinds /\ None \notin Error

VARIABLES artifacts, \* RunArtifact with its shards
          step,      \* PipelineStepTrace: status per stage
          trace,     \* RunTrace
          rows,      \* rows of the trace that handlers look for
          published, \* publishRecommendation has committed
          lock,      \* the advisory lock, as the server sees it
          holder,    \* owner of the lease row
          run,       \* memory of the processes
          overlapped, \* history: a run started while another one was going on
          late       \* history: the tables that a run wrote after another one had succeeded it

vars == <<artifacts, step, trace, rows, published, lock, holder, run, overlapped, late>>
store == <<artifacts, step, trace, rows, published, late>>
lease == <<lock, holder, overlapped>>

-----------------------------------------------------------------------------
StepStatus == {"absent", "PENDING", "RUNNING", "SUCCESS", "FAILED"}
TraceStatus == {"absent", "PENDING", "SUCCESS", "COMPLETE_EMPTY", "PAUSED", "NEEDS_ATTENTION", "FAILED"}

Content == Runs \cup {None}  \* None: what any execution would have produced
IsUpstream(u) == DOMAIN u \subseteq Stages /\ u \in [DOMAIN u -> Content] \* contents of dependencies

RunPc == {"off", "copyRead", "copyWrite", "carry", "openRead", "openWrite", "upstream", "latest",
          "enterRead", "enterWrite", "execute", "artifactWrite", "artifactCommit", "recommend", "empty",
          "complete", "publish", "commitRead", "commitWrite", "finishRead", "finishWrite", "judge",
          "judgeEmpty", "end", "markRead", "markWrite", "stopRead", "stopWrite", "done", "failed", "dead"}
TypeOK ==
  /\ \A a \in artifacts :
       /\ a = [stage |-> a.stage, version |-> a.version, input |-> a.input,
               upstream |-> a.upstream, content |-> a.content]
       /\ a.stage \in Stages /\ a.version \in Nat /\ a.input \in Commands \cup {None}
       /\ IsUpstream(a.upstream) /\ a.content \in Content
  /\ \A a, b \in artifacts : a.stage = b.stage /\ a.version = b.version => a = b
  /\ step \in [Stages -> StepStatus]
  /\ trace \in [status : TraceStatus, kind : Kinds \cup {None}]
  /\ rows \subseteq {"candidates", "graph", "evidence", "snapshot", "released"}
  /\ published \in BOOLEAN /\ overlapped \in BOOLEAN /\ late \subseteq {"artifact", "step", "trace"}
  /\ lock \in Runs \cup {None} /\ holder \in Runs \cup {None}
  /\ DOMAIN run = Runs
  /\ \A r \in Runs :
       /\ run[r] = [pc |-> run[r].pc, command |-> run[r].command, i |-> run[r].i, upstream |-> run[r].upstream,
                    version |-> run[r].version, status |-> run[r].status, memory |-> run[r].memory,
                    error |-> run[r].error]
       /\ run[r].pc \in RunPc /\ run[r].command \in Commands \cup {None}
       /\ run[r].i \in Nat \ {0}            \* place in the plan, or in the list of copies
       /\ IsUpstream(run[r].upstream)       \* collectUpstreamFingerprints
       /\ run[r].version \in Nat            \* the version it will commit
       /\ run[r].status \in StepStatus      \* as read by transitionStage
       /\ run[r].memory \subseteq Stages    \* IRegistryRunState: handlers that ran in this process
       /\ run[r].error \in Error \cup {None}

Nothing == [d \in {} |-> None]
Fresh == [pc |-> "off", command |-> None, i |-> 1, upstream |-> Nothing, version |-> 0,
          status |-> "absent", memory |-> {}, error |-> None]

Init ==
  /\ artifacts = {}
  /\ step = [s \in Stages |-> "absent"]
  /\ trace = [status |-> "absent", kind |-> None]
  /\ rows = {}
  /\ published = FALSE
  /\ lock = None /\ holder = None
  /\ run = [r \in Runs |-> Fresh]
  /\ overlapped = FALSE
  /\ late = {}

-----------------------------------------------------------------------------
At(r, pc) == run[r].pc = pc
Live(r) == run[r].pc \notin {"off", "done", "failed", "dead"}

Plan(c) == IF c.start # None THEN AffectedPlan[c.start]
           ELSE IF c.stop # None THEN PlanUpTo[c.stop] ELSE Order
Copies(c) == IF c.start # None THEN UpstreamPlan[c.start] ELSE <<>>
KindOf(c) == IF c.stop = None THEN "DAILY_RECOMMENDATION" ELSE "NEWS_INGEST"
Stage(r) == Plan(run[r].command)[run[r].i]
PostProcessing(s) == s \in {"reconciliation", "strategy_evaluation"}

VersionsOf(s) == {a.version : a \in {b \in artifacts : b.stage = s}}
Latest(s) == CHOOSE a \in artifacts : a.stage = s /\ \A v \in VersionsOf(s) : v <= a.version
Stored(s) == VersionsOf(s) # {}
Keyed(s, v) == {a \in artifacts : a.stage = s /\ a.version = v}

\* The payload of an execution by r; of the source trace with r = None.
Produced(s, r) == IF s \in Varying THEN r ELSE None

\* collectUpstreamFingerprints: a dependency without an artifact is left out.
UpstreamOf(s) == [d \in {e \in Dependencies[s] : Stored(e)} |-> Latest(d).content]

\* STAGE_STATUS_TRANSITIONS, without the states that no executor writes;
\* entering the same state again is no transition.
Legal(from, to) ==
  \/ from = to
  \/ from \in {"absent", "PENDING"} /\ to \in {"RUNNING", "FAILED"}
  \/ from = "RUNNING" /\ to \in {"SUCCESS", "FAILED"}

-----------------------------------------------------------------------------
(* Going on, and ending *)

Become(r, state) == run' = [run EXCEPT ![r] = state]
Goto(r, pc) == Become(r, [run[r] EXCEPT !.pc = pc])

\* r writes a table that only the run named by the lease row should write.
Writes(r, table) == late' = IF holder = r THEN late ELSE late \cup {table}

\* The connection is closed and the lock is free; the lease row stays.
Leave(r, pc, e) ==
  /\ Become(r, [run[r] EXCEPT !.pc = pc, !.error = e, !.upstream = Nothing, !.version = 0,
                              !.i = 1, !.status = "absent", !.memory = {}])
  /\ lock' = IF lock = r THEN None ELSE lock
  /\ UNCHANGED <<holder, overlapped>>

\* executePipeline goes on with the next stage; after recommendation_select the
\* run looks whether there is anything to publish.
Advanced(r) ==
  [run[r] EXCEPT !.upstream = Nothing, !.version = 0, !.status = "absent",
                 !.i = IF Stage(r) = "recommendation_select" THEN @ ELSE @ + 1,
                 !.pc = IF Stage(r) = "recommendation_select" THEN "judge"
                        ELSE IF run[r].i = Len(Plan(run[r].command)) THEN "end" ELSE "upstream"]

\* An error that leaves executeStage: of post-processing it is recorded and
\* nothing more, any other one ends the run.
Thrown(r, e) ==
  [run[r] EXCEPT !.upstream = Nothing, !.version = 0, !.status = "absent",
                 !.pc = IF PostProcessing(Stage(r)) THEN "end" ELSE "stopRead",
                 !.error = IF PostProcessing(Stage(r)) THEN None ELSE e]

\* An error inside its try block: the stage is marked first.
Caught(r, e) == [run[r] EXCEPT !.pc = "markRead", !.error = e]

-----------------------------------------------------------------------------
(* The start of a run *)

\* A run of a successful trace returns at once.
Begin(r) ==
  /\ At(r, "off")
  /\ lock = None
  /\ holder' = r
  /\ overlapped' = (overlapped \/ \E o \in Runs \ {r} : Live(o))
  /\ \E c \in CommandsOf[r] :
       IF trace.status = "SUCCESS"
       THEN /\ Become(r, [Fresh EXCEPT !.pc = "done", !.command = c])
            /\ lock' = None
       ELSE /\ Become(r, [Fresh EXCEPT !.pc = IF Copies(c) = <<>> THEN "openRead" ELSE "copyRead",
                                       !.command = c])
            /\ lock' = r
  /\ UNCHANGED store

Copied(r) == Copies(run[r].command)[run[r].i]
NextCopy(r) ==
  IF run[r].i = Len(Copies(run[r].command)) THEN [run[r] EXCEPT !.pc = "carry", !.i = 1]
  ELSE [run[r] EXCEPT !.pc = "copyRead", !.i = @ + 1]

\* mutant of Agrees: the content of an artifact that is there is not compared
AgreesAlways(s) == TRUE

Agrees(s) == Latest(s).content = Produced(s, None)

\* copyUpstreamArtifacts: an artifact of equal content is kept, any other is an
\* error.  The lease is not asked.
CopyRead(r) ==
  /\ At(r, "copyRead")
  /\ LET s == Copied(r)
     IN CASE s \notin SourceStages -> Leave(r, "failed", "missing")
          [] s \in SourceStages /\ ~Stored(s) -> Goto(r, "copyWrite") /\ UNCHANGED lease
          [] s \in SourceStages /\ Stored(s) ->
               IF Agrees(s)
               THEN Become(r, NextCopy(r)) /\ UNCHANGED lease
               ELSE Leave(r, "failed", "differs")
  /\ UNCHANGED store

CopyWrite(r) ==
  /\ At(r, "copyWrite")
  /\ LET s == Copied(r)
         copy == [stage |-> s, version |-> 1, input |-> None, content |-> Produced(s, None),
                  upstream |-> [d \in Dependencies[s] |-> Produced(d, None)]]
     IN IF Keyed(s, 1) = {}
        THEN artifacts' = artifacts \cup {copy} /\ Writes(r, "artifact") /\ Become(r, NextCopy(r)) /\ UNCHANGED lease
        ELSE UNCHANGED <<artifacts, late>> /\ Leave(r, "failed", "conflict")
  /\ UNCHANGED <<step, trace, rows, published>>

\* carryOverTraceScopedState: only rows that the trace has none of.
CarryOver(r) ==
  /\ At(r, "carry")
  /\ LET copied == ToSet(Copies(run[r].command))
     IN rows' = rows \cup {row \in {"candidates", "graph"} :
                             (IF row = "graph" THEN "graph_snapshot" ELSE "causal_extract") \in copied}
  /\ Goto(r, "openRead")
  /\ UNCHANGED <<artifacts, step, trace, published, late, lease>>

\* startRunTrace, in front of the try block of the run.
OpenRead(r) ==
  /\ At(r, "openRead")
  /\ CASE trace.status # "absent" /\ trace.kind # KindOf(run[r].command) -> Leave(r, "failed", "identity")
       [] trace.kind = KindOf(run[r].command) /\ trace.status = "SUCCESS" -> Goto(r, "upstream") /\ UNCHANGED lease
       [] OTHER -> Goto(r, "openWrite") /\ UNCHANGED lease
  /\ UNCHANGED store

OpenWrite(r) ==
  /\ At(r, "openWrite")
  /\ trace' = [status |-> "PENDING",
               kind |-> IF trace.status = "absent" THEN KindOf(run[r].command) ELSE trace.kind]
  /\ Writes(r, "trace")
  /\ Goto(r, "upstream")
  /\ UNCHANGED <<artifacts, step, rows, published, lease>>

-----------------------------------------------------------------------------
(* executeStage: reuse, or enter *)

ReadUpstream(r) ==
  /\ At(r, "upstream")
  /\ Become(r, [run[r] EXCEPT !.pc = "latest", !.upstream = UpstreamOf(Stage(r))])
  /\ UNCHANGED <<store, lease>>

\* mutant of Valid: the fingerprint of the input differs from process to process
ValidNever(a, input, upstream) == FALSE

\* isArtifactValid: same input, same upstream contents.  The fingerprint of the
\* input has the trace and the command in it, and not the handlers' data.
Valid(a, input, upstream) == a.input = input /\ a.upstream = upstream

ReadLatest(r) ==
  /\ At(r, "latest")
  /\ LET s == Stage(r)
     IN IF Stored(s) /\ Valid(Latest(s), run[r].command, run[r].upstream)
        THEN Become(r, Advanced(r))
        ELSE Become(r, [run[r] EXCEPT !.pc = "enterRead",
                                      !.version = IF Stored(s) THEN Latest(s).version + 1 ELSE 1])
  /\ UNCHANGED <<store, lease>>

\* transitionStage to RUNNING, outside the try block.
EnterRead(r) ==
  /\ At(r, "enterRead")
  /\ IF Legal(step[Stage(r)], "RUNNING")
     THEN Become(r, [run[r] EXCEPT !.pc = "enterWrite", !.status = step[Stage(r)]])
     ELSE Become(r, Thrown(r, "transition"))
  /\ UNCHANGED <<store, lease>>

\* The row is created when none was read, else it is updated whatever it is now.
EnterWrite(r) ==
  /\ At(r, "enterWrite")
  /\ IF run[r].status = "absent" /\ step[Stage(r)] # "absent"
     THEN Become(r, Thrown(r, "conflict")) /\ UNCHANGED <<step, late>>
     ELSE Goto(r, "execute") /\ step' = [step EXCEPT ![Stage(r)] = "RUNNING"] /\ Writes(r, "step")
  /\ UNCHANGED <<artifacts, trace, rows, published, lease>>

-----------------------------------------------------------------------------
(* executeStage: execute, behind assertLeaseHolder *)

ArtifactStages == {"graph_snapshot", "expectation_gap", "theme_forecast"} \* runArtifactStage

\* What the handler finds missing: rows of the trace, or the state of a handler
\* of this process.
Supplied(r, s) ==
  CASE s = "news_prepare" -> "news_fetch" \in run[r].memory
    [] s = "causal_extract" -> "news_prepare" \in run[r].memory
    [] s = "graph_snapshot" -> "candidates" \in rows /\ "news_prepare" \in run[r].memory
    [] s = "expectation_gap" -> "graph" \in rows
    [] s = "theme_forecast" -> "candidates" \in rows
    [] s = "evidence_score" -> {"candidates", "graph"} \subseteq rows
    [] s = "recommendation_publish" -> "snapshot" \in rows
    [] OTHER -> TRUE

Refuse(r) ==
  /\ At(r, "execute")
  /\ holder # r \/ ~Supplied(r, Stage(r))
  /\ Become(r, Caught(r, IF holder # r THEN "lease" ELSE "missing"))
  /\ UNCHANGED <<store, lease>>

Executes(r) == At(r, "execute") /\ holder = r /\ Supplied(r, Stage(r))
Worked(r) == [run[r] EXCEPT !.pc = "commitRead", !.memory = @ \cup {Stage(r)}]

\* Handlers whose writes are of no consequence here, and causal_extract, which
\* may be paused or in need of attention.
Work(r) ==
  /\ Executes(r)
  /\ Stage(r) \notin ArtifactStages \cup {"evidence_score", "recommendation_select", "recommendation_publish"}
  /\ \/ /\ rows' = IF Stage(r) = "causal_extract" THEN rows \cup {"candidates"} ELSE rows
        /\ Become(r, Worked(r))
     \/ /\ Stage(r) = "causal_extract"
        /\ \E e \in {"aiPaused", "aiAttention"} : Become(r, Caught(r, e))
        /\ UNCHANGED rows
  /\ UNCHANGED <<artifacts, step, trace, published, late, lease>>

\* runArtifactStage writes the same PipelineStepTrace row as the executor:
\* RUNNING by itself, then SUCCESS with the rows in one transaction.  A row
\* that is SUCCESS when it looks may be accepted as it is.
ArtifactStart(r) ==
  /\ Executes(r)
  /\ Stage(r) \in ArtifactStages
  /\ \/ Goto(r, "artifactWrite")
     \/ step[Stage(r)] = "SUCCESS" /\ Become(r, Worked(r))
  /\ UNCHANGED <<store, lease>>

ArtifactWrite(r) ==
  /\ At(r, "artifactWrite")
  /\ step' = [step EXCEPT ![Stage(r)] = "RUNNING"]
  /\ Writes(r, "step")
  /\ Goto(r, "artifactCommit")
  /\ UNCHANGED <<artifacts, trace, rows, published, lease>>

ArtifactCommit(r) ==
  /\ At(r, "artifactCommit")
  /\ step' = [step EXCEPT ![Stage(r)] = "SUCCESS"]
  /\ Writes(r, "step")
  /\ rows' = IF Stage(r) = "graph_snapshot" THEN rows \cup {"graph"} ELSE rows
  /\ Become(r, Worked(r))
  /\ UNCHANGED <<artifacts, trace, published, lease>>

\* runBacktest: a transaction for the scores, one for the recommendations.
\* Neither replaces what is published.
Score(r) ==
  /\ Executes(r)
  /\ Stage(r) = "evidence_score"
  /\ IF "released" \in rows
     THEN Become(r, Caught(r, "conflict")) /\ rows' = rows
     ELSE /\ \E scored \in SUBSET {"evidence"} : rows' = (rows \ {"evidence", "snapshot"}) \cup scored
          /\ Goto(r, "recommend")
  /\ UNCHANGED <<artifacts, step, trace, published, late, lease>>

Recommend(r) ==
  /\ At(r, "recommend")
  /\ IF "released" \in rows
     THEN Become(r, Caught(r, "conflict")) /\ rows' = rows
     ELSE /\ \E found \in SUBSET ({"snapshot"} \cap {row \in {"snapshot"} : "evidence" \in rows}) :
               rows' = (rows \ {"snapshot"}) \cup found
          /\ Become(r, Worked(r))
  /\ UNCHANGED <<artifacts, step, trace, published, late, lease>>

\* Nothing to recommend: COMPLETE_EMPTY if there is evidence, else an error.
Select(r) ==
  /\ Executes(r)
  /\ Stage(r) = "recommendation_select"
  /\ Become(r, CASE "snapshot" \in rows -> [run[r] EXCEPT !.pc = "commitRead"]
                 [] rows \cap {"snapshot", "evidence"} = {"evidence"} -> [run[r] EXCEPT !.pc = "empty"]
                 [] OTHER -> Caught(r, "empty"))
  /\ UNCHANGED <<store, lease>>

RecordEmpty(r) ==
  /\ At(r, "empty")
  /\ trace' = [trace EXCEPT !.status = "COMPLETE_EMPTY"]
  /\ Writes(r, "trace")
  /\ Become(r, Worked(r))
  /\ UNCHANGED <<artifacts, step, rows, published, lease>>

StartPublish(r) ==
  /\ Executes(r)
  /\ Stage(r) = "recommendation_publish"
  /\ Goto(r, "complete")
  /\ UNCHANGED <<store, lease>>

\* completeRunTrace
Completed == [trace EXCEPT !.status = "SUCCESS"]
Released == IF trace.kind = "DAILY_RECOMMENDATION" /\ "snapshot" \in rows THEN rows \cup {"released"} ELSE rows

Complete(r) ==
  /\ At(r, "complete")
  /\ trace' = Completed
  /\ Writes(r, "trace")
  /\ rows' = Released
  /\ Goto(r, "publish")
  /\ UNCHANGED <<artifacts, step, published, lease>>

Publish(r) ==
  /\ At(r, "publish")
  /\ published' = TRUE
  /\ Become(r, Worked(r))
  /\ UNCHANGED <<artifacts, step, trace, rows, late, lease>>

-----------------------------------------------------------------------------
(* commitArtifact, and the end of the stage *)

Mine(r) == {a \in Keyed(Stage(r), run[r].version) : a.content = Produced(Stage(r), r)}

\* An artifact of that version and content counts as committed, another
\* content is a conflict.  Else the transaction asks for the lease first.
CommitRead(r) ==
  /\ At(r, "commitRead")
  /\ LET there == Keyed(Stage(r), run[r].version)
     IN Become(r, CASE there # {} /\ Mine(r) # {} -> [run[r] EXCEPT !.pc = "finishRead"]
                    [] there # {} /\ Mine(r) = {} -> Caught(r, "conflict")
                    [] there = {} /\ holder = r -> [run[r] EXCEPT !.pc = "commitWrite"]
                    [] there = {} /\ holder # r -> Caught(r, "lease"))
  /\ UNCHANGED <<store, lease>>

\* unique (traceId, stageId, version)
KeyIsFree(r) == Keyed(Stage(r), run[r].version) = {}

CommitWrite(r) ==
  /\ At(r, "commitWrite")
  /\ IF KeyIsFree(r)
     THEN /\ artifacts' = artifacts \cup
               {[stage |-> Stage(r), version |-> run[r].version, input |-> run[r].command,
                 upstream |-> run[r].upstream, content |-> Produced(Stage(r), r)]}
          /\ Writes(r, "artifact")
          /\ Goto(r, "finishRead")
     ELSE UNCHANGED <<artifacts, late>> /\ Become(r, Caught(r, "conflict"))
  /\ UNCHANGED <<step, trace, rows, published, lease>>

FinishRead(r) ==
  /\ At(r, "finishRead")
  /\ IF Legal(step[Stage(r)], "SUCCESS") THEN Goto(r, "finishWrite") ELSE Become(r, Caught(r, "transition"))
  /\ UNCHANGED <<store, lease>>

FinishWrite(r) ==
  /\ At(r, "finishWrite")
  /\ step' = [step EXCEPT ![Stage(r)] = "SUCCESS"]
  /\ Writes(r, "step")
  /\ Become(r, Advanced(r))
  /\ UNCHANGED <<artifacts, trace, rows, published, lease>>

\* The catch block: FAILED if that is legal, and the error goes on.
MarkRead(r) ==
  /\ At(r, "markRead")
  /\ Become(r, IF Legal(step[Stage(r)], "FAILED") THEN [run[r] EXCEPT !.pc = "markWrite"]
               ELSE Thrown(r, run[r].error))
  /\ UNCHANGED <<store, lease>>

MarkWrite(r) ==
  /\ At(r, "markWrite")
  /\ step' = [step EXCEPT ![Stage(r)] = "FAILED"]
  /\ Writes(r, "step")
  /\ Become(r, Thrown(r, run[r].error))
  /\ UNCHANGED <<artifacts, trace, rows, published, lease>>

-----------------------------------------------------------------------------
(* The end of a run *)

\* After recommendation_select, run or reused: no recommendations and no
\* evidence is an error, evidence alone ends the run.
Judge(r) ==
  /\ At(r, "judge")
  /\ CASE "snapshot" \in rows ->
            /\ Become(r, IF run[r].i = Len(Plan(run[r].command)) THEN [run[r] EXCEPT !.pc = "end"]
                         ELSE [run[r] EXCEPT !.pc = "upstream", !.i = @ + 1])
            /\ UNCHANGED lease
       [] "snapshot" \notin rows /\ "recommendation_select" \in run[r].memory -> Leave(r, "done", None)
       [] OTHER -> /\ IF "evidence" \in rows THEN Goto(r, "judgeEmpty") ELSE Become(r, Thrown(r, "empty"))
                   /\ UNCHANGED lease
  /\ UNCHANGED store

JudgeEmpty(r) ==
  /\ At(r, "judgeEmpty")
  /\ trace' = [trace EXCEPT !.status = "COMPLETE_EMPTY"]
  /\ Writes(r, "trace")
  /\ Leave(r, "done", None)
  /\ UNCHANGED <<artifacts, step, rows, published>>

\* mutant of CompletesAtEnd: only the publish stage completes the trace
CompletesAtEndNever(r) == FALSE

\* A full run updates the metrics only: its publish stage has completed the trace.
CompletesAtEnd(r) == run[r].command.stop # None

End(r) ==
  /\ At(r, "end")
  /\ IF CompletesAtEnd(r) THEN trace' = Completed /\ rows' = Released /\ Writes(r, "trace") ELSE UNCHANGED <<trace, rows, late>>
  /\ Leave(r, "done", None)
  /\ UNCHANGED <<artifacts, step, published>>

\* mutant of KeepsSuccess: the error path does not look at the status
KeepsSuccessNever(status) == FALSE

KeepsSuccess(status) == status = "SUCCESS"

\* The catch block of the run, over the connection that no lease guards.
StopRead(r) ==
  /\ At(r, "stopRead")
  /\ IF KeepsSuccess(trace.status) THEN Leave(r, "failed", run[r].error)
     ELSE Goto(r, "stopWrite") /\ UNCHANGED lease
  /\ UNCHANGED store

StatusFor(e) == CASE e \in {"lease", "aiPaused"} -> "PAUSED"
                  [] e \in {"missing", "aiAttention"} -> "NEEDS_ATTENTION"
                  [] OTHER -> "FAILED"

StopWrite(r) ==
  /\ At(r, "stopWrite")
  /\ trace' = [trace EXCEPT !.status = StatusFor(run[r].error)]
  /\ Writes(r, "trace")
  /\ Leave(r, "failed", run[r].error)
  /\ UNCHANGED <<artifacts, step, rows, published>>

-----------------------------------------------------------------------------
(* Faults *)

Faulty(r) == At(r, "dead") \/ run[r].error = "fault"
MayFail(r) == Cardinality({o \in Runs \ {r} : Faulty(o)}) < MaxFaulty

\* A statement fails, or the handler does for a reason of its own.
Fail(r) ==
  /\ MayFail(r)
  /\ CASE run[r].pc \in {"copyRead", "copyWrite", "carry", "openRead", "openWrite"} -> Leave(r, "failed", "fault")
       [] run[r].pc \in {"upstream", "latest", "enterRead", "enterWrite"} -> Become(r, Thrown(r, "fault")) /\ UNCHANGED lease
       [] run[r].pc \in {"execute", "artifactWrite", "artifactCommit", "recommend", "empty", "complete", "publish",
                         "commitRead", "commitWrite", "finishRead", "finishWrite"} ->
            Become(r, Caught(r, "fault")) /\ UNCHANGED lease
       [] run[r].pc \in {"judge", "judgeEmpty", "end"} ->
            Become(r, [run[r] EXCEPT !.pc = "stopRead", !.error = "fault"]) /\ UNCHANGED lease
       [] run[r].pc \in {"markRead", "markWrite"} -> Become(r, Thrown(r, run[r].error)) /\ UNCHANGED lease
       [] run[r].pc \in {"stopRead", "stopWrite"} -> Leave(r, "failed", run[r].error)
       [] OTHER -> FALSE
  /\ UNCHANGED store

Crash(r) ==
  /\ Live(r) /\ MayFail(r)
  /\ Leave(r, "dead", None)
  /\ UNCHANGED store

\* The server drops the session that holds the lock, and the run goes on.  It
\* matters only while another run is to come.
Cut(r) ==
  /\ Live(r) /\ lock = r /\ <<r, run[r].command>> \in Unstable
  /\ \E o \in Runs : At(o, "off")
  /\ lock' = None
  /\ UNCHANGED <<store, holder, run, overlapped>>

Executing(r) ==
  \/ Refuse(r) \/ Work(r) \/ ArtifactStart(r) \/ ArtifactWrite(r) \/ ArtifactCommit(r)
  \/ Score(r) \/ Recommend(r) \/ Select(r) \/ RecordEmpty(r) \/ StartPublish(r) \/ Complete(r) \/ Publish(r)

Proceed(r) ==
  \/ CopyRead(r) \/ CopyWrite(r) \/ CarryOver(r) \/ OpenRead(r) \/ OpenWrite(r)
  \/ ReadUpstream(r) \/ ReadLatest(r) \/ EnterRead(r) \/ EnterWrite(r)
  \/ Executing(r)
  \/ CommitRead(r) \/ CommitWrite(r) \/ FinishRead(r) \/ FinishWrite(r) \/ MarkRead(r) \/ MarkWrite(r)
  \/ Judge(r) \/ JudgeEmpty(r) \/ End(r) \/ StopRead(r) \/ StopWrite(r)

Next == \E r \in Runs : Begin(r) \/ Proceed(r) \/ Fail(r) \/ Crash(r) \/ Cut(r)

Spec == Init /\ [][Next]_vars

-----------------------------------------------------------------------------
(* Properties *)

BehindPublication == {s \in Stages \ {"recommendation_publish"} : "recommendation_publish" \in Invalidated[s]}

\* What is published was computed from what the trace holds: every artifact that
\* the publication rests on, directly or not, is there and was built on the newest
\* artifact of each of its dependencies, however the runs of the trace failed and
\* recomputed before (stage-status.ts, commitArtifact, the plans).  It fails only
\* where the fence does, which is checked in a statement of its own or, by
\* copyUpstreamArtifacts and startRunTrace, not at all: a run that another one had
\* succeeded has written an artifact or the status of the trace.
PublishedIsCoherent ==
  published /\ late \cap {"artifact", "trace"} = {} =>
    \A s \in BehindPublication :
      Stored(s) /\ Latest(s).upstream = [d \in Dependencies[s] |-> Latest(d).content]

\* SUCCESS and FAILED of a stage are final (stage-status.ts) and so is SUCCESS
\* of the trace, unless a run that another one had succeeded has written there:
\* status is read and written in two statements that no lease guards.
FinalUnlessLate ==
  [][/\ "step" \notin late' => \A s \in Stages : step[s] \in {"SUCCESS", "FAILED"} => step'[s] = step[s]
     /\ "trace" \notin late' => (trace.status = "SUCCESS" => trace'.status = "SUCCESS")]_vars

\* Recomputations that cannot finish: their first stage needs what only the
\* memory of an earlier handler or rows that are not carried over would hold.
DeadEnds == {"news_prepare", "causal_extract", "graph_snapshot", "recommendation_select", "recommendation_publish"}

Disturbed(r) == At(r, "dead") \/ run[r].error \in {"aiPaused", "aiAttention", "fault", "empty"}
Refused(r) == run[r].error \in {"identity", "transition", "missing", "differs", "lease", "conflict"}

\* A run is refused only for a reason that an operator could know: it started
\* where a recomputation cannot or from a trace that has not come so far, or an
\* earlier run of the trace was disturbed, overlapped, or had another command.
RefusalHasCause ==
  \A r \in Runs : Refused(r) =>
    \/ overlapped
    \/ run[r].command.start \in DeadEnds
    \/ ~(ToSet(Copies(run[r].command)) \subseteq SourceStages)
    \/ \E o \in Runs \ {r} : Disturbed(o) \/ run[o].command \notin {None, run[r].command}

\* A run that ends well, also one that finds its trace complete at once, leaves a
\* trace that says so, and one that is published unless it only took in news.  Not
\* so a recomputation that begins behind the publication, and not a trace whose
\* first run was cut short between completeRunTrace and publishRecommendation.
EndIsRecorded ==
  [][\A r \in Runs : At(r, "done")' /\ ~At(r, "done") /\ ~overlapped' =>
       LET command == run'[r].command
       IN \/ trace'.status = "COMPLETE_EMPTY"
          \/ /\ trace'.status = "SUCCESS"
             /\ published' \/ trace'.kind = "NEWS_INGEST" \/ \E o \in Runs \ {r} : Faulty(o)
          \/ command.start # None /\ "recommendation_publish" \notin ToSet(Plan(command))]_vars

=============================================================================
