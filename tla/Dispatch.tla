-------------------------------- MODULE Dispatch --------------------------------
(* The HTTP server of src/backend/src/http over its state file, the daily   *)
(* runs it spawns, and the page that dispatches a run and polls for its end *)
(* (src/web/src/app/dispatch-poller.ts).                                    *)
(*                                                                          *)
(* A request of the server is a job of the event loop: it reads the file,   *)
(* computes, truncates the file and writes it, with an await between the    *)
(* steps and no lock.  A file that cannot be parsed is replaced by the      *)
(* defaults.  The RunTrace row of a run is written by the run itself and by *)
(* the exit handler of the server that spawned it.                          *)
EXTENDS RuntimeState

CONSTANTS
  Loads,                  \* the sets of requests that clients may send in one behaviour (bound)
  MaxOpen,                \* requests the server works on at a time (bound)
  MaxRestarts,            \* restarts of the server (bound)
  MaxResumes,             \* runs an operator resumes by hand (bound)
  First, Base, Cap,       \* INITIAL_DELAY_MS, BASE_BACKOFF_MS, MAX_BACKOFF_MS, scaled
  MaxWait                 \* MAX_TOTAL_WAIT_MS, scaled

ASSUME LoadsAssumption == Loads \subseteq SUBSET Requests
ASSUME BoundsAssumption == /\ {MaxOpen, MaxRestarts, MaxResumes} \subseteq Nat
                           /\ {First, Base, Cap} \subseteq Nat \ {0}
                           /\ MaxWait \in Nat

VARIABLES
  load,       \* the requests of this behaviour
  file,       \* runtime-store.json: empty (truncated), garbled or a whole snapshot
  job,        \* the requests
  trace,      \* RunTrace.status of the dispatched runs
  run,        \* the process of a dispatched run
  hooked,     \* the runs whose exit this server hears of
  page,       \* the poller of the page
  restarts, resumed,
  clash,      \* history: a read saw another request between its read and its write
  stale       \* history: a rollback demoted a version that was no longer active

vars == <<load, file, job, trace, run, hooked, page, restarts, resumed, clash, stale>>

None == "none"
Phases == {"new", "read", "reset", "resetFill", "truncate", "fill", "spawn", "marking", "select", "mark",
           "row", "answered", "done", "refused", "lost"}
Status == {None, "PENDING", "SUCCESS", "FAILED", "PAUSED", "COMPLETE_EMPTY"}

Whole(s) == [state |-> "whole", data |-> s]
Torn(state) == [state |-> state, data |-> Default]
Fresh == [pc |-> "new", stage |-> None, next |-> Default, old |-> 0, seen |-> None]
NoPage == [traces |-> {}, pc |-> "idle", elapsed |-> 0, delay |-> 0, result |-> None]

Init ==
  /\ load \in Loads
  /\ file = Whole(Default)
  /\ job = [i \in Ids |-> Fresh]
  /\ trace = [d \in Dispatches |-> None]
  /\ run = [d \in Dispatches |-> None]
  /\ hooked = {}
  /\ page = NoPage
  /\ restarts = 0 /\ resumed = {}
  /\ clash = FALSE /\ stale = FALSE

At(i, pc) == job[i].pc = pc
Writes(i) == i.kind \notin {"list", "poll"}
Rests(i) == job[i].pc \in {"new", "answered", "done", "refused", "lost"}
Open == {i \in Ids : ~Rests(i)}
InWindow(i) == job[i].pc \in {"reset", "resetFill", "truncate", "fill"}
Start(i, pc, stage) == [Fresh EXCEPT !.pc = pc, !.stage = stage]

-----------------------------------------------------------------------------
(* JsonFileStore *)

\* mutant of Peeked: a rollback writes over the snapshot of its first read
PeekedOnce(i, s) ==
  IF Listed(Normalize(s), i.target) /\ i.target[1] = i.group
  THEN [job[i] EXCEPT !.pc = "truncate", !.next = Updated(s, i, s.active[i.group])]
  ELSE Start(i, "refused", None)

\* A rollback looks at its target and at the active version, and reads again.
Peeked(i, s) ==
  IF Listed(Normalize(s), i.target) /\ i.target[1] = i.group
  THEN [job[i] EXCEPT !.pc = "read", !.stage = "update", !.old = s.active[i.group]]
  ELSE Start(i, "refused", None)

Computed(i, s) == [job[i] EXCEPT !.pc = "truncate", !.next = Updated(s, i, job[i].old)]

Queried(i, s) == IF i.kind = "poll" THEN [Start(i, "answered", None) EXCEPT !.seen = s.batches[Batch(i)]]
                 ELSE Start(i, "done", None)

\* What a job makes of the snapshot it has read.
Got(i, s) ==
  CASE job[i].stage = "peek" -> Peeked(i, s)
    [] job[i].stage = "update" -> Computed(i, s)
    [] OTHER -> Queried(i, s)

\* A rollback demotes the version it remembers, whatever is active now.
Stale(i, s) == i.kind = "rollback" /\ job[i].stage = "update" /\ job[i].old # s.active[i.group]

\* Sent by a client: the first read of the file is still to come.
Arrive(r) ==
  /\ r \in load
  /\ At(r, "new")
  /\ Cardinality(Open) < MaxOpen
  /\ job' = [job EXCEPT ![r] = Start(r, "read", CASE r.kind = "rollback" -> "peek"
                                                  [] r.kind = "list" -> "query"
                                                  [] OTHER -> "update")]
  /\ UNCHANGED <<load, file, trace, run, hooked, page, restarts, resumed, clash, stale>>

Read(i) ==
  /\ At(i, "read")
  /\ IF file.state = "whole"
     THEN /\ job' = [job EXCEPT ![i] = Got(i, file.data)]
          /\ stale' = (stale \/ Stale(i, file.data))
     ELSE /\ job' = [job EXCEPT ![i].pc = "reset"]
          /\ UNCHANGED stale
  /\ clash' = (clash \/ \E k \in Ids \ {i} : InWindow(k) /\ (job[i].stage = "update" \/ file.state # "whole"))
  /\ UNCHANGED <<load, file, trace, run, hooked, page, restarts, resumed>>

\* writeFile opens the file with O_TRUNC and then writes.
Truncate(i) ==
  /\ \/ At(i, "truncate") /\ job' = [job EXCEPT ![i].pc = "fill"]
     \/ At(i, "reset") /\ job' = [job EXCEPT ![i].pc = "resetFill"]
  /\ file' = Torn("empty")
  /\ UNCHANGED <<load, trace, run, hooked, page, restarts, resumed, clash, stale>>

\* Over the text of another writer a shorter text leaves the tail of that one.
Fills(s) == IF file.state = "empty" THEN {Whole(s)} ELSE {Whole(s), Torn("garbled")}

\* What follows the update of a request.
Filled(i) == Start(i, IF i.kind = "dispatch" THEN "spawn" ELSE "done", None)

Fill(i) ==
  /\ \/ /\ At(i, "fill")
        /\ file' \in Fills(job[i].next)
        /\ job' = [job EXCEPT ![i] = Filled(i)]
        /\ UNCHANGED stale
     \/ /\ At(i, "resetFill")
        /\ file' \in Fills(Default)
        /\ job' = [job EXCEPT ![i] = Got(i, Default)]
        /\ stale' = (stale \/ Stale(i, Default))
  /\ UNCHANGED <<load, trace, run, hooked, page, restarts, resumed, clash>>

-----------------------------------------------------------------------------
(* dispatchDaily after its batch is recorded, and the failure handlers *)

\* spawn: the run is on its own, and this server hears of its exit.
Spawn(d) ==
  /\ At(d, "spawn")
  /\ job' = [job EXCEPT ![d].pc = "done"]
  /\ run' = [run EXCEPT ![d] = "live"]
  /\ hooked' = hooked \cup {d}
  /\ UNCHANGED <<load, file, trace, page, restarts, resumed, clash, stale>>

\* No script, a configuration error, or the error event of the child: the
\* batch is marked failed, before the answer or behind it.
CannotSpawn(d) ==
  /\ At(d, "spawn")
  /\ \E pc \in {"marking", "done"} :
       job' = [job EXCEPT ![d].pc = pc, ![Mark(d)] = Start(Mark(d), "mark", "update")]
  /\ UNCHANGED <<load, file, trace, run, hooked, page, restarts, resumed, clash, stale>>

Marked(d) ==
  /\ At(d, "marking") /\ At(Mark(d), "done")
  /\ job' = [job EXCEPT ![d].pc = "done"]
  /\ UNCHANGED <<load, file, trace, run, hooked, page, restarts, resumed, clash, stale>>

\* The exit event of a run that ended with a code other than 0 or by a signal.
ExitEvent(d) ==
  /\ d \in hooked /\ run[d] = "failed"
  /\ hooked' = hooked \ {d}
  /\ job' = [job EXCEPT ![Mark(d)] = Start(Mark(d), "select", "update")]
  /\ UNCHANGED <<load, file, trace, run, page, restarts, resumed, clash, stale>>

\* mutant of Terminal: only a failure needs no mark
TerminalFailed(status) == status = "FAILED"

Terminal(status) == status \in {"SUCCESS", "FAILED"}

\* markBatchFailedIfNotTerminal: a query that fails counts as not terminal.
Select(d) ==
  LET m == Mark(d)
  IN /\ At(m, "select")
     /\ \E seen \in {trace[d], "error"} :
          job' = [job EXCEPT ![m].pc = IF Terminal(seen) THEN "done" ELSE "mark", ![m].seen = seen]
     /\ UNCHANGED <<load, file, trace, run, hooked, page, restarts, resumed, clash, stale>>

\* markBatchFailed: the row, whatever it says now, and then the file.  An
\* error of the database is ignored.
MarkRow(d) ==
  /\ At(Mark(d), "mark")
  /\ \/ trace' = [trace EXCEPT ![d] = IF @ = None THEN None ELSE "FAILED"]
     \/ UNCHANGED trace
  /\ job' = [job EXCEPT ![Mark(d)].pc = "read"]
  /\ UNCHANGED <<load, file, run, hooked, page, restarts, resumed, clash, stale>>

-----------------------------------------------------------------------------
(* The spawned run, as far as its row and its exit go *)

\* startRunTrace, or the reset of the row of a resumed run.
RunStarts(d) ==
  /\ run[d] = "live"
  /\ trace' = [trace EXCEPT ![d] = "PENDING"]
  /\ run' = [run EXCEPT ![d] = "working"]
  /\ UNCHANGED <<load, file, job, hooked, page, restarts, resumed, clash, stale>>

\* The end of the work: published, nothing to publish, or stopped.  Every error
\* ends the process with code 1.
RunEnds(d) ==
  /\ run[d] = "working"
  /\ \/ \E status \in {"SUCCESS", "COMPLETE_EMPTY"} :
          /\ trace' = [trace EXCEPT ![d] = status]
          /\ run' = [run EXCEPT ![d] = "reporting"]
     \/ \E status \in {"FAILED", "PAUSED"} :
          /\ trace' = [trace EXCEPT ![d] = status]
          /\ run' = [run EXCEPT ![d] = "failed"]
  /\ UNCHANGED <<load, file, job, hooked, page, restarts, resumed, clash, stale>>

\* Post-processing and the closing of the connections may still fail.
RunExits(d) ==
  /\ run[d] = "reporting"
  /\ \E end \in {"ended", "failed"} : run' = [run EXCEPT ![d] = end]
  /\ UNCHANGED <<load, file, job, trace, hooked, page, restarts, resumed, clash, stale>>

\* Killed, or stopped by an error before or between its statements.
RunDies(d) ==
  /\ run[d] \in {"live", "working"}
  /\ run' = [run EXCEPT ![d] = "failed"]
  /\ UNCHANGED <<load, file, job, trace, hooked, page, restarts, resumed, clash, stale>>

\* An operator resumes the trace from the command line; a successful one
\* reports so and ends.  The exit of the first process was heard of before.
Resume(d) ==
  /\ run[d] \in {"ended", "failed"}
  /\ trace[d] \notin {None, "SUCCESS"}
  /\ ~(run[d] = "failed" /\ d \in hooked)
  /\ d \notin resumed /\ Cardinality(resumed) < MaxResumes
  /\ resumed' = resumed \cup {d}
  /\ run' = [run EXCEPT ![d] = "live"]
  /\ hooked' = hooked \ {d}
  /\ UNCHANGED <<load, file, job, trace, page, restarts, clash, stale>>

-----------------------------------------------------------------------------
(* The page *)

\* The answer to a dispatch: the poller of an earlier one is cancelled.
Responded(d) ==
  /\ At(d, "done")
  /\ job[d].seen = None
  /\ job' = [job EXCEPT ![d].seen = "responded"]
  /\ page' = [NoPage EXCEPT !.traces = {d}, !.pc = "wait", !.elapsed = First, !.delay = Base]
  /\ UNCHANGED <<load, file, trace, run, hooked, restarts, resumed, clash, stale>>

\* The timer: elapsed is the time at which it fires.
Ask(d) ==
  /\ page.pc = "wait" /\ page.traces = {d}
  /\ At(Poll(d), "new")
  /\ page' = [page EXCEPT !.pc = "ask"]
  /\ job' = [job EXCEPT ![Poll(d)] = Start(Poll(d), "row", "query")]
  /\ UNCHANGED <<load, file, trace, run, hooked, restarts, resumed, clash, stale>>

ToWebBatchStatus(status) ==
  CASE status = "SUCCESS" -> "COMPLETED"
    [] status \in {"FAILED", "PENDING"} -> status
    [] OTHER -> "RUNNING"

\* getBatchByTraceId: the row; without one, or after an error, the file.
FindRow(d) ==
  LET p == Poll(d)
  IN /\ At(p, "row")
     /\ \/ /\ trace[d] # None
           /\ job' = [job EXCEPT ![p] = [Start(p, "answered", None) EXCEPT !.seen = ToWebBatchStatus(trace[d])]]
        \/ job' = [job EXCEPT ![p].pc = "read"]
     /\ UNCHANGED <<load, file, trace, run, hooked, page, restarts, resumed, clash, stale>>

TimedOut(elapsed, delay) == elapsed + delay > MaxWait

Smaller(a, b) == IF a < b THEN a ELSE b

\* mutant of Polled: an error ends the chain of polls and nobody hears of it
PolledSilently(seen) ==
  CASE seen \in {"COMPLETED", "FAILED"} -> [page EXCEPT !.pc = "settled", !.result = seen]
    [] seen = None -> page
    [] OTHER -> IF TimedOut(page.elapsed, page.delay) THEN [page EXCEPT !.pc = "timedOut"]
                ELSE [page EXCEPT !.pc = "wait", !.elapsed = @ + page.delay, !.delay = Smaller(2 * @, Cap)]

\* What the page makes of an answer; "none" is the error 404.
Polled(seen) ==
  CASE seen \in {"COMPLETED", "FAILED"} -> [page EXCEPT !.pc = "settled", !.result = seen]
    [] seen = None -> [page EXCEPT !.pc = "errored"]
    [] OTHER -> IF TimedOut(page.elapsed, page.delay) THEN [page EXCEPT !.pc = "timedOut"]
                ELSE [page EXCEPT !.pc = "wait", !.elapsed = @ + page.delay, !.delay = Smaller(2 * @, Cap)]

\* The answer of a cancelled poller is dropped.
Receive(d) ==
  LET p == Poll(d)
  IN /\ At(p, "answered")
     /\ page' = IF page.traces = {d} THEN Polled(job[p].seen) ELSE page
     /\ job' = [job EXCEPT ![p] = Fresh]
     /\ UNCHANGED <<load, file, trace, run, hooked, restarts, resumed, clash, stale>>

-----------------------------------------------------------------------------

\* The server dies and starts again: its requests are lost, the page's among
\* them, and the exit handlers with it.  A file in the middle of a write stays so.
Restart ==
  /\ restarts < MaxRestarts
  /\ restarts' = restarts + 1
  /\ job' = [i \in Ids |-> IF Rests(i) THEN job[i]
                           ELSE IF i.kind = "poll" THEN Fresh ELSE Start(i, "lost", None)]
  /\ page' = IF page.pc = "ask" /\ \A d \in page.traces : ~At(Poll(d), "answered")
             THEN [page EXCEPT !.pc = "errored"] ELSE page
  /\ hooked' = {}
  /\ clash' = (clash \/ file.state # "whole")
  /\ UNCHANGED <<load, file, trace, run, resumed, stale>>

Step(i) == Read(i) \/ Truncate(i) \/ Fill(i)
Handle(d) == Spawn(d) \/ CannotSpawn(d) \/ Marked(d) \/ ExitEvent(d) \/ Select(d) \/ MarkRow(d)
RunStep(d) == RunStarts(d) \/ RunEnds(d) \/ RunExits(d) \/ RunDies(d) \/ Resume(d)
PageStep(d) == Responded(d) \/ Ask(d) \/ FindRow(d) \/ Receive(d)

Next ==
  \/ \E r \in Requests : Arrive(r)
  \/ \E i \in Ids : Step(i)
  \/ \E d \in Dispatches : Handle(d) \/ RunStep(d) \/ PageStep(d)
  \/ Restart

Spec == Init /\ [][Next]_vars

\* The event loops run: requests go on and timers fire.  Nothing makes a run
\* end, a client send or an operator act.
FairSpec ==
  /\ Spec
  /\ \A i \in Ids : WF_vars(Step(i))
  /\ \A d \in Dispatches : WF_vars(PageStep(d))
-----------------------------------------------------------------------------
(* Properties *)

\* Types; the clock of a poller stays within the total wait of dispatch-poller.ts:99.
TypeOK ==
  /\ load \in Loads
  /\ file \in [state : {"whole", "empty", "garbled"}, data : Snapshot]
  /\ job \in [Ids -> [pc : Phases, stage : {None, "peek", "update", "query"}, next : Snapshot, old : Nat,
                      seen : Status \cup {"error", "responded", "COMPLETED", "RUNNING"}]]
  /\ trace \in [Dispatches -> Status]
  /\ run \in [Dispatches -> {None, "live", "working", "reporting", "ended", "failed"}]
  /\ hooked \subseteq Dispatches /\ resumed \subseteq Dispatches
  /\ page \in [traces : SUBSET Dispatches, pc : {"idle", "wait", "ask", "settled", "errored", "timedOut"},
               elapsed : Nat, delay : Nat, result : {None, "COMPLETED", "FAILED"}]
  /\ page.elapsed <= IF First > MaxWait THEN First ELSE MaxWait
  /\ restarts \in 0 .. MaxRestarts
  /\ {clash, stale} \subseteq BOOLEAN

\* JsonFileStore.update: the change of an acknowledged request is in the file,
\* unless a request once read the file while another one was about to write it,
\* or the server died in the middle of a write.  One such accident may undo the
\* changes of requests that no other one overlapped, since a torn file is
\* replaced by the defaults.
Acknowledged(i) == Writes(i) /\ job[i].pc \in {"spawn", "marking", "done"} /\ ~Terminal(job[i].seen)
KeptUnlessClash ==
  ~clash /\ file.state = "whole" => \A i \in Ids : Acknowledged(i) => i \in file.data.holds

\* A version row marked as promoted is the active version of its cluster, over
\* any sequence of promotions, confirmations and rollbacks, also where requests
\* overlap: only a rollback that remembers another active version breaks it.
PromotedIsActive ==
  ~stale /\ file.state = "whole" =>
    \A i \in DOMAIN file.data.rows :
      file.data.rows[i].status = "promoted" =>
        file.data.rows[i].id = ActiveId(file.data, file.data.rows[i].id[1])

\* markBatchFailedIfNotTerminal: the success of a run is overwritten only if the
\* query for it failed, or a resumed run has succeeded behind the query.
SuccessKept ==
  [][\A d \in Dispatches :
       trace[d] = "SUCCESS" /\ trace'[d] # "SUCCESS" => job[Mark(d)].seen = "error" \/ d \in resumed]_vars

\* pollDispatchUntilTerminal: whatever becomes of the run and the server, the
\* page stops polling: with an outcome, an error or a timeout.
PollEnds == page.pc \in {"wait", "ask"} ~> page.pc \in {"settled", "errored", "timedOut"}
=============================================================================
