------------------------------ MODULE RunLease ------------------------------
(***************************************************************************)
(* The lease of one trace (pipeline-run-lease.ts) and the checkpoints that *)
(* are written under it (checkpointWork of pipeline-checkpoint.ts).        *)
(*                                                                         *)
(* A run connects, takes the advisory lock of the trace, which lives as    *)
(* long as the server's side of that connection, and writes its owner id   *)
(* and the next generation to the RunLease row over the same connection.   *)
(* Checkpoints are written over other connections: they are fenced by      *)
(* reading the row first.  The server may drop a connection while the run  *)
(* that opened it goes on, and a process may die while its connection      *)
(* stays open.  A resume is another run, with its own owner id.            *)
(***************************************************************************)
EXTENDS Integers

CONSTANTS Runs,       \* processes that run this trace, each with its own owner id
          Stages,     \* names of the checkpoints of a run
          LeaseTicks, \* timeoutMs of start(), in ticks of the clock
          None        \* no run

ASSUME LeaseTicksAssumption == LeaseTicks \in Nat \ {0}
ASSUME NoneAssumption == None \notin Runs \cup Stages

VARIABLES lock,       \* who holds the advisory lock, as the server sees it
          row,        \* the RunLease row
          run,        \* memory of the processes
          checkpoint, \* who wrote the checkpoint row of a stage
          late        \* history: <<run, stage>> written after a newer generation

vars == <<lock, row, run, checkpoint, late>>

-----------------------------------------------------------------------------
RunPc == {"off", "reading", "writing", "running", "closed", "dead"}
Run == [pc : RunPc,
        conn : {"none", "up", "cut"},     \* cut: the server has dropped it, the client may not know
        gen : Nat,
        aborted : BOOLEAN,                \* controller.signal
        beat : {"rest", "read"},          \* the heartbeat has read the row and will write it
        job : {"none", "work", "fenced"}, \* checkpointWork: computing, or past its lease check
        stage : Stages \cup {None}]

TypeOK ==
  /\ lock \in Runs \cup {None}
  /\ row \in [owner : Runs \cup {None}, gen : Nat, ttl : -1 .. LeaseTicks]
  /\ run \in [Runs -> Run]
  /\ \A r \in Runs : run[r].job = "none" <=> run[r].stage = None
  /\ checkpoint \in [Stages -> Runs \cup {None}]
  /\ late \subseteq Runs \X Stages

Init ==
  /\ lock = None
  /\ row = [owner |-> None, gen |-> 0, ttl |-> -1]
  /\ run = [r \in Runs |-> [pc |-> "off", conn |-> "none", gen |-> 0, aborted |-> FALSE,
                            beat |-> "rest", job |-> "none", stage |-> None]]
  /\ checkpoint = [st \in Stages |-> None]
  /\ late = {}

Alive(r) == run[r].pc \notin {"off", "closed", "dead"}

Ended(r) ==
  [run[r] EXCEPT !.pc = "closed", !.conn = "none", !.beat = "rest", !.job = "none", !.stage = None]

Unlocked(r) == IF lock = r THEN None ELSE lock

\* The lease's statements need the connection that took the lock.
Session(r) == run[r].conn = "up"

-----------------------------------------------------------------------------
(* start() *)

\* mutant of LockIsFree: the lock is taken over from a run that may be alive
LockIsFreeAlways == TRUE

LockIsFree == lock = None

\* pg_try_advisory_lock: the lock, or AiNeedsAttentionError.
Connect(r) ==
  /\ run[r].pc = "off"
  /\ IF LockIsFree
     THEN /\ lock' = r
          /\ run' = [run EXCEPT ![r].pc = "reading", ![r].conn = "up"]
     ELSE /\ run' = [run EXCEPT ![r] = Ended(r)]
          /\ lock' = lock
  /\ UNCHANGED <<row, checkpoint, late>>

NextGeneration == row.gen + 1

ReadLease(r) ==
  /\ run[r].pc = "reading"
  /\ Session(r)
  /\ run' = [run EXCEPT ![r].pc = "writing", ![r].gen = NextGeneration]
  /\ UNCHANGED <<lock, row, checkpoint, late>>

\* writePersistedLease: the whole row is written, whatever it holds.
Persisted(r) == [owner |-> r, gen |-> run[r].gen, ttl |-> LeaseTicks]

WriteLease(r) ==
  /\ run[r].pc = "writing"
  /\ Session(r)
  /\ row' = Persisted(r)
  /\ run' = [run EXCEPT ![r].pc = "running"]
  /\ UNCHANGED <<lock, checkpoint, late>>

\* A statement of start() fails: the connection is closed.  A write that
\* timed out at the client may have reached the server.
StartFails(r) ==
  /\ run[r].pc \in {"reading", "writing"}
  /\ row' \in {row} \cup (IF run[r].pc = "writing" /\ Session(r) THEN {Persisted(r)} ELSE {})
  /\ run' = [run EXCEPT ![r] = Ended(r)]
  /\ lock' = Unlocked(r)
  /\ UNCHANGED <<checkpoint, late>>

-----------------------------------------------------------------------------
(* renew(), every ten seconds until close(), also after an abort *)

StillMine(r) == row.owner = r /\ row.gen = run[r].gen

BeatRead(r) ==
  /\ run[r].pc = "running" /\ run[r].beat = "rest"
  /\ Session(r)
  /\ run' = [run EXCEPT ![r].beat = IF StillMine(r) THEN "read" ELSE "rest",
                        ![r].aborted = @ \/ ~StillMine(r)]
  /\ UNCHANGED <<lock, row, checkpoint, late>>

BeatWrite(r) ==
  /\ run[r].pc = "running" /\ run[r].beat = "read"
  /\ Session(r)
  /\ row' = Persisted(r)
  /\ run' = [run EXCEPT ![r].beat = "rest"]
  /\ UNCHANGED <<lock, checkpoint, late>>

\* mutant of BeatFailed: a failing heartbeat is ignored
BeatFailedSilently(r) == [run[r] EXCEPT !.beat = "rest"]

BeatFailed(r) == [run[r] EXCEPT !.beat = "rest", !.aborted = TRUE]

BeatFails(r) ==
  /\ run[r].pc = "running"
  /\ row' \in {row} \cup (IF run[r].beat = "read" /\ Session(r) THEN {Persisted(r)} ELSE {})
  /\ run' = [run EXCEPT ![r] = BeatFailed(r)]
  /\ UNCHANGED <<lock, checkpoint, late>>

\* The error event of the connection, or the one-hour timer of start().
Abort(r) ==
  /\ run[r].pc = "running"
  /\ run' = [run EXCEPT ![r].aborted = TRUE]
  /\ UNCHANGED <<lock, row, checkpoint, late>>

-----------------------------------------------------------------------------
(* checkpointWork, called by the one flow of executeMain *)

\* The proxy around the database client: lease.assertActive().
Active(r) == run[r].pc = "running" /\ ~run[r].aborted

\* The stage has no checkpoint yet: compute it.
Begin(r) ==
  /\ Active(r)
  /\ run[r].job = "none"
  /\ \E st \in Stages :
       /\ checkpoint[st] = None
       /\ run' = [run EXCEPT ![r].job = "work", ![r].stage = st]
  /\ UNCHANGED <<lock, row, checkpoint, late>>

\* mutant of IsHolder: only the end of the lease is checked
IsHolderByTime(r) == row.ttl >= 0

\* isLeaseHolder: owner, generation and end of the lease
IsHolder(r) == row.owner = r /\ row.gen = run[r].gen /\ row.ttl >= 0

\* assertLeaseHolder; when it throws, the run ends.
Fence(r) ==
  /\ Active(r)
  /\ run[r].job = "work"
  /\ IsHolder(r)
  /\ run' = [run EXCEPT ![r].job = "fenced"]
  /\ UNCHANGED <<lock, row, checkpoint, late>>

\* The INSERT, a statement of its own.  A row that is there already is an error.
Insert(r) ==
  /\ Active(r)
  /\ run[r].job = "fenced"
  /\ checkpoint[run[r].stage] = None
  /\ checkpoint' = [checkpoint EXCEPT ![run[r].stage] = r]
  /\ late' = IF row.gen > run[r].gen THEN late \cup {<<r, run[r].stage>>} ELSE late
  /\ run' = [run EXCEPT ![r].job = "none", ![r].stage = None]
  /\ UNCHANGED <<lock, row>>

\* releasePersistedLease sets owner = NULL; the column is NOT NULL, so the
\* statement fails, which close() ignores: the row stays.
Released(r) == row

\* close(), at the end of main: the work is done, or some step threw (a lost
\* fence, an abort, a failed statement).
Close(r) ==
  /\ run[r].pc = "running"
  /\ row' = Released(r)
  /\ run' = [run EXCEPT ![r] = Ended(r)]
  /\ lock' = Unlocked(r)
  /\ UNCHANGED <<checkpoint, late>>

-----------------------------------------------------------------------------
(* The environment *)

\* The process dies; the server does not know yet.
Crash(r) ==
  /\ Alive(r)
  /\ run' = [run EXCEPT ![r] = [Ended(r) EXCEPT !.pc = "dead", !.conn = run[r].conn]]
  /\ UNCHANGED <<lock, row, checkpoint, late>>

\* The server ends the session of a connection, and with it the lock.
Cut(r) ==
  /\ run[r].conn = "up"
  /\ run' = [run EXCEPT ![r].conn = "cut"]
  /\ lock' = Unlocked(r)
  /\ UNCHANGED <<row, checkpoint, late>>

Tick ==
  /\ row.ttl >= 0
  /\ row' = [row EXCEPT !.ttl = @ - 1]
  /\ UNCHANGED <<lock, run, checkpoint, late>>

Beat(r) == BeatRead(r) \/ BeatWrite(r) \/ BeatFails(r)

Next ==
  \/ \E r \in Runs :
       \/ Connect(r) \/ ReadLease(r) \/ WriteLease(r) \/ StartFails(r)
       \/ BeatRead(r) \/ BeatWrite(r) \/ BeatFails(r) \/ Abort(r)
       \/ Begin(r) \/ Fence(r) \/ Insert(r) \/ Close(r)
       \/ Crash(r) \/ Cut(r)
  \/ Tick

Spec == Init /\ [][Next]_vars

\* While a process lives its interval fires, and each statement is answered or
\* times out after ten seconds.
FairSpec == Spec /\ \A r \in Runs : WF_vars(Beat(r))

-----------------------------------------------------------------------------
(* Properties *)

\* Two runs that have started never have the same generation, although the
\* generation is read and written in two statements: otherwise the check
\* before a checkpoint could not tell them apart by it.
Started(r) == run[r].pc = "running"

GenerationsDiffer ==
  \A r1, r2 \in Runs : r1 # r2 /\ Started(r1) /\ Started(r2) => run[r1].gen # run[r2].gen

\* The row never goes back to an older generation, nor to another owner of the
\* same generation: a heartbeat that was on its way when the run lost its lock
\* does not take the trace back (pipeline-run-lease.ts:119).
GenerationsGrow ==
  [][row'.gen > row.gen \/ (row'.gen = row.gen /\ row'.owner = row.owner)]_vars

\* However long a superseded run goes on, at most one checkpoint of it lands
\* after the takeover: the one it had already passed the check for
\* (pipeline-checkpoint.ts:39 promises none).
OneLateCheckpoint ==
  \A r \in Runs, st1, st2 \in Stages : <<r, st1>> \in late /\ <<r, st2>> \in late => st1 = st2

\* A run whose row was taken over learns of it, by its heartbeat, or is gone.
StaleRunLearns ==
  \A r \in Runs : (Started(r) /\ row.gen > run[r].gen) ~> (run[r].aborted \/ ~Started(r))

=============================================================================
