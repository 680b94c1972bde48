---------------------------- MODULE ContentCache ----------------------------
(***************************************************************************)
(* The cache of extraction results shared by all traces                    *)
(* (backend/src/services/causal-cache-store.ts), as the workers of the AI  *)
(* sessions use it (resolveTaskCache and the commit transaction of         *)
(* ai-causal-workflow.ts).                                                 *)
(*                                                                         *)
(* A text has one entry.  A worker claims the texts of its task one after  *)
(* the other, each with a statement of its own; a text leased to another   *)
(* session is waited for, a committed one is reused, the others are        *)
(* extracted and committed together.  Workers of one session share its     *)
(* owner id.  "ttl" counts heartbeat periods, as in AiWorkflow: a lease is *)
(* free to take when ttl < 0.                                              *)
(***************************************************************************)
EXTENDS Integers, Sequences, FiniteSets

CONSTANTS Texts,      \* extraction inputs, up to fingerprint
          Sessions,   \* AI sessions of any traces, each with its own owner id
          Prompt,     \* the sessions that never stall: they renew their leases in time
          Workers,    \* workers of a session
          Loads,      \* what the workers meet: session -> worker -> its tasks, sequences of texts
          LeaseTicks, \* CACHE_LEASE_TTL_MS, in heartbeat periods
          WaitTicks,  \* CACHE_WAIT_TIMEOUT_MS, in heartbeat periods
          None        \* SQL NULL

ASSUME LoadsAssumption == Loads \subseteq [Sessions -> [Workers -> SUBSET Seq(Texts)]]
ASSUME TicksAssumption == LeaseTicks \in Nat \ {0} /\ WaitTicks \in Nat
ASSUME NoneAssumption == None \notin Sessions
ASSUME PromptAssumption == Prompt \subseteq Sessions

VARIABLES load,    \* the load of this behaviour
          entry,   \* the ContentCacheEntry rows
          session, \* per session: up, aborted, and the entries it committed itself
          worker   \* per session and worker: where it is in its task

vars == <<load, entry, session, worker>>

-----------------------------------------------------------------------------
Entry == [status : {"absent", "committed"}, owner : {None}, ttl : {-1}]
           \cup [status : {"claimed"}, owner : Sessions \cup {None}, ttl : -1 .. LeaseTicks]
Session == [up : BOOLEAN, aborted : BOOLEAN, committed : SUBSET Texts]
WorkerPc == {"idle", "claim", "look", "wait", "extract", "commit", "failing", "exited"}
Worker == [pc : WorkerPc, todo : Seq(Texts), claimed : Seq(Texts), fresh : BOOLEAN, timer : 0 .. WaitTicks]

TypeOK ==
  /\ load \in Loads
  /\ entry \in [Texts -> Entry]
  /\ session \in [Sessions -> Session]
  /\ worker \in [Sessions -> [Workers -> Worker]]

Idle == [pc |-> "idle", todo |-> <<>>, claimed |-> <<>>, fresh |-> FALSE, timer |-> 0]
Elements(seq) == {seq[i] : i \in DOMAIN seq}

Init ==
  /\ load \in Loads
  /\ entry = [t \in Texts |-> [status |-> "absent", owner |-> None, ttl |-> -1]]
  /\ session = [s \in Sessions |-> [up |-> TRUE, aborted |-> FALSE, committed |-> {}]]
  /\ worker = [s \in Sessions |-> [w \in Workers |-> Idle]]

At(s, w, pc) == session[s].up /\ worker[s][w].pc = pc
Set(s, w, record) == worker' = [worker EXCEPT ![s][w] = record]
Text(s, w) == Head(worker[s][w].todo)

\* The worker is done with the first text of its list: its lease was obtained,
\* its result was reused, or it is extracted without a lease.
Next1(s, w) == [worker[s][w] EXCEPT !.pc = "claim", !.todo = Tail(@), !.timer = 0]
Obtained(s, w) == [Next1(s, w) EXCEPT !.claimed = Append(@, Text(s, w)), !.fresh = TRUE]
Independent(s, w) == [Next1(s, w) EXCEPT !.fresh = TRUE]

\* A committed entry is reused, unless this very session committed it.
Reuse(s, w) ==
  Set(s, w, IF Text(s, w) \in session[s].committed THEN Independent(s, w) ELSE Next1(s, w))

-----------------------------------------------------------------------------
(* Claiming the texts of a task *)

TakeTask(s, w) ==
  /\ At(s, w, "idle")
  /\ \E task \in load[s][w] : Set(s, w, [Idle EXCEPT !.pc = "claim", !.todo = task])
  /\ ~session[s].aborted
  /\ UNCHANGED <<load, entry, session>>

\* mutant of Claimable: a live lease is taken as well
ClaimableLeased(t) == entry[t].status # "committed"

\* ON CONFLICT ... WHERE: not committed, and not leased by anyone
Claimable(t) == entry[t].status # "committed" /\ (entry[t].owner = None \/ entry[t].ttl < 0)

\* claimCacheEntry, the INSERT ... ON CONFLICT: the entry is leased or not.
Claim(s, w) ==
  /\ At(s, w, "claim")
  /\ worker[s][w].todo # <<>>
  /\ IF Claimable(Text(s, w))
     THEN /\ entry' = [entry EXCEPT ![Text(s, w)] = [status |-> "claimed", owner |-> s, ttl |-> LeaseTicks]]
          /\ Set(s, w, Obtained(s, w))
     ELSE /\ Set(s, w, [worker[s][w] EXCEPT !.pc = "look"])
          /\ entry' = entry
  /\ UNCHANGED <<load, session>>

\* claimCacheEntry, the SELECT that follows: the entry may have changed.
Look(s, w) ==
  /\ At(s, w, "look")
  /\ LET t == Text(s, w)
     IN \/ entry[t].status = "committed" /\ Reuse(s, w)
        \/ /\ entry[t].status = "claimed" /\ entry[t].owner = s
           /\ Set(s, w, Independent(s, w))
        \/ /\ entry[t].status = "claimed" /\ entry[t].owner # s
           /\ Set(s, w, [worker[s][w] EXCEPT !.pc = "wait", !.timer = WaitTicks])
  /\ UNCHANGED <<load, entry, session>>

\* waitForCommittedCacheEntry finds the result of the other session ...
WaitHit(s, w) ==
  /\ At(s, w, "wait")
  /\ entry[Text(s, w)].status = "committed"
  /\ Reuse(s, w)
  /\ UNCHANGED <<load, entry, session>>

\* mutant of GivesUp: the wait has no timeout
GivesUpNever(s, w) == FALSE

GivesUp(s, w) == worker[s][w].timer = 0

\* ... or times out.  AiNeedsAttentionError: the task is parked, or the
\* session was aborted meanwhile.  The catch block knows no resolution yet, so
\* the leases the task has obtained so far stay.
WaitTimeout(s, w) ==
  /\ At(s, w, "wait")
  /\ entry[Text(s, w)].status # "committed"
  /\ GivesUp(s, w)
  /\ Set(s, w, IF session[s].aborted THEN [Idle EXCEPT !.pc = "exited"] ELSE Idle)
  /\ UNCHANGED <<load, entry, session>>

\* The database fails while claiming or waiting: the session is aborted, and
\* the leases stay here as well.
ResolveFails(s, w) ==
  /\ \E pc \in {"claim", "look", "wait"} : At(s, w, pc)
  /\ session' = [session EXCEPT ![s].aborted = TRUE]
  /\ Set(s, w, [Idle EXCEPT !.pc = "exited"])
  /\ UNCHANGED <<load, entry>>

Resolved(s, w) ==
  /\ At(s, w, "claim")
  /\ worker[s][w].todo = <<>>
  /\ Set(s, w, [worker[s][w] EXCEPT !.pc = IF worker[s][w].fresh THEN "extract" ELSE "commit"])
  /\ UNCHANGED <<load, entry, session>>

-----------------------------------------------------------------------------
(* Extraction and commit *)

Extract(s, w) ==
  /\ At(s, w, "extract")
  /\ \/ ~session[s].aborted /\ Set(s, w, [worker[s][w] EXCEPT !.pc = "commit"])
     \/ Set(s, w, [worker[s][w] EXCEPT !.pc = "failing"])
  /\ UNCHANGED <<load, entry, session>>

\* WHERE id = $1 AND "leaseOwner" = me
Owns(s, t) == entry[t].owner = s

Stored(t) == [status |-> "committed", owner |-> None, ttl |-> -1]

\* The commit transaction: all the leases of the task are still mine, and its
\* entries become committed and free together; otherwise nothing is.  The set
\* of own commits is kept in memory and grows on the way to the failure.
Commit(s, w) ==
  /\ At(s, w, "commit")
  /\ LET mine == worker[s][w].claimed
         upTo == {mine[i] : i \in {j \in DOMAIN mine : \A k \in 1 .. j : Owns(s, mine[k])}}
     IN /\ session' = [session EXCEPT ![s].committed = @ \cup upTo]
        /\ IF upTo = Elements(mine)
           THEN /\ entry' = [t \in Texts |->
                     IF t \in upTo THEN Stored(t) ELSE entry[t]]
                /\ Set(s, w, Idle)
           ELSE /\ Set(s, w, [worker[s][w] EXCEPT !.pc = "failing"])
                /\ entry' = entry
  /\ UNCHANGED load

\* The work item is no longer mine, or the database fails: nothing is stored.
CommitFails(s, w) ==
  /\ At(s, w, "commit")
  /\ Set(s, w, [worker[s][w] EXCEPT !.pc = "failing"])
  /\ UNCHANGED <<load, entry, session>>

Freed(s, w) == {t \in Elements(worker[s][w].claimed) : entry[t].owner = s}

\* The catch block: release the leases (an error of the release is ignored),
\* then split or park the task, or abort the session.
Release(s, w) ==
  /\ At(s, w, "failing")
  /\ \E ok \in BOOLEAN :
       entry' = [t \in Texts |->
         IF ok /\ t \in Freed(s, w) THEN [status |-> "claimed", owner |-> None, ttl |-> -1] ELSE entry[t]]
  /\ \E abort \in BOOLEAN :
       /\ session' = [session EXCEPT ![s].aborted = @ \/ abort]
       /\ Set(s, w, IF session'[s].aborted THEN [Idle EXCEPT !.pc = "exited"] ELSE Idle)
  /\ UNCHANGED load

-----------------------------------------------------------------------------
(* The session *)

\* The third statement of AiWorkflowSession.renew.
Renew(s) ==
  /\ session[s].up
  /\ entry' = [t \in Texts |->
       IF entry[t].owner = s /\ entry[t].status = "claimed" THEN [entry[t] EXCEPT !.ttl = LeaseTicks] ELSE entry[t]]
  /\ UNCHANGED <<load, session, worker>>

\* The deadline, a lost lease, or a failing renewal.
Abort(s) ==
  /\ session[s].up
  /\ session' = [session EXCEPT ![s].aborted = TRUE]
  /\ UNCHANGED <<load, entry, worker>>

\* The session closes or its process dies; no entry is given back.
Leave(s) ==
  /\ session[s].up
  /\ session' = [session EXCEPT ![s].up = FALSE]
  /\ UNCHANGED <<load, entry, worker>>

Elapse(ttl) == IF ttl > -1 THEN ttl - 1 ELSE ttl

\* A prompt session that is up renews a lease before the lease runs out.
Due == \E t \in Texts : entry[t].owner \in Prompt /\ session[entry[t].owner].up /\ entry[t].ttl = 0

Tick ==
  /\ ~Due
  /\ entry' = [t \in Texts |-> [entry[t] EXCEPT !.ttl = Elapse(@)]]
  /\ worker' = [s \in Sessions |-> [w \in Workers |->
       [worker[s][w] EXCEPT !.timer = IF @ > 0 THEN @ - 1 ELSE 0]]]
  /\ UNCHANGED <<load, session>>

WorkerStep(s, w) ==
  \/ Claim(s, w) \/ Look(s, w) \/ WaitHit(s, w) \/ WaitTimeout(s, w) \/ ResolveFails(s, w)
  \/ Resolved(s, w) \/ Extract(s, w) \/ Commit(s, w) \/ CommitFails(s, w) \/ Release(s, w)

Next ==
  \/ \E s \in Sessions : Renew(s) \/ Abort(s) \/ Leave(s)
  \/ \E s \in Sessions, w \in Workers : TakeTask(s, w) \/ WorkerStep(s, w)
  \/ Tick

Spec == Init /\ [][Next]_vars

\* Time passes, prompt sessions renew, and a waiting worker polls on until its
\* session is gone.
FairSpec ==
  /\ Spec
  /\ WF_vars(Tick)
  /\ \A s \in Prompt : WF_vars(Renew(s))
  /\ \A s \in Sessions, w \in Workers : WF_vars(WaitHit(s, w) \/ WaitTimeout(s, w))

-----------------------------------------------------------------------------
(* Properties *)

\* A committed result is final: no late commit, release, claim or renewal of
\* any session changes it (the WHERE clauses of causal-cache-store.ts).
CommittedIsFinal ==
  [][\A t \in Texts : entry[t].status = "committed" => entry'[t] = entry[t]]_vars

\* A worker of a session that does not stall keeps the lease of every text it
\* works on, whatever its siblings do and however other sessions stall and come
\* back: a result that was paid for is not refused by commitCacheEntry.
Working(s, w) == session[s].up /\ worker[s][w].pc \in {"claim", "look", "wait", "extract", "commit"}

ClaimsAreKept ==
  \A s \in Prompt, w \in Workers : Working(s, w) =>
    \A t \in Elements(worker[s][w].claimed) : entry[t].status = "claimed" /\ entry[t].owner = s

\* ... and no two of them hold the lease of one text, not even two workers of
\* one session, which have the same owner id.
OneHolder ==
  \A s1, s2 \in Prompt, w1, w2 \in Workers :
    /\ Working(s1, w1) /\ Working(s2, w2) /\ <<s1, w1>> # <<s2, w2>>
    => Elements(worker[s1][w1].claimed) \cap Elements(worker[s2][w2].claimed) = {}

\* Waiting for the result of another session ends, in its result or in
\* NEEDS_ATTENTION, even when that session died.
WaitEnds ==
  \A s \in Sessions, w \in Workers : At(s, w, "wait") ~> ~At(s, w, "wait")

=============================================================================
