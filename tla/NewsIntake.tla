------------------------------- MODULE NewsIntake -------------------------------
(* The news of a daily run: NewsNow, the source a run cannot do without     *)
(* (resolveNewsInput of src/backend/src/services/pipeline-utils.ts), over    *)
(* the refresh ledger (data-refresh-ledger-service.ts) and the file that a   *)
(* fetch leaves in tmp/ (src/backend/scripts/fetch-newsnow.ts).              *)
(*                                                                          *)
(* The key of the ledger and its expiry are computed from asOf, not from    *)
(* the clock: an entry of an asOf is valid for every run of that asOf.  The  *)
(* other two sources cannot stop a run and are left out.                    *)
EXTENDS YieldBackfill

VARIABLES
  ledger,   \* DataRefreshLedger: the entry of NewsNow for an asOf
  file,     \* tmp/newsnow-*.json, named by the second of its fetch
  intake    \* the fetches of the runs

newsVars == <<ledger, file, intake>>

\* A file is named after the run that first wrote in its second.
Names == Commands
NoIntake == [pc |-> "idle", asOf |-> 1, seen |-> {}, name |-> "none", linked |-> FALSE, hurt |-> FALSE, met |-> FALSE]
IntakeRests(p) == intake[p].pc \in {"idle", "ok", "stop"}
In(p, pc) == intake[p].pc = pc
Moves(p, i) == intake' = [intake EXCEPT ![p] = i]
To(p, pc) == Moves(p, [intake[p] EXCEPT !.pc = pc])

\* getValid
Valid(asOf) == ledger[asOf] = "success"

\* withLedgerCache: a valid entry is used, otherwise the loader runs.
StartIntake(p, asOf) ==
  /\ intake' = [q \in Commands |->
       IF q = p THEN [NoIntake EXCEPT !.pc = IF Valid(asOf) THEN "ok" ELSE "fetch", !.asOf = asOf,
                                      !.met = \E r \in Commands \ {p} : ~IntakeRests(r)]
       ELSE [intake[q] EXCEPT !.met = @ \/ ~IntakeRests(q)]]
  /\ UNCHANGED <<ledger, file>>

\* fetchNewsNowSources, its retries included.
Download(p) ==
  /\ In(p, "fetch")
  /\ \/ To(p, "list") /\ UNCHANGED faults
     \/ Moves(p, [intake[p] EXCEPT !.pc = "forget", !.hurt = TRUE]) /\ Fault
  /\ UNCHANGED <<ledger, file>>

ListOld(p) ==
  /\ In(p, "list")
  /\ Moves(p, [intake[p] EXCEPT !.pc = "clear", !.seen = {n \in Names : file[n] # "none"}])
  /\ UNCHANGED <<ledger, file, faults>>

\* A file that has gone since it was listed ends the fetch.
Unlink(p) ==
  /\ In(p, "clear")
  /\ \E n \in intake[p].seen :
       IF file[n] = "none" THEN To(p, "forget") /\ UNCHANGED file
       ELSE /\ file' = [file EXCEPT ![n] = "none"]
            /\ intake' = [q \in Commands |->
                 IF q = p THEN [intake[p] EXCEPT !.seen = @ \ {n}]
                 ELSE [intake[q] EXCEPT !.linked = @ /\ intake[q].name # n]]
  /\ UNCHANGED <<ledger, faults>>

\* mutant of Create: the write is not awaited
CreateUnawaited(p) ==
  /\ In(p, "clear") /\ intake[p].seen = {}
  /\ file' = [file EXCEPT ![p] = "torn"]
  /\ Moves(p, [intake[p] EXCEPT !.pc = "read", !.name = p, !.linked = TRUE])
  /\ UNCHANGED <<ledger, faults>>

\* The new file is opened: its name is new, or that of a file of the same second.
Create(p) ==
  /\ In(p, "clear") /\ intake[p].seen = {}
  /\ \E n \in {p} \cup {intake[q].name : q \in {q \in Commands \ {p} : intake[q].pc \in {"fill", "read"}}} :
       /\ file' = [file EXCEPT ![n] = "torn"]
       /\ Moves(p, [intake[p] EXCEPT !.pc = "fill", !.name = n, !.linked = TRUE])
  /\ UNCHANGED <<ledger, faults>>

\* Two writers of one file leave it whole or garbled.
Shared(p) == \E q \in Commands \ {p} : intake[q].linked /\ intake[q].name = intake[p].name /\ intake[q].pc \in {"fill", "read"}
FillFile(p) ==
  /\ In(p, "fill")
  /\ IF intake[p].linked
     THEN \E content \in {"whole"} \cup (IF Shared(p) THEN {"torn"} ELSE {}) : file' = [file EXCEPT ![intake[p].name] = content]
     ELSE UNCHANGED file
  /\ To(p, "read")
  /\ UNCHANGED <<ledger, faults>>

\* loadNewsNowArticles: the file may be gone, or no JSON.
ReadFile(p) ==
  /\ In(p, "read")
  /\ To(p, IF file[intake[p].name] = "whole" THEN "record" ELSE "forget")
  /\ UNCHANGED <<ledger, file, faults>>

\* upsert: the entry of the key is replaced, whatever it was.
Recorded(asOf, status) == [ledger EXCEPT ![asOf] = status]

\* recordSuccess stands in the try block of the loader: if it fails, the run fails.
RecordSuccess(p) ==
  /\ In(p, "record")
  /\ \/ /\ ledger' = Recorded(intake[p].asOf, "success")
        /\ To(p, "ok") /\ UNCHANGED faults
     \/ Moves(p, [intake[p] EXCEPT !.pc = "forget", !.hurt = TRUE]) /\ Fault /\ UNCHANGED ledger
  /\ UNCHANGED file

\* recordFailure, then the run stops at news_fetch.
RecordFailure(p) ==
  /\ In(p, "forget")
  /\ \/ ledger' = Recorded(intake[p].asOf, "failed") /\ UNCHANGED faults
     \/ UNCHANGED ledger /\ Fault
  /\ To(p, "stop")
  /\ UNCHANGED file

IntakeStep(p) ==
  /\ Download(p) \/ ListOld(p) \/ Unlink(p) \/ Create(p) \/ FillFile(p) \/ ReadFile(p) \/ RecordSuccess(p) \/ RecordFailure(p)
  /\ UNCHANGED <<now, candle, sync, blamed, rows, fill>>
=============================================================================
