------------------------------ MODULE RuntimeState ------------------------------
(* The snapshot that src/backend/src/http keeps in one JSON file            *)
(* (runtime-state.ts): the clusters with their active version, the version  *)
(* rows in file order, the batches that the page dispatched, and what each  *)
(* request changes in it (runtime-cluster-operations.ts,                    *)
(* runtime-data-operations.ts).                                             *)
(*                                                                          *)
(* A request is a record [kind, group, target, serial]; target is the       *)
(* version id <<group, number>> that a confirmation or a rollback names (the *)
(* page confirms the versions of the cluster it shows).                     *)
(* Feedback, policies and the what-if history are lists and maps of their   *)
(* own, which no other request reads: a request of kind "note" stands for   *)
(* each, and the set "holds" says whose changes a snapshot contains.        *)
EXTENDS Integers, Sequences, SequencesExt

CONSTANTS
  Main,       \* DEFAULT_CLUSTER_ID
  Groups,     \* the clusters that requests name
  Requests    \* the requests of an instance, each sent at most once

Kinds == {"promote", "confirm", "rollback", "note", "dispatch", "list"}

ASSUME GroupsAssumption == IsFiniteSet(Groups) /\ Main \in Groups
ASSUME RequestsAssumption ==
  /\ Requests \subseteq [kind : Kinds, group : Groups, target : Groups \X (Nat \ {0}), serial : Nat]
  /\ \A r \in Requests : r.kind = "confirm" => r.target[1] = r.group

Dispatches == {r \in Requests : r.kind = "dispatch"}
\* What the server does on its own account: the exit handler of a spawned run,
\* and the answer to one poll of the page.
Mark(d) == [d EXCEPT !.kind = "mark"]
Poll(d) == [d EXCEPT !.kind = "poll"]
Ids == Requests \cup {Mark(d) : d \in Dispatches} \cup {Poll(d) : d \in Dispatches}

RowStatus == {"pending", "promoted", "rollbackable", "rolledBack"}
Row == [id : Groups \X (Nat \ {0}), status : RowStatus]
Snapshot == [active : [Groups -> Nat], rows : Seq(Row), batches : [Dispatches -> {"none", "PENDING", "FAILED"}],
             holds : SUBSET Ids]

\* createDefaultSnapshot: the main cluster at its first version.
Default ==
  [active |-> [g \in Groups |-> IF g = Main THEN 1 ELSE 0],
   rows |-> <<[id |-> <<Main, 1>>, status |-> "promoted"]>>,
   batches |-> [d \in Dispatches |-> "none"],
   holds |-> {}]

ActiveId(s, g) == <<g, s.active[g]>>
Listed(s, id) == \E i \in DOMAIN s.rows : s.rows[i].id = id

\* normalize: an active version without a row gets one, in front.
Unlisted(s) == {g \in Groups : s.active[g] # 0 /\ ~Listed(s, ActiveId(s, g))}
Normalize(s) ==
  LET added == SetToSeq(Unlisted(s))
  IN [s EXCEPT !.rows = [i \in DOMAIN added |-> [id |-> ActiveId(s, added[i]), status |-> "promoted"]] \o @]

\* A cluster that a request names first starts at version 1.
EnsureCluster(s, g) ==
  IF s.active[g] # 0 THEN s
  ELSE [s EXCEPT !.active[g] = 1, !.rows = Append(@, [id |-> <<g, 1>>, status |-> "promoted"])]

\* promoteCluster: the version after the active one, to be confirmed.
Promote(s, g) ==
  LET t == EnsureCluster(s, g)
  IN [t EXCEPT !.rows = <<[id |-> <<g, t.active[g] + 1>>, status |-> "pending"]>> \o @]

\* mutant of ConfirmStatus: the version that was active keeps its status
ConfirmStatusAlone(row, target, previous) == IF row.id = target THEN "promoted" ELSE row.status

\* Every row with the id changes, not only the one that was found.
ConfirmStatus(row, target, previous) ==
  IF row.id = target THEN "promoted" ELSE IF row.id = previous THEN "rollbackable" ELSE row.status

\* confirmPromoteCluster: the first row with the id decides.
Confirmable(s, target) ==
  \E i \in DOMAIN s.rows : /\ s.rows[i].id = target /\ s.rows[i].status = "pending"
                           /\ \A k \in 1 .. i - 1 : s.rows[k].id # target

Confirm(s, g, target) ==
  LET t == EnsureCluster(s, g)
  IN IF ~Confirmable(t, target) THEN t
     ELSE [t EXCEPT !.active[g] = target[2],
                    !.rows = [i \in DOMAIN t.rows |->
                               [t.rows[i] EXCEPT !.status = ConfirmStatus(t.rows[i], target, ActiveId(t, g))]]]

\* rollbackCluster: "old" is the active version of an earlier read of the file.
RollbackStatus(row, target, old) ==
  IF row.id = old THEN "rolledBack" ELSE IF row.id = target THEN "promoted" ELSE row.status

Rollback(s, g, target, old) ==
  [s EXCEPT !.active[g] = IF @ = 0 THEN 0 ELSE target[2],
            !.rows = [i \in DOMAIN s.rows |->
                       [s.rows[i] EXCEPT !.status = RollbackStatus(s.rows[i], target, <<g, old>>)]]]

\* dispatchDaily records a batch; the failure handlers mark it, if it is there.
AddBatch(s, d) == [EnsureCluster(s, d.group) EXCEPT !.batches[d] = "PENDING"]
FailBatch(s, d) == [EnsureCluster(s, d.group) EXCEPT !.batches[d] = IF @ = "none" THEN "none" ELSE "FAILED"]

Batch(m) == [m EXCEPT !.kind = "dispatch"]

\* The updater of a request: what it makes of the snapshot it has read.
Change(s, r, old) ==
  CASE r.kind = "promote" -> Promote(s, r.group)
    [] r.kind = "confirm" -> Confirm(s, r.group, r.target)
    [] r.kind = "rollback" -> Rollback(s, r.group, r.target, old)
    [] r.kind = "dispatch" -> AddBatch(s, r)
    [] r.kind = "mark" -> FailBatch(s, Batch(r))
    [] OTHER -> s

\* RuntimeStateStore.update: normalize, change, normalize.
Updated(s, r, old) == [Normalize(Change(Normalize(s), r, old)) EXCEPT !.holds = @ \cup {r}]
=============================================================================
