----------------------------- MODULE DispatchProofs -----------------------------
(***************************************************************************)
(* Proofs about Dispatch for any clusters, requests and bounds: the types, *)
(* that the acknowledged changes stay in the state file as long as no two  *)
(* requests interleave, and that a promoted version row is the active      *)
(* version of its cluster.                                                 *)
(***************************************************************************)
EXTENDS Dispatch, FiniteSetTheorems, TLAPS

-----------------------------------------------------------------------------
(* The snapshots *)

Version == Groups \X (Nat \ {0})

\* The rows that normalize puts in front are the unlisted active versions.
LEMMA AddedRows ==
  ASSUME NEW s
  PROVE  SetToSeq(Unlisted(s)) \in Seq(Unlisted(s))
<1>. DEFINE S == Unlisted(s)
<1>1. IsFiniteSet(S)
  BY GroupsAssumption, FS_Subset DEF Unlisted
<1>2. Cardinality(S) \in Nat /\ ExistsBijection(1 .. Cardinality(S), S)
  BY <1>1, FS_CardinalityType
<1>3. \E f \in [1 .. Cardinality(S) -> S] : IsInjective(f)
  BY <1>2 DEF ExistsBijection, Bijection, Injection, IsInjective
<1>4. SetToSeq(S) \in [1 .. Cardinality(S) -> S]
  BY <1>3 DEF SetToSeq
<1>. QED
  BY <1>2, <1>4
LEMMA ConcatRows ==
  ASSUME NEW a \in Seq(Row), NEW b \in Seq(Row)
  PROVE  /\ a \o b \in Seq(Row)
         /\ \A i \in DOMAIN (a \o b) : \/ \E k \in DOMAIN a : (a \o b)[i] = a[k]
                                       \/ \E k \in DOMAIN b : (a \o b)[i] = b[k]
<1>1. a \o b \in Seq(Row) /\ Len(a) \in Nat /\ Len(b) \in Nat /\ DOMAIN (a \o b) = 1 .. Len(a) + Len(b)
  BY DEF Row
<1>2. ASSUME NEW i \in 1 .. Len(a) + Len(b), i <= Len(a)
      PROVE  i \in DOMAIN a /\ (a \o b)[i] = a[i]
  BY <1>1, <1>2
<1>3. ASSUME NEW i \in 1 .. Len(a) + Len(b), i > Len(a)
      PROVE  i - Len(a) \in DOMAIN b /\ (a \o b)[i] = b[i - Len(a)]
  BY <1>1, <1>3
<1>4. ASSUME NEW i \in 1 .. Len(a) + Len(b)
      PROVE  \/ \E k \in DOMAIN a : (a \o b)[i] = a[k]
             \/ \E k \in DOMAIN b : (a \o b)[i] = b[k]
  <2>1. CASE i <= Len(a)
    BY <1>2, <2>1
  <2>2. CASE i > Len(a)
    BY <1>3, <2>2
  <2>. QED
    BY <1>1, <2>1, <2>2
<1>. QED
  BY <1>1, <1>4

\* A row belongs to a cluster that exists, and a promoted one is its active version.
RowFits(s, row) == /\ s.active[row.id[1]] # 0
                   /\ row.status = "promoted" => row.id[2] = s.active[row.id[1]]
Coherent(s) == \A i \in DOMAIN s.rows : RowFits(s, s.rows[i])

\* What every change of a snapshot keeps: the types, whose changes it holds,
\* and, if it is given a coherent snapshot, coherence.
Sound(s, t) == t \in Snapshot /\ t.holds = s.holds /\ (Coherent(s) => Coherent(t))

LEMMA DefaultSound == Default \in Snapshot /\ Coherent(Default)
<1>1. /\ Default.active \in [Groups -> Nat] /\ Default.rows \in Seq(Row)
      /\ Default.batches \in [Dispatches -> {"none", "PENDING", "FAILED"}]
      /\ Default.holds = {} /\ Default.active[Main] = 1
      /\ Default.rows = <<[id |-> <<Main, 1>>, status |-> "promoted"]>>
  BY GroupsAssumption DEF Default, Row, RowStatus
<1>2. Default = [active |-> Default.active, rows |-> Default.rows, batches |-> Default.batches,
                 holds |-> Default.holds]
  BY DEF Default
<1>3. Default \in Snapshot
  BY <1>1, <1>2 DEF Snapshot
<1>4. ASSUME NEW i \in DOMAIN Default.rows
      PROVE  RowFits(Default, Default.rows[i])
  <2>1. Default.rows[i] = [id |-> <<Main, 1>>, status |-> "promoted"]
    BY <1>1
  <2>. QED
    BY <1>1, <2>1 DEF RowFits
<1>. QED
  BY <1>3, <1>4 DEF Coherent

\* Rows in front of those of s that fit what s becomes.
LEMMA PrependSound ==
  ASSUME NEW s \in Snapshot, NEW a \in Seq(Row), \A k \in DOMAIN a : RowFits(s, a[k])
  PROVE  Sound(s, [s EXCEPT !.rows = a \o @])
<1>. DEFINE t == [s EXCEPT !.rows = a \o @]
<1>1. s.rows \in Seq(Row)
  BY DEF Snapshot
<1>2. a \o s.rows \in Seq(Row)
  BY <1>1, ConcatRows
<1>3. t \in Snapshot /\ t.holds = s.holds /\ t.rows = a \o s.rows /\ t.active = s.active
  BY <1>2 DEF Snapshot
<1>4. ASSUME Coherent(s), NEW i \in DOMAIN t.rows
      PROVE  RowFits(t, t.rows[i])
  <2>1. \/ \E k \in DOMAIN a : t.rows[i] = a[k]
        \/ \E k \in DOMAIN s.rows : t.rows[i] = s.rows[k]
    BY <1>1, <1>3, ConcatRows
  <2>. QED
    BY <1>3, <1>4, <2>1 DEF Coherent, RowFits
<1>. QED
  BY <1>3, <1>4 DEF Sound, Coherent

LEMMA NormalizeSound ==
  ASSUME NEW s \in Snapshot
  PROVE  Sound(s, Normalize(s)) /\ Normalize(s).active = s.active
<1>. DEFINE added == SetToSeq(Unlisted(s))
<1>. DEFINE a == [i \in DOMAIN added |-> [id |-> ActiveId(s, added[i]), status |-> "promoted"]]
<1>1. added \in Seq(Unlisted(s))
  BY AddedRows
<1>. HIDE DEF added
<1>2. ASSUME NEW k \in DOMAIN added
      PROVE  /\ [id |-> ActiveId(s, added[k]), status |-> "promoted"] \in Row
             /\ RowFits(s, [id |-> ActiveId(s, added[k]), status |-> "promoted"])
  <2>1. added[k] \in Groups /\ s.active[added[k]] \in Nat \ {0}
    BY <1>1 DEF Unlisted, Snapshot
  <2>. QED
    BY <2>1 DEF ActiveId, Row, RowStatus, RowFits
<1>3. a \in Seq(Row) /\ \A k \in DOMAIN a : RowFits(s, a[k])
  BY <1>1, <1>2
<1>4. Normalize(s) = [s EXCEPT !.rows = a \o @]
  BY DEF Normalize, added
<1>. HIDE DEF a
<1>5. Normalize(s).active = s.active
  BY <1>4 DEF Snapshot
<1>. QED
  BY <1>3, <1>4, <1>5, PrependSound

LEMMA EnsureClusterSound ==
  ASSUME NEW s \in Snapshot, NEW g \in Groups
  PROVE  Sound(s, EnsureCluster(s, g)) /\ EnsureCluster(s, g).active[g] # 0
<1>. DEFINE row == [id |-> <<g, 1>>, status |-> "promoted"]
<1>. DEFINE t == [s EXCEPT !.active[g] = 1, !.rows = Append(@, row)]
<1>1. s.active \in [Groups -> Nat] /\ s.rows \in Seq(Row) /\ row \in Row
  BY DEF Snapshot, Row, RowStatus
<1>2. CASE s.active[g] # 0
  BY <1>2 DEF EnsureCluster, Sound
<1>3. CASE s.active[g] = 0
  <2>1. EnsureCluster(s, g) = t
    BY <1>3 DEF EnsureCluster
  <2>. HIDE DEF row
  <2>2. t \in Snapshot /\ t.holds = s.holds /\ t.rows = Append(s.rows, row)
        /\ t.active = [s.active EXCEPT ![g] = 1]
    <3>1. Append(s.rows, row) \in Seq(Row) /\ [s.active EXCEPT ![g] = 1] \in [Groups -> Nat]
      BY <1>1
    <3>. QED
      BY <3>1 DEF Snapshot
  <2>. HIDE DEF t
  <2>3. ASSUME Coherent(s), NEW i \in DOMAIN t.rows
        PROVE  RowFits(t, t.rows[i])
    <3>1. \/ t.rows[i] = row
          \/ i \in DOMAIN s.rows /\ t.rows[i] = s.rows[i]
      BY <1>1, <2>2
    <3>2. CASE t.rows[i] = row
      BY <1>1, <2>2, <3>2 DEF RowFits, row
    <3>3. CASE i \in DOMAIN s.rows /\ t.rows[i] = s.rows[i]
      <4>3. s.rows[i] \in Row /\ RowFits(s, s.rows[i])
        BY <1>1, <2>3, <3>3 DEF Coherent
      <4>1. s.rows[i].id \in Version /\ s.active[s.rows[i].id[1]] # 0
        BY <4>3 DEF Row, RowFits, Version
      <4>2. s.rows[i].id[1] # g
        BY <1>3, <4>1
      <4>. QED
        BY <1>1, <2>2, <3>3, <4>1, <4>2, <4>3 DEF RowFits, Version
    <3>. QED
      BY <3>1, <3>2, <3>3
  <2>. QED
    BY <1>1, <2>1, <2>2, <2>3 DEF Sound, Coherent
<1>. QED
  BY <1>2, <1>3

LEMMA PromoteSound ==
  ASSUME NEW s \in Snapshot, NEW g \in Groups
  PROVE  Sound(s, Promote(s, g))
<1>. DEFINE t == EnsureCluster(s, g)
<1>. DEFINE a == <<[id |-> <<g, t.active[g] + 1>>, status |-> "pending"]>>
<1>1. Sound(s, t) /\ t.active[g] # 0
  BY EnsureClusterSound
<1>. HIDE DEF t
<1>2. t \in Snapshot /\ t.active[g] \in Nat
  BY <1>1 DEF Sound, Snapshot
<1>3. a \in Seq(Row) /\ \A k \in DOMAIN a : RowFits(t, a[k])
  BY <1>1, <1>2 DEF Row, RowStatus, RowFits
<1>4. Promote(s, g) = [t EXCEPT !.rows = a \o @]
  BY DEF Promote, t
<1>. HIDE DEF a
<1>5. Sound(t, Promote(s, g))
  BY <1>2, <1>3, <1>4, PrependSound
<1>. QED
  BY <1>1, <1>5 DEF Sound
LEMMA ConfirmSound ==
  ASSUME NEW s \in Snapshot, NEW g \in Groups, NEW target \in Version, target[1] = g
  PROVE  Sound(s, Confirm(s, g, target))
<1>. DEFINE t == EnsureCluster(s, g)
<1>. DEFINE rows == [i \in DOMAIN t.rows |->
                      [t.rows[i] EXCEPT !.status = ConfirmStatus(t.rows[i], target, ActiveId(t, g))]]
<1>. DEFINE u == [t EXCEPT !.active[g] = target[2], !.rows = rows]
<1>1. Sound(s, t)
  BY EnsureClusterSound
<1>2. Confirm(s, g, target) = t \/ Confirm(s, g, target) = u
  BY DEF Confirm
<1>. HIDE DEF t
<1>3. t \in Snapshot /\ t.rows \in Seq(Row) /\ t.active \in [Groups -> Nat]
  BY <1>1 DEF Sound, Snapshot
<1>4. ASSUME NEW i \in DOMAIN t.rows
      PROVE  /\ t.rows[i] \in Row /\ rows[i] \in Row /\ rows[i].id = t.rows[i].id
             /\ rows[i].status = ConfirmStatus(t.rows[i], target, ActiveId(t, g))
  <2>1. t.rows[i] \in Row
    BY <1>3
  <2>2. ConfirmStatus(t.rows[i], target, ActiveId(t, g)) \in RowStatus
    BY <2>1 DEF ConfirmStatus, Row, RowStatus
  <2>. QED
    BY <2>1, <2>2 DEF Row
<1>5. rows \in Seq(Row) /\ DOMAIN rows = DOMAIN t.rows
  <2>1. DOMAIN t.rows = 1 .. Len(t.rows) /\ Len(t.rows) \in Nat
    BY <1>3
  <2>2. rows \in [1 .. Len(t.rows) -> Row]
    BY <1>4, <2>1
  <2>. QED
    BY <2>1, <2>2
<1>. HIDE DEF rows
<1>6. /\ u \in Snapshot /\ u.holds = t.holds /\ u.rows = rows
      /\ u.active = [t.active EXCEPT ![g] = target[2]]
  BY <1>3, <1>5 DEF Snapshot, Version
<1>. HIDE DEF u
<1>7. ASSUME Coherent(t), NEW i \in DOMAIN u.rows
      PROVE  RowFits(u, u.rows[i])
  <2>1. /\ i \in DOMAIN t.rows /\ u.rows[i].id = t.rows[i].id
        /\ u.rows[i].status = ConfirmStatus(t.rows[i], target, ActiveId(t, g))
        /\ t.rows[i].id \in Version
        /\ RowFits(t, t.rows[i])
    BY <1>4, <1>5, <1>6, <1>7 DEF Coherent, Row, Version
  <2>2. CASE t.rows[i].id = target
    BY <1>3, <1>6, <2>1, <2>2 DEF RowFits, Version
  <2>3. CASE t.rows[i].id # target /\ t.rows[i].id[1] = g
    <3>1. u.rows[i].status = "promoted" => t.rows[i].id # ActiveId(t, g) /\ t.rows[i].status = "promoted"
      BY <2>1, <2>3 DEF ConfirmStatus
    <3>2. t.rows[i].id[2] = t.active[g] => t.rows[i].id = ActiveId(t, g)
      BY <2>1, <2>3 DEF ActiveId, Version
    <3>. QED
      BY <1>3, <1>6, <2>1, <2>3, <3>1, <3>2 DEF RowFits, Version
  <2>4. CASE t.rows[i].id # target /\ t.rows[i].id[1] # g
    <3>1. u.rows[i].status = "promoted" => t.rows[i].status = "promoted"
      BY <2>1, <2>4 DEF ConfirmStatus
    <3>2. u.active[t.rows[i].id[1]] = t.active[t.rows[i].id[1]]
      BY <1>3, <1>6, <2>1, <2>4 DEF Version
    <3>. QED
      BY <2>1, <3>1, <3>2 DEF RowFits
  <2>. QED
    BY <2>2, <2>3, <2>4
<1>. QED
  BY <1>1, <1>2, <1>6, <1>7 DEF Sound, Coherent

\* A rollback is coherent if the version that it demotes is the active one.
LEMMA RollbackSound ==
  ASSUME NEW s \in Snapshot, NEW g \in Groups, NEW target \in Version, target[1] = g, NEW old \in Nat
  PROVE  /\ Rollback(s, g, target, old) \in Snapshot
         /\ Rollback(s, g, target, old).holds = s.holds
         /\ old = s.active[g] => Sound(s, Rollback(s, g, target, old))
<1>. DEFINE rows == [i \in DOMAIN s.rows |->
                      [s.rows[i] EXCEPT !.status = RollbackStatus(s.rows[i], target, <<g, old>>)]]
<1>. DEFINE u == [s EXCEPT !.active[g] = IF @ = 0 THEN 0 ELSE target[2], !.rows = rows]
<1>2. Rollback(s, g, target, old) = u
  BY DEF Rollback
<1>3. s.rows \in Seq(Row) /\ s.active \in [Groups -> Nat]
  BY DEF Snapshot
<1>4. ASSUME NEW i \in DOMAIN s.rows
      PROVE  /\ s.rows[i] \in Row /\ rows[i] \in Row /\ rows[i].id = s.rows[i].id
             /\ rows[i].status = RollbackStatus(s.rows[i], target, <<g, old>>)
  <2>1. s.rows[i] \in Row
    BY <1>3
  <2>2. RollbackStatus(s.rows[i], target, <<g, old>>) \in RowStatus
    BY <2>1 DEF RollbackStatus, Row, RowStatus
  <2>. QED
    BY <2>1, <2>2 DEF Row
<1>5. rows \in Seq(Row) /\ DOMAIN rows = DOMAIN s.rows
  <2>1. DOMAIN s.rows = 1 .. Len(s.rows) /\ Len(s.rows) \in Nat
    BY <1>3
  <2>2. rows \in [1 .. Len(s.rows) -> Row]
    BY <1>4, <2>1
  <2>. QED
    BY <2>1, <2>2
<1>. HIDE DEF rows
<1>6. /\ u \in Snapshot /\ u.holds = s.holds /\ u.rows = rows
      /\ u.active = [s.active EXCEPT ![g] = IF s.active[g] = 0 THEN 0 ELSE target[2]]
  BY <1>3, <1>5 DEF Snapshot, Version
<1>. HIDE DEF u
<1>7. ASSUME Coherent(s), old = s.active[g], NEW i \in DOMAIN u.rows
      PROVE  RowFits(u, u.rows[i])
  <2>1. /\ i \in DOMAIN s.rows /\ u.rows[i].id = s.rows[i].id
        /\ u.rows[i].status = RollbackStatus(s.rows[i], target, <<g, old>>)
        /\ s.rows[i].id \in Version
        /\ RowFits(s, s.rows[i])
    BY <1>4, <1>5, <1>6, <1>7 DEF Coherent, Row, Version
  <2>2. CASE s.rows[i].id[1] = g
    <3>1. u.rows[i].status = "promoted" => s.rows[i].id = target \/ s.rows[i].status = "promoted"
      BY <2>1 DEF RollbackStatus
    <3>2. u.rows[i].status = "promoted" => s.rows[i].id # <<g, old>>
      BY <2>1 DEF RollbackStatus
    <3>3. s.rows[i].id[2] = old => s.rows[i].id = <<g, old>>
      BY <2>1, <2>2 DEF Version
    <3>4. s.active[g] # 0 /\ u.active[g] = target[2] /\ target[2] # 0
      BY <1>3, <1>6, <2>1, <2>2 DEF RowFits, Version
    <3>. QED
      BY <1>7, <2>1, <2>2, <3>1, <3>2, <3>3, <3>4 DEF RowFits
  <2>3. CASE s.rows[i].id[1] # g
    <3>1. u.rows[i].status = "promoted" => s.rows[i].status = "promoted"
      BY <2>1, <2>3 DEF RollbackStatus
    <3>2. u.active[s.rows[i].id[1]] = s.active[s.rows[i].id[1]]
      BY <1>3, <1>6, <2>1, <2>3 DEF Version
    <3>. QED
      BY <2>1, <3>1, <3>2 DEF RowFits
  <2>. QED
    BY <2>2, <2>3
<1>. QED
  BY <1>2, <1>6, <1>7 DEF Sound, Coherent

LEMMA BatchesSound ==
  ASSUME NEW s \in Snapshot, NEW d \in Dispatches
  PROVE  Sound(s, AddBatch(s, d)) /\ Sound(s, FailBatch(s, d))
<1>. DEFINE t == EnsureCluster(s, d.group)
<1>1. d.group \in Groups
  BY RequestsAssumption DEF Dispatches
<1>2. Sound(s, t)
  BY <1>1, EnsureClusterSound
<1>. HIDE DEF t
<1>3. ASSUME NEW v \in {"none", "PENDING", "FAILED"}
      PROVE  Sound(t, [t EXCEPT !.batches[d] = v])
  BY <1>2 DEF Sound, Snapshot, Coherent, RowFits
<1>4. t.batches[d] \in {"none", "PENDING", "FAILED"}
  BY <1>2 DEF Sound, Snapshot
<1>5. /\ AddBatch(s, d) = [t EXCEPT !.batches[d] = "PENDING"]
      /\ FailBatch(s, d) = [t EXCEPT !.batches[d] = IF t.batches[d] = "none" THEN "none" ELSE "FAILED"]
  BY DEF AddBatch, FailBatch, t
<1>. QED
  BY <1>2, <1>3, <1>4, <1>5 DEF Sound
LEMMA IdFacts ==
  ASSUME NEW i \in Ids
  PROVE  /\ i.group \in Groups /\ i.target \in Version
         /\ i.kind = "confirm" => i.target[1] = i.group
         /\ i.kind = "dispatch" => i \in Dispatches
         /\ i.kind \in {"mark", "poll"} => Batch(i) \in Dispatches
<1>1. CASE i \in Requests
  BY <1>1, RequestsAssumption DEF Dispatches, Version, Kinds
<1>2. ASSUME NEW d \in Dispatches, i = Mark(d) \/ i = Poll(d)
      PROVE  /\ i.group = d.group /\ i.target = d.target /\ i.kind \in {"mark", "poll"} /\ Batch(i) = d
  <2>1. d \in [kind : Kinds, group : Groups, target : Groups \X (Nat \ {0}), serial : Nat] /\ d.kind = "dispatch"
    BY RequestsAssumption DEF Dispatches
  <2>. QED
    BY <1>2, <2>1 DEF Mark, Poll, Batch
<1>3. \A d \in Dispatches : d.group \in Groups /\ d.target \in Version
  BY RequestsAssumption DEF Dispatches, Version
<1>4. CASE \E d \in Dispatches : i = Mark(d) \/ i = Poll(d)
  <2>1. PICK d \in Dispatches : i = Mark(d) \/ i = Poll(d)
    BY <1>4
  <2>. QED
    BY <1>2, <1>3, <2>1
<1>. QED
  BY <1>1, <1>4 DEF Ids

LEMMA MarkFacts ==
  ASSUME NEW d \in Dispatches
  PROVE  /\ d \in Ids /\ Mark(d) \in Ids /\ Poll(d) \in Ids
         /\ Mark(d) # d /\ Mark(d) # Poll(d) /\ Poll(d) # d
         /\ Mark(d).kind = "mark" /\ Poll(d).kind = "poll" /\ d.kind = "dispatch"
<1>1. d \in [kind : Kinds, group : Groups, target : Groups \X (Nat \ {0}), serial : Nat] /\ d.kind = "dispatch"
  BY RequestsAssumption DEF Dispatches
<1>2. Mark(d).kind = "mark" /\ Poll(d).kind = "poll"
  BY <1>1 DEF Mark, Poll
<1>3. d \in Ids /\ Mark(d) \in Ids /\ Poll(d) \in Ids
  BY DEF Ids, Dispatches
<1>. QED
  BY <1>1, <1>2, <1>3

LEMMA ChangeSound ==
  ASSUME NEW s \in Snapshot, NEW i \in Ids, NEW old \in Nat, i.kind = "rollback" => i.target[1] = i.group
  PROVE  /\ Change(s, i, old) \in Snapshot
         /\ Change(s, i, old).holds = s.holds
         /\ ~(i.kind = "rollback" /\ old # s.active[i.group]) => Sound(s, Change(s, i, old))
<1>1. CASE i.kind = "promote"
  BY <1>1, IdFacts, PromoteSound DEF Change, Sound
<1>2. CASE i.kind = "confirm"
  BY <1>2, IdFacts, ConfirmSound DEF Change, Sound
<1>3. CASE i.kind = "rollback"
  BY <1>3, IdFacts, RollbackSound DEF Change, Sound
<1>4. CASE i.kind = "dispatch"
  BY <1>4, IdFacts, BatchesSound DEF Change, Sound
<1>5. CASE i.kind = "mark"
  BY <1>5, IdFacts, BatchesSound DEF Change, Sound
<1>6. CASE i.kind \notin {"promote", "confirm", "rollback", "dispatch", "mark"}
  BY <1>6 DEF Change, Sound
<1>. QED
  BY <1>1, <1>2, <1>3, <1>4, <1>5, <1>6

\* The update of a request holds what the file held, and the request.
LEMMA UpdatedSound ==
  ASSUME NEW s \in Snapshot, NEW i \in Ids, NEW old \in Nat, i.kind = "rollback" => i.target[1] = i.group
  PROVE  /\ Updated(s, i, old) \in Snapshot
         /\ Updated(s, i, old).holds = s.holds \cup {i}
         /\ Coherent(s) /\ ~(i.kind = "rollback" /\ old # s.active[i.group]) => Coherent(Updated(s, i, old))
<1>. DEFINE t == Normalize(s)
<1>. DEFINE u == Change(t, i, old)
<1>. DEFINE v == Normalize(u)
<1>1. t \in Snapshot /\ t.holds = s.holds /\ t.active = s.active /\ (Coherent(s) => Coherent(t))
  BY NormalizeSound DEF Sound
<1>. HIDE DEF t
<1>2. /\ u \in Snapshot /\ u.holds = s.holds
      /\ Coherent(s) /\ ~(i.kind = "rollback" /\ old # s.active[i.group]) => Coherent(u)
  BY <1>1, ChangeSound DEF Sound
<1>. HIDE DEF u
<1>3. v \in Snapshot /\ v.holds = u.holds /\ (Coherent(u) => Coherent(v))
  BY <1>2, NormalizeSound DEF Sound
<1>. HIDE DEF v
<1>4. Updated(s, i, old) = [v EXCEPT !.holds = @ \cup {i}]
  BY DEF Updated, t, u, v
<1>6. v.holds \cup {i} \in SUBSET Ids
  BY <1>3 DEF Snapshot
<1>5. /\ [v EXCEPT !.holds = @ \cup {i}] \in Snapshot
      /\ [v EXCEPT !.holds = @ \cup {i}].holds = v.holds \cup {i}
      /\ [v EXCEPT !.holds = @ \cup {i}].active = v.active
      /\ [v EXCEPT !.holds = @ \cup {i}].rows = v.rows
  BY <1>3, <1>6 DEF Snapshot
<1>. QED
  BY <1>2, <1>3, <1>4, <1>5 DEF Coherent, RowFits

-----------------------------------------------------------------------------
(* Types *)

Stages == {None, "peek", "update", "query"}
Seen == Status \cup {"error", "responded", "COMPLETED", "RUNNING"}
JobRecord == [pc : Phases, stage : Stages, next : Snapshot, old : Nat, seen : Seen]
FileRecord == [state : {"whole", "empty", "garbled"}, data : Snapshot]

\* A rollback gets to its update only if the target is a version of the cluster.
RightTarget(i, j) == j.stage = "update" /\ i.kind = "rollback" => i.target[1] = i.group

Typed == TypeOK /\ \A i \in Ids : RightTarget(i, job[i])

LEMMA StartTyped ==
  ASSUME NEW i, NEW pc \in Phases, NEW stage \in Stages
  PROVE  /\ Fresh \in JobRecord
         /\ Start(i, pc, stage) \in JobRecord
         /\ Start(i, pc, stage).pc = pc /\ Start(i, pc, stage).stage = stage
         /\ Start(i, pc, stage).next = Default /\ Start(i, pc, stage).seen = None
<1>1. Fresh \in JobRecord /\ Fresh.next = Default /\ Fresh.seen = None
  BY DefaultSound DEF Fresh, JobRecord, Phases, Stages, Seen, Status, None
<1>. QED
  BY <1>1 DEF Start, JobRecord

LEMMA GotTyped ==
  ASSUME Typed, NEW i \in Ids, NEW s \in Snapshot
  PROVE  Got(i, s) \in JobRecord /\ RightTarget(i, Got(i, s))
<1>. DEFINE j == job[i]
<1>1. j \in JobRecord /\ RightTarget(i, j)
  BY DEF Typed, TypeOK, JobRecord, Stages, Seen
<1>2. CASE j.stage = "peek"
  <2>1. CASE Listed(Normalize(s), i.target) /\ i.target[1] = i.group
    <3>1. Got(i, s) = [j EXCEPT !.pc = "read", !.stage = "update", !.old = s.active[i.group]]
      BY <1>2, <2>1 DEF Got, Peeked
    <3>2. s.active[i.group] \in Nat
      BY IdFacts DEF Snapshot
    <3>. HIDE DEF j
    <3>. QED
      BY <1>1, <2>1, <3>1, <3>2 DEF JobRecord, Phases, Stages, RightTarget
  <2>2. CASE ~(Listed(Normalize(s), i.target) /\ i.target[1] = i.group)
    <3>1. Got(i, s) = Start(i, "refused", None)
      BY <1>2, <2>2 DEF Got, Peeked
    <3>. QED
      BY <3>1, StartTyped DEF Phases, Stages, RightTarget, None
  <2>. QED
    BY <2>1, <2>2
<1>3. CASE j.stage = "update"
  <2>1. Got(i, s) = [j EXCEPT !.pc = "truncate", !.next = Updated(s, i, j.old)]
    BY <1>3 DEF Got, Computed
  <2>. HIDE DEF j
  <2>2. Updated(s, i, j.old) \in Snapshot
    BY <1>1, <1>3, UpdatedSound DEF JobRecord, RightTarget
  <2>. QED
    BY <1>1, <1>3, <2>1, <2>2 DEF JobRecord, Phases, RightTarget
<1>4. CASE j.stage \notin {"peek", "update"} /\ i.kind = "poll"
  <2>1. Got(i, s) = [Start(i, "answered", None) EXCEPT !.seen = s.batches[Batch(i)]]
    BY <1>4 DEF Got, Queried
  <2>2. s.batches[Batch(i)] \in Seen
    BY <1>4, IdFacts DEF Snapshot, Seen, Status, None
  <2>3. Start(i, "answered", None) \in JobRecord /\ Start(i, "answered", None).stage = None
    BY StartTyped DEF Phases, Stages
  <2>. QED
    BY <2>1, <2>2, <2>3 DEF JobRecord, RightTarget, None
<1>5. CASE j.stage \notin {"peek", "update"} /\ i.kind # "poll"
  <2>1. Got(i, s) = Start(i, "done", None)
    BY <1>5 DEF Got, Queried
  <2>. QED
    BY <2>1, StartTyped DEF Phases, Stages, RightTarget, None
<1>. QED
  BY <1>2, <1>3, <1>4, <1>5
Jobs(f) == f \in [Ids -> JobRecord] /\ \A i \in Ids : RightTarget(i, f[i])
FileTyped(f) == f \in FileRecord
PageRecord == [traces : SUBSET Dispatches, pc : {"idle", "wait", "ask", "settled", "errored", "timedOut"},
               elapsed : Nat, delay : Nat, result : {None, "COMPLETED", "FAILED"}]
LastPoll == IF First > MaxWait THEN First ELSE MaxWait
PageTyped(p) == p \in PageRecord /\ p.elapsed <= LastPoll
RunStates == {None, "live", "working", "reporting", "ended", "failed"}
RestTyped(l, t, r, h, n, z) ==
  /\ l \in Loads /\ t \in [Dispatches -> Status] /\ r \in [Dispatches -> RunStates]
  /\ h \subseteq Dispatches /\ n \in 0 .. MaxRestarts /\ z \subseteq Dispatches
FlagsTyped(c, s) == c \in BOOLEAN /\ s \in BOOLEAN

LEMMA TypedParts ==
  /\ Typed <=> /\ Jobs(job) /\ FileTyped(file) /\ PageTyped(page)
               /\ RestTyped(load, trace, run, hooked, restarts, resumed) /\ FlagsTyped(clash, stale)
  /\ Typed' <=> /\ Jobs(job') /\ FileTyped(file') /\ PageTyped(page')
                /\ RestTyped(load', trace', run', hooked', restarts', resumed') /\ FlagsTyped(clash', stale')
BY DEF Typed, TypeOK, Jobs, JobRecord, Stages, Seen, FileTyped, FileRecord, PageTyped, PageRecord, LastPoll,
       RestTyped, RunStates, FlagsTyped

\* A job record that changes its phase.
LEMMA PhaseTyped ==
  ASSUME NEW i \in Ids, NEW j \in JobRecord, RightTarget(i, j), NEW pc \in Phases
  PROVE  [j EXCEPT !.pc = pc] \in JobRecord /\ RightTarget(i, [j EXCEPT !.pc = pc])
BY DEF JobRecord, RightTarget

LEMMA StartRight ==
  ASSUME NEW i \in Ids, NEW pc \in Phases, NEW stage \in Stages, i.kind = "rollback" => stage # "update"
  PROVE  Start(i, pc, stage) \in JobRecord /\ RightTarget(i, Start(i, pc, stage))
BY StartTyped DEF RightTarget

LEMMA OneJob ==
  ASSUME Jobs(job), NEW i \in Ids, NEW j \in JobRecord, RightTarget(i, j), job' = [job EXCEPT ![i] = j]
  PROVE  Jobs(job')
BY DEF Jobs

LEMMA FilesTyped ==
  ASSUME NEW s \in Snapshot
  PROVE  /\ FileTyped(Whole(s)) /\ FileTyped(Torn("empty")) /\ FileTyped(Torn("garbled"))
         /\ \A f \in Fills(s) : FileTyped(f)
BY DefaultSound DEF FileTyped, FileRecord, Whole, Torn, Fills

LEMMA InitTyped == Init => Typed
<1>. SUFFICES ASSUME Init PROVE Typed
  OBVIOUS
<1>1. "new" \in Phases /\ None \in Stages
  BY DEF Phases, Stages
<1>2. Fresh \in JobRecord /\ Fresh.stage = None
  BY <1>1, StartTyped DEF Fresh
<1>3. Jobs(job)
  BY <1>2 DEF Init, Jobs, RightTarget, None
<1>4. FileTyped(file)
  BY DefaultSound, FilesTyped DEF Init
<1>5. PageTyped(page)
  BY BoundsAssumption DEF Init, NoPage, PageTyped, PageRecord, LastPoll, None
<1>7. MaxRestarts \in Nat /\ 0 \in 0 .. MaxRestarts
  BY BoundsAssumption
<1>6. RestTyped(load, trace, run, hooked, restarts, resumed) /\ FlagsTyped(clash, stale)
  BY <1>7 DEF Init, RestTyped, FlagsTyped, RunStates, Status, None
<1>. QED
  BY <1>3, <1>4, <1>5, <1>6, TypedParts

LEMMA ArriveTyped ==
  ASSUME Typed, NEW r \in Requests, Arrive(r)
  PROVE  Typed'
<1>. DEFINE stage == CASE r.kind = "rollback" -> "peek" [] r.kind = "list" -> "query" [] OTHER -> "update"
<1>1. r \in Ids /\ stage \in Stages /\ "read" \in Phases /\ (r.kind = "rollback" => stage # "update")
  BY DEF Ids, Stages, Phases
<1>2. job' = [job EXCEPT ![r] = Start(r, "read", stage)]
  BY DEF Arrive
<1>. HIDE DEF stage
<1>3. Jobs(job')
  BY <1>1, <1>2, StartRight, OneJob, TypedParts
<1>. QED
  BY <1>3, TypedParts DEF Arrive

LEMMA StepTyped ==
  ASSUME Typed, NEW i \in Ids, Step(i)
  PROVE  Typed'
<1>0. Jobs(job) /\ FileTyped(file) /\ FlagsTyped(clash, stale)
  BY TypedParts
<1>1. job[i] \in JobRecord /\ RightTarget(i, job[i]) /\ file.data \in Snapshot /\ job[i].next \in Snapshot
  BY <1>0 DEF Jobs, FileTyped, FileRecord, JobRecord
<1>2. /\ [job[i] EXCEPT !.pc = "reset"] \in JobRecord /\ RightTarget(i, [job[i] EXCEPT !.pc = "reset"])
      /\ [job[i] EXCEPT !.pc = "fill"] \in JobRecord /\ RightTarget(i, [job[i] EXCEPT !.pc = "fill"])
      /\ [job[i] EXCEPT !.pc = "resetFill"] \in JobRecord /\ RightTarget(i, [job[i] EXCEPT !.pc = "resetFill"])
  BY <1>1, PhaseTyped DEF Phases
<1>3. CASE Read(i)
  <2>1. job' = [job EXCEPT ![i] = Got(i, file.data)] \/ job' = [job EXCEPT ![i] = [job[i] EXCEPT !.pc = "reset"]]
    BY <1>3 DEF Read
  <2>2. Jobs(job')
    BY <1>0, <1>1, <1>2, <2>1, GotTyped, OneJob
  <2>3. FlagsTyped(clash', stale')
    BY <1>0, <1>3 DEF Read, FlagsTyped, Stale
  <2>. QED
    BY <1>3, <2>2, <2>3, TypedParts DEF Read
<1>4. CASE Truncate(i)
  <2>1. job' = [job EXCEPT ![i] = [job[i] EXCEPT !.pc = "fill"]] \/ job' = [job EXCEPT ![i] = [job[i] EXCEPT !.pc = "resetFill"]]
    BY <1>4 DEF Truncate
  <2>2. Jobs(job')
    BY <1>0, <1>2, <2>1, OneJob
  <2>. QED
    BY <1>4, <2>2, DefaultSound, FilesTyped, TypedParts DEF Truncate
<1>5. CASE Fill(i)
  <2>1. Filled(i) \in JobRecord /\ RightTarget(i, Filled(i))
    BY StartRight DEF Filled, Phases, Stages, None
  <2>2. Got(i, Default) \in JobRecord /\ RightTarget(i, Got(i, Default))
    BY DefaultSound, GotTyped
  <2>3. job' = [job EXCEPT ![i] = Filled(i)] \/ job' = [job EXCEPT ![i] = Got(i, Default)]
    BY <1>5 DEF Fill
  <2>4. Jobs(job')
    BY <1>0, <2>1, <2>2, <2>3, OneJob
  <2>5. FileTyped(file')
    BY <1>1, <1>5, DefaultSound, FilesTyped DEF Fill
  <2>6. FlagsTyped(clash', stale')
    BY <1>0, <1>5 DEF Fill, FlagsTyped, Stale
  <2>. QED
    BY <1>5, <2>4, <2>5, <2>6, TypedParts DEF Fill
<1>. QED
  BY <1>3, <1>4, <1>5 DEF Step
\* The handlers, the runs and the page leave the file and the history alone.
LEMMA HandleTyped ==
  ASSUME Typed, NEW d \in Dispatches, Handle(d)
  PROVE  Typed'
<1>0. /\ Jobs(job) /\ FileTyped(file) /\ PageTyped(page) /\ FlagsTyped(clash, stale)
      /\ RestTyped(load, trace, run, hooked, restarts, resumed)
  BY TypedParts
<1>. DEFINE m == Mark(d)
<1>1. d \in Ids /\ m \in Ids /\ m # d /\ m.kind = "mark" /\ d.kind = "dispatch"
  BY MarkFacts
<1>. HIDE DEF m
<1>2. /\ job[d] \in JobRecord /\ RightTarget(d, job[d]) /\ job[m] \in JobRecord /\ RightTarget(m, job[m])
  BY <1>0, <1>1 DEF Jobs
<1>3. ASSUME NEW i \in Ids, NEW pc \in Phases, job[i] \in JobRecord, RightTarget(i, job[i]),
             job' = [job EXCEPT ![i] = [job[i] EXCEPT !.pc = pc]]
      PROVE  Jobs(job')
  BY <1>0, <1>3, PhaseTyped, OneJob
<1>4. CASE Spawn(d)
  <2>1. Jobs(job')
    BY <1>1, <1>2, <1>3, <1>4 DEF Spawn, Phases
  <2>2. RestTyped(load', trace', run', hooked', restarts', resumed')
    BY <1>0, <1>4 DEF Spawn, RestTyped, RunStates
  <2>. QED
    BY <1>4, <2>1, <2>2, TypedParts DEF Spawn
<1>5. CASE CannotSpawn(d)
  <2>1. PICK pc \in {"marking", "done"} :
          job' = [job EXCEPT ![d].pc = pc, ![m] = Start(m, "mark", "update")]
    BY <1>5 DEF CannotSpawn, m
  <2>2. [job[d] EXCEPT !.pc = pc] \in JobRecord /\ RightTarget(d, [job[d] EXCEPT !.pc = pc])
    BY <1>1, <1>2, PhaseTyped DEF Phases
  <2>3. Start(m, "mark", "update") \in JobRecord /\ RightTarget(m, Start(m, "mark", "update"))
    BY <1>1, StartRight DEF Phases, Stages
  <2>4. Jobs(job')
    BY <1>0, <1>1, <2>1, <2>2, <2>3 DEF Jobs
  <2>. QED
    BY <1>5, <2>4, TypedParts DEF CannotSpawn
<1>6. CASE Marked(d)
  <2>1. Jobs(job')
    BY <1>1, <1>2, <1>3, <1>6 DEF Marked, Phases
  <2>. QED
    BY <1>6, <2>1, TypedParts DEF Marked
<1>7. CASE ExitEvent(d)
  <2>1. Start(m, "select", "update") \in JobRecord /\ RightTarget(m, Start(m, "select", "update"))
    BY <1>1, StartRight DEF Phases, Stages
  <2>2. Jobs(job')
    BY <1>0, <1>1, <1>7, <2>1, OneJob DEF ExitEvent, m
  <2>3. RestTyped(load', trace', run', hooked', restarts', resumed')
    BY <1>0, <1>7 DEF ExitEvent, RestTyped
  <2>. QED
    BY <1>7, <2>2, <2>3, TypedParts DEF ExitEvent
<1>8. CASE Select(d)
  <2>1. PICK seen \in {trace[d], "error"} :
          job' = [job EXCEPT ![m].pc = IF Terminal(seen) THEN "done" ELSE "mark", ![m].seen = seen]
    BY <1>8 DEF Select, m
  <2>. DEFINE j == [job[m] EXCEPT !.pc = IF Terminal(seen) THEN "done" ELSE "mark", !.seen = seen]
  <2>2. seen \in Seen
    BY <1>0 DEF RestTyped, Seen
  <2>3. j \in JobRecord /\ RightTarget(m, j)
    BY <1>2, <2>2 DEF JobRecord, Phases, RightTarget
  <2>4. job' = [job EXCEPT ![m] = j]
    BY <2>1
  <2>5. Jobs(job')
    BY <1>0, <1>1, <2>3, <2>4, OneJob
  <2>. QED
    BY <1>8, <2>5, TypedParts DEF Select
<1>9. CASE MarkRow(d)
  <2>1. Jobs(job')
    BY <1>1, <1>2, <1>3, <1>9 DEF MarkRow, Phases, m
  <2>2. RestTyped(load', trace', run', hooked', restarts', resumed')
    BY <1>0, <1>9 DEF MarkRow, RestTyped, Status
  <2>. QED
    BY <1>9, <2>1, <2>2, TypedParts DEF MarkRow
<1>. QED
  BY <1>4, <1>5, <1>6, <1>7, <1>8, <1>9 DEF Handle

LEMMA RunTyped ==
  ASSUME Typed, NEW d \in Dispatches, RunStep(d)
  PROVE  Typed'
<1>0. RestTyped(load, trace, run, hooked, restarts, resumed)
  BY TypedParts
<1>1. /\ UNCHANGED <<file, job, page, clash, stale>>
      /\ RestTyped(load', trace', run', hooked', restarts', resumed')
  BY <1>0 DEF RunStep, RunStarts, RunEnds, RunExits, RunDies, Resume, RestTyped, RunStates, Status
<1>. QED
  BY <1>1, TypedParts

LEMMA PolledTyped ==
  ASSUME PageTyped(page), NEW seen
  PROVE  PageTyped(Polled(seen))
<1>1. page \in PageRecord /\ page.elapsed \in Nat /\ page.delay \in Nat /\ page.elapsed <= LastPoll
  BY DEF PageTyped, PageRecord
<1>2. MaxWait \in Nat /\ Cap \in Nat /\ First \in Nat
  BY BoundsAssumption
<1>3. Smaller(2 * page.delay, Cap) \in Nat /\ page.elapsed + page.delay \in Nat
  BY <1>1, <1>2 DEF Smaller
<1>4. ~TimedOut(page.elapsed, page.delay) => page.elapsed + page.delay <= LastPoll
  BY <1>1, <1>2 DEF TimedOut, LastPoll
<1>5. CASE seen \in {"COMPLETED", "FAILED"}
  BY <1>1, <1>5 DEF Polled, PageTyped, PageRecord
<1>6. CASE seen \notin {"COMPLETED", "FAILED"} /\ seen = None
  BY <1>1, <1>6 DEF Polled, PageTyped, PageRecord
<1>7. CASE seen \notin {"COMPLETED", "FAILED"} /\ seen # None
  <2>1. CASE TimedOut(page.elapsed, page.delay)
    BY <1>1, <1>7, <2>1 DEF Polled, PageTyped, PageRecord
  <2>2. CASE ~TimedOut(page.elapsed, page.delay)
    <3>. DEFINE e == page.elapsed + page.delay
    <3>. DEFINE w == Smaller(2 * page.delay, Cap)
    <3>1. Polled(seen) = [page EXCEPT !.pc = "wait", !.elapsed = e, !.delay = w]
      BY <1>7, <2>2 DEF Polled
    <3>2. e \in Nat /\ w \in Nat /\ e <= LastPoll
      BY <1>3, <1>4, <2>2
    <3>. HIDE DEF e, w
    <3>. QED
      BY <1>1, <3>1, <3>2 DEF PageTyped, PageRecord
  <2>. QED
    BY <2>1, <2>2
<1>. QED
  BY <1>5, <1>6, <1>7
LEMMA PageStepTyped ==
  ASSUME Typed, NEW d \in Dispatches, PageStep(d)
  PROVE  Typed'
<1>0. /\ Jobs(job) /\ PageTyped(page)
      /\ RestTyped(load, trace, run, hooked, restarts, resumed)
  BY TypedParts
<1>. DEFINE p == Poll(d)
<1>1. d \in Ids /\ p \in Ids /\ p # d /\ p.kind = "poll" /\ d.kind = "dispatch"
  BY MarkFacts
<1>. HIDE DEF p
<1>2. /\ job[d] \in JobRecord /\ RightTarget(d, job[d]) /\ job[p] \in JobRecord /\ RightTarget(p, job[p])
  BY <1>0, <1>1 DEF Jobs
<1>3. CASE Responded(d)
  <2>1. [job[d] EXCEPT !.seen = "responded"] \in JobRecord /\ RightTarget(d, [job[d] EXCEPT !.seen = "responded"])
    BY <1>2 DEF JobRecord, Seen, RightTarget
  <2>2. Jobs(job')
    BY <1>0, <1>1, <1>3, <2>1, OneJob DEF Responded
  <2>4. First \in Nat /\ Base \in Nat /\ MaxWait \in Nat
    BY BoundsAssumption
  <2>5. page' = [traces |-> {d}, pc |-> "wait", elapsed |-> First, delay |-> Base, result |-> None]
    BY <1>3 DEF Responded, NoPage
  <2>6. First <= LastPoll
    BY <2>4 DEF LastPoll
  <2>3. PageTyped(page')
    BY <2>4, <2>5, <2>6 DEF PageTyped, PageRecord
  <2>. QED
    BY <1>3, <2>2, <2>3, TypedParts DEF Responded
<1>4. CASE Ask(d)
  <2>1. Start(p, "row", "query") \in JobRecord /\ RightTarget(p, Start(p, "row", "query"))
    BY <1>1, StartRight DEF Phases, Stages
  <2>2. Jobs(job')
    BY <1>0, <1>1, <1>4, <2>1, OneJob DEF Ask, p
  <2>3. PageTyped(page')
    BY <1>0, <1>4 DEF Ask, PageTyped, PageRecord
  <2>. QED
    BY <1>4, <2>2, <2>3, TypedParts DEF Ask
<1>5. CASE FindRow(d)
  <2>. DEFINE w == ToWebBatchStatus(trace[d])
  <2>. DEFINE j == [Start(p, "answered", None) EXCEPT !.seen = w]
  <2>1. w \in Seen
    BY DEF ToWebBatchStatus, Seen, Status
  <2>2. Start(p, "answered", None) \in JobRecord /\ Start(p, "answered", None).stage = None
    BY StartTyped DEF Phases, Stages
  <2>3. job' = [job EXCEPT ![p] = j] \/ job' = [job EXCEPT ![p] = [job[p] EXCEPT !.pc = "read"]]
    BY <1>5 DEF FindRow, p
  <2>. HIDE DEF w
  <2>4. j \in JobRecord /\ RightTarget(p, j)
    BY <1>1, <2>1, <2>2 DEF JobRecord, RightTarget
  <2>5. [job[p] EXCEPT !.pc = "read"] \in JobRecord /\ RightTarget(p, [job[p] EXCEPT !.pc = "read"])
    BY <1>1, <1>2, PhaseTyped DEF Phases
  <2>. HIDE DEF j
  <2>6. Jobs(job')
    BY <1>0, <1>1, <2>3, <2>4, <2>5, OneJob
  <2>. QED
    BY <1>5, <2>6, TypedParts DEF FindRow
<1>6. CASE Receive(d)
  <2>1. Fresh \in JobRecord /\ RightTarget(p, Fresh)
    <3>1. "new" \in Phases /\ None \in Stages
      BY DEF Phases, Stages
    <3>. QED
      BY <1>1, <3>1, StartTyped DEF RightTarget
  <2>2. Jobs(job')
    BY <1>0, <1>1, <1>6, <2>1, OneJob DEF Receive, p
  <2>3. PageTyped(page')
    BY <1>0, <1>6, PolledTyped DEF Receive
  <2>. QED
    BY <1>6, <2>2, <2>3, TypedParts DEF Receive
<1>. QED
  BY <1>3, <1>4, <1>5, <1>6 DEF PageStep

LEMMA RestartTyped ==
  ASSUME Typed, Restart
  PROVE  Typed'
<1>0. /\ Jobs(job) /\ PageTyped(page) /\ FlagsTyped(clash, stale)
      /\ RestTyped(load, trace, run, hooked, restarts, resumed)
  BY TypedParts
<1>1. \A i \in Ids : /\ Fresh \in JobRecord /\ RightTarget(i, Fresh)
                     /\ Start(i, "lost", None) \in JobRecord /\ RightTarget(i, Start(i, "lost", None))
  BY StartTyped DEF Phases, Stages, RightTarget, Fresh, None
<1>2. Jobs(job')
  BY <1>0, <1>1 DEF Restart, Jobs
<1>3. MaxRestarts \in Nat
  BY BoundsAssumption
<1>4. RestTyped(load', trace', run', hooked', restarts', resumed')
  BY <1>0, <1>3 DEF Restart, RestTyped
<1>5. PageTyped(page')
  BY <1>0 DEF Restart, PageTyped, PageRecord
<1>6. FlagsTyped(clash', stale')
  BY <1>0 DEF Restart, FlagsTyped
<1>. QED
  BY <1>2, <1>4, <1>5, <1>6, TypedParts DEF Restart

LEMMA TypedStep == Typed /\ [Next]_vars => Typed'
<1>. SUFFICES ASSUME Typed, [Next]_vars PROVE Typed'
  OBVIOUS
<1>1. CASE UNCHANGED vars
  BY <1>1, TypedParts DEF vars
<1>2. CASE Next
  BY <1>2, ArriveTyped, StepTyped, HandleTyped, RunTyped, PageStepTyped, RestartTyped DEF Next
<1>. QED
  BY <1>1, <1>2

\* The types of the specification: in particular no poll of the page fires
\* after the total wait.
THEOREM TypesHold == Spec => []TypeOK
<1>1. Typed => TypeOK
  BY DEF Typed
<1>. QED
  BY InitTyped, TypedStep, <1>1, PTL DEF Spec

-----------------------------------------------------------------------------
(* Promoted versions *)

\* What is in the file, or about to be, is coherent.
Fitting == ~stale => Coherent(file.data) /\ \A i \in Ids : Coherent(job[i].next)

LEMMA GotFitting ==
  ASSUME Typed, NEW i \in Ids, NEW s \in Snapshot, Coherent(s), Coherent(job[i].next), ~Stale(i, s)
  PROVE  Coherent(Got(i, s).next)
<1>1. job[i] \in JobRecord /\ RightTarget(i, job[i])
  BY TypedParts DEF Jobs
<1>2. Coherent(Default)
  BY DefaultSound
<1>3. \A pc \in {"refused", "answered", "done"} :
        Start(i, pc, None) \in JobRecord /\ Start(i, pc, None).next = Default
  BY StartTyped DEF Phases, Stages
<1>4. CASE job[i].stage = "peek"
  <2>1. Got(i, s) = Peeked(i, s)
    BY <1>4 DEF Got
  <2>. QED
    BY <1>1, <1>2, <1>3, <2>1 DEF Peeked, JobRecord
<1>5. CASE job[i].stage = "update"
  <2>1. Got(i, s) = Computed(i, s)
    BY <1>5 DEF Got
  <2>2. Computed(i, s).next = Updated(s, i, job[i].old)
    BY <1>1 DEF Computed, JobRecord
  <2>3. Coherent(Updated(s, i, job[i].old))
    BY <1>1, <1>5, UpdatedSound DEF Stale, JobRecord, RightTarget
  <2>. QED
    BY <2>1, <2>2, <2>3
<1>6. CASE job[i].stage \notin {"peek", "update"}
  <2>1. Got(i, s) = Queried(i, s)
    BY <1>6 DEF Got
  <2>. QED
    BY <1>2, <1>3, <2>1 DEF Queried, JobRecord
<1>. QED
  BY <1>4, <1>5, <1>6

\* The next snapshot of a job changes only where it reads the file.
NextKept == UNCHANGED <<file, stale>> /\ \A i \in Ids : job'[i].next = job[i].next \/ job'[i].next = Default

LEMMA NextKeptFits ==
  ASSUME Typed, Fitting, NextKept
  PROVE  Fitting'
BY DefaultSound DEF Fitting, NextKept

LEMMA OthersKeepNext ==
  ASSUME Typed,
         \/ \E r \in Requests : Arrive(r)
         \/ \E d \in Dispatches : Handle(d) \/ RunStep(d) \/ PageStep(d)
         \/ Restart
  PROVE  NextKept
<1>0. Jobs(job)
  BY TypedParts
<1>1. \A i : Fresh.next = Default /\ (\A pc, stage : Start(i, pc, stage).next = Default)
  BY DEF Fresh, Start
<1>2. ASSUME NEW i \in Ids
      PROVE  job[i] \in JobRecord
  BY <1>0 DEF Jobs
<1>3. CASE \E r \in Requests : Arrive(r)
  <2>1. PICK r \in Requests : Arrive(r)
    BY <1>3
  <2>. QED
    BY <1>0, <1>1, <2>1 DEF Arrive, NextKept, Jobs, JobRecord
<1>4. ASSUME NEW d \in Dispatches, Handle(d)
      PROVE  NextKept
  <2>. USE <1>0, <1>1, MarkFacts DEF NextKept, Jobs, JobRecord
  <2>1. CASE Spawn(d)
    BY <2>1 DEF Spawn
  <2>2. CASE CannotSpawn(d)
    BY <2>2 DEF CannotSpawn
  <2>3. CASE Marked(d)
    BY <2>3 DEF Marked
  <2>4. CASE ExitEvent(d)
    BY <2>4 DEF ExitEvent
  <2>5. CASE Select(d)
    BY <2>5 DEF Select
  <2>6. CASE MarkRow(d)
    BY <2>6 DEF MarkRow
  <2>. QED
    BY <1>4, <2>1, <2>2, <2>3, <2>4, <2>5, <2>6 DEF Handle
<1>5. ASSUME NEW d \in Dispatches, RunStep(d)
      PROVE  NextKept
  BY <1>5 DEF RunStep, RunStarts, RunEnds, RunExits, RunDies, Resume, NextKept
<1>6. ASSUME NEW d \in Dispatches, PageStep(d)
      PROVE  NextKept
  <2>. USE <1>0, <1>1, MarkFacts DEF NextKept, Jobs, JobRecord
  <2>1. CASE Responded(d)
    BY <2>1 DEF Responded
  <2>2. CASE Ask(d)
    BY <2>2 DEF Ask
  <2>3. CASE FindRow(d)
    <3>1. Start(Poll(d), "answered", None) \in JobRecord
      BY StartTyped DEF Phases, Stages
    <3>2. \A v : [Start(Poll(d), "answered", None) EXCEPT !.seen = v].next = Default
      BY <3>1
    <3>3. job' = [job EXCEPT ![Poll(d)].pc = "read"]
          \/ \E v : job' = [job EXCEPT ![Poll(d)] = [Start(Poll(d), "answered", None) EXCEPT !.seen = v]]
      BY <2>3 DEF FindRow
    <3>4. CASE job' = [job EXCEPT ![Poll(d)].pc = "read"]
      BY <2>3, <3>4 DEF FindRow
    <3>5. ASSUME NEW v, job' = [job EXCEPT ![Poll(d)] = [Start(Poll(d), "answered", None) EXCEPT !.seen = v]]
          PROVE  NextKept
      <4>. DEFINE rec == [Start(Poll(d), "answered", None) EXCEPT !.seen = v]
      <4>2. rec.next = Default
        BY <3>2
      <4>. HIDE DEF rec
      <4>3. job' = [job EXCEPT ![Poll(d)] = rec]
        BY <3>5 DEF rec
      <4>4. \A i \in Ids : job'[i].next = job[i].next \/ job'[i].next = Default
        BY <4>2, <4>3
      <4>5. UNCHANGED <<file, stale>>
        BY <2>3 DEF FindRow
      <4>. QED
        BY <4>4, <4>5
    <3>. QED
      BY <3>3, <3>4, <3>5
  <2>4. CASE Receive(d)
    BY <2>4 DEF Receive
  <2>. QED
    BY <1>6, <2>1, <2>2, <2>3, <2>4 DEF PageStep
<1>7. CASE Restart
  BY <1>0, <1>1, <1>7 DEF Restart, NextKept, Jobs
<1>. QED
  BY <1>3, <1>4, <1>5, <1>6, <1>7
LEMMA StepFits ==
  ASSUME Typed, Fitting, NEW i \in Ids, Step(i)
  PROVE  Fitting'
<1>. SUFFICES ASSUME ~stale'
              PROVE  Coherent(file'.data) /\ \A k \in Ids : Coherent(job'[k].next)
  BY DEF Fitting
<1>1. Coherent(Default) /\ Default \in Snapshot
  BY DefaultSound
<1>2. job \in [Ids -> JobRecord] /\ file.data \in Snapshot /\ FlagsTyped(clash, stale)
  BY TypedParts DEF Jobs, FileTyped, FileRecord
<1>3. CASE Read(i)
  <2>1. ~stale /\ (file.state = "whole" => ~Stale(i, file.data)) /\ file' = file
    BY <1>2, <1>3 DEF Read
  <2>2. Coherent(file.data) /\ \A k \in Ids : Coherent(job[k].next)
    BY <2>1 DEF Fitting
  <2>3. CASE file.state = "whole"
    <3>1. job' = [job EXCEPT ![i] = Got(i, file.data)]
      BY <1>3, <2>3 DEF Read
    <3>2. Coherent(Got(i, file.data).next)
      BY <1>2, <2>1, <2>2, <2>3, GotFitting
    <3>. QED
      BY <1>2, <2>1, <2>2, <3>1, <3>2
  <2>4. CASE file.state # "whole"
    <3>1. job' = [job EXCEPT ![i].pc = "reset"]
      BY <1>3, <2>4 DEF Read
    <3>2. \A k \in Ids : job'[k].next = job[k].next
      BY <1>2, <3>1 DEF JobRecord
    <3>. QED
      BY <2>1, <2>2, <3>2
  <2>. QED
    BY <2>3, <2>4
<1>4. CASE Truncate(i)
  <2>1. ~stale /\ file'.data = Default /\ \A k \in Ids : job'[k].next = job[k].next
    BY <1>2, <1>4 DEF Truncate, Torn, JobRecord
  <2>. QED
    BY <1>1, <2>1 DEF Fitting
<1>5. CASE Fill(i)
  <2>1. ~stale
    BY <1>2, <1>5 DEF Fill
  <2>2. Coherent(file.data) /\ \A k \in Ids : Coherent(job[k].next)
    BY <2>1 DEF Fitting
  <2>3. \A s : \A f \in Fills(s) : f.data = s \/ f.data = Default
    BY DEF Fills, Whole, Torn
  <2>4. CASE At(i, "fill") /\ job' = [job EXCEPT ![i] = Filled(i)] /\ file' \in Fills(job[i].next)
    <3>1. Filled(i).next = Default
      BY StartTyped DEF Filled, Phases, Stages
    <3>. QED
      BY <1>1, <1>2, <2>2, <2>3, <2>4, <3>1
  <2>5. CASE /\ At(i, "resetFill") /\ job' = [job EXCEPT ![i] = Got(i, Default)] /\ file' \in Fills(Default)
             /\ stale' = (stale \/ Stale(i, Default))
    <3>1. Coherent(Got(i, Default).next)
      BY <1>1, <1>2, <2>2, <2>5, GotFitting
    <3>. QED
      BY <1>1, <1>2, <2>2, <2>3, <2>5, <3>1
  <2>. QED
    BY <1>5, <2>4, <2>5 DEF Fill
<1>. QED
  BY <1>3, <1>4, <1>5 DEF Step

\* A promoted row is the active version of its cluster, whatever the requests
\* do and however they overlap, until a rollback demotes a version that is no
\* longer the active one.
THEOREM PromotedRowsAreActive == Spec => []PromotedIsActive
<1>1. Init => Typed /\ Fitting
  <2>1. Init => Fitting
    BY DefaultSound DEF Init, Fitting, Whole, Fresh
  <2>. QED
    BY <2>1, InitTyped
<1>2. Typed /\ Fitting /\ [Next]_vars => (Typed /\ Fitting)'
  <2>. SUFFICES ASSUME Typed, Fitting, [Next]_vars PROVE Fitting'
    BY TypedStep
  <2>1. CASE UNCHANGED vars
    BY <2>1 DEF vars, Fitting
  <2>2. ASSUME NEW i \in Ids, Step(i)
        PROVE  Fitting'
    BY <2>2, StepFits
  <2>3. CASE ~(\E i \in Ids : Step(i)) /\ Next
    BY <2>3, OthersKeepNext, NextKeptFits DEF Next
  <2>. QED
    BY <2>1, <2>2, <2>3
<1>3. Typed /\ Fitting => PromotedIsActive
  <2>. SUFFICES ASSUME Typed, Fitting, ~stale, NEW i \in DOMAIN file.data.rows, file.data.rows[i].status = "promoted"
                PROVE  file.data.rows[i].id = ActiveId(file.data, file.data.rows[i].id[1])
    BY DEF PromotedIsActive
  <2>1. file.data.rows \in Seq(Row)
    BY TypedParts DEF FileTyped, FileRecord, Snapshot
  <2>2. file.data.rows[i] \in Row
    BY <2>1
  <2>3. file.data.rows[i].id \in Version
    BY <2>2 DEF Row, Version
  <2>. QED
    BY <2>3 DEF Fitting, Coherent, RowFits, ActiveId, Version
<1>. QED
  BY <1>1, <1>2, <1>3, PTL DEF Spec
-----------------------------------------------------------------------------
(* The life of a dispatched run *)

LEMMA MarkInjective ==
  ASSUME NEW d \in Dispatches, NEW e \in Dispatches, d # e
  PROVE  Mark(d) # Mark(e) /\ Mark(d) # e /\ Mark(d) # Poll(e)
<1>1. \A x \in Dispatches : /\ x \in [kind : Kinds, group : Groups, target : Groups \X (Nat \ {0}), serial : Nat]
                            /\ x.kind = "dispatch"
  BY RequestsAssumption DEF Dispatches
<1>2. \A x \in Dispatches : Batch(Mark(x)) = x
  BY <1>1 DEF Batch, Mark
<1>3. Mark(d) # Mark(e)
  BY <1>2
<1>. QED
  BY <1>3, MarkFacts

Early == {"new", "read", "reset", "resetFill", "truncate", "fill", "spawn"}

\* The failure handler of a dispatch starts once: where its run cannot be
\* spawned, or where the exit of the run is heard of.  Unless an operator has
\* resumed it, a run is over when the handler looks at its row, and a row that
\* the handler is to overwrite is a success only if the query for it failed.
Life(d) ==
  /\ job[d].pc \in Early => job[Mark(d)].pc = "new" /\ run[d] = None /\ d \notin hooked
  /\ d \in hooked => job[Mark(d)].pc = "new"
  /\ run[d] = None => trace[d] = None
  /\ d \notin resumed =>
       /\ run[d] \in {"live", "working"} => trace[d] # "SUCCESS"
       /\ job[Mark(d)].pc \in {"select", "mark"} => run[d] \in {None, "ended", "failed"}
       /\ job[Mark(d)].pc = "mark" => job[Mark(d)].seen = "error" \/ trace[d] # "SUCCESS"
Lives == \A d \in Dispatches : Life(d)

Same(d) == /\ UNCHANGED <<job[d], job[Mark(d)], run[d], trace[d]>>
           /\ d \in hooked' <=> d \in hooked
           /\ d \in resumed' <=> d \in resumed

LEMMA SameLife ==
  ASSUME NEW d \in Dispatches, Life(d), Same(d)
  PROVE  Life(d)'
BY DEF Life, Same

LEMMA InitLives == Init => Lives
BY MarkFacts DEF Init, Lives, Life, Fresh, None

\* The steps on the file move a job on from the phases that it has reached.
LEMMA StepLives ==
  ASSUME Typed, Lives, NEW i \in Ids, Step(i)
  PROVE  Lives'
<1>. SUFFICES ASSUME NEW d \in Dispatches PROVE Life(d)'
  BY DEF Lives
<1>0. job \in [Ids -> JobRecord] /\ UNCHANGED <<run, trace, hooked, resumed>> /\ Life(d)
  BY TypedParts DEF Jobs, Step, Read, Truncate, Fill, Lives
<1>1. d \in Ids /\ Mark(d) \in Ids /\ Mark(d) # d /\ Mark(d).kind = "mark"
  BY MarkFacts
<1>2. job[i].pc \in {"read", "reset", "resetFill", "truncate", "fill"}
  BY DEF Step, Read, Truncate, Fill, At
<1>3. \A k \in Ids : k # i => job'[k] = job[k]
  BY <1>0 DEF Step, Read, Truncate, Fill
<1>4. CASE i = d
  <2>1. job'[Mark(d)] = job[Mark(d)]
    BY <1>1, <1>3, <1>4
  <2>2. job[d].pc \in Early
    BY <1>2, <1>4 DEF Early
  <2>. QED
    BY <1>0, <2>1, <2>2 DEF Life
<1>5. CASE i = Mark(d)
  <2>1. job'[d] = job[d]
    BY <1>1, <1>3, <1>5
  <2>2. job[d].pc \notin Early /\ d \notin hooked
    BY <1>0, <1>2, <1>5 DEF Life
  <2>3. job'[Mark(d)].pc \notin {"select", "mark"}
    <3>1. \A s : Got(i, s).pc \in {"read", "truncate", "refused", "answered", "done"}
      <4>1. \A v : /\ Start(i, "refused", None).pc = "refused" /\ Start(i, "done", None).pc = "done"
                   /\ [Start(i, "answered", None) EXCEPT !.seen = v].pc = "answered"
        BY StartTyped DEF Phases, Stages, JobRecord
      <4>2. \A v, w : /\ [job[i] EXCEPT !.pc = "read", !.stage = "update", !.old = v].pc = "read"
                      /\ [job[i] EXCEPT !.pc = "truncate", !.next = w].pc = "truncate"
        BY <1>0 DEF JobRecord
      <4>3. \A s : Peeked(i, s).pc \in {"read", "refused"}
        BY <4>1, <4>2 DEF Peeked
      <4>4. \A s : Computed(i, s).pc = "truncate"
        BY <4>2 DEF Computed
      <4>5. \A s : Queried(i, s).pc \in {"answered", "done"}
        BY <4>1 DEF Queried
      <4>. QED
        BY <4>3, <4>4, <4>5 DEF Got
    <3>2. Filled(i).pc \in {"spawn", "done"}
      BY StartTyped DEF Filled, Phases, Stages
    <3>3. \A pc : [job[i] EXCEPT !.pc = pc].pc = pc
      BY <1>0 DEF JobRecord
    <3>4. \/ \E s : job' = [job EXCEPT ![i] = Got(i, s)]
          \/ job' = [job EXCEPT ![i] = Filled(i)]
          \/ \E pc \in {"reset", "fill", "resetFill"} : job' = [job EXCEPT ![i] = [job[i] EXCEPT !.pc = pc]]
      BY DEF Step, Read, Truncate, Fill
    <3>5. \/ \E s : job'[i] = Got(i, s)
          \/ job'[i] = Filled(i)
          \/ \E pc \in {"reset", "fill", "resetFill"} : job'[i] = [job[i] EXCEPT !.pc = pc]
      BY <1>0, <3>4
    <3>. QED
      BY <1>5, <3>1, <3>2, <3>3, <3>5
  <2>. QED
    BY <1>0, <2>1, <2>2, <2>3 DEF Life
<1>6. CASE i # d /\ i # Mark(d)
  BY <1>0, <1>1, <1>3, <1>6, SameLife DEF Same
<1>. QED
  BY <1>4, <1>5, <1>6

LEMMA ArriveLives ==
  ASSUME Typed, Lives, NEW r \in Requests, Arrive(r)
  PROVE  Lives'
<1>. SUFFICES ASSUME NEW d \in Dispatches PROVE Life(d)'
  BY DEF Lives
<1>0. job \in [Ids -> JobRecord] /\ UNCHANGED <<run, trace, hooked, resumed>> /\ Life(d)
  BY TypedParts DEF Jobs, Arrive, Lives
<1>1. d \in Ids /\ Mark(d) \in Ids /\ Mark(d).kind = "mark"
  BY MarkFacts
<1>2. r \in Ids /\ r # Mark(d)
  BY <1>1, RequestsAssumption DEF Ids, Kinds
<1>3. job[r].pc = "new" /\ \A k \in Ids : k # r => job'[k] = job[k]
  BY <1>0 DEF Arrive, At
<1>4. CASE r = d
  BY <1>0, <1>1, <1>2, <1>3, <1>4 DEF Life, Early
<1>5. CASE r # d
  BY <1>0, <1>1, <1>2, <1>3, <1>5, SameLife DEF Same
<1>. QED
  BY <1>4, <1>5

LEMMA HandleLives ==
  ASSUME Typed, Lives, NEW e \in Dispatches, Handle(e)
  PROVE  Lives'
<1>. SUFFICES ASSUME NEW d \in Dispatches PROVE Life(d)'
  BY DEF Lives
<1>0. job \in [Ids -> JobRecord] /\ Life(d) /\ RestTyped(load, trace, run, hooked, restarts, resumed)
  BY TypedParts DEF Jobs, Lives
<1>. DEFINE m == Mark(e)
<1>1. e \in Ids /\ m \in Ids /\ m # e /\ d \in Ids /\ Mark(d) \in Ids
  BY MarkFacts
<1>2. \A k \in Ids : k \notin {e, m} => job'[k] = job[k]
  BY <1>0 DEF Handle, Spawn, CannotSpawn, Marked, ExitEvent, Select, MarkRow
<1>3. CASE d # e
  <2>1. job'[d] = job[d] /\ job'[Mark(d)] = job[Mark(d)]
    BY <1>1, <1>2, <1>3, MarkInjective
  <2>2. run'[d] = run[d] /\ trace'[d] = trace[d] /\ (d \in hooked' <=> d \in hooked) /\ resumed' = resumed
    BY <1>0, <1>3 DEF Handle, Spawn, CannotSpawn, Marked, ExitEvent, Select, MarkRow, RestTyped
  <2>. QED
    BY <1>0, <2>1, <2>2, SameLife DEF Same
<1>4. CASE d = e
  <2>. USE <1>0, <1>1, <1>4
  <2>. HIDE DEF m
  <2>0. Start(m, "mark", "update").pc = "mark" /\ Start(m, "mark", "update").seen = None
        /\ Start(m, "select", "update").pc = "select" /\ m = Mark(d)
    BY StartTyped DEF Phases, Stages, m
  <2>1. CASE Spawn(e)
    <3>1. job[d].pc = "spawn" /\ job'[d].pc = "done" /\ job'[m] = job[m]
      BY <2>1 DEF Spawn, At, JobRecord
    <3>2. run'[d] = "live" /\ trace' = trace /\ resumed' = resumed
      BY <2>1 DEF Spawn, RestTyped
    <3>. QED
      BY <2>0, <3>1, <3>2 DEF Life, Early, None
  <2>2. CASE CannotSpawn(e)
    <3>1. job[d].pc = "spawn" /\ job'[d].pc \in {"marking", "done"} /\ job'[m] = Start(m, "mark", "update")
      BY <2>2 DEF CannotSpawn, At, JobRecord, m
    <3>2. UNCHANGED <<run, trace, hooked, resumed>>
      BY <2>2 DEF CannotSpawn
    <3>. QED
      BY <2>0, <3>1, <3>2 DEF Life, Early, None
  <2>3. CASE Marked(e)
    <3>1. job'[d].pc = "done" /\ job'[m] = job[m]
      BY <2>3 DEF Marked, JobRecord
    <3>2. UNCHANGED <<run, trace, hooked, resumed>>
      BY <2>3 DEF Marked
    <3>. QED
      BY <2>0, <3>1, <3>2 DEF Life, Early
  <2>4. CASE ExitEvent(e)
    <3>1. job'[d] = job[d] /\ job'[m] = Start(m, "select", "update")
      BY <2>4 DEF ExitEvent, m
    <3>2. d \in hooked /\ d \notin hooked' /\ run[d] = "failed" /\ UNCHANGED <<run, trace, resumed>>
      BY <2>4 DEF ExitEvent
    <3>. QED
      BY <2>0, <3>1, <3>2 DEF Life, None
  <2>5. CASE Select(e)
    <3>1. PICK seen \in {trace[d], "error"} :
            job' = [job EXCEPT ![m].pc = IF Terminal(seen) THEN "done" ELSE "mark", ![m].seen = seen]
      BY <2>5 DEF Select, m
    <3>2. /\ job'[d] = job[d] /\ job[m].pc = "select"
          /\ job'[m].seen = seen /\ job'[m].pc = IF Terminal(seen) THEN "done" ELSE "mark"
      BY <2>5, <3>1 DEF Select, At, JobRecord, m
    <3>3. UNCHANGED <<run, trace, hooked, resumed>>
      BY <2>5 DEF Select
    <3>. QED
      BY <2>0, <3>1, <3>2, <3>3 DEF Life, Terminal
  <2>6. CASE MarkRow(e)
    <3>1. job'[d] = job[d] /\ job[m].pc = "mark" /\ job'[m].pc = "read"
      BY <2>6 DEF MarkRow, At, JobRecord, m
    <3>2. /\ UNCHANGED <<run, hooked, resumed>>
          /\ trace'[d] = trace[d] \/ trace'[d] = IF trace[d] = None THEN None ELSE "FAILED"
      BY <2>6 DEF MarkRow, RestTyped
    <3>. QED
      BY <2>0, <3>1, <3>2 DEF Life
  <2>. QED
    BY <2>1, <2>2, <2>3, <2>4, <2>5, <2>6 DEF Handle
<1>. QED
  BY <1>3, <1>4


LEMMA RunLives ==
  ASSUME Typed, Lives, NEW e \in Dispatches, RunStep(e)
  PROVE  Lives'
<1>. SUFFICES ASSUME NEW d \in Dispatches PROVE Life(d)'
  BY DEF Lives
<1>0. job' = job /\ Life(d) /\ RestTyped(load, trace, run, hooked, restarts, resumed)
  BY TypedParts DEF Lives, RunStep, RunStarts, RunEnds, RunExits, RunDies, Resume
<1>1. CASE d # e
  <2>1. run'[d] = run[d] /\ trace'[d] = trace[d] /\ (d \in hooked' <=> d \in hooked)
        /\ (d \in resumed' <=> d \in resumed)
    BY <1>0, <1>1 DEF RunStep, RunStarts, RunEnds, RunExits, RunDies, Resume, RestTyped
  <2>. QED
    BY <1>0, <2>1, SameLife DEF Same
<1>2. CASE d = e
  <2>1. CASE RunStarts(e)
    <3>1. run[d] = "live" /\ run'[d] = "working" /\ trace'[d] = "PENDING" /\ UNCHANGED <<hooked, resumed>>
      BY <1>0, <1>2, <2>1 DEF RunStarts, RestTyped
    <3>. QED
      BY <1>0, <3>1 DEF Life, None
  <2>2. CASE RunEnds(e)
    <3>1. /\ run[d] = "working" /\ run'[d] \in {"reporting", "failed"} /\ trace'[d] # None
          /\ UNCHANGED <<hooked, resumed>>
      BY <1>0, <1>2, <2>2 DEF RunEnds, RestTyped, None
    <3>. QED
      BY <1>0, <3>1 DEF Life, None
  <2>3. CASE RunExits(e)
    <3>1. run[d] = "reporting" /\ run'[d] \in {"ended", "failed"} /\ UNCHANGED <<trace, hooked, resumed>>
      BY <1>0, <1>2, <2>3 DEF RunExits, RestTyped
    <3>. QED
      BY <1>0, <3>1 DEF Life, None
  <2>4. CASE RunDies(e)
    <3>1. run[d] \in {"live", "working"} /\ run'[d] = "failed" /\ UNCHANGED <<trace, hooked, resumed>>
      BY <1>0, <1>2, <2>4 DEF RunDies, RestTyped
    <3>. QED
      BY <1>0, <3>1 DEF Life, None
  <2>5. CASE Resume(e)
    <3>1. /\ run[d] \in {"ended", "failed"} /\ run'[d] = "live" /\ trace' = trace
          /\ d \in resumed' /\ d \notin hooked'
      BY <1>0, <1>2, <2>5 DEF Resume, RestTyped
    <3>. QED
      BY <1>0, <3>1 DEF Life, None
  <2>. QED
    BY <2>1, <2>2, <2>3, <2>4, <2>5 DEF RunStep
<1>. QED
  BY <1>1, <1>2

LEMMA PageLives ==
  ASSUME Typed, Lives, NEW e \in Dispatches, PageStep(e)
  PROVE  Lives'
<1>. SUFFICES ASSUME NEW d \in Dispatches PROVE Life(d)'
  BY DEF Lives
<1>0. job \in [Ids -> JobRecord] /\ UNCHANGED <<run, trace, hooked, resumed>> /\ Life(d)
  BY TypedParts DEF Jobs, PageStep, Responded, Ask, FindRow, Receive, Lives
<1>1. /\ d \in Ids /\ Mark(d) \in Ids /\ Mark(d) # e
      /\ d # Poll(e) /\ Mark(d) # Poll(e)
  BY MarkFacts
<1>2. CASE Responded(e)
  <2>1. job'[Mark(d)] = job[Mark(d)] /\ job'[d].pc = job[d].pc
    BY <1>0, <1>1, <1>2 DEF Responded, JobRecord
  <2>. QED
    BY <1>0, <2>1 DEF Life
<1>3. CASE ~Responded(e)
  <2>1. \A k \in Ids : k # Poll(e) => job'[k] = job[k]
    BY <1>0, <1>3 DEF PageStep, Ask, FindRow, Receive
  <2>. QED
    BY <1>0, <1>1, <2>1, SameLife DEF Same
<1>. QED
  BY <1>2, <1>3

LEMMA RestartLives ==
  ASSUME Typed, Lives, Restart
  PROVE  Lives'
<1>. SUFFICES ASSUME NEW d \in Dispatches PROVE Life(d)'
  BY DEF Lives
<1>0. UNCHANGED <<run, trace, resumed>> /\ hooked' = {} /\ Life(d)
  BY DEF Restart, Lives
<1>1. d \in Ids /\ Mark(d) \in Ids /\ Mark(d).kind = "mark" /\ d.kind = "dispatch"
  BY MarkFacts
<1>2. Start(d, "lost", None).pc = "lost" /\ Start(Mark(d), "lost", None).pc = "lost"
  BY StartTyped DEF Phases, Stages
<1>3. /\ job'[d] = IF Rests(d) THEN job[d] ELSE Start(d, "lost", None)
      /\ job'[Mark(d)] = IF Rests(Mark(d)) THEN job[Mark(d)] ELSE Start(Mark(d), "lost", None)
  BY <1>1 DEF Restart
<1>4. job'[d].pc \in Early => job[d].pc \in Early
  BY <1>2, <1>3 DEF Early
<1>5. job[Mark(d)].pc = "new" => job'[Mark(d)].pc = "new"
  BY <1>3 DEF Rests
<1>6. job'[Mark(d)].pc \notin {"select", "mark"}
  BY <1>2, <1>3 DEF Rests
<1>. QED
  BY <1>0, <1>4, <1>5, <1>6 DEF Life

LEMMA LivesStep == Typed /\ Lives /\ [Next]_vars => Lives'
<1>. SUFFICES ASSUME Typed, Lives, [Next]_vars PROVE Lives'
  OBVIOUS
<1>1. CASE UNCHANGED vars
  BY <1>1, SameLife DEF vars, Lives, Same
<1>2. CASE Next
  BY <1>2, ArriveLives, StepLives, HandleLives, RunLives, PageLives, RestartLives DEF Next
<1>. QED
  BY <1>1, <1>2

\* What takes the success of a run away.
LEMMA SuccessLost ==
  ASSUME Typed, Lives, Next, NEW d \in Dispatches, trace[d] = "SUCCESS", trace'[d] # "SUCCESS"
  PROVE  job[Mark(d)].seen = "error" \/ d \in resumed
<1>0. Life(d) /\ trace \in [Dispatches -> Status]
  BY TypedParts DEF Lives, RestTyped
<1>1. PICK e \in Dispatches : RunStarts(e) \/ RunEnds(e) \/ MarkRow(e)
  BY DEF Next, Arrive, Step, Read, Truncate, Fill, Handle, Spawn, CannotSpawn, Marked, ExitEvent, Select,
         RunStep, RunExits, RunDies, Resume, PageStep, Responded, Ask, FindRow, Receive, Restart
<1>2. e = d
  BY <1>0, <1>1 DEF RunStarts, RunEnds, MarkRow
<1>3. run[d] \in {"live", "working"} \/ job[Mark(d)].pc = "mark"
  BY <1>1, <1>2 DEF RunStarts, RunEnds, MarkRow, At
<1>. QED
  BY <1>0, <1>3 DEF Life

\* The success of a run stays, unless the query of the failure handler failed
\* or an operator has resumed the run.
THEOREM SuccessIsKept == Spec => SuccessKept
<1>1. Init => Typed /\ Lives
  BY InitTyped, InitLives
<1>2. Typed /\ Lives /\ [Next]_vars => (Typed /\ Lives)'
  BY TypedStep, LivesStep
<1>3. Typed /\ Lives /\ [Next]_vars =>
        [\A d \in Dispatches :
           trace[d] = "SUCCESS" /\ trace'[d] # "SUCCESS" => job[Mark(d)].seen = "error" \/ d \in resumed]_vars
  BY SuccessLost
<1>. QED
  BY <1>1, <1>2, <1>3, PTL DEF Spec, SuccessKept

-----------------------------------------------------------------------------
(* Acknowledged changes *)

\* Without a clash one request at a time is between its read and its write,
\* what it is about to write holds every acknowledged change, and only its own
\* truncation leaves the file without a snapshot.
HoldsAll(s) == \A a \in Ids : Acknowledged(a) => a \in s.holds
OneAtATime == \A i, k \in Ids : InWindow(i) /\ InWindow(k) => i = k
WindowFits(i) == /\ job[i].pc \notin {"reset", "resetFill"}
                 /\ HoldsAll(job[i].next) /\ i \in job[i].next.holds
                 /\ job[i].pc = "truncate" => file.state = "whole"
                 /\ job[i].pc = "fill" => file.state = "empty"
Serial == /\ OneAtATime
          /\ \A i \in Ids : InWindow(i) => WindowFits(i)
          /\ file.state = "whole" => HoldsAll(file.data)
          /\ file.state # "whole" => \E i \in Ids : InWindow(i)
Kept == ~clash => Serial

LEMMA InitKept == Init => Kept
<1>1. ASSUME Init, NEW i \in Ids
      PROVE  ~InWindow(i) /\ ~Acknowledged(i)
  BY <1>1 DEF Init, InWindow, Acknowledged, Fresh
<1>2. Init => file.state = "whole"
  BY DEF Init, Whole
<1>. QED
  BY <1>1, <1>2 DEF Kept, Serial, OneAtATime, HoldsAll

\* What the other actions do to the requests that count.
Calm == /\ UNCHANGED <<file, clash>>
        /\ \A i \in Ids : InWindow(i) \/ InWindow(i)' => job'[i] = job[i]
        /\ \A i \in Ids : Acknowledged(i)' => Acknowledged(i)

LEMMA CalmKept ==
  ASSUME Kept, Calm
  PROVE  Kept'
<1>. SUFFICES ASSUME ~clash PROVE Serial'
  BY DEF Kept, Calm
<1>1. Serial /\ file' = file
  BY DEF Kept, Calm
<1>2. ASSUME NEW i \in Ids
      PROVE  /\ InWindow(i)' <=> InWindow(i)
             /\ InWindow(i)' => job'[i] = job[i]
  BY DEF Calm, InWindow
<1>3. ASSUME NEW s, HoldsAll(s)
      PROVE  \A a \in Ids : Acknowledged(a)' => a \in s.holds
  BY <1>3 DEF Calm, HoldsAll
<1>4. OneAtATime'
  BY <1>1, <1>2 DEF Serial, OneAtATime
<1>5. ASSUME NEW i \in Ids, InWindow(i)'
      PROVE  WindowFits(i)'
  <2>1. WindowFits(i) /\ job'[i] = job[i]
    BY <1>1, <1>2, <1>5 DEF Serial
  <2>2. \A a \in Ids : Acknowledged(a)' => a \in job[i].next.holds
    BY <1>3, <2>1 DEF WindowFits
  <2>. QED
    BY <1>1, <2>1, <2>2 DEF WindowFits, HoldsAll
<1>6. (file.state = "whole" => HoldsAll(file.data))'
  BY <1>1, <1>3 DEF Serial, HoldsAll
<1>7. (file.state # "whole" => \E i \in Ids : InWindow(i))'
  BY <1>1, <1>2 DEF Serial
<1>. QED
  BY <1>4, <1>5, <1>6, <1>7 DEF Serial

\* One job moves between phases in which it neither writes nor counts.
Outside == Phases \ {"reset", "resetFill", "truncate", "fill"}
Counts(i, j) == Writes(i) /\ j.pc \in {"spawn", "marking", "done"} /\ ~Terminal(j.seen)

LEMMA OneCalm ==
  ASSUME Typed, NEW i \in Ids, NEW j, job' = [job EXCEPT ![i] = j], UNCHANGED <<file, clash>>,
         job[i].pc \in Outside, j.pc \in Outside, Counts(i, j) => Counts(i, job[i])
  PROVE  Calm
<1>1. job \in [Ids -> JobRecord]
  BY TypedParts DEF Jobs
<1>2. job'[i] = j /\ \A k \in Ids : k # i => job'[k] = job[k]
  BY <1>1
<1>3. ASSUME NEW k \in Ids
      PROVE  (InWindow(k) \/ InWindow(k)' => job'[k] = job[k]) /\ (Acknowledged(k)' => Acknowledged(k))
  BY <1>2 DEF InWindow, Acknowledged, Counts, Outside
<1>. QED
  BY <1>3 DEF Calm

LEMMA HandleCalm ==
  ASSUME Typed, Lives, NEW d \in Dispatches, Handle(d)
  PROVE  Calm
<1>. DEFINE m == Mark(d)
<1>1. d \in Ids /\ m \in Ids /\ m # d /\ m.kind = "mark" /\ d.kind = "dispatch"
  BY MarkFacts
<1>. HIDE DEF m
<1>2. job \in [Ids -> JobRecord] /\ job[d] \in JobRecord /\ job[m] \in JobRecord
  BY <1>1, TypedParts DEF Jobs
<1>0. Start(m, "mark", "update").pc = "mark" /\ Start(m, "select", "update").pc = "select"
  BY StartTyped DEF Phases, Stages
<1>3. UNCHANGED <<file, clash>>
  BY DEF Handle, Spawn, CannotSpawn, Marked, ExitEvent, Select, MarkRow
<1>4. CASE Spawn(d)
  <2>1. job' = [job EXCEPT ![d] = [job[d] EXCEPT !.pc = "done"]] /\ job[d].pc = "spawn"
    BY <1>4 DEF Spawn, At
  <2>. QED
    BY <1>1, <1>2, <1>3, <2>1, OneCalm DEF Outside, Phases, Counts, JobRecord
<1>5. CASE CannotSpawn(d)
  <2>1. PICK pc \in {"marking", "done"} :
          job' = [job EXCEPT ![d].pc = pc, ![m] = Start(m, "mark", "update")]
    BY <1>5 DEF CannotSpawn, m
  <2>2. /\ job'[m].pc = "mark" /\ job'[d] = [job[d] EXCEPT !.pc = pc]
        /\ \A k \in Ids : k \notin {d, m} => job'[k] = job[k]
    BY <1>0, <1>1, <1>2, <2>1
  <2>3. job[d].pc = "spawn" /\ job[m].pc = "new"
    BY <1>5 DEF CannotSpawn, At, Lives, Life, Early, m
  <2>4. ~InWindow(d) /\ ~InWindow(d)' /\ (Acknowledged(d)' => Acknowledged(d))
    BY <1>2, <2>1, <2>2, <2>3 DEF InWindow, Acknowledged, JobRecord
  <2>5. ~InWindow(m) /\ ~InWindow(m)' /\ ~Acknowledged(m)'
    BY <2>2, <2>3 DEF InWindow, Acknowledged
  <2>6. ASSUME NEW k \in Ids, k \notin {d, m}
        PROVE  (InWindow(k) \/ InWindow(k)' => job'[k] = job[k]) /\ (Acknowledged(k)' => Acknowledged(k))
    BY <2>2, <2>6 DEF InWindow, Acknowledged
  <2>. QED
    BY <1>3, <2>4, <2>5, <2>6 DEF Calm
<1>6. CASE Marked(d)
  <2>1. job' = [job EXCEPT ![d] = [job[d] EXCEPT !.pc = "done"]] /\ job[d].pc = "marking"
    BY <1>6 DEF Marked, At
  <2>. QED
    BY <1>1, <1>2, <1>3, <2>1, OneCalm DEF Outside, Phases, Counts, JobRecord
<1>7. CASE ExitEvent(d)
  <2>1. job' = [job EXCEPT ![m] = Start(m, "select", "update")] /\ job[m].pc = "new"
    BY <1>7 DEF ExitEvent, Lives, Life, m
  <2>. QED
    BY <1>0, <1>1, <1>2, <1>3, <2>1, OneCalm DEF Outside, Phases, Counts
<1>8. CASE Select(d)
  <2>1. PICK seen \in {trace[d], "error"} :
          job' = [job EXCEPT ![m].pc = IF Terminal(seen) THEN "done" ELSE "mark", ![m].seen = seen]
    BY <1>8 DEF Select, m
  <2>. DEFINE j == [job[m] EXCEPT !.pc = IF Terminal(seen) THEN "done" ELSE "mark", !.seen = seen]
  <2>2. job' = [job EXCEPT ![m] = j] /\ job[m].pc = "select"
    BY <1>1, <1>2, <1>8, <2>1 DEF Select, At, m
  <2>3. j.pc = (IF Terminal(seen) THEN "done" ELSE "mark") /\ j.seen = seen
    BY <1>2 DEF JobRecord
  <2>. HIDE DEF j
  <2>4. j.pc \in Outside /\ ~Counts(m, j) /\ job[m].pc \in Outside
    BY <2>2, <2>3 DEF Outside, Phases, Counts
  <2>. QED
    BY <1>1, <1>3, <2>2, <2>4, OneCalm
<1>9. CASE MarkRow(d)
  <2>1. job' = [job EXCEPT ![m] = [job[m] EXCEPT !.pc = "read"]] /\ job[m].pc = "mark"
    BY <1>9 DEF MarkRow, At, m
  <2>. QED
    BY <1>1, <1>2, <1>3, <2>1, OneCalm DEF Outside, Phases, Counts, JobRecord
<1>. QED
  BY <1>4, <1>5, <1>6, <1>7, <1>8, <1>9 DEF Handle

LEMMA ArriveCalm ==
  ASSUME Typed, NEW r \in Requests, Arrive(r)
  PROVE  Calm
<1>1. r \in Ids /\ UNCHANGED <<file, clash>> /\ job[r].pc = "new"
  BY DEF Ids, Arrive, At
<1>2. PICK stage \in {"peek", "query", "update"} : job' = [job EXCEPT ![r] = Start(r, "read", stage)]
  BY DEF Arrive
<1>3. Start(r, "read", stage).pc = "read"
  BY StartTyped DEF Phases, Stages
<1>. QED
  BY <1>1, <1>2, <1>3, OneCalm DEF Outside, Phases, Counts

LEMMA PageCalm ==
  ASSUME Typed, NEW d \in Dispatches, PageStep(d)
  PROVE  Calm
<1>. DEFINE p == Poll(d)
<1>1. d \in Ids /\ p \in Ids /\ p.kind = "poll"
  BY MarkFacts
<1>. HIDE DEF p
<1>2. job \in [Ids -> JobRecord] /\ job[d] \in JobRecord /\ job[p] \in JobRecord
  BY <1>1, TypedParts DEF Jobs
<1>3. UNCHANGED <<file, clash>>
  BY DEF PageStep, Responded, Ask, FindRow, Receive
<1>4. ASSUME NEW j, job' = [job EXCEPT ![p] = j], job[p].pc \in Outside, j.pc \in Outside
      PROVE  Calm
  BY <1>1, <1>3, <1>4, OneCalm DEF Counts, Writes
<1>5. CASE Responded(d)
  <2>1. /\ job' = [job EXCEPT ![d] = [job[d] EXCEPT !.seen = "responded"]]
        /\ job[d].pc = "done" /\ job[d].seen = None
    BY <1>5 DEF Responded, At
  <2>. QED
    BY <1>1, <1>2, <1>3, <2>1, OneCalm DEF Outside, Phases, Counts, JobRecord, Terminal, None
<1>6. CASE Ask(d)
  <2>1. job' = [job EXCEPT ![p] = Start(p, "row", "query")] /\ job[p].pc = "new"
    BY <1>6 DEF Ask, At, p
  <2>2. Start(p, "row", "query").pc = "row"
    BY StartTyped DEF Phases, Stages
  <2>. QED
    BY <1>4, <2>1, <2>2 DEF Outside, Phases
<1>7. CASE FindRow(d)
  <2>. DEFINE j == [Start(p, "answered", None) EXCEPT !.seen = ToWebBatchStatus(trace[d])]
  <2>1. /\ job[p].pc = "row"
        /\ job' = [job EXCEPT ![p] = j] \/ job' = [job EXCEPT ![p] = [job[p] EXCEPT !.pc = "read"]]
    BY <1>7 DEF FindRow, At, p
  <2>2. Start(p, "answered", None).pc = "answered" /\ Start(p, "answered", None) \in JobRecord
    BY StartTyped DEF Phases, Stages
  <2>3. j.pc = "answered" /\ [job[p] EXCEPT !.pc = "read"].pc = "read"
    BY <1>2, <2>2 DEF JobRecord
  <2>. HIDE DEF j
  <2>. QED
    BY <1>4, <2>1, <2>3 DEF Outside, Phases
<1>8. CASE Receive(d)
  <2>1. job' = [job EXCEPT ![p] = Fresh] /\ job[p].pc = "answered" /\ Fresh.pc = "new"
    BY <1>8 DEF Receive, At, p, Fresh
  <2>. QED
    BY <1>4, <2>1 DEF Outside, Phases
<1>. QED
  BY <1>5, <1>6, <1>7, <1>8 DEF PageStep

LEMMA RunCalm ==
  ASSUME NEW d \in Dispatches, RunStep(d)
  PROVE  Calm
<1>1. UNCHANGED <<file, clash, job>>
  BY DEF RunStep, RunStarts, RunEnds, RunExits, RunDies, Resume
<1>. QED
  BY <1>1 DEF Calm, Acknowledged

\* A request that writes gets to its answer through an update only.
OnCourse(i, j) == Writes(i) /\ j.pc \in {"read", "reset", "resetFill", "select", "mark"} => j.stage \in {"peek", "update"}
OnCourses == \A i \in Ids : OnCourse(i, job[i])

LEMMA InitOnCourse == Init => OnCourses
BY DEF Init, OnCourses, OnCourse, Fresh

LEMMA StartOnCourse ==
  ASSUME NEW i \in Ids, NEW pc \in Phases, NEW stage \in Stages, Writes(i) => stage \in {"peek", "update"}
  PROVE  OnCourse(i, Start(i, pc, stage))
BY StartTyped DEF OnCourse

LEMMA StepOnCourse ==
  ASSUME Typed, OnCourses, NEW i \in Ids, Step(i)
  PROVE  OnCourses'
<1>1. job \in [Ids -> JobRecord] /\ job[i] \in JobRecord /\ OnCourse(i, job[i])
  BY TypedParts DEF Jobs, OnCourses
<1>2. ASSUME NEW s
      PROVE  OnCourse(i, Got(i, s))
  <2>1. OnCourse(i, Start(i, "refused", None)) /\ OnCourse(i, Start(i, "done", None))
    BY StartTyped DEF OnCourse, Phases, Stages
  <2>2. \A v : OnCourse(i, [Start(i, "answered", None) EXCEPT !.seen = v])
    BY StartTyped DEF OnCourse, Phases, Stages, JobRecord
  <2>3. \A v, w : /\ OnCourse(i, [job[i] EXCEPT !.pc = "read", !.stage = "update", !.old = v])
                  /\ OnCourse(i, [job[i] EXCEPT !.pc = "truncate", !.next = w])
    BY <1>1 DEF OnCourse, JobRecord
  <2>4. OnCourse(i, Peeked(i, s)) /\ OnCourse(i, Computed(i, s)) /\ OnCourse(i, Queried(i, s))
    BY <2>1, <2>2, <2>3 DEF Peeked, Computed, Queried
  <2>. QED
    BY <2>4 DEF Got
<1>3. OnCourse(i, Filled(i))
  BY StartTyped DEF OnCourse, Filled, Phases, Stages
<1>4. job[i].pc \in {"read", "reset", "resetFill"} =>
        \A pc \in {"reset", "fill", "resetFill"} : OnCourse(i, [job[i] EXCEPT !.pc = pc])
  BY <1>1 DEF OnCourse, JobRecord
<1>5. OnCourse(i, [job[i] EXCEPT !.pc = "fill"])
  BY <1>1 DEF OnCourse, JobRecord
<1>6. \/ \E s : job' = [job EXCEPT ![i] = Got(i, s)]
      \/ job' = [job EXCEPT ![i] = Filled(i)]
      \/ job' = [job EXCEPT ![i] = [job[i] EXCEPT !.pc = "fill"]]
      \/ /\ job[i].pc \in {"read", "reset", "resetFill"}
         /\ \E pc \in {"reset", "fill", "resetFill"} : job' = [job EXCEPT ![i] = [job[i] EXCEPT !.pc = pc]]
  BY DEF Step, Read, Truncate, Fill, At
<1>7. OnCourse(i, job'[i]) /\ \A k \in Ids : k # i => job'[k] = job[k]
  BY <1>1, <1>2, <1>3, <1>4, <1>5, <1>6
<1>. QED
  BY <1>7 DEF OnCourses

LEMMA OneOnCourse ==
  ASSUME Typed, OnCourses, NEW i \in Ids, NEW j, job' = [job EXCEPT ![i] = j], OnCourse(i, j)
  PROVE  OnCourses'
BY TypedParts DEF Jobs, OnCourses

LEMMA HandleOnCourse ==
  ASSUME Typed, OnCourses, NEW d \in Dispatches, Handle(d)
  PROVE  OnCourses'
<1>. DEFINE m == Mark(d)
<1>1. d \in Ids /\ m \in Ids /\ m # d
  BY MarkFacts
<1>. HIDE DEF m
<1>2. job \in [Ids -> JobRecord] /\ job[d] \in JobRecord /\ job[m] \in JobRecord /\ OnCourse(m, job[m])
  BY <1>1, TypedParts DEF Jobs, OnCourses
<1>3. \A pc \in {"mark", "select"} : OnCourse(m, Start(m, pc, "update"))
  BY <1>1, StartOnCourse DEF Phases, Stages
<1>4. \A pc \in {"marking", "done"} : OnCourse(d, [job[d] EXCEPT !.pc = pc])
  BY <1>2 DEF OnCourse, JobRecord
<1>5. CASE Spawn(d) \/ Marked(d)
  <2>1. job' = [job EXCEPT ![d] = [job[d] EXCEPT !.pc = "done"]]
    BY <1>5 DEF Spawn, Marked
  <2>. QED
    BY <1>1, <1>4, <2>1, OneOnCourse
<1>6. CASE CannotSpawn(d)
  <2>1. PICK pc \in {"marking", "done"} :
          job' = [job EXCEPT ![d].pc = pc, ![m] = Start(m, "mark", "update")]
    BY <1>6 DEF CannotSpawn, m
  <2>2. /\ job'[d] = [job[d] EXCEPT !.pc = pc] /\ job'[m] = Start(m, "mark", "update")
        /\ \A k \in Ids : k \notin {d, m} => job'[k] = job[k]
    BY <1>1, <1>2, <2>1
  <2>. QED
    BY <1>3, <1>4, <2>2 DEF OnCourses
<1>7. CASE ExitEvent(d)
  BY <1>1, <1>3, <1>7, OneOnCourse DEF ExitEvent, m
<1>8. CASE Select(d)
  <2>1. PICK seen \in {trace[d], "error"} :
          job' = [job EXCEPT ![m].pc = IF Terminal(seen) THEN "done" ELSE "mark", ![m].seen = seen]
    BY <1>8 DEF Select, m
  <2>. DEFINE j == [job[m] EXCEPT !.pc = IF Terminal(seen) THEN "done" ELSE "mark", !.seen = seen]
  <2>2. job' = [job EXCEPT ![m] = j] /\ job[m].pc = "select"
    BY <1>1, <1>2, <1>8, <2>1 DEF Select, At, m
  <2>3. OnCourse(m, j)
    BY <1>2, <2>2 DEF OnCourse, JobRecord
  <2>. HIDE DEF j
  <2>. QED
    BY <1>1, <2>2, <2>3, OneOnCourse
<1>9. CASE MarkRow(d)
  <2>1. job' = [job EXCEPT ![m] = [job[m] EXCEPT !.pc = "read"]] /\ job[m].pc = "mark"
    BY <1>9 DEF MarkRow, At, m
  <2>2. OnCourse(m, [job[m] EXCEPT !.pc = "read"])
    BY <1>2, <2>1 DEF OnCourse, JobRecord
  <2>. QED
    BY <1>1, <2>1, <2>2, OneOnCourse
<1>. QED
  BY <1>5, <1>6, <1>7, <1>8, <1>9 DEF Handle

LEMMA OtherOnCourse ==
  ASSUME Typed, OnCourses
  PROVE  /\ \A r \in Requests : Arrive(r) => OnCourses'
         /\ \A d \in Dispatches : RunStep(d) \/ PageStep(d) => OnCourses'
         /\ Restart => OnCourses'
<1>0. job \in [Ids -> JobRecord]
  BY TypedParts DEF Jobs
<1>1. ASSUME NEW r \in Requests, Arrive(r)
      PROVE  OnCourses'
  <2>. DEFINE stage == CASE r.kind = "rollback" -> "peek" [] r.kind = "list" -> "query" [] OTHER -> "update"
  <2>1. r \in Ids /\ job' = [job EXCEPT ![r] = Start(r, "read", stage)]
    BY <1>1 DEF Arrive, Ids
  <2>2. stage \in Stages /\ (Writes(r) => stage \in {"peek", "update"})
    BY DEF Stages, Writes
  <2>. HIDE DEF stage
  <2>3. OnCourse(r, Start(r, "read", stage))
    BY <2>1, <2>2, StartOnCourse DEF Phases
  <2>. QED
    BY <2>1, <2>3, OneOnCourse
<1>2. ASSUME NEW d \in Dispatches, RunStep(d)
      PROVE  OnCourses'
  BY <1>2 DEF RunStep, RunStarts, RunEnds, RunExits, RunDies, Resume, OnCourses
<1>3. ASSUME NEW d \in Dispatches, PageStep(d)
      PROVE  OnCourses'
  <2>1. d \in Ids /\ Poll(d) \in Ids /\ Poll(d).kind = "poll"
    BY MarkFacts
  <2>2. \A j : OnCourse(Poll(d), j)
    BY <2>1 DEF OnCourse, Writes
  <2>3. CASE Responded(d)
    <3>1. job' = [job EXCEPT ![d] = [job[d] EXCEPT !.seen = "responded"]] /\ job[d] \in JobRecord
      BY <1>0, <2>1, <2>3 DEF Responded
    <3>2. OnCourse(d, [job[d] EXCEPT !.seen = "responded"])
      BY <2>1, <3>1 DEF OnCourse, OnCourses, JobRecord
    <3>. QED
      BY <2>1, <3>1, <3>2, OneOnCourse
  <2>4. CASE ~Responded(d)
    <3>1. PICK j : job' = [job EXCEPT ![Poll(d)] = j]
      BY <1>3, <2>4 DEF PageStep, Ask, FindRow, Receive
    <3>. QED
      BY <2>1, <2>2, <3>1, OneOnCourse
  <2>. QED
    BY <2>3, <2>4
<1>4. ASSUME Restart, NEW i \in Ids
      PROVE  OnCourse(i, job'[i])
  <2>1. OnCourse(i, Start(i, "lost", None)) /\ OnCourse(i, Fresh) /\ OnCourse(i, job[i])
    BY StartTyped DEF OnCourse, OnCourses, Fresh, Phases, Stages
  <2>. QED
    BY <1>4, <2>1 DEF Restart
<1>. QED
  BY <1>1, <1>2, <1>3, <1>4 DEF OnCourses

LEMMA OnCoursesStep == Typed /\ OnCourses /\ [Next]_vars => OnCourses'
<1>. SUFFICES ASSUME Typed, OnCourses, [Next]_vars PROVE OnCourses'
  OBVIOUS
<1>1. CASE UNCHANGED vars
  BY <1>1 DEF vars, OnCourses
<1>2. CASE Next
  BY <1>2, StepOnCourse, HandleOnCourse, OtherOnCourse DEF Next
<1>. QED
  BY <1>1, <1>2

LEMMA RestartKept ==
  ASSUME Typed, Kept, Restart
  PROVE  Kept'
<1>. SUFFICES ASSUME ~clash' PROVE Serial'
  BY DEF Kept
<1>1. file' = file /\ file.state = "whole" /\ HoldsAll(file.data)
  BY DEF Restart, Kept, Serial, FlagsTyped
<1>2. ASSUME NEW i \in Ids
      PROVE  ~InWindow(i)' /\ (Acknowledged(i)' => Acknowledged(i))
  <2>1. Start(i, "lost", None).pc = "lost" /\ Fresh.pc = "new"
    BY StartTyped DEF Phases, Stages, Fresh
  <2>2. job'[i] = IF Rests(i) THEN job[i] ELSE IF i.kind = "poll" THEN Fresh ELSE Start(i, "lost", None)
    BY DEF Restart
  <2>. QED
    BY <2>1, <2>2 DEF InWindow, Acknowledged, Rests
<1>. QED
  BY <1>1, <1>2 DEF Serial, OneAtATime, HoldsAll

\* Outside its window a job changes: nothing is written, nothing acknowledged.
LEMMA QuietKept ==
  ASSUME Typed, ~clash, Serial, NEW i \in Ids, NEW j, job' = [job EXCEPT ![i] = j], file' = file,
         ~InWindow(i), j.pc \in Outside, ~Counts(i, j)
  PROVE  Serial'
<1>1. job \in [Ids -> JobRecord]
  BY TypedParts DEF Jobs
<1>2. job'[i] = j /\ \A k \in Ids : k # i => job'[k] = job[k]
  BY <1>1
<1>3. ASSUME NEW k \in Ids
      PROVE  /\ InWindow(k)' <=> InWindow(k)
             /\ InWindow(k) => job'[k] = job[k]
             /\ Acknowledged(k)' => Acknowledged(k)
  BY <1>2 DEF InWindow, Acknowledged, Counts, Outside
<1>4. ASSUME NEW s, HoldsAll(s)
      PROVE  \A a \in Ids : Acknowledged(a)' => a \in s.holds
  BY <1>3, <1>4 DEF HoldsAll
<1>5. OneAtATime'
  BY <1>3 DEF Serial, OneAtATime
<1>6. ASSUME NEW k \in Ids, InWindow(k)'
      PROVE  WindowFits(k)'
  <2>1. WindowFits(k) /\ job'[k] = job[k]
    BY <1>3, <1>6 DEF Serial
  <2>2. \A a \in Ids : Acknowledged(a)' => a \in job[k].next.holds
    BY <1>4, <2>1 DEF WindowFits
  <2>. QED
    BY <2>1, <2>2 DEF WindowFits, HoldsAll
<1>7. (file.state = "whole" => HoldsAll(file.data))'
  BY <1>4 DEF Serial, HoldsAll
<1>8. (file.state # "whole" => \E k \in Ids : InWindow(k))'
  BY <1>3 DEF Serial
<1>. QED
  BY <1>5, <1>6, <1>7, <1>8 DEF Serial

LEMMA ReadKept ==
  ASSUME Typed, Kept, OnCourses, NEW i \in Ids, Read(i)
  PROVE  Kept'
<1>. SUFFICES ASSUME ~clash' PROVE Serial'
  BY DEF Kept
<1>1. /\ job[i].pc = "read" /\ file' = file /\ ~clash
      /\ \A k \in Ids \ {i} : InWindow(k) => job[i].stage # "update" /\ file.state = "whole"
  BY DEF Read, At
<1>2. Serial /\ ~InWindow(i)
  BY <1>1 DEF Kept, InWindow
<1>3. file.state = "whole"
  BY <1>1, <1>2 DEF Serial
<1>4. job' = [job EXCEPT ![i] = Got(i, file.data)]
  BY <1>3 DEF Read
<1>5. job \in [Ids -> JobRecord] /\ job[i] \in JobRecord /\ file.data \in Snapshot /\ RightTarget(i, job[i])
  BY TypedParts DEF Jobs, FileTyped, FileRecord
<1>6. CASE job[i].stage = "update"
  <2>. DEFINE u == Updated(file.data, i, job[i].old)
  <2>. DEFINE j == [job[i] EXCEPT !.pc = "truncate", !.next = u]
  <2>1. u.holds = file.data.holds \cup {i}
    BY <1>5, <1>6, UpdatedSound DEF JobRecord, RightTarget
  <2>2. job' = [job EXCEPT ![i] = j]
    BY <1>4, <1>6 DEF Got, Computed
  <2>. HIDE DEF u
  <2>3. j.pc = "truncate" /\ j.next = u
    BY <1>5 DEF JobRecord
  <2>. HIDE DEF j
  <2>4. job'[i] = j /\ \A k \in Ids : k # i => job'[k] = job[k]
    BY <1>5, <2>2
  <2>5. InWindow(i)' /\ ~Acknowledged(i)' /\ \A k \in Ids : k # i => ~InWindow(k)'
    BY <1>1, <1>6, <2>3, <2>4 DEF InWindow, Acknowledged
  <2>6. \A k \in Ids : Acknowledged(k)' => Acknowledged(k)
    BY <2>4, <2>5 DEF Acknowledged
  <2>7. \A a \in Ids : Acknowledged(a)' => a \in file.data.holds
    BY <1>2, <1>3, <2>6 DEF Serial, HoldsAll
  <2>8. WindowFits(i)'
    BY <1>1, <1>3, <2>1, <2>3, <2>4, <2>7 DEF WindowFits, HoldsAll
  <2>. QED
    BY <1>1, <1>3, <2>5, <2>7, <2>8 DEF Serial, OneAtATime, HoldsAll
<1>7. CASE job[i].stage # "update"
  <2>1. Got(i, file.data).pc \in {"read", "refused", "answered", "done"}
    <3>1. Start(i, "refused", None).pc = "refused" /\ Start(i, "done", None).pc = "done"
      BY StartTyped DEF Phases, Stages
    <3>2. \A v : [Start(i, "answered", None) EXCEPT !.seen = v].pc = "answered"
      BY StartTyped DEF Phases, Stages, JobRecord
    <3>3. \A v : [job[i] EXCEPT !.pc = "read", !.stage = "update", !.old = v].pc = "read"
      BY <1>5 DEF JobRecord
    <3>4. Peeked(i, file.data).pc \in {"read", "refused"} /\ Queried(i, file.data).pc \in {"answered", "done"}
      BY <3>1, <3>2, <3>3 DEF Peeked, Queried
    <3>. QED
      BY <1>7, <3>4 DEF Got
  <2>2. ~Counts(i, Got(i, file.data))
    <3>1. CASE ~Writes(i)
      BY <3>1 DEF Counts
    <3>2. CASE Writes(i)
      <4>1. job[i].stage = "peek"
        BY <1>1, <1>7, <3>2 DEF OnCourses, OnCourse
      <4>2. Got(i, file.data) = Peeked(i, file.data)
        BY <4>1 DEF Got
      <4>3. Peeked(i, file.data).pc \in {"read", "refused"}
        BY <1>5, StartTyped DEF Peeked, JobRecord, Phases, Stages
      <4>. QED
        BY <4>2, <4>3 DEF Counts
    <3>. QED
      BY <3>1, <3>2
  <2>. QED
    BY <1>1, <1>2, <1>4, <2>1, <2>2, QuietKept DEF Outside, Phases
<1>. QED
  BY <1>6, <1>7

LEMMA WriteKept ==
  ASSUME Typed, Kept, NEW i \in Ids, Truncate(i) \/ Fill(i)
  PROVE  Kept'
<1>. SUFFICES ASSUME ~clash' PROVE Serial'
  BY DEF Kept
<1>1. ~clash /\ Serial /\ InWindow(i)
  BY DEF Truncate, Fill, At, Kept, InWindow
<1>2. WindowFits(i) /\ \A k \in Ids : k # i => ~InWindow(k)
  BY <1>1 DEF Serial, OneAtATime
<1>3. job \in [Ids -> JobRecord] /\ job[i] \in JobRecord
  BY TypedParts DEF Jobs
<1>4. CASE Truncate(i)
  <2>1. /\ job' = [job EXCEPT ![i] = [job[i] EXCEPT !.pc = "fill"]] /\ job[i].pc = "truncate"
        /\ file' = Torn("empty")
    BY <1>2, <1>4 DEF Truncate, At, WindowFits
  <2>2. /\ job'[i].pc = "fill" /\ job'[i].next = job[i].next
        /\ \A k \in Ids : k # i => job'[k] = job[k]
    BY <1>3, <2>1 DEF JobRecord
  <2>3. InWindow(i)' /\ \A k \in Ids : k # i => ~InWindow(k)'
    BY <1>2, <2>2 DEF InWindow
  <2>4. \A k \in Ids : Acknowledged(k)' => Acknowledged(k)
    BY <2>2 DEF Acknowledged
  <2>5. file'.state = "empty"
    BY <2>1 DEF Torn
  <2>6. WindowFits(i)'
    BY <1>2, <2>2, <2>4, <2>5 DEF WindowFits, HoldsAll
  <2>. QED
    BY <2>3, <2>5, <2>6 DEF Serial, OneAtATime
<1>5. CASE Fill(i)
  <2>1. /\ job' = [job EXCEPT ![i] = Filled(i)] /\ job[i].pc = "fill"
        /\ file' \in Fills(job[i].next) /\ file.state = "empty"
    BY <1>2, <1>5 DEF Fill, At, WindowFits
  <2>2. file'.state = "whole" /\ file'.data = job[i].next
    BY <2>1 DEF Fills, Whole
  <2>3. job'[i] = Filled(i) /\ Filled(i).pc \in {"spawn", "done"} /\ \A k \in Ids : k # i => job'[k] = job[k]
    BY <1>3, <2>1, StartTyped DEF Filled, Phases, Stages
  <2>4. \A k \in Ids : ~InWindow(k)'
    BY <1>2, <2>3 DEF InWindow
  <2>5. \A k \in Ids : Acknowledged(k)' => Acknowledged(k) \/ k = i
    BY <2>3 DEF Acknowledged
  <2>6. \A k \in Ids : Acknowledged(k)' => k \in job[i].next.holds
    BY <1>2, <2>5 DEF WindowFits, HoldsAll
  <2>. QED
    BY <2>2, <2>4, <2>6 DEF Serial, OneAtATime, HoldsAll
<1>. QED
  BY <1>4, <1>5

\* While no request reads between the read and the write of another one, and
\* the server does not die within a write, no acknowledged change is lost.
THEOREM AcknowledgedChangesAreKept == Spec => []KeptUnlessClash
<1>1. Init => Typed /\ Lives /\ OnCourses /\ Kept
  BY InitTyped, InitLives, InitOnCourse, InitKept
<1>2. Typed /\ Lives /\ OnCourses /\ Kept /\ [Next]_vars => (Typed /\ Lives /\ OnCourses /\ Kept)'
  <2>. SUFFICES ASSUME Typed, Lives, OnCourses, Kept, [Next]_vars PROVE Kept'
    BY TypedStep, LivesStep, OnCoursesStep
  <2>1. CASE UNCHANGED vars
    BY <2>1, CalmKept DEF vars, Calm, Acknowledged
  <2>2. ASSUME NEW i \in Ids, Step(i)
        PROVE  Kept'
    BY <2>2, ReadKept, WriteKept DEF Step
  <2>3. ASSUME NEW d \in Dispatches, Handle(d) \/ RunStep(d) \/ PageStep(d)
        PROVE  Kept'
    BY <2>3, HandleCalm, RunCalm, PageCalm, CalmKept
  <2>4. ASSUME NEW r \in Requests, Arrive(r)
        PROVE  Kept'
    BY <2>4, ArriveCalm, CalmKept
  <2>. QED
    BY <2>1, <2>2, <2>3, <2>4, RestartKept DEF Next
<1>3. Kept => KeptUnlessClash
  BY DEF Kept, Serial, HoldsAll, KeptUnlessClash
<1>. QED
  BY <1>1, <1>2, <1>3, PTL DEF Spec
=============================================================================
