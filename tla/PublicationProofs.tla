-------------------------- MODULE PublicationProofs --------------------------
(***************************************************************************)
(* Proofs about Publication for any traces, jobs, kinds of jobs and        *)
(* versions: a published day stays published, two active records of a day  *)
(* come from overlapping transactions only, and no failure after the       *)
(* publication takes the success of a trace back, the legacy error path    *)
(* excepted.                                                               *)
(***************************************************************************)
EXTENDS Publication, WellFoundedInduction, TLAPS

-----------------------------------------------------------------------------
(* The completed traces and the versions *)

NoDuplicates(seq) == \A i, k \in DOMAIN seq : seq[i] = seq[k] => i = k

\* Without(t) has the other traces, in their order.
LEMMA WithoutIsRemoval ==
  ASSUME finished \in Seq(Traces), NoDuplicates(finished), NEW t, Successful(t)
  PROVE  /\ Without(t) \in Seq(Traces)
         /\ NoDuplicates(Without(t))
         /\ \A u : (\E k \in DOMAIN Without(t) : Without(t)[k] = u) <=> Successful(u) /\ u # t
<1>. DEFINE i == CHOOSE i \in DOMAIN finished : finished[i] = t
<1>. DEFINE n == Len(finished)
<1>1. i \in 1 .. n /\ finished[i] = t /\ n \in Nat
  BY DEF Successful
<1>. HIDE DEF i
<1>2. /\ SubSeq(finished, 1, i - 1) \in Seq(Traces) /\ Len(SubSeq(finished, 1, i - 1)) = i - 1
      /\ \A k \in 1 .. i - 1 : SubSeq(finished, 1, i - 1)[k] = finished[k]
  BY <1>1
<1>3. /\ SubSeq(finished, i + 1, n) \in Seq(Traces) /\ Len(SubSeq(finished, i + 1, n)) = n - i
      /\ \A k \in 1 .. n - i : SubSeq(finished, i + 1, n)[k] = finished[i + k]
  BY <1>1
<1>4. Without(t) = SubSeq(finished, 1, i - 1) \o SubSeq(finished, i + 1, n)
  BY DEF Without, i
<1>5. /\ Without(t) \in Seq(Traces) /\ DOMAIN Without(t) = 1 .. n - 1
      /\ \A k \in 1 .. n - 1 : Without(t)[k] = IF k < i THEN finished[k] ELSE finished[k + 1]
  <2>. DEFINE a == SubSeq(finished, 1, i - 1)
  <2>. DEFINE b == SubSeq(finished, i + 1, n)
  <2>. HIDE DEF a, b
  <2>1. /\ a \in Seq(Traces) /\ Len(a) = i - 1 /\ b \in Seq(Traces) /\ Len(b) = n - i
        /\ \A k \in 1 .. i - 1 : a[k] = finished[k]
        /\ \A k \in 1 .. n - i : b[k] = finished[i + k]
    BY <1>2, <1>3 DEF a, b
  <2>2. a \o b \in Seq(Traces) /\ DOMAIN (a \o b) = 1 .. n - 1
    BY <1>1, <2>1
  <2>3. ASSUME NEW k \in 1 .. n - 1
        PROVE  (a \o b)[k] = IF k < i THEN finished[k] ELSE finished[k + 1]
    <3>1. CASE k < i
      BY <1>1, <2>1, <3>1
    <3>2. CASE ~(k < i)
      <4>1. k - (i - 1) \in 1 .. n - i /\ i + (k - (i - 1)) = k + 1
        BY <1>1, <3>2
      <4>2. k > Len(a) /\ k \in 1 .. Len(a) + Len(b) /\ k - Len(a) = k - (i - 1)
        BY <1>1, <2>1, <3>2
      <4>3. (a \o b)[k] = b[k - Len(a)]
        BY <2>1, <4>2
      <4>. QED
        BY <2>1, <3>2, <4>1, <4>2, <4>3
    <3>. QED
      BY <3>1, <3>2
  <2>. QED
    BY <1>4, <2>2, <2>3 DEF a, b
<1>6. NoDuplicates(Without(t))
  BY <1>1, <1>5 DEF NoDuplicates
<1>7. ASSUME NEW u, Successful(u), u # t
      PROVE  \E k \in DOMAIN Without(t) : Without(t)[k] = u
  <2>1. PICK k \in 1 .. n : finished[k] = u
    BY <1>1, <1>7 DEF Successful
  <2>2. CASE k < i
    <3>1. k \in 1 .. n - 1 /\ Without(t)[k] = u
      BY <1>1, <1>5, <2>1, <2>2
    <3>. QED
      BY <1>5, <3>1
  <2>3. CASE k > i
    <3>1. k - 1 \in 1 .. n - 1 /\ Without(t)[k - 1] = u
      BY <1>1, <1>5, <2>1, <2>3
    <3>. QED
      BY <1>5, <3>1
  <2>. QED
    BY <1>1, <1>7, <2>1, <2>2, <2>3
<1>8. ASSUME NEW k \in DOMAIN Without(t)
      PROVE  Successful(Without(t)[k]) /\ Without(t)[k] # t
  <2>1. k \in 1 .. n - 1
    BY <1>5
  <2>2. PICK m \in 1 .. n : Without(t)[k] = finished[m] /\ m # i
    <3>1. CASE k < i
      BY <1>1, <1>5, <2>1, <3>1
    <3>2. CASE ~(k < i)
      <4>1. k + 1 \in 1 .. n /\ k + 1 # i
        BY <1>1, <2>1, <3>2
      <4>. QED
        BY <1>5, <2>1, <3>2, <4>1
    <3>. QED
      BY <3>1, <3>2
  <2>. QED
    BY <1>1, <2>2 DEF Successful, NoDuplicates
<1>. QED
  BY <1>5, <1>6, <1>7, <1>8

\* A set of natural numbers has a least one.
LEMMA LeastNumber ==
  ASSUME NEW S \in SUBSET Nat, S # {}
  PROVE  \E m \in S : \A k \in S : m <= k
<1>. DEFINE R == OpToRel(<, Nat)
<1>1. IsWellFoundedOn(R, Nat)
  BY NatLessThanWellFounded
<1>2. \A x, y \in Nat : x < y => <<x, y>> \in R
  BY DEF OpToRel
<1>. HIDE DEF R
<1>3. PICK m \in S : \A k \in S : <<k, m>> \notin R
  BY <1>1, WFMin, Zenon
<1>4. \A k \in S : ~(k < m)
  BY <1>2, <1>3
<1>. QED
  BY <1>4

\* A set of versions has a greatest one.
LEMMA GreatestVersion ==
  ASSUME NEW vs \in SUBSET (1 .. MaxVersion), vs # {}
  PROVE  \E v \in vs : \A w \in vs : v >= w
<1>. DEFINE gaps == {MaxVersion - v : v \in vs}
<1>1. gaps \subseteq Nat /\ gaps # {}
  <2>1. \A v \in vs : MaxVersion - v \in Nat
    BY VersionAssumption
  <2>2. gaps # {}
    <3>1. PICK v \in vs : TRUE
      OBVIOUS
    <3>2. MaxVersion - v \in gaps
      OBVIOUS
    <3>. QED
      BY <3>2
  <2>. QED
    BY <2>1, <2>2
<1>. HIDE DEF gaps
<1>2. PICK g \in gaps : \A h \in gaps : g <= h
  BY <1>1, LeastNumber
<1>. USE DEF gaps
<1>3. PICK v \in vs : g = MaxVersion - v
  BY <1>2
<1>4. \A w \in vs : MaxVersion - v <= MaxVersion - w
  BY <1>2, <1>3
<1>. QED
  BY <1>4, VersionAssumption

\* The newest record of a trace is a committed one of that trace.
LEMMA LatestIsCommitted ==
  ASSUME Committed \subseteq Records, NEW t \in Traces
  PROVE  /\ Latest(t) \in Committed \cup {None}
         /\ Latest(t) # None => Latest(t)[1] = t /\ Latest(t)[2] \in 1 .. MaxVersion
<1>1. CASE Versions(t) = {}
  BY <1>1 DEF Latest
<1>2. CASE Versions(t) # {}
  <2>. DEFINE v == CHOOSE v \in Versions(t) : \A w \in Versions(t) : v >= w
  <2>1. v \in Versions(t)
    BY <1>2, GreatestVersion DEF Versions
  <2>. QED
    BY <1>2, <2>1 DEF Latest, Versions
<1>. QED
  BY <1>1, <1>2

-----------------------------------------------------------------------------
(* The invariant *)

InFlight(j) == job[j].pc \notin {"idle", "done", "failed"}
Publishing(j) == job[j].pc \in {"publish", "insert", "scan", "supersede"}

\* What a job remembers is committed, and what it is creating is not.
JobRemembers(j) ==
  /\ job[j].seen \subseteq Committed
  /\ job[j].locked \subseteq Committed
  /\ job[j].latest \in Committed \cup {None}
  /\ InTransaction(j) => job[j].record \in Records /\ job[j].record[1] = job[j].trace
  /\ Inserted(j) => job[j].record \notin Committed

\* A job that works has a trace: a run its own, which is not SUCCESS before
\* Complete, and which is SUCCESS, or was, when it is published.
JobTrace(j) ==
  /\ InFlight(j) => job[j].trace \in Traces
  /\ InFlight(j) /\ IsRun(j) => job[j].trace = Of[j]
  /\ At(j, "complete") => IsRun(j) /\ ~Successful(Of[j])
  /\ Publishing(j) => Successful(job[j].trace) \/ UndoneByLegacy(job[j].trace)

\* Two runs of one trace do not work at the same time.
RunsAlone == \A i, j \in Jobs : i # j /\ IsRun(i) /\ IsRun(j) /\ Of[i] = Of[j] => ~(InFlight(i) /\ InFlight(j))

\* Two transactions do not insert the same record.
KeysDiffer == \A i, j \in Jobs : i # j /\ Inserted(i) /\ Inserted(j) => job[i].record # job[j].record

\* What a publication could see is committed.
KnownIsCommitted == \A x \in Committed : known[x] \subseteq Committed

Memory == (\A j \in Jobs : JobRemembers(j) /\ JobTrace(j)) /\ RunsAlone /\ KeysDiffer /\ KnownIsCommitted

Inv == TypeOK /\ Memory /\ ChainsEnd /\ DoubleActiveMeansOverlap /\ PublishedSucceeded

\* Nothing is completed or published in the first state.
LEMMA InitInv == Init => Inv
<1>. SUFFICES ASSUME Init PROVE Inv
  OBVIOUS
<1>1. Committed = {} /\ DOMAIN finished = {}
  BY DEF Init, NoRecords, Committed
<1>2. \A j \in Jobs : job[j] = Fresh /\ Fresh.pc = "idle"
  BY DEF Init, Fresh
<1>3. Fresh \in Job
  BY DEF Fresh, Job, JobPc
<1>4. TypeOK
  <2>1. finished \in Seq(Traces) /\ job \in [Jobs -> Job]
    BY <1>3 DEF Init
  <2>2. supersededBy \in [Committed -> Records \cup {None}] /\ known \in [Committed -> SUBSET Records]
    BY DEF Init, NoRecords, Committed
  <2>. QED
    BY <1>1, <2>1, <2>2 DEF TypeOK
<1>5. ASSUME NEW j \in Jobs PROVE JobRemembers(j) /\ JobTrace(j) /\ ~InFlight(j) /\ ~Inserted(j)
  <2>1. /\ Fresh.seen = {} /\ Fresh.locked = {} /\ Fresh.latest = None /\ Fresh.pc = "idle"
    BY DEF Fresh
  <2>. QED
    BY <1>2, <2>1 DEF JobRemembers, JobTrace, InTransaction, Inserted, InFlight, Publishing, At
<1>. QED
  BY <1>1, <1>4, <1>5
  DEF Inv, Memory, RunsAlone, KeysDiffer, KnownIsCommitted, ChainsEnd, DoubleActiveMeansOverlap, PublishedSucceeded

-----------------------------------------------------------------------------
(* Steps of one job that complete and publish nothing *)

\* A job that failed stays so, and with it what a legacy run undid.
LEMMA UndoneStays ==
  ASSUME TypeOK, NEW j \in Jobs, NEW x \in Job, job' = [job EXCEPT ![j] = x], ~At(j, "failed"), NEW u
  PROVE  UndoneByLegacy(u) => UndoneByLegacy(u)'
<1>. SUFFICES ASSUME NEW i \in Jobs, Kind[i] = "legacy", Of[i] = u, At(i, "failed")
              PROVE  UndoneByLegacy(u)'
  BY DEF UndoneByLegacy
<1>1. job'[i] = job[i]
  BY DEF At, TypeOK
<1>. QED
  BY <1>1 DEF UndoneByLegacy, At

\* The job becomes x: what x must be for the invariant to hold.
LEMMA JobStep ==
  ASSUME Inv, NEW j \in Jobs, NEW x \in Job, job' = [job EXCEPT ![j] = x], ~At(j, "failed"),
         UNCHANGED <<finished, supersededBy, known>>,
         JobRemembers(j)', JobTrace(j)',
         x.pc \notin {"idle", "done", "failed"} => InFlight(j) \/ (IsRun(j) => LeaseIsFree(j)),
         x.pc \in {"scan", "supersede"} => x.record = job[j].record /\ (Inserted(j) \/ KeyIsFree(j))
  PROVE  Inv'
<1>1. /\ job' \in [Jobs -> Job] /\ job'[j] = x
      /\ \A i \in Jobs : i # j => job'[i] = job[i]
      /\ Committed' = Committed
  BY DEF Inv, TypeOK, Committed
<1>2. TypeOK'
  BY <1>1 DEF Inv, TypeOK
<1>3. \A u : UndoneByLegacy(u) => UndoneByLegacy(u)'
  BY UndoneStays DEF Inv
<1>4. \A u : Successful(u)' <=> Successful(u)
  BY DEF Successful
<1>5. ASSUME NEW i \in Jobs, i # j PROVE JobRemembers(i)' /\ JobTrace(i)'
  <2>1. JobRemembers(i) /\ JobTrace(i) /\ job'[i] = job[i]
    BY <1>1, <1>5 DEF Inv, Memory
  <2>2. JobRemembers(i)'
    BY <1>1, <2>1 DEF JobRemembers, InTransaction, Inserted
  <2>3. JobTrace(i)'
    BY <1>3, <1>4, <2>1 DEF JobTrace, InFlight, Publishing, At, IsRun
  <2>. QED
    BY <2>2, <2>3
<1>6. RunsAlone'
  <2>1. ASSUME NEW i \in Jobs, i # j, IsRun(i), IsRun(j), Of[i] = Of[j], InFlight(j)', InFlight(i)
        PROVE  FALSE
    BY <1>1, <2>1 DEF Inv, Memory, RunsAlone, InFlight, LeaseIsFree, At, Ended
  <2>. QED
    BY <1>1, <2>1 DEF Inv, Memory, RunsAlone, InFlight, IsRun
<1>7. KeysDiffer'
  <2>1. ASSUME NEW i \in Jobs, i # j, Inserted(i), Inserted(j)'
        PROVE  job[i].record # x.record
    BY <1>1, <2>1 DEF Inv, Memory, KeysDiffer, Inserted, KeyIsFree
  <2>. QED
    BY <1>1, <2>1 DEF Inv, Memory, KeysDiffer, Inserted
<1>8. KnownIsCommitted' /\ ChainsEnd' /\ DoubleActiveMeansOverlap'
  BY <1>1 DEF Inv, Memory, KnownIsCommitted, ChainsEnd, DoubleActiveMeansOverlap
<1>9. PublishedSucceeded'
  BY <1>1, <1>3, <1>4 DEF Inv, PublishedSucceeded
<1>. QED
  BY <1>2, <1>5, <1>6, <1>7, <1>8, <1>9 DEF Inv, Memory

\* Before its transaction a job creates nothing, and it creates nothing after it.
LEMMA OutsideStep ==
  ASSUME Inv, NEW j \in Jobs, NEW x \in Job, job' = [job EXCEPT ![j] = x], ~At(j, "failed"),
         UNCHANGED <<finished, supersededBy, known>>,
         x.seen = job[j].seen, x.locked = job[j].locked, x.latest = job[j].latest,
         x.pc \in {"complete", "publish", "report", "done", "failed"},
         x.pc \in {"complete", "publish", "report"} => x.trace \in Traces /\ (IsRun(j) => x.trace = Of[j]),
         x.pc = "complete" => IsRun(j) /\ ~Successful(Of[j]),
         x.pc = "publish" => Successful(x.trace),
         x.pc \in {"complete", "publish", "report"} => InFlight(j) \/ (IsRun(j) => LeaseIsFree(j))
  PROVE  Inv'
<1>1. job'[j] = x /\ Committed' = Committed
  BY DEF Inv, TypeOK, Committed
<1>2. JobRemembers(j)'
  BY <1>1 DEF Inv, Memory, JobRemembers, InTransaction, Inserted
<1>3. JobTrace(j)'
  BY <1>1 DEF JobTrace, InFlight, Publishing, At, IsRun, Successful
<1>. QED
  BY <1>2, <1>3, JobStep

\* The callers: a run or a publication begins.
LEMMA StartSteps ==
  ASSUME Inv, NEW j \in Jobs, StartRun(j) \/ StartPublishOnly(j) \/ StartForce(j)
  PROVE  Inv'
<1>. job[j] \in Job /\ Of[j] \in Traces /\ ~At(j, "failed") /\ UNCHANGED <<finished, supersededBy, known>>
  BY OfAssumption DEF Inv, TypeOK, StartRun, StartPublishOnly, StartForce, At
<1>1. CASE StartRun(j)
  <2>. DEFINE x == [job[j] EXCEPT !.pc = IF Successful(Of[j]) THEN "done" ELSE "complete", !.trace = Of[j]]
  <2>1. (IF Successful(Of[j]) THEN "done" ELSE "complete") \in JobPc
    BY DEF JobPc
  <2>2. /\ x \in Job /\ x.trace = Of[j] /\ x.pc = IF Successful(Of[j]) THEN "done" ELSE "complete"
        /\ x.seen = job[j].seen /\ x.locked = job[j].locked /\ x.latest = job[j].latest
    BY <2>1 DEF Job
  <2>3. job' = [job EXCEPT ![j] = x]
    BY <1>1 DEF StartRun
  <2>. HIDE DEF x
  <2>. QED
    BY <1>1, <2>2, <2>3, OutsideStep DEF StartRun
<1>2. CASE StartPublishOnly(j) /\ finished = <<>>
  <2>. DEFINE x == [job[j] EXCEPT !.pc = "failed"]
  <2>1. x \in Job /\ x.pc = "failed" /\ x.seen = job[j].seen /\ x.locked = job[j].locked /\ x.latest = job[j].latest
    BY DEF Job, JobPc
  <2>2. job' = [job EXCEPT ![j] = x]
    BY <1>2 DEF StartPublishOnly
  <2>. HIDE DEF x
  <2>. QED
    BY <2>1, <2>2, OutsideStep
<1>3. CASE StartPublishOnly(j) /\ finished # <<>>
  <2>. DEFINE t == finished[Len(finished)]
  <2>. DEFINE x == [job[j] EXCEPT !.pc = "publish", !.trace = t]
  <2>0. finished \in Seq(Traces)
    BY DEF Inv, TypeOK
  <2>1. Len(finished) \in DOMAIN finished /\ t \in Traces
    BY <1>3, <2>0
  <2>2. Successful(t)
    BY <2>1 DEF Successful
  <2>. HIDE DEF t
  <2>3. /\ x \in Job /\ x.pc = "publish" /\ x.trace = t
        /\ x.seen = job[j].seen /\ x.locked = job[j].locked /\ x.latest = job[j].latest
    BY <2>1 DEF Job, JobPc
  <2>4. job' = [job EXCEPT ![j] = x] /\ ~IsRun(j)
    BY <1>3 DEF StartPublishOnly, IsRun, t
  <2>. HIDE DEF x
  <2>. QED
    BY <2>1, <2>2, <2>3, <2>4, OutsideStep
<1>4. CASE StartForce(j)
  <2>. DEFINE x == [job[j] EXCEPT !.pc = "publish", !.trace = Of[j]]
  <2>1. /\ x \in Job /\ x.pc = "publish" /\ x.trace = Of[j]
        /\ x.seen = job[j].seen /\ x.locked = job[j].locked /\ x.latest = job[j].latest
    BY DEF Job, JobPc
  <2>2. job' = [job EXCEPT ![j] = x] /\ ~IsRun(j) /\ Successful(Of[j])
    BY <1>4 DEF StartForce, IsRun
  <2>. HIDE DEF x
  <2>. QED
    BY <2>1, <2>2, OutsideStep
<1>. QED
  BY <1>1, <1>2, <1>3, <1>4

\* publishRecommendation answers with the record that is there, or the run
\* finishes its report.
LEMMA AnswerSteps ==
  ASSUME Inv, NEW j \in Jobs, Reuse(j) \/ Report(j)
  PROVE  Inv'
<1>. job[j] \in Job /\ ~At(j, "failed") /\ InFlight(j) /\ UNCHANGED <<finished, supersededBy, known>>
  BY DEF Inv, TypeOK, Reuse, Report, At, InFlight
<1>. job[j].trace \in Traces /\ (IsRun(j) => job[j].trace = Of[j])
  BY DEF Inv, Memory, JobTrace
<1>1. CASE Reuse(j)
  <2>. DEFINE x == [job[j] EXCEPT !.pc = Answered(j), !.result = Latest(job[j].trace), !.reused = TRUE]
  <2>1. Latest(job[j].trace) \in Records /\ Answered(j) \in {"report", "done"}
    BY <1>1, LatestIsCommitted DEF Reuse, Inv, TypeOK, Answered
  <2>2. /\ x \in Job /\ x.pc \in {"report", "done"} /\ x.trace = job[j].trace
        /\ x.seen = job[j].seen /\ x.locked = job[j].locked /\ x.latest = job[j].latest
    BY <2>1 DEF Job, JobPc
  <2>3. job' = [job EXCEPT ![j] = x]
    BY <1>1 DEF Reuse
  <2>. HIDE DEF x
  <2>. QED
    BY <2>2, <2>3, OutsideStep
<1>2. CASE Report(j)
  <2>. DEFINE x == [job[j] EXCEPT !.pc = "done"]
  <2>1. /\ x \in Job /\ x.pc = "done"
        /\ x.seen = job[j].seen /\ x.locked = job[j].locked /\ x.latest = job[j].latest
    BY DEF Job, JobPc
  <2>2. job' = [job EXCEPT ![j] = x]
    BY <1>2 DEF Report
  <2>. HIDE DEF x
  <2>. QED
    BY <2>1, <2>2, OutsideStep
<1>. QED
  BY <1>1, <1>2

\* The statements of the transaction before its commit.
LEMMA TransactionSteps ==
  ASSUME Inv, NEW j \in Jobs, ReadLatest(j) \/ Insert(j) \/ Scan(j)
  PROVE  Inv'
<1>. /\ job[j] \in Job /\ ~At(j, "failed") /\ InFlight(j) /\ UNCHANGED <<finished, supersededBy, known>>
     /\ Publishing(j)
  BY DEF Inv, TypeOK, ReadLatest, Insert, Scan, At, InFlight, Publishing
<1>. JobRemembers(j) /\ JobTrace(j) /\ job[j].trace \in Traces /\ Committed \subseteq Records /\ Committed' = Committed
  BY DEF Inv, Memory, JobTrace, TypeOK, Committed
<1>0. ASSUME NEW x \in Job, job' = [job EXCEPT ![j] = x], x.trace = job[j].trace,
             x.pc \in {"insert", "scan", "supersede"}
      PROVE  JobTrace(j)'
  <2>1. job'[j] = x
    BY <1>0 DEF Inv, TypeOK
  <2>2. UndoneByLegacy(x.trace) => UndoneByLegacy(x.trace)'
    BY <1>0, UndoneStays DEF Inv
  <2>. QED
    BY <1>0, <2>1, <2>2 DEF JobTrace, InFlight, Publishing, At, IsRun, Successful
<1>1. CASE ReadLatest(j)
  <2>. DEFINE t == job[j].trace
  <2>. DEFINE v == NextVersion(Latest(t))
  <2>. DEFINE x == [job[j] EXCEPT !.pc = "insert", !.latest = Latest(t), !.record = <<t, v>>]
  <2>1. Latest(t) \in Committed \cup {None} /\ v \in 1 .. MaxVersion
    <3>1. v <= MaxVersion
      BY <1>1 DEF ReadLatest
    <3>2. CASE Latest(t) = None
      BY <3>1, <3>2, VersionAssumption DEF NextVersion
    <3>3. CASE Latest(t) # None
      <4>1. Latest(t) \in Committed /\ Latest(t)[2] \in 1 .. MaxVersion
        BY <3>3, LatestIsCommitted
      <4>. QED
        BY <3>1, <3>3, <4>1, VersionAssumption DEF NextVersion
    <3>. QED
      BY <3>2, <3>3
  <2>. HIDE DEF v
  <2>2. <<t, v>> \in Records
    BY <2>1 DEF Records
  <2>3. /\ x \in Job /\ x.pc = "insert" /\ x.latest = Latest(t) /\ x.record = <<t, v>>
        /\ x.seen = job[j].seen /\ x.locked = job[j].locked /\ x.trace = t
    BY <2>1, <2>2 DEF Job, JobPc
  <2>4. job' = [job EXCEPT ![j] = x]
    BY <1>1 DEF ReadLatest, v
  <2>. HIDE DEF x
  <2>5. JobRemembers(j)'
    BY <2>1, <2>2, <2>3, <2>4 DEF JobRemembers, InTransaction, Inserted, Inv, TypeOK
  <2>. QED
    BY <1>0, <2>3, <2>4, <2>5, JobStep
<1>2. CASE Insert(j)
  <2>. DEFINE x == [job[j] EXCEPT !.pc = "scan", !.locked = Previous(j)]
  <2>1. Previous(j) \subseteq Committed
    BY DEF Previous, JobRemembers
  <2>2. /\ x \in Job /\ x.pc = "scan" /\ x.latest = job[j].latest /\ x.record = job[j].record
        /\ x.seen = job[j].seen /\ x.locked = Previous(j) /\ x.trace = job[j].trace
    BY <2>1 DEF Job, JobPc
  <2>3. job' = [job EXCEPT ![j] = x] /\ KeyIsFree(j) /\ job[j].record \notin Committed /\ InTransaction(j)
    BY <1>2 DEF Insert, InTransaction, At
  <2>. HIDE DEF x
  <2>4. JobRemembers(j)'
    BY <2>1, <2>2, <2>3 DEF JobRemembers, InTransaction, Inserted, Inv, TypeOK
  <2>. QED
    BY <1>0, <2>2, <2>3, <2>4, JobStep
<1>3. CASE Scan(j)
  <2>. DEFINE x == [job[j] EXCEPT !.pc = "supersede", !.seen = Committed]
  <2>1. /\ x \in Job /\ x.pc = "supersede" /\ x.latest = job[j].latest /\ x.record = job[j].record
        /\ x.seen = Committed /\ x.locked = job[j].locked /\ x.trace = job[j].trace
    BY DEF Job, JobPc
  <2>2. job' = [job EXCEPT ![j] = x] /\ Inserted(j) /\ InTransaction(j)
    BY <1>3 DEF Scan, InTransaction, Inserted, At
  <2>. HIDE DEF x
  <2>3. JobRemembers(j)'
    BY <2>1, <2>2 DEF JobRemembers, InTransaction, Inserted, Inv, TypeOK
  <2>. QED
    BY <1>0, <2>1, <2>2, <2>3, JobStep
<1>. QED
  BY <1>1, <1>2, <1>3

-----------------------------------------------------------------------------
(* Steps that complete, fail and publish *)

\* What the jobs remember, their traces excepted, when only job j moves, and
\* no transaction opens.
LEMMA MemoryStep ==
  ASSUME Inv, NEW j \in Jobs, NEW x \in Job, job' = [job EXCEPT ![j] = x],
         x.seen \subseteq Committed, x.locked \subseteq Committed, x.latest \in Committed \cup {None},
         x.pc \notin {"insert", "scan", "supersede"},
         x.pc \notin {"idle", "done", "failed"} => InFlight(j),
         UNCHANGED <<supersededBy, known>>
  PROVE  /\ \A i \in Jobs : JobRemembers(i)'
         /\ RunsAlone' /\ KeysDiffer' /\ KnownIsCommitted'
         /\ ChainsEnd' /\ DoubleActiveMeansOverlap'
<1>1. /\ job'[j] = x /\ \A i \in Jobs : i # j => job'[i] = job[i]
      /\ Committed' = Committed
  BY DEF Inv, TypeOK, Committed
<1>2. \A i \in Jobs : JobRemembers(i)'
  BY <1>1 DEF Inv, Memory, JobRemembers, InTransaction, Inserted
<1>3. RunsAlone' /\ KeysDiffer'
  BY <1>1 DEF Inv, Memory, RunsAlone, KeysDiffer, InFlight, Inserted, IsRun
<1>4. KnownIsCommitted' /\ ChainsEnd' /\ DoubleActiveMeansOverlap'
  BY <1>1 DEF Inv, Memory, KnownIsCommitted, ChainsEnd, DoubleActiveMeansOverlap
<1>. QED
  BY <1>2, <1>3, <1>4

\* A trace completes, once.
LEMMA CompleteStep ==
  ASSUME Inv, NEW j \in Jobs, Complete(j)
  PROVE  Inv'
<1>. DEFINE x == [job[j] EXCEPT !.pc = "publish"]
<1>. DEFINE t == job[j].trace
<1>0. job[j] \in Job /\ JobRemembers(j) /\ JobTrace(j) /\ finished \in Seq(Traces) /\ NoDuplicates(finished)
  BY DEF Inv, Memory, TypeOK, NoDuplicates
<1>1. /\ At(j, "complete") /\ InFlight(j) /\ ~At(j, "failed") /\ IsRun(j)
      /\ t \in Traces /\ t = Of[j] /\ ~Successful(t)
  BY <1>0 DEF Complete, At, InFlight, JobTrace
<1>2. /\ x \in Job /\ x.pc = "publish" /\ x.latest = job[j].latest
      /\ x.seen = job[j].seen /\ x.locked = job[j].locked /\ x.trace = t
  BY <1>0 DEF Job, JobPc
<1>3. job' = [job EXCEPT ![j] = x] /\ finished' = Append(finished, t) /\ UNCHANGED <<supersededBy, known>>
  BY DEF Complete
<1>. HIDE DEF x, t
<1>4. /\ finished' \in Seq(Traces)
      /\ DOMAIN finished' = 1 .. Len(finished) + 1 /\ DOMAIN finished = 1 .. Len(finished) /\ Len(finished) \in Nat
      /\ \A k \in 1 .. Len(finished) : finished'[k] = finished[k]
      /\ finished'[Len(finished) + 1] = t
  BY <1>0, <1>1, <1>3
<1>5. \A u : Successful(u)' <=> Successful(u) \/ u = t
  <2>1. 1 .. Len(finished) + 1 = (1 .. Len(finished)) \cup {Len(finished) + 1}
    BY <1>4
  <2>. QED
    BY <1>4, <2>1 DEF Successful
<1>6. NoDuplicates(finished)'
  <2>1. \A k \in 1 .. Len(finished) : finished[k] # t
    BY <1>1, <1>4 DEF Successful
  <2>2. \A k \in 1 .. Len(finished) + 1 : k \in 1 .. Len(finished) \/ k = Len(finished) + 1
    BY <1>4
  <2>. QED
    BY <1>0, <1>4, <2>1, <2>2 DEF NoDuplicates
<1>7. \A u : UndoneByLegacy(u) => UndoneByLegacy(u)'
  BY <1>1, <1>2, <1>3, UndoneStays DEF Inv
<1>8. /\ job' \in [Jobs -> Job] /\ job'[j] = x /\ \A i \in Jobs : i # j => job'[i] = job[i]
      /\ Committed' = Committed
  BY <1>2, <1>3 DEF Inv, TypeOK, Committed
<1>9. TypeOK'
  BY <1>3, <1>4, <1>6, <1>8 DEF Inv, TypeOK, NoDuplicates
<1>10. ASSUME NEW i \in Jobs PROVE JobTrace(i)'
  <2>1. CASE i = j
    BY <1>1, <1>2, <1>5, <1>8, <2>1 DEF JobTrace, InFlight, Publishing, At, IsRun
  <2>2. CASE i # j
    <3>1. JobTrace(i) /\ job'[i] = job[i]
      BY <1>8, <2>2 DEF Inv, Memory
    <3>2. At(i, "complete") => ~Successful(Of[i])'
      <4>. SUFFICES ASSUME At(i, "complete") PROVE Of[i] # t
        BY <1>5, <3>1 DEF JobTrace
      <4>1. InFlight(i) /\ IsRun(i)
        BY <3>1 DEF JobTrace, InFlight, At
      <4>. QED
        BY <1>1, <2>2, <4>1 DEF Inv, Memory, RunsAlone
    <3>. QED
      BY <1>5, <1>7, <3>1, <3>2 DEF JobTrace, InFlight, Publishing, At, IsRun
  <2>. QED
    BY <2>1, <2>2
<1>11. PublishedSucceeded'
  BY <1>5, <1>7, <1>8 DEF Inv, PublishedSucceeded
<1>12. /\ \A i \in Jobs : JobRemembers(i)'
       /\ RunsAlone' /\ KeysDiffer' /\ KnownIsCommitted'
       /\ ChainsEnd' /\ DoubleActiveMeansOverlap'
  BY <1>0, <1>1, <1>2, <1>3, MemoryStep DEF JobRemembers
<1>. QED
  BY <1>9, <1>10, <1>11, <1>12 DEF Inv, Memory

\* A job fails or dies: a legacy run that lives takes the success of its own
\* trace back, and is the reason for which it is gone.
LEMMA FailStep ==
  ASSUME Inv, NEW j \in Jobs, NEW dies \in BOOLEAN, Fail(j, dies)
  PROVE  Inv'
<1>. DEFINE x == [Fresh EXCEPT !.pc = "failed"]
<1>. PICK t : t = job[j].trace
  OBVIOUS
<1>0. job[j] \in Job /\ JobRemembers(j) /\ JobTrace(j) /\ finished \in Seq(Traces) /\ NoDuplicates(finished)
  BY DEF Inv, Memory, TypeOK, NoDuplicates
<1>1. InFlight(j) /\ ~At(j, "failed")
  BY DEF Fail, At, InFlight
<1>2. x \in Job /\ x.pc = "failed" /\ x.latest = None /\ x.seen = {} /\ x.locked = {}
  BY DEF Fresh, Job, JobPc
<1>3. job' = [job EXCEPT ![j] = x] /\ UNCHANGED <<supersededBy, known>>
  BY DEF Fail
<1>. HIDE DEF x
<1>4. /\ job' \in [Jobs -> Job] /\ job'[j] = x /\ \A i \in Jobs : i # j => job'[i] = job[i]
      /\ Committed' = Committed
  BY <1>2, <1>3 DEF Inv, TypeOK, Committed
<1>5. /\ finished' \in Seq(Traces) /\ NoDuplicates(finished)'
      /\ \A u : Successful(u)' => Successful(u)
      /\ \A u : Successful(u) => Successful(u)' \/ UndoneByLegacy(u)'
  <2>1. CASE ~dies /\ Undone(j) /\ Successful(t)
    <3>1. finished' = Without(t)
      BY <2>1 DEF Fail
    <3>2. /\ Without(t) \in Seq(Traces) /\ NoDuplicates(Without(t))
          /\ \A u : (\E k \in DOMAIN Without(t) : Without(t)[k] = u) <=> Successful(u) /\ u # t
      BY <1>0, <2>1, WithoutIsRemoval
    <3>3. /\ finished' \in Seq(Traces) /\ NoDuplicates(finished)'
          /\ \A u : Successful(u)' <=> Successful(u) /\ u # t
      BY <3>1, <3>2 DEF Successful, NoDuplicates
    <3>4. UndoneByLegacy(t)'
      <4>1. Kind[j] = "legacy" /\ t = Of[j]
        BY <1>0, <1>1, <2>1 DEF Undone, JobTrace, IsRun
      <4>. QED
        BY <1>2, <1>4, <4>1 DEF UndoneByLegacy, At
    <3>. QED
      BY <3>3, <3>4
  <2>2. CASE ~(~dies /\ Undone(j) /\ Successful(t))
    <3>1. finished' = finished
      BY <2>2 DEF Fail
    <3>. QED
      BY <1>0, <3>1 DEF Successful, NoDuplicates
  <2>. QED
    BY <2>1, <2>2
<1>6. TypeOK'
  BY <1>3, <1>4, <1>5 DEF Inv, TypeOK, NoDuplicates
<1>7. \A u : UndoneByLegacy(u) => UndoneByLegacy(u)'
  BY <1>1, <1>2, <1>3, UndoneStays DEF Inv
<1>8. ASSUME NEW i \in Jobs PROVE JobTrace(i)'
  <2>1. CASE i = j
    BY <1>2, <1>4, <2>1 DEF JobTrace, InFlight, Publishing, At
  <2>2. CASE i # j
    <3>1. JobTrace(i) /\ job'[i] = job[i]
      BY <1>4, <2>2 DEF Inv, Memory
    <3>. QED
      BY <1>5, <1>7, <3>1 DEF JobTrace, InFlight, Publishing, At, IsRun
  <2>. QED
    BY <2>1, <2>2
<1>9. PublishedSucceeded'
  BY <1>4, <1>5, <1>7 DEF Inv, PublishedSucceeded
<1>10. /\ \A i \in Jobs : JobRemembers(i)'
       /\ RunsAlone' /\ KeysDiffer' /\ KnownIsCommitted'
       /\ ChainsEnd' /\ DoubleActiveMeansOverlap'
  BY <1>2, <1>3, MemoryStep
<1>. QED
  BY <1>6, <1>8, <1>9, <1>10 DEF Inv, Memory

\* A publication commits: the new record is active and nothing points away
\* from it, and all that the transaction saw or had updated points somewhere.
LEMMA CommitStep ==
  ASSUME Inv, NEW j \in Jobs, Commit(j)
  PROVE  Inv'
<1>. DEFINE new == job[j].record
<1>. DEFINE hit == Targets(j) \cup job[j].locked
<1>. DEFINE x == [job[j] EXCEPT !.pc = Answered(j), !.result = new, !.locked = {}]
<1>0. job[j] \in Job /\ JobRemembers(j) /\ JobTrace(j)
  BY DEF Inv, Memory, TypeOK
<1>1. /\ At(j, "supersede") /\ InFlight(j) /\ Publishing(j) /\ ~At(j, "failed")
      /\ new \in Records /\ new \notin Committed /\ new # None /\ new[1] = job[j].trace
      /\ job[j].trace \in Traces
  BY <1>0, NoneAssumption DEF Commit, At, InFlight, Publishing, JobRemembers, JobTrace, InTransaction, Inserted
<1>2. hit \subseteq Committed /\ \A y \in job[j].seen : supersededBy[y] = None => y \in hit
  BY <1>0 DEF JobRemembers, Targets
<1>3. /\ supersededBy' = [y \in Committed \cup {new} |-> IF y \in hit THEN new ELSE IF y = new THEN None ELSE supersededBy[y]]
      /\ known' = [y \in Committed \cup {new} |-> IF y = new THEN job[j].seen ELSE known[y]]
      /\ job' = [job EXCEPT ![j] = x]
      /\ finished' = finished
  BY DEF Commit
<1>4. /\ x \in Job /\ x.pc \in {"report", "done"} /\ (~IsRun(j) => x.pc = "done") /\ x.latest = job[j].latest
      /\ x.seen = job[j].seen /\ x.locked = {} /\ x.trace = job[j].trace
  BY <1>0, <1>1 DEF Job, JobPc, Answered
<1>. HIDE DEF x, hit
<1>5. /\ job' \in [Jobs -> Job] /\ job'[j] = x /\ \A i \in Jobs : i # j => job'[i] = job[i]
  BY <1>3, <1>4 DEF Inv, TypeOK
<1>6. /\ Committed' = Committed \cup {new}
      /\ supersededBy'[new] = None
      /\ \A y \in Committed : supersededBy'[y] = IF y \in hit THEN new ELSE supersededBy[y]
      /\ known'[new] = job[j].seen
      /\ \A y \in Committed : known'[y] = known[y]
  BY <1>1, <1>2, <1>3 DEF Committed
<1>. HIDE DEF new
<1>7. TypeOK'
  <2>1. Committed' \subseteq Records
    BY <1>1, <1>6 DEF Inv, TypeOK
  <2>2. \A y \in Committed' : supersededBy'[y] \in Committed' \cup {None}
    BY <1>6 DEF Inv, TypeOK
  <2>3. supersededBy' \in [Committed' -> Records \cup {None}]
    BY <1>3, <1>6, <2>1, <2>2
  <2>4. \A y \in Committed' : known'[y] \in SUBSET Records
    BY <1>0, <1>6 DEF Inv, TypeOK, Job
  <2>5. known' \in [Committed' -> SUBSET Records]
    BY <1>3, <1>6, <2>4
  <2>. QED
    BY <1>3, <1>5, <2>1, <2>2, <2>3, <2>5 DEF Inv, TypeOK
<1>8. \A u : UndoneByLegacy(u) => UndoneByLegacy(u)'
  BY <1>1, <1>3, <1>4, UndoneStays DEF Inv
<1>9. \A u : Successful(u)' <=> Successful(u)
  BY <1>3 DEF Successful
<1>10. ASSUME NEW i \in Jobs PROVE JobRemembers(i)' /\ JobTrace(i)'
  <2>1. CASE i = j
    BY <1>0, <1>1, <1>4, <1>5, <1>6, <2>1
    DEF JobRemembers, JobTrace, InTransaction, Inserted, InFlight, Publishing, At, IsRun
  <2>2. CASE i # j
    <3>1. JobRemembers(i) /\ JobTrace(i) /\ job'[i] = job[i]
      BY <1>5, <2>2 DEF Inv, Memory
    <3>2. Inserted(i) => job[i].record # new
      BY <1>1, <2>2 DEF Inv, Memory, KeysDiffer, Inserted, At, new
    <3>3. JobRemembers(i)'
      BY <1>6, <3>1, <3>2 DEF JobRemembers, InTransaction, Inserted
    <3>4. JobTrace(i)'
      BY <1>8, <1>9, <3>1 DEF JobTrace, InFlight, Publishing, At, IsRun
    <3>. QED
      BY <3>3, <3>4
  <2>. QED
    BY <2>1, <2>2
<1>11. RunsAlone' /\ KeysDiffer'
  BY <1>1, <1>4, <1>5 DEF Inv, Memory, RunsAlone, KeysDiffer, InFlight, Inserted, IsRun
<1>12. KnownIsCommitted'
  BY <1>0, <1>6 DEF Inv, Memory, KnownIsCommitted, JobRemembers
<1>13. ChainsEnd'
  <2>. SUFFICES ASSUME NEW xs \in SUBSET Committed', xs # {}
                PROVE  \E y \in xs : supersededBy'[y] \notin xs
    BY DEF ChainsEnd
  <2>1. CASE new \in xs
    BY <1>6, <1>7, <2>1, NoneAssumption DEF TypeOK
  <2>2. CASE new \notin xs
    <3>1. PICK y \in xs : supersededBy[y] \notin xs
      BY <1>6, <2>2 DEF Inv, ChainsEnd
    <3>. QED
      BY <1>6, <2>2, <3>1
  <2>. QED
    BY <2>1, <2>2
<1>14. DoubleActiveMeansOverlap'
  <2>. SUFFICES ASSUME NEW y \in Committed', NEW z \in Committed', y \in known'[z]
                PROVE  supersededBy'[y] # None
    BY DEF DoubleActiveMeansOverlap
  <2>1. y \in Committed
    BY <1>0, <1>6 DEF Inv, Memory, KnownIsCommitted, JobRemembers
  <2>2. CASE z = new
    BY <1>1, <1>2, <1>6, <2>1, <2>2
  <2>3. CASE z # new
    <3>1. supersededBy[y] # None
      BY <1>6, <2>1, <2>3 DEF Inv, DoubleActiveMeansOverlap
    <3>. QED
      BY <1>1, <1>6, <2>1, <3>1
  <2>. QED
    BY <2>2, <2>3
<1>15. PublishedSucceeded'
  <2>1. Successful(new[1]) \/ UndoneByLegacy(new[1])
    BY <1>0, <1>1 DEF JobTrace
  <2>. QED
    BY <1>6, <1>8, <1>9, <2>1 DEF Inv, PublishedSucceeded
<1>. QED
  BY <1>7, <1>10, <1>11, <1>12, <1>13, <1>14, <1>15 DEF Inv, Memory

-----------------------------------------------------------------------------
(* Theorems *)

\* The inductive invariant holds in every reachable state.
LEMMA Invariant == Spec => []Inv
<1>1. Inv /\ UNCHANGED vars => Inv'
  BY DEF vars, Inv, Memory, TypeOK, ChainsEnd, DoubleActiveMeansOverlap, PublishedSucceeded, JobRemembers,
         JobTrace, RunsAlone, KeysDiffer, KnownIsCommitted, InFlight, Publishing, InTransaction, Inserted,
         At, IsRun, Successful, UndoneByLegacy, Committed
<1>2. Inv /\ Next => Inv'
  BY StartSteps, AnswerSteps, TransactionSteps, CompleteStep, FailStep, CommitStep DEF Next
<1>. QED
  BY InitInv, <1>1, <1>2, PTL DEF Spec

\* The variables keep their types: what supersedes a record is a record.
THEOREM TypeCorrect == Spec => []TypeOK
BY Invariant, PTL DEF Inv

\* Following supersededBy from any record ends at an active one, whatever
\* publications overlap (publishRecommendation): a day that was published
\* stays published.
THEOREM PublishedDayStaysPublished == Spec => []ChainsEnd
BY Invariant, PTL DEF Inv

\* A record that a later publication could see stays superseded: two active
\* records of a day come only from transactions that overlapped (updateMany of
\* publishRecommendation).
THEOREM OnlyOverlapLeavesTwoActive == Spec => []DoubleActiveMeansOverlap
BY Invariant, PTL DEF Inv

\* What fails after a publication leaves its trace SUCCESS, the error path of
\* the legacy executor excepted (failRunTrace and executeRegistryPipeline).
THEOREM PublishedTraceSucceeded == Spec => []PublishedSucceeded
BY Invariant, PTL DEF Inv

=============================================================================
