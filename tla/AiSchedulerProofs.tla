-------------------------- MODULE AiSchedulerProofs --------------------------
(***************************************************************************)
(* Proofs about AiScheduler for every set of candidates, scopes, executors *)
(* and leases, every limit and every timeout: the concurrency limits and   *)
(* the single recovery probe hold over all processes, crashes included, and *)
(* attention is asked for only when every model is disabled.               *)
(***************************************************************************)
EXTENDS AiScheduler, FiniteSetTheorems, WellFoundedInduction, TLAPS

LeaseRow == [cand : Candidates, ttl : 0 .. RequestTicks + GraceTicks]

Types ==
  /\ health \in [Scopes -> Health]
  /\ lease \in [Leases -> LeaseRow \cup {None}]
  /\ exec \in [Executors -> Exec]
  /\ recovering \in SUBSET Scopes
  /\ probes \in [Scopes -> SUBSET Executors]

\* Types, written for the proofs, gives the type invariant of the module.
LEMMA TypesGiveTypeOK == Types => TypeOK
BY DEF Types, TypeOK, Lease, LeaseRow

\* An executor in flight has the lease of its candidate, to itself, and its
\* lease outlasts the request by the grace period.
CallHasLease(e) ==
  /\ exec[e].lease \in Leases
  /\ lease[exec[e].lease] # None
  /\ lease[exec[e].lease].cand = exec[e].cand
  /\ lease[exec[e].lease].ttl = exec[e].timer + GraceTicks
  /\ \A d \in Executors : exec[d].lease = exec[e].lease => d = e

CallsCovered == \A e \in Executors : exec[e].pc = "calling" => CallHasLease(e)

\* The limits, stated of the leases: a crash can only leave too many of them.
LimitsOfLeases ==
  /\ Cardinality(Held) <= GlobalLimit
  /\ \A k \in Scopes : Cardinality(ActiveOn(k)) <= MaxCapacity

\* A recovering scope has one slot, and its probe is in flight.
ProbesFly ==
  /\ \A k \in Scopes : \A e \in probes[k] : exec[e].pc = "calling" /\ k \in ScopeSet(exec[e].cand)
  /\ \A k \in recovering : health[k].capacity = 1
  /\ \A k \in recovering : \A d, e \in probes[k] : d = e

Inv == Types /\ CallsCovered /\ LimitsOfLeases /\ ProbesFly

-----------------------------------------------------------------------------
(* The values that rows take *)

\* The ranges of the counters, from the assumptions on the constants.
LEMMA Ranges ==
  /\ MaxCapacity \in Nat /\ MaxCapacity > 0 /\ InitialCapacity \in Nat /\ InitialCapacity > 0
  /\ GrowAfter \in Nat /\ GrowAfter > 0 /\ TripAfter \in Nat /\ TripAfter > 0
  /\ MaxCalls \in Nat /\ MaxCalls > 0 /\ GlobalLimit \in Nat /\ GlobalLimit > 0
  /\ CoolTicks \in Nat /\ TripTicks \in Nat /\ StableTicks \in Nat /\ TripTicks <= CoolTicks
  /\ RequestTicks \in Nat /\ GraceTicks \in Nat /\ GraceTicks > 0
BY CapacityAssumption, TicksAssumption, CountsAssumption

\* acquire and finish write healths back.
LEMMA NewHealthType ==
  ASSUME NEW id \in {IdentityOf[e] : e \in Executors} \cup {None}
  PROVE  NewHealth(id) \in Health
BY Ranges DEF NewHealth, Health, Lowest

\* The health that acquire sees has its type, with known credentials or new ones.
LEMMA SeenType ==
  ASSUME Types, NEW e \in Executors, NEW k \in Scopes
  PROVE  Seen(e, k) \in Health
<1>1. health[k] \in Health
  BY DEF Types
<1>2. Lowest(health[k].capacity, MaxCapacity) \in 1 .. MaxCapacity
  BY <1>1, Ranges DEF Health, Lowest
<1>3. [health[k] EXCEPT !.capacity = Lowest(@, MaxCapacity)] \in Health
  BY <1>1, <1>2 DEF Health
<1> QED
  BY <1>3, NewHealthType DEF Seen

\* acquire stores healths.
LEMMA RefreshedType ==
  ASSUME Types, NEW e \in Executors
  PROVE  Refreshed(e) \in [Scopes -> Health]
BY SeenType DEF Refreshed, Types

\* A success stores a health: its capacity grows to the maximum only.
LEMMA ImprovedType ==
  ASSUME NEW h \in Health
  PROVE  Improved(h) \in Health
<1> DEFINE grows == h.successes + 1 >= GrowAfter /\ h.stable = StableTicks
<1>1. /\ h.capacity \in 1 .. MaxCapacity /\ h.successes \in 0 .. GrowAfter /\ h.stable \in 0 .. StableTicks
  BY DEF Health
<1>2. /\ (IF grows THEN 0 ELSE Lowest(h.successes + 1, GrowAfter)) \in 0 .. GrowAfter
      /\ (IF grows THEN 0 ELSE h.stable) \in 0 .. StableTicks
      /\ (IF grows THEN Lowest(MaxCapacity, h.capacity + 1) ELSE h.capacity) \in 1 .. MaxCapacity
      /\ 0 \in 0 .. TripAfter
  BY <1>1, Ranges DEF Lowest
<1> QED
  BY <1>2 DEF Improved, Health

\* A failure stores a health: its capacity is halved to one at least.
LEMMA WorsenedType ==
  ASSUME NEW h \in Health, NEW kind, NEW pause \in 0 .. CoolTicks
  PROVE  Worsened(h, kind, pause) \in Health
<1> DEFINE fatal == kind \in Fatal
           trips == ~fatal /\ h.failures + 1 >= TripAfter
           halved == IF kind = "rate" THEN Highest(1, h.capacity \div 2) ELSE h.capacity
           until == IF trips THEN Highest(pause, TripTicks) ELSE pause
<1>1. /\ h.capacity \in 1 .. MaxCapacity /\ h.failures \in 0 .. TripAfter /\ h.cooldown \in 0 .. CoolTicks
      /\ h.disabled \in BOOLEAN /\ h.probing \in BOOLEAN
  BY DEF Health
<1>2. /\ 0 \in 0 .. GrowAfter /\ 0 \in 0 .. StableTicks
      /\ Lowest(h.failures + 1, TripAfter) \in 0 .. TripAfter
      /\ (IF fatal THEN h.cooldown ELSE Highest(h.cooldown, until)) \in 0 .. CoolTicks
      /\ (IF trips THEN 1 ELSE halved) \in 1 .. MaxCapacity
  BY <1>1, Ranges DEF Lowest, Highest
<1>3. (h.disabled \/ fatal) \in BOOLEAN /\ (h.probing \/ trips) \in BOOLEAN
  BY <1>1
<1> QED
  BY <1>2, <1>3 DEF Worsened, Health

\* An executor that ends, retries, waits or calls writes its row back.
LEMMA EndsType ==
  ASSUME Types, NEW e \in Executors, NEW result \in Result, Ends(e, result)
  PROVE  /\ exec' \in [Executors -> Exec]
         /\ \A d \in Executors \ {e} : exec'[d] = exec[d]
         /\ exec'[e].pc = "done" /\ exec'[e].lease = None
<1> DEFINE row == [exec[e] EXCEPT !.pc = "done", !.result = result, !.lease = None, !.cand = None, !.timer = 0]
<1>1. exec[e] \in Exec /\ exec \in [Executors -> Exec]
  BY DEF Types
<1>2. "done" \in ExecPc /\ 0 \in 0 .. RequestTicks
  BY Ranges DEF ExecPc
<1>3. row \in Exec /\ row.pc = "done" /\ row.lease = None
  BY <1>1, <1>2 DEF Exec
<1>4. exec' = [exec EXCEPT ![e] = row]
  BY DEF Ends
<1> QED
  BY <1>1, <1>3, <1>4

\* Giving up changes the memory of one execution, which ends without a call.
LEMMA GiveUpType ==
  ASSUME Types, NEW e \in Executors, GiveUp(e), exec[e].pc = "loop"
  PROVE  /\ exec' \in [Executors -> Exec]
         /\ \A d \in Executors \ {e} : exec'[d] = exec[d]
         /\ exec'[e].pc # "calling" /\ exec'[e].lease \in {None, exec[e].lease}
<1>1. CASE exec' = [exec EXCEPT ![e].excluded = {}]
  <2> DEFINE row == [exec[e] EXCEPT !.excluded = {}]
  <2>1. exec[e] \in Exec /\ exec \in [Executors -> Exec]
    BY DEF Types
  <2>2. row \in Exec /\ row.pc = "loop" /\ row.lease = exec[e].lease
    BY <2>1 DEF Exec
  <2>3. exec' = [exec EXCEPT ![e] = row]
    BY <1>1
  <2> QED
    BY <2>1, <2>2, <2>3
<1>2. CASE \E result \in {"split", "attention"} : Ends(e, result)
  BY <1>2, EndsType DEF Result
<1> QED
  BY <1>1, <1>2 DEF GiveUp

\* A failed call sends its execution back to the loop without a lease.
LEMMA RetryType ==
  ASSUME Types, NEW e \in Executors, NEW c \in Candidates, NEW n \in 0 .. 1,
         exec' = [exec EXCEPT ![e].pc = "loop", ![e].excluded = @ \cup {c}, ![e].lease = None,
                              ![e].cand = None, ![e].timer = 0, ![e].structure = n]
  PROVE  /\ exec' \in [Executors -> Exec]
         /\ \A d \in Executors \ {e} : exec'[d] = exec[d]
         /\ exec'[e].pc = "loop" /\ exec'[e].lease = None
<1> DEFINE row == [exec[e] EXCEPT !.pc = "loop", !.excluded = @ \cup {c}, !.lease = None,
                                  !.cand = None, !.timer = 0, !.structure = n]
<1>1. exec[e] \in Exec /\ exec \in [Executors -> Exec]
  BY DEF Types
<1>2. "loop" \in ExecPc /\ 0 \in 0 .. RequestTicks /\ exec[e].excluded \cup {c} \in SUBSET Candidates
  BY <1>1, Ranges DEF ExecPc, Exec
<1>3. row \in Exec /\ row.pc = "loop" /\ row.lease = None
  BY <1>1, <1>2 DEF Exec
<1>4. exec' = [exec EXCEPT ![e] = row]
  OBVIOUS
<1> QED
  BY <1>1, <1>3, <1>4

\* A granted call starts with its lease and its full timer.
LEMMA CallType ==
  ASSUME Types, NEW e \in Executors, NEW c \in Candidates, NEW l \in Leases, exec[e].calls < MaxCalls,
         exec' = [exec EXCEPT ![e].pc = "calling", ![e].calls = @ + 1, ![e].lease = l,
                              ![e].cand = c, ![e].timer = RequestTicks]
  PROVE  /\ exec' \in [Executors -> Exec]
         /\ \A d \in Executors \ {e} : exec'[d] = exec[d]
         /\ exec'[e].pc = "calling" /\ exec'[e].lease = l /\ exec'[e].cand = c
         /\ exec'[e].timer = RequestTicks
<1> DEFINE row == [exec[e] EXCEPT !.pc = "calling", !.calls = @ + 1, !.lease = l,
                                  !.cand = c, !.timer = RequestTicks]
<1>1. exec[e] \in Exec /\ exec \in [Executors -> Exec]
  BY DEF Types
<1>2. "calling" \in ExecPc /\ RequestTicks \in 0 .. RequestTicks /\ exec[e].calls + 1 \in 0 .. MaxCalls
  BY <1>1, Ranges DEF ExecPc, Exec
<1>3. /\ row \in Exec /\ row.pc = "calling" /\ row.lease = l
      /\ row.cand = c /\ row.timer = RequestTicks
  BY <1>1, <1>2 DEF Exec
<1>4. exec' = [exec EXCEPT ![e] = row]
  OBVIOUS
<1> QED
  BY <1>1, <1>3, <1>4

-----------------------------------------------------------------------------
(* Leases *)

\* The held leases are finitely many.
LEMMA HeldFinite ==
  /\ Held \subseteq Leases /\ IsFiniteSet(Held)
  /\ Cardinality(Held) \in Nat
  /\ \A k : /\ ActiveOn(k) \subseteq Held /\ IsFiniteSet(ActiveOn(k))
            /\ Cardinality(ActiveOn(k)) \in Nat
<1>1. Held \subseteq Leases /\ IsFiniteSet(Held)
  BY LeasesAssumption, FS_Subset DEF Held
<1>2. \A k : ActiveOn(k) \subseteq Held /\ IsFiniteSet(ActiveOn(k))
  BY <1>1, FS_Subset DEF ActiveOn
<1> QED
  BY <1>1, <1>2, FS_CardinalityType

\* The lease of a request in flight is held: acquire does not prune it.
LEMMA CallHolds ==
  ASSUME Inv, NEW e \in Executors, exec[e].pc = "calling"
  PROVE  /\ exec[e].lease \in Held
         /\ exec[e].cand \in Candidates
<1>1. CallHasLease(e) /\ exec[e].timer \in Nat
  BY Ranges DEF Inv, CallsCovered, Types, Exec
<1>2. lease[exec[e].lease] \in LeaseRow
  BY <1>1 DEF Inv, Types, CallHasLease
<1> QED
  BY <1>1, <1>2, Ranges DEF CallHasLease, Held, LeaseRow

\* Leases that are only dropped keep every limit.
LEMMA DropKeepsLimits ==
  ASSUME Inv, Held' \subseteq Held, \A l \in Held' : lease'[l].cand = lease[l].cand
  PROVE  LimitsOfLeases'
<1>1. \A k : ActiveOn(k)' \subseteq ActiveOn(k)
  BY DEF ActiveOn
<1>2. Cardinality(Held') <= Cardinality(Held)
  BY HeldFinite, FS_Subset
<1>3. Cardinality(Held') \in Nat
  BY HeldFinite, FS_Subset, FS_CardinalityType
<1>4. ASSUME NEW k \in Scopes PROVE Cardinality(ActiveOn(k)') <= MaxCapacity
  <2>1. Cardinality(ActiveOn(k)') <= Cardinality(ActiveOn(k)) /\ Cardinality(ActiveOn(k)') \in Nat
    BY <1>1, HeldFinite, FS_Subset, FS_CardinalityType
  <2> QED
    BY <2>1, HeldFinite, Ranges DEF Inv, LimitsOfLeases
<1> QED
  BY <1>2, <1>3, <1>4, HeldFinite, Ranges DEF Inv, LimitsOfLeases

\* A step of e that starts no request and drops no lease of another request.
Quiet(e) ==
  /\ \A d \in Executors \ {e} : exec'[d] = exec[d]
  /\ exec'[e].pc # "calling"
  /\ exec'[e].lease \in {None, exec[e].lease}
  /\ \A l \in Leases :
       \/ lease'[l] = lease[l]
       \/ lease'[l] = None /\ l \notin Held
       \/ lease'[l] = None /\ exec[e].pc = "calling" /\ l = exec[e].lease

\* A step that starts no call and drops no lease but its own keeps the limits.
LEMMA QuietKeepsCalls ==
  ASSUME Inv, NEW e \in Executors, Quiet(e)
  PROVE  CallsCovered' /\ LimitsOfLeases'
<1>1. CallsCovered'
  <2> SUFFICES ASSUME NEW d \in Executors, exec'[d].pc = "calling"
               PROVE  CallHasLease(d)'
    BY DEF CallsCovered
  <2>1. d # e /\ exec'[d] = exec[d] /\ exec[d].pc = "calling"
    BY DEF Quiet
  <2>2. CallHasLease(d) /\ exec[d].lease \in Held
    BY <2>1, CallHolds DEF Inv, CallsCovered
  <2>3. lease'[exec[d].lease] = lease[exec[d].lease]
    BY <2>1, <2>2 DEF Quiet, CallHasLease
  <2>4. ASSUME NEW x \in Executors, exec'[x].lease = exec'[d].lease
        PROVE  x = d
    BY <2>1, <2>2, <2>4, NoneAssumption DEF Quiet, CallHasLease
  <2> QED
    BY <2>1, <2>2, <2>3, <2>4 DEF CallHasLease
<1>2. LimitsOfLeases'
  <2>1. Held' \subseteq Held /\ \A l \in Held' : lease'[l].cand = lease[l].cand
    BY DEF Held, Quiet
  <2> QED
    BY <2>1, DropKeepsLimits
<1> QED
  BY <1>1, <1>2

\* Probes that are not replaced stay single while the capacity stays at one.
LEMMA QuietKeepsProbes ==
  ASSUME Inv, NEW e \in Executors, Quiet(e),
         \A k \in Scopes : probes'[k] \subseteq probes[k] \ {e},
         recovering' \subseteq Scopes,
         \A k \in recovering' : health'[k].capacity = 1 /\ (k \in recovering \/ probes'[k] = {})
  PROVE  ProbesFly'
BY DEF Inv, Types, ProbesFly, Quiet

\* A waiting executor is no probe.
LEMMA NotProbing ==
  ASSUME Inv, NEW e \in Executors, exec[e].pc # "calling", NEW k \in Scopes
  PROVE  probes[k] \subseteq probes[k] \ {e}
BY DEF Inv, ProbesFly

\* acquire leaves the one slot of a recovering scope alone, unless it is a new
\* scope because the credentials changed.
LEMMA RefreshedSlot ==
  ASSUME Inv, NEW e \in Executors, NEW k \in recovering \ Renamed(e)
  PROVE  Refreshed(e)[k].capacity = 1
<1>1. k \in Scopes /\ health[k] \in Health /\ health[k].capacity = 1
  BY DEF Inv, Types, ProbesFly
<1>2. Refreshed(e)[k].identity = health[k].identity
  BY <1>1 DEF Renamed
<1>3. CASE Refreshed(e)[k] = health[k]
  BY <1>1, <1>3
<1>4. CASE Refreshed(e)[k] = Seen(e, k)
  <2>1. CASE health[k].identity # IdentityOf[e]
    <3>1. Seen(e, k).identity = IdentityOf[e]
      BY <2>1 DEF Seen, NewHealth
    <3> QED
      BY <1>2, <1>4, <2>1, <3>1
  <2>2. CASE health[k].identity = IdentityOf[e]
    <3>1. Seen(e, k) = [health[k] EXCEPT !.capacity = Lowest(1, MaxCapacity)]
      BY <1>1, <2>2 DEF Seen
    <3>2. Lowest(1, MaxCapacity) = 1
      BY Ranges DEF Lowest
    <3> QED
      BY <1>1, <1>4, <3>1, <3>2 DEF Health
  <2> QED
    BY <2>1, <2>2
<1> QED
  BY <1>1, <1>3, <1>4 DEF Refreshed

\* An acquire that grants nothing.
LEMMA NoGrant ==
  ASSUME Inv, NEW e \in Executors, Wait(e) \/ NoCandidate(e)
  PROVE  Inv'
<1>1. exec[e].pc = "loop" /\ health' = Refreshed(e) /\ lease' = Pruned
      /\ recovering' = recovering \ Renamed(e) /\ probes' = probes
  BY DEF Wait, NoCandidate
<1>2. /\ exec' \in [Executors -> Exec]
      /\ \A d \in Executors \ {e} : exec'[d] = exec[d]
      /\ exec'[e].pc # "calling" /\ exec'[e].lease \in {None, exec[e].lease}
  <2>1. CASE exec' = exec
    BY <1>1, <2>1 DEF Inv, Types
  <2>2. CASE GiveUp(e)
    BY <1>1, <2>2, GiveUpType DEF Inv
  <2> QED
    BY <2>1, <2>2 DEF Wait, NoCandidate
<1>3. Quiet(e)
  <2>1. ASSUME NEW l \in Leases
        PROVE  lease'[l] = lease[l] \/ (lease'[l] = None /\ l \notin Held)
    BY <1>1 DEF Pruned
  <2> QED
    BY <1>2, <2>1 DEF Quiet
<1>4. Types'
  BY <1>1, <1>2, RefreshedType DEF Inv, Types, Pruned
<1>5. ProbesFly'
  BY <1>1, <1>3, QuietKeepsProbes, NotProbing, RefreshedSlot DEF Inv, Types
<1> QED
  BY <1>3, <1>4, <1>5, QuietKeepsCalls DEF Inv

\* Steps of an executor without a request that leave the snapshot alone.
LEMMA OffSnapshot ==
  ASSUME Inv, NEW e \in Executors,
         Begin(e) \/ OutOfCalls(e) \/ Stop(e) \/ (Crash(e) /\ exec[e].pc = "loop")
  PROVE  Inv'
<1>1. /\ exec' \in [Executors -> Exec]
      /\ \A d \in Executors \ {e} : exec'[d] = exec[d]
      /\ exec'[e].pc # "calling" /\ exec'[e].lease = None
  <2>1. CASE Begin(e)
    <3>1. [IdleExec EXCEPT !.pc = "loop"] \in Exec
      BY Ranges DEF IdleExec, Exec, ExecPc, Result
    <3>2. [IdleExec EXCEPT !.pc = "loop"].pc = "loop" /\ [IdleExec EXCEPT !.pc = "loop"].lease = None
      BY DEF IdleExec
    <3> QED
      BY <2>1, <3>1, <3>2 DEF Begin, Inv, Types
  <2>2. CASE OutOfCalls(e) \/ Stop(e) \/ Crash(e)
    BY <2>2, EndsType DEF OutOfCalls, Stop, Crash, Inv, Result
  <2> QED
    BY <2>1, <2>2
<1>2. UNCHANGED <<health, lease, recovering>> /\ exec[e].pc # "calling"
  BY DEF Begin, OutOfCalls, Stop, Crash
<1>3. \A k \in Scopes : probes'[k] \subseteq probes[k] \ {e}
  BY <1>2, NotProbing DEF Begin, OutOfCalls, Stop, Crash, Unprobed
<1>4. probes' \in [Scopes -> SUBSET Executors]
  BY DEF Begin, OutOfCalls, Stop, Crash, Unprobed, Inv, Types
<1>5. Quiet(e)
  BY <1>1, <1>2 DEF Quiet
<1>6. ProbesFly'
  BY <1>2, <1>3, <1>5, QuietKeepsProbes DEF Inv, Types, ProbesFly
<1> QED
  BY <1>1, <1>2, <1>4, <1>5, <1>6, QuietKeepsCalls DEF Inv, Types

-----------------------------------------------------------------------------
(* The end of a request *)

\* Dropping the lease of e touches no other request.
LEMMA DropIsQuiet ==
  ASSUME Inv, NEW e \in Executors, exec[e].pc = "calling", lease' = Dropped(e),
         \A d \in Executors \ {e} : exec'[d] = exec[d],
         exec'[e].pc # "calling", exec'[e].lease = None
  PROVE  Quiet(e) /\ lease' \in [Leases -> LeaseRow \cup {None}]
<1>1. lease \in [Leases -> LeaseRow \cup {None}] /\ exec[e].lease \in Leases
  BY DEF Inv, Types, CallsCovered, CallHasLease
<1>2. lease' = [lease EXCEPT ![exec[e].lease] = None]
  BY DEF Dropped
<1> QED
  BY <1>1, <1>2 DEF Quiet

\* A success leaves the one slot of a recovering scope, or ends the recovery.
LEMMA SucceedInv ==
  ASSUME Inv, NEW e \in Executors, Succeed(e)
  PROVE  Inv'
<1> DEFINE touched == {k \in ScopeSet(exec[e].cand) : Known(e, k)}
<1>1. /\ exec' \in [Executors -> Exec]
      /\ \A d \in Executors \ {e} : exec'[d] = exec[d]
      /\ exec'[e].pc = "done" /\ exec'[e].lease = None
  BY EndsType DEF Succeed, Inv, Result
<1>2. Quiet(e) /\ lease' \in [Leases -> LeaseRow \cup {None}]
  BY <1>1, DropIsQuiet DEF Succeed
<1>3. /\ health' = [k \in Scopes |-> IF k \in touched THEN Improved(health[k]) ELSE health[k]]
      /\ recovering' = {k \in recovering : health'[k].capacity <= health[k].capacity}
  BY DEF Succeed
<1>4. health' \in [Scopes -> Health]
  <2>1. \A k \in Scopes : health[k] \in Health /\ Improved(health[k]) \in Health
    BY ImprovedType DEF Inv, Types
  <2> QED
    BY <1>3, <2>1
<1>5. probes' \in [Scopes -> SUBSET Executors] /\ \A k \in Scopes : probes'[k] \subseteq probes[k] \ {e}
  BY DEF Succeed, Unprobed, Inv, Types
<1>6. \A k \in recovering' : k \in recovering /\ k \in Scopes /\ health'[k].capacity = 1
  <2> SUFFICES ASSUME NEW k \in recovering' PROVE k \in recovering /\ k \in Scopes /\ health'[k].capacity = 1
    OBVIOUS
  <2>1. k \in recovering /\ k \in Scopes /\ health'[k].capacity <= 1
    BY <1>3 DEF Inv, Types, ProbesFly
  <2>2. health'[k].capacity \in 1 .. MaxCapacity
    BY <1>4, <2>1 DEF Health
  <2> QED
    BY <2>1, <2>2, Ranges
<1>7. ProbesFly' /\ recovering' \subseteq Scopes
  BY <1>2, <1>5, <1>6, QuietKeepsProbes
<1> QED
  BY <1>1, <1>2, <1>4, <1>5, <1>7, QuietKeepsCalls DEF Inv, Types

\* A failure halves one slot to one slot, or trips the scope and forgets the
\* requests granted before.
LEMMA WorsenedSlot ==
  ASSUME NEW h \in Health, NEW kind, NEW pause \in 0 .. CoolTicks,
         h.capacity = 1 \/ (kind \notin Fatal /\ h.failures + 1 >= TripAfter)
  PROVE  Worsened(h, kind, pause).capacity = 1
<1>1. Highest(1, 1 \div 2) = 1
  BY DEF Highest
<1>2. Worsened(h, kind, pause).capacity =
        IF kind \notin Fatal /\ h.failures + 1 >= TripAfter THEN 1
        ELSE IF kind = "rate" THEN Highest(1, h.capacity \div 2) ELSE h.capacity
  BY DEF Worsened, Health
<1> QED
  BY <1>1, <1>2

\* A failing report keeps the invariant, late or not.
LEMMA FailInv ==
  ASSUME Inv, NEW e \in Executors, NEW kind \in ErrorKinds, Fail(e, kind)
  PROVE  Inv'
<1> DEFINE c == exec[e].cand
           touched == {k \in Blamed(c, kind) : Known(e, k)}
           tripped == {k \in touched : Tripped(k, kind)}
<1>1. PICK pause \in 0 .. CoolTicks :
        health' = [k \in Scopes |-> IF k \in touched THEN Worsened(health[k], kind, pause) ELSE health[k]]
  BY DEF Fail
<1>2. /\ exec[e].pc = "calling"
      /\ recovering' = recovering \cup tripped
      /\ probes' = [k \in Scopes |-> IF k \in tripped THEN {} ELSE probes[k] \ {e}]
      /\ lease' = Dropped(e)
  BY DEF Fail
<1>3. /\ exec' \in [Executors -> Exec]
      /\ \A d \in Executors \ {e} : exec'[d] = exec[d]
      /\ exec'[e].pc # "calling" /\ exec'[e].lease = None
  <2>1. c \in Candidates
    BY <1>2, CallHolds
  <2>2. exec[e].structure \in 0 .. 1
    BY DEF Inv, Types, Exec
  <2>3. CASE Ends(e, "split")
    BY <2>3, EndsType DEF Inv, Result
  <2>4. CASE \E n \in 0 .. 1 :
               exec' = [exec EXCEPT ![e].pc = "loop", ![e].excluded = @ \cup {c}, ![e].lease = None,
                                    ![e].cand = None, ![e].timer = 0, ![e].structure = n]
    BY <2>1, <2>4, RetryType DEF Inv
  <2> DEFINE n == IF kind = "structure" THEN 1 ELSE exec[e].structure
  <2>5. \/ Ends(e, "split")
        \/ exec' = [exec EXCEPT ![e].pc = "loop", ![e].excluded = @ \cup {c}, ![e].lease = None,
                                 ![e].cand = None, ![e].timer = 0, ![e].structure = n]
    BY DEF Fail
  <2>6. n \in 0 .. 1
    BY <2>2
  <2> QED
    BY <2>3, <2>4, <2>5, <2>6
<1>4. Quiet(e) /\ lease' \in [Leases -> LeaseRow \cup {None}]
  BY <1>2, <1>3, DropIsQuiet
<1>5. \A k \in Scopes : health[k] \in Health
  BY DEF Inv, Types
<1>6. health' \in [Scopes -> Health]
  BY <1>1, <1>5, WorsenedType
<1>7. tripped \subseteq Scopes
  <2>1. c \in Candidates
    BY <1>2, CallHolds
  <2>2. ScopeSet(c) \subseteq Scopes
    BY <2>1, ScopesAssumption DEF ScopeSet
  <2> QED
    BY <2>2 DEF Blamed
<1>8. probes' \in [Scopes -> SUBSET Executors] /\ \A k \in Scopes : probes'[k] \subseteq probes[k] \ {e}
  BY <1>2 DEF Inv, Types
<1>9. ASSUME NEW k \in recovering'
      PROVE  k \in Scopes /\ health'[k].capacity = 1 /\ (k \in recovering \/ probes'[k] = {})
  <2>1. k \in Scopes /\ (k \in recovering \/ k \in tripped)
    BY <1>2, <1>7 DEF Inv, Types
  <2>2. k \in recovering => health[k].capacity = 1
    BY DEF Inv, ProbesFly
  <2>3. k \in tripped => kind \notin Fatal /\ health[k].failures + 1 >= TripAfter
    BY DEF Tripped
  <2>4. health'[k].capacity = 1
    <3>1. CASE k \in touched
      BY <1>1, <1>5, <2>1, <2>2, <2>3, <3>1, WorsenedSlot
    <3>2. CASE k \notin touched
      BY <1>1, <2>1, <2>2, <3>2
    <3> QED
      BY <3>1, <3>2
  <2> QED
    BY <1>2, <2>1, <2>4
<1>10. ProbesFly' /\ recovering' \subseteq Scopes
  BY <1>4, <1>8, <1>9, QuietKeepsProbes
<1> QED
  BY <1>3, <1>4, <1>6, <1>8, <1>10, QuietKeepsCalls DEF Inv, Types

\* A cancelled request, or one whose process dies.
LEMMA LostInv ==
  ASSUME Inv, NEW e \in Executors, exec[e].pc = "calling", Cancel(e) \/ Crash(e)
  PROVE  Inv'
<1>1. /\ exec' \in [Executors -> Exec]
      /\ \A d \in Executors \ {e} : exec'[d] = exec[d]
      /\ exec'[e].pc = "done" /\ exec'[e].lease = None
  BY EndsType DEF Cancel, Crash, Inv, Result
<1>2. Quiet(e) /\ lease' \in [Leases -> LeaseRow \cup {None}]
  <2>1. CASE lease' = lease
    BY <1>1, <2>1 DEF Quiet, Inv, Types
  <2>2. CASE lease' = Dropped(e)
    BY <1>1, <2>2, DropIsQuiet
  <2> QED
    BY <2>1, <2>2 DEF Cancel, Crash
<1>3. probes' \in [Scopes -> SUBSET Executors] /\ \A k \in Scopes : probes'[k] \subseteq probes[k] \ {e}
  BY DEF Cancel, Crash, Unprobed, Inv, Types
<1>4. UNCHANGED <<health, recovering>>
  BY DEF Cancel, Crash
<1>5. ProbesFly'
  BY <1>2, <1>3, <1>4, QuietKeepsProbes DEF Inv, Types, ProbesFly
<1> QED
  BY <1>1, <1>2, <1>3, <1>4, <1>5, QuietKeepsCalls DEF Inv, Types

-----------------------------------------------------------------------------
(* Granting a request *)

\* A candidate is granted only if its scopes have room, as acquire sees them.
LEMMA EligibleHasRoom ==
  ASSUME Inv, NEW e \in Executors, NEW c \in Eligible(e)
  PROVE  /\ c \in Candidates
         /\ \A k \in ScopeSet(c) : /\ k \in Scopes
                                   /\ HasRoom(e, k)
                                   /\ Refreshed(e)[k] = Seen(e, k)
<1>1. c \in Considered(e) /\ c \in Candidates
  BY FitsAssumption DEF Eligible, Possible, Considered
<1>2. ASSUME NEW k \in ScopeSet(c)
      PROVE  k \in Scopes /\ HasRoom(e, k) /\ Refreshed(e)[k] = Seen(e, k)
  <2>1. k \in Scopes
    BY <1>1, ScopesAssumption DEF ScopeSet
  <2>2. HasRoom(e, k) /\ \A x \in ScopeSet(c) : ~Seen(e, x).disabled
    BY DEF Eligible, Possible
  <2>3. k \in Reached(e, c)
    BY <2>2 DEF Reached, ScopeSet
  <2> QED
    BY <1>1, <2>1, <2>2, <2>3 DEF Refreshed
<1> QED
  BY <1>1, <1>2

\* A granted lease keeps the invariant: acquire looks at every limit first.
LEMMA AcquireInv ==
  ASSUME Inv, NEW e \in Executors, Acquire(e)
  PROVE  Inv'
<1> PICK c \in Eligible(e), l \in Leases :
        /\ l \notin Held
        /\ \A d \in Executors : exec[d].lease # l
        /\ lease' = [Pruned EXCEPT ![l] = [cand |-> c, ttl |-> LeaseTtl]]
        /\ exec' = [exec EXCEPT ![e].pc = "calling", ![e].calls = @ + 1, ![e].lease = l,
                                ![e].cand = c, ![e].timer = RequestTicks]
        /\ probes' = [k \in Scopes |-> IF k \in ScopeSet(c) THEN probes[k] \cup {e} ELSE probes[k]]
  BY DEF Acquire
<1>1. /\ exec[e].pc = "loop" /\ exec[e].calls < MaxCalls /\ Cardinality(Held) < GlobalLimit
      /\ health' = Refreshed(e) /\ recovering' = recovering \ Renamed(e)
  BY DEF Acquire, GlobalRoom
<1>2. /\ c \in Candidates
      /\ \A k \in ScopeSet(c) : k \in Scopes /\ HasRoom(e, k) /\ Refreshed(e)[k] = Seen(e, k)
  BY EligibleHasRoom
<1>3. /\ exec' \in [Executors -> Exec]
      /\ \A d \in Executors \ {e} : exec'[d] = exec[d]
      /\ exec'[e].pc = "calling" /\ exec'[e].lease = l /\ exec'[e].cand = c
      /\ exec'[e].timer = RequestTicks
  BY <1>1, <1>2, CallType DEF Inv
<1>4. /\ lease' \in [Leases -> LeaseRow \cup {None}]
      /\ lease'[l] = [cand |-> c, ttl |-> RequestTicks + GraceTicks]
      /\ \A m \in Leases \ {l} : lease'[m] = IF m \in Held THEN lease[m] ELSE None
  <2>1. [cand |-> c, ttl |-> LeaseTtl] \in LeaseRow
    BY <1>2, Ranges DEF LeaseTtl, LeaseRow
  <2> QED
    BY <2>1 DEF Pruned, LeaseTtl, Inv, Types
<1>5. Types'
  BY <1>1, <1>3, <1>4, RefreshedType DEF Inv, Types
<1>6. CallsCovered'
  <2> SUFFICES ASSUME NEW d \in Executors, exec'[d].pc = "calling"
               PROVE  CallHasLease(d)'
    BY DEF CallsCovered
  <2>1. CASE d = e
    <3>1. lease'[l] # None /\ lease'[l].cand = c /\ lease'[l].ttl = RequestTicks + GraceTicks
      <4>1. lease'[l] \in LeaseRow
        BY <1>2, <1>4, Ranges DEF LeaseRow
      <4> QED
        BY <1>4, <4>1, NoneAssumption DEF LeaseRow
    <3>2. \A x \in Executors : exec'[x].lease = l => x = e
      BY <1>3
    <3> QED
      BY <1>3, <2>1, <3>1, <3>2 DEF CallHasLease
  <2>2. CASE d # e
    <3>1. exec'[d] = exec[d] /\ CallHasLease(d) /\ exec[d].lease \in Held
      BY <1>3, <2>2, CallHolds DEF Inv, CallsCovered
    <3>2. lease'[exec[d].lease] = lease[exec[d].lease] /\ exec[d].lease # l
      BY <1>4, <3>1, HeldFinite
    <3>3. ASSUME NEW x \in Executors, exec'[x].lease = exec'[d].lease
          PROVE  x = d
      BY <1>3, <3>1, <3>2, <3>3 DEF CallHasLease
    <3> QED
      BY <3>1, <3>2, <3>3 DEF CallHasLease
  <2> QED
    BY <2>1, <2>2
<1>7. Held' \subseteq Held \cup {l} /\ \A m \in Held : m # l /\ lease'[m] = lease[m]
  BY <1>4, HeldFinite DEF Held
<1>8. LimitsOfLeases'
  <2>1. Cardinality(Held') <= GlobalLimit
    <3>1. Cardinality(Held \cup {l}) = Cardinality(Held) + 1 /\ IsFiniteSet(Held \cup {l})
      BY HeldFinite, FS_AddElement
    <3>2. Cardinality(Held') <= Cardinality(Held \cup {l}) /\ Cardinality(Held') \in Nat
      BY <1>7, <3>1, FS_Subset, FS_CardinalityType
    <3> QED
      BY <1>1, <3>1, <3>2, HeldFinite, Ranges
  <2>2. ASSUME NEW k \in Scopes PROVE Cardinality(ActiveOn(k)') <= MaxCapacity
    <3>1. CASE k \notin ScopeSet(c)
      <4>1. ActiveOn(k)' \subseteq ActiveOn(k)
        BY <1>4, <1>7, <3>1 DEF ActiveOn
      <4>2. Cardinality(ActiveOn(k)') <= Cardinality(ActiveOn(k)) /\ Cardinality(ActiveOn(k)') \in Nat
        BY <4>1, HeldFinite, FS_Subset, FS_CardinalityType
      <4> QED
        BY <4>2, HeldFinite, Ranges DEF Inv, LimitsOfLeases
    <3>2. CASE k \in ScopeSet(c)
      <4>1. Cardinality(ActiveOn(k)) < MaxCapacity
        <5>1. Seen(e, k).capacity \in 1 .. MaxCapacity
          BY <2>2, SeenType DEF Inv, Health
        <5>2. Cardinality(ActiveOn(k)) < IF Seen(e, k).probing THEN 1 ELSE Seen(e, k).capacity
          BY <1>2, <3>2 DEF HasRoom
        <5> QED
          BY <5>1, <5>2, HeldFinite, Ranges
      <4>2. ActiveOn(k)' \subseteq ActiveOn(k) \cup {l}
        BY <1>7 DEF ActiveOn
      <4>3. /\ Cardinality(ActiveOn(k) \cup {l}) <= Cardinality(ActiveOn(k)) + 1
            /\ IsFiniteSet(ActiveOn(k) \cup {l})
        <5>1. l \notin ActiveOn(k) /\ IsFiniteSet(ActiveOn(k))
          BY HeldFinite
        <5>2. IsFiniteSet(ActiveOn(k) \cup {l}) /\ Cardinality(ActiveOn(k) \cup {l}) = Cardinality(ActiveOn(k)) + 1
          BY <5>1, FS_AddElement
        <5> QED
          BY <5>2, HeldFinite
      <4>4. /\ Cardinality(ActiveOn(k)') <= Cardinality(ActiveOn(k) \cup {l})
            /\ Cardinality(ActiveOn(k)') \in Nat /\ Cardinality(ActiveOn(k) \cup {l}) \in Nat
        BY <4>2, <4>3, FS_Subset, FS_CardinalityType
      <4> QED
        BY <4>1, <4>3, <4>4, HeldFinite, Ranges
    <3> QED
      BY <3>1, <3>2
  <2> QED
    BY <2>1, <2>2 DEF LimitsOfLeases
<1>9. ProbesFly'
  <2>1. ASSUME NEW k \in Scopes, NEW d \in probes'[k]
        PROVE  exec'[d].pc = "calling" /\ k \in ScopeSet(exec'[d].cand)
    BY <1>1, <1>3 DEF Inv, Types, ProbesFly
  <2>2. ASSUME NEW k \in recovering' PROVE health'[k].capacity = 1
    BY <1>1, RefreshedSlot
  <2>3. ASSUME NEW k \in recovering', NEW d \in probes'[k], NEW x \in probes'[k]
        PROVE  d = x
    <3>1. k \in Scopes /\ k \in recovering
      BY <1>1 DEF Inv, Types
    <3>2. CASE k \notin ScopeSet(c)
      BY <3>1, <3>2 DEF Inv, ProbesFly
    <3>3. CASE k \in ScopeSet(c)
      <4>1. Seen(e, k).capacity = 1 /\ HasRoom(e, k)
        BY <1>1, <1>2, <2>2, <3>3
      <4>2. Cardinality(ActiveOn(k)) = 0
        BY <4>1, HeldFinite DEF HasRoom
      <4>3. ActiveOn(k) = {}
        BY <4>2, HeldFinite, FS_EmptySet
      <4>4. ASSUME NEW y \in probes[k] PROVE FALSE
        <5>1. y \in Executors /\ exec[y].pc = "calling" /\ k \in ScopeSet(exec[y].cand)
          BY <3>1 DEF Inv, Types, ProbesFly
        <5>2. exec[y].lease \in Held /\ lease[exec[y].lease].cand = exec[y].cand
          BY <5>1, CallHolds DEF Inv, CallsCovered, CallHasLease
        <5> QED
          BY <4>3, <5>1, <5>2 DEF ActiveOn
      <4> QED
        BY <3>1, <4>4
    <3> QED
      BY <3>2, <3>3
  <2> QED
    BY <2>1, <2>2, <2>3 DEF ProbesFly
<1> QED
  BY <1>5, <1>6, <1>8, <1>9 DEF Inv

-----------------------------------------------------------------------------
(* Time *)

\* Passing time keeps the invariant: leases outlive the requests they cover.
LEMMA TickInv ==
  ASSUME Inv, Tick
  PROVE  Inv'
<1>1. health' \in [Scopes -> Health]
      /\ \A k \in Scopes : health'[k].capacity = health[k].capacity
  <2>1. ASSUME NEW k \in Scopes
        PROVE  LET h == [health[k] EXCEPT !.cooldown = Less(@), !.stable = Lowest(@ + 1, StableTicks)]
               IN  h \in Health /\ h.capacity = health[k].capacity
    <3>1. health[k] \in Health
      BY DEF Inv, Types
    <3>2. Less(health[k].cooldown) \in 0 .. CoolTicks /\ Lowest(health[k].stable + 1, StableTicks) \in 0 .. StableTicks
      BY <3>1, Ranges DEF Health, Less, Lowest
    <3> QED
      BY <3>1, <3>2 DEF Health
  <2> QED
    BY <2>1 DEF Tick
<1>2. ASSUME NEW l \in Leases
      PROVE  /\ lease'[l] \in LeaseRow \cup {None}
             /\ lease[l] = None => lease'[l] = None
             /\ lease[l] # None => /\ lease'[l] # None
                                  /\ lease[l].ttl \in Nat
                                  /\ lease'[l].cand = lease[l].cand
                                  /\ lease'[l].ttl = Less(lease[l].ttl)
  <2>1. CASE lease[l] = None
    BY <2>1 DEF Tick
  <2>2. CASE lease[l] # None
    <3>1. lease[l] \in LeaseRow /\ lease'[l] = [lease[l] EXCEPT !.ttl = Less(@)]
      BY <2>2 DEF Tick, Inv, Types
    <3>2. Less(lease[l].ttl) \in 0 .. RequestTicks + GraceTicks /\ lease[l].ttl \in Nat
      BY <3>1, Ranges DEF LeaseRow, Less
    <3>3. /\ lease'[l] \in LeaseRow
          /\ lease'[l].cand = lease[l].cand /\ lease'[l].ttl = Less(lease[l].ttl)
      BY <3>1, <3>2 DEF LeaseRow
    <3>4. lease'[l] # None
      BY <3>3, NoneAssumption DEF LeaseRow
    <3> QED
      BY <2>2, <3>2, <3>3, <3>4
  <2> QED
    BY <2>1, <2>2
<1>3. ASSUME NEW e \in Executors
      PROVE  /\ exec'[e] \in Exec
             /\ exec'[e].pc = exec[e].pc /\ exec'[e].lease = exec[e].lease
             /\ exec'[e].cand = exec[e].cand /\ exec'[e].timer = Less(exec[e].timer)
             /\ exec[e].timer \in Nat
  <2>1. exec[e] \in Exec /\ exec'[e] = [exec[e] EXCEPT !.timer = Less(@)]
    BY DEF Tick, Inv, Types
  <2>2. Less(exec[e].timer) \in 0 .. RequestTicks /\ exec[e].timer \in Nat
    BY <2>1, Ranges DEF Exec, Less
  <2> QED
    BY <2>1, <2>2 DEF Exec
<1>4. UNCHANGED <<recovering, probes>>
  BY DEF Tick
<1>5. Types'
  <2>1. lease' \in [Leases -> LeaseRow \cup {None}] /\ exec' \in [Executors -> Exec]
    BY <1>2, <1>3 DEF Tick
  <2> QED
    BY <1>1, <1>4, <2>1 DEF Inv, Types
<1>6. CallsCovered'
  <2> SUFFICES ASSUME NEW e \in Executors, exec'[e].pc = "calling"
               PROVE  CallHasLease(e)'
    BY DEF CallsCovered
  <2>1. exec[e].pc = "calling" /\ CallHasLease(e) /\ exec[e].timer > 0
    BY <1>3 DEF Inv, CallsCovered, Tick, Inflight
  <2>2. /\ lease'[exec[e].lease].ttl = Less(exec[e].timer + GraceTicks)
        /\ lease'[exec[e].lease] # None /\ lease'[exec[e].lease].cand = exec[e].cand
    BY <1>2, <2>1 DEF CallHasLease
  <2>3. Less(exec[e].timer + GraceTicks) = Less(exec[e].timer) + GraceTicks
    BY <1>3, <2>1, Ranges DEF Less
  <2> QED
    BY <1>3, <2>1, <2>2, <2>3 DEF CallHasLease
<1>7. LimitsOfLeases'
  <2>1. Held' \subseteq Held /\ \A l \in Held' : lease'[l].cand = lease[l].cand
    BY <1>2 DEF Held, Less
  <2> QED
    BY <2>1, DropKeepsLimits
<1>8. ProbesFly'
  BY <1>1, <1>3, <1>4 DEF Inv, Types, ProbesFly
<1> QED
  BY <1>5, <1>6, <1>7, <1>8 DEF Inv

-----------------------------------------------------------------------------
(* The theorems *)

\* The invariant holds before the first call.
LEMMA InitInv == Init => Inv
<1> SUFFICES ASSUME Init PROVE Inv
  OBVIOUS
<1>1. Types
  <2>1. [NewHealth(None) EXCEPT !.identity = None] \in Health
    BY NewHealthType DEF Health
  <2>2. IdleExec \in Exec
    BY Ranges DEF IdleExec, Exec, ExecPc, Result
  <2> QED
    BY <2>1, <2>2 DEF Init, Types
<1>2. CallsCovered
  BY DEF Init, CallsCovered, IdleExec
<1>3. LimitsOfLeases
  <2>1. Held = {} /\ \A k : ActiveOn(k) = {}
    BY DEF Init, Held, ActiveOn
  <2> QED
    BY <2>1, FS_EmptySet, Ranges DEF LimitsOfLeases
<1>4. ProbesFly
  BY DEF Init, ProbesFly
<1> QED
  BY <1>1, <1>2, <1>3, <1>4 DEF Inv

\* The invariant is inductive.
LEMMA StepInv == Inv /\ [Next]_vars => Inv'
<1>1. ASSUME Inv, NEW e \in Executors, Step(e) PROVE Inv'
  <2>1. CASE Begin(e) \/ OutOfCalls(e) \/ Stop(e)
    BY <1>1, <2>1, OffSnapshot
  <2>2. CASE Acquire(e) \/ Wait(e) \/ NoCandidate(e)
    BY <1>1, <2>2, AcquireInv, NoGrant
  <2>3. CASE Crash(e)
    BY <1>1, <2>3, OffSnapshot, LostInv DEF Crash
  <2>4. CASE Report(e)
    BY <1>1, <2>4, SucceedInv, FailInv, LostInv DEF Report, Cancel
  <2> QED
    BY <1>1, <2>1, <2>2, <2>3, <2>4 DEF Step
<1>2. ASSUME Inv, UNCHANGED vars PROVE Inv'
  BY <1>2 DEF Inv, Types, CallsCovered, CallHasLease, LimitsOfLeases, ProbesFly, Held, ActiveOn, vars
<1> QED
  BY <1>1, <1>2, TickInv DEF Next

\* The invariant holds in every reachable state.
LEMMA InvHolds == Spec => []Inv
BY InitInv, StepInv, PTL DEF Spec

\* Every reachable snapshot and execution is well typed; in particular no
\* capacity ever falls to zero or exceeds the maximum (TypeOK).
THEOREM TypeCorrect == Spec => []TypeOK
<1>1. Inv => TypeOK
  BY TypesGiveTypeOK DEF Inv
<1> QED
  BY <1>1, InvHolds, PTL

\* A request in flight keeps its own lease until it reports: no acquire of any
\* process prunes it, because leases outlast requests by the grace period.
THEOREM LeasesCoverCalls == Spec => []CallsHoldLeases
<1>1. Inv => CallsHoldLeases
  BY CallHolds DEF Inv, CallsCovered, CallHasLease, CallsHoldLeases, Inflight
<1> QED
  BY <1>1, InvHolds, PTL

\* Requests with pairwise distinct leases in a finite set of leases are no more
\* than the leases.
LEMMA CallsCountAsLeases ==
  ASSUME Inv, NEW E \in SUBSET Inflight, NEW L, IsFiniteSet(L),
         \A e \in E : exec[e].lease \in L
  PROVE  Cardinality(E) <= Cardinality(L) /\ Cardinality(E) \in Nat
<1> DEFINE f == [e \in E |-> exec[e].lease]
<1>1. f \in [E -> L]
  OBVIOUS
<1>2. ASSUME NEW d \in E, NEW e \in E, f[d] = f[e] PROVE d = e
  BY <1>2 DEF Inv, CallsCovered, CallHasLease, Inflight
<1>3. f \in Injection(E, L)
  BY <1>1, <1>2 DEF Injection, IsInjective
<1> QED
  BY <1>3, FS_Injection, FS_CardinalityType

\* globalConcurrency bounds the requests in flight over all processes, and the
\* maximum of a group, provider or model bounds those on it.
THEOREM GlobalLimitHolds == Spec => []GlobalLimitKept
<1>1. Inv => GlobalLimitKept
  <2> SUFFICES ASSUME Inv PROVE GlobalLimitKept
    OBVIOUS
  <2>1. Cardinality(Inflight) <= Cardinality(Held) /\ Cardinality(Inflight) \in Nat
    BY CallHolds, HeldFinite, CallsCountAsLeases DEF Inflight
  <2> QED
    BY <2>1, HeldFinite, Ranges DEF GlobalLimitKept, Inv, LimitsOfLeases
<1> QED
  BY <1>1, InvHolds, PTL

\* The limit of one scope, likewise.
THEOREM ScopeLimitHolds == Spec => []ScopeLimitKept
<1>1. Inv => ScopeLimitKept
  <2> SUFFICES ASSUME Inv, NEW k \in Scopes
               PROVE  Cardinality({e \in Inflight : k \in ScopeSet(exec[e].cand)}) <= MaxCapacity
    BY DEF ScopeLimitKept
  <2> DEFINE E == {e \in Inflight : k \in ScopeSet(exec[e].cand)}
  <2>1. \A e \in E : exec[e].lease \in ActiveOn(k)
    BY CallHolds DEF Inflight, ActiveOn, Inv, CallsCovered, CallHasLease
  <2>2. Cardinality(E) <= Cardinality(ActiveOn(k)) /\ Cardinality(E) \in Nat
    BY <2>1, HeldFinite, CallsCountAsLeases
  <2> QED
    BY <2>2, HeldFinite, Ranges DEF Inv, LimitsOfLeases
<1> QED
  BY <1>1, InvHolds, PTL

\* While a scope recovers from an open breaker at most one probe is out, even
\* when requests granted before it opened succeed, fail or hang on.
THEOREM SingleProbeHolds == Spec => []SingleProbe
<1>1. Inv => SingleProbe
  <2> SUFFICES ASSUME Inv, NEW k \in recovering PROVE Cardinality(probes[k]) <= 1
    BY DEF SingleProbe
  <2>1. \A d, e \in probes[k] : d = e
    BY DEF Inv, ProbesFly
  <2>2. probes[k] = {} \/ \E e : probes[k] = {e}
    BY <2>1
  <2>3. CASE probes[k] = {}
    BY <2>3, FS_EmptySet
  <2>4. CASE \E e : probes[k] = {e}
    <3>1. PICK e : probes[k] = {e}
      BY <2>4
    <3>2. Cardinality({e}) = 1
      BY FS_Singleton
    <3> QED
      BY <3>1, <3>2
  <2> QED
    BY <2>2, <2>3, <2>4
<1> QED
  BY <1>1, InvHolds, PTL

-----------------------------------------------------------------------------
(* The reason for attention *)

\* An execution that is under way has no result yet.
NoResultYet == \A e \in Executors : exec[e].pc \in {"loop", "calling"} => exec[e].result = "none"

\* What a step does to the result of an execution under way.
LEMMA ResultStep ==
  ASSUME Inv, NoResultYet, NEW d \in Executors, Step(d)
  PROVE  NoResultYet'
<1>0. exec \in [Executors -> Exec]
  BY DEF Inv, Types
<1>1. ASSUME NEW result, Ends(d, result)
      PROVE  NoResultYet'
  BY <1>0, <1>1 DEF Ends, NoResultYet
<1>2. CASE Begin(d)
  BY <1>0, <1>2 DEF Begin, NoResultYet, IdleExec
<1>3. CASE Acquire(d)
  <2>1. PICK c \in Eligible(d), l \in Leases :
          exec' = [exec EXCEPT ![d].pc = "calling", ![d].calls = @ + 1, ![d].lease = l,
                               ![d].cand = c, ![d].timer = RequestTicks]
    BY <1>3 DEF Acquire
  <2> QED
    BY <1>0, <1>3, <2>1 DEF NoResultYet, Acquire
<1>4. CASE Wait(d)
  BY <1>4 DEF Wait, NoResultYet
<1>5. CASE NoCandidate(d)
  <2>1. CASE exec' = [exec EXCEPT ![d].excluded = {}]
    BY <1>0, <2>1 DEF NoResultYet
  <2> QED
    BY <1>1, <1>5, <2>1 DEF NoCandidate, GiveUp
<1>6. CASE \E kind \in ErrorKinds : Fail(d, kind)
  <2>1. PICK kind \in ErrorKinds : Fail(d, kind)
    BY <1>6
  <2>2. CASE Splits(d, kind)
    BY <1>1, <2>1, <2>2 DEF Fail
  <2>3. CASE ~Splits(d, kind)
    <3>1. exec[d].pc = "calling"
          /\ exec' = [exec EXCEPT ![d].pc = "loop", ![d].excluded = @ \cup {exec[d].cand}, ![d].lease = None,
                                  ![d].cand = None, ![d].timer = 0,
                                  ![d].structure = IF kind = "structure" THEN 1 ELSE @]
      BY <2>1, <2>3 DEF Fail
    <3> QED
      BY <1>0, <3>1 DEF NoResultYet
  <2> QED
    BY <2>2, <2>3
<1> QED
  BY <1>1, <1>2, <1>3, <1>4, <1>5, <1>6 DEF Step, OutOfCalls, Stop, Crash, Report, Succeed, Cancel

\* A candidate that is not possible has a scope that acquire reaches and sees
\* disabled: the first disabled one.
LEMMA DisabledIsReached ==
  ASSUME Inv, NEW e \in Executors, NEW c \in Considered(e), c \notin Possible(e)
  PROVE  \E k \in ScopeSet(c) : k \in Reached(e, c) /\ Seen(e, k).disabled
<1> DEFINE D == {j \in DOMAIN ScopesOf[c] : Seen(e, ScopesOf[c][j]).disabled}
<1>1. ScopesOf[c] \in Seq(Scopes)
  BY ScopesAssumption, FitsAssumption DEF Considered
<1>2. DOMAIN ScopesOf[c] \subseteq Nat
  BY <1>1
<1>3. D \in SUBSET Nat /\ D # {}
  BY <1>2 DEF Possible, ScopeSet
<1> HIDE DEF D
<1>4. PICK j \in D : \A m \in D : j <= m
  <2> DEFINE R == OpToRel(<, Nat)
  <2>1. IsWellFoundedOn(R, Nat)
    BY NatLessThanWellFounded
  <2>2. \A x, y \in Nat : x < y => <<x, y>> \in R
    BY DEF OpToRel
  <2> HIDE DEF R
  <2>3. PICK j \in D : \A m \in D : <<m, j>> \notin R
    BY <1>3, <2>1, WFMin, Zenon
  <2>4. \A m \in D : ~(m < j)
    BY <1>3, <2>2, <2>3
  <2>5. \A m \in D : m \in Nat /\ j \in Nat
    BY <1>3
  <2> QED
    BY <2>4, <2>5
<1>5. j \in DOMAIN ScopesOf[c] /\ Seen(e, ScopesOf[c][j]).disabled
  BY DEF D
<1>6. ASSUME NEW m \in DOMAIN ScopesOf[c], m < j
      PROVE  ~Seen(e, ScopesOf[c][m]).disabled
  <2>1. m \notin D
    BY <1>2, <1>4, <1>5, <1>6
  <2> QED
    BY <2>1 DEF D
<1> QED
  BY <1>5, <1>6 DEF Reached, ScopeSet

\* A step of one execution leaves the others alone.
LEMMA OthersStay ==
  ASSUME NEW d \in Executors, NEW e \in Executors, d # e, Step(d), exec \in [Executors -> Exec]
  PROVE  exec'[e] = exec[e]
<1>1. ASSUME NEW result, Ends(d, result)
      PROVE  exec'[e] = exec[e]
  BY <1>1 DEF Ends
<1>2. CASE Begin(d) \/ Wait(d)
  BY <1>2 DEF Begin, Wait
<1>3. CASE Acquire(d)
  <2>1. PICK c \in Eligible(d), l \in Leases :
          exec' = [exec EXCEPT ![d].pc = "calling", ![d].calls = @ + 1, ![d].lease = l,
                               ![d].cand = c, ![d].timer = RequestTicks]
    BY <1>3 DEF Acquire
  <2> QED
    BY <2>1
<1>4. CASE NoCandidate(d)
  BY <1>1, <1>4 DEF NoCandidate, GiveUp
<1>5. CASE \E kind \in ErrorKinds : Fail(d, kind)
  <2>1. PICK kind \in ErrorKinds : Fail(d, kind)
    BY <1>5
  <2> QED
    BY <1>1, <2>1 DEF Fail
<1> QED
  BY <1>1, <1>2, <1>3, <1>4, <1>5 DEF Step, OutOfCalls, Stop, Crash, Report, Succeed, Cancel

\* The step that asks for attention finds no candidate, with none left out.
LEMMA AttentionStep ==
  ASSUME Inv, NoResultYet, [Next]_vars, NEW e \in Executors,
         exec[e].pc = "loop", exec[e].calls < MaxCalls, exec'[e].result = "attention"
  PROVE  NoCandidate(e) /\ exec[e].excluded = {} /\ FitsFor[e] = Candidates
<1>0. exec \in [Executors -> Exec] /\ exec[e].result = "none"
  BY DEF Inv, Types, NoResultYet
<1>1. ASSUME NEW d \in Executors, d # e, Step(d)
      PROVE  FALSE
  <2>1. exec'[e] = exec[e]
    BY <1>0, <1>1, OthersStay
  <2> QED
    BY <1>0, <2>1
<1>2. CASE Tick
  BY <1>0, <1>2 DEF Tick, Exec
<1>3. CASE UNCHANGED vars
  BY <1>0, <1>3 DEF vars
<1>4. CASE Step(e)
  <2>1. \A result : Ends(e, result) => exec'[e].result = result
    BY <1>0 DEF Ends, Exec
  <2>2. ~Stop(e) /\ ~Crash(e)
    BY <2>1 DEF Stop, Crash
  <2>3. ~Begin(e) /\ ~Acquire(e) /\ ~Wait(e) /\ ~OutOfCalls(e) /\ ~Report(e)
    <3>1. ~Acquire(e)
      <4> SUFFICES ASSUME Acquire(e) PROVE FALSE
        OBVIOUS
      <4>1. PICK c \in Eligible(e), l \in Leases :
              exec' = [exec EXCEPT ![e].pc = "calling", ![e].calls = @ + 1, ![e].lease = l,
                                   ![e].cand = c, ![e].timer = RequestTicks]
        BY DEF Acquire
      <4> QED
        BY <1>0, <4>1
    <3>2. ~OutOfCalls(e)
      BY <1>0, Ranges DEF OutOfCalls, Exec
    <3>3. ~Begin(e) /\ ~Wait(e) /\ ~Report(e)
      BY <1>0 DEF Begin, Wait, Report, Succeed, Cancel, Fail
    <3> QED
      BY <3>1, <3>2, <3>3
  <2>4. NoCandidate(e)
    BY <1>4, <2>2, <2>3 DEF Step
  <2>5. exec[e].excluded = {}
    <3> SUFFICES ASSUME exec[e].excluded # {} PROVE FALSE
      OBVIOUS
    <3>1. exec' = [exec EXCEPT ![e].excluded = {}]
      BY <2>4 DEF NoCandidate, GiveUp
    <3> QED
      BY <1>0, <3>1 DEF Exec
  <2>6. FitsFor[e] = Candidates
    BY <2>1, <2>4, <2>5 DEF NoCandidate, GiveUp
  <2> QED
    BY <2>4, <2>5, <2>6
<1> QED
  BY <1>1, <1>2, <1>3, <1>4 DEF Next

\* An execution that asks for attention while it may still call has seen every
\* model disabled, and acquire has stored that: neither a cooldown nor a
\* failure of this execution, nor a stop in the middle of the scopes of a
\* model, can have taken one away.
THEOREM AttentionWarranted == Spec => AttentionIsWarranted
<1> DEFINE Warranted ==
      \A e \in Executors :
        exec[e].pc = "loop" /\ exec[e].calls < MaxCalls /\ exec'[e].result = "attention"
          => \A c \in FitsFor[e] : \E k \in ScopeSet(c) : health'[k].disabled
<1>1. Init => NoResultYet
  BY DEF Init, NoResultYet, IdleExec
<1>2. Inv /\ NoResultYet /\ [Next]_vars => NoResultYet'
  <2> SUFFICES ASSUME Inv, NoResultYet, [Next]_vars PROVE NoResultYet'
    OBVIOUS
  <2>1. CASE \E d \in Executors : Step(d)
    BY <2>1, ResultStep
  <2>2. CASE Tick
    <3>1. exec \in [Executors -> Exec]
      BY DEF Inv, Types
    <3>2. \A e \in Executors : exec'[e].pc = exec[e].pc /\ exec'[e].result = exec[e].result
      BY <2>2, <3>1 DEF Tick, Exec
    <3> QED
      BY <3>2 DEF NoResultYet
  <2>3. CASE UNCHANGED vars
    BY <2>3 DEF vars, NoResultYet
  <2> QED
    BY <2>1, <2>2, <2>3 DEF Next
<1>3. Inv /\ NoResultYet /\ [Next]_vars => Warranted
  <2> SUFFICES ASSUME Inv, NoResultYet, [Next]_vars, NEW e \in Executors,
                      exec[e].pc = "loop", exec[e].calls < MaxCalls, exec'[e].result = "attention",
                      NEW c \in FitsFor[e]
               PROVE  \E k \in ScopeSet(c) : health'[k].disabled
    OBVIOUS
  <2>1. NoCandidate(e) /\ exec[e].excluded = {}
    BY AttentionStep
  <2>2. c \in Considered(e) /\ c \notin Possible(e) /\ health' = Refreshed(e)
    BY <2>1 DEF NoCandidate, Considered
  <2>3. PICK k \in ScopeSet(c) : k \in Reached(e, c) /\ Seen(e, k).disabled
    BY <2>2, DisabledIsReached
  <2>4. k \in Scopes
    BY ScopesAssumption, FitsAssumption DEF ScopeSet
  <2> QED
    BY <2>2, <2>3, <2>4 DEF Refreshed
<1> HIDE DEF Warranted
<1>4. Spec => [][Warranted]_vars
  BY <1>1, <1>2, <1>3, InvHolds, PTL DEF Spec
<1> QED
  BY <1>4 DEF Warranted, AttentionIsWarranted

=============================================================================
