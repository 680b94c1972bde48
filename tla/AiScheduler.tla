---------------------------- MODULE AiScheduler ----------------------------
(***************************************************************************)
(* The adaptive scheduler of external AI requests                          *)
(* (backend/src/services/ai-adaptive-scheduler.ts) over the snapshot that  *)
(* ai-scheduler-store.ts reads and writes under one global lock: every     *)
(* acquire and every finish is one atomic step.                            *)
(*                                                                         *)
(* An executor is one running execute() in some process.  It acquires a    *)
(* lease on a candidate model, performs the request, reports the result    *)
(* and loops until it returns.  A candidate belongs to scopes (quota group,*)
(* provider, model), each with its own health: capacity, breaker, cooldown.*)
(*                                                                         *)
(* Times are counted down in ticks.  Start spacing, the minute window and  *)
(* the daily quota only delay a grant: a candidate which they hold back is *)
(* one that acquire does not select (Wait).                                *)
(***************************************************************************)
EXTENDS Integers, FiniteSets, Sequences

CONSTANTS Candidates,     \* configured models
          Scopes,         \* health keys
          ScopesOf,       \* candidate -> sequence of scopes, in the order checked
          GroupScopes,    \* the scopes that are quota groups
          ModelScopes,    \* the scopes that belong to one model
          Executors,      \* concurrent executions, over all processes
          IdentityOf,     \* executor -> fingerprint of the credentials it was configured with
          FitsFor,        \* executor -> candidates with room for its request
          Leases,         \* lease identities
          ErrorKinds,     \* failure kinds that occur
          GlobalLimit,    \* scheduling.globalConcurrency
          InitialCapacity, MaxCapacity,
          MaxCalls,       \* scheduling.maxAttempts
          GrowAfter,      \* successes before the capacity grows (10)
          StableTicks,    \* how long the scope must have been stable (2 min)
          TripAfter,      \* failures that open the breaker (3)
          CoolTicks,      \* longest cooldown
          TripTicks,      \* shortest cooldown of an open breaker (1 min)
          RequestTicks,   \* total timeout of a request
          GraceTicks,     \* how much longer its lease lasts (30 s)
          None

AllKinds == {"rate", "quota", "exhausted", "auth", "permission", "missing_model", "network", "length",
             "structure", "refusal", "parameter", "first_timeout", "idle_timeout", "total_timeout"}

ASSUME ScopesAssumption == ScopesOf \in [Candidates -> Seq(Scopes)]
ASSUME FitsAssumption == FitsFor \in [Executors -> SUBSET Candidates]
ASSUME KindsAssumption == ErrorKinds \subseteq AllKinds
ASSUME CapacityAssumption ==
  /\ MaxCapacity \in Nat \ {0}
  /\ InitialCapacity \in Nat \ {0}
  /\ GlobalLimit \in Nat \ {0}
ASSUME TicksAssumption ==
  /\ {CoolTicks, TripTicks, StableTicks, RequestTicks, GraceTicks} \subseteq Nat
  /\ TripTicks <= CoolTicks
  /\ GraceTicks > 0
ASSUME CountsAssumption == {MaxCalls, GrowAfter, TripAfter} \subseteq Nat \ {0}
ASSUME LeasesAssumption == IsFiniteSet(Leases)
ASSUME NoneAssumption ==
  None \notin Leases \cup Candidates \cup [cand : Candidates, ttl : 0 .. RequestTicks + GraceTicks]

VARIABLES health,     \* AiSchedulerState: health per scope
          lease,      \* AiSchedulerState: the leases
          exec,       \* the executors
          recovering, \* history: scopes tripped and not grown since
          probes      \* history: per scope, in-flight calls granted since its last trip

vars == <<health, lease, exec, recovering, probes>>

-----------------------------------------------------------------------------
Health == [identity : {IdentityOf[e] : e \in Executors} \cup {None},
           capacity : 1 .. MaxCapacity, successes : 0 .. GrowAfter, failures : 0 .. TripAfter,
           stable : 0 .. StableTicks, cooldown : 0 .. CoolTicks, disabled : BOOLEAN, probing : BOOLEAN]
Lease == [cand : Candidates, ttl : 0 .. RequestTicks + GraceTicks] \cup {None}
ExecPc == {"off", "loop", "calling", "done"}
Result == {"none", "value", "split", "attention", "paused"}
Exec == [pc : ExecPc, result : Result, excluded : SUBSET Candidates, calls : 0 .. MaxCalls,
         structure : 0 .. 1, lease : Leases \cup {None}, cand : Candidates \cup {None},
         timer : 0 .. RequestTicks]

TypeOK ==
  /\ health \in [Scopes -> Health]
  /\ lease \in [Leases -> Lease]
  /\ exec \in [Executors -> Exec]
  /\ recovering \in SUBSET Scopes
  /\ probes \in [Scopes -> SUBSET Executors]

Lowest(a, b) == IF a <= b THEN a ELSE b
Highest(a, b) == IF a >= b THEN a ELSE b

ScopeSet(c) == {ScopesOf[c][i] : i \in DOMAIN ScopesOf[c]}

\* health[key] = {...}: a scope seen for the first time, or under new credentials
NewHealth(id) ==
  [identity |-> id, capacity |-> Lowest(InitialCapacity, MaxCapacity), successes |-> 0, failures |-> 0,
   stable |-> 0, cooldown |-> 0, disabled |-> FALSE, probing |-> FALSE]

IdleExec == [pc |-> "off", result |-> "none", excluded |-> {}, calls |-> 0, structure |-> 0,
             lease |-> None, cand |-> None, timer |-> 0]

Init ==
  /\ health = [k \in Scopes |-> [NewHealth(None) EXCEPT !.identity = None]]
  /\ lease = [l \in Leases |-> None]
  /\ exec = [e \in Executors |-> IdleExec]
  /\ recovering = {}
  /\ probes = [k \in Scopes |-> {}]

-----------------------------------------------------------------------------
(* acquire *)

\* mutant of Held: an expired lease keeps its slot
HeldForever == {l \in Leases : lease[l] # None}

\* leases.filter(lease => lease.expiresAt > now)
Held == {l \in Leases : lease[l] # None /\ lease[l].ttl > 0}
ActiveOn(k) == {l \in Held : k \in ScopeSet(lease[l].cand)}
Inflight == {e \in Executors : exec[e].pc = "calling"}

Considered(e) == {c \in FitsFor[e] : c \notin exec[e].excluded}

\* The health as acquire sees it for the credentials of e.
Seen(e, k) ==
  IF health[k].identity # IdentityOf[e] THEN NewHealth(IdentityOf[e])
  ELSE [health[k] EXCEPT !.capacity = Lowest(@, MaxCapacity)]

\* The scopes of c in order, up to the first disabled one.
Reached(e, c) ==
  {ScopesOf[c][i] : i \in {j \in DOMAIN ScopesOf[c] :
     \A m \in DOMAIN ScopesOf[c] : m < j => ~Seen(e, ScopesOf[c][m]).disabled}}

Possible(e) == {c \in Considered(e) : \A k \in ScopeSet(c) : ~Seen(e, k).disabled}

\* active < (state.probing ? 1 : state.capacity)
HasRoom(e, k) ==
  Cardinality(ActiveOn(k)) < IF Seen(e, k).probing THEN 1 ELSE Seen(e, k).capacity

Eligible(e) ==
  {c \in Possible(e) : \A k \in ScopeSet(c) : Seen(e, k).cooldown = 0 /\ HasRoom(e, k)}

\* What acquire writes back: refreshed health, and no expired lease.
Refreshed(e) ==
  [k \in Scopes |-> IF \E c \in Considered(e) : k \in Reached(e, c) THEN Seen(e, k) ELSE health[k]]
Renamed(e) ==
  {k \in Scopes : Refreshed(e)[k].identity # health[k].identity}
Pruned == [l \in Leases |-> IF l \in Held THEN lease[l] ELSE None]

\* mutant of LeaseTtl: the lease ends with the request
LeaseTtlNoGrace == RequestTicks

LeaseTtl == RequestTicks + GraceTicks

\* mutant of GlobalRoom: the limit is checked after the fact
GlobalRoomOffByOne == Cardinality(Held) <= GlobalLimit

GlobalRoom == Cardinality(Held) < GlobalLimit

Begin(e) ==
  /\ exec[e].pc \in {"off", "done"}
  /\ exec' = [exec EXCEPT ![e] = [IdleExec EXCEPT !.pc = "loop"]]
  /\ UNCHANGED <<health, lease, recovering, probes>>

\* A candidate is granted: the lease is stored and the request starts.
Acquire(e) ==
  /\ exec[e].pc = "loop"
  /\ exec[e].calls < MaxCalls
  /\ GlobalRoom
  /\ \E c \in Eligible(e), l \in Leases :
       /\ l \notin Held
       /\ \A d \in Executors : exec[d].lease # l
       /\ lease' = [Pruned EXCEPT ![l] = [cand |-> c, ttl |-> LeaseTtl]]
       /\ exec' = [exec EXCEPT ![e].pc = "calling", ![e].calls = @ + 1, ![e].lease = l,
                               ![e].cand = c, ![e].timer = RequestTicks]
       /\ probes' = [k \in Scopes |-> IF k \in ScopeSet(c) THEN probes[k] \cup {e} ELSE probes[k]]
  /\ health' = Refreshed(e)
  /\ recovering' = recovering \ Renamed(e)

\* Nothing may start now: too many leases, or every possible candidate is
\* cooling, at its capacity, or held back by spacing or a rate window.
Wait(e) ==
  /\ exec[e].pc = "loop"
  /\ exec[e].calls < MaxCalls
  /\ ~GlobalRoom \/ Possible(e) # {}
  /\ health' = Refreshed(e)
  /\ lease' = Pruned
  /\ recovering' = recovering \ Renamed(e)
  /\ UNCHANGED <<exec, probes>>

Ends(e, result) ==
  exec' = [exec EXCEPT ![e].pc = "done", ![e].result = result, ![e].lease = None, ![e].cand = None, ![e].timer = 0]

\* mutant of GiveUp: the failed candidates are not tried again
GiveUpNoRetry(e) == Ends(e, IF FitsFor[e] # Candidates THEN "split" ELSE "attention")

\* next.unavailable: try the failed candidates again, else split an input no
\* model can take, else ask for attention
GiveUp(e) ==
  IF exec[e].excluded # {} THEN exec' = [exec EXCEPT ![e].excluded = {}]
  ELSE Ends(e, IF FitsFor[e] # Candidates THEN "split" ELSE "attention")

NoCandidate(e) ==
  /\ exec[e].pc = "loop"
  /\ exec[e].calls < MaxCalls
  /\ GlobalRoom
  /\ Possible(e) = {}
  /\ GiveUp(e)
  /\ health' = Refreshed(e)
  /\ lease' = Pruned
  /\ recovering' = recovering \ Renamed(e)
  /\ UNCHANGED probes

OutOfCalls(e) ==
  /\ exec[e].pc = "loop"
  /\ exec[e].calls = MaxCalls
  /\ Ends(e, "attention")
  /\ UNCHANGED <<health, lease, recovering, probes>>

\* The run deadline or an abort, noticed while no request is out.
Stop(e) ==
  /\ exec[e].pc = "loop"
  /\ Ends(e, "paused")
  /\ UNCHANGED <<health, lease, recovering, probes>>

-----------------------------------------------------------------------------
(* finish *)

ModelOnly == {"missing_model", "structure", "length", "parameter", "permission",
              "first_timeout", "idle_timeout", "total_timeout"}
Fatal == {"auth", "missing_model", "parameter", "exhausted"}

\* The scopes whose health a failure of this kind describes.
Blamed(c, kind) ==
  CASE kind = "refusal" -> {}
    [] kind = "auth" -> ScopeSet(c) \ GroupScopes
    [] kind \in ModelOnly -> ScopeSet(c) \cap ModelScopes
    [] OTHER -> ScopeSet(c)

\* A success closes the breaker; enough of them over a stable time add a slot.
Improved(h) ==
  LET grows == h.successes + 1 >= GrowAfter /\ h.stable = StableTicks
  IN [h EXCEPT !.failures = 0, !.probing = FALSE,
               !.successes = IF grows THEN 0 ELSE Lowest(@ + 1, GrowAfter),
               !.stable = IF grows THEN 0 ELSE @,
               !.capacity = IF grows THEN Lowest(MaxCapacity, @ + 1) ELSE @]

\* mutant of Worsened: opening the breaker leaves the capacity alone
WorsenedKeepsCapacity(h, kind, pause) ==
  [h EXCEPT !.successes = 0, !.stable = 0, !.failures = Lowest(@ + 1, TripAfter),
            !.disabled = @ \/ kind \in Fatal,
            !.cooldown = IF kind \in Fatal THEN @ ELSE Highest(@, pause),
            !.probing = @ \/ (kind \notin Fatal /\ h.failures + 1 >= TripAfter)]

\* A failure disables the scope, or cools it for "pause" ticks, halves it on a
\* rate limit, and opens the breaker after too many in a row.
Worsened(h, kind, pause) ==
  LET fatal == kind \in Fatal
      trips == ~fatal /\ h.failures + 1 >= TripAfter
      halved == IF kind = "rate" THEN Highest(1, h.capacity \div 2) ELSE h.capacity
      until == IF trips THEN Highest(pause, TripTicks) ELSE pause
  IN [h EXCEPT !.successes = 0, !.stable = 0, !.failures = Lowest(@ + 1, TripAfter),
               !.disabled = @ \/ fatal,
               !.cooldown = IF fatal THEN @ ELSE Highest(@, until),
               !.probing = @ \/ trips,
               !.capacity = IF trips THEN 1 ELSE halved]

Tripped(k, kind) ==
  /\ kind \notin Fatal
  /\ health[k].failures + 1 >= TripAfter

\* A scope the report is about: known under the same credentials.
Known(e, k) == health[k].identity = IdentityOf[e]

Dropped(e) == [lease EXCEPT ![exec[e].lease] = None]
Unprobed(e) == [k \in Scopes |-> probes[k] \ {e}]

Succeed(e) ==
  /\ exec[e].pc = "calling"
  /\ LET touched == {k \in ScopeSet(exec[e].cand) : Known(e, k)}
     IN /\ health' = [k \in Scopes |-> IF k \in touched THEN Improved(health[k]) ELSE health[k]]
        /\ recovering' = {k \in recovering : health'[k].capacity <= health[k].capacity}
  /\ lease' = Dropped(e)
  /\ probes' = Unprobed(e)
  /\ Ends(e, "value")

\* length, refusal and the second structure error hand the input back to be
\* split; every other failure tries another candidate.
Splits(e, kind) == kind \in {"length", "refusal"} \/ (kind = "structure" /\ exec[e].structure = 1)

Fail(e, kind) ==
  /\ exec[e].pc = "calling"
  /\ LET c == exec[e].cand
         touched == {k \in Blamed(c, kind) : Known(e, k)}
         tripped == {k \in touched : Tripped(k, kind)}
     IN /\ \E pause \in 0 .. CoolTicks :
             health' = [k \in Scopes |-> IF k \in touched THEN Worsened(health[k], kind, pause) ELSE health[k]]
        /\ recovering' = recovering \cup tripped
        /\ probes' = [k \in Scopes |-> IF k \in tripped THEN {} ELSE probes[k] \ {e}]
        /\ IF Splits(e, kind) THEN Ends(e, "split")
           ELSE exec' = [exec EXCEPT ![e].pc = "loop", ![e].excluded = @ \cup {c}, ![e].lease = None,
                                     ![e].cand = None, ![e].timer = 0,
                                     ![e].structure = IF kind = "structure" THEN 1 ELSE @]
  /\ lease' = Dropped(e)

\* An aborted request says nothing about the provider.
Cancel(e) ==
  /\ exec[e].pc = "calling"
  /\ lease' = Dropped(e)
  /\ probes' = Unprobed(e)
  /\ Ends(e, "paused")
  /\ UNCHANGED <<health, recovering>>

\* The process dies, or its report cannot be stored: the lease stays behind.
Crash(e) ==
  /\ exec[e].pc \in {"loop", "calling"}
  /\ probes' = Unprobed(e)
  /\ Ends(e, "none")
  /\ UNCHANGED <<health, lease, recovering>>

-----------------------------------------------------------------------------
\* One tick.  A request is over, and reported, before the tick in which its
\* lease would run out: performAiRequest aborts it at its total timeout.
Less(n) == IF n > 0 THEN n - 1 ELSE 0

Tick ==
  /\ \A e \in Inflight : exec[e].timer > 0
  /\ health' = [k \in Scopes |-> [health[k] EXCEPT !.cooldown = Less(@), !.stable = Lowest(@ + 1, StableTicks)]]
  /\ lease' = [l \in Leases |-> IF lease[l] = None THEN None ELSE [lease[l] EXCEPT !.ttl = Less(@)]]
  /\ exec' = [e \in Executors |-> [exec[e] EXCEPT !.timer = Less(@)]]
  /\ UNCHANGED <<recovering, probes>>

Report(e) == Succeed(e) \/ Cancel(e) \/ \E kind \in ErrorKinds : Fail(e, kind)

Step(e) ==
  \/ Begin(e) \/ Acquire(e) \/ Wait(e) \/ NoCandidate(e) \/ OutOfCalls(e) \/ Stop(e)
  \/ Crash(e) \/ Report(e)

Next == (\E e \in Executors : Step(e)) \/ Tick

Spec == Init /\ [][Next]_vars

\* Time passes and a request reports (performAiRequest aborts it in the end).
FairSpec == Spec /\ WF_vars(Tick) /\ \A e \in Executors : WF_vars(Report(e))

-----------------------------------------------------------------------------
(* Properties *)

\* Every request in flight holds a lease of its own that has not expired: no
\* acquire of another process drops it while the request still runs.
CallsHoldLeases ==
  \A e \in Inflight :
    /\ exec[e].lease \in Held
    /\ lease[exec[e].lease].cand = exec[e].cand
    /\ \A d \in Executors : exec[d].lease = exec[e].lease => d = e

\* No more requests are in flight over all processes than globalConcurrency.
GlobalLimitKept == Cardinality(Inflight) <= GlobalLimit

\* ... and no more on a group, provider or model than its maximum.
ScopeLimitKept ==
  \A k \in Scopes : Cardinality({e \in Inflight : k \in ScopeSet(exec[e].cand)}) <= MaxCapacity

\* While a scope recovers from an open breaker, one probe at most is out, even
\* when a request granted before the breaker opened succeeds late (README:
\* only one probe request is let through while recovering).
SingleProbe == \A k \in recovering : Cardinality(probes[k]) <= 1

\* An execution asks for attention only when every model it may use is
\* disabled, never because models cool down or failed in this execution.
AttentionIsWarranted ==
  [][\A e \in Executors :
       exec[e].pc = "loop" /\ exec[e].calls < MaxCalls /\ exec'[e].result = "attention"
         => \A c \in FitsFor[e] : \E k \in ScopeSet(c) : health'[k].disabled]_vars

\* The slot of a crashed process comes back: no lease lasts forever.
LeasesReturn == \A l \in Leases : l \in Held ~> l \notin Held

=============================================================================
