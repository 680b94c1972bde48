---------------------------- MODULE EveningProofs ----------------------------
(***************************************************************************)
(* Proofs about Evening for any days, sessions, stocks and evenings, any   *)
(* batch size, breaker, number of workers and faults: every evening of the *)
(* schedule is accounted for, a run loses its news for a cause only, and   *)
(* candles, prices and settled yields are what the properties of Evening   *)
(* say.                                                                    *)
(***************************************************************************)
EXTENDS Evening, FiniteSetTheorems, WellFoundedInduction, TLAPS

-----------------------------------------------------------------------------
(* Greatest and least days *)

\* A set of natural numbers has a least one.
LEMMA LeastNumber ==
  ASSUME NEW S \in SUBSET Nat, S # {}
  PROVE  \E m \in S : \A k \in S : m <= k
<1>. DEFINE R == OpToRel(<, Nat)
<1>1. IsWellFoundedOn(R, Nat)
  BY NatLessThanWellFounded
<1>2. \A x, y \in Nat : x < y => <<x, y>> \in R
  BY DEF OpToRel
<1>. HIDE DEF R
<1>3. PICK m \in S : \A k \in S : <<k, m>> \notin R
  BY <1>1, WFMin, Zenon
<1>4. \A k \in S : ~(k < m)
  BY <1>2, <1>3
<1>. QED
  BY <1>4

\* The least of a set of natural numbers.
LEMMA MinOf ==
  ASSUME NEW S \in SUBSET Nat, S # {}
  PROVE  Min(S) \in S /\ \A k \in S : Min(S) <= k
<1>1. \E m \in S : \A k \in S : m <= k
  BY LeastNumber
<1>. QED
  BY <1>1 DEF Min

\* The greatest of a bounded set of natural numbers.
LEMMA MaxOf ==
  ASSUME NEW hi \in Nat, NEW S \in SUBSET (0 .. hi), S # {}
  PROVE  Max(S) \in S /\ \A k \in S : Max(S) >= k
<1>. DEFINE gaps == {hi - k : k \in S}
<1>1. gaps \subseteq Nat /\ gaps # {}
  <2>1. \A k \in S : hi - k \in Nat
    OBVIOUS
  <2>2. PICK k \in S : TRUE
    OBVIOUS
  <2>3. hi - k \in gaps
    OBVIOUS
  <2>. QED
    BY <2>1, <2>3
<1>. HIDE DEF gaps
<1>2. PICK g \in gaps : \A h \in gaps : g <= h
  BY <1>1, LeastNumber
<1>. USE DEF gaps
<1>3. PICK m \in S : g = hi - m
  BY <1>2
<1>4. \A k \in S : hi - m <= hi - k
  BY <1>2, <1>3
<1>5. \A k \in S : m >= k
  BY <1>4
<1>. QED
  BY <1>5 DEF Max

\* Earliest is the least of a set of days, 0 without any.
LEMMA EarliestOf ==
  ASSUME NEW S \in SUBSET Days
  PROVE  /\ Earliest(S) \in S \cup {0}
         /\ Earliest(S) = 0 => S = {}
         /\ \A d \in S : Earliest(S) <= d
<1>1. S \subseteq Nat /\ 0 \notin S
  BY DaysAssumption DEF Days
<1>2. S # {} => Min(S) \in S /\ \A k \in S : Min(S) <= k
  BY <1>1, MinOf
<1>. QED
  BY <1>1, <1>2 DEF Earliest

\* The first evening that is not before an instant.
LEMMA FirstEvening ==
  ASSUME NEW t \in Nat, NEW n, n = Earliest({d \in Scheduled : 2 * d >= t})
  PROVE  /\ n \in Scheduled \cup {0} /\ (n # 0 => 2 * n >= t)
         /\ \A d \in Scheduled : IF n = 0 \/ d < n THEN 2 * d < t ELSE 2 * d >= t
<1>. DEFINE S == {d \in Scheduled : 2 * d >= t}
<1>1. Scheduled \subseteq Days /\ \A d \in Scheduled : d \in Nat
  BY DaysAssumption, ScheduleAssumption DEF Days
<1>2. S \subseteq Days /\ \A d \in Scheduled : d \in S <=> 2 * d >= t
  BY <1>1
<1>3. S \subseteq Scheduled
  OBVIOUS
<1>. HIDE DEF S
<1>4. /\ Earliest(S) \in S \cup {0}
      /\ Earliest(S) = 0 => S = {}
      /\ \A d \in S : Earliest(S) <= d
  BY <1>2, EarliestOf
<1>5. n = Earliest(S)
  BY DEF S
<1>6. ASSUME NEW d \in Scheduled PROVE IF n = 0 \/ d < n THEN 2 * d < t ELSE 2 * d >= t
  <2>1. CASE n = 0
    BY <1>1, <1>2, <1>4, <1>5, <2>1
  <2>2. CASE n # 0
    <3>1. n \in S /\ n \in Nat /\ 2 * n >= t
      BY <1>1, <1>2, <1>3, <1>4, <1>5, <2>2
    <3>2. d \in S => n <= d
      BY <1>4, <1>5
    <3>. QED
      BY <1>1, <1>2, <2>2, <3>1, <3>2
  <2>. QED
    BY <2>1, <2>2
<1>. QED
  BY <1>2, <1>3, <1>4, <1>5, <1>6

\* The next run is the first evening after an instant.
LEMMA NextRunOf ==
  ASSUME NEW t \in Nat, NEW n, n = NextRun(t)
  PROVE  /\ n \in Scheduled \cup {0} /\ (n # 0 => 2 * n > t)
         /\ \A d \in Scheduled : IF n = 0 \/ d < n THEN 2 * d <= t ELSE 2 * d > t
<1>1. \A d \in Scheduled : d \in Nat
  BY DaysAssumption, ScheduleAssumption DEF Days
<1>2. {d \in Scheduled : 2 * d > t} = {d \in Scheduled : 2 * d >= t + 1}
  BY <1>1
<1>3. n = Earliest({d \in Scheduled : 2 * d >= t + 1})
  BY <1>2 DEF NextRun
<1>4. /\ n \in Scheduled \cup {0} /\ (n # 0 => 2 * n >= t + 1)
      /\ \A d \in Scheduled : IF n = 0 \/ d < n THEN 2 * d < t + 1 ELSE 2 * d >= t + 1
  BY <1>3, FirstEvening
<1>. QED
  BY <1>1, <1>4

\* The day of a tick.
LEMMA DayOf ==
  ASSUME now \in 1 .. 2 * LastDay
  PROVE  /\ Day \in Days
         /\ now \in {2 * Day - 1, 2 * Day}
         /\ \A d \in Days : 2 * d <= now => d <= Day
         /\ \A d \in Days : 2 * d = now => d = Day
BY DaysAssumption DEF Day, Days

-----------------------------------------------------------------------------
(* Every evening is accounted for *)

ScheduleType ==
  /\ now \in 1 .. 2 * LastDay /\ since \in 1 .. now /\ next \in Scheduled \cup {0}
  /\ started \in [Scheduled -> Nat] /\ excused \subseteq Scheduled
  /\ DOMAIN work = Commands

Accounted(d) == started[d] = 1 \/ d \in excused

\* The evenings behind the clock have had their chain or are excused, no other one has.
Behind ==
  \A d \in Scheduled : /\ started[d] \in {0, 1} /\ (started[d] = 1 => 2 * d <= now)
                       /\ 2 * d < now => Accounted(d)

\* A scheduler without a chain waits for the first evening that has none.
Waiting ==
  Idle(Night) => /\ next # 0 => 2 * next >= now
                 /\ \A d \in Scheduled : IF next = 0 \/ d < next THEN Accounted(d) ELSE started[d] = 0

\* While a chain works, the evenings up to its start are accounted for, and those
\* that have come since are excused.
Chaining ==
  ~Idle(Night) => \A d \in Scheduled : /\ 2 * d <= since => Accounted(d)
                                       /\ 2 * d > since => started[d] = 0
                                       /\ 2 * d > since /\ 2 * d < now => d \in excused

Schedule == ScheduleType /\ Behind /\ Waiting /\ Chaining

\* At the start the timer is set for the first evening.
LEMMA InitSchedule == Init => Schedule
<1>. SUFFICES ASSUME Init PROVE Schedule
  OBVIOUS
<1>1. world \in World
  BY WorldsAssumption DEF Init
<1>2. now \in 1 .. 2 * LastDay /\ since = now
  BY <1>1 DEF Init, World
<1>3. \A d \in Scheduled : d \in Nat
  BY DaysAssumption, ScheduleAssumption DEF Days
<1>4. /\ next \in Scheduled \cup {0} /\ (next # 0 => 2 * next >= now)
      /\ \A d \in Scheduled : IF next = 0 \/ d < next THEN 2 * d < now ELSE 2 * d >= now
  BY <1>2, FirstEvening DEF Init
<1>5. \A d \in Scheduled : started[d] = 0 /\ (2 * d < now => d \in excused)
  BY DEF Init
<1>6. ScheduleType
  BY <1>2, <1>4 DEF Init, ScheduleType
<1>7. Idle(Night)
  BY CommandsAssumption DEF Init, Idle
<1>8. Waiting
  BY <1>2, <1>3, <1>4, <1>5, <1>7 DEF Waiting, Accounted
<1>. QED
  BY <1>2, <1>3, <1>5, <1>6, <1>7, <1>8 DEF Schedule, Behind, Chaining, Accounted

\* The chain has ended or been killed.
LEMMA RearmedSchedule ==
  ASSUME Schedule, Rearmed, UNCHANGED <<now, since, started>>, ~Idle(Night), Idle(Night)', DOMAIN work' = Commands
  PROVE  Schedule'
<1>. USE DEF Schedule
<1>1. now \in 1 .. 2 * LastDay /\ since \in 1 .. now /\ Scheduled \subseteq Days /\ Days \subseteq Nat
  BY ScheduleAssumption DEF ScheduleType, Days
<1>2. /\ Day \in Days
      /\ now \in {2 * Day - 1, 2 * Day}
      /\ \A d \in Days : 2 * d <= now => d <= Day
      /\ \A d \in Days : 2 * d = now => d = Day
  BY <1>1, DayOf
<1>3. \A d \in Scheduled : /\ started[d] \in {0, 1}
                           /\ 2 * d <= since => Accounted(d)
                           /\ 2 * d > since => started[d] = 0
                           /\ 2 * d > since /\ 2 * d < now => d \in excused
  BY DEF Behind, Chaining
<1>4. excused \subseteq excused' /\ excused' \subseteq Scheduled
  BY DEF Rearmed, ScheduleType
<1>5. Behind'
  BY <1>4 DEF Behind, Accounted
<1>6. CASE /\ next' = NextRun(now)
           /\ excused' = IF since < now /\ now = 2 * Day /\ Day \in Scheduled THEN excused \cup {Day} ELSE excused
  <2>2. /\ next' \in Scheduled \cup {0} /\ (next' # 0 => 2 * next' > now)
        /\ \A d \in Scheduled : IF next' = 0 \/ d < next' THEN 2 * d <= now ELSE 2 * d > now
    BY <1>1, <1>6, NextRunOf
  <2>3. \A d \in Scheduled : 2 * d <= now => Accounted(d)'
    <3>. TAKE d \in Scheduled
    <3>1. CASE 2 * d <= since
      BY <1>3, <1>4, <3>1 DEF Accounted
    <3>2. CASE 2 * d > since /\ 2 * d < now
      BY <1>3, <1>4, <3>2 DEF Accounted
    <3>3. CASE 2 * d > since /\ 2 * d = now
      BY <1>1, <1>2, <1>6, <3>3 DEF Accounted
    <3>. QED
      BY <1>1, <3>1, <3>2, <3>3
  <2>4. \A d \in Scheduled : 2 * d > now => started'[d] = 0
    BY <1>1, <1>3
  <2>5. next' # 0 => 2 * next' >= now'
    <3>1. next' # 0 => next' \in Nat /\ 2 * next' > now
      BY <1>1, <2>2
    <3>2. now' = now /\ now \in Nat
      BY <1>1, DaysAssumption
    <3>. QED
      BY <3>1, <3>2
  <2>6. \A d \in Scheduled : IF next' = 0 \/ d < next' THEN Accounted(d)' ELSE started'[d] = 0
    BY <2>2, <2>3, <2>4
  <2>7. Waiting'
    BY <2>5, <2>6 DEF Waiting
  <2>. QED
    BY <1>1, <1>4, <1>5, <2>2, <2>7 DEF ScheduleType, Chaining
<1>7. CASE since < now /\ now = 2 * Day /\ Day \in Scheduled /\ next' = Day /\ UNCHANGED excused
  <2>1. \A d \in Scheduled : d < Day => Accounted(d)'
    BY <1>1, <1>2, <1>3, <1>7 DEF Accounted
  <2>2. \A d \in Scheduled : d >= Day => started'[d] = 0
    BY <1>1, <1>2, <1>3, <1>7
  <2>3. Waiting'
    BY <1>1, <1>2, <1>7, <2>1, <2>2 DEF Waiting
  <2>. QED
    BY <1>1, <1>4, <1>5, <1>7, <2>3 DEF ScheduleType, Chaining
<1>. QED
  BY <1>6, <1>7 DEF Rearmed

\* Time passes over an evening only while its chain works.
LEMMA TickSchedule == ASSUME Schedule, Tick PROVE Schedule'
<1>. USE DEF Schedule
<1>1. /\ now \in 1 .. 2 * LastDay /\ since \in 1 .. now /\ Scheduled \subseteq Days /\ Days \subseteq Nat
      /\ next \in Scheduled \cup {0}
  BY ScheduleAssumption DEF ScheduleType, Days
<1>2. /\ Day \in Days
      /\ now \in {2 * Day - 1, 2 * Day}
      /\ \A d \in Days : 2 * d <= now => d <= Day
      /\ \A d \in Days : 2 * d = now => d = Day
  BY <1>1, DayOf
<1>3. now' = now + 1 /\ now < 2 * LastDay /\ UNCHANGED <<since, next, started, work>>
  BY DEF Tick
<1>4. /\ excused \subseteq excused' /\ excused' \subseteq Scheduled
      /\ ~Idle(Night) /\ since < now /\ now = 2 * Day /\ Day \in Scheduled => Day \in excused'
      /\ Idle(Night)' <=> Idle(Night)
  BY DEF Tick, ScheduleType, Idle
<1>5. ScheduleType'
  BY <1>1, <1>3, <1>4, DaysAssumption DEF ScheduleType
<1>6. CASE Idle(Night)
  <2>1. next # 0 => 2 * next >= now + 1
    <3>1. next # 0 => 2 * next >= now /\ next \in Nat
      BY <1>1, <1>6 DEF Waiting
    <3>2. now # 2 * next
      BY <1>6 DEF Tick, Due
    <3>. QED
      BY <1>1, <3>1, <3>2
  <2>2. \A d \in Scheduled : IF next = 0 \/ d < next THEN Accounted(d) ELSE started[d] = 0
    BY <1>6 DEF Waiting
  <2>3. \A d \in Scheduled : Accounted(d) => Accounted(d)'
    BY <1>3, <1>4 DEF Accounted
  <2>4. Waiting'
    BY <1>3, <2>1, <2>2, <2>3 DEF Waiting
  <2>5. Behind'
    <3>1. \A d \in Scheduled : 2 * d < now + 1 => Accounted(d)
      BY <1>1, <2>1, <2>2
    <3>2. \A d \in Scheduled : started[d] \in {0, 1} /\ (started[d] = 1 => 2 * d <= now)
      BY DEF Behind
    <3>. QED
      BY <1>1, <1>3, <2>3, <3>1, <3>2 DEF Behind
  <2>. QED
    BY <1>4, <1>5, <1>6, <2>4, <2>5 DEF Chaining
<1>7. CASE ~Idle(Night)
  <2>1. \A d \in Scheduled : /\ started[d] \in {0, 1} /\ (started[d] = 1 => 2 * d <= now)
                             /\ 2 * d <= since => Accounted(d)
                             /\ 2 * d > since => started[d] = 0
                             /\ 2 * d > since /\ 2 * d < now => d \in excused
    BY <1>7 DEF Behind, Chaining
  <2>2. \A d \in Scheduled : 2 * d > since /\ 2 * d < now + 1 => d \in excused'
    <3>. SUFFICES ASSUME NEW d \in Scheduled, 2 * d > since, 2 * d < now + 1 PROVE d \in excused'
      OBVIOUS
    <3>1. CASE 2 * d < now
      BY <1>4, <2>1, <3>1
    <3>2. CASE 2 * d = now
      BY <1>1, <1>2, <1>4, <1>7, <3>2
    <3>. QED
      BY <1>1, <3>1, <3>2
  <2>3. \A d \in Scheduled : Accounted(d) => Accounted(d)'
    BY <1>3, <1>4 DEF Accounted
  <2>4. Chaining'
    BY <1>3, <2>1, <2>2, <2>3 DEF Chaining
  <2>5. \A d \in Scheduled : 2 * d < now + 1 => Accounted(d)'
    BY <1>1, <2>1, <2>2, <2>3 DEF Accounted
  <2>6. Behind'
    BY <1>1, <1>3, <2>1, <2>5 DEF Behind
  <2>. QED
    BY <1>4, <1>5, <1>7, <2>4, <2>6 DEF Waiting
<1>. QED
  BY <1>6, <1>7

\* The timer fires once for an evening.
LEMMA WakeSchedule == ASSUME Schedule, Wake PROVE Schedule'
<1>. USE DEF Schedule
<1>1. /\ now \in 1 .. 2 * LastDay /\ since \in 1 .. now /\ Scheduled \subseteq Days /\ Days \subseteq Nat
      /\ next \in Scheduled \cup {0} /\ started \in [Scheduled -> Nat]
  BY ScheduleAssumption DEF ScheduleType, Days
<1>2. Idle(Night) /\ now = 2 * next
  BY DEF Wake, Due
<1>3. next \in Scheduled /\ Day = next
  BY <1>1, <1>2, DayOf
<1>4. \A d \in Scheduled : /\ IF d < next THEN Accounted(d) ELSE started[d] = 0
                           /\ started[d] \in {0, 1} /\ (started[d] = 1 => 2 * d <= now)
                           /\ 2 * d < now => Accounted(d)
  BY <1>1, <1>2, <1>3 DEF Waiting, Behind
<1>5. /\ UNCHANGED <<now, next, excused>> /\ since' = now /\ started' = [started EXCEPT ![next] = @ + 1]
      /\ work' = [work EXCEPT ![Night] = "sync"]
  BY <1>3 DEF Wake, Sync, Does
<1>6. \A d \in Scheduled : IF d = next THEN started'[d] = 1 ELSE started'[d] = started[d]
  BY <1>1, <1>3, <1>4, <1>5
<1>7. ~Idle(Night)'
  BY <1>5, CommandsAssumption DEF ScheduleType, Idle
<1>8. \A d \in Scheduled : (Accounted(d) => Accounted(d)') /\ (d = next => Accounted(d)')
  BY <1>5, <1>6 DEF Accounted
<1>9. ScheduleType'
  <2>1. started' \in [Scheduled -> Nat] /\ DOMAIN work' = DOMAIN work
    BY <1>1, <1>3, <1>5
  <2>. QED
    BY <1>1, <1>5, <2>1 DEF ScheduleType
<1>10. \A d \in Scheduled : 2 * d <= now <=> d <= next
  BY <1>1, <1>2, <1>3
<1>11. Behind'
  BY <1>1, <1>4, <1>5, <1>6, <1>8, <1>10 DEF Behind
<1>12. Chaining'
  BY <1>1, <1>4, <1>5, <1>6, <1>8, <1>10 DEF Chaining
<1>. QED
  BY <1>7, <1>9, <1>11, <1>12 DEF Waiting

\* Nothing that the schedule is about has changed.
LEMMA SameSchedule ==
  ASSUME Schedule, UNCHANGED <<now, since, next, started, excused>>, DOMAIN work' = Commands, Idle(Night)' <=> Idle(Night)
  PROVE  Schedule'
BY DEF Schedule, ScheduleType, Behind, Waiting, Chaining, Accounted

\* The chain of a caller that worked has ended.
LEMMA EndsSchedule ==
  ASSUME Schedule, NEW p \in Commands, ~Idle(p), ChainEnds(p), UNCHANGED now
  PROVE  Schedule'
<1>1. work' = [work EXCEPT ![p] = "none"] /\ DOMAIN work = Commands /\ Night \in Commands
  BY CommandsAssumption DEF ChainEnds, Ends, Does, Schedule, ScheduleType
<1>2. CASE p = Night
  BY <1>1, <1>2, RearmedSchedule DEF ChainEnds, Idle
<1>3. CASE p # Night
  BY <1>1, <1>3, SameSchedule DEF ChainEnds, Idle
<1>. QED
  BY <1>2, <1>3

\* A caller goes on with its next command.
LEMMA OnSchedule ==
  ASSUME Schedule, NEW p \in Commands, NEW what \in Works \ {"none"}, ~Idle(p), Does(p, what),
         UNCHANGED <<now, since, next, started, excused>>
  PROVE  Schedule'
<1>1. work' = [work EXCEPT ![p] = what] /\ DOMAIN work = Commands /\ Night \in Commands
  BY CommandsAssumption DEF Does, Schedule, ScheduleType
<1>2. Idle(Night)' <=> Idle(Night)
  BY <1>1 DEF Idle
<1>. QED
  BY <1>1, <1>2, SameSchedule

\* Every step keeps the schedule.
LEMMA NextSchedule == Schedule /\ [Next]_vars => Schedule'
<1>. SUFFICES ASSUME Schedule, [Next]_vars PROVE Schedule'
  OBVIOUS
<1>1. CASE Tick
  BY <1>1, TickSchedule
<1>2. CASE Wake
  BY <1>2, WakeSchedule
<1>3. CASE HandStarts
  <2>1. \E what \in Works : Does(Hand, what)
    BY <1>3 DEF HandStarts, Sync, Backfill, Daily, Works
  <2>2. DOMAIN work' = Commands /\ work'[Night] = work[Night]
    BY <2>1, CommandsAssumption DEF Does, Schedule, ScheduleType, Night, Hand
  <2>3. UNCHANGED <<now, since, next, started, excused>>
    BY <1>3 DEF HandStarts, chainVars, Sync, Backfill, Daily
  <2>. QED
    BY <2>2, <2>3, SameSchedule DEF Idle
<1>4. CASE Restart
  <2>1. work' = [work EXCEPT ![Night] = "none"] /\ DOMAIN work = Commands /\ Night \in Commands
    BY <1>4, CommandsAssumption DEF Restart, Ends, Does, Schedule, ScheduleType
  <2>. QED
    BY <1>4, <2>1, RearmedSchedule DEF Restart, Idle
<1>5. ASSUME NEW p \in Commands, Steps(p) PROVE Schedule'
  <2>1. CASE \/ SyncStep(p) /\ UNCHANGED <<rows, fill, newsVars, chainVars, work, hands>>
             \/ FillStep(p) /\ UNCHANGED <<newsVars, chainVars, work, hands>>
             \/ IntakeStep(p) /\ UNCHANGED <<chainVars, work, hands>>
    <3>1. UNCHANGED <<chainVars, work>>
      BY <2>1
    <3>2. UNCHANGED now
      BY <2>1 DEF SyncStep, Probe, Calendar, Snapshot, SpotRow, Complete, Flush, Abandon, Fetch, FetchFails, Write, WriteFails,
                  FillStep, IntakeStep
    <3>. QED
      BY <3>1, <3>2, SameSchedule DEF chainVars, Idle, Schedule, ScheduleType
  <2>2. CASE SyncExits(p)
    <3>1. ~Idle(p)
      BY <2>2 DEF SyncExits, Idle
    <3>2. CASE Backfill(p) /\ UNCHANGED <<chainVars, hands>>
      BY <3>1, <3>2, OnSchedule DEF Backfill, chainVars, Works
    <3>3. CASE ChainEnds(p) /\ UNCHANGED dataVars
      BY <3>1, <3>3, EndsSchedule DEF dataVars
    <3>. QED
      BY <2>2, <3>2, <3>3 DEF SyncExits
  <2>3. CASE FillExits(p)
    <3>1. ~Idle(p)
      BY <2>3 DEF FillExits, Idle
    <3>2. CASE Daily(p) /\ UNCHANGED <<chainVars, hands>>
      BY <3>1, <3>2, OnSchedule DEF Daily, chainVars, Works
    <3>3. CASE ChainEnds(p) /\ UNCHANGED dataVars
      BY <3>1, <3>3, EndsSchedule DEF dataVars
    <3>. QED
      BY <2>3, <3>2, <3>3 DEF FillExits
  <2>4. CASE NewsEnds(p)
    <3>1. ~Idle(p) /\ UNCHANGED dataVars
      BY <2>4 DEF NewsEnds, Idle
    <3>2. CASE Does(p, "daily") /\ UNCHANGED <<chainVars, hands>>
      BY <3>1, <3>2, OnSchedule DEF dataVars, chainVars, Works
    <3>3. CASE ChainEnds(p)
      BY <3>1, <3>3, EndsSchedule DEF dataVars
    <3>. QED
      BY <2>4, <3>2, <3>3 DEF NewsEnds
  <2>5. CASE Recommend(p)
    BY <2>5, EndsSchedule DEF Recommend, Idle
  <2>. QED
    BY <1>5, <2>1, <2>2, <2>3, <2>4, <2>5 DEF Steps
<1>6. CASE UNCHANGED vars
  BY <1>6, SameSchedule DEF vars, Idle, Schedule, ScheduleType
<1>. QED
  BY <1>1, <1>2, <1>3, <1>4, <1>5, <1>6 DEF Next

\* Every evening of the schedule has its one chain, unless an earlier chain was still
\* working or was killed with the scheduler (runSchedulerLoop).
THEOREM EveningsAccounted == Spec => []EveningsAreAccounted
<1>1. Schedule => EveningsAreAccounted
  BY DEF Schedule, Behind, Accounted, EveningsAreAccounted
<1>. QED
  BY <1>1, InitSchedule, NextSchedule, PTL DEF Spec

-----------------------------------------------------------------------------
(* A run loses its news for a cause only *)

IntakePc == {"idle", "fetch", "list", "clear", "fill", "read", "record", "forget", "ok", "stop"}
IntakeRow == [pc : IntakePc, asOf : Sessions, seen : SUBSET Names, name : Names \cup {"none"},
              linked : BOOLEAN, hurt : BOOLEAN, met : BOOLEAN]

NewsType ==
  /\ ledger \in [Sessions -> {"none", "success", "failed"}]
  /\ file \in [Names -> {"none", "torn", "whole"}]
  /\ intake \in [Commands -> IntakeRow]
  /\ \A p \in Commands : intake[p].pc \in {"fill", "read"} => intake[p].name \in Names

\* Two fetches that are under way know of each other.
MetTogether == \A p, q \in Commands : p # q /\ ~IntakeRests(p) /\ ~IntakeRests(q) => intake[p].met /\ intake[q].met

\* What a fetch that has met no other one finds is what it left.
Sound(i, entries, files) ==
  /\ entries[i.asOf] # "success"
  /\ i.pc = "clear" => \A n \in i.seen : files[n] # "none"
  /\ i.pc = "fill" => i.linked
  /\ i.pc = "read" => files[i.name] = "whole"
  /\ i.pc = "forget" => i.hurt

Undisturbed == \A p \in Commands : ~IntakeRests(p) /\ ~intake[p].met => Sound(intake[p], ledger, file)

News == NewsType /\ MetTogether /\ Undisturbed

NoIntakeType == NoIntake \in IntakeRow
\* No intake is under way at first.
LEMMA NoIntakeTyped == NoIntakeType
BY DaysAssumption DEF NoIntakeType, NoIntake, IntakeRow, IntakePc

\* At the start no news has been asked for.
LEMMA InitNews == Init => News
<1>. SUFFICES ASSUME Init PROVE News
  OBVIOUS
<1>1. \A p \in Commands : intake[p] = NoIntake /\ intake[p].pc = "idle"
  BY DEF Init, NoIntake
<1>2. NewsType
  BY <1>1, NoIntakeTyped DEF Init, NewsType, NoIntakeType
<1>. QED
  BY <1>1, <1>2 DEF News, MetTogether, Undisturbed, IntakeRests

\* A fetch that is under way moves, and may take the name of another one's file away.
LEMMA MovedNews ==
  ASSUME News, NEW p \in Commands, ~IntakeRests(p), NEW row \in IntakeRow, row.met = intake[p].met,
         row.pc \in {"fill", "read"} => row.name \in Names,
         intake' \in [Commands -> IntakeRow], intake'[p] = row,
         \A q \in Commands \ {p} : /\ intake'[q].pc = intake[q].pc /\ intake'[q].met = intake[q].met
                                   /\ intake'[q].name = intake[q].name,
         ledger' \in [Sessions -> {"none", "success", "failed"}], file' \in [Names -> {"none", "torn", "whole"}],
         row.pc \notin {"idle", "ok", "stop"} /\ ~row.met => Sound(row, ledger', file')
  PROVE  News'
<1>1. NewsType'
  BY DEF News, NewsType
<1>2. \A q \in Commands \ {p} : ~IntakeRests(q) => intake[q].met /\ intake[p].met
  BY DEF News, MetTogether
<1>3. \A q \in Commands \ {p} : (IntakeRests(q)' <=> IntakeRests(q)) /\ intake'[q].met = intake[q].met
  BY DEF IntakeRests
<1>4. MetTogether'
  <2>. SUFFICES ASSUME NEW q \in Commands, NEW r \in Commands, q # r, ~IntakeRests(q)', ~IntakeRests(r)'
                PROVE  intake'[q].met /\ intake'[r].met
    BY DEF MetTogether
  <2>1. CASE q = p \/ r = p
    BY <1>2, <1>3, <2>1
  <2>2. CASE q # p /\ r # p
    BY <1>3, <2>2 DEF News, MetTogether
  <2>. QED
    BY <2>1, <2>2
<1>5. Undisturbed'
  <2>. SUFFICES ASSUME NEW q \in Commands, ~IntakeRests(q)', ~intake'[q].met PROVE Sound(intake'[q], ledger', file')
    BY DEF Undisturbed
  <2>1. CASE q = p
    BY <2>1 DEF IntakeRests
  <2>2. CASE q # p
    BY <1>2, <1>3, <2>2
  <2>. QED
    BY <2>1, <2>2
<1>. QED
  BY <1>1, <1>4, <1>5 DEF News

\* The same, when the step only rewrites the row of its own fetch.
LEMMA MovesNews ==
  ASSUME News, NEW p \in Commands, ~IntakeRests(p), NEW row \in IntakeRow, row.met = intake[p].met,
         row.pc \in {"fill", "read"} => row.name \in Names, Moves(p, row),
         ledger' \in [Sessions -> {"none", "success", "failed"}], file' \in [Names -> {"none", "torn", "whole"}],
         row.pc \notin {"idle", "ok", "stop"} /\ ~row.met => Sound(row, ledger', file')
  PROVE  News'
<1>1. intake \in [Commands -> IntakeRow]
  BY DEF News, NewsType
<1>2. intake' \in [Commands -> IntakeRow] /\ intake'[p] = row /\ \A q \in Commands \ {p} : intake'[q] = intake[q]
  BY <1>1 DEF Moves
<1>. QED
  BY <1>2, MovedNews

\* A run starts to look for its news.
LEMMA StartNews ==
  ASSUME News, NEW p \in Commands, NEW asOf \in Sessions, StartIntake(p, asOf)
  PROVE  News'
<1>. DEFINE row == [NoIntake EXCEPT !.pc = IF Valid(asOf) THEN "ok" ELSE "fetch", !.asOf = asOf,
                                     !.met = \E r \in Commands \ {p} : ~IntakeRests(r)]
<1>1. row \in IntakeRow /\ row.pc \in {"ok", "fetch"} /\ (row.pc = "fetch" => ledger[row.asOf] # "success")
      /\ (row.met <=> \E r \in Commands \ {p} : ~IntakeRests(r))
  BY NoIntakeTyped DEF NoIntakeType, NoIntake, IntakeRow, IntakePc, Valid
<1>. HIDE DEF row
<1>2. intake' = [q \in Commands |-> IF q = p THEN row ELSE [intake[q] EXCEPT !.met = @ \/ ~IntakeRests(q)]]
  BY DEF StartIntake, row
<1>3. \A q \in Commands \ {p} : [intake[q] EXCEPT !.met = @ \/ ~IntakeRests(q)] \in IntakeRow
  BY DEF News, NewsType, IntakeRow
<1>4. /\ intake' \in [Commands -> IntakeRow] /\ intake'[p] = row
      /\ \A q \in Commands \ {p} : /\ intake'[q].pc = intake[q].pc /\ intake'[q].name = intake[q].name
                                   /\ intake'[q].met <=> intake[q].met \/ ~IntakeRests(q)
  BY <1>1, <1>2, <1>3 DEF News, NewsType, IntakeRow
<1>5. NewsType'
  BY <1>1, <1>4 DEF News, NewsType, StartIntake
<1>6. \A q \in Commands \ {p} : IntakeRests(q)' <=> IntakeRests(q)
  BY <1>4 DEF IntakeRests
<1>7. \A q \in Commands \ {p} : ~IntakeRests(q)' => intake'[q].met /\ intake'[p].met
  BY <1>1, <1>4, <1>6
<1>8. MetTogether'
  BY <1>7 DEF MetTogether
<1>9. Undisturbed'
  <2>. SUFFICES ASSUME NEW q \in Commands, ~IntakeRests(q)', ~intake'[q].met PROVE Sound(intake'[q], ledger', file')
    BY DEF Undisturbed
  <2>1. q = p
    BY <1>7
  <2>2. row.pc = "fetch"
    BY <1>1, <1>4, <2>1 DEF IntakeRests
  <2>3. ledger'[row.asOf] # "success"
    BY <1>1, <2>2 DEF StartIntake
  <2>. QED
    BY <1>4, <2>1, <2>2, <2>3 DEF Sound
<1>. QED
  BY <1>5, <1>8, <1>9 DEF News

\* A step of the fetch of p.
LEMMA StepNews ==
  ASSUME News, NEW p \in Commands, IntakeStep(p)
  PROVE  News'
<1>. USE DEF In, To
<1>1. /\ ledger \in [Sessions -> {"none", "success", "failed"}] /\ file \in [Names -> {"none", "torn", "whole"}]
      /\ intake \in [Commands -> IntakeRow] /\ intake[p] \in IntakeRow
      /\ intake[p].pc \in {"fill", "read"} => intake[p].name \in Names
      /\ ~IntakeRests(p) /\ ~intake[p].met => Sound(intake[p], ledger, file)
  BY DEF News, NewsType, Undisturbed
<1>2. ~IntakeRests(p)
  BY DEF IntakeStep, Download, ListOld, Unlink, Create, FillFile, ReadFile, RecordSuccess, RecordFailure, IntakeRests
<1>3. ~intake[p].met => \A q \in Commands \ {p} : IntakeRests(q)
  BY <1>2 DEF News, MetTogether
<1>4. CASE Download(p)
  <2>1. CASE To(p, "list")
    <3>. DEFINE row == [intake[p] EXCEPT !.pc = "list"]
    <3>1. row \in IntakeRow /\ row.met = intake[p].met /\ row.pc = "list" /\ (~row.met => Sound(row, ledger, file))
      BY <1>1, <1>2 DEF IntakeRow, IntakePc, Sound
    <3>. QED
      BY <1>1, <1>2, <1>4, <2>1, <3>1, MovesNews DEF Download
  <2>2. CASE Moves(p, [intake[p] EXCEPT !.pc = "forget", !.hurt = TRUE])
    <3>. DEFINE row == [intake[p] EXCEPT !.pc = "forget", !.hurt = TRUE]
    <3>1. row \in IntakeRow /\ row.met = intake[p].met /\ row.pc = "forget" /\ (~row.met => Sound(row, ledger, file))
      BY <1>1, <1>2 DEF IntakeRow, IntakePc, Sound
    <3>. QED
      BY <1>1, <1>2, <1>4, <2>2, <3>1, MovesNews DEF Download
  <2>. QED
    BY <1>4, <2>1, <2>2 DEF Download
<1>5. CASE ListOld(p)
  <2>. DEFINE row == [intake[p] EXCEPT !.pc = "clear", !.seen = {n \in Names : file[n] # "none"}]
  <2>1. row \in IntakeRow /\ row.met = intake[p].met /\ row.pc = "clear" /\ (~row.met => Sound(row, ledger, file))
    BY <1>1, <1>2 DEF IntakeRow, IntakePc, Sound
  <2>. QED
    BY <1>1, <1>2, <1>5, <2>1, MovesNews DEF ListOld
<1>6. CASE Unlink(p)
  <2>1. PICK n \in intake[p].seen :
          IF file[n] = "none" THEN To(p, "forget") /\ UNCHANGED file
          ELSE /\ file' = [file EXCEPT ![n] = "none"]
               /\ intake' = [q \in Commands |->
                    IF q = p THEN [intake[p] EXCEPT !.seen = @ \ {n}]
                    ELSE [intake[q] EXCEPT !.linked = @ /\ intake[q].name # n]]
    BY <1>6 DEF Unlink
  <2>2. intake[p].pc = "clear" /\ UNCHANGED ledger /\ n \in Names
    BY <1>1, <1>6 DEF Unlink, IntakeRow
  <2>3. CASE file[n] = "none"
    <3>. DEFINE row == [intake[p] EXCEPT !.pc = "forget"]
    <3>1. intake[p].met
      BY <1>1, <1>2, <2>2, <2>3 DEF Sound
    <3>2. row \in IntakeRow /\ row.met = intake[p].met /\ row.pc = "forget"
      BY <1>1 DEF IntakeRow, IntakePc
    <3>. QED
      BY <1>1, <1>2, <2>1, <2>2, <2>3, <3>1, <3>2, MovesNews
  <2>4. CASE file[n] # "none"
    <3>. DEFINE row == [intake[p] EXCEPT !.seen = @ \ {n}]
    <3>1. row \in IntakeRow /\ row.met = intake[p].met /\ row.pc = "clear" /\ row.seen = intake[p].seen \ {n}
          /\ row.asOf = intake[p].asOf
      BY <1>1, <2>2 DEF IntakeRow
    <3>2. \A q \in Commands \ {p} : [intake[q] EXCEPT !.linked = @ /\ intake[q].name # n] \in IntakeRow
      BY <1>1 DEF IntakeRow
    <3>3. /\ intake' = [q \in Commands |-> IF q = p THEN row ELSE [intake[q] EXCEPT !.linked = @ /\ intake[q].name # n]]
          /\ file' = [file EXCEPT ![n] = "none"]
      BY <2>1, <2>4
    <3>4. file' \in [Names -> {"none", "torn", "whole"}] /\ \A m \in Names \ {n} : file'[m] = file[m]
      BY <1>1, <3>3
    <3>5. ~row.met => Sound(row, ledger', file')
      <4>. SUFFICES ASSUME ~row.met PROVE Sound(row, ledger', file')
        OBVIOUS
      <4>1. Sound(intake[p], ledger, file)
        BY <1>1, <1>2, <3>1
      <4>2. \A m \in row.seen : m \in Names \ {n} /\ file[m] # "none"
        BY <1>1, <2>2, <3>1, <4>1 DEF Sound, IntakeRow
      <4>. QED
        BY <2>2, <3>1, <3>4, <4>1, <4>2 DEF Sound
    <3>. HIDE DEF row
    <3>6. /\ intake' \in [Commands -> IntakeRow] /\ intake'[p] = row
          /\ \A q \in Commands \ {p} : /\ intake'[q].pc = intake[q].pc /\ intake'[q].met = intake[q].met
                                       /\ intake'[q].name = intake[q].name
      BY <1>1, <3>1, <3>2, <3>3 DEF IntakeRow
    <3>7. ledger' \in [Sessions -> {"none", "success", "failed"}]
      BY <1>1, <2>2
    <3>8. row.pc \notin {"fill", "read"}
      BY <3>1
    <3>. QED
      BY <1>2, <3>1, <3>4, <3>5, <3>6, <3>7, <3>8, MovedNews
  <2>. QED
    BY <2>3, <2>4
<1>7. CASE Create(p)
  <2>1. PICK n \in {p} \cup {intake[q].name : q \in {q \in Commands \ {p} : intake[q].pc \in {"fill", "read"}}} :
          /\ file' = [file EXCEPT ![n] = "torn"]
          /\ Moves(p, [intake[p] EXCEPT !.pc = "fill", !.name = n, !.linked = TRUE])
    BY <1>7 DEF Create
  <2>. DEFINE row == [intake[p] EXCEPT !.pc = "fill", !.name = n, !.linked = TRUE]
  <2>2. n \in Names
    BY DEF News, NewsType, Names
  <2>3. row \in IntakeRow /\ row.met = intake[p].met /\ row.pc = "fill" /\ row.name \in Names /\ row.linked /\ row.asOf = intake[p].asOf
    BY <1>1, <2>2 DEF IntakeRow, IntakePc
  <2>4. UNCHANGED ledger /\ file' \in [Names -> {"none", "torn", "whole"}]
    BY <1>1, <1>7, <2>1, <2>2 DEF Create
  <2>5. ~row.met => Sound(row, ledger', file')
    BY <1>1, <1>2, <2>3, <2>4 DEF Sound
  <2>. QED
    BY <1>1, <1>2, <2>1, <2>3, <2>4, <2>5, MovesNews
<1>8. CASE FillFile(p)
  <2>. DEFINE row == [intake[p] EXCEPT !.pc = "read"]
  <2>1. intake[p].pc = "fill" /\ intake[p].name \in Names /\ UNCHANGED ledger /\ Moves(p, row)
    BY <1>1, <1>8 DEF FillFile
  <2>2. row \in IntakeRow /\ row.met = intake[p].met /\ row.pc = "read" /\ row.name = intake[p].name /\ row.asOf = intake[p].asOf
    BY <1>1 DEF IntakeRow, IntakePc
  <2>3. /\ file' = file \/ file' = [file EXCEPT ![intake[p].name] = "whole"] \/ file' = [file EXCEPT ![intake[p].name] = "torn"]
        /\ intake[p].linked /\ ~Shared(p) => file' = [file EXCEPT ![intake[p].name] = "whole"]
    BY <1>8 DEF FillFile
  <2>4. file' \in [Names -> {"none", "torn", "whole"}]
    BY <1>1, <2>1, <2>3
  <2>5. ~intake[p].met => ~Shared(p)
    BY <1>3 DEF Shared, IntakeRests
  <2>6. ~row.met => Sound(row, ledger', file')
    <3>. SUFFICES ASSUME ~row.met PROVE Sound(row, ledger', file')
      OBVIOUS
    <3>1. Sound(intake[p], ledger, file) /\ intake[p].linked
      BY <1>1, <1>2, <2>1, <2>2 DEF Sound
    <3>2. file'[intake[p].name] = "whole"
      BY <1>1, <2>1, <2>2, <2>3, <2>5, <3>1
    <3>. QED
      BY <2>1, <2>2, <3>1, <3>2 DEF Sound
  <2>. QED
    BY <1>1, <1>2, <2>1, <2>2, <2>4, <2>6, MovesNews
<1>9. CASE ReadFile(p)
  <2>1. CASE file[intake[p].name] = "whole"
    <3>. DEFINE row == [intake[p] EXCEPT !.pc = "record"]
    <3>1. row \in IntakeRow /\ row.met = intake[p].met /\ row.pc = "record" /\ (~row.met => Sound(row, ledger, file))
      BY <1>1, <1>2 DEF IntakeRow, IntakePc, Sound
    <3>. QED
      BY <1>1, <1>2, <1>9, <2>1, <3>1, MovesNews DEF ReadFile
  <2>2. CASE file[intake[p].name] # "whole"
    <3>. DEFINE row == [intake[p] EXCEPT !.pc = "forget"]
    <3>1. intake[p].met
      BY <1>1, <1>2, <1>9, <2>2 DEF Sound, ReadFile
    <3>2. row \in IntakeRow /\ row.met = intake[p].met /\ row.pc = "forget"
      BY <1>1 DEF IntakeRow, IntakePc
    <3>. QED
      BY <1>1, <1>2, <1>9, <2>2, <3>1, <3>2, MovesNews DEF ReadFile
  <2>. QED
    BY <2>1, <2>2
<1>10. CASE RecordSuccess(p)
  <2>1. UNCHANGED file /\ intake[p].asOf \in Sessions
    BY <1>1, <1>10 DEF RecordSuccess, IntakeRow
  <2>2. CASE ledger' = Recorded(intake[p].asOf, "success") /\ To(p, "ok")
    <3>. DEFINE row == [intake[p] EXCEPT !.pc = "ok"]
    <3>1. row \in IntakeRow /\ row.met = intake[p].met /\ row.pc = "ok"
      BY <1>1 DEF IntakeRow, IntakePc
    <3>2. ledger' \in [Sessions -> {"none", "success", "failed"}]
      BY <1>1, <2>1, <2>2 DEF Recorded
    <3>. QED
      BY <1>1, <1>2, <2>1, <2>2, <3>1, <3>2, MovesNews
  <2>3. CASE Moves(p, [intake[p] EXCEPT !.pc = "forget", !.hurt = TRUE]) /\ UNCHANGED ledger
    <3>. DEFINE row == [intake[p] EXCEPT !.pc = "forget", !.hurt = TRUE]
    <3>1. row \in IntakeRow /\ row.met = intake[p].met /\ row.pc = "forget" /\ (~row.met => Sound(row, ledger, file))
      BY <1>1, <1>2 DEF IntakeRow, IntakePc, Sound
    <3>. QED
      BY <1>1, <1>2, <2>1, <2>3, <3>1, MovesNews
  <2>. QED
    BY <1>10, <2>2, <2>3 DEF RecordSuccess
<1>11. CASE RecordFailure(p)
  <2>. DEFINE row == [intake[p] EXCEPT !.pc = "stop"]
  <2>1. row \in IntakeRow /\ row.met = intake[p].met /\ row.pc = "stop"
    BY <1>1 DEF IntakeRow, IntakePc
  <2>2. UNCHANGED file /\ ledger' \in [Sessions -> {"none", "success", "failed"}] /\ Moves(p, row)
    BY <1>1, <1>11 DEF RecordFailure, Recorded, IntakeRow
  <2>. QED
    BY <1>1, <1>2, <2>1, <2>2, MovesNews
<1>. QED
  BY <1>4, <1>5, <1>6, <1>7, <1>8, <1>9, <1>10, <1>11 DEF IntakeStep

\* Other programs leave the news alone.
LEMMA SameNews == ASSUME News, UNCHANGED newsVars PROVE News'
BY DEF News, NewsType, MetTogether, Undisturbed, Sound, IntakeRests, newsVars

\* A run looks for the news of the next session.
LEMMA AsOfIsSession == ASSUME NEW t, AsOf(t) # 0 PROVE AsOf(t) \in Sessions
<1>1. {d \in Sessions : 2 * d - 1 > t} \in SUBSET Days
  BY DaysAssumption
<1>. QED
  BY <1>1, EarliestOf DEF AsOf

\* A step starts a run, is a step of a fetch, ends the scheduler, or leaves the news alone.
LEMMA NewsKinds ==
  ASSUME [Next]_vars
  PROVE  \/ \E p \in Commands : \E asOf \in Sessions : StartIntake(p, asOf)
         \/ \E p \in Commands : IntakeStep(p)
         \/ Restart
         \/ UNCHANGED newsVars
<1>1. CASE Tick
  BY <1>1 DEF Tick, newsVars
<1>2. CASE Wake
  BY <1>2 DEF Wake, Sync, newsVars
<1>3. CASE HandStarts
  <2>1. CASE AsOf(now) # 0 /\ Daily(Hand)
    BY <2>1, AsOfIsSession, CommandsAssumption DEF Daily
  <2>2. CASE \/ Sync(Hand, "incremental", LatestCandle) \/ Sync(Hand, "missing", 1) \/ Backfill(Hand)
    BY <2>2 DEF Sync, Backfill, newsVars
  <2>. QED
    BY <1>3, <2>1, <2>2 DEF HandStarts
<1>4. ASSUME NEW p \in Commands, Steps(p)
      PROVE  \/ \E asOf \in Sessions : StartIntake(p, asOf)
             \/ IntakeStep(p)
             \/ UNCHANGED newsVars
  <2>1. CASE SyncExits(p)
    BY <2>1 DEF SyncExits, Backfill, dataVars, newsVars
  <2>2. CASE FillExits(p)
    <3>1. CASE AsOf(now) # 0 /\ Daily(p)
      BY <3>1, AsOfIsSession DEF Daily
    <3>. QED
      BY <2>2, <3>1 DEF FillExits, dataVars, newsVars
  <2>3. CASE NewsEnds(p)
    BY <2>3 DEF NewsEnds, dataVars, newsVars
  <2>4. CASE Recommend(p)
    BY <2>4 DEF Recommend, newsVars
  <2>. QED
    BY <1>4, <2>1, <2>2, <2>3, <2>4 DEF Steps
<1>5. CASE UNCHANGED vars
  BY <1>5 DEF vars, newsVars
<1>. QED
  BY <1>1, <1>2, <1>3, <1>4, <1>5 DEF Next

\* A killed intake leaves no trace in its row.
LEMMA RestartNews == ASSUME News, Restart PROVE News'
<1>1. intake \in [Commands -> IntakeRow] /\ intake' = [intake EXCEPT ![Night] = NoIntake] /\ UNCHANGED <<ledger, file>>
  BY DEF Restart, News, NewsType
<1>2. /\ intake' \in [Commands -> IntakeRow]
      /\ \A p \in Commands : ~IntakeRests(p)' => intake'[p] = intake[p] /\ ~IntakeRests(p)
  BY <1>1, NoIntakeTyped DEF NoIntakeType, NoIntake, IntakeRests
<1>3. \A p \in Commands : intake'[p].pc \in {"fill", "read"} => intake'[p] = intake[p]
  BY <1>2 DEF IntakeRests
<1>4. NewsType'
  BY <1>1, <1>2, <1>3 DEF News, NewsType
<1>. QED
  BY <1>1, <1>2, <1>4 DEF News, MetTogether, Undisturbed

\* Every step keeps the invariant of the news.
LEMMA NextNews == News /\ [Next]_vars => News'
BY NewsKinds, StartNews, StepNews, RestartNews, SameNews

\* The step that stops a run, or turns a success into a failure, is RecordFailure.
LEMMA FailsForCause ==
  ASSUME News, [Next]_vars, NEW p \in Commands
  PROVE  /\ In(p, "stop")' /\ ~In(p, "stop") => intake[p].hurt \/ intake[p].met
         /\ \A d \in Sessions : ledger[d] = "success" /\ ledger'[d] = "failed" /\ intake[p] # intake'[p] => intake[p].met
<1>1. intake \in [Commands -> IntakeRow] /\ ledger \in [Sessions -> {"none", "success", "failed"}]
  BY DEF News, NewsType
<1>2. CASE \E q \in Commands : \E asOf \in Sessions : StartIntake(q, asOf)
  <2>1. PICK q \in Commands, asOf \in Sessions : StartIntake(q, asOf)
    BY <1>2
  <2>2. CASE p = q
    <3>1. intake'[p].pc = IF Valid(asOf) THEN "ok" ELSE "fetch"
      BY <2>1, <2>2 DEF StartIntake, NoIntake
    <3>2. intake'[p].pc # "stop"
      BY <3>1
    <3>. QED
      BY <2>1, <3>2 DEF StartIntake, In
  <2>3. CASE p # q
    <3>1. intake'[p] = [intake[p] EXCEPT !.met = @ \/ ~IntakeRests(p)]
      BY <2>1, <2>3 DEF StartIntake
    <3>2. intake'[p].pc = intake[p].pc
      BY <1>1, <3>1 DEF IntakeRow
    <3>. QED
      BY <2>1, <3>2 DEF StartIntake, In
  <2>. QED
    BY <2>2, <2>3
<1>3. ASSUME NEW q \in Commands, IntakeStep(q), ~RecordFailure(q)
      PROVE  (In(p, "stop")' => In(p, "stop")) /\ \A d \in Sessions : ledger'[d] = "failed" => ledger[d] = "failed"
  <2>1. In(p, "stop")' => In(p, "stop")
    <3>1. CASE p # q
      <4>1. intake'[p].pc = intake[p].pc
        <5>1. CASE Unlink(q)
          BY <1>1, <3>1, <5>1 DEF Unlink, In, To, Moves, IntakeRow
        <5>2. CASE \/ Download(q) \/ ListOld(q) \/ Create(q) \/ FillFile(q) \/ ReadFile(q) \/ RecordSuccess(q)
          BY <1>1, <3>1, <5>2 DEF Download, ListOld, Create, FillFile, ReadFile, RecordSuccess, In, To, Moves
        <5>. QED
          BY <1>3, <5>1, <5>2 DEF IntakeStep
      <4>. QED
        BY <4>1 DEF In
    <3>2. CASE p = q
      <4>1. CASE Unlink(q)
        BY <1>1, <3>2, <4>1 DEF Unlink, In, To, Moves, IntakeRow
      <4>2. CASE Download(q) \/ ListOld(q) \/ RecordSuccess(q)
        BY <1>1, <3>2, <4>2 DEF Download, ListOld, RecordSuccess, In, To, Moves, IntakeRow
      <4>3. CASE Create(q)
        BY <1>1, <3>2, <4>3 DEF Create, In, Moves, IntakeRow
      <4>4. CASE FillFile(q)
        BY <1>1, <3>2, <4>4 DEF FillFile, In, To, Moves, IntakeRow
      <4>5. CASE ReadFile(q)
        BY <1>1, <3>2, <4>5 DEF ReadFile, In, To, Moves, IntakeRow
      <4>. QED
        BY <1>3, <4>1, <4>2, <4>3, <4>4, <4>5 DEF IntakeStep
    <3>. QED
      BY <3>1, <3>2
  <2>2. UNCHANGED ledger \/ ledger' = Recorded(intake[q].asOf, "success")
    BY <1>3 DEF IntakeStep, Download, ListOld, Unlink, Create, FillFile, ReadFile, RecordSuccess
  <2>. QED
    BY <1>1, <2>1, <2>2 DEF Recorded
<1>4. ASSUME NEW q \in Commands, RecordFailure(q)
      PROVE  /\ In(p, "stop")' /\ ~In(p, "stop") => intake[p].hurt \/ intake[p].met
             /\ \A d \in Sessions : ledger[d] = "success" /\ ledger'[d] = "failed" /\ intake[p] # intake'[p] => intake[p].met
  <2>1. CASE p # q
    BY <1>1, <1>4, <2>1 DEF RecordFailure, In, To, Moves
  <2>2. CASE p = q
    <3>1. ~IntakeRests(p) /\ intake[p].pc = "forget"
      BY <1>4, <2>2 DEF RecordFailure, In, IntakeRests
    <3>2. ~intake[p].met => ledger[intake[p].asOf] # "success" /\ intake[p].hurt
      BY <3>1 DEF News, Undisturbed, Sound
    <3>3. \A d \in Sessions : ledger'[d] # ledger[d] => d = intake[p].asOf
      BY <1>1, <1>4, <2>2 DEF RecordFailure, Recorded
    <3>. QED
      BY <1>1, <3>2, <3>3
  <2>. QED
    BY <2>1, <2>2
<1>5. CASE Restart
  BY <1>1, <1>5 DEF Restart, In, NoIntake
<1>6. CASE UNCHANGED newsVars
  BY <1>6 DEF newsVars, In
<1>. QED
  BY <1>2, <1>3, <1>4, <1>5, <1>6, NewsKinds

\* A run stops for want of news only if its own request or statement failed or it met
\* another run, and only a run that met another one spoils the success of the ledger
\* (withLedgerCache, fetchNewsNowToFile).
THEOREM NewsLostForCause == Spec => IntakeFailsForCause
<1>1. News /\ [Next]_vars =>
        [\A p \in Commands :
           /\ In(p, "stop")' /\ ~In(p, "stop") => intake[p].hurt \/ intake[p].met
           /\ \A d \in Sessions : ledger[d] = "success" /\ ledger'[d] = "failed" /\ intake[p] # intake'[p] => intake[p].met]_newsVars
  BY FailsForCause
<1>. QED
  BY <1>1, InitNews, NextNews, PTL DEF Spec, IntakeFailsForCause

-----------------------------------------------------------------------------
(* The invariant of a synchronisation *)

SyncPc == {"idle", "probe", "calendar", "pool", "tripped", "spot", "last", "done", "failed"}
Writers == Stocks \cup {Main}
SyncRow ==
  [pc : SyncPc, mode : {"incremental", "missing"}, stage : {"none", "gap", "uncovered", "all"}, start : Days, end : Days,
   have : [Stocks -> SUBSET Days], pending : SUBSET Stocks, alive : BOOLEAN, calendar : {"none", "aktools", "sina"},
   days : SUBSET Sessions, lo : Nat, hi : Nat, todo : SUBSET Stocks, spot : SUBSET Stocks, covered : SUBSET Stocks,
   price : 0 .. 2 * LastDay, queue : SUBSET Lines, writing : [Writers -> SUBSET Lines], streak : Nat, failed : SUBSET Stocks,
   lost : SUBSET (Stocks \X Days)]

\* The candles that exist.
Table == [s \in Stocks |-> Stored(s)]

Resting(c) == c.pc \in {"idle", "done", "failed"}
Pooling(c) == c.pc \in {"pool", "tripped"}

\* The rows that a process has and has not written.
Held(c) == c.queue \cup UNION {c.writing[w] : w \in Writers}
Holds(c, s, d) == \E l \in Held(c) : l[1] = s /\ l[2] = d

\* Who writes what, and when: a batch of a worker is written while its stock is in flight.
Ordered(c) ==
  /\ \A s \in Stocks : c.writing[s] # {} => s \in InFlight(c) /\ Pooling(c)
  /\ c.writing[Main] # {} => c.pc \in {"spot", "last"}
  /\ ~Pooling(c) => c.todo = {}
  /\ c.pc \notin {"pool", "tripped", "spot"} => c.queue = {}
  /\ c.pc \in {"probe", "calendar"} => c.lo = c.start /\ c.stage = "none"
  /\ Pooling(c) /\ c.stage = "all" => c.lo = c.start /\ c.hi = c.end
  /\ Pooling(c) /\ c.stage = "gap" => c.lo = c.start /\ c.hi = SpotDay(c) - 1
  /\ Pooling(c) /\ c.stage = "uncovered" => c.lo = SpotDay(c) /\ c.hi = SpotDay(c)
  /\ c.pc = "spot" => c.spot \subseteq c.covered /\ c.price # 0
  /\ (Pooling(c) \/ c.pc \in {"spot", "last"} => c.stage # "none") /\ (c.stage = "none" => c.calendar = "none")
  /\ Pooling(c) /\ c.stage # "all" => c.calendar # "none"
  /\ c.pc = "spot" => c.calendar # "none"
  /\ c.pc = "idle" => c.stage = "none"

\* The calendar ends with the last session of the range, and that of AKTools has them all.
Dated(c, today) ==
  /\ c.end <= today
  /\ c.calendar # "none" => /\ c.days # {} /\ SpotDay(c) \in c.start .. c.end
                            /\ \A d \in Sessions : d \in c.start .. c.end => d <= SpotDay(c)
  /\ c.calendar = "aktools" => c.days = {d \in Sessions : d \in c.start .. c.end}
  /\ \A l \in Held(c) : l[2] \in c.start .. c.end
  /\ c.pc # "idle" => \A s \in Stocks \ c.pending : c.start = c.end /\ c.end \in c.have[s]

\* What counts as owned is stored, lost, or still to be written.
Owned(c, table) ==
  \A s \in Stocks : \A d \in c.have[s] : d \in table[s] \/ <<s, d>> \in c.lost \/ Holds(c, s, d)

GapDone(c, s) == \A d \in Trades[s] : c.start <= d /\ d < SpotDay(c) => d \in c.have[s]
SpotDone(c, s) == SpotDay(c) \in Trades[s] => SpotDay(c) \in c.have[s]
AllDone(c, s) == \A d \in Trades[s] : d \in c.start .. c.end => d \in c.have[s]
Passed(c, s) == s \notin c.todo \/ c.writing[s] # {}

\* How far a process has come with a stock.
Covers(c, s) ==
  /\ c.pc = "pool" /\ c.stage = "gap" /\ Passed(c, s) => GapDone(c, s)
  /\ c.pc = "spot" \/ (Pooling(c) /\ c.stage = "uncovered") => GapDone(c, s)
  /\ c.pc = "spot" /\ s \in c.covered \ c.spot => SpotDay(c) \in c.have[s]
  /\ c.pc = "pool" /\ c.stage = "uncovered" /\ Passed(c, s) => SpotDone(c, s)
  /\ c.pc = "pool" /\ c.stage = "all" /\ Passed(c, s) => AllDone(c, s)
  /\ c.pc \in {"last", "done", "failed"} /\ c.stage # "none" => AllDone(c, s)

Coverage(c, guilty) ==
  \A s \in Stocks : s \notin guilty \/ (c.calendar # "sina" /\ s \notin c.failed /\ c.pc # "failed") => Covers(c, s)

\* Of a stock without blame nothing is lost, nothing is missing before the range, every
\* quote is of a session, and what a process still holds closes up with what is stored.
Kept(c, guilty) == \A s \in Stocks \ guilty, d \in Days : <<s, d>> \notin c.lost
FromStart(c, table, guilty) ==
  ~Resting(c) => \A s \in Stocks \ guilty : \A d \in Trades[s] : d < c.start => d \in table[s]
SpotsTrade(c, guilty) == c.pc = "spot" => \A s \in c.spot \ guilty : SpotDay(c) \in Trades[s]
Closing(c, table, guilty) ==
  \A s \in Stocks \ guilty : \A l \in Held(c) :
    l[1] = s => l[2] \in Trades[s] /\ \A d \in Trades[s] : d < l[2] => d \in table[s] \/ Holds(c, s, d)

Standing(c, table, guilty, today) ==
  /\ Ordered(c) /\ Dated(c, today) /\ Owned(c, table) /\ Coverage(c, guilty)
  /\ Kept(c, guilty) /\ FromStart(c, table, guilty) /\ SpotsTrade(c, guilty) /\ Closing(c, table, guilty)

\* A step of a process leaves its range alone, and ends it after a pool only.
Advances(c, e, table, guilty, today) ==
  /\ e \in SyncRow /\ e.start = c.start /\ e.end = c.end /\ (Resting(e) => e.stage # "none")
  /\ Standing(e, table, guilty, today)

\* The candles of a stock without blame are those of a first part of its sessions.
Whole(table, guilty) ==
  \A s \in Stocks \ guilty : \A e \in table[s] : e \in Trades[s] /\ \A d \in Trades[s] : d < e => d \in table[s]

\* A session before the newest candle that a stock without blame lacks is in the range
\* of a synchronisation under way.
Responsible ==
  \A s \in Stocks \ blamed : \A d \in Trades[s] : \A t \in Stocks : \A e \in Table[t] :
    d <= e => d \in Table[s] \/ \E p \in Commands : ~Rests(p) /\ d \in sync[p].start .. sync[p].end

SyncsWork == \A p \in Commands : ~Rests(p) => work[p] = "sync"

ClockType == now \in 1 .. 2 * LastDay
CandleType == candle \in [Stocks -> [Days -> 0 .. 2 * LastDay]]
SyncType ==
  /\ ClockType /\ CandleType
  /\ sync \in [Commands -> SyncRow]
  /\ blamed \subseteq Stocks

Progress == \A p \in Commands : Standing(sync[p], Table, blamed, Day)

-----------------------------------------------------------------------------
(* What the operators of a synchronisation do to its row *)

SameRange(c, e) ==
  /\ e.start = c.start /\ e.end = c.end /\ e.pending = c.pending
  /\ e.calendar = c.calendar /\ e.days = c.days
SamePlan(c, e) ==
  /\ SameRange(c, e)
  /\ e.pc = c.pc /\ e.stage = c.stage /\ e.lo = c.lo /\ e.hi = c.hi
  /\ e.covered = c.covered /\ e.price = c.price /\ e.failed = c.failed

\* A row is of a stock and of a day, and has a price.
LEMMA LinesTyped ==
  /\ \A l \in Lines : l[1] \in Stocks /\ l[2] \in Days /\ l[3] \in 1 .. 2 * LastDay
  /\ \A s \in Stocks, d \in Days, v \in 1 .. 2 * LastDay : <<s, d, v>> \in Lines
BY DEF Lines

\* The loop over the snapshot is no worker.
LEMMA StocksTyped == Main \notin Stocks /\ Main \in Writers /\ Stocks \subseteq Writers /\ Stocks \subseteq Nat /\ LastDay \in Nat
BY StocksAssumption, DaysAssumption DEF Main, Writers

\* A stock trades in sessions.
LEMMA TradesTyped == \A s \in Stocks : \A d \in Trades[s] : d \in Sessions /\ d \in Days /\ d \in Nat
BY StocksAssumption, DaysAssumption DEF Days

\* Days are numbers.
LEMMA DaysTyped == \A d \in Days : d \in Nat /\ d >= 1 /\ d <= LastDay
BY DaysAssumption DEF Days

\* The day of the snapshot is the last one of the calendar.
LEMMA SpotDayIs ==
  ASSUME NEW c \in SyncRow, c.days # {}
  PROVE  /\ SpotDay(c) \in c.days /\ SpotDay(c) \in Sessions /\ SpotDay(c) \in Days
         /\ \A d \in c.days : SpotDay(c) >= d
<1>1. c.days \in SUBSET Sessions
  BY DEF SyncRow
<1>2. c.days \in SUBSET (0 .. LastDay) /\ LastDay \in Nat
  BY <1>1, DaysAssumption DEF Days
<1>3. Max(c.days) \in c.days /\ \A d \in c.days : Max(c.days) >= d
  BY <1>2, MaxOf
<1>. QED
  BY <1>1, <1>3, DaysAssumption DEF SpotDay

\* The first of a set stay among the first when the set shrinks.
LEMMA LeastShrinks ==
  ASSUME NEW S \in SUBSET Stocks, NEW T \in SUBSET S, NEW n \in Nat, NEW x \in T, x \in Least(n, S)
  PROVE  x \in Least(n, T)
<1>1. IsFiniteSet({t \in S : t < x})
  BY StocksAssumption, FS_Subset
<1>2. {t \in T : t < x} \subseteq {t \in S : t < x}
  OBVIOUS
<1>3. /\ IsFiniteSet({t \in T : t < x})
      /\ Cardinality({t \in T : t < x}) <= Cardinality({t \in S : t < x})
  BY <1>1, <1>2, FS_Subset
<1>4. Cardinality({t \in T : t < x}) \in Nat /\ Cardinality({t \in S : t < x}) \in Nat
  BY <1>1, <1>3, FS_CardinalityType
<1>5. Cardinality({t \in S : t < x}) < n
  BY DEF Least
<1>6. Cardinality({t \in T : t < x}) < n
  BY <1>3, <1>4, <1>5
<1>. QED
  BY <1>6 DEF Least

\* Nothing waits and nothing is being written.
LEMMA HeldNothing ==
  ASSUME NEW c, c.queue = {}, \A w \in Writers : c.writing[w] = {}
  PROVE  Held(c) = {}
BY DEF Held

\* Nothing is being written once the pool is empty.
LEMMA PoolEmpty ==
  ASSUME NEW c \in SyncRow, Ordered(c), c.todo = {} \/ ~Pooling(c), c.pc \notin {"spot", "last"}
  PROVE  \A w \in Writers : c.writing[w] = {}
BY DEF Ordered, Writers, InFlight, Least

\* Rows count as owned.
Owns(c, e, lines) ==
  /\ e \in SyncRow /\ SamePlan(c, e) /\ e.todo = c.todo /\ e.spot = c.spot /\ e.lost = c.lost
  /\ e.queue = c.queue /\ e.writing = c.writing
  /\ \A s \in Stocks : e.have[s] = c.have[s] \cup {l[2] : l \in {m \in lines : m[1] = s}}

\* The rows of an answer count as owned.
LEMMA OwningRow ==
  ASSUME NEW c \in SyncRow, NEW lines \in SUBSET Lines, NEW e, e = Owning(c, lines)
  PROVE  Owns(c, e, lines)
<1>. DEFINE h == [s \in Stocks |-> c.have[s] \cup {l[2] : l \in {m \in lines : m[1] = s}}]
<1>1. h \in [Stocks -> SUBSET Days]
  BY LinesTyped DEF SyncRow
<1>2. Owning(c, lines) = [c EXCEPT !.have = h]
  BY DEF Owning, SyncRow
<1>. HIDE DEF h
<1>3. [c EXCEPT !.have = h] \in SyncRow /\ [c EXCEPT !.have = h].have = h
  BY <1>1 DEF SyncRow
<1>4. \A s \in Stocks : h[s] = c.have[s] \cup {l[2] : l \in {m \in lines : m[1] = s}}
  BY DEF h
<1>. QED
  BY <1>2, <1>3, <1>4 DEF Owns, SamePlan, SameRange, SyncRow

\* A row of a process, with another queue.
LEMMA QueuedTyped ==
  ASSUME NEW c \in SyncRow, NEW queue \in SUBSET Lines, NEW writing \in [Writers -> SUBSET Lines]
  PROVE  [c EXCEPT !.queue = queue, !.writing = writing] \in SyncRow
BY DEF SyncRow

\* Rows wait in the queue, or are written with it.
Queues(c, e, lines, w) ==
  /\ e \in SyncRow /\ SamePlan(c, e) /\ e.todo = c.todo /\ e.spot = c.spot /\ e.lost = c.lost /\ e.have = c.have
  /\ Held(e) = Held(c) \cup lines
  /\ \A v \in Writers \ {w} : e.writing[v] = c.writing[v]

\* The rows of an answer wait or are being written, none is dropped.
LEMMA EnqueuedRow ==
  ASSUME NEW c \in SyncRow, NEW lines \in SUBSET Lines, NEW w \in Writers, c.writing[w] = {}, NEW e, e = Enqueued(c, w, lines)
  PROVE  Queues(c, e, lines, w)
<1>. DEFINE all == c.queue \cup lines
<1>1. all \subseteq Lines /\ c.writing \in [Writers -> SUBSET Lines] /\ c.queue \subseteq Lines
  BY DEF SyncRow
<1>. HIDE DEF all
<1>2. CASE e = [c EXCEPT !.queue = {}, !.writing[w] = all]
  <2>. DEFINE writing == [c.writing EXCEPT ![w] = all]
  <2>a. writing \in [Writers -> SUBSET Lines] /\ e = [c EXCEPT !.queue = {}, !.writing = writing]
    BY <1>1, <1>2 DEF SyncRow
  <2>. HIDE DEF writing
  <2>b. e \in SyncRow
    <3>1. [c EXCEPT !.queue = {}, !.writing = writing] \in SyncRow
      BY <2>a, QueuedTyped, ZenonT(40)
    <3>. QED
      BY <2>a, <3>1
  <2>c. /\ SamePlan(c, e) /\ e.todo = c.todo /\ e.spot = c.spot /\ e.lost = c.lost /\ e.have = c.have
        /\ e.queue = {} /\ e.writing = writing
    BY <2>a DEF SyncRow, SamePlan, SameRange
  <2>1. /\ SamePlan(c, e) /\ e.todo = c.todo /\ e.spot = c.spot /\ e.lost = c.lost /\ e.have = c.have
        /\ e.queue = {} /\ e.writing = [c.writing EXCEPT ![w] = all]
    BY <2>c DEF writing
  <2>2. e.writing[w] = all /\ \A v \in Writers \ {w} : e.writing[v] = c.writing[v]
    BY <1>1, <2>1
  <2>3. Held(e) = Held(c) \cup lines
    BY <2>1, <2>2 DEF Held, all
  <2>. QED
    BY <2>b, <2>1, <2>2, <2>3 DEF Queues
<1>3. CASE e = [c EXCEPT !.queue = @ \cup lines]
  <2>1. /\ e \in SyncRow /\ SamePlan(c, e) /\ e.todo = c.todo /\ e.spot = c.spot /\ e.lost = c.lost /\ e.have = c.have
        /\ e.queue = c.queue \cup lines /\ e.writing = c.writing
    BY <1>1, <1>3 DEF SyncRow, SamePlan, SameRange, all
  <2>2. Held(e) = Held(c) \cup lines
    BY <2>1 DEF Held
  <2>. QED
    BY <2>1, <2>2 DEF Queues
<1>. QED
  BY <1>2, <1>3 DEF Enqueued, all

\* A stock leaves the pool.
LEMMA LeaveRow ==
  ASSUME NEW c \in SyncRow, NEW s \in Stocks, c.writing[s] = {}, NEW e, e = Leave(c, s)
  PROVE  /\ e \in SyncRow /\ SamePlan(c, e) /\ e.spot = c.spot /\ e.lost = c.lost /\ e.have = c.have
         /\ e.queue = c.queue /\ e.writing = c.writing /\ Held(e) = Held(c)
         /\ e.todo = c.todo \ {s}
<1>0. e = [c EXCEPT !.todo = @ \ {s}]
  BY DEF Leave
<1>1. /\ e \in SyncRow /\ SamePlan(c, e) /\ e.spot = c.spot /\ e.lost = c.lost /\ e.have = c.have
      /\ e.queue = c.queue /\ e.writing = c.writing /\ e.todo = c.todo \ {s}
  BY <1>0 DEF SyncRow, SamePlan, SameRange
<1>2. Held(e) = Held(c)
  BY <1>1 DEF Held
<1>. QED
  BY <1>1, <1>2

\* Rows are owned and queued.
Takes(c, e, lines, w) ==
  /\ e \in SyncRow /\ SamePlan(c, e) /\ e.todo = c.todo /\ e.spot = c.spot /\ e.lost = c.lost
  /\ Held(e) = Held(c) \cup lines
  /\ \A v \in Writers \ {w} : e.writing[v] = c.writing[v]
  /\ \A s \in Stocks : e.have[s] = c.have[s] \cup {l[2] : l \in {m \in lines : m[1] = s}}

\* What enqueueRows does with the rows that count as owned.
LEMMA TakenRow ==
  ASSUME NEW c \in SyncRow, NEW lines \in SUBSET Lines, NEW w \in Writers, c.writing[w] = {},
         NEW e, e = Enqueued(Owning(c, lines), w, lines)
  PROVE  Takes(c, e, lines, w)
<1>. DEFINE own == Owning(c, lines)
<1>1. Owns(c, own, lines)
  BY OwningRow
<1>2. own \in SyncRow /\ own.writing[w] = {} /\ e = Enqueued(own, w, lines)
  BY <1>1 DEF Owns
<1>. HIDE DEF own
<1>3. Queues(own, e, lines, w)
  BY <1>2, EnqueuedRow
<1>4. Held(own) = Held(c)
  BY <1>1 DEF Held, Owns
<1>. QED
  BY <1>1, <1>3, <1>4 DEF Takes, Owns, Queues, SamePlan, SameRange

-----------------------------------------------------------------------------
(* How holdings change: nothing, rows are taken, a batch lands, a batch is lost *)

\* Steps that neither take nor write rows keep what is held and owned.
LEMMA SameHoldings ==
  ASSUME NEW c \in SyncRow, NEW e \in SyncRow, NEW table, NEW guilty, NEW today, c.pc # "idle",
         Dated(c, today), Owned(c, table), Kept(c, guilty), Closing(c, table, guilty),
         SameRange(c, e), e.have = c.have, e.lost = c.lost, Held(e) = Held(c)
  PROVE  Dated(e, today) /\ Owned(e, table) /\ Kept(e, guilty) /\ Closing(e, table, guilty)
<1>1. \A s, d : Holds(e, s, d) <=> Holds(c, s, d)
  BY DEF Holds
<1>2. SpotDay(e) = SpotDay(c)
  BY DEF SameRange, SpotDay
<1>3. Dated(e, today)
  BY <1>2 DEF Dated, SameRange
<1>4. Owned(e, table)
  BY <1>1 DEF Owned
<1>5. Kept(e, guilty)
  BY DEF Kept
<1>6. Closing(e, table, guilty)
  BY <1>1 DEF Closing
<1>. QED
  BY <1>3, <1>4, <1>5, <1>6

\* Rows are taken over that close up with what is stored or owned.
LEMMA TakenHoldings ==
  ASSUME NEW c \in SyncRow, NEW e \in SyncRow, NEW table, NEW guilty, NEW today, c.pc # "idle",
         Dated(c, today), Owned(c, table), Kept(c, guilty), Closing(c, table, guilty),
         NEW lines \in SUBSET Lines, SameRange(c, e), e.lost = c.lost, Held(e) = Held(c) \cup lines,
         \A s \in Stocks : e.have[s] = c.have[s] \cup {l[2] : l \in {m \in lines : m[1] = s}},
         \A l \in lines : l[2] \in c.start .. c.end,
         \A s \in Stocks \ guilty : \A l \in lines :
           l[1] = s => l[2] \in Trades[s] /\ \A d \in Trades[s] : d < l[2] => d \in table[s] \/ d \in e.have[s]
  PROVE  Dated(e, today) /\ Owned(e, table) /\ Kept(e, guilty) /\ Closing(e, table, guilty)
<1>1. \A s, d : Holds(c, s, d) => Holds(e, s, d)
  BY DEF Holds
<1>2. SpotDay(e) = SpotDay(c)
  BY DEF SameRange, SpotDay
<1>3. Dated(e, today)
  <2>1. \A l \in Held(e) : l[2] \in e.start .. e.end
    BY DEF Dated, SameRange
  <2>2. \A s \in Stocks \ e.pending : e.start = e.end /\ e.end \in e.have[s]
    BY DEF Dated, SameRange
  <2>. QED
    BY <1>2, <2>1, <2>2 DEF Dated, SameRange
<1>4. Owned(e, table)
  <2>. SUFFICES ASSUME NEW s \in Stocks, NEW d \in e.have[s]
                PROVE  d \in table[s] \/ <<s, d>> \in e.lost \/ Holds(e, s, d)
    BY DEF Owned
  <2>1. CASE d \in c.have[s]
    BY <1>1, <2>1 DEF Owned
  <2>2. CASE d \in {l[2] : l \in {m \in lines : m[1] = s}}
    BY <2>2 DEF Holds
  <2>. QED
    BY <2>1, <2>2
<1>5. Kept(e, guilty)
  BY DEF Kept
<1>6. Closing(e, table, guilty)
  <2>. SUFFICES ASSUME NEW s \in Stocks \ guilty, NEW l \in Held(e), l[1] = s
                PROVE  l[2] \in Trades[s] /\ \A d \in Trades[s] : d < l[2] => d \in table[s] \/ Holds(e, s, d)
    BY DEF Closing
  <2>1. CASE l \in Held(c)
    BY <1>1, <2>1 DEF Closing
  <2>2. CASE l \in lines
    <3>1. \A d \in Trades[s] : d \in e.have[s] => d \in table[s] \/ Holds(e, s, d)
      BY <1>4, <1>5, TradesTyped DEF Owned, Kept
    <3>. QED
      BY <2>2, <3>1
  <2>. QED
    BY <2>1, <2>2
<1>. QED
  BY <1>3, <1>4, <1>5, <1>6

\* A batch is in the table now.
LEMMA LandedHoldings ==
  ASSUME NEW c \in SyncRow, NEW e \in SyncRow, NEW table, NEW after, NEW guilty, NEW today, c.pc # "idle",
         Dated(c, today), Owned(c, table), Kept(c, guilty), Closing(c, table, guilty),
         NEW batch \in SUBSET Lines, SameRange(c, e), e.have = c.have, e.lost = c.lost, Held(c) = Held(e) \cup batch,
         \A s \in Stocks : table[s] \subseteq after[s],
         \A l \in batch : l[2] \in after[l[1]]
  PROVE  Dated(e, today) /\ Owned(e, after) /\ Kept(e, guilty) /\ Closing(e, after, guilty)
<1>1. \A s \in Stocks, d \in Days : Holds(c, s, d) => Holds(e, s, d) \/ d \in after[s]
  BY DEF Holds
<1>2. SpotDay(e) = SpotDay(c)
  BY DEF SameRange, SpotDay
<1>3. Dated(e, today)
  BY <1>2 DEF Dated, SameRange
<1>4. Owned(e, after)
  <2>1. \A s \in Stocks : \A d \in c.have[s] : d \in Days
    BY DEF SyncRow
  <2>. QED
    BY <1>1, <2>1 DEF Owned
<1>5. Kept(e, guilty)
  BY DEF Kept
<1>6. Closing(e, after, guilty)
  BY <1>1, TradesTyped DEF Closing
<1>. QED
  BY <1>3, <1>4, <1>5, <1>6

\* A batch is lost, and its stocks are to blame.
LEMMA LostHoldings ==
  ASSUME NEW c \in SyncRow, NEW e \in SyncRow, NEW table, NEW guilty, NEW more, NEW today, c.pc # "idle",
         Dated(c, today), Owned(c, table), Kept(c, guilty), Closing(c, table, guilty),
         NEW batch \in SUBSET Lines, SameRange(c, e), e.have = c.have, Held(c) = Held(e) \cup batch,
         e.lost = c.lost \cup {<<l[1], l[2]>> : l \in batch},
         guilty \subseteq more, \A l \in batch : l[1] \in more
  PROVE  Dated(e, today) /\ Owned(e, table) /\ Kept(e, more) /\ Closing(e, table, more)
<1>1. \A s \in Stocks, d \in Days : Holds(c, s, d) => Holds(e, s, d) \/ <<s, d>> \in e.lost
  BY DEF Holds
<1>2. SpotDay(e) = SpotDay(c)
  BY DEF SameRange, SpotDay
<1>3. Dated(e, today)
  BY <1>2 DEF Dated, SameRange
<1>4. Owned(e, table)
  <2>1. \A s \in Stocks : \A d \in c.have[s] : d \in Days
    BY DEF SyncRow
  <2>. QED
    BY <1>1, <2>1 DEF Owned
<1>5. Kept(e, more)
  <2>. SUFFICES ASSUME NEW s \in Stocks \ more, NEW d \in Days, <<s, d>> \in e.lost PROVE FALSE
    BY DEF Kept
  <2>1. <<s, d>> \notin c.lost
    BY DEF Kept
  <2>2. PICK l \in batch : <<s, d>> = <<l[1], l[2]>>
    BY <2>1
  <2>. QED
    BY <2>2
<1>6. Closing(e, table, more)
  BY <1>1, <1>5, TradesTyped DEF Closing, Kept
<1>. QED
  BY <1>3, <1>4, <1>5, <1>6

\* More candles, more blame and a later day leave a process as it stands.
LEMMA StandingRaised ==
  ASSUME NEW c \in SyncRow, NEW table, NEW guilty, NEW today \in Nat, Standing(c, table, guilty, today),
         NEW after, \A s \in Stocks : table[s] \subseteq after[s],
         NEW more, guilty \subseteq more, NEW later \in Nat, today <= later
  PROVE  Standing(c, after, more, later)
<1>1. Dated(c, later)
  <2>1. c.end \in Nat
    BY DaysTyped DEF SyncRow
  <2>2. c.end <= later
    BY <2>1 DEF Standing, Dated
  <2>. QED
    BY <2>2 DEF Standing, Dated
<1>2. Owned(c, after)
  BY DEF Standing, Owned
<1>3. Coverage(c, more)
  BY DEF Standing, Coverage
<1>4. Kept(c, more) /\ FromStart(c, after, more) /\ SpotsTrade(c, more)
  BY DEF Standing, Kept, FromStart, SpotsTrade
<1>5. Closing(c, after, more)
  BY DEF Standing, Closing
<1>. QED
  BY <1>1, <1>2, <1>3, <1>4, <1>5 DEF Standing

-----------------------------------------------------------------------------
(* Every step leaves its process as it stands *)

\* The range is taken and the table is read.
LEMMA LoadedStands ==
  ASSUME ClockType, NEW mode \in {"incremental", "missing"}, NEW start \in Days, NEW guilty \in SUBSET Stocks,
         \A s \in Stocks \ guilty : \A d \in Trades[s] : d < start => d \in Stored(s)
  PROVE  Loaded(mode, start) \in SyncRow /\ Standing(Loaded(mode, start), Table, guilty, Day)
<1>. DEFINE e == Loaded(mode, start)
<1>1. Day \in Days /\ Day \in Nat /\ start \in Nat
  BY DayOf, DaysTyped DEF ClockType
<1>2. /\ Pending(start, Day) \subseteq Stocks
      /\ \A s \in Stocks \ Pending(start, Day) : start = Day /\ Day \in Stored(s)
  BY DEF Pending
<1>3. \A s \in Stocks : Stored(s) \subseteq Days
  BY DEF Stored
<1>. DEFINE have == [s \in Stocks |-> Stored(s) \cap (start .. Day)]
<1>4. have \in [Stocks -> SUBSET Days] /\ \A s \in Stocks : have[s] = Stored(s) \cap (start .. Day)
  BY <1>3
<1>. HIDE DEF have
<1>5. NoRows \in [Writers -> SUBSET Lines] /\ \A w \in Writers : NoRows[w] = {}
  BY DEF NoRows, Writers
<1>6. NoSync \in SyncRow
  BY <1>5, DaysAssumption, DaysTyped DEF NoSync, SyncRow, SyncPc, Days
<1>7. /\ e \in SyncRow
      /\ e.pc = IF Pending(start, Day) = {} THEN "done" ELSE IF mode = "incremental" THEN "probe" ELSE "pool"
      /\ e.stage = IF mode = "incremental" THEN "none" ELSE "all"
      /\ e.start = start /\ e.end = Day /\ e.lo = start /\ e.hi = Day /\ e.have = have /\ e.pending = Pending(start, Day)
      /\ e.todo = IF mode = "incremental" THEN {} ELSE Pending(start, Day)
      /\ e.calendar = "none" /\ e.days = {} /\ e.spot = {} /\ e.covered = {} /\ e.queue = {} /\ e.writing = NoRows
      /\ e.failed = {} /\ e.lost = {}
  <2>1. e = [NoSync EXCEPT !.mode = mode,
                 !.pc = IF Pending(start, Day) = {} THEN "done" ELSE IF mode = "incremental" THEN "probe" ELSE "pool",
                 !.stage = IF mode = "incremental" THEN "none" ELSE "all",
                 !.start = start, !.end = Day, !.lo = start, !.hi = Day,
                 !.have = have,
                 !.pending = Pending(start, Day),
                 !.todo = IF mode = "incremental" THEN {} ELSE Pending(start, Day)]
    BY DEF Loaded, have
  <2>. DEFINE pending == Pending(start, Day)
  <2>. DEFINE pc == IF Pending(start, Day) = {} THEN "done" ELSE IF mode = "incremental" THEN "probe" ELSE "pool"
  <2>. DEFINE stage == IF mode = "incremental" THEN "none" ELSE "all"
  <2>. DEFINE todo == IF mode = "incremental" THEN {} ELSE Pending(start, Day)
  <2>3. e = [NoSync EXCEPT !.mode = mode, !.pc = pc, !.stage = stage, !.start = start, !.end = Day, !.lo = start, !.hi = Day,
                           !.have = have, !.pending = pending, !.todo = todo]
    BY <2>1
  <2>4. pc \in SyncPc /\ stage \in {"none", "all"} /\ todo \subseteq Stocks /\ pending \subseteq Stocks
    BY <1>2 DEF SyncPc
  <2>2. /\ NoSync.calendar = "none" /\ NoSync.days = {} /\ NoSync.spot = {} /\ NoSync.covered = {} /\ NoSync.queue = {}
        /\ NoSync.writing = NoRows /\ NoSync.failed = {} /\ NoSync.lost = {}
    BY DEF NoSync
  <2>. HIDE DEF e, pending, pc, stage, todo
  <2>5. /\ e \in SyncRow
        /\ e.pc = pc /\ e.stage = stage /\ e.start = start /\ e.end = Day /\ e.lo = start /\ e.hi = Day /\ e.have = have
        /\ e.pending = pending /\ e.todo = todo
        /\ e.calendar = "none" /\ e.days = {} /\ e.spot = {} /\ e.covered = {} /\ e.queue = {} /\ e.writing = NoRows
        /\ e.failed = {} /\ e.lost = {}
    BY <1>1, <1>4, <1>6, <2>2, <2>3, <2>4 DEF SyncRow
  <2>. QED
    BY <2>5 DEF pending, pc, stage, todo
<1>. HIDE DEF e
<1>8. Held(e) = {} /\ \A w \in Writers : e.writing[w] = {}
  BY <1>5, <1>7, HeldNothing
<1>9. Ordered(e)
  BY <1>7, <1>8, StocksTyped DEF Ordered, Pooling, Writers
<1>10. Dated(e, Day)
  <2>1. \A s \in Stocks \ e.pending : e.start = e.end /\ e.end \in e.have[s]
    BY <1>1, <1>2, <1>4, <1>7
  <2>. QED
    BY <1>1, <1>7, <1>8, <2>1 DEF Dated
<1>11. Owned(e, Table)
  BY <1>4, <1>7 DEF Owned, Table
<1>12. Coverage(e, guilty)
  <2>1. ASSUME NEW s \in Stocks, e.stage = "all", s \notin e.pending PROVE AllDone(e, s)
    <3>1. e.start = e.end /\ e.end \in e.have[s] /\ e.end \in Nat
      BY <1>1, <1>7, <1>10, <2>1 DEF Dated
    <3>2. \A d \in Trades[s] : d \in e.start .. e.end => d = e.end
      BY <3>1, TradesTyped
    <3>. QED
      BY <3>1, <3>2 DEF AllDone
  <2>2. \A s \in Stocks : Passed(e, s) => s \notin e.todo
    BY <1>8, StocksTyped DEF Passed
  <2>3. e.stage = "all" => e.todo = e.pending
    BY <1>7
  <2>4. e.stage \in {"none", "all"} /\ e.pc \in {"done", "probe", "pool"} /\ (e.pc = "done" => e.pending = {})
        /\ (e.pc = "pool" => e.stage = "all")
    BY <1>7
  <2>. QED
    BY <2>1, <2>2, <2>3, <2>4 DEF Coverage, Covers, Pooling
<1>13. Kept(e, guilty) /\ SpotsTrade(e, guilty) /\ Closing(e, Table, guilty)
  BY <1>7, <1>8 DEF Kept, SpotsTrade, Closing
<1>14. FromStart(e, Table, guilty)
  BY <1>7 DEF FromStart, Table
<1>. QED
  BY <1>7, <1>9, <1>10, <1>11, <1>12, <1>13, <1>14 DEF Standing, e

\* The probe of the sources.
LEMMA ProbeStands ==
  ASSUME NEW c \in SyncRow, NEW table, NEW guilty, NEW today, Standing(c, table, guilty, today), c.pc = "probe",
         NEW alive \in BOOLEAN, NEW e, e = [c EXCEPT !.pc = "calendar", !.alive = alive]
  PROVE  Advances(c, e, table, guilty, today)
<1>1. /\ e \in SyncRow /\ SameRange(c, e) /\ e.pc = "calendar" /\ e.stage = c.stage /\ e.lo = c.lo /\ e.hi = c.hi
      /\ e.have = c.have /\ e.lost = c.lost /\ e.queue = c.queue /\ e.writing = c.writing /\ e.todo = c.todo
      /\ e.spot = c.spot /\ e.covered = c.covered /\ e.price = c.price /\ e.failed = c.failed
  BY DEF SyncRow, SyncPc, SameRange
<1>2. Held(e) = Held(c)
  BY <1>1 DEF Held
<1>3. Ordered(e)
  BY <1>1 DEF Standing, Ordered, SameRange, Pooling, InFlight
<1>4. Dated(e, today) /\ Owned(e, table) /\ Kept(e, guilty) /\ Closing(e, table, guilty)
  BY <1>1, <1>2, SameHoldings DEF Standing
<1>5. Coverage(e, guilty)
  BY <1>1 DEF Coverage, Covers, Pooling
<1>6. FromStart(e, table, guilty) /\ SpotsTrade(e, guilty)
  BY <1>1 DEF Standing, FromStart, SpotsTrade, Resting, SameRange
<1>. QED
  BY <1>1, <1>3, <1>4, <1>5, <1>6 DEF Standing, Advances, Resting, SameRange

\* The rows of these steps are rows.
LEMMA PlannedTyped ==
  ASSUME NEW c \in SyncRow, NEW kind \in {"none", "aktools", "sina"}, NEW days \in SUBSET Sessions, NEW last \in Nat,
         NEW gaps \in SUBSET Stocks
  PROVE  [c EXCEPT !.pc = "pool", !.stage = "gap", !.calendar = kind, !.days = days, !.hi = last, !.todo = gaps] \in SyncRow
BY DEF SyncRow, SyncPc

\* A row of a process whose breaker has tripped.
LEMMA TrippedTyped ==
  ASSUME NEW c \in SyncRow, NEW streak \in Nat, NEW rest \in SUBSET Stocks
  PROVE  [c EXCEPT !.streak = streak, !.pc = "tripped", !.todo = rest] \in SyncRow
BY DEF SyncRow, SyncPc

\* A row of a process with one more failed stock.
LEMMA RefusedTyped ==
  ASSUME NEW c \in SyncRow, NEW streak \in Nat, NEW s \in Stocks
  PROVE  [c EXCEPT !.streak = streak, !.failed = @ \cup {s}, !.todo = @ \ {s}] \in SyncRow
BY DEF SyncRow, SyncPc

\* The calendar is known.
LEMMA PlannedStands ==
  ASSUME NEW c \in SyncRow, NEW table, NEW guilty, NEW more, NEW today \in Nat, Standing(c, table, guilty, today), c.pc = "calendar",
         NEW kind \in {"aktools", "sina"}, NEW days \in SUBSET Sessions, days # {}, days \subseteq c.start .. c.end,
         kind = "aktools" => days = {d \in Sessions : d \in c.start .. c.end},
         \A d \in Sessions : d \in c.start .. c.end => d <= Max(days),
         guilty \subseteq more,
         kind = "sina" => \A s \in Stocks \ more : \A d \in Trades[s] : c.start <= d /\ d < Max(days) => d \in c.have[s],
         NEW e, e = Planned(c, kind, days)
  PROVE  Advances(c, e, table, more, today)
<1>1. Standing(c, table, more, today)
  BY StandingRaised
<1>2. Max(days) \in days /\ (\A d \in days : Max(days) >= d) /\ Max(days) \in Nat /\ Max(days) >= 1
  <2>1. days \in SUBSET (0 .. LastDay) /\ LastDay \in Nat
    BY DaysAssumption DEF Days
  <2>2. Max(days) \in days /\ \A d \in days : Max(days) >= d
    BY <2>1, MaxOf
  <2>. QED
    BY <2>2, DaysAssumption, DaysTyped
<1>3. Gaps(c, days) \subseteq Stocks
  BY DEF Gaps
<1>. DEFINE spotDay == Max(days)
<1>. DEFINE gaps == Gaps(c, days)
<1>4. e = [c EXCEPT !.pc = "pool", !.stage = "gap", !.calendar = kind, !.days = days, !.hi = spotDay - 1, !.todo = gaps]
  BY DEF Planned
<1>5. spotDay \in Nat /\ spotDay >= 1 /\ spotDay - 1 \in Nat /\ gaps \subseteq Stocks
  BY <1>2, <1>3
<1>. HIDE DEF spotDay, gaps
<1>6. /\ e \in SyncRow /\ e.start = c.start /\ e.end = c.end /\ e.pending = c.pending /\ e.pc = "pool" /\ e.stage = "gap"
      /\ e.calendar = kind /\ e.days = days /\ e.lo = c.lo /\ e.hi = spotDay - 1 /\ e.todo = gaps
      /\ e.have = c.have /\ e.lost = c.lost /\ e.queue = c.queue /\ e.writing = c.writing
  <2>. DEFINE last == spotDay - 1
  <2>1. last \in Nat
    BY <1>5
  <2>. HIDE DEF last
  <2>2. e = [c EXCEPT !.pc = "pool", !.stage = "gap", !.calendar = kind, !.days = days, !.hi = last, !.todo = gaps]
    BY <1>4 DEF last
  <2>3. e \in SyncRow
    <3>1. gaps \in SUBSET Stocks /\ kind \in {"none", "aktools", "sina"}
      BY <1>5
    <3>2. [c EXCEPT !.pc = "pool", !.stage = "gap", !.calendar = kind, !.days = days, !.hi = last, !.todo = gaps] \in SyncRow
      BY <2>1, <3>1, PlannedTyped, ZenonT(40)
    <3>. QED
      BY <2>2, <3>2
  <2>4. /\ e.start = c.start /\ e.end = c.end /\ e.pending = c.pending /\ e.pc = "pool" /\ e.stage = "gap"
        /\ e.calendar = kind /\ e.days = days /\ e.lo = c.lo /\ e.hi = last /\ e.todo = gaps
        /\ e.have = c.have /\ e.lost = c.lost /\ e.queue = c.queue /\ e.writing = c.writing
    BY <2>2 DEF SyncRow
  <2>. QED
    BY <2>3, <2>4 DEF last
<1>7. c.queue = {} /\ \A w \in Writers : c.writing[w] = {}
  BY <1>1, PoolEmpty DEF Standing, Ordered, Pooling
<1>8. Held(c) = {} /\ Held(e) = {} /\ (\A w \in Writers : e.writing[w] = {})
  BY <1>6, <1>7, HeldNothing
<1>9. SpotDay(e) = spotDay
  BY <1>6 DEF SpotDay, spotDay
<1>10. Ordered(e)
  BY <1>1, <1>6, <1>8, <1>9, StocksTyped DEF Standing, Ordered, Pooling, Writers
<1>11. Dated(e, today)
  BY <1>1, <1>2, <1>6, <1>8, <1>9 DEF Standing, Dated, spotDay
<1>12. Owned(e, table)
  <2>1. \A s, d : Holds(e, s, d) <=> Holds(c, s, d)
    BY <1>8 DEF Holds
  <2>. QED
    BY <1>1, <1>6, <2>1 DEF Standing, Owned
<1>13. Coverage(e, more)
  <2>1. ASSUME NEW s \in Stocks, s \notin more \/ kind = "aktools", s \notin gaps
        PROVE  GapDone(e, s)
    <3>. SUFFICES ASSUME NEW d \in Trades[s], c.start <= d, d < spotDay PROVE d \in c.have[s]
      BY <1>6, <1>9 DEF GapDone
    <3>1. CASE kind = "sina"
      BY <2>1, <3>1 DEF spotDay
    <3>2. CASE kind = "aktools"
      <4>1. d \in Sessions /\ d \in Nat /\ c.start \in Nat /\ c.end \in Nat /\ spotDay <= c.end
        BY <1>2, <1>5, TradesTyped, DaysTyped DEF SyncRow, spotDay
      <4>2. d \in days
        BY <1>5, <3>2, <4>1
      <4>3. d \in days \ {Max(days)}
        BY <1>5, <4>1, <4>2 DEF spotDay
      <4>. QED
        BY <2>1, <4>3 DEF gaps, Gaps
    <3>. QED
      BY <3>1, <3>2
  <2>2. \A s \in Stocks : Passed(e, s) => s \notin gaps
    BY <1>6, <1>8, StocksTyped DEF Passed
  <2>. QED
    BY <1>6, <2>1, <2>2 DEF Coverage, Covers, Pooling
<1>14. Kept(e, more) /\ SpotsTrade(e, more) /\ Closing(e, table, more) /\ FromStart(e, table, more)
  BY <1>1, <1>6, <1>8 DEF Standing, Kept, SpotsTrade, Closing, FromStart, Resting
<1>. QED
  BY <1>6, <1>10, <1>11, <1>12, <1>13, <1>14 DEF Standing, Advances, Resting

\* The snapshot path is given up.
LEMMA FallBackStands ==
  ASSUME NEW c \in SyncRow, NEW table, NEW guilty, NEW today, ~Resting(c), \A w \in Writers : c.writing[w] = {},
         Dated(c, today), Owned(c, table), Kept(c, guilty), Closing(c, table, guilty), FromStart(c, table, guilty),
         NEW e, e = FallBack(c)
  PROVE  Advances(c, e, table, guilty, today)
<1>1. /\ e \in SyncRow /\ SameRange(c, e) /\ e.pc = "pool" /\ e.stage = "all" /\ e.lo = c.start /\ e.hi = c.end /\ e.todo = c.pending
      /\ e.have = c.have /\ e.lost = c.lost /\ e.queue = c.queue /\ e.writing = c.writing
  BY DaysTyped DEF FallBack, SyncRow, SyncPc, SameRange
<1>2. Held(e) = Held(c)
  BY <1>1 DEF Held
<1>3. Ordered(e)
  BY <1>1, StocksTyped DEF Ordered, Pooling, Writers, SameRange
<1>4. Dated(e, today) /\ Owned(e, table) /\ Kept(e, guilty) /\ Closing(e, table, guilty)
  BY <1>1, <1>2, SameHoldings DEF Resting
<1>5. Coverage(e, guilty)
  <2>1. ASSUME NEW s \in Stocks, s \notin c.pending PROVE AllDone(e, s)
    <3>1. e.start = e.end /\ e.end \in e.have[s] /\ e.end \in Nat
      BY <1>1, <1>4, <2>1, DaysTyped DEF Dated, SameRange, SyncRow, Resting
    <3>2. \A d \in Trades[s] : d \in e.start .. e.end => d = e.end
      BY <3>1, TradesTyped
    <3>. QED
      BY <3>1, <3>2 DEF AllDone
  <2>2. \A s \in Stocks : Passed(e, s) => s \notin c.pending
    BY <1>1, StocksTyped DEF Passed
  <2>. QED
    BY <1>1, <2>1, <2>2 DEF Coverage, Covers, Pooling
<1>6. FromStart(e, table, guilty) /\ SpotsTrade(e, guilty)
  BY <1>1 DEF FromStart, SpotsTrade, SameRange
<1>. QED
  BY <1>1, <1>3, <1>4, <1>5, <1>6 DEF Standing, Advances, Resting, SameRange

\* What the fetch of a stock has to look for at its stage.
Reached(c, s) ==
  /\ c.stage = "gap" => GapDone(c, s)
  /\ c.stage = "uncovered" => GapDone(c, s) /\ SpotDone(c, s)
  /\ c.stage = "all" => AllDone(c, s)

\* A stock whose sessions between the two ends of the fetch are owned has reached its stage.
LEMMA ReachedByFetch ==
  ASSUME NEW c \in SyncRow, NEW today, Ordered(c), Dated(c, today), Pooling(c), NEW s \in Stocks,
         \A d \in Trades[s] : d \in c.lo .. c.hi => d \in c.have[s],
         c.stage = "uncovered" => GapDone(c, s)
  PROVE  Reached(c, s)
<1>0. c.start \in Nat /\ c.end \in Nat
  BY DaysTyped DEF SyncRow
<1>1. CASE c.stage = "gap"
  <2>1. c.lo = c.start /\ c.hi = SpotDay(c) - 1 /\ SpotDay(c) \in Nat
    BY <1>1, SpotDayIs, DaysTyped DEF Ordered, Dated
  <2>2. \A d \in Trades[s] : c.start <= d /\ d < SpotDay(c) => d \in c.lo .. c.hi
    BY <1>0, <2>1, TradesTyped
  <2>. QED
    BY <1>1, <2>2 DEF Reached, GapDone
<1>2. CASE c.stage = "uncovered"
  <2>1. c.lo = SpotDay(c) /\ c.hi = SpotDay(c) /\ SpotDay(c) \in Nat
    BY <1>2, SpotDayIs, DaysTyped DEF Ordered, Dated
  <2>2. SpotDay(c) \in c.lo .. c.hi
    BY <2>1
  <2>. QED
    BY <1>2, <2>2 DEF Reached, SpotDone
<1>3. CASE c.stage = "all"
  BY <1>3 DEF Reached, AllDone, Ordered
<1>. QED
  BY <1>1, <1>2, <1>3 DEF Reached

\* A fetch or a write of a worker has failed.
LEMMA RefusedStands ==
  ASSUME NEW c \in SyncRow, NEW table, NEW guilty, NEW today, Standing(c, table, guilty, today),
         NEW s \in Stocks, Pooling(c), s \in InFlight(c), c.writing[s] = {}, s \notin guilty /\ c.pc = "pool" => Reached(c, s),
         NEW transport \in BOOLEAN, NEW e, e = Refused(c, s, transport)
  PROVE  Advances(c, e, table, guilty, today)
<1>. DEFINE streak == IF transport THEN c.streak + 1 ELSE 0
<1>1. streak \in Nat
  BY DEF SyncRow
<1>. HIDE DEF streak
<1>2. InFlight(c) \subseteq c.todo /\ c.todo \subseteq Stocks
  BY DEF InFlight, Least, SyncRow
<1>3. CASE e = [c EXCEPT !.streak = streak, !.pc = "tripped", !.todo = InFlight(c) \ {s}]
  <2>. DEFINE rest == InFlight(c) \ {s}
  <2>0. rest \subseteq c.todo
    BY <1>2
  <2>. HIDE DEF rest
  <2>a. e \in SyncRow
    <3>1. rest \in SUBSET Stocks
      BY <1>2, <2>0
    <3>2. [c EXCEPT !.streak = streak, !.pc = "tripped", !.todo = rest] \in SyncRow
      BY <1>1, <3>1, TrippedTyped, ZenonT(40)
    <3>. QED
      BY <1>3, <3>2 DEF rest
  <2>1. /\ e \in SyncRow /\ SameRange(c, e) /\ e.pc = "tripped" /\ e.stage = c.stage /\ e.lo = c.lo /\ e.hi = c.hi /\ e.todo = rest
        /\ e.have = c.have /\ e.lost = c.lost /\ e.queue = c.queue /\ e.writing = c.writing
        /\ e.covered = c.covered /\ e.spot = c.spot /\ e.failed = c.failed
    BY <1>3, <2>a DEF SyncRow, SameRange, rest
  <2>2. Held(e) = Held(c)
    BY <2>1 DEF Held
  <2>3. \A t \in Stocks : e.writing[t] # {} => t \in InFlight(e)
    <3>. SUFFICES ASSUME NEW t \in Stocks, e.writing[t] # {} PROVE t \in InFlight(e)
      OBVIOUS
    <3>1. t \in InFlight(c) /\ t \in rest
      BY <2>1 DEF Standing, Ordered, rest
    <3>. QED
      BY <1>2, <2>0, <2>1, <3>1, LeastShrinks, SyncAssumption DEF InFlight
  <2>4. SpotDay(e) = SpotDay(c)
    BY <2>1 DEF SpotDay, SameRange
  <2>5. Ordered(e)
    BY <2>1, <2>3, <2>4 DEF Standing, Ordered, Pooling, SameRange
  <2>6. Dated(e, today) /\ Owned(e, table) /\ Kept(e, guilty) /\ Closing(e, table, guilty)
    BY <2>1, <2>2, SameHoldings DEF Standing, Pooling
  <2>7. Coverage(e, guilty)
    <3>1. \A t \in Stocks : GapDone(e, t) <=> GapDone(c, t)
      BY <2>1, <2>4 DEF GapDone, SameRange
    <3>. QED
      BY <2>1, <3>1 DEF Standing, Coverage, Covers, Pooling, SameRange
  <2>8. FromStart(e, table, guilty) /\ SpotsTrade(e, guilty)
    BY <2>1 DEF Standing, FromStart, SpotsTrade, Resting, Pooling, SameRange
  <2>. QED
    BY <2>1, <2>5, <2>6, <2>7, <2>8 DEF Standing, Advances, Resting, SameRange
<1>4. CASE e = [c EXCEPT !.streak = streak, !.failed = @ \cup {s}, !.todo = @ \ {s}]
  <2>a. e \in SyncRow
    <3>1. [c EXCEPT !.streak = streak, !.failed = @ \cup {s}, !.todo = @ \ {s}] \in SyncRow
      BY <1>1, RefusedTyped, ZenonT(40)
    <3>. QED
      BY <1>4, <3>1
  <2>1. /\ e \in SyncRow /\ SameRange(c, e) /\ e.pc = c.pc /\ e.stage = c.stage /\ e.lo = c.lo /\ e.hi = c.hi /\ e.todo = c.todo \ {s}
        /\ e.have = c.have /\ e.lost = c.lost /\ e.queue = c.queue /\ e.writing = c.writing
        /\ e.covered = c.covered /\ e.spot = c.spot /\ e.failed = c.failed \cup {s}
    BY <1>4, <2>a DEF SyncRow, SameRange
  <2>2. Held(e) = Held(c)
    BY <2>1 DEF Held
  <2>3. \A t \in Stocks : e.writing[t] # {} => t \in InFlight(e)
    <3>. SUFFICES ASSUME NEW t \in Stocks, e.writing[t] # {} PROVE t \in InFlight(e)
      OBVIOUS
    <3>1. t \in InFlight(c) /\ t \in e.todo /\ e.todo \subseteq c.todo
      BY <1>2, <2>1 DEF Standing, Ordered
    <3>. QED
      BY <1>2, <2>1, <3>1, LeastShrinks, SyncAssumption DEF InFlight
  <2>4. SpotDay(e) = SpotDay(c)
    BY <2>1 DEF SpotDay, SameRange
  <2>5. Ordered(e)
    BY <2>1, <2>3, <2>4 DEF Standing, Ordered, Pooling, SameRange
  <2>6. Dated(e, today) /\ Owned(e, table) /\ Kept(e, guilty) /\ Closing(e, table, guilty)
    BY <2>1, <2>2, SameHoldings DEF Standing, Pooling
  <2>7. Coverage(e, guilty)
    <3>. SUFFICES ASSUME NEW t \in Stocks, t \notin guilty \/ (e.calendar # "sina" /\ t \notin e.failed /\ e.pc # "failed")
                  PROVE  Covers(e, t)
      BY DEF Coverage
    <3>1. /\ GapDone(e, t) <=> GapDone(c, t)
          /\ SpotDone(e, t) <=> SpotDone(c, t)
          /\ AllDone(e, t) <=> AllDone(c, t)
      BY <2>1, <2>4 DEF GapDone, SpotDone, AllDone, SameRange
    <3>2. Covers(c, t)
      BY <2>1 DEF Standing, Coverage, SameRange
    <3>3. t # s => (Passed(e, t) <=> Passed(c, t))
      BY <2>1 DEF Passed
    <3>4. t = s /\ c.pc = "pool" => Reached(c, t)
      BY <2>1
    <3>5. CASE t = s
      BY <2>1, <3>1, <3>2, <3>4, <3>5 DEF Covers, Pooling, Reached
    <3>6. CASE t # s
      BY <2>1, <2>4, <3>1, <3>2, <3>3, <3>6 DEF Covers, Pooling
    <3>. QED
      BY <3>5, <3>6
  <2>8. FromStart(e, table, guilty) /\ SpotsTrade(e, guilty)
    BY <2>1 DEF Standing, FromStart, SpotsTrade, Resting, Pooling, SameRange
  <2>. QED
    BY <2>1, <2>5, <2>6, <2>7, <2>8 DEF Standing, Advances, Resting, Pooling, SameRange
<1>. QED
  BY <1>3, <1>4 DEF Refused, streak

\* The order in which stocks are served stays when some are done with.
LEMMA StillInFlight ==
  ASSUME NEW c \in SyncRow, NEW e \in SyncRow, Ordered(c), e.todo \subseteq c.todo,
         NEW t \in Stocks, c.writing[t] # {}, t \in e.todo
  PROVE  t \in InFlight(e)
<1>1. t \in InFlight(c) /\ c.todo \in SUBSET Stocks
  BY DEF Ordered, SyncRow
<1>. QED
  BY <1>1, LeastShrinks, SyncAssumption DEF InFlight

\* A row of a process that has lost a batch.
LEMMA GivenTyped ==
  ASSUME NEW c \in SyncRow, NEW writing \in [Writers -> SUBSET Lines], NEW lost \in SUBSET (Stocks \X Days)
  PROVE  [c EXCEPT !.writing = writing, !.lost = lost] \in SyncRow
BY DEF SyncRow

\* A row of a process at another place.
LEMMA PcTyped ==
  ASSUME NEW c \in SyncRow, NEW pc \in SyncPc
  PROVE  [c EXCEPT !.pc = pc] \in SyncRow
BY DEF SyncRow

\* A batch is lost.
Given(c, w) == [c EXCEPT !.writing[w] = {}, !.lost = @ \cup {<<l[1], l[2]>> : l \in c.writing[w]}]

\* A failed batch is lost and nothing else.
LEMMA GivenRow ==
  ASSUME NEW c \in SyncRow, NEW w \in Writers, NEW g, g = Given(c, w)
  PROVE  /\ g \in SyncRow /\ SamePlan(c, g) /\ g.todo = c.todo /\ g.spot = c.spot /\ g.have = c.have /\ g.queue = c.queue
         /\ g.lost = c.lost \cup {<<l[1], l[2]>> : l \in c.writing[w]}
         /\ g.writing[w] = {} /\ \A v \in Writers \ {w} : g.writing[v] = c.writing[v]
         /\ Held(c) = Held(g) \cup c.writing[w] /\ c.writing[w] \subseteq Lines
<1>. DEFINE lost == c.lost \cup {<<l[1], l[2]>> : l \in c.writing[w]}
<1>. DEFINE writing == [c.writing EXCEPT ![w] = {}]
<1>1. c.writing \in [Writers -> SUBSET Lines] /\ c.writing[w] \subseteq Lines /\ c.lost \subseteq Stocks \X Days
  BY DEF SyncRow
<1>2. lost \in SUBSET (Stocks \X Days)
  BY <1>1, LinesTyped
<1>3. writing \in [Writers -> SUBSET Lines] /\ writing[w] = {} /\ \A v \in Writers \ {w} : writing[v] = c.writing[v]
  BY <1>1
<1>4. g = [c EXCEPT !.writing = writing, !.lost = lost]
  BY DEF SyncRow, Given
<1>. HIDE DEF lost, writing
<1>5. g \in SyncRow
  <2>1. [c EXCEPT !.writing = writing, !.lost = lost] \in SyncRow
    BY <1>2, <1>3, GivenTyped, ZenonT(40)
  <2>. QED
    BY <1>4, <2>1
<1>6. SamePlan(c, g) /\ g.todo = c.todo /\ g.spot = c.spot /\ g.have = c.have /\ g.lost = lost /\ g.queue = c.queue /\ g.writing = writing
  BY <1>4 DEF SyncRow, SamePlan, SameRange
<1>7. Held(c) = Held(g) \cup c.writing[w]
  BY <1>3, <1>6 DEF Held
<1>. QED
  BY <1>1, <1>3, <1>5, <1>6, <1>7 DEF lost

\* A batch has been written.
LEMMA LandedStands ==
  ASSUME NEW c \in SyncRow, NEW table, NEW guilty, NEW today \in Nat, Standing(c, table, guilty, today),
         NEW w \in Writers, c.writing[w] # {},
         NEW after, \A s \in Stocks : table[s] \subseteq after[s], \A l \in c.writing[w] : l[2] \in after[l[1]],
         NEW e, e = Landed(c, w)
  PROVE  Advances(c, e, after, guilty, today)
<1>. DEFINE written == [c EXCEPT !.writing[w] = {}]
<1>0. written = [c EXCEPT !.writing[w] = {}]
  OBVIOUS
<1>. HIDE DEF written
<1>1. /\ written \in SyncRow /\ SamePlan(c, written) /\ written.todo = c.todo /\ written.spot = c.spot /\ written.have = c.have
      /\ written.lost = c.lost /\ written.queue = c.queue
      /\ written.writing[w] = {} /\ \A v \in Writers \ {w} : written.writing[v] = c.writing[v]
      /\ Held(c) = Held(written) \cup c.writing[w] /\ c.writing[w] \subseteq Lines
  <2>1. c.writing \in [Writers -> SUBSET Lines]
    BY DEF SyncRow
  <2>2. written \in SyncRow /\ written.writing = [c.writing EXCEPT ![w] = {}]
    BY <1>0, <2>1 DEF SyncRow
  <2>3. /\ SamePlan(c, written) /\ written.todo = c.todo /\ written.spot = c.spot /\ written.have = c.have
        /\ written.lost = c.lost /\ written.queue = c.queue
    BY <1>0 DEF SyncRow, SamePlan, SameRange
  <2>4. written.writing[w] = {} /\ \A v \in Writers \ {w} : written.writing[v] = c.writing[v]
    BY <2>1, <2>2
  <2>5. Held(c) = Held(written) \cup c.writing[w]
    BY <2>3, <2>4 DEF Held
  <2>. QED
    BY <2>1, <2>2, <2>3, <2>4, <2>5
<1>2. e = IF w = Main THEN IF c.pc = "last" THEN [written EXCEPT !.pc = "done"] ELSE written ELSE Leave(written, w)
  BY <1>0 DEF Landed
<1>3. w # Main => w \in Stocks /\ w \in InFlight(c) /\ Pooling(c)
  BY DEF Writers, Standing, Ordered
<1>4. w = Main => c.pc \in {"spot", "last"}
  BY DEF Standing, Ordered
<1>5. /\ e \in SyncRow /\ SameRange(c, e) /\ e.stage = c.stage /\ e.lo = c.lo /\ e.hi = c.hi /\ e.covered = c.covered /\ e.price = c.price
      /\ e.failed = c.failed /\ e.spot = c.spot /\ e.have = c.have /\ e.lost = c.lost /\ e.queue = c.queue /\ e.writing = written.writing
      /\ Held(e) = Held(written)
      /\ e.pc = IF w = Main /\ c.pc = "last" THEN "done" ELSE c.pc
      /\ e.todo = IF w = Main THEN c.todo ELSE c.todo \ {w}
  <2>1. CASE w = Main /\ c.pc = "last"
    <3>1. e = [written EXCEPT !.pc = "done"]
      BY <1>2, <2>1
    <3>2. e \in SyncRow
      BY <1>1, <3>1 DEF SyncRow, SyncPc
    <3>3. Held(e) = Held(written)
      BY <1>1, <3>1 DEF SyncRow, Held
    <3>. QED
      BY <1>1, <2>1, <3>1, <3>2, <3>3 DEF SamePlan, SameRange, SyncRow
  <2>2. CASE w = Main /\ c.pc # "last"
    BY <1>1, <1>2, <2>2 DEF SamePlan, SameRange
  <2>3. CASE w # Main
    <3>1. w \in Stocks /\ e = Leave(written, w)
      BY <1>2, <1>3, <2>3
    <3>2. /\ e \in SyncRow /\ SamePlan(written, e) /\ e.spot = written.spot /\ e.lost = written.lost /\ e.have = written.have
          /\ e.queue = written.queue /\ e.writing = written.writing /\ Held(e) = Held(written)
          /\ e.todo = written.todo \ {w}
      <4>1. written \in SyncRow /\ w \in Stocks /\ written.writing[w] = {}
        BY <1>1, <3>1
      <4>. QED
        BY <3>1, <4>1, LeaveRow
    <3>. QED
      BY <1>1, <2>3, <3>2 DEF SamePlan, SameRange
  <2>. QED
    BY <2>1, <2>2, <2>3
<1>6. SpotDay(e) = SpotDay(c)
  BY <1>5 DEF SpotDay, SameRange
<1>7. Dated(e, today) /\ Owned(e, after) /\ Kept(e, guilty) /\ Closing(e, after, guilty)
  <2>1. Held(c) = Held(e) \cup c.writing[w]
    BY <1>1, <1>5
  <2>2. c.pc # "idle"
    BY <1>3, <1>4 DEF Pooling
  <2>3. Dated(c, today) /\ Owned(c, table) /\ Kept(c, guilty) /\ Closing(c, table, guilty)
    BY DEF Standing
  <2>4. c.writing[w] \in SUBSET Lines /\ e \in SyncRow /\ SameRange(c, e) /\ e.have = c.have /\ e.lost = c.lost
    BY <1>1, <1>5
  <2>. QED
    BY <2>1, <2>2, <2>3, <2>4, LandedHoldings
<1>8. \A t \in Stocks : e.writing[t] # {} => t \in InFlight(e)
  <2>. SUFFICES ASSUME NEW t \in Stocks, e.writing[t] # {} PROVE t \in InFlight(e)
    OBVIOUS
  <2>1. t # w /\ c.writing[t] # {}
    BY <1>1, <1>5, StocksTyped
  <2>2. t \in c.todo
    BY <2>1 DEF Standing, Ordered, InFlight, Least
  <2>. QED
    BY <1>5, <2>1, <2>2, StillInFlight DEF Standing
<1>9. Ordered(e)
  <2>1. \A t \in Stocks : e.writing[t] # {} => Pooling(e)
    <3>. SUFFICES ASSUME NEW t \in Stocks, e.writing[t] # {} PROVE Pooling(e)
      OBVIOUS
    <3>1. c.writing[t] # {}
      BY <1>1, <1>5, StocksTyped
    <3>. QED
      BY <1>5, <3>1 DEF Standing, Ordered, Pooling
  <2>2. e.writing[Main] # {} => e.pc \in {"spot", "last"}
    BY <1>1, <1>5, StocksTyped DEF Standing, Ordered
  <2>. QED
    BY <1>5, <1>6, <1>8, <2>1, <2>2 DEF Standing, Ordered, Pooling, SameRange
<1>10. Coverage(e, guilty)
  <2>. SUFFICES ASSUME NEW t \in Stocks, t \notin guilty \/ (e.calendar # "sina" /\ t \notin e.failed /\ e.pc # "failed")
                PROVE  Covers(e, t)
    BY DEF Coverage
  <2>1. /\ GapDone(e, t) <=> GapDone(c, t)
        /\ SpotDone(e, t) <=> SpotDone(c, t)
        /\ AllDone(e, t) <=> AllDone(c, t)
    BY <1>5, <1>6 DEF GapDone, SpotDone, AllDone, SameRange
  <2>2. Covers(c, t)
    BY <1>5 DEF Standing, Coverage, SameRange
  <2>3. Passed(e, t) => Passed(c, t)
    BY <1>1, <1>5, StocksTyped DEF Passed
  <2>. QED
    BY <1>5, <1>6, <2>1, <2>2, <2>3 DEF Covers, Pooling
<1>11. FromStart(e, after, guilty) /\ SpotsTrade(e, guilty)
  BY <1>5, <1>6 DEF Standing, FromStart, SpotsTrade, Resting, SameRange
<1>12. Resting(e) => e.stage # "none"
  BY <1>3, <1>4, <1>5 DEF Standing, Ordered, Pooling, Resting
<1>. QED
  BY <1>5, <1>7, <1>9, <1>10, <1>11, <1>12 DEF Standing, Advances, SameRange

\* What counts as reached stays reached when more is owned.
LEMMA StillReached ==
  ASSUME NEW c, NEW e, SameRange(c, e), NEW s \in Stocks, c.have[s] \subseteq e.have[s]
  PROVE  /\ GapDone(c, s) => GapDone(e, s)
         /\ SpotDone(c, s) => SpotDone(e, s)
         /\ AllDone(c, s) => AllDone(e, s)
<1>1. SpotDay(e) = SpotDay(c)
  BY DEF SameRange, SpotDay
<1>. QED
  BY <1>1 DEF GapDone, SpotDone, AllDone, SameRange

\* A source has answered for a stock.
LEMMA AnsweredStands ==
  ASSUME NEW c \in SyncRow, NEW table, NEW guilty, NEW today \in Nat, Standing(c, table, guilty, today),
         NEW s \in Stocks, Pooling(c), s \in InFlight(c), c.writing[s] = {},
         NEW lines \in SUBSET Lines, \A l \in lines : l[1] = s /\ l[2] \in Trades[s] /\ l[2] \in c.lo .. c.hi,
         \A d \in Trades[s] : d \in c.lo .. c.hi /\ d <= today => \E l \in lines : l[2] = d,
         NEW e, e = Answered(c, s, lines)
  PROVE  Advances(c, e, table, guilty, today)
<1>. DEFINE missing == Missing(c, lines)
<1>. DEFINE c1 == [c EXCEPT !.streak = 0]
<1>. DEFINE c3 == Enqueued(Owning(c1, missing), s, missing)
<1>0. e = Leave(c3, s)
  BY DEF Answered
<1>1. missing \in SUBSET Lines /\ missing \subseteq lines /\ \A l \in lines : l \notin missing => l[2] \in c.have[s]
  BY DEF Missing
<1>. HIDE DEF missing
<1>2. /\ c1 \in SyncRow /\ SamePlan(c, c1) /\ c1.todo = c.todo /\ c1.spot = c.spot /\ c1.lost = c.lost
      /\ c1.queue = c.queue /\ c1.writing = c.writing /\ c1.have = c.have
  BY DEF SyncRow, SamePlan, SameRange
<1>. HIDE DEF c1
<1>3. Takes(c1, c3, missing, s)
  <2>1. s \in Writers /\ c1.writing[s] = {}
    BY <1>2, StocksTyped
  <2>. QED
    BY <1>1, <1>2, <2>1, TakenRow
<1>. HIDE DEF c3
<1>4. /\ c3 \in SyncRow /\ SamePlan(c1, c3) /\ c3.todo = c1.todo /\ c3.spot = c1.spot /\ c3.lost = c1.lost
      /\ Held(c3) = Held(c1) \cup missing
      /\ \A v \in Writers \ {s} : c3.writing[v] = c1.writing[v]
      /\ \A t \in Stocks : c3.have[t] = c1.have[t] \cup {l[2] : l \in {m \in missing : m[1] = t}}
  BY <1>3 DEF Takes
<1>5. /\ e \in SyncRow /\ SamePlan(c3, e) /\ e.spot = c3.spot /\ e.lost = c3.lost /\ e.have = c3.have
      /\ e.queue = c3.queue /\ e.writing = c3.writing /\ Held(e) = Held(c3)
      /\ (c3.writing[s] # {} => e.todo = c3.todo) /\ (c3.writing[s] = {} => e.todo = c3.todo \ {s})
  <2>1. CASE c3.writing[s] = {}
    BY <1>0, <1>4, <2>1, LeaveRow
  <2>2. CASE c3.writing[s] # {}
    <3>1. e = c3
      BY <1>0, <2>2 DEF Leave
    <3>. QED
      BY <1>4, <2>2, <3>1 DEF SamePlan, SameRange
  <2>. QED
    BY <2>1, <2>2
<1>6. Held(c) = Held(c1)
  BY <1>2 DEF Held
<1>7. /\ SamePlan(c, e) /\ e.lost = c.lost /\ e.spot = c.spot
      /\ Held(e) = Held(c) \cup missing
      /\ \A t \in Stocks : e.have[t] = c.have[t] \cup {l[2] : l \in {m \in missing : m[1] = t}}
      /\ \A v \in Writers \ {s} : e.writing[v] = c.writing[v]
  BY <1>2, <1>4, <1>5, <1>6 DEF SamePlan, SameRange
<1>8. e.todo \subseteq c.todo /\ (\A t \in Stocks \ {s} : t \in c.todo => t \in e.todo) /\ (e.writing[s] # {} => s \in e.todo)
      /\ (s \in e.todo => e.writing[s] # {})
  <2>1. s \in c.todo
    BY DEF InFlight, Least
  <2>. QED
    BY <1>2, <1>4, <1>5, <2>1
<1>9. \A t \in Stocks : c.have[t] \subseteq e.have[t]
  BY <1>7
<1>10. SpotDay(e) = SpotDay(c)
  BY <1>7 DEF SpotDay, SamePlan, SameRange
<1>11. c.start \in Nat /\ c.end \in Nat /\ c.end <= today /\ c.lo \in Nat /\ c.hi \in Nat
       /\ (c.stage # "all" => SpotDay(c) \in Nat /\ c.start <= SpotDay(c) /\ SpotDay(c) <= c.end)
       /\ c.stage \in {"gap", "uncovered", "all"}
  BY SpotDayIs, DaysTyped DEF SyncRow, Standing, Dated, Ordered
<1>12. c.start <= c.lo /\ c.hi <= c.end /\ (c.stage # "uncovered" => c.lo = c.start) /\ (c.stage = "uncovered" => c.lo = SpotDay(c))
  <2>1. CASE c.stage = "gap"
    BY <1>11, <2>1 DEF Standing, Ordered
  <2>2. CASE c.stage = "uncovered"
    BY <1>11, <2>2 DEF Standing, Ordered
  <2>3. CASE c.stage = "all"
    BY <1>11, <2>3 DEF Standing, Ordered
  <2>. QED
    BY <1>11, <2>1, <2>2, <2>3
<1>13. \A d \in Trades[s] : d \in c.lo .. c.hi => d \in e.have[s]
  <2>. SUFFICES ASSUME NEW d \in Trades[s], d \in c.lo .. c.hi PROVE d \in e.have[s]
    OBVIOUS
  <2>1. d <= today
    BY <1>11, <1>12
  <2>2. PICK l \in lines : l[2] = d
    BY <2>1
  <2>3. CASE l \in missing
    BY <1>7, <2>2, <2>3
  <2>4. CASE l \notin missing
    BY <1>1, <1>9, <2>2, <2>4
  <2>. QED
    BY <2>3, <2>4
<1>14. c.stage = "uncovered" /\ (s \notin guilty \/ (c.calendar # "sina" /\ s \notin c.failed /\ c.pc # "failed")) => GapDone(c, s)
  BY DEF Standing, Coverage, Covers, Pooling
<1>15. Dated(e, today) /\ Owned(e, table) /\ Kept(e, guilty) /\ Closing(e, table, guilty)
  <2>1. \A l \in missing : l[2] \in c.start .. c.end
    BY <1>1, <1>11, <1>12, TradesTyped
  <2>2. ASSUME NEW t \in Stocks \ guilty, NEW l \in missing, l[1] = t, NEW d \in Trades[t], d < l[2]
        PROVE  d \in table[t] \/ d \in e.have[t]
    <3>1. t = s /\ l[2] \in c.lo .. c.hi /\ d \in Nat /\ l[2] \in Nat
      BY <1>1, <2>2, TradesTyped
    <3>2. CASE d < c.start
      BY <3>1, <3>2 DEF Standing, FromStart, Pooling, Resting
    <3>3. CASE c.start <= d /\ d < c.lo
      <4>1. c.stage = "uncovered" /\ d < SpotDay(c)
        BY <1>11, <1>12, <3>1, <3>3
      <4>2. GapDone(c, s)
        BY <1>14, <3>1, <4>1
      <4>. QED
        BY <1>9, <3>1, <3>3, <4>1, <4>2 DEF GapDone
    <3>4. CASE c.lo <= d
      BY <1>13, <2>2, <3>1, <3>4, <1>11
    <3>. QED
      BY <1>11, <3>1, <3>2, <3>3, <3>4
  <2>3. \A t \in Stocks \ guilty : \A l \in missing :
          l[1] = t => l[2] \in Trades[t] /\ \A d \in Trades[t] : d < l[2] => d \in table[t] \/ d \in e.have[t]
    BY <1>1, <2>2
  <2>4. c.pc # "idle" /\ SameRange(c, e)
    BY <1>7 DEF Pooling, SamePlan
  <2>5. Dated(c, today) /\ Owned(c, table) /\ Kept(c, guilty) /\ Closing(c, table, guilty)
    BY DEF Standing
  <2>. QED
    BY <1>1, <1>5, <1>7, <2>1, <2>3, <2>4, <2>5, TakenHoldings
<1>16. \A t \in Stocks : e.writing[t] # {} => t \in InFlight(e)
  <2>. SUFFICES ASSUME NEW t \in Stocks, e.writing[t] # {} PROVE t \in InFlight(e)
    OBVIOUS
  <2>1. CASE t = s
    <3>1. s \in e.todo /\ c.todo \in SUBSET Stocks
      BY <1>8, <2>1 DEF SyncRow
    <3>. QED
      BY <1>8, <2>1, <3>1, LeastShrinks, SyncAssumption DEF InFlight
  <2>2. CASE t # s
    <3>1. c.writing[t] # {}
      BY <1>7, <2>2, StocksTyped
    <3>2. t \in c.todo
      BY <3>1 DEF Standing, Ordered, InFlight, Least
    <3>. QED
      BY <1>5, <1>8, <2>2, <3>1, <3>2, StillInFlight DEF Standing
  <2>. QED
    BY <2>1, <2>2
<1>17. Ordered(e)
  <2>1. Pooling(e)
    BY <1>7 DEF Pooling, SamePlan
  <2>2. e.writing[Main] = {}
    <3>1. c.writing[Main] = {}
      BY DEF Standing, Ordered, Pooling
    <3>. QED
      BY <1>7, <3>1, StocksTyped
  <2>. QED
    BY <1>7, <1>10, <1>16, <2>1, <2>2 DEF Standing, Ordered, Pooling, SamePlan, SameRange
<1>18. Coverage(e, guilty)
  <2>. SUFFICES ASSUME NEW t \in Stocks, t \notin guilty \/ (e.calendar # "sina" /\ t \notin e.failed /\ e.pc # "failed")
                PROVE  Covers(e, t)
    BY DEF Coverage
  <2>1. Covers(c, t)
    BY <1>7 DEF Standing, Coverage, SamePlan, SameRange
  <2>2. (GapDone(c, t) => GapDone(e, t)) /\ (SpotDone(c, t) => SpotDone(e, t)) /\ (AllDone(c, t) => AllDone(e, t))
    BY <1>7, <1>9, StillReached DEF SamePlan
  <2>3. e.pc = c.pc /\ e.stage = c.stage /\ e.pc \in {"pool", "tripped"}
    BY <1>7 DEF SamePlan, Pooling
  <2>4. CASE t = s
    <3>1. c.stage = "uncovered" => GapDone(e, s)
      BY <2>1, <2>2, <2>4 DEF Covers
    <3>2. Reached(e, s)
      <4>1. e.stage = c.stage /\ e.lo = c.lo /\ e.hi = c.hi
        BY <1>7 DEF SamePlan
      <4>2. Pooling(e)
        BY <2>3 DEF Pooling
      <4>. QED
        BY <1>5, <1>13, <1>15, <1>17, <3>1, <4>1, <4>2, ReachedByFetch
    <3>. QED
      BY <2>3, <2>4, <3>1, <3>2 DEF Covers, Reached, Pooling
  <2>5. CASE t # s
    <3>1. Passed(e, t) => Passed(c, t)
      BY <1>7, <1>8, <2>5, StocksTyped DEF Passed
    <3>. QED
      BY <2>1, <2>2, <2>3, <3>1 DEF Covers, Pooling
  <2>. QED
    BY <2>4, <2>5
<1>19. FromStart(e, table, guilty) /\ SpotsTrade(e, guilty)
  BY <1>7 DEF Standing, FromStart, SpotsTrade, Resting, Pooling, SamePlan, SameRange
<1>20. ~Resting(e)
  BY <1>7 DEF Resting, Pooling, SamePlan
<1>. QED
  BY <1>5, <1>7, <1>15, <1>17, <1>18, <1>19, <1>20 DEF Standing, Advances, SamePlan, SameRange

\* A request has failed, or both sources were empty; a stock with a session that was to
\* be found is to blame.
LEMMA UnansweredStands ==
  ASSUME NEW c \in SyncRow, NEW table, NEW guilty, NEW more, NEW today \in Nat, Standing(c, table, guilty, today), guilty \subseteq more,
         NEW s \in Stocks, Pooling(c), s \in InFlight(c), c.writing[s] = {},
         s \notin more => \A d \in Trades[s] : d \in c.lo .. c.hi => d \in c.have[s],
         NEW transport \in BOOLEAN, NEW e, e = Refused(c, s, transport)
  PROVE  Advances(c, e, table, more, today)
<1>1. Standing(c, table, more, today)
  BY StandingRaised
<1>2. s \notin more => Reached(c, s)
  <2>. SUFFICES ASSUME s \notin more PROVE Reached(c, s)
    OBVIOUS
  <2>1. c.stage = "uncovered" => GapDone(c, s)
    BY <1>1 DEF Standing, Coverage, Covers, Pooling
  <2>2. Ordered(c) /\ Dated(c, today)
    BY DEF Standing
  <2>. QED
    BY <2>1, <2>2, ReachedByFetch
<1>. QED
  BY <1>1, <1>2, RefusedStands

\* A batch of a worker is lost.
LEMMA UnwrittenStands ==
  ASSUME NEW c \in SyncRow, NEW table, NEW guilty, NEW more, NEW today \in Nat, Standing(c, table, guilty, today), guilty \subseteq more,
         NEW w \in Writers, c.writing[w] # {}, \A l \in c.writing[w] : l[1] \in more,
         NEW g \in SyncRow, SamePlan(c, g), g.todo = c.todo, g.spot = c.spot, g.have = c.have, g.queue = c.queue,
         g.lost = c.lost \cup {<<l[1], l[2]>> : l \in c.writing[w]},
         g.writing[w] = {}, \A v \in Writers \ {w} : g.writing[v] = c.writing[v],
         Held(c) = Held(g) \cup c.writing[w], c.writing[w] \subseteq Lines
  PROVE  /\ \A transport \in BOOLEAN : w \in Stocks =>
              Advances(c, Refused(g, w, transport), table, more, today)
         /\ w = Main /\ c.pc = "last" =>
              Advances(c, [g EXCEPT !.pc = "failed"], table, more, today)
         /\ w = Main /\ c.pc # "last" => Advances(c, FallBack(g), table, more, today)
<1>4. Standing(c, table, more, today)
  BY StandingRaised
<1>5. w # Main => w \in Stocks /\ w \in InFlight(c) /\ Pooling(c)
  BY DEF Writers, Standing, Ordered
<1>6. w = Main => c.pc \in {"spot", "last"}
  BY DEF Standing, Ordered
<1>7. Dated(g, today) /\ Owned(g, table) /\ Kept(g, more) /\ Closing(g, table, more)
  <2>1. c.pc # "idle" /\ SameRange(c, g)
    BY <1>5, <1>6 DEF Pooling, SamePlan
  <2>2. c.writing[w] \in SUBSET Lines
    OBVIOUS
  <2>3. Dated(c, today) /\ Owned(c, table) /\ Kept(c, guilty) /\ Closing(c, table, guilty)
    BY DEF Standing
  <2>. QED
    BY <2>1, <2>2, <2>3, LostHoldings
<1>8. SpotDay(g) = SpotDay(c)
  BY DEF SpotDay, SamePlan, SameRange
<1>9. \A t \in Stocks : g.writing[t] # {} => t \in InFlight(g)
  <2>. SUFFICES ASSUME NEW t \in Stocks, g.writing[t] # {} PROVE t \in InFlight(g)
    OBVIOUS
  <2>1. c.writing[t] # {}
    BY StocksTyped
  <2>. QED
    BY <2>1 DEF Standing, Ordered, InFlight
<1>10. Ordered(g)
  <2>1. \A t \in Stocks : g.writing[t] # {} => Pooling(g)
    <3>. SUFFICES ASSUME NEW t \in Stocks, g.writing[t] # {} PROVE Pooling(g)
      OBVIOUS
    <3>1. c.writing[t] # {}
      BY StocksTyped
    <3>. QED
      BY <3>1 DEF Standing, Ordered, Pooling, SamePlan
  <2>2. g.writing[Main] # {} => g.pc \in {"spot", "last"}
    BY StocksTyped DEF Standing, Ordered, SamePlan
  <2>. QED
    BY <1>8, <1>9, <2>1, <2>2 DEF Standing, Ordered, Pooling, SamePlan, SameRange
<1>11. FromStart(g, table, more) /\ SpotsTrade(g, more)
  BY <1>4, <1>8 DEF Standing, FromStart, SpotsTrade, Resting, SamePlan, SameRange
<1>12. \A t \in Stocks : /\ GapDone(g, t) <=> GapDone(c, t)
                         /\ SpotDone(g, t) <=> SpotDone(c, t)
                         /\ AllDone(g, t) <=> AllDone(c, t)
                         /\ Passed(g, t) => Passed(c, t)
  <2>1. \A t \in Stocks : Passed(g, t) => Passed(c, t)
    BY StocksTyped DEF Passed
  <2>. QED
    BY <1>8, <2>1 DEF GapDone, SpotDone, AllDone, SamePlan, SameRange
<1>13. Coverage(g, more)
  <2>. SUFFICES ASSUME NEW t \in Stocks, t \notin more \/ (g.calendar # "sina" /\ t \notin g.failed /\ g.pc # "failed")
                PROVE  Covers(g, t)
    BY DEF Coverage
  <2>1. Covers(c, t)
    BY <1>4 DEF Standing, Coverage, SamePlan, SameRange
  <2>. QED
    BY <1>8, <1>12, <2>1 DEF Covers, Pooling, SamePlan
<1>14. Standing(g, table, more, today)
  BY <1>7, <1>10, <1>11, <1>13 DEF Standing
<1>15. ASSUME NEW transport \in BOOLEAN, w \in Stocks
       PROVE  Advances(c, Refused(g, w, transport), table, more, today)
  <2>1. w \in InFlight(c) /\ Pooling(c)
    BY <1>5, <1>15, StocksTyped
  <2>2. Pooling(g) /\ w \in InFlight(g)
    BY <2>1 DEF Pooling, SamePlan, InFlight
  <2>3. w \notin more /\ g.pc = "pool" => Reached(g, w)
    <3>. SUFFICES ASSUME w \notin more, g.pc = "pool" PROVE Reached(g, w)
      OBVIOUS
    <3>1. c.pc = "pool" /\ Passed(c, w) /\ g.stage = c.stage
      BY DEF SamePlan, Passed
    <3>2. Covers(c, w)
      BY <1>4, <1>15 DEF Standing, Coverage
    <3>. QED
      BY <1>12, <1>15, <3>1, <3>2 DEF Reached, Covers, Pooling
  <2>4. Advances(g, Refused(g, w, transport), table, more, today)
    BY <1>14, <1>15, <2>2, <2>3, RefusedStands
  <2>. QED
    BY <2>4 DEF Advances, SamePlan, SameRange
<1>16. ASSUME w = Main, c.pc = "last", NEW e, e = [g EXCEPT !.pc = "failed"]
       PROVE  Advances(c, e, table, more, today)
  <2>1. e \in SyncRow
    <3>1. "failed" \in SyncPc
      BY DEF SyncPc
    <3>2. [g EXCEPT !.pc = "failed"] \in SyncRow
      BY <3>1, PcTyped, ZenonT(40)
    <3>. QED
      BY <1>16, <3>2
  <2>2. /\ SameRange(g, e) /\ e.pc = "failed" /\ e.todo = g.todo /\ e.spot = g.spot /\ e.have = g.have /\ e.lost = g.lost /\ e.queue = g.queue
        /\ e.writing = g.writing /\ e.stage = g.stage /\ e.failed = g.failed
    BY <1>16 DEF SyncRow, SameRange
  <2>3. g.pc = "last" /\ g.writing[Main] = {} /\ \A t \in Stocks : g.writing[t] = {}
    BY <1>10, <1>16 DEF SamePlan, Ordered, Pooling
  <2>4. Held(e) = Held(g)
    BY <2>2 DEF Held
  <2>5. Ordered(e)
    BY <1>10, <2>2, <2>3 DEF Ordered, Pooling
  <2>6. Dated(e, today) /\ Owned(e, table) /\ Kept(e, more) /\ Closing(e, table, more)
    BY <1>7, <2>1, <2>2, <2>3, <2>4, SameHoldings
  <2>7. Coverage(e, more)
    <3>1. \A t \in Stocks : AllDone(e, t) <=> AllDone(g, t)
      BY <2>2 DEF AllDone, SameRange
    <3>. QED
      BY <1>13, <2>2, <2>3, <3>1 DEF Coverage, Covers, Pooling
  <2>8. FromStart(e, table, more) /\ SpotsTrade(e, more)
    BY <2>2 DEF FromStart, SpotsTrade, Resting
  <2>9. e.stage # "none"
    BY <1>10, <2>2, <2>3 DEF Ordered
  <2>10. e.start = c.start /\ e.end = c.end
    BY <2>2 DEF SamePlan, SameRange
  <2>. QED
    BY <2>1, <2>5, <2>6, <2>7, <2>8, <2>9, <2>10 DEF Standing, Advances
<1>17. ASSUME w = Main, c.pc # "last", NEW e, e = FallBack(g)
       PROVE  Advances(c, e, table, more, today)
  <2>1. g.pc = "spot" /\ g.writing[Main] = {} /\ \A t \in Stocks : g.writing[t] = {}
    BY <1>6, <1>10, <1>17 DEF SamePlan, Ordered, Pooling
  <2>2. \A v \in Writers : g.writing[v] = {}
    BY <2>1 DEF Writers
  <2>3. Advances(g, e, table, more, today)
    BY <1>7, <1>11, <1>17, <2>1, <2>2, FallBackStands DEF Resting
  <2>. QED
    BY <2>3 DEF Advances, SamePlan, SameRange
<1>. QED
  BY <1>15, <1>16, <1>17

\* The snapshot of the market has come.
LEMMA SpotTyped ==
  ASSUME NEW c \in SyncRow, NEW set \in SUBSET Stocks, NEW price \in 0 .. 2 * LastDay
  PROVE  [c EXCEPT !.pc = "spot", !.spot = set, !.covered = set, !.price = price] \in SyncRow
BY DEF SyncRow, SyncPc

\* A snapshot that holds quotes of the right session, or of stocks that are blamed.
LEMMA SpotStands ==
  ASSUME NEW c \in SyncRow, NEW table, NEW guilty, NEW more, NEW today \in Nat, Standing(c, table, guilty, today), guilty \subseteq more,
         c.pc = "pool", c.stage = "gap", c.todo = {}, NEW set \in SUBSET Stocks, NEW price \in 1 .. 2 * LastDay,
         \A s \in set \ more : SpotDay(c) \in Trades[s],
         NEW e, e = [c EXCEPT !.pc = "spot", !.spot = set, !.covered = set, !.price = price]
  PROVE  Advances(c, e, table, more, today)
<1>1. Standing(c, table, more, today)
  BY StandingRaised
<1>2. e \in SyncRow
  <2>1. price \in 0 .. 2 * LastDay
    BY DaysAssumption
  <2>2. [c EXCEPT !.pc = "spot", !.spot = set, !.covered = set, !.price = price] \in SyncRow
    BY <2>1, SpotTyped, ZenonT(40)
  <2>. QED
    BY <2>2
<1>3. /\ SameRange(c, e) /\ e.pc = "spot" /\ e.spot = set /\ e.covered = set /\ e.price = price /\ e.price # 0 /\ e.todo = {} /\ e.stage = "gap"
      /\ e.have = c.have /\ e.lost = c.lost /\ e.queue = c.queue /\ e.writing = c.writing
  BY DaysAssumption DEF SyncRow, SameRange
<1>4. Held(e) = Held(c)
  BY <1>3 DEF Held
<1>5. SpotDay(e) = SpotDay(c)
  BY <1>3 DEF SpotDay, SameRange
<1>6. \A w \in Writers : c.writing[w] = {}
  BY <1>1, PoolEmpty DEF Standing
<1>7. Ordered(e)
  BY <1>1, <1>3, <1>6, StocksTyped DEF Standing, Ordered, Pooling, Writers, SameRange
<1>8. Dated(e, today) /\ Owned(e, table) /\ Kept(e, more) /\ Closing(e, table, more)
  BY <1>1, <1>2, <1>3, <1>4, SameHoldings DEF Standing
<1>9. Coverage(e, more)
  <2>. SUFFICES ASSUME NEW t \in Stocks, t \notin more \/ (e.calendar # "sina" /\ t \notin e.failed /\ e.pc # "failed")
                PROVE  Covers(e, t)
    BY DEF Coverage
  <2>1. Covers(c, t)
    <3>1. e.failed = c.failed
      BY DEF SyncRow
    <3>. QED
      BY <1>1, <1>3, <3>1 DEF Standing, Coverage, SameRange
  <2>2. GapDone(c, t)
    BY <2>1 DEF Covers, Passed
  <2>3. GapDone(e, t)
    BY <1>3, <1>5, <2>2 DEF GapDone, SameRange
  <2>. QED
    BY <1>3, <2>3 DEF Covers, Pooling
<1>10. FromStart(e, table, more) /\ SpotsTrade(e, more)
  BY <1>1, <1>3, <1>5 DEF Standing, FromStart, SpotsTrade, Resting, SameRange
<1>. QED
  BY <1>2, <1>3, <1>7, <1>8, <1>9, <1>10 DEF Standing, Advances, Resting, SameRange

\* A row of the snapshot is taken, or its stock has one already.
LEMMA SpotRowTyped ==
  ASSUME NEW c \in SyncRow, NEW s \in Stocks, NEW e, e = [c EXCEPT !.spot = @ \ {s}]
  PROVE  /\ e \in SyncRow /\ SamePlan(c, e) /\ e.todo = c.todo /\ e.spot = c.spot \ {s} /\ e.lost = c.lost
         /\ e.have = c.have /\ e.queue = c.queue /\ e.writing = c.writing /\ Held(e) = Held(c)
<1>1. /\ e \in SyncRow /\ SamePlan(c, e) /\ e.todo = c.todo /\ e.spot = c.spot \ {s} /\ e.lost = c.lost
      /\ e.have = c.have /\ e.queue = c.queue /\ e.writing = c.writing
  BY DEF SyncRow, SamePlan, SameRange
<1>2. Held(e) = Held(c)
  BY <1>1 DEF Held
<1>. QED
  BY <1>1, <1>2

\* The loop over the snapshot takes one row.
LEMMA SpotRowStands ==
  ASSUME NEW c \in SyncRow, NEW table, NEW guilty, NEW today \in Nat, Standing(c, table, guilty, today),
         c.pc = "spot", c.writing[Main] = {}, NEW s \in c.spot,
         NEW e \in SyncRow, SamePlan(c, e), e.todo = c.todo, e.spot = c.spot \ {s}, e.lost = c.lost,
         \A v \in Writers \ {Main} : e.writing[v] = c.writing[v],
         NEW lines \in SUBSET Lines, Held(e) = Held(c) \cup lines,
         \A t \in Stocks : e.have[t] = c.have[t] \cup {l[2] : l \in {m \in lines : m[1] = t}},
         \A l \in lines : l[1] = s /\ l[2] = SpotDay(c),
         SpotDay(c) \in e.have[s]
  PROVE  Advances(c, e, table, guilty, today)
<1>1. SpotDay(e) = SpotDay(c)
  BY DEF SpotDay, SamePlan, SameRange
<1>2. s \in Stocks /\ SpotDay(c) \in Nat /\ SpotDay(c) \in c.start .. c.end /\ c.start \in Nat
  BY SpotDayIs, DaysTyped DEF SyncRow, Standing, Dated, Ordered
<1>3. \A t \in Stocks : c.have[t] \subseteq e.have[t]
  OBVIOUS
<1>4. Dated(e, today) /\ Owned(e, table) /\ Kept(e, guilty) /\ Closing(e, table, guilty)
  <2>1. \A l \in lines : l[2] \in c.start .. c.end
    BY <1>2
  <2>2. ASSUME NEW t \in Stocks \ guilty, NEW l \in lines, l[1] = t
        PROVE  l[2] \in Trades[t] /\ \A d \in Trades[t] : d < l[2] => d \in table[t] \/ d \in e.have[t]
    <3>1. t = s /\ l[2] = SpotDay(c) /\ t \in Stocks
      BY <2>2
    <3>2. SpotDay(c) \in Trades[t]
      BY <2>2, <3>1 DEF Standing, SpotsTrade
    <3>3. Covers(c, t)
      BY <2>2 DEF Standing, Coverage
    <3>4. GapDone(c, t)
      BY <3>3 DEF Covers
    <3>5. ASSUME NEW d \in Trades[t], d < SpotDay(c) PROVE d \in table[t] \/ d \in e.have[t]
      <4>1. d \in Nat
        BY <3>1, TradesTyped
      <4>2. CASE d < c.start
        BY <2>2, <3>1, <4>2 DEF Standing, FromStart, Resting
      <4>3. CASE c.start <= d
        BY <1>3, <3>1, <3>4, <3>5, <4>3 DEF GapDone
      <4>. QED
        BY <1>2, <4>1, <4>2, <4>3
    <3>. QED
      BY <3>1, <3>2, <3>5
  <2>3. \A t \in Stocks \ guilty : \A l \in lines :
          l[1] = t => l[2] \in Trades[t] /\ \A d \in Trades[t] : d < l[2] => d \in table[t] \/ d \in e.have[t]
    BY <2>2
  <2>4. c.pc # "idle" /\ SameRange(c, e)
    BY DEF SamePlan
  <2>5. Dated(c, today) /\ Owned(c, table) /\ Kept(c, guilty) /\ Closing(c, table, guilty)
    BY DEF Standing
  <2>. QED
    BY <2>1, <2>3, <2>4, <2>5, TakenHoldings
<1>5. Ordered(e)
  <2>1. \A t \in Stocks : c.writing[t] = {}
    BY DEF Standing, Ordered, Pooling
  <2>2. \A t \in Stocks : e.writing[t] = {}
    BY <2>1, StocksTyped
  <2>3. e.pc = "spot" /\ e.spot \subseteq e.covered /\ e.price # 0 /\ e.todo = {} /\ e.calendar # "none" /\ e.stage # "none"
    BY DEF Standing, Ordered, Pooling, SamePlan, SameRange
  <2>. QED
    BY <2>2, <2>3 DEF Ordered, Pooling
<1>6. Coverage(e, guilty)
  <2>. SUFFICES ASSUME NEW t \in Stocks, t \notin guilty \/ (e.calendar # "sina" /\ t \notin e.failed /\ e.pc # "failed")
                PROVE  Covers(e, t)
    BY DEF Coverage
  <2>1. Covers(c, t)
    BY DEF Standing, Coverage, SamePlan, SameRange
  <2>2. GapDone(e, t)
    BY <1>3, <2>1, StillReached DEF Covers, SamePlan
  <2>3. t \in e.covered \ e.spot => SpotDay(e) \in e.have[t]
    BY <1>1, <1>3, <2>1 DEF Covers, SamePlan
  <2>4. e.pc = "spot"
    BY DEF SamePlan
  <2>. QED
    BY <2>2, <2>3, <2>4 DEF Covers, Pooling
<1>7. FromStart(e, table, guilty) /\ SpotsTrade(e, guilty)
  BY <1>1 DEF Standing, FromStart, SpotsTrade, Resting, SamePlan, SameRange
<1>. QED
  BY <1>4, <1>5, <1>6, <1>7 DEF Standing, Advances, Resting, SamePlan, SameRange

\* The stocks without a row of the snapshot are next.
LEMMA CompleteTyped ==
  ASSUME NEW c \in SyncRow, NEW day \in Nat, NEW todo \in SUBSET Stocks
  PROVE  [c EXCEPT !.pc = "pool", !.stage = "uncovered", !.lo = day, !.hi = day, !.todo = todo] \in SyncRow
BY DEF SyncRow, SyncPc

\* The stocks without a quote are fetched for the day of the snapshot.
LEMMA CompleteStands ==
  ASSUME NEW c \in SyncRow, NEW table, NEW guilty, NEW today \in Nat, Standing(c, table, guilty, today),
         c.pc = "spot", c.spot = {}, c.writing[Main] = {}, NEW day, day = SpotDay(c), NEW todo, todo = Uncovered(c),
         NEW e, e = [c EXCEPT !.pc = "pool", !.stage = "uncovered", !.lo = day, !.hi = day, !.todo = todo]
  PROVE  Advances(c, e, table, guilty, today)
<1>1. day \in Nat
  BY SpotDayIs, DaysTyped DEF Standing, Dated, Ordered
<1>2. todo \in SUBSET Stocks
  BY DEF Uncovered
<1>3. e \in SyncRow
  <2>1. [c EXCEPT !.pc = "pool", !.stage = "uncovered", !.lo = day, !.hi = day, !.todo = todo] \in SyncRow
    BY <1>1, <1>2, CompleteTyped, ZenonT(40)
  <2>. QED
    BY <2>1
<1>4. /\ SameRange(c, e) /\ e.pc = "pool" /\ e.stage = "uncovered" /\ e.lo = day /\ e.hi = day /\ e.todo = todo
      /\ e.have = c.have /\ e.lost = c.lost /\ e.queue = c.queue /\ e.writing = c.writing /\ e.failed = c.failed
  BY DEF SyncRow, SameRange
<1>5. Held(e) = Held(c)
  BY <1>4 DEF Held
<1>6. SpotDay(e) = SpotDay(c)
  BY <1>4 DEF SpotDay, SameRange
<1>7. \A t \in Stocks : c.writing[t] = {}
  BY DEF Standing, Ordered, Pooling
<1>8. Ordered(e)
  BY <1>4, <1>6, <1>7 DEF Standing, Ordered, Pooling, SameRange
<1>9. Dated(e, today) /\ Owned(e, table) /\ Kept(e, guilty) /\ Closing(e, table, guilty)
  BY <1>3, <1>4, <1>5, SameHoldings DEF Standing
<1>10. Coverage(e, guilty)
  <2>. SUFFICES ASSUME NEW t \in Stocks, t \notin guilty \/ (e.calendar # "sina" /\ t \notin e.failed /\ e.pc # "failed")
                PROVE  Covers(e, t)
    BY DEF Coverage
  <2>1. Covers(c, t)
    BY <1>4 DEF Standing, Coverage, SameRange
  <2>2. GapDone(c, t) /\ (t \in c.covered => SpotDay(c) \in c.have[t])
    BY <2>1 DEF Covers
  <2>3. GapDone(e, t)
    BY <1>4, <1>6, <2>2 DEF GapDone, SameRange
  <2>4. Passed(e, t) => t \notin Uncovered(c)
    BY <1>4, <1>7 DEF Passed
  <2>5. Passed(e, t) => SpotDone(e, t)
    BY <1>4, <1>6, <2>2, <2>4 DEF SpotDone, Uncovered
  <2>. QED
    BY <1>4, <2>3, <2>5 DEF Covers, Pooling
<1>11. FromStart(e, table, guilty) /\ SpotsTrade(e, guilty)
  BY <1>4 DEF Standing, FromStart, SpotsTrade, Resting, SameRange
<1>. QED
  BY <1>3, <1>4, <1>8, <1>9, <1>10, <1>11 DEF Standing, Advances, Resting, SameRange

\* The last stock of the last pool is done with: nothing of the range is left.
LEMMA PoolCovers ==
  ASSUME NEW c \in SyncRow, NEW today, Ordered(c), Dated(c, today), c.pc = "pool", c.stage \in {"uncovered", "all"}, c.todo = {},
         NEW s \in Stocks, Covers(c, s)
  PROVE  AllDone(c, s)
<1>1. Passed(c, s) /\ Pooling(c)
  BY DEF Passed, Pooling
<1>2. CASE c.stage = "all"
  BY <1>1, <1>2 DEF Covers
<1>3. CASE c.stage = "uncovered"
  <2>1. GapDone(c, s) /\ SpotDone(c, s)
    BY <1>1, <1>3 DEF Covers
  <2>2. \A d \in Sessions : d \in c.start .. c.end => d <= SpotDay(c)
    BY <1>1, <1>3 DEF Ordered, Dated
  <2>3. SpotDay(c) \in Nat
    BY <1>1, <1>3, SpotDayIs, DaysTyped DEF Ordered, Dated
  <2>. SUFFICES ASSUME NEW d \in Trades[s], d \in c.start .. c.end PROVE d \in c.have[s]
    BY DEF AllDone
  <2>4. d \in Nat /\ d <= SpotDay(c) /\ c.start <= d
    BY <2>2, TradesTyped, DaysTyped DEF SyncRow
  <2>5. CASE d = SpotDay(c)
    BY <2>1, <2>5 DEF SpotDone
  <2>6. CASE d < SpotDay(c)
    BY <2>1, <2>4, <2>6 DEF GapDone
  <2>. QED
    BY <2>3, <2>4, <2>5, <2>6
<1>. QED
  BY <1>2, <1>3

\* A row of a process at its last write.
LEMMA LastTyped ==
  ASSUME NEW c \in SyncRow, NEW writing \in [Writers -> SUBSET Lines]
  PROVE  [c EXCEPT !.pc = "last", !.queue = {}, !.writing = writing] \in SyncRow
BY DEF SyncRow, SyncPc

\* A row of a process that has been given up.
LEMMA AbandonedTyped ==
  ASSUME NEW c \in SyncRow, NEW lost \in SUBSET (Stocks \X Days)
  PROVE  [c EXCEPT !.pc = "failed", !.queue = {}, !.lost = lost] \in SyncRow
BY DEF SyncRow, SyncPc

\* What waits in the queue at the end is written, or nothing waits.
LEMMA FlushedStands ==
  ASSUME NEW c \in SyncRow, NEW table, NEW guilty, NEW today, Standing(c, table, guilty, today),
         c.pc = "pool", c.stage \in {"uncovered", "all"}, c.todo = {},
         NEW e \in SyncRow, SameRange(c, e), e.stage = c.stage, e.todo = c.todo, e.failed = c.failed, e.have = c.have, e.lost = c.lost,
         e.pc \in {"last", "done"}, e.queue = {}, \A s \in Stocks : e.writing[s] = c.writing[s], e.writing[Main] = c.queue,
         e.pc = "done" => c.queue = {}
  PROVE  Advances(c, e, table, guilty, today)
<1>1. \A w \in Writers : c.writing[w] = {}
  BY PoolEmpty DEF Standing
<1>2. Held(e) = Held(c)
  BY <1>1 DEF Held, Writers
<1>3. Ordered(e)
  BY <1>1, StocksTyped DEF Ordered, Pooling
<1>4. Dated(e, today) /\ Owned(e, table) /\ Kept(e, guilty) /\ Closing(e, table, guilty)
  BY <1>2, SameHoldings DEF Standing
<1>5. Coverage(e, guilty)
  <2>. SUFFICES ASSUME NEW t \in Stocks, t \notin guilty \/ (e.calendar # "sina" /\ t \notin e.failed /\ e.pc # "failed")
                PROVE  Covers(e, t)
    BY DEF Coverage
  <2>1. Covers(c, t)
    BY DEF Standing, Coverage, SameRange
  <2>2. AllDone(c, t)
    BY <2>1, PoolCovers DEF Standing
  <2>3. AllDone(e, t)
    BY <2>2 DEF AllDone, SameRange
  <2>. QED
    BY <2>3 DEF Covers, Pooling
<1>6. FromStart(e, table, guilty) /\ SpotsTrade(e, guilty)
  BY DEF Standing, FromStart, SpotsTrade, Resting, SameRange
<1>. QED
  BY <1>3, <1>4, <1>5, <1>6 DEF Standing, Advances, Resting, SameRange

\* A process is given up with its queue: every stock is to blame.
LEMMA AbandonedStands ==
  ASSUME NEW c \in SyncRow, NEW table, NEW guilty \in SUBSET Stocks, NEW today, Standing(c, table, guilty, today),
         c.pc = "tripped", c.todo = {},
         NEW e \in SyncRow, SameRange(c, e), e.stage = c.stage, e.todo = c.todo, e.have = c.have, e.writing = c.writing,
         e.pc = "failed", e.queue = {}, e.lost = c.lost \cup {<<l[1], l[2]>> : l \in c.queue}
  PROVE  Advances(c, e, table, Stocks, today)
<1>1. \A w \in Writers : c.writing[w] = {}
  BY PoolEmpty DEF Standing
<1>2. Held(c) = Held(e) \cup c.queue /\ c.queue \in SUBSET Lines
  BY <1>1 DEF Held, SyncRow
<1>3. Ordered(e)
  BY <1>1, StocksTyped DEF Standing, Ordered, Pooling, Writers, SameRange
<1>4. Dated(e, today) /\ Owned(e, table) /\ Kept(e, Stocks) /\ Closing(e, table, Stocks)
  <2>1. \A l \in c.queue : l[1] \in Stocks
    BY <1>2, LinesTyped
  <2>2. Dated(c, today) /\ Owned(c, table) /\ Kept(c, guilty) /\ Closing(c, table, guilty)
    BY DEF Standing
  <2>. QED
    BY <1>2, <2>1, <2>2, LostHoldings
<1>5. Coverage(e, Stocks)
  BY DEF Coverage
<1>6. FromStart(e, table, Stocks) /\ SpotsTrade(e, Stocks)
  BY DEF FromStart, SpotsTrade, Resting
<1>7. e.stage # "none"
  BY DEF Standing, Ordered, Pooling
<1>. QED
  BY <1>3, <1>4, <1>5, <1>6, <1>7 DEF Standing, Advances, SameRange

-----------------------------------------------------------------------------
(* The sources, the clock and the table *)

\* The session that opened last.
LEMMA SessionIs ==
  ASSUME ClockType
  PROVE  /\ Session \in Sessions /\ Session \in Days /\ Session <= Day
         /\ \A d \in Sessions : d <= Day => d <= Session
<1>. DEFINE open == {d \in Sessions : d <= Day}
<1>1. Day \in Days /\ Day \in Nat /\ Day >= 1 /\ Day <= LastDay
  BY DayOf, DaysTyped DEF ClockType
<1>2. open \in SUBSET (0 .. LastDay) /\ LastDay \in Nat
  <2>1. Sessions \in SUBSET (0 .. LastDay) /\ LastDay \in Nat
    BY DaysAssumption DEF Days
  <2>2. open \subseteq Sessions
    OBVIOUS
  <2>. QED
    BY <2>1, <2>2
<1>3. 1 \in open
  BY <1>1, DaysAssumption
<1>4. Session = Max(open)
  BY DEF Session
<1>. HIDE DEF open
<1>5. Session \in open /\ \A d \in open : Session >= d
  BY <1>2, <1>3, <1>4, MaxOf
<1>. USE DEF open
<1>6. Session \in Sessions /\ Session <= Day
  BY <1>5
<1>. QED
  BY <1>2, <1>5, <1>6, DaysAssumption

\* The history of a stock: the sessions of the range that have opened.
LEMMA HistoryIs ==
  ASSUME ClockType, NEW s \in Stocks, NEW lo, NEW hi
  PROVE  /\ History(s, lo, hi) \in SUBSET Lines
         /\ \A l \in History(s, lo, hi) : /\ l[1] = s /\ l[2] \in Trades[s] /\ l[2] \in lo .. hi /\ l[2] <= Day
                                          /\ Closed(l[2]) => l[3] = 2 * l[2]
         /\ \A d \in Trades[s] : d \in lo .. hi /\ d <= Day => \E l \in History(s, lo, hi) : l[2] = d
<1>. DEFINE opened == {d \in Trades[s] : d \in lo .. hi /\ d <= Day}
<1>. DEFINE line(d) == <<s, d, IF Closed(d) THEN 2 * d ELSE now>>
<1>1. History(s, lo, hi) = {line(d) : d \in opened}
  BY DEF History
<1>2. ASSUME NEW d \in opened PROVE line(d) \in Lines /\ line(d)[1] = s /\ line(d)[2] = d /\ (Closed(d) => line(d)[3] = 2 * d)
  <2>1. d \in Days
    BY TradesTyped
  <2>2. (IF Closed(d) THEN 2 * d ELSE now) \in 1 .. 2 * LastDay
    BY <2>1, DaysTyped, DaysAssumption DEF ClockType, Closed
  <2>. QED
    BY <2>1, <2>2 DEF Lines
<1>3. \A d \in Trades[s] : d \in lo .. hi /\ d <= Day => d \in opened
  OBVIOUS
<1>4. \A d \in opened : d \in Trades[s] /\ d \in lo .. hi /\ d <= Day
  OBVIOUS
<1>. HIDE DEF opened, line
<1>. QED
  BY <1>1, <1>2, <1>3, <1>4

\* A quote is of the session that opened last.
LEMMA QuoteIs ==
  ASSUME ClockType
  PROVE  Quote \in 1 .. 2 * LastDay /\ Quoted \in SUBSET Stocks /\ (Closed(Session) => Quote = 2 * Session)
BY SessionIs, DaysTyped, DaysAssumption DEF Quote, Quoted, Closed, ClockType

\* A batch in the table: its days have candles, no other day gets one, and no candle changes.
LEMMA Inserted ==
  ASSUME CandleType, NEW lines \in SUBSET Lines, candle' = Insert(lines)
  PROVE  /\ CandleType'
         /\ \A s \in Stocks : Table[s] \subseteq Table'[s]
         /\ \A l \in lines : l[2] \in Table'[l[1]]
         /\ \A s \in Stocks, d \in Days : /\ candle[s][d] # 0 => candle'[s][d] = candle[s][d]
                                          /\ candle[s][d] = 0 /\ candle'[s][d] # 0 =>
                                               \E l \in lines : l[1] = s /\ l[2] = d /\ candle'[s][d] = l[3]
<1>. DEFINE on(s, d) == CHOOSE l \in lines : l[1] = s /\ l[2] = d
<1>1. \A l \in lines : l[1] \in Stocks /\ l[2] \in Days /\ l[3] \in 1 .. 2 * LastDay
  BY LinesTyped
<1>2. \A s \in Stocks, d \in Days : (\E l \in lines : l[1] = s /\ l[2] = d) => on(s, d) \in lines /\ on(s, d)[1] = s /\ on(s, d)[2] = d
  OBVIOUS
<1>3. \A s \in Stocks, d \in Days :
        candle'[s][d] = IF candle[s][d] = 0 /\ \E l \in lines : l[1] = s /\ l[2] = d THEN on(s, d)[3] ELSE candle[s][d]
  BY DEF Insert
<1>. HIDE DEF on
<1>4. \A s \in Stocks, d \in Days : candle'[s][d] \in 0 .. 2 * LastDay
  BY <1>1, <1>2, <1>3 DEF CandleType
<1>5. CandleType'
  <2>1. candle' = [s \in Stocks |-> [d \in Days |-> candle'[s][d]]]
    BY DEF Insert
  <2>. QED
    BY <1>4, <2>1 DEF CandleType
<1>6. \A s \in Stocks, d \in Days : /\ candle[s][d] # 0 => candle'[s][d] = candle[s][d]
                                    /\ candle[s][d] = 0 /\ candle'[s][d] # 0 =>
                                         \E l \in lines : l[1] = s /\ l[2] = d /\ candle'[s][d] = l[3]
  BY <1>2, <1>3
<1>7. \A s \in Stocks : Table'[s] = {d \in Days : candle'[s][d] # 0} /\ Table[s] = {d \in Days : candle[s][d] # 0}
  BY DEF Table, Stored
<1>8. \A s \in Stocks : Table[s] \subseteq Table'[s]
  BY <1>6, <1>7
<1>9. \A l \in lines : l[2] \in Table'[l[1]]
  <2>. SUFFICES ASSUME NEW l \in lines PROVE candle'[l[1]][l[2]] # 0
    BY <1>1, <1>7
  <2>1. l[1] \in Stocks /\ l[2] \in Days
    BY <1>1
  <2>2. CASE candle[l[1]][l[2]] # 0
    BY <1>3, <2>1, <2>2
  <2>3. CASE candle[l[1]][l[2]] = 0
    <3>1. candle'[l[1]][l[2]] = on(l[1], l[2])[3] /\ on(l[1], l[2]) \in lines
      BY <1>2, <1>3, <2>1, <2>3
    <3>. QED
      BY <1>1, <3>1
  <2>. QED
    BY <2>2, <2>3
<1>. QED
  BY <1>5, <1>6, <1>8, <1>9

-----------------------------------------------------------------------------
(* Every step of a synchronisation *)

\* A process has taken a step, which is one that leaves it as it stands.
Moved(p) ==
  /\ \E e : sync' = [sync EXCEPT ![p] = e] /\ Advances(sync[p], e, Table', blamed', Day)
  /\ now' = now /\ CandleType' /\ blamed \subseteq blamed' /\ blamed' \subseteq Stocks
  /\ \A s \in Stocks : Table[s] \subseteq Table'[s]
  /\ ~Rests(p)

\* A step that writes no candle.
LEMMA MovedOf ==
  ASSUME CandleType, NEW p \in Commands, NEW e, sync' = [sync EXCEPT ![p] = e], candle' = candle, now' = now,
         blamed \subseteq blamed', blamed' \subseteq Stocks, ~Rests(p),
         Advances(sync[p], e, Table, blamed', Day)
  PROVE  Moved(p)
<1>1. Table' = Table /\ CandleType'
  BY DEF Table, Stored, CandleType
<1>2. Advances(sync[p], e, Table', blamed', Day)
  BY <1>1
<1>3. \E f : sync' = [sync EXCEPT ![p] = f] /\ Advances(sync[p], f, Table', blamed', Day)
  BY <1>2
<1>. QED
  BY <1>1, <1>3 DEF Moved

\* Each step of a synchronisation leaves its row standing.
LEMMA ProbeMoves == ASSUME SyncType, Progress, NEW p \in Commands, Probe(p) PROVE Moved(p)
<1>1. sync[p] \in SyncRow /\ Standing(sync[p], Table, blamed, Day) /\ sync[p].pc = "probe"
  BY DEF SyncType, Progress, Probe, At
<1>2. sync[p].alive \in BOOLEAN
  BY <1>1 DEF SyncRow
<1>3. PICK alive \in BOOLEAN : sync' = [sync EXCEPT ![p] = [sync[p] EXCEPT !.pc = "calendar", !.alive = alive]]
  <2>1. CASE Goes(p, [sync[p] EXCEPT !.pc = "calendar"])
    <3>1. [sync[p] EXCEPT !.pc = "calendar"] = [sync[p] EXCEPT !.pc = "calendar", !.alive = sync[p].alive]
      BY <1>1 DEF SyncRow
    <3>. QED
      BY <1>2, <2>1, <3>1 DEF Goes
  <2>2. CASE Goes(p, [sync[p] EXCEPT !.pc = "calendar", !.alive = FALSE])
    BY <2>2 DEF Goes
  <2>. QED
    BY <2>1, <2>2 DEF Probe
<1>. DEFINE e == [sync[p] EXCEPT !.pc = "calendar", !.alive = alive]
<1>4. Advances(sync[p], e, Table, blamed, Day)
  BY <1>1, ProbeStands
<1>5. sync' = [sync EXCEPT ![p] = e]
  BY <1>3
<1>6. UNCHANGED <<now, candle, blamed>> /\ ~Rests(p)
  BY <1>1 DEF Probe, Rests
<1>. HIDE DEF e
<1>. QED
  BY <1>4, <1>5, <1>6, MovedOf DEF SyncType

LEMMA CalendarMoves == ASSUME SyncType, Progress, NEW p \in Commands, Calendar(p) PROVE Moved(p)
<1>. DEFINE c == sync[p]
<1>1. c \in SyncRow /\ Standing(c, Table, blamed, Day) /\ c.pc = "calendar"
  BY DEF SyncType, Progress, Calendar, At
<1>2. UNCHANGED <<now, candle>> /\ ~Rests(p)
  BY <1>1 DEF Calendar, Rests
<1>3. /\ Day \in Nat /\ c.start \in Nat /\ c.end \in Nat /\ c.end <= Day
      /\ Session \in Sessions /\ Session <= Day /\ \A d \in Sessions : d <= Day => d <= Session
  BY <1>1, SessionIs, DayOf, DaysTyped DEF SyncType, ClockType, SyncRow, Standing, Dated
<1>. DEFINE listed == Listed(c.start, c.end)
<1>4. CASE listed # {} /\ Goes(p, Planned(c, "aktools", listed)) /\ UNCHANGED blamed
  <2>1. listed = {d \in Sessions : d \in c.start .. c.end}
    BY <1>3, DaysAssumption DEF Listed, Days
  <2>2. \A d \in Sessions : d \in c.start .. c.end => d <= Max(listed)
    <3>1. listed \in SUBSET (0 .. LastDay) /\ LastDay \in Nat
      <4>1. Sessions \in SUBSET (0 .. LastDay) /\ LastDay \in Nat
        BY DaysAssumption DEF Days
      <4>. QED
        BY <2>1, <4>1
    <3>2. Max(listed) \in listed /\ \A d \in listed : Max(listed) >= d
      BY <1>4, <3>1, MaxOf
    <3>3. \A d \in listed : d \in Nat
      BY <3>1
    <3>. QED
      BY <2>1, <3>2, <3>3
  <2>3. listed \in SUBSET Sessions /\ listed \subseteq c.start .. c.end
    BY <2>1
  <2>. DEFINE e == Planned(c, "aktools", listed)
  <2>. HIDE DEF listed
  <2>4. "aktools" \in {"aktools", "sina"} /\ "aktools" # "sina"
    OBVIOUS
  <2>5. Advances(c, e, Table, blamed, Day)
    BY <1>1, <1>3, <1>4, <2>1, <2>2, <2>3, <2>4, PlannedStands
  <2>6. sync' = [sync EXCEPT ![p] = e]
    BY <1>4 DEF Goes
  <2>. HIDE DEF e
  <2>. QED
    BY <1>2, <1>4, <2>5, <2>6, MovedOf DEF SyncType
<1>5. CASE /\ Session \in c.start .. c.end
           /\ Goes(p, Planned(c, "sina", {Session}))
           /\ Blame({s \in Stocks : \E d \in Trades[s] : d >= c.start /\ d < Session /\ d \notin c.have[s]})
  <2>1. Max({Session}) = Session
    <3>1. {Session} \in SUBSET (0 .. LastDay) /\ LastDay \in Nat
      BY <1>3, DaysAssumption, DaysTyped
    <3>. QED
      BY <3>1, MaxOf
  <2>2. blamed \subseteq blamed' /\ blamed' \subseteq Stocks
    BY <1>5 DEF Blame, SyncType
  <2>3. \A s \in Stocks \ blamed' : \A d \in Trades[s] : c.start <= d /\ d < Max({Session}) => d \in c.have[s]
    BY <1>3, <1>5, <2>1, TradesTyped DEF Blame
  <2>4. \A d \in Sessions : d \in c.start .. c.end => d <= Max({Session})
    BY <1>3, <2>1, DaysAssumption, DaysTyped
  <2>. DEFINE days == {Session}
  <2>5. days \in SUBSET Sessions /\ days # {} /\ days \subseteq c.start .. c.end
    BY <1>3, <1>5
  <2>. DEFINE e == Planned(c, "sina", days)
  <2>6. "sina" \in {"aktools", "sina"} /\ "sina" # "aktools"
    OBVIOUS
  <2>7. Advances(c, e, Table, blamed', Day)
    <3>. HIDE DEF days
    <3>1. \A s \in Stocks \ blamed' : \A d \in Trades[s] : c.start <= d /\ d < Max(days) => d \in c.have[s]
      BY <2>3 DEF days
    <3>2. \A d \in Sessions : d \in c.start .. c.end => d <= Max(days)
      BY <2>4 DEF days
    <3>. QED
      BY <1>1, <1>3, <2>2, <2>5, <2>6, <3>1, <3>2, PlannedStands
  <2>8. sync' = [sync EXCEPT ![p] = e]
    BY <1>5 DEF Goes
  <2>. HIDE DEF e
  <2>. QED
    BY <1>2, <2>2, <2>7, <2>8, MovedOf DEF SyncType
<1>6. CASE Goes(p, FallBack(c)) /\ UNCHANGED blamed
  <2>. DEFINE e == FallBack(c)
  <2>1. ~Resting(c) /\ \A w \in Writers : c.writing[w] = {}
    BY <1>1, PoolEmpty DEF Resting, Standing, Pooling
  <2>2. Advances(c, e, Table, blamed, Day)
    BY <1>1, <2>1, FallBackStands DEF Standing
  <2>3. sync' = [sync EXCEPT ![p] = e]
    BY <1>6 DEF Goes
  <2>. HIDE DEF e
  <2>. QED
    BY <1>2, <1>6, <2>2, <2>3, MovedOf DEF SyncType
<1>. QED
  BY <1>4, <1>5, <1>6 DEF Calendar

\* A worker that waits for a source.
LEMMA AwaitedIs ==
  ASSUME SyncType, Progress, NEW p \in Commands, NEW s, Awaited(p, s)
  PROVE  /\ sync[p] \in SyncRow /\ Standing(sync[p], Table, blamed, Day) /\ Pooling(sync[p]) /\ ~Rests(p) /\ s \in Stocks
         /\ s \in InFlight(sync[p]) /\ sync[p].writing[s] = {} /\ Day \in Nat
         /\ sync[p].hi <= Day /\ sync[p].hi \in Nat
<1>1. sync[p] \in SyncRow /\ Standing(sync[p], Table, blamed, Day) /\ Day \in Nat
  BY DayOf, DaysTyped DEF SyncType, ClockType, Progress
<1>2. s \in InFlight(sync[p]) /\ sync[p].writing[s] = {} /\ Pooling(sync[p]) /\ ~Rests(p)
  BY DEF Awaited, Pooling, Rests
<1>3. s \in Stocks
  BY <1>1, <1>2 DEF InFlight, Least, SyncRow
<1>4. sync[p].stage \in {"gap", "uncovered", "all"} /\ sync[p].end <= Day /\ sync[p].end \in Nat /\ sync[p].hi \in Nat
  BY <1>1, <1>2, DaysTyped DEF SyncRow, Standing, Ordered, Dated
<1>5. CASE sync[p].stage = "all"
  BY <1>1, <1>2, <1>3, <1>4, <1>5 DEF Standing, Ordered
<1>6. CASE sync[p].stage # "all"
  <2>1. SpotDay(sync[p]) \in Nat /\ SpotDay(sync[p]) <= sync[p].end /\ sync[p].hi <= SpotDay(sync[p])
    BY <1>1, <1>2, <1>4, <1>6, SpotDayIs, DaysTyped DEF Standing, Ordered, Dated
  <2>. QED
    BY <1>1, <1>2, <1>3, <1>4, <2>1
<1>. QED
  BY <1>5, <1>6

LEMMA FetchMoves == ASSUME SyncType, Progress, NEW p \in Commands, NEW s \in Stocks, Fetch(p, s) PROVE Moved(p)
<1>. DEFINE c == sync[p]
<1>. DEFINE lines == History(s, c.lo, c.hi)
<1>. DEFINE e == Answered(c, s, lines)
<1>1. Awaited(p, s) /\ sync' = [sync EXCEPT ![p] = e] /\ UNCHANGED <<now, candle, faults, blamed>>
  BY DEF Fetch, Goes
<1>2. /\ c \in SyncRow /\ Standing(c, Table, blamed, Day) /\ Pooling(c) /\ ~Rests(p) /\ s \in InFlight(c) /\ c.writing[s] = {} /\ Day \in Nat
  BY <1>1, AwaitedIs
<1>3. /\ lines \in SUBSET Lines
      /\ \A l \in lines : l[1] = s /\ l[2] \in Trades[s] /\ l[2] \in c.lo .. c.hi
      /\ \A d \in Trades[s] : d \in c.lo .. c.hi /\ d <= Day => \E l \in lines : l[2] = d
  BY HistoryIs DEF SyncType
<1>. HIDE DEF lines
<1>4. Advances(c, e, Table, blamed, Day)
  BY <1>2, <1>3, AnsweredStands
<1>. HIDE DEF e
<1>. QED
  BY <1>1, <1>2, <1>4, MovedOf DEF SyncType

LEMMA FetchFailsMoves == ASSUME SyncType, Progress, NEW p \in Commands, NEW s \in Stocks, FetchFails(p, s) PROVE Moved(p)
<1>. DEFINE c == sync[p]
<1>. DEFINE lines == History(s, c.lo, c.hi)
<1>1. Awaited(p, s) /\ UNCHANGED <<now, candle>>
  BY DEF FetchFails
<1>2. /\ c \in SyncRow /\ Standing(c, Table, blamed, Day) /\ Pooling(c) /\ ~Rests(p) /\ s \in InFlight(c) /\ c.writing[s] = {} /\ Day \in Nat
      /\ c.hi <= Day /\ c.hi \in Nat
  BY <1>1, AwaitedIs
<1>3. \A d \in Trades[s] : d \in c.lo .. c.hi => \E l \in lines : l[2] = d
  <2>1. \A d \in Trades[s] : d \in c.lo .. c.hi => d <= Day
    BY <1>2
  <2>. QED
    BY <2>1, HistoryIs DEF SyncType
<1>4. PICK transport \in BOOLEAN : sync' = [sync EXCEPT ![p] = Refused(c, s, transport)]
  BY DEF FetchFails, Goes
<1>5. /\ blamed \subseteq blamed' /\ blamed' \subseteq Stocks
      /\ s \in blamed' \/ \A l \in lines : l[2] \in c.have[s]
  <2>1. CASE lines = {} /\ UNCHANGED blamed
    BY <2>1 DEF SyncType
  <2>2. CASE Blame(IF \E l \in lines : l[2] \notin c.have[s] THEN {s} ELSE {})
    BY <2>2 DEF SyncType, Blame
  <2>. QED
    BY <2>1, <2>2 DEF FetchFails
<1>. HIDE DEF lines
<1>6. s \notin blamed' => \A d \in Trades[s] : d \in c.lo .. c.hi => d \in c.have[s]
  BY <1>3, <1>5
<1>. DEFINE e == Refused(c, s, transport)
<1>7. Advances(c, e, Table, blamed', Day)
  BY <1>2, <1>5, <1>6, UnansweredStands
<1>8. sync' = [sync EXCEPT ![p] = e]
  BY <1>4
<1>. HIDE DEF e
<1>. QED
  BY <1>1, <1>2, <1>5, <1>7, <1>8, MovedOf DEF SyncType

\* Whoever writes is at work.
LEMMA WriterIs ==
  ASSUME SyncType, Progress, NEW p \in Commands, NEW w \in Writers, sync[p].writing[w] # {}
  PROVE  /\ sync[p] \in SyncRow /\ Standing(sync[p], Table, blamed, Day) /\ ~Rests(p) /\ Day \in Nat
         /\ sync[p].writing[w] \in SUBSET Lines
<1>1. sync[p] \in SyncRow /\ Standing(sync[p], Table, blamed, Day) /\ Day \in Nat
  BY DayOf, DaysTyped DEF SyncType, ClockType, Progress
<1>2. ~Rests(p)
  BY <1>1 DEF Standing, Ordered, Pooling, Rests, Writers
<1>. QED
  BY <1>1, <1>2 DEF SyncRow

LEMMA WriteMoves == ASSUME SyncType, Progress, NEW p \in Commands, NEW w \in Writers, Write(p, w) PROVE Moved(p)
<1>. DEFINE c == sync[p]
<1>. DEFINE batch == c.writing[w]
<1>. DEFINE e == Landed(c, w)
<1>1. batch # {} /\ candle' = Insert(batch) /\ sync' = [sync EXCEPT ![p] = e] /\ Blame(Overtaken(c, w)) /\ now' = now
  BY DEF Write, Goes
<1>2. c \in SyncRow /\ Standing(c, Table, blamed, Day) /\ ~Rests(p) /\ Day \in Nat /\ batch \in SUBSET Lines
  BY <1>1, WriterIs
<1>3. blamed \subseteq blamed' /\ blamed' \subseteq Stocks
  BY <1>1 DEF Blame, Overtaken, SyncType
<1>4. CandleType' /\ (\A s \in Stocks : Table[s] \subseteq Table'[s]) /\ \A l \in batch : l[2] \in Table'[l[1]]
  BY <1>1, <1>2, Inserted DEF SyncType
<1>5. Advances(c, e, Table', blamed, Day)
  BY <1>1, <1>2, <1>4, LandedStands
<1>6. Advances(c, e, Table', blamed', Day)
  <2>1. e \in SyncRow /\ Standing(e, Table', blamed, Day)
    BY <1>5 DEF Advances
  <2>2. Standing(e, Table', blamed', Day)
    BY <1>2, <1>3, <2>1, StandingRaised
  <2>. QED
    BY <1>5, <2>2 DEF Advances
<1>. HIDE DEF e
<1>7. \E f : sync' = [sync EXCEPT ![p] = f] /\ Advances(sync[p], f, Table', blamed', Day)
  BY <1>1, <1>6
<1>. QED
  BY <1>1, <1>2, <1>3, <1>4, <1>7 DEF Moved

LEMMA WriteFailsMoves == ASSUME SyncType, Progress, NEW p \in Commands, NEW w \in Writers, WriteFails(p, w) PROVE Moved(p)
<1>. DEFINE c == sync[p]
<1>. DEFINE g == [c EXCEPT !.writing[w] = {}, !.lost = @ \cup {<<l[1], l[2]>> : l \in c.writing[w]}]
<1>1. /\ c.writing[w] # {} /\ UNCHANGED <<now, candle>> /\ Blame({l[1] : l \in c.writing[w]})
      /\ \/ w \in Stocks /\ \E transport \in BOOLEAN : Goes(p, Refused(g, w, transport))
         \/ w = Main /\ Goes(p, IF g.pc = "last" THEN [g EXCEPT !.pc = "failed"] ELSE FallBack(g))
  BY DEF WriteFails
<1>2. c \in SyncRow /\ Standing(c, Table, blamed, Day) /\ ~Rests(p) /\ Day \in Nat /\ c.writing[w] \in SUBSET Lines
  BY <1>1, WriterIs
<1>0. g = Given(c, w)
  BY DEF Given
<1>. HIDE DEF g
<1>3. /\ g \in SyncRow /\ SamePlan(c, g) /\ g.todo = c.todo /\ g.spot = c.spot /\ g.have = c.have /\ g.queue = c.queue
      /\ g.lost = c.lost \cup {<<l[1], l[2]>> : l \in c.writing[w]}
      /\ g.writing[w] = {} /\ \A v \in Writers \ {w} : g.writing[v] = c.writing[v]
      /\ Held(c) = Held(g) \cup c.writing[w] /\ c.writing[w] \subseteq Lines
  BY <1>2, <1>0, GivenRow
<1>4. blamed \subseteq blamed' /\ blamed' \subseteq Stocks /\ \A l \in c.writing[w] : l[1] \in blamed'
  BY <1>1, <1>2, LinesTyped DEF Blame, SyncType
<1>5. /\ \A transport \in BOOLEAN : w \in Stocks => Advances(c, Refused(g, w, transport), Table, blamed', Day)
      /\ w = Main /\ c.pc = "last" => Advances(c, [g EXCEPT !.pc = "failed"], Table, blamed', Day)
      /\ w = Main /\ c.pc # "last" => Advances(c, FallBack(g), Table, blamed', Day)
  BY <1>1, <1>2, <1>3, <1>4, UnwrittenStands
<1>6. g.pc = c.pc
  BY <1>3 DEF SamePlan
<1>7. PICK e : sync' = [sync EXCEPT ![p] = e] /\ Advances(c, e, Table, blamed', Day)
  <2>1. CASE w \in Stocks /\ \E transport \in BOOLEAN : Goes(p, Refused(g, w, transport))
    <3>1. PICK transport \in BOOLEAN : Goes(p, Refused(g, w, transport))
      BY <2>1
    <3>. QED
      BY <1>5, <2>1, <3>1 DEF Goes
  <2>2. CASE w = Main /\ Goes(p, IF g.pc = "last" THEN [g EXCEPT !.pc = "failed"] ELSE FallBack(g))
    <3>1. CASE g.pc = "last"
      BY <1>5, <1>6, <2>2, <3>1 DEF Goes
    <3>2. CASE g.pc # "last"
      BY <1>5, <1>6, <2>2, <3>2 DEF Goes
    <3>. QED
      BY <3>1, <3>2
  <2>. QED
    BY <1>1, <2>1, <2>2
<1>. QED
  BY <1>1, <1>2, <1>4, <1>7, MovedOf DEF SyncType

LEMMA SnapshotMoves == ASSUME SyncType, Progress, NEW p \in Commands, Snapshot(p) PROVE Moved(p)
<1>. DEFINE c == sync[p]
<1>1. /\ c \in SyncRow /\ Standing(c, Table, blamed, Day) /\ Day \in Nat /\ c.pc = "pool" /\ c.stage = "gap" /\ c.todo = {}
      /\ ~Rests(p) /\ UNCHANGED <<now, candle>>
  BY DayOf, DaysTyped DEF SyncType, ClockType, Progress, Snapshot, Finished, At, Rests
<1>2. Quote \in 1 .. 2 * LastDay /\ Quoted \in SUBSET Stocks
  BY QuoteIs DEF SyncType
<1>3. ASSUME NEW set \in SUBSET Stocks, Goes(p, [c EXCEPT !.pc = "spot", !.spot = set, !.covered = set, !.price = Quote]),
             Blame({s \in set : SpotDay(c) \notin Trades[s]})
      PROVE  Moved(p)
  <2>1. blamed \subseteq blamed' /\ blamed' \subseteq Stocks /\ \A s \in set \ blamed' : SpotDay(c) \in Trades[s]
    BY <1>3 DEF Blame, SyncType
  <2>. DEFINE e == [c EXCEPT !.pc = "spot", !.spot = set, !.covered = set, !.price = Quote]
  <2>2. Advances(c, e, Table, blamed', Day)
    BY <1>1, <1>2, <2>1, SpotStands
  <2>3. sync' = [sync EXCEPT ![p] = e]
    BY <1>3 DEF Goes
  <2>. HIDE DEF e
  <2>. QED
    BY <1>1, <2>1, <2>2, <2>3, MovedOf DEF SyncType
<1>4. CASE Goes(p, FallBack(c)) /\ UNCHANGED blamed
  <2>. DEFINE e == FallBack(c)
  <2>1. ~Resting(c) /\ \A w \in Writers : c.writing[w] = {}
    BY <1>1, PoolEmpty DEF Resting, Standing
  <2>2. Advances(c, e, Table, blamed, Day)
    BY <1>1, <2>1, FallBackStands DEF Standing
  <2>3. sync' = [sync EXCEPT ![p] = e]
    BY <1>4 DEF Goes
  <2>. HIDE DEF e
  <2>. QED
    BY <1>1, <1>4, <2>2, <2>3, MovedOf DEF SyncType
<1>. QED
  BY <1>2, <1>3, <1>4 DEF Snapshot

LEMMA SpotRowMoves == ASSUME SyncType, Progress, NEW p \in Commands, SpotRow(p) PROVE Moved(p)
<1>. DEFINE c == sync[p]
<1>. DEFINE s == Min(c.spot)
<1>. DEFINE row == <<s, SpotDay(c), c.price>>
<1>. DEFINE rest == [c EXCEPT !.spot = @ \ {s}]
<1>1. /\ c \in SyncRow /\ Standing(c, Table, blamed, Day) /\ Day \in Nat /\ c.pc = "spot" /\ c.spot # {} /\ c.writing[Main] = {}
      /\ ~Rests(p) /\ UNCHANGED <<now, candle, faults, blamed>>
      /\ sync' = [sync EXCEPT ![p] = IF SpotDay(c) \in c.have[s] THEN rest ELSE Enqueued(Owning(rest, {row}), Main, {row})]
  BY DayOf, DaysTyped DEF SyncType, ClockType, Progress, SpotRow, Goes, At, Rests
<1>2. s \in c.spot /\ s \in Stocks
  <2>1. c.spot \subseteq Stocks /\ c.spot \in SUBSET Nat
    BY <1>1, StocksTyped DEF SyncRow
  <2>. QED
    BY <1>1, <2>1, MinOf
<1>. HIDE DEF s
<1>3. /\ rest \in SyncRow /\ SamePlan(c, rest) /\ rest.todo = c.todo /\ rest.spot = c.spot \ {s} /\ rest.lost = c.lost
      /\ rest.have = c.have /\ rest.queue = c.queue /\ rest.writing = c.writing /\ Held(rest) = Held(c)
  BY <1>1, <1>2, SpotRowTyped
<1>. HIDE DEF rest
<1>4. SpotDay(c) \in Days /\ c.price \in 1 .. 2 * LastDay
  <2>1. SpotDay(c) \in Days
    BY <1>1, SpotDayIs DEF Standing, Dated, Ordered
  <2>2. c.price \in 0 .. 2 * LastDay /\ c.price # 0
    BY <1>1 DEF Standing, Ordered, SyncRow
  <2>. QED
    BY <2>1, <2>2, DaysAssumption
<1>5. CASE SpotDay(c) \in c.have[s]
  <2>1. \A t \in Stocks : rest.have[t] = c.have[t] \cup {l[2] : l \in {m \in {} : m[1] = t}}
    BY <1>3
  <2>2. Held(rest) = Held(c) \cup {} /\ {} \in SUBSET Lines /\ (\A l \in {} : l[1] = s /\ l[2] = SpotDay(c)) /\ SpotDay(c) \in rest.have[s]
    BY <1>3, <1>5
  <2>3. \A v \in Writers \ {Main} : rest.writing[v] = c.writing[v]
    BY <1>3
  <2>4. Advances(c, rest, Table, blamed, Day)
    BY <1>1, <1>2, <1>3, <2>1, <2>2, <2>3, SpotRowStands
  <2>. QED
    BY <1>1, <1>5, <2>4, MovedOf DEF SyncType
<1>6. CASE SpotDay(c) \notin c.have[s]
  <2>. DEFINE lines == {row}
  <2>. DEFINE e == Enqueued(Owning(rest, lines), Main, lines)
  <2>1. lines \in SUBSET Lines /\ \A l \in lines : l[1] = s /\ l[2] = SpotDay(c)
    BY <1>2, <1>4, LinesTyped
  <2>2. sync' = [sync EXCEPT ![p] = e]
    BY <1>1, <1>6
  <2>3. SpotDay(c) \in {l[2] : l \in {m \in lines : m[1] = s}}
    <3>1. row \in lines /\ row[1] = s /\ row[2] = SpotDay(c)
      OBVIOUS
    <3>. HIDE DEF row, lines
    <3>. QED
      BY <3>1
  <2>. HIDE DEF lines
  <2>4. /\ e \in SyncRow /\ SamePlan(rest, e) /\ e.todo = rest.todo /\ e.spot = rest.spot /\ e.lost = rest.lost
        /\ Held(e) = Held(rest) \cup lines
        /\ \A v \in Writers \ {Main} : e.writing[v] = rest.writing[v]
        /\ \A t \in Stocks : e.have[t] = rest.have[t] \cup {l[2] : l \in {m \in lines : m[1] = t}}
    <3>1. Main \in Writers /\ rest.writing[Main] = {}
      BY <1>1, <1>3, StocksTyped
    <3>2. Takes(rest, e, lines, Main)
      BY <1>3, <2>1, <3>1, TakenRow
    <3>. QED
      BY <3>2 DEF Takes
  <2>. HIDE DEF e
  <2>5. SamePlan(c, e) /\ e.todo = c.todo /\ e.spot = c.spot \ {s} /\ e.lost = c.lost /\ Held(e) = Held(c) \cup lines
    BY <1>3, <2>4 DEF SamePlan, SameRange
  <2>6. /\ \A t \in Stocks : e.have[t] = c.have[t] \cup {l[2] : l \in {m \in lines : m[1] = t}}
        /\ \A v \in Writers \ {Main} : e.writing[v] = c.writing[v]
    BY <1>3, <2>4
  <2>7. SpotDay(c) \in e.have[s]
    BY <1>2, <2>3, <2>6
  <2>8. Advances(c, e, Table, blamed, Day)
    BY <1>1, <1>2, <2>1, <2>4, <2>5, <2>6, <2>7, SpotRowStands
  <2>. QED
    BY <1>1, <2>2, <2>8, MovedOf DEF SyncType
<1>. QED
  BY <1>5, <1>6

LEMMA CompleteMoves == ASSUME SyncType, Progress, NEW p \in Commands, Complete(p) PROVE Moved(p)
<1>. DEFINE c == sync[p]
<1>. DEFINE day == SpotDay(c)
<1>. DEFINE todo == Uncovered(c)
<1>. DEFINE e == [c EXCEPT !.pc = "pool", !.stage = "uncovered", !.lo = day, !.hi = day, !.todo = todo]
<1>1. /\ c \in SyncRow /\ Standing(c, Table, blamed, Day) /\ Day \in Nat /\ c.pc = "spot" /\ c.spot = {} /\ c.writing[Main] = {}
      /\ ~Rests(p) /\ UNCHANGED <<now, candle, faults, blamed>> /\ sync' = [sync EXCEPT ![p] = e]
  BY DayOf, DaysTyped DEF SyncType, ClockType, Progress, Complete, Goes, At, Rests
<1>2. Advances(c, e, Table, blamed, Day)
  BY <1>1, CompleteStands
<1>. HIDE DEF e
<1>. QED
  BY <1>1, <1>2, MovedOf DEF SyncType

LEMMA FlushMoves == ASSUME SyncType, Progress, NEW p \in Commands, Flush(p) PROVE Moved(p)
<1>. DEFINE c == sync[p]
<1>1. /\ c \in SyncRow /\ Standing(c, Table, blamed, Day) /\ c.pc = "pool" /\ c.stage \in {"uncovered", "all"} /\ c.todo = {}
      /\ ~Rests(p) /\ UNCHANGED <<now, candle, faults, blamed>>
  BY DEF SyncType, Progress, Flush, Finished, At, Rests
<1>2. c.writing \in [Writers -> SUBSET Lines] /\ c.queue \in SUBSET Lines /\ c.writing[Main] = {}
  BY <1>1, StocksTyped, PoolEmpty DEF SyncRow, Standing
<1>3. CASE c.queue = {}
  <2>. DEFINE e == [c EXCEPT !.pc = "done"]
  <2>1. e \in SyncRow
    BY <1>1, PcTyped DEF SyncPc
  <2>2. /\ SameRange(c, e) /\ e.stage = c.stage /\ e.todo = c.todo /\ e.failed = c.failed /\ e.have = c.have /\ e.lost = c.lost
        /\ e.pc = "done" /\ e.queue = c.queue /\ e.writing = c.writing
    BY <1>1 DEF SyncRow, SameRange
  <2>3. sync' = [sync EXCEPT ![p] = e]
    BY <1>3 DEF Flush, Goes
  <2>. HIDE DEF e
  <2>4. Advances(c, e, Table, blamed, Day)
    BY <1>1, <1>2, <1>3, <2>1, <2>2, FlushedStands
  <2>. QED
    BY <1>1, <2>3, <2>4, MovedOf DEF SyncType
<1>4. CASE c.queue # {}
  <2>. DEFINE writing == [c.writing EXCEPT ![Main] = c.queue]
  <2>. DEFINE e == [c EXCEPT !.pc = "last", !.queue = {}, !.writing = writing]
  <2>1. writing \in [Writers -> SUBSET Lines] /\ writing[Main] = c.queue /\ \A s \in Stocks : writing[s] = c.writing[s]
    BY <1>2, StocksTyped DEF Writers
  <2>2. sync' = [sync EXCEPT ![p] = e]
    BY <1>1, <1>4 DEF Flush, Goes, SyncRow
  <2>. HIDE DEF writing
  <2>3. e \in SyncRow
    BY <1>1, <2>1, LastTyped
  <2>4. /\ SameRange(c, e) /\ e.stage = c.stage /\ e.todo = c.todo /\ e.failed = c.failed /\ e.have = c.have /\ e.lost = c.lost
        /\ e.pc = "last" /\ e.queue = {} /\ e.writing = writing
    BY <1>1 DEF SyncRow, SameRange
  <2>. HIDE DEF e
  <2>5. Advances(c, e, Table, blamed, Day)
    BY <1>1, <1>2, <2>1, <2>3, <2>4, FlushedStands
  <2>. QED
    BY <1>1, <2>2, <2>5, MovedOf DEF SyncType
<1>. QED
  BY <1>3, <1>4

LEMMA AbandonMoves == ASSUME SyncType, Progress, NEW p \in Commands, Abandon(p) PROVE Moved(p)
<1>. DEFINE c == sync[p]
<1>. DEFINE lost == c.lost \cup {<<l[1], l[2]>> : l \in c.queue}
<1>. DEFINE e == [c EXCEPT !.pc = "failed", !.queue = {}, !.lost = lost]
<1>1. /\ c \in SyncRow /\ Standing(c, Table, blamed, Day) /\ c.pc = "tripped" /\ c.todo = {} /\ ~Rests(p) /\ UNCHANGED <<now, candle, faults>>
      /\ blamed' = Stocks /\ blamed \in SUBSET Stocks
  BY DEF SyncType, Progress, Abandon, At, Rests, Blame
<1>2. sync' = [sync EXCEPT ![p] = e]
  BY <1>1 DEF Abandon, Goes, SyncRow
<1>3. lost \in SUBSET (Stocks \X Days)
  <2>1. c.queue \subseteq Lines /\ c.lost \subseteq Stocks \X Days
    BY <1>1 DEF SyncRow
  <2>. QED
    BY <2>1, LinesTyped
<1>4. lost = c.lost \cup {<<l[1], l[2]>> : l \in c.queue}
  OBVIOUS
<1>. HIDE DEF lost
<1>5. e \in SyncRow
  BY <1>1, <1>3, AbandonedTyped
<1>6. /\ SameRange(c, e) /\ e.stage = c.stage /\ e.todo = c.todo /\ e.have = c.have /\ e.lost = lost
      /\ e.pc = "failed" /\ e.queue = {} /\ e.writing = c.writing
  BY <1>1 DEF SyncRow, SameRange
<1>. HIDE DEF e
<1>7. Advances(c, e, Table, Stocks, Day)
  BY <1>1, <1>4, <1>5, <1>6, AbandonedStands
<1>. QED
  BY <1>1, <1>2, <1>7, MovedOf DEF SyncType

\* Every step of a synchronisation leaves its row standing.
LEMMA StepMoves == ASSUME SyncType, Progress, NEW p \in Commands, SyncStep(p) PROVE Moved(p)
BY ProbeMoves, CalendarMoves, SnapshotMoves, SpotRowMoves, CompleteMoves, FlushMoves, AbandonMoves,
   FetchMoves, FetchFailsMoves, WriteMoves, WriteFailsMoves DEF SyncStep, Writers

-----------------------------------------------------------------------------
(* The invariant of the candles *)

Candles ==
  /\ SyncType /\ DOMAIN work = Commands /\ SyncsWork
  /\ Progress /\ Whole(Table, blamed) /\ Responsible
  /\ \E s \in Stocks : Table[s] # {}

\* A process that has ended has left nothing of its range open for a stock without blame.
LEMMA EndCovers ==
  ASSUME NEW c \in SyncRow, NEW table, NEW guilty, NEW today, Standing(c, table, guilty, today), c.pc \in {"done", "failed"},
         c.stage # "none", NEW s \in Stocks, s \notin guilty \/ (c.calendar # "sina" /\ s \notin c.failed /\ c.pc # "failed"),
         NEW d \in Trades[s], d \in c.start .. c.end
  PROVE  d \in table[s] \/ <<s, d>> \in c.lost
<1>1. Covers(c, s)
  BY DEF Standing, Coverage
<1>2. d \in c.have[s]
  BY <1>1 DEF Covers, AllDone
<1>3. Held(c) = {}
  BY PoolEmpty, HeldNothing DEF Standing, Ordered, Pooling
<1>4. ~Holds(c, s, d)
  BY <1>3 DEF Holds
<1>. QED
  BY <1>2, <1>4 DEF Standing, Owned

\* A process that is not there stands.
LEMMA NoSyncStands ==
  ASSUME NEW table, NEW guilty, NEW today \in Nat, today >= 1
  PROVE  NoSync \in SyncRow /\ Standing(NoSync, table, guilty, today)
<1>1. NoRows \in [Writers -> SUBSET Lines] /\ \A w \in Writers : NoRows[w] = {}
  BY DEF NoRows, Writers
<1>2. NoSync \in SyncRow
  BY <1>1, DaysAssumption, DaysTyped DEF NoSync, SyncRow, SyncPc, Days
<1>3. /\ NoSync.pc = "idle" /\ NoSync.stage = "none" /\ NoSync.calendar = "none" /\ NoSync.queue = {} /\ NoSync.writing = NoRows
      /\ NoSync.todo = {} /\ NoSync.lost = {} /\ NoSync.end = 1 /\ \A s \in Stocks : NoSync.have[s] = {}
  BY DEF NoSync
<1>. HIDE DEF NoSync
<1>4. Held(NoSync) = {} /\ \A w \in Writers : NoSync.writing[w] = {}
  BY <1>1, <1>3, HeldNothing
<1>5. Ordered(NoSync)
  BY <1>3, <1>4, StocksTyped DEF Ordered, Pooling, Writers
<1>6. Dated(NoSync, today)
  BY <1>3, <1>4 DEF Dated
<1>7. Owned(NoSync, table) /\ Coverage(NoSync, guilty) /\ Kept(NoSync, guilty)
  BY <1>3 DEF Owned, Coverage, Covers, Pooling, Kept
<1>8. FromStart(NoSync, table, guilty) /\ SpotsTrade(NoSync, guilty) /\ Closing(NoSync, table, guilty)
  BY <1>3, <1>4 DEF FromStart, SpotsTrade, Closing, Resting
<1>. QED
  BY <1>2, <1>5, <1>6, <1>7, <1>8 DEF Standing

\* At the start the stored candles are those of a first part of the sessions.
LEMMA InitCandles == Init => Candles
<1>. SUFFICES ASSUME Init PROVE Candles
  OBVIOUS
<1>1. world \in World /\ world.stored \in Sessions /\ now = world.from
  BY WorldsAssumption DEF Init, World
<1>2. ClockType
  BY <1>1 DEF World, ClockType
<1>3. Day \in Nat /\ Day >= 1
  BY <1>2, DayOf, DaysTyped DEF ClockType
<1>4. \A s \in Stocks, d \in Days : candle[s][d] = IF d \in Trades[s] /\ d <= world.stored THEN 2 * d ELSE 0
  BY DEF Init
<1>5. CandleType
  <2>1. \A d \in Days : 2 * d \in 0 .. 2 * LastDay /\ 0 \in 0 .. 2 * LastDay
    BY DaysTyped, DaysAssumption
  <2>. QED
    BY <2>1 DEF Init, CandleType
<1>6. \A s \in Stocks : Table[s] = {d \in Trades[s] : d <= world.stored}
  <2>1. \A d \in Days : 2 * d # 0
    BY DaysTyped
  <2>. QED
    BY <1>4, <2>1, TradesTyped DEF Table, Stored
<1>7. SyncType
  BY <1>2, <1>3, <1>5, NoSyncStands DEF Init, SyncType
<1>8. Progress
  BY <1>3, NoSyncStands DEF Init, Progress
<1>9. SyncsWork
  <2>1. NoSync.pc = "idle"
    BY DEF NoSync
  <2>. QED
    BY <2>1 DEF Init, SyncsWork, Rests
<1>10. Whole(Table, blamed) /\ Responsible
  <2>1. world.stored \in Nat
    BY <1>1, DaysAssumption, DaysTyped
  <2>. QED
    BY <1>6, <2>1, TradesTyped DEF Whole, Responsible
<1>11. \E s \in Stocks : Table[s] # {}
  <2>1. PICK s \in Stocks : world.stored \in Trades[s]
    BY <1>1, StocksAssumption
  <2>2. world.stored <= world.stored
    BY <2>1, TradesTyped
  <2>3. world.stored \in Table[s]
    BY <1>6, <2>1, <2>2
  <2>. QED
    BY <2>3
<1>. QED
  BY <1>7, <1>8, <1>9, <1>10, <1>11 DEF Candles, Init

\* Where a process has moved, its row and those of the others stand.
LEMMA MovedStands ==
  ASSUME Candles, NEW p \in Commands, Moved(p), UNCHANGED work
  PROVE  SyncType' /\ Progress' /\ SyncsWork' /\ \E s \in Stocks : Table'[s] # {}
<1>1. PICK e : sync' = [sync EXCEPT ![p] = e] /\ Advances(sync[p], e, Table', blamed', Day)
  BY DEF Moved
<1>2. /\ now' = now /\ CandleType' /\ blamed \subseteq blamed' /\ blamed' \subseteq Stocks
      /\ (\A s \in Stocks : Table[s] \subseteq Table'[s]) /\ ~Rests(p)
  BY DEF Moved
<1>3. sync \in [Commands -> SyncRow] /\ ClockType /\ e \in SyncRow
  BY <1>1 DEF Candles, SyncType, Advances
<1>4. SyncType'
  BY <1>1, <1>2, <1>3 DEF SyncType, ClockType
<1>5. Day' = Day /\ Day \in Nat
  BY <1>2, <1>3, DayOf, DaysTyped DEF Day, ClockType
<1>6. Progress'
  <2>. SUFFICES ASSUME NEW q \in Commands PROVE Standing(sync'[q], Table', blamed', Day')
    BY DEF Progress
  <2>1. CASE q = p
    BY <1>1, <1>3, <1>5, <2>1 DEF Advances
  <2>2. CASE q # p
    <3>1. sync'[q] = sync[q] /\ sync[q] \in SyncRow /\ Standing(sync[q], Table, blamed, Day)
      BY <1>1, <1>3, <2>2 DEF Candles, Progress
    <3>2. Standing(sync[q], Table', blamed', Day)
      BY <1>2, <1>5, <3>1, StandingRaised
    <3>. QED
      BY <1>5, <3>1, <3>2
  <2>. QED
    BY <2>1, <2>2
<1>7. SyncsWork'
  <2>1. work[p] = "sync"
    BY <1>2 DEF Candles, SyncsWork
  <2>. QED
    BY <1>1, <1>3, <2>1 DEF Candles, SyncsWork, Rests
<1>8. \E s \in Stocks : Table'[s] # {}
  BY <1>2 DEF Candles
<1>. QED
  BY <1>4, <1>6, <1>7, <1>8

\* The newest candle keeps being looked after: the candles that a step adds are of the
\* range of its process.
LEMMA MovedResponsible ==
  ASSUME Candles, NEW p \in Commands, Moved(p), UNCHANGED work,
         \A t \in Stocks : \A e \in Table'[t] : e \in Table[t] \/ e \in sync[p].start .. sync[p].end
  PROVE  Responsible'
<1>1. PICK row : sync' = [sync EXCEPT ![p] = row] /\ Advances(sync[p], row, Table', blamed', Day)
  BY DEF Moved
<1>2. /\ blamed \subseteq blamed' /\ (\A s \in Stocks : Table[s] \subseteq Table'[s]) /\ ~Rests(p)
  BY DEF Moved
<1>3. /\ sync \in [Commands -> SyncRow] /\ row \in SyncRow /\ row.start = sync[p].start /\ row.end = sync[p].end
      /\ (Resting(row) => row.stage # "none") /\ Standing(row, Table', blamed', Day) /\ Standing(sync[p], Table, blamed, Day)
  BY <1>1 DEF Candles, SyncType, Progress, Advances
<1>4. sync'[p] = row /\ \A q \in Commands \ {p} : sync'[q] = sync[q]
  BY <1>1, <1>3
<1>. SUFFICES ASSUME NEW s \in Stocks \ blamed', NEW d \in Trades[s], NEW t \in Stocks, NEW e \in Table'[t], d <= e
              PROVE  d \in Table'[s] \/ \E q \in Commands : ~Rests(q)' /\ d \in sync'[q].start .. sync'[q].end
  BY DEF Responsible
<1>5. ASSUME d \in sync[p].start .. sync[p].end
      PROVE  d \in Table'[s] \/ \E q \in Commands : ~Rests(q)' /\ d \in sync'[q].start .. sync'[q].end
  <2>1. CASE row.pc \in {"done", "failed"}
    <3>1. row.stage # "none" /\ d \in row.start .. row.end /\ s \in Stocks /\ s \notin blamed'
      BY <1>3, <1>5, <2>1 DEF Resting
    <3>2. d \in Table'[s] \/ <<s, d>> \in row.lost
      BY <1>3, <2>1, <3>1, EndCovers
    <3>3. <<s, d>> \notin row.lost
      BY <1>3, TradesTyped DEF Standing, Kept
    <3>. QED
      BY <3>2, <3>3
  <2>2. CASE row.pc \notin {"idle", "done", "failed"}
    BY <1>3, <1>4, <1>5, <2>2 DEF Rests
  <2>3. CASE row.pc = "idle"
    <3>1. row.stage # "none" /\ row.stage = "none"
      BY <1>3, <2>3 DEF Resting, Standing, Ordered
    <3>. QED
      BY <3>1
  <2>. QED
    BY <2>1, <2>2, <2>3
<1>6. ASSUME d \in Table[s] \/ \E q \in Commands : ~Rests(q) /\ d \in sync[q].start .. sync[q].end
      PROVE  d \in Table'[s] \/ \E q \in Commands : ~Rests(q)' /\ d \in sync'[q].start .. sync'[q].end
  <2>1. CASE d \in Table[s]
    BY <1>2, <2>1
  <2>2. ASSUME NEW q \in Commands, ~Rests(q), d \in sync[q].start .. sync[q].end, q # p
        PROVE  ~Rests(q)' /\ d \in sync'[q].start .. sync'[q].end
    BY <1>4, <2>2 DEF Rests
  <2>. QED
    BY <1>5, <1>6, <2>1, <2>2
<1>7. CASE e \in Table[t]
  BY <1>2, <1>6, <1>7 DEF Candles, Responsible
<1>8. CASE e \in sync[p].start .. sync[p].end
  <2>1. d \in Nat /\ sync[p].start \in Nat /\ sync[p].end \in Nat
    BY <1>3, TradesTyped, DaysTyped DEF SyncRow
  <2>2. CASE sync[p].start <= d
    BY <1>5, <1>8, <2>1, <2>2
  <2>3. CASE d < sync[p].start
    <3>1. FromStart(sync[p], Table, blamed) /\ ~Resting(sync[p])
      BY <1>2, <1>3 DEF Standing, Resting, Rests
    <3>2. d \in Table[s]
      BY <1>2, <2>3, <3>1 DEF FromStart
    <3>. QED
      BY <1>2, <3>2
  <2>. QED
    BY <2>1, <2>2, <2>3
<1>. QED
  BY <1>7, <1>8

-----------------------------------------------------------------------------
(* The candles hold what is said of them *)

\* A step of a process that does not write leaves the candles alone.
LEMMA WritersOnly ==
  ASSUME NEW p \in Commands, SyncStep(p)
  PROVE  candle' = candle \/ \E w \in Writers : Write(p, w)
BY DEF SyncStep, Probe, Calendar, Snapshot, SpotRow, Complete, Flush, Abandon, Fetch, FetchFails, WriteFails, Writers

\* A batch closes up with what is stored, or its stock is to blame from then on.
LEMMA WriteWhole ==
  ASSUME Candles, NEW p \in Commands, NEW w \in Writers, Write(p, w)
  PROVE  /\ Whole(Table', blamed')
         /\ \A s \in Stocks : \A e \in Table'[s] : e \in Table[s] \/ e \in sync[p].start .. sync[p].end
<1>. DEFINE c == sync[p]
<1>. DEFINE batch == c.writing[w]
<1>1. /\ batch # {} /\ candle' = Insert(batch) /\ blamed' = blamed \cup Overtaken(c, w)
  BY DEF Write, Blame
<1>2. c \in SyncRow /\ Standing(c, Table, blamed, Day) /\ batch \in SUBSET Lines
  BY <1>1, WriterIs DEF Candles
<1>3. /\ CandleType /\ CandleType' /\ (\A s \in Stocks : Table[s] \subseteq Table'[s])
      /\ \A l \in batch : l[2] \in Table'[l[1]]
      /\ \A s \in Stocks, d \in Days : candle[s][d] = 0 /\ candle'[s][d] # 0 => \E l \in batch : l[1] = s /\ l[2] = d
  BY <1>1, <1>2, Inserted DEF Candles, SyncType
<1>4. ASSUME NEW s \in Stocks, NEW e \in Table'[s], e \notin Table[s]
      PROVE  \E l \in batch : l[1] = s /\ l[2] = e
  <2>1. Table'[s] = {d \in Days : candle'[s][d] # 0} /\ Table[s] = {d \in Days : candle[s][d] # 0}
    BY DEF Table, Stored
  <2>. QED
    BY <1>3, <1>4, <2>1
<1>5. batch \subseteq Held(c)
  BY DEF Held
<1>6. Whole(Table', blamed')
  <2>. SUFFICES ASSUME NEW s \in Stocks \ blamed', NEW e \in Table'[s]
                PROVE  e \in Trades[s] /\ \A d \in Trades[s] : d < e => d \in Table'[s]
    BY DEF Whole
  <2>1. s \notin blamed /\ s \notin Overtaken(c, w)
    BY <1>1
  <2>2. CASE e \in Table[s]
    BY <1>3, <2>1, <2>2 DEF Candles, Whole
  <2>3. CASE e \notin Table[s]
    <3>1. PICK l \in batch : l[1] = s /\ l[2] = e
      BY <1>4, <2>3
    <3>2. e \in Trades[s] /\ \A d \in Trades[s] : d < e => d \in Table[s] \/ Holds(c, s, d)
      BY <1>2, <1>5, <2>1, <3>1 DEF Standing, Closing
    <3>. SUFFICES ASSUME NEW d \in Trades[s], d < e, Holds(c, s, d) PROVE d \in Table'[s]
      BY <1>3, <3>2
    <3>3. PICK m \in Held(c) : m[1] = s /\ m[2] = d
      BY DEF Holds
    <3>4. m \in batch \/ m \in c.queue \cup UNION {c.writing[v] : v \in (Stocks \cup {Main}) \ {w}}
      BY DEF Held, Writers
    <3>5. CASE m \in batch
      BY <1>3, <3>3, <3>5
    <3>6. CASE m \in c.queue \cup UNION {c.writing[v] : v \in (Stocks \cup {Main}) \ {w}}
      <4>1. s \in Overtaken(c, w)
        BY <3>1, <3>3, <3>6 DEF Overtaken
      <4>. QED
        BY <2>1, <4>1
    <3>. QED
      BY <3>4, <3>5, <3>6
  <2>. QED
    BY <2>2, <2>3
<1>7. \A s \in Stocks : \A e \in Table'[s] : e \in Table[s] \/ e \in c.start .. c.end
  <2>1. \A l \in batch : l[2] \in c.start .. c.end
    BY <1>2, <1>5 DEF Standing, Dated
  <2>. QED
    BY <1>4, <2>1
<1>. QED
  BY <1>6, <1>7

\* A step of a synchronisation keeps the candles.
LEMMA StepCandles ==
  ASSUME Candles, NEW p \in Commands, SyncStep(p), UNCHANGED work
  PROVE  Candles'
<1>1. Moved(p)
  BY StepMoves DEF Candles
<1>2. SyncType' /\ Progress' /\ SyncsWork' /\ \E s \in Stocks : Table'[s] # {}
  BY <1>1, MovedStands
<1>3. /\ Whole(Table', blamed')
      /\ \A s \in Stocks : \A e \in Table'[s] : e \in Table[s] \/ e \in sync[p].start .. sync[p].end
  <2>1. CASE candle' = candle
    <3>1. Table' = Table /\ blamed \subseteq blamed'
      BY <1>1, <2>1 DEF Moved, Table, Stored
    <3>. QED
      BY <3>1 DEF Candles, Whole
  <2>. QED
    BY <2>1, WritersOnly, WriteWhole
<1>4. Responsible'
  BY <1>1, <1>3, MovedResponsible
<1>. QED
  BY <1>2, <1>3, <1>4 DEF Candles

\* What more blame and a later day change.
LEMMA SettledCandles ==
  ASSUME Candles, now' \in now .. 2 * LastDay, candle' = candle, blamed \subseteq blamed', blamed' \subseteq Stocks,
         DOMAIN work' = Commands, sync' \in [Commands -> SyncRow],
         \A p \in Commands : \/ sync'[p] = sync[p]
                             \/ Standing(sync'[p], Table, blamed', Day') /\ (Rests(p) \/ blamed' = Stocks),
         \A p \in Commands : ~Rests(p)' => work'[p] = "sync"
  PROVE  Candles'
<1>1. Table' = Table
  BY DEF Table, Stored
<1>2. ClockType' /\ Day \in Nat /\ Day' \in Nat /\ Day <= Day'
  <2>1. now \in Nat /\ now' \in Nat /\ LastDay \in Nat /\ now <= now' /\ now' <= 2 * LastDay /\ now >= 1
    BY DaysAssumption DEF Candles, SyncType, ClockType
  <2>2. \A m, n \in Nat : m <= n => (m + 1) \div 2 \in Nat /\ (n + 1) \div 2 \in Nat /\ (m + 1) \div 2 <= (n + 1) \div 2
    OBVIOUS
  <2>3. Day = (now + 1) \div 2 /\ Day' = (now' + 1) \div 2
    BY DEF Day
  <2>4. ClockType'
    BY <2>1 DEF ClockType
  <2>. QED
    BY <2>1, <2>2, <2>3, <2>4
<1>3. SyncType'
  BY <1>2 DEF Candles, SyncType, CandleType
<1>4. Progress'
  <2>. SUFFICES ASSUME NEW p \in Commands PROVE Standing(sync'[p], Table', blamed', Day')
    BY DEF Progress
  <2>1. CASE sync'[p] = sync[p]
    <3>1. sync[p] \in SyncRow /\ Standing(sync[p], Table, blamed, Day) /\ \A s \in Stocks : Table[s] \subseteq Table[s]
      BY DEF Candles, SyncType, Progress
    <3>2. Standing(sync[p], Table, blamed', Day')
      BY <1>2, <3>1, StandingRaised
    <3>. QED
      BY <1>1, <2>1, <3>2
  <2>2. CASE Standing(sync'[p], Table, blamed', Day')
    BY <1>1, <2>2
  <2>. QED
    BY <2>1, <2>2
<1>5. SyncsWork'
  BY DEF SyncsWork
<1>6. Whole(Table', blamed')
  BY <1>1 DEF Candles, Whole
<1>7. Responsible'
  <2>. SUFFICES ASSUME NEW s \in Stocks \ blamed', NEW d \in Trades[s], NEW t \in Stocks, NEW e \in Table[t], d <= e, d \notin Table[s]
                PROVE  \E p \in Commands : ~Rests(p)' /\ d \in sync'[p].start .. sync'[p].end
    BY <1>1 DEF Responsible
  <2>1. PICK p \in Commands : ~Rests(p) /\ d \in sync[p].start .. sync[p].end
    BY DEF Candles, Responsible
  <2>2. sync'[p] = sync[p]
    BY <2>1
  <2>. QED
    BY <2>1, <2>2 DEF Rests
<1>. QED
  BY <1>1, <1>3, <1>4, <1>5, <1>6, <1>7 DEF Candles

-----------------------------------------------------------------------------
(* The rows of a backfill *)

FillRow ==
  [pc : {"idle", "rows", "done", "failed"}, todo : SUBSET Ids, clock : Nat, base : SUBSET Days, future : SUBSET Days,
   read : SUBSET {"base", "future"}]
RowsType == DOMAIN rows \subseteq Ids /\ fill \in [Commands -> FillRow]

\* A recommendation is of a session and of a stock.
LEMMA IdsTyped == \A id \in Ids : id[1] \in Sessions /\ id[1] \in Days /\ id[1] \in Nat /\ id[2] \in Stocks
BY DaysAssumption, DaysTyped DEF Ids

\* The row that a backfill takes next is one of those that are left.
LEMMA NewestIs ==
  ASSUME NEW ids \in SUBSET Ids, ids # {}
  PROVE  Newest(ids) \in ids
<1>. DEFINE days == {id[1] : id \in ids}
<1>1. days \in SUBSET (0 .. LastDay) /\ days # {} /\ LastDay \in Nat
  <2>1. \A id \in ids : id[1] \in 0 .. LastDay
    BY IdsTyped, DaysTyped, DaysAssumption
  <2>. QED
    BY <2>1, DaysAssumption
<1>. DEFINE top == Max(days)
<1>2. top \in days /\ \A d \in days : top >= d
  <2>. HIDE DEF days
  <2>. QED
    BY <1>1, MaxOf
<1>3. \A id \in ids : top >= id[1]
  BY <1>2
<1>4. PICK id \in ids : id[1] = top
  BY <1>2
<1>. HIDE DEF top, days
<1>. DEFINE stocks == {other[2] : other \in {one \in ids : one[1] = top}}
<1>5. stocks \in SUBSET Nat /\ stocks # {}
  BY <1>4, IdsTyped, StocksTyped
<1>6. PICK low \in stocks : \A s \in stocks : low <= s
  BY <1>5, LeastNumber
<1>7. PICK one \in ids : one[1] = top /\ one[2] = low
  BY <1>6
<1>8. \A other \in ids : other[1] < one[1] \/ (other[1] = one[1] /\ other[2] >= one[2])
  <2>. SUFFICES ASSUME NEW other \in ids, other[1] >= one[1] PROVE other[1] = one[1] /\ other[2] >= one[2]
    BY <1>7, IdsTyped
  <2>1. other[1] = top
    BY <1>3, <1>7, IdsTyped
  <2>2. other[2] \in stocks
    BY <2>1
  <2>. QED
    BY <1>5, <1>6, <1>7, <2>1, <2>2
<1>. QED
  BY <1>8 DEF Newest

\* The row of a backfill.
LEMMA FillIs ==
  ASSUME RowsType, NEW p \in Commands
  PROVE  fill[p].todo \in SUBSET Ids /\ fill[p].read \in SUBSET {"base", "future"} /\ fill[p] \in FillRow
BY DEF RowsType, FillRow

\* A backfill that is not there.
LEMMA NoFillTyped == NoFill \in FillRow /\ NoFill.pc = "idle"
BY DEF NoFill, FillRow

\* A backfill begins with recommendations.
LEMMA SelectRows ==
  ASSUME RowsType, ClockType, NEW p \in Commands, Select(p)
  PROVE  RowsType'
<1>1. Open \subseteq Ids /\ now \in Nat
  BY DaysAssumption DEF RowsType, Open, ClockType
<1>2. [NoFill EXCEPT !.pc = "rows", !.todo = Open, !.clock = now] \in FillRow
  BY <1>1, NoFillTyped DEF FillRow
<1>. QED
  BY <1>2 DEF Select, RowsType

\* A backfill goes on with recommendations.
LEMMA FillRows ==
  ASSUME RowsType, NEW p \in Commands, FillStep(p), CandleType
  PROVE  RowsType'
<1>. DEFINE f == fill[p]
<1>1. f \in FillRow /\ fill \in [Commands -> FillRow] /\ DOMAIN rows \subseteq Ids
  BY DEF RowsType
<1>2. \A id : UpTo(id) \subseteq Days /\ After(id) \subseteq Days
  BY DEF UpTo, After, Stored
<1>3. \A n, S : Least(n, S) \subseteq S
  BY DEF Least
<1>4. CASE ReadBase(p)
  <2>1. [f EXCEPT !.read = @ \cup {"base"}, !.base = UpTo(Newest(f.todo))] \in FillRow
    BY <1>1, <1>2 DEF FillRow
  <2>. QED
    BY <1>1, <1>4, <2>1 DEF ReadBase, RowsType
<1>5. CASE ReadFuture(p)
  <2>1. Least(Last, After(Newest(f.todo))) \subseteq Days
    BY <1>2, <1>3
  <2>2. [f EXCEPT !.read = @ \cup {"future"}, !.future = Least(Last, After(Newest(f.todo)))] \in FillRow
    BY <1>1, <2>1 DEF FillRow
  <2>. QED
    BY <1>1, <1>5, <2>2 DEF ReadFuture, RowsType
<1>6. CASE Update(p)
  <2>1. [f EXCEPT !.todo = @ \ {Newest(f.todo)}, !.read = {}, !.base = {}, !.future = {}] \in FillRow
    BY <1>1 DEF FillRow
  <2>. QED
    BY <1>1, <1>6, <2>1 DEF Update, RowsType
<1>7. CASE Finish(p) \/ Break(p)
  <2>1. [f EXCEPT !.pc = "done"] \in FillRow /\ [f EXCEPT !.pc = "failed"] \in FillRow
    BY <1>1 DEF FillRow
  <2>. QED
    BY <1>1, <1>7, <2>1 DEF Finish, Break, RowsType
<1>. QED
  BY <1>4, <1>5, <1>6, <1>7 DEF FillStep

\* A run recommends for a session.
LEMMA RecommendRows ==
  ASSUME RowsType, News, NEW p \in Commands, Recommend(p)
  PROVE  RowsType'
<1>1. intake[p].asOf \in Sessions
  BY DEF News, NewsType, IntakeRow
<1>2. {intake[p].asOf} \X Picks \subseteq Ids
  BY <1>1, ScheduleAssumption DEF Ids
<1>3. fill' = fill
  BY DEF Recommend
<1>4. DOMAIN rows' \subseteq DOMAIN rows \cup ({intake[p].asOf} \X Picks)
  BY DEF Recommend
<1>. QED
  BY <1>2, <1>3, <1>4 DEF RowsType

\* The steps that change the rows or the backfills.
LEMMA RowsKinds ==
  ASSUME [Next]_vars
  PROVE  \/ \E p \in Commands : Select(p) /\ UNCHANGED <<candle, sync, blamed>>
         \/ \E p \in Commands : FillStep(p)
         \/ \E p \in Commands : Recommend(p)
         \/ Restart
         \/ UNCHANGED <<rows, fill>>
<1>1. CASE HandStarts
  <2>1. Hand \in Commands
    BY CommandsAssumption
  <2>. QED
    BY <1>1, <2>1 DEF HandStarts, Sync, Backfill, Daily
<1>2. CASE Tick \/ Wake \/ UNCHANGED vars
  BY <1>2 DEF Tick, Wake, Sync, vars
<1>3. ASSUME NEW p \in Commands, Steps(p)
      PROVE  \/ Select(p) /\ UNCHANGED <<candle, sync, blamed>>
             \/ FillStep(p) \/ Recommend(p) \/ UNCHANGED <<rows, fill>>
  BY <1>3 DEF Steps, IntakeStep, SyncExits, FillExits, NewsEnds, Backfill, Daily, dataVars
<1>. QED
  BY <1>1, <1>2, <1>3 DEF Next

\* Every step keeps the types of rows and backfills.
LEMMA NextRows == RowsType /\ SyncType /\ News /\ [Next]_vars => RowsType'
<1>. SUFFICES ASSUME RowsType, SyncType, News, [Next]_vars PROVE RowsType'
  OBVIOUS
<1>1. ASSUME NEW p \in Commands, Select(p) PROVE RowsType'
  BY <1>1, SelectRows DEF SyncType
<1>2. ASSUME NEW p \in Commands, FillStep(p) PROVE RowsType'
  BY <1>2, FillRows DEF SyncType
<1>3. ASSUME NEW p \in Commands, Recommend(p) PROVE RowsType'
  BY <1>3, RecommendRows
<1>4. CASE Restart
  BY <1>4, NoFillTyped DEF Restart, RowsType
<1>5. CASE UNCHANGED <<rows, fill>>
  BY <1>5 DEF RowsType
<1>. QED
  BY <1>1, <1>2, <1>3, <1>4, <1>5, RowsKinds

\* At the start there are recommendations of sessions, and no backfill.
LEMMA InitRows == Init => RowsType
<1>. SUFFICES ASSUME Init PROVE RowsType
  OBVIOUS
<1>1. world.asked \subseteq Sessions
  BY WorldsAssumption DEF Init, World
<1>2. DOMAIN rows \subseteq Ids
  BY <1>1, ScheduleAssumption DEF Init, Ids
<1>. QED
  BY <1>2, NoFillTyped DEF Init, RowsType

\* A command that is no synchronisation starts, goes on or ends.
LEMMA OtherCandles ==
  ASSUME Candles, UNCHANGED <<now, candle, sync, blamed>>, NEW p \in Commands, work[p] # "sync" \/ Rests(p),
         NEW what, Does(p, what)
  PROVE  Candles'
<1>1. \A q \in Commands : ~Rests(q)' => work'[q] = "sync"
  <2>. SUFFICES ASSUME NEW q \in Commands, ~Rests(q) PROVE work'[q] = "sync"
    BY DEF Rests
  <2>1. q # p /\ work[q] = "sync"
    BY DEF Candles, SyncsWork
  <2>. QED
    BY <2>1 DEF Does
<1>2. DOMAIN work' = Commands /\ now \in Nat /\ now' \in now .. 2 * LastDay /\ blamed \subseteq blamed' /\ blamed' \subseteq Stocks
  BY DaysAssumption DEF Candles, SyncType, ClockType, Does
<1>3. sync' \in [Commands -> SyncRow]
  BY DEF Candles, SyncType
<1>. QED
  BY <1>1, <1>2, <1>3, SettledCandles

\* The newest candle is a candle, and no candle is newer.
LEMMA LatestIs ==
  ASSUME CandleType, NEW s \in Stocks, Table[s] # {}
  PROVE  LatestCandle \in Days /\ \E t \in Stocks : LatestCandle \in Table[t]
<1>. DEFINE all == UNION {Stored(t) : t \in Stocks}
<1>1. all \in SUBSET (0 .. LastDay) /\ all # {} /\ LastDay \in Nat
  <2>1. \A d \in Days : d \in 0 .. LastDay
    BY DaysTyped, DaysAssumption
  <2>. QED
    BY <2>1, DaysAssumption DEF Stored, Table
<1>2. LatestCandle = Max(all)
  BY DEF LatestCandle
<1>3. \A d \in all : d \in Days /\ \E t \in Stocks : d \in Table[t]
  BY DEF Stored, Table
<1>. HIDE DEF all
<1>. QED
  BY <1>1, <1>2, <1>3, MaxOf

\* Another synchronisation under way, or no session before the newest candle that a
\* stock without blame lacks.
LEMMA SyncCandles ==
  ASSUME Candles, NEW p \in Commands, Rests(p), NEW mode \in {"incremental", "missing"}, NEW start \in Days,
         Sync(p, mode, start), start = LatestCandle \/ start = 1
  PROVE  Candles'
<1>. DEFINE e == Loaded(mode, start)
<1>1. /\ sync' = [sync EXCEPT ![p] = e] /\ work' = [work EXCEPT ![p] = "sync"] /\ UNCHANGED <<now, candle>>
      /\ blamed' = blamed \cup (IF \E q \in Commands \ {p} : ~Rests(q) THEN Overlooked(start) ELSE {})
  BY DEF Sync, Goes, Does, Blame
<1>2. blamed \subseteq blamed' /\ blamed' \in SUBSET Stocks
  BY <1>1 DEF Candles, SyncType, Overlooked
<1>3. ASSUME NEW s \in Stocks \ blamed', NEW d \in Trades[s], d < start
      PROVE  d \in Stored(s)
  <2>1. d \in Nat /\ d >= 1 /\ start \in Nat
    BY TradesTyped, DaysTyped
  <2>2. CASE start = 1
    BY <1>3, <2>1, <2>2
  <2>3. CASE \E q \in Commands \ {p} : ~Rests(q)
    BY <1>1, <1>3, <2>3 DEF Overlooked
  <2>4. CASE start = LatestCandle /\ \A q \in Commands \ {p} : Rests(q)
    <3>1. PICK t \in Stocks : start \in Table[t]
      BY <2>4, LatestIs DEF Candles, SyncType
    <3>2. d <= start /\ s \in Stocks \ blamed
      BY <1>2, <1>3, <2>1
    <3>3. \A q \in Commands : Rests(q)
      BY <2>4
    <3>4. d \in Table[s]
      BY <3>1, <3>2, <3>3 DEF Candles, Responsible
    <3>. QED
      BY <3>4 DEF Table
  <2>. QED
    BY <2>2, <2>3, <2>4
<1>4. e \in SyncRow /\ Standing(e, Table, blamed', Day)
  BY <1>2, <1>3, LoadedStands DEF Candles, SyncType
<1>. HIDE DEF e
<1>5. Day' = Day /\ now \in Nat /\ now' \in now .. 2 * LastDay
  BY <1>1, DaysAssumption DEF Candles, SyncType, ClockType, Day
<1>6. sync' \in [Commands -> SyncRow] /\ DOMAIN work' = Commands
  BY <1>1, <1>4 DEF Candles, SyncType
<1>7. \A q \in Commands : \/ sync'[q] = sync[q]
                          \/ Standing(sync'[q], Table, blamed', Day') /\ (Rests(q) \/ blamed' = Stocks)
  BY <1>1, <1>4, <1>5 DEF Candles, SyncType
<1>8. \A q \in Commands : ~Rests(q)' => work'[q] = "sync"
  <2>. SUFFICES ASSUME NEW q \in Commands, q # p, ~Rests(q)' PROVE work'[q] = "sync"
    BY <1>1 DEF Candles
  <2>1. ~Rests(q)
    BY <1>1 DEF Rests, Candles, SyncType
  <2>. QED
    BY <1>1, <2>1 DEF Candles, SyncsWork
<1>. QED
  BY <1>1, <1>2, <1>5, <1>6, <1>7, <1>8, SettledCandles

\* A killed synchronisation takes its queue with it: every stock is blamed.
LEMMA RestartCandles == ASSUME Candles, Restart PROVE Candles'
<1>1. /\ sync' = [sync EXCEPT ![Night] = NoSync] /\ work' = [work EXCEPT ![Night] = "none"] /\ UNCHANGED <<now, candle>>
      /\ blamed' = IF work[Night] = "sync" THEN Stocks ELSE blamed
  BY DEF Restart, Ends, Does
<1>2. /\ Night \in Commands /\ sync \in [Commands -> SyncRow] /\ DOMAIN work = Commands /\ blamed \subseteq Stocks
      /\ now \in Nat /\ now' \in now .. 2 * LastDay /\ Day' = Day /\ Day \in Nat /\ Day >= 1
  BY <1>1, CommandsAssumption, DaysAssumption, DayOf, DaysTyped DEF Candles, SyncType, ClockType, Day
<1>3. NoSync \in SyncRow /\ Standing(NoSync, Table, blamed', Day)
  BY <1>2, NoSyncStands
<1>4. Rests(Night) \/ blamed' = Stocks
  BY <1>1, <1>2 DEF Candles, SyncsWork
<1>5. \A q \in Commands : \/ sync'[q] = sync[q]
                          \/ Standing(sync'[q], Table, blamed', Day') /\ (Rests(q) \/ blamed' = Stocks)
  BY <1>1, <1>2, <1>3, <1>4
<1>6. \A q \in Commands : ~Rests(q)' => work'[q] = "sync"
  <2>1. NoSync.pc = "idle"
    BY DEF NoSync
  <2>. QED
    BY <1>1, <1>2, <2>1 DEF Candles, SyncsWork, Rests
<1>7. blamed \subseteq blamed' /\ blamed' \subseteq Stocks /\ sync' \in [Commands -> SyncRow] /\ DOMAIN work' = Commands
  BY <1>1, <1>2, <1>3
<1>. QED
  BY <1>1, <1>2, <1>5, <1>6, <1>7, SettledCandles

\* Time, a reading backfill and the steps of the other programs.
LEMMA QuietCandles ==
  ASSUME Candles, now' \in now .. 2 * LastDay, UNCHANGED <<candle, sync, work>>, blamed \subseteq blamed', blamed' \subseteq Stocks
  PROVE  Candles'
<1>1. /\ \A q \in Commands : sync'[q] = sync[q] /\ (~Rests(q)' => work'[q] = "sync")
      /\ sync' \in [Commands -> SyncRow] /\ DOMAIN work' = Commands
  BY DEF Candles, SyncsWork, Rests, SyncType
<1>. QED
  BY <1>1, SettledCandles

\* Every step keeps the candles.
LEMMA NextCandles == Candles /\ RowsType /\ [Next]_vars => Candles'
<1>. SUFFICES ASSUME Candles, RowsType, [Next]_vars PROVE Candles'
  OBVIOUS
<1>1. now \in Nat /\ 2 * LastDay \in Nat /\ now <= 2 * LastDay /\ 1 \in Days /\ blamed \subseteq Stocks
  BY DaysAssumption DEF Candles, SyncType, ClockType, Days
<1>2. CASE Tick
  <2>1. now' \in now .. 2 * LastDay /\ UNCHANGED <<candle, sync, work, blamed>>
    BY <1>1, <1>2 DEF Tick
  <2>. QED
    BY <1>1, <2>1, QuietCandles
<1>3. ASSUME NEW p \in Commands, Idle(p) PROVE Rests(p)
  BY <1>3 DEF Idle, Candles, SyncsWork
<1>4. LatestCandle \in Days
  BY LatestIs DEF Candles, SyncType
<1>5. CASE Wake
  <2>1. Sync(Night, "incremental", LatestCandle) /\ Night \in Commands /\ Idle(Night)
    BY <1>5, CommandsAssumption DEF Wake, Due
  <2>. QED
    BY <1>3, <1>4, <2>1, SyncCandles
<1>6. CASE HandStarts
  <2>1. Idle(Hand) /\ Hand \in Commands /\ work[Hand] # "sync"
    BY <1>6, CommandsAssumption DEF HandStarts, Idle
  <2>2. CASE Sync(Hand, "incremental", LatestCandle) \/ Sync(Hand, "missing", 1)
    BY <1>1, <1>3, <1>4, <2>1, <2>2, SyncCandles
  <2>3. CASE Backfill(Hand) \/ Daily(Hand)
    <3>1. PICK what : Does(Hand, what)
      BY <2>3 DEF Backfill, Daily
    <3>2. UNCHANGED <<now, candle, sync, blamed>>
      BY <2>3 DEF Backfill, Daily
    <3>. QED
      BY <2>1, <3>1, <3>2, OtherCandles
  <2>. QED
    BY <1>6, <2>2, <2>3 DEF HandStarts
<1>7. CASE Restart
  BY <1>7, RestartCandles
<1>8. ASSUME NEW p \in Commands, Steps(p) PROVE Candles'
  <2>1. CASE SyncStep(p) /\ UNCHANGED <<rows, fill, newsVars, chainVars, work, hands>>
    BY <2>1, StepCandles
  <2>2. CASE FillStep(p) /\ UNCHANGED <<newsVars, chainVars, work, hands>>
    <3>1. UNCHANGED <<now, candle, sync, work>> /\ now' \in now .. 2 * LastDay
      BY <1>1, <2>2 DEF FillStep
    <3>2. blamed \subseteq blamed' /\ blamed' \subseteq Stocks
      <4>1. fill[p].todo # {} => Newest(fill[p].todo)[2] \in Stocks
        BY FillIs, NewestIs, IdsTyped
      <4>2. \/ UNCHANGED blamed
            \/ fill[p].todo # {} /\ \E set \in SUBSET {Newest(fill[p].todo)[2]} : Blame(set)
        BY <2>2 DEF FillStep, ReadBase, ReadFuture
      <4>. QED
        BY <1>1, <4>1, <4>2 DEF Blame
    <3>. QED
      BY <3>1, <3>2, QuietCandles
  <2>3. CASE IntakeStep(p) /\ UNCHANGED <<chainVars, work, hands>>
    <3>1. now' \in now .. 2 * LastDay /\ UNCHANGED <<candle, sync, work, blamed>>
      BY <1>1, <2>3 DEF IntakeStep
    <3>. QED
      BY <1>1, <3>1, QuietCandles
  <2>4. CASE SyncExits(p) \/ FillExits(p) \/ NewsEnds(p) \/ Recommend(p)
    <3>1. work[p] # "sync" \/ Rests(p)
      BY <2>4 DEF SyncExits, FillExits, NewsEnds, Recommend
    <3>2. \E what : Does(p, what)
      BY <2>4 DEF SyncExits, FillExits, NewsEnds, Recommend, ChainEnds, Ends, Backfill, Daily
    <3>3. UNCHANGED <<now, candle, sync, blamed>>
      BY <2>4 DEF SyncExits, FillExits, NewsEnds, Recommend, Backfill, Daily, dataVars
    <3>. QED
      BY <3>1, <3>2, <3>3, OtherCandles
  <2>. QED
    BY <1>8, <2>1, <2>2, <2>3, <2>4 DEF Steps
<1>9. CASE UNCHANGED vars
  <2>1. now' \in now .. 2 * LastDay /\ UNCHANGED <<candle, sync, work, blamed>>
    BY <1>1, <1>9 DEF vars
  <2>. QED
    BY <1>1, <2>1, QuietCandles
<1>. QED
  BY <1>2, <1>5, <1>6, <1>7, <1>8, <1>9 DEF Next

-----------------------------------------------------------------------------
\* A synchronisation that ends with exit code 0 and whose calendar came from AKTools
\* has left no session of its range open, for every stock that traded and that it
\* does not report as failed, unless a write failed: main and syncOneStock of
\* sync-stock-history.ts, whatever another synchronisation does at the same time.
THEOREM CleanSyncCompletes == Spec => []CleanSyncIsComplete
<1>1. Init => News /\ RowsType /\ Candles
  BY InitNews, InitRows, InitCandles
<1>2. News /\ RowsType /\ Candles /\ [Next]_vars => News' /\ RowsType' /\ Candles'
  BY NextNews, NextRows, NextCandles DEF Candles
<1>3. Candles => CleanSyncIsComplete
  <2>. SUFFICES ASSUME Candles, NEW p \in Commands, At(p, "done"), sync[p].calendar = "aktools",
                       NEW s \in Stocks \ sync[p].failed, NEW d \in sync[p].days \cap Trades[s]
                PROVE  candle[s][d] # 0 \/ <<s, d>> \in sync[p].lost
    BY DEF CleanSyncIsComplete
  <2>1. sync[p] \in SyncRow /\ Standing(sync[p], Table, blamed, Day) /\ sync[p].pc = "done"
    BY DEF Candles, SyncType, Progress, At
  <2>2. sync[p].stage # "none" /\ sync[p].calendar # "sina"
    BY <2>1 DEF Standing, Ordered
  <2>3. d \in sync[p].start .. sync[p].end
    BY <2>1 DEF Standing, Dated
  <2>4. d \in Table[s] \/ <<s, d>> \in sync[p].lost
    BY <2>1, <2>2, <2>3, EndCovers
  <2>. QED
    BY <2>4 DEF Table, Stored
<1>. QED
  BY <1>1, <1>2, <1>3, PTL DEF Spec

-----------------------------------------------------------------------------
(* The greatest horizon, and the first days of a set *)

\* A finite set of natural numbers has a bound.
LEMMA FiniteBound ==
  ASSUME NEW S \in SUBSET Nat, IsFiniteSet(S)
  PROVE  \E m \in Nat : \A k \in S : k <= m
<1>. DEFINE open == {T \in SUBSET S : ~\E m \in Nat : \A k \in T : k <= m}
<1>. DEFINE sizes == {Cardinality(T) : T \in open}
<1>1. \A T \in SUBSET S : IsFiniteSet(T) /\ Cardinality(T) \in Nat
  BY FS_Subset, FS_CardinalityType
<1>2. sizes \in SUBSET Nat
  BY <1>1
<1>. SUFFICES ASSUME S \in open PROVE FALSE
  OBVIOUS
<1>3. sizes # {}
  OBVIOUS
<1>4. PICK n \in sizes : \A k \in sizes : n <= k
  <2>. HIDE DEF sizes
  <2>. QED
    BY <1>2, <1>3, LeastNumber
<1>5. PICK T \in open : n = Cardinality(T)
  BY <1>4
<1>6. PICK x \in T : TRUE
  <2>1. T # {}
    <3>1. \A k \in {} : k <= 0
      OBVIOUS
    <3>2. 0 \in Nat
      OBVIOUS
    <3>. QED
      BY <3>1, <3>2
  <2>. QED
    BY <2>1
<1>7. Cardinality(T \ {x}) < n
  <2>1. Cardinality(T \ {x}) = Cardinality(T) - 1 /\ Cardinality(T) \in Nat
    BY <1>1, <1>6, FS_RemoveElement
  <2>. QED
    BY <1>5, <2>1
<1>8. T \ {x} \notin open
  <2>1. T \ {x} \in open => Cardinality(T \ {x}) \in sizes
    OBVIOUS
  <2>2. Cardinality(T \ {x}) \in Nat /\ n \in Nat
    BY <1>1, <1>2
  <2>. QED
    BY <1>4, <1>7, <2>1, <2>2
<1>9. PICK m \in Nat : \A k \in T \ {x} : k <= m
  BY <1>8
<1>10. \E b \in Nat : \A k \in T : k <= b
  <2>1. x \in Nat
    OBVIOUS
  <2>2. CASE x <= m
    BY <1>9, <2>2
  <2>3. CASE m < x
    <3>1. \A k \in T : k <= x
      BY <1>9, <2>1, <2>3
    <3>. QED
      BY <2>1, <3>1
  <2>. QED
    BY <2>1, <2>2, <2>3
<1>. QED
  BY <1>10

\* The last horizon is the greatest.
LEMMA LastIs == Last \in Horizons /\ Last \in Nat /\ \A h \in Horizons : h \in Nat /\ h >= 1 /\ h <= Last
<1>1. Horizons \in SUBSET Nat /\ Horizons # {} /\ \A h \in Horizons : h >= 1
  BY HorizonsAssumption
<1>2. PICK m \in Nat : \A k \in Horizons : k <= m
  BY <1>1, HorizonsAssumption, FiniteBound
<1>3. Horizons \in SUBSET (0 .. m)
  BY <1>1, <1>2
<1>4. Last \in Horizons /\ \A k \in Horizons : Last >= k
  BY <1>1, <1>3, MaxOf DEF Last
<1>. QED
  BY <1>1, <1>4

\* What comes before one of the least is one of the least.
LEMMA LeastClosed ==
  ASSUME NEW S \in SUBSET Nat, IsFiniteSet(S), NEW n \in Nat, NEW e \in Least(n, S), NEW d \in S, d < e
  PROVE  d \in Least(n, S)
<1>1. e \in S /\ Cardinality({t \in S : t < e}) < n
  BY DEF Least
<1>2. {t \in S : t < d} \subseteq {t \in S : t < e}
  <2>1. \A t \in S : t \in Nat
    OBVIOUS
  <2>2. d \in Nat /\ e \in Nat
    BY <1>1
  <2>3. \A t \in S : t < d => t < e
    BY <2>1, <2>2
  <2>. QED
    BY <2>3
<1>3. IsFiniteSet({t \in S : t < e}) /\ IsFiniteSet({t \in S : t < d})
  BY FS_Subset
<1>4. /\ Cardinality({t \in S : t < d}) <= Cardinality({t \in S : t < e})
      /\ Cardinality({t \in S : t < d}) \in Nat /\ Cardinality({t \in S : t < e}) \in Nat
  BY <1>2, <1>3, FS_Subset, FS_CardinalityType
<1>. QED
  BY <1>1, <1>4 DEF Least

\* The least of a first part that has so many are the least of the whole.
LEMMA LeastOfFirst ==
  ASSUME NEW L \in SUBSET Nat, IsFiniteSet(L), NEW F \in SUBSET L, \A e \in F : \A d \in L : d < e => d \in F,
         NEW n \in Nat, n <= Cardinality(F)
  PROVE  Least(n, F) = Least(n, L)
<1>1. ASSUME NEW d \in F PROVE {t \in F : t < d} = {t \in L : t < d}
  OBVIOUS
<1>2. \A d \in F : d \in Least(n, F) <=> d \in Least(n, L)
  <2>. SUFFICES ASSUME NEW d \in F PROVE d \in Least(n, F) <=> d \in Least(n, L)
    OBVIOUS
  <2>1. d \in L /\ Cardinality({t \in F : t < d}) = Cardinality({t \in L : t < d})
    BY <1>1
  <2>. QED
    BY <2>1 DEF Least
<1>3. ASSUME NEW d \in L, d \notin F PROVE d \notin Least(n, L)
  <2>1. \A e \in F : e < d
    BY <1>3
  <2>2. F \subseteq {t \in L : t < d} /\ IsFiniteSet({t \in L : t < d})
    BY <2>1, FS_Subset
  <2>3. /\ Cardinality(F) <= Cardinality({t \in L : t < d})
        /\ Cardinality(F) \in Nat /\ Cardinality({t \in L : t < d}) \in Nat
    BY <2>2, FS_Subset, FS_CardinalityType
  <2>. QED
    BY <2>3 DEF Least
<1>4. Least(n, F) \subseteq F /\ Least(n, L) \subseteq L
  BY DEF Least
<1>. QED
  BY <1>2, <1>3, <1>4

-----------------------------------------------------------------------------
(* The invariant of the yields *)

\* The sessions of the stock of a row after its day, and up to it.
Later(id) == {d \in Trades[id[2]] : d > id[1]}
Earlier(id) == {d \in Trades[id[2]] : d <= id[1]}

\* What has been read of the row in work is right, if its stock is without blame.
Sighted(f, id, table) ==
  /\ "future" \in f.read => /\ f.future \subseteq table[id[2]] /\ f.future \subseteq Later(id)
                            /\ \A e \in f.future : \A d \in Later(id) : d < e => d \in f.future
  /\ f.read = {"base", "future"} /\ f.future # {} => f.base = Earlier(id)
Reading(f, table, guilty) ==
  f.pc = "rows" /\ f.todo # {} /\ Newest(f.todo)[2] \notin guilty => Sighted(f, Newest(f.todo), table)

RightRow(id, row) ==
  row.exit[Last] # 0 => row.base = Max(Earlier(id)) /\ \A h \in Horizons : row.exit[h] = Sold(id[2], id[1], h)

Yields ==
  /\ \A id \in DOMAIN rows : id[2] \notin blamed => RightRow(id, rows[id])
  /\ \A p \in Commands : Reading(fill[p], Table, blamed)

\* A stock has finitely many sessions.
LEMMA SessionsFinite == \A s \in Stocks : Trades[s] \in SUBSET Nat /\ IsFiniteSet(Trades[s])
<1>1. IsFiniteSet(1 .. LastDay)
  BY DaysAssumption, FS_Interval
<1>. SUFFICES ASSUME NEW s \in Stocks PROVE Trades[s] \in SUBSET Nat /\ IsFiniteSet(Trades[s])
  OBVIOUS
<1>2. Trades[s] \subseteq 1 .. LastDay
  BY TradesTyped DEF Days
<1>3. Trades[s] \in SUBSET (1 .. LastDay) /\ Trades[s] \subseteq Nat
  BY <1>2
<1>4. IsFiniteSet(Trades[s])
  BY <1>1, <1>3, FS_Subset
<1>. QED
  BY <1>3, <1>4

\* The candles of a stock without blame, divided at the day of a row.
LEMMA Divided ==
  ASSUME Whole(Table, blamed), NEW id \in Ids, id[2] \notin blamed
  PROVE  /\ After(id) \subseteq Later(id) /\ UpTo(id) \subseteq Earlier(id)
         /\ \A e \in After(id) : \A d \in Later(id) : d < e => d \in After(id)
         /\ \A e \in Table[id[2]] : e > id[1] => UpTo(id) = Earlier(id)
<1>1. id[1] \in Nat /\ id[2] \in Stocks \ blamed /\ Stored(id[2]) = Table[id[2]]
  BY IdsTyped DEF Table
<1>2. \A e \in Table[id[2]] : e \in Trades[id[2]] /\ \A d \in Trades[id[2]] : d < e => d \in Table[id[2]]
  BY <1>1 DEF Whole
<1>3. \A d \in Trades[id[2]] : d \in Nat
  BY <1>1, TradesTyped
<1>4. After(id) \subseteq Later(id) /\ UpTo(id) \subseteq Earlier(id)
  BY <1>1, <1>2 DEF After, UpTo, Later, Earlier
<1>5. \A e \in After(id) : \A d \in Later(id) : d < e => d \in After(id)
  BY <1>1, <1>2 DEF After, Later
<1>6. ASSUME NEW e \in Table[id[2]], e > id[1] PROVE Earlier(id) \subseteq UpTo(id)
  <2>. SUFFICES ASSUME NEW d \in Trades[id[2]], d <= id[1] PROVE d \in Table[id[2]]
    BY <1>1 DEF Earlier, UpTo
  <2>1. d < e
    BY <1>1, <1>2, <1>3, <1>6
  <2>. QED
    BY <1>2, <2>1
<1>. QED
  BY <1>4, <1>5, <1>6

\* A row without yields is not wrong.
LEMMA NewRowRight == \A id : RightRow(id, NewRow)
BY LastIs DEF RightRow, NewRow

\* At the start no row has a yield.
LEMMA InitYields == Init => Yields
<1>1. NoFill.pc = "idle"
  BY DEF NoFill
<1>. QED
  BY <1>1, NewRowRight DEF Init, Yields, Reading

\* What has been read stays right where candles are added and more is blamed.
LEMMA ReadingRaised ==
  ASSUME NEW f, f.todo \in SUBSET Ids, NEW table, NEW guilty, Reading(f, table, guilty),
         NEW after, \A s \in Stocks : table[s] \subseteq after[s], NEW more, guilty \subseteq more
  PROVE  Reading(f, after, more)
<1>. SUFFICES ASSUME f.pc = "rows", f.todo # {}, Newest(f.todo)[2] \notin more PROVE Sighted(f, Newest(f.todo), after)
  BY DEF Reading
<1>1. Sighted(f, Newest(f.todo), table) /\ Newest(f.todo)[2] \in Stocks
  BY NewestIs, IdsTyped DEF Reading
<1>. QED
  BY <1>1 DEF Sighted

\* Where the rows and the backfills stay, candles may be added.
LEMMA QuietYields ==
  ASSUME Yields, RowsType, UNCHANGED <<rows, fill>>, blamed \subseteq blamed', \A s \in Stocks : Table[s] \subseteq Table'[s]
  PROVE  Yields'
<1>1. \A p \in Commands : Reading(fill[p], Table', blamed')
  <2>. SUFFICES ASSUME NEW p \in Commands PROVE Reading(fill[p], Table', blamed')
    OBVIOUS
  <2>1. Reading(fill[p], Table, blamed) /\ fill[p].todo \in SUBSET Ids
    BY FillIs DEF Yields
  <2>. QED
    BY <2>1, ReadingRaised
<1>. QED
  BY <1>1 DEF Yields

\* A backfill goes on: the rows and the other backfills are as right as they were.
LEMMA GoesOnYields ==
  ASSUME Yields, RowsType, UNCHANGED candle, blamed \subseteq blamed',
         NEW p \in Commands, NEW f, fill' = [fill EXCEPT ![p] = f], Reading(f, Table, blamed'),
         \A id \in DOMAIN rows' : id[2] \notin blamed' =>
            \/ id \in DOMAIN rows /\ rows'[id] = rows[id]
            \/ RightRow(id, rows'[id])
  PROVE  Yields'
<1>1. Table' = Table
  BY DEF Table, Stored
<1>2. ASSUME NEW q \in Commands PROVE Reading(fill'[q], Table', blamed')
  <2>1. CASE q = p
    BY <1>1, <2>1 DEF RowsType
  <2>2. CASE q # p
    <3>1. fill'[q] = fill[q] /\ Reading(fill[q], Table, blamed) /\ fill[q].todo \in SUBSET Ids
      BY <2>2, FillIs DEF Yields, RowsType
    <3>2. Reading(fill[q], Table, blamed')
      BY <3>1, ReadingRaised
    <3>. QED
      BY <1>1, <3>1, <3>2
  <2>. QED
    BY <2>1, <2>2
<1>3. \A id \in DOMAIN rows' : id[2] \notin blamed' => RightRow(id, rows'[id])
  BY DEF Yields
<1>. QED
  BY <1>2, <1>3 DEF Yields

\* The read of the candles up to the day of a row.
LEMMA ReadBaseYields ==
  ASSUME Yields, RowsType, Whole(Table, blamed), UNCHANGED candle, NEW p \in Commands, ReadBase(p)
  PROVE  Yields'
<1>. DEFINE id == Newest(fill[p].todo)
<1>. DEFINE f == [fill[p] EXCEPT !.read = @ \cup {"base"}, !.base = UpTo(id)]
<1>1. /\ fill[p].pc = "rows" /\ fill[p].todo # {} /\ fill' = [fill EXCEPT ![p] = f] /\ UNCHANGED <<rows, blamed>>
  BY DEF ReadBase, Fills, RowsType
<1>2. fill[p] \in FillRow /\ id \in Ids /\ Reading(fill[p], Table, blamed) /\ id[2] \in Stocks
  BY <1>1, FillIs, NewestIs, IdsTyped DEF Yields
<1>3. f.todo = fill[p].todo /\ f.read = fill[p].read \cup {"base"} /\ f.base = UpTo(id) /\ f.future = fill[p].future
  BY <1>2 DEF FillRow
<1>4. ASSUME id[2] \notin blamed PROVE Sighted(f, id, Table)
  <2>1. Sighted(fill[p], id, Table)
    BY <1>1, <1>2, <1>4 DEF Reading
  <2>2. "future" \in f.read <=> "future" \in fill[p].read
    BY <1>3
  <2>3. ASSUME "future" \in f.read, f.future # {} PROVE f.base = Earlier(id)
    <3>1. PICK e \in fill[p].future : e \in Table[id[2]] /\ e \in Later(id)
      BY <1>3, <2>1, <2>2, <2>3 DEF Sighted
    <3>2. e > id[1]
      BY <3>1 DEF Later
    <3>. QED
      BY <1>2, <1>3, <1>4, <3>1, <3>2, Divided
  <2>. QED
    BY <1>3, <2>1, <2>2, <2>3 DEF Sighted
<1>5. Reading(f, Table, blamed')
  BY <1>1, <1>3, <1>4 DEF Reading
<1>. HIDE DEF f
<1>. QED
  BY <1>1, <1>5, GoesOnYields

\* The read of the candles after it.
LEMMA ReadFutureYields ==
  ASSUME Yields, RowsType, Whole(Table, blamed), UNCHANGED candle, NEW p \in Commands, ReadFuture(p)
  PROVE  Yields'
<1>. DEFINE id == Newest(fill[p].todo)
<1>. DEFINE future == Least(Last, After(id))
<1>. DEFINE f == [fill[p] EXCEPT !.read = @ \cup {"future"}, !.future = future]
<1>1. /\ fill[p].pc = "rows" /\ fill[p].todo # {} /\ fill' = [fill EXCEPT ![p] = f] /\ UNCHANGED rows
      /\ blamed' = blamed \cup (IF "base" \in fill[p].read /\ fill[p].base # UpTo(id) THEN {id[2]} ELSE {})
  BY DEF ReadFuture, Fills, RowsType, Blame
<1>2. fill[p] \in FillRow /\ id \in Ids /\ Reading(fill[p], Table, blamed) /\ id[2] \in Stocks /\ id[1] \in Nat
  BY <1>1, FillIs, NewestIs, IdsTyped DEF Yields
<1>3. f.todo = fill[p].todo /\ f.read = fill[p].read \cup {"future"} /\ f.base = fill[p].base /\ f.future = future
  BY <1>2 DEF FillRow
<1>4. ASSUME id[2] \notin blamed' PROVE Sighted(f, id, Table)
  <2>1. id[2] \notin blamed
    BY <1>1, <1>4
  <2>2. /\ After(id) \subseteq Later(id)
        /\ \A e \in After(id) : \A d \in Later(id) : d < e => d \in After(id)
        /\ \A e \in Table[id[2]] : e > id[1] => UpTo(id) = Earlier(id)
    BY <1>2, <2>1, Divided
  <2>3. After(id) = {d \in Table[id[2]] : d > id[1]} /\ future \subseteq After(id)
    BY <1>2 DEF After, Table, Least
  <2>4. ASSUME NEW e \in future, NEW d \in Later(id), d < e PROVE d \in future
    <3>1. After(id) \in SUBSET Nat /\ IsFiniteSet(After(id))
      <4>1. After(id) \subseteq Trades[id[2]]
        BY <2>2 DEF Later
      <4>. QED
        BY <1>2, <4>1, SessionsFinite, FS_Subset
    <3>2. d \in After(id)
      BY <2>2, <2>3, <2>4
    <3>. QED
      BY <2>4, <3>1, <3>2, LastIs, LeastClosed
  <2>5. ASSUME "base" \in fill[p].read, future # {} PROVE f.base = Earlier(id)
    <3>1. fill[p].base = UpTo(id)
      BY <1>1, <1>4, <2>5
    <3>. QED
      BY <1>3, <2>2, <2>3, <2>5, <3>1
  <2>. HIDE DEF future
  <2>6. future \subseteq Table[id[2]] /\ future \subseteq Later(id)
    BY <2>2, <2>3
  <2>7. f.read = {"base", "future"} => "base" \in fill[p].read
    BY <1>3
  <2>. QED
    BY <1>3, <2>4, <2>5, <2>6, <2>7 DEF Sighted
<1>5. Reading(f, Table, blamed')
  BY <1>1, <1>3, <1>4 DEF Reading
<1>. HIDE DEF f
<1>. QED
  BY <1>1, <1>5, GoesOnYields

\* A row that is written from what was read is right.
LEMMA UpdatedRight ==
  ASSUME NEW id \in Ids, NEW base, NEW future, future # {}, base = Earlier(id), future \subseteq Later(id),
         \A e \in future : \A d \in Later(id) : d < e => d \in future, NEW reconciled
  PROVE  RightRow(id, [base |-> Max(base), exit |-> Exits(future), reconciled |-> reconciled])
<1>. DEFINE row == [base |-> Max(base), exit |-> Exits(future), reconciled |-> reconciled]
<1>. SUFFICES ASSUME row.exit[Last] # 0
              PROVE  row.base = Max(Earlier(id)) /\ \A h \in Horizons : row.exit[h] = Sold(id[2], id[1], h)
  BY DEF RightRow
<1>1. Later(id) \in SUBSET Nat /\ IsFiniteSet(Later(id)) /\ IsFiniteSet(future) /\ Cardinality(future) \in Nat
  <2>1. Later(id) \subseteq Trades[id[2]] /\ id[2] \in Stocks
    BY IdsTyped DEF Later
  <2>. QED
    BY <2>1, SessionsFinite, FS_Subset, FS_CardinalityType
<1>2. \A h \in Horizons : row.exit[h] = IF Cardinality(future) < h THEN 0 ELSE Max(Least(h, future))
  BY DEF Exits
<1>3. Cardinality(future) >= Last
  BY <1>1, <1>2, LastIs
<1>4. ASSUME NEW h \in Horizons PROVE row.exit[h] = Sold(id[2], id[1], h)
  <2>1. h \in Nat /\ h <= Cardinality(future)
    BY <1>1, <1>3, LastIs
  <2>2. Least(h, future) = Least(h, Later(id))
    BY <1>1, <2>1, LeastOfFirst
  <2>3. row.exit[h] = Max(Least(h, future))
    BY <1>1, <1>2, <2>1
  <2>. QED
    BY <2>2, <2>3 DEF Sold, Later
<1>. QED
  BY <1>4

\* The update of a row.
LEMMA UpdateYields ==
  ASSUME Yields, RowsType, UNCHANGED <<candle, blamed>>, NEW p \in Commands, Update(p)
  PROVE  Yields'
<1>. DEFINE id == Newest(fill[p].todo)
<1>. DEFINE f == [fill[p] EXCEPT !.todo = @ \ {id}, !.read = {}, !.base = {}, !.future = {}]
<1>1. /\ fill[p].pc = "rows" /\ fill[p].todo # {} /\ fill[p].read = {"base", "future"} /\ fill' = [fill EXCEPT ![p] = f]
      /\ rows' = [rows EXCEPT ![id] = Updated(fill[p], id)]
  BY DEF Update, Fills, RowsType
<1>2. fill[p] \in FillRow /\ id \in Ids /\ Reading(fill[p], Table, blamed)
  BY <1>1, FillIs, NewestIs DEF Yields
<1>3. f.read = {}
  BY <1>2 DEF FillRow
<1>4. Reading(f, Table, blamed')
  BY <1>3 DEF Reading, Sighted
<1>5. ASSUME NEW other \in DOMAIN rows', other[2] \notin blamed'
      PROVE  \/ other \in DOMAIN rows /\ rows'[other] = rows[other]
             \/ RightRow(other, rows'[other])
  <2>1. other \in DOMAIN rows /\ (other # id => rows'[other] = rows[other])
    BY <1>1
  <2>2. ASSUME other = id, fill[p].base # {}, fill[p].future # {} PROVE RightRow(other, rows'[other])
    <3>1. Sighted(fill[p], id, Table)
      BY <1>1, <1>2, <1>5, <2>2 DEF Reading
    <3>2. rows'[other] = [base |-> Max(fill[p].base), exit |-> Exits(fill[p].future),
                          reconciled |-> Reconciled(Exits(fill[p].future), fill[p].clock)]
      BY <1>1, <2>1, <2>2 DEF Updated
    <3>3. /\ fill[p].base = Earlier(id) /\ fill[p].future \subseteq Later(id)
          /\ \A e \in fill[p].future : \A d \in Later(id) : d < e => d \in fill[p].future
      BY <1>1, <2>2, <3>1 DEF Sighted
    <3>. QED
      BY <1>2, <2>2, <3>2, <3>3, UpdatedRight
  <2>3. ASSUME other = id, fill[p].base = {} \/ fill[p].future = {} PROVE rows'[other] = rows[other]
    BY <1>1, <2>1, <2>3 DEF Updated
  <2>. QED
    BY <2>1, <2>2, <2>3
<1>. HIDE DEF f
<1>. QED
  BY <1>1, <1>4, <1>5, GoesOnYields

\* A backfill begins, ends, breaks, or is killed.
LEMMA OpensYields ==
  ASSUME Yields, RowsType, UNCHANGED <<rows, candle>>, blamed \subseteq blamed', NEW p \in Commands, NEW f, fill' = [fill EXCEPT ![p] = f],
         f.pc # "rows" \/ f.read = {}
  PROVE  Yields'
<1>1. Reading(f, Table, blamed')
  BY DEF Reading, Sighted
<1>. QED
  BY <1>1, GoesOnYields

\* Every step of a backfill keeps the yields.
LEMMA FillYields ==
  ASSUME Yields, RowsType, Candles, NEW p \in Commands, FillStep(p)
  PROVE  Yields'
<1>1. UNCHANGED candle /\ Whole(Table, blamed)
  BY DEF FillStep, Candles
<1>2. CASE ReadBase(p)
  BY <1>1, <1>2, ReadBaseYields
<1>3. CASE ReadFuture(p)
  BY <1>1, <1>3, ReadFutureYields
<1>4. CASE Update(p) /\ UNCHANGED <<faults, blamed>>
  BY <1>1, <1>4, UpdateYields
<1>5. CASE (Finish(p) \/ Break(p)) /\ UNCHANGED blamed
  <2>1. PICK pc \in {"done", "failed"} : fill' = [fill EXCEPT ![p].pc = pc]
    BY <1>5 DEF Finish, Break
  <2>2. fill[p] \in FillRow
    BY FillIs
  <2>. DEFINE f == [fill[p] EXCEPT !.pc = pc]
  <2>3. fill' = [fill EXCEPT ![p] = f] /\ f.pc # "rows"
    BY <2>1, <2>2 DEF FillRow
  <2>4. UNCHANGED rows /\ blamed \subseteq blamed'
    BY <1>5 DEF Finish, Break
  <2>. HIDE DEF f
  <2>. QED
    BY <1>1, <2>3, <2>4, OpensYields
<1>. QED
  BY <1>2, <1>3, <1>4, <1>5 DEF FillStep

\* New rows have nothing that could be wrong.
LEMMA RecommendYields ==
  ASSUME Yields, RowsType, NEW p \in Commands, Recommend(p)
  PROVE  Yields'
<1>1. UNCHANGED <<candle, blamed, fill>>
  BY DEF Recommend
<1>2. Table' = Table
  BY <1>1 DEF Table, Stored
<1>3. \A id \in DOMAIN rows' : (id \in DOMAIN rows /\ rows'[id] = rows[id]) \/ rows'[id] = NewRow
  BY DEF Recommend
<1>4. \A id \in DOMAIN rows' : id[2] \notin blamed' => RightRow(id, rows'[id])
  BY <1>1, <1>3, NewRowRight DEF Yields
<1>. QED
  BY <1>1, <1>2, <1>4 DEF Yields

\* Candles are added and none is taken away; nobody is cleared of blame.
LEMMA NextGrows ==
  ASSUME Candles, RowsType, [Next]_vars
  PROVE  blamed \subseteq blamed' /\ \A s \in Stocks : Table[s] \subseteq Table'[s]
<1>1. ASSUME NEW p \in Commands, SyncStep(p) PROVE blamed \subseteq blamed' /\ \A s \in Stocks : Table[s] \subseteq Table'[s]
  BY <1>1, StepMoves DEF Candles, Moved
<1>2. ASSUME candle' = candle PROVE \A s \in Stocks : Table[s] \subseteq Table'[s]
  BY <1>2 DEF Table, Stored
<1>3. CASE Tick \/ Wake \/ HandStarts \/ UNCHANGED vars
  <2>1. candle' = candle /\ blamed \subseteq blamed'
    BY <1>3 DEF Tick, Wake, HandStarts, Sync, Backfill, Daily, Blame, vars
  <2>. QED
    BY <1>2, <2>1
<1>4. CASE Restart
  <2>1. candle' = candle /\ blamed \subseteq blamed'
    BY <1>4 DEF Restart, Candles, SyncType
  <2>. QED
    BY <1>2, <2>1
<1>5. ASSUME NEW p \in Commands, Steps(p), ~SyncStep(p)
      PROVE  candle' = candle /\ blamed \subseteq blamed'
  BY <1>5 DEF Steps, FillStep, ReadBase, ReadFuture, Blame, IntakeStep, SyncExits, FillExits, NewsEnds, Recommend, Backfill, Daily, dataVars
<1>. QED
  BY <1>1, <1>2, <1>3, <1>4, <1>5 DEF Next

\* Every step keeps the yields.
LEMMA NextYields == Yields /\ RowsType /\ Candles /\ [Next]_vars => Yields'
<1>. SUFFICES ASSUME Yields, RowsType, Candles, [Next]_vars PROVE Yields'
  OBVIOUS
<1>1. ASSUME NEW p \in Commands, Select(p), UNCHANGED <<candle, sync, blamed>> PROVE Yields'
  <2>. DEFINE f == [NoFill EXCEPT !.pc = "rows", !.todo = Open, !.clock = now]
  <2>1. fill' = [fill EXCEPT ![p] = f] /\ f.read = {} /\ UNCHANGED rows
    BY <1>1 DEF Select, NoFill
  <2>. HIDE DEF f
  <2>. QED
    BY <1>1, <2>1, OpensYields
<1>2. ASSUME NEW p \in Commands, FillStep(p) PROVE Yields'
  BY <1>2, FillYields
<1>3. ASSUME NEW p \in Commands, Recommend(p) PROVE Yields'
  BY <1>3, RecommendYields
<1>4. CASE Restart
  <2>1. Night \in Commands /\ fill' = [fill EXCEPT ![Night] = NoFill] /\ UNCHANGED <<rows, candle>> /\ blamed \subseteq blamed'
    BY <1>4, CommandsAssumption, NextGrows DEF Restart
  <2>2. NoFill.pc # "rows"
    BY DEF NoFill
  <2>. QED
    BY <2>1, <2>2, OpensYields
<1>5. CASE UNCHANGED <<rows, fill>>
  BY <1>5, NextGrows, QuietYields
<1>. QED
  BY <1>1, <1>2, <1>3, <1>4, <1>5, RowsKinds

\* The yields of a row that no backfill will visit again are those of the right days:
\* buildYieldRecordDrafts of backtest-engine.ts over candles that three programs write,
\* for every stock that nothing has happened to.
THEOREM SettledYields == Spec => []SettledYieldsAreRight
<1>1. Init => News /\ RowsType /\ Candles /\ Yields
  BY InitNews, InitRows, InitCandles, InitYields
<1>2. News /\ RowsType /\ Candles /\ Yields /\ [Next]_vars => News' /\ RowsType' /\ Candles' /\ Yields'
  BY NextNews, NextRows, NextCandles, NextYields DEF Candles
<1>3. Yields => SettledYieldsAreRight
  BY DEF Yields, RightRow, SettledYieldsAreRight, Settled, Earlier
<1>. QED
  BY <1>1, <1>2, <1>3, PTL DEF Spec

-----------------------------------------------------------------------------
(* The prices, when commands run after the close only *)

\* A row of a session, at its last price.
Final(l) == l[3] = 2 * l[2] /\ l[2] \in Trades[l[1]]
LateSync(c, today) ==
  ~Resting(c) => /\ c.end = today
                 /\ \A l \in Held(c) : Final(l)
                 /\ c.pc = "spot" => c.price = 2 * SpotDay(c) /\ \A s \in c.spot : SpotDay(c) \in Trades[s]
FinalPrices == \A s \in Stocks, d \in Days : candle[s][d] # 0 => candle[s][d] = 2 * d /\ d \in Trades[s]

\* Commands run in the evening, and end in it.
Evenings == ~world.slow /\ ~world.daytime
Late ==
  Evenings =>
    /\ \A p \in Commands : ~Idle(p) => now = 2 * Day
    /\ \A p \in Commands : LateSync(sync[p], Day)
    /\ FinalPrices

\* Where the rows of a step come from.
Draws(c, e, lines) ==
  /\ Held(e) \subseteq Held(c) \cup lines
  /\ e.pc = "spot" => c.pc = "spot" /\ e.spot \subseteq c.spot /\ e.price = c.price /\ e.days = c.days
Sourced(c, lines) ==
  \/ lines = {}
  \/ \E s \in Stocks : \E lo, hi : lines \subseteq History(s, lo, hi)
  \/ c.pc = "spot" /\ \E s \in c.spot : lines = {<<s, SpotDay(c), c.price>>}

\* A step that takes no row draws from none.
LEMMA KeepsDraws ==
  ASSUME NEW c, NEW e, e.queue \subseteq c.queue, \A w \in Writers : e.writing[w] \subseteq c.writing[w],
         e.pc = "spot" => c.pc = "spot" /\ e.spot \subseteq c.spot /\ e.price = c.price /\ e.days = c.days
  PROVE  Draws(c, e, {})
<1>1. \A w \in Writers : e.writing[w] \subseteq UNION {c.writing[v] : v \in Writers}
  OBVIOUS
<1>. QED
  BY <1>1 DEF Draws, Held

\* The fall back keeps the rows that are held.
LEMMA FallBackDraws ==
  ASSUME NEW c \in SyncRow, NEW e, e = FallBack(c)
  PROVE  Draws(c, e, {})
<1>1. e.queue = c.queue /\ e.writing = c.writing /\ e.pc = "pool"
  BY DEF FallBack, SyncRow
<1>. QED
  BY <1>1, KeepsDraws

\* So does a failed request.
LEMMA RefusedDraws ==
  ASSUME NEW c \in SyncRow, c.pc # "spot", NEW s, NEW transport, NEW e, e = Refused(c, s, transport)
  PROVE  Draws(c, e, {})
<1>. DEFINE streak == IF transport THEN c.streak + 1 ELSE 0
<1>1. \/ e = [c EXCEPT !.streak = streak, !.pc = "tripped", !.todo = InFlight(c) \ {s}]
      \/ e = [c EXCEPT !.streak = streak, !.failed = @ \cup {s}, !.todo = @ \ {s}]
  BY DEF Refused
<1>. HIDE DEF streak
<1>2. e.queue = c.queue /\ e.writing = c.writing /\ e.pc # "spot"
  BY <1>1 DEF SyncRow
<1>. QED
  BY <1>2, KeepsDraws

\* An answer adds its own rows at most.
LEMMA AnsweredDraws ==
  ASSUME NEW c \in SyncRow, c.pc # "spot", NEW s \in Stocks, c.writing[s] = {}, NEW lines \in SUBSET Lines, NEW e, e = Answered(c, s, lines)
  PROVE  Draws(c, e, lines)
<1>. DEFINE missing == Missing(c, lines)
<1>. DEFINE c1 == [c EXCEPT !.streak = 0]
<1>. DEFINE c3 == Enqueued(Owning(c1, missing), s, missing)
<1>0. e = Leave(c3, s)
  BY DEF Answered
<1>1. missing \in SUBSET Lines /\ missing \subseteq lines
  BY DEF Missing
<1>. HIDE DEF missing
<1>2. c1 \in SyncRow /\ c1.queue = c.queue /\ c1.writing = c.writing /\ c1.pc = c.pc
  BY DEF SyncRow
<1>. HIDE DEF c1
<1>3. Takes(c1, c3, missing, s)
  <2>1. s \in Writers /\ c1.writing[s] = {}
    BY <1>2, StocksTyped
  <2>. QED
    BY <1>1, <1>2, <2>1, TakenRow
<1>. HIDE DEF c3
<1>4. c3 \in SyncRow /\ c3.pc = c1.pc /\ Held(c3) = Held(c1) \cup missing
  BY <1>3 DEF Takes, SamePlan
<1>5. Held(e) = Held(c3) /\ e.pc = c3.pc
  <2>1. CASE c3.writing[s] = {}
    BY <1>0, <1>4, <2>1, LeaveRow DEF SamePlan
  <2>2. CASE c3.writing[s] # {}
    BY <1>0, <2>2 DEF Leave
  <2>. QED
    BY <2>1, <2>2
<1>6. Held(c) = Held(c1)
  BY <1>2 DEF Held
<1>. QED
  BY <1>1, <1>2, <1>4, <1>5, <1>6 DEF Draws

\* A write that has landed leaves fewer rows.
LEMMA LandedDraws ==
  ASSUME NEW c \in SyncRow, NEW w \in Writers, NEW e, e = Landed(c, w), w # Main => c.pc # "spot"
  PROVE  Draws(c, e, {})
<1>. DEFINE writing == [c.writing EXCEPT ![w] = {}]
<1>. DEFINE written == [c EXCEPT !.writing = writing]
<1>0. [c EXCEPT !.writing[w] = {}] = written
  BY DEF SyncRow
<1>1. \A v \in Writers : writing[v] \subseteq c.writing[v]
  BY DEF SyncRow
<1>. HIDE DEF writing
<1>2. e = IF w = Main THEN IF c.pc = "last" THEN [written EXCEPT !.pc = "done"] ELSE written ELSE Leave(written, w)
  BY <1>0 DEF Landed
<1>3. /\ e.queue = c.queue /\ e.writing = writing
      /\ e.pc = "spot" => c.pc = "spot" /\ e.spot \subseteq c.spot /\ e.price = c.price /\ e.days = c.days
  BY <1>2 DEF Leave, SyncRow
<1>. QED
  BY <1>1, <1>3, KeepsDraws

\* So does a write that has failed.
LEMMA UnwrittenDraws ==
  ASSUME NEW c \in SyncRow, NEW w \in Writers, NEW g, g = Given(c, w), NEW e,
         \/ c.pc # "spot" /\ \E s, transport : e = Refused(g, s, transport)
         \/ e = [g EXCEPT !.pc = "failed"] \/ e = FallBack(g)
  PROVE  Draws(c, e, {})
<1>1. g \in SyncRow /\ g.pc = c.pc /\ Held(c) = Held(g) \cup c.writing[w]
  BY GivenRow DEF SamePlan
<1>2. Draws(g, e, {}) /\ (e.pc = "spot" => c.pc = "spot" /\ e.pc # "spot")
  <2>1. CASE c.pc # "spot" /\ \E s, transport : e = Refused(g, s, transport)
    <3>1. Draws(g, e, {})
      BY <1>1, <2>1, RefusedDraws
    <3>. QED
      BY <1>1, <2>1, <3>1 DEF Draws
  <2>2. CASE e = [g EXCEPT !.pc = "failed"]
    <3>1. e.queue = g.queue /\ e.writing = g.writing /\ e.pc = "failed"
      BY <1>1, <2>2 DEF SyncRow
    <3>. QED
      BY <3>1, KeepsDraws
  <2>3. CASE e = FallBack(g)
    <3>1. e.pc = "pool"
      BY <1>1, <2>3 DEF FallBack, SyncRow
    <3>. QED
      BY <1>1, <2>3, <3>1, FallBackDraws
  <2>. QED
    BY <2>1, <2>2, <2>3
<1>. QED
  BY <1>1, <1>2 DEF Draws

\* The loop over the snapshot adds one row of it.
LEMMA SpotRowDraws ==
  ASSUME NEW c \in SyncRow, NEW s \in c.spot, s \in Stocks, c.pc = "spot", c.writing[Main] = {}, NEW row \in Lines, NEW rest, NEW e,
         rest = [c EXCEPT !.spot = @ \ {s}], e = rest \/ e = Enqueued(Owning(rest, {row}), Main, {row})
  PROVE  Draws(c, e, {row})
<1>1. /\ rest \in SyncRow /\ SamePlan(c, rest) /\ rest.spot = c.spot \ {s} /\ rest.writing = c.writing /\ Held(rest) = Held(c)
  BY SpotRowTyped
<1>2. CASE e = rest
  BY <1>1, <1>2 DEF Draws, SamePlan, SameRange
<1>3. CASE e = Enqueued(Owning(rest, {row}), Main, {row})
  <2>. DEFINE lines == {row}
  <2>1. lines \in SUBSET Lines /\ Main \in Writers /\ rest.writing[Main] = {} /\ e = Enqueued(Owning(rest, lines), Main, lines)
    BY <1>1, <1>3, StocksTyped
  <2>. HIDE DEF lines
  <2>2. Takes(rest, e, lines, Main)
    BY <1>1, <2>1, TakenRow
  <2>3. Held(e) = Held(c) \cup lines /\ e.spot = c.spot \ {s} /\ e.price = c.price /\ e.days = c.days
    BY <1>1, <2>2 DEF Takes, SamePlan, SameRange
  <2>. QED
    BY <2>3 DEF lines, Draws
<1>. QED
  BY <1>2, <1>3

\* The queue becomes the last batch.
LEMMA FlushedDraws ==
  ASSUME NEW c \in SyncRow, NEW e,
         e = [c EXCEPT !.pc = "done"] \/ e = [c EXCEPT !.pc = "last", !.queue = {}, !.writing[Main] = c.queue]
  PROVE  Draws(c, e, {})
<1>1. CASE e = [c EXCEPT !.pc = "done"]
  <2>1. e.queue = c.queue /\ e.writing = c.writing /\ e.pc = "done"
    BY <1>1 DEF SyncRow
  <2>. QED
    BY <2>1, KeepsDraws
<1>2. CASE e = [c EXCEPT !.pc = "last", !.queue = {}, !.writing[Main] = c.queue]
  <2>. DEFINE writing == [c.writing EXCEPT ![Main] = c.queue]
  <2>1. \A w \in Writers : writing[w] \subseteq c.writing[w] \cup c.queue
    BY DEF SyncRow
  <2>2. e.queue = {} /\ e.writing = writing /\ e.pc = "last"
    BY <1>2 DEF SyncRow
  <2>. HIDE DEF writing
  <2>3. \A w \in Writers : e.writing[w] \subseteq Held(c)
    BY <2>1, <2>2 DEF Held
  <2>. QED
    BY <2>2, <2>3 DEF Draws, Held
<1>. QED
  BY <1>1, <1>2

\* Every row that a step adds comes from the history or the snapshot.
LEMMA StepDraws ==
  ASSUME SyncType, Progress, NEW p \in Commands, SyncStep(p), ~Snapshot(p)
  PROVE  \E lines : Draws(sync[p], sync'[p], lines) /\ Sourced(sync[p], lines)
<1>. DEFINE c == sync[p]
<1>. DEFINE e == sync'[p]
<1>1. c \in SyncRow /\ Standing(c, Table, blamed, Day) /\ sync \in [Commands -> SyncRow]
  BY DEF SyncType, Progress
<1>2. ASSUME Draws(c, e, {}) PROVE \E lines : Draws(c, e, lines) /\ Sourced(c, lines)
  BY <1>2 DEF Sourced
<1>3. CASE Probe(p)
  <2>0. e = [c EXCEPT !.pc = "calendar"] \/ e = [c EXCEPT !.pc = "calendar", !.alive = FALSE]
    BY <1>1, <1>3 DEF Probe, Goes
  <2>1. e.queue = c.queue /\ e.writing = c.writing /\ e.pc = "calendar"
    BY <1>1, <2>0 DEF SyncRow
  <2>. QED
    BY <1>2, <2>1, KeepsDraws
<1>4. CASE Calendar(p)
  <2>1. CASE e = FallBack(c)
    BY <1>1, <1>2, <2>1, FallBackDraws
  <2>2. CASE \E kind, days : e = Planned(c, kind, days)
    <3>1. e.queue = c.queue /\ e.writing = c.writing /\ e.pc = "pool"
      BY <1>1, <2>2 DEF Planned, SyncRow
    <3>. QED
      BY <1>2, <3>1, KeepsDraws
  <2>3. e = FallBack(c) \/ \E kind, days : e = Planned(c, kind, days)
    BY <1>1, <1>4 DEF Calendar, Goes
  <2>. QED
    BY <2>1, <2>2, <2>3
<1>5. CASE SpotRow(p)
  <2>. DEFINE s == Min(c.spot)
  <2>. DEFINE row == <<s, SpotDay(c), c.price>>
  <2>. DEFINE rest == [c EXCEPT !.spot = @ \ {s}]
  <2>1. /\ c.pc = "spot" /\ c.spot # {} /\ c.writing[Main] = {}
        /\ e = rest \/ e = Enqueued(Owning(rest, {row}), Main, {row})
    BY <1>1, <1>5 DEF SpotRow, Goes, At
  <2>2. s \in c.spot /\ s \in Stocks
    <3>1. c.spot \subseteq Stocks /\ c.spot \in SUBSET Nat
      BY <1>1, StocksTyped DEF SyncRow
    <3>. QED
      BY <2>1, <3>1, MinOf
  <2>. HIDE DEF s
  <2>3. SpotDay(c) \in Days /\ c.price \in 1 .. 2 * LastDay
    <3>1. SpotDay(c) \in Days
      BY <1>1, <2>1, SpotDayIs DEF Standing, Dated, Ordered
    <3>2. c.price \in 0 .. 2 * LastDay /\ c.price # 0
      BY <1>1, <2>1 DEF Standing, Ordered, SyncRow
    <3>. QED
      BY <3>1, <3>2, DaysAssumption
  <2>4. row \in Lines
    BY <2>2, <2>3, LinesTyped
  <2>5. Sourced(c, {row})
    BY <2>1, <2>2 DEF Sourced
  <2>. HIDE DEF row, rest
  <2>6. Draws(c, e, {row})
    BY <1>1, <2>1, <2>2, <2>4, SpotRowDraws DEF rest
  <2>. QED
    BY <2>5, <2>6
<1>6. CASE Complete(p)
  <2>1. e.queue = c.queue /\ e.writing = c.writing /\ e.pc = "pool"
    BY <1>1, <1>6 DEF Complete, Goes, SyncRow
  <2>. QED
    BY <1>2, <2>1, KeepsDraws
<1>7. CASE Flush(p)
  <2>1. e = [c EXCEPT !.pc = "done"] \/ e = [c EXCEPT !.pc = "last", !.queue = {}, !.writing[Main] = c.queue]
    BY <1>1, <1>7 DEF Flush, Goes
  <2>. QED
    BY <1>1, <1>2, <2>1, FlushedDraws
<1>8. CASE Abandon(p)
  <2>1. e.queue = {} /\ e.writing = c.writing /\ e.pc = "failed"
    BY <1>1, <1>8 DEF Abandon, Goes, SyncRow
  <2>. QED
    BY <1>2, <2>1, KeepsDraws
<1>9. ASSUME NEW s \in Stocks, Fetch(p, s) PROVE \E lines : Draws(c, e, lines) /\ Sourced(c, lines)
  <2>. DEFINE lines == History(s, c.lo, c.hi)
  <2>1. Awaited(p, s) /\ e = Answered(c, s, lines)
    BY <1>1, <1>9 DEF Fetch, Goes
  <2>2. c.pc # "spot" /\ c.writing[s] = {}
    BY <2>1 DEF Awaited
  <2>3. lines \in SUBSET Lines /\ Sourced(c, lines)
    BY HistoryIs DEF SyncType, Sourced
  <2>. HIDE DEF lines
  <2>4. Draws(c, e, lines)
    BY <1>1, <2>1, <2>2, <2>3, AnsweredDraws
  <2>. QED
    BY <2>3, <2>4
<1>10. ASSUME NEW s \in Stocks, FetchFails(p, s) PROVE \E lines : Draws(c, e, lines) /\ Sourced(c, lines)
  <2>1. PICK transport : e = Refused(c, s, transport)
    BY <1>1, <1>10 DEF FetchFails, Goes
  <2>2. c.pc # "spot"
    BY <1>10 DEF FetchFails, Awaited
  <2>. QED
    BY <1>1, <1>2, <2>1, <2>2, RefusedDraws
<1>11. ASSUME NEW w \in Writers, Write(p, w) PROVE \E lines : Draws(c, e, lines) /\ Sourced(c, lines)
  <2>1. e = Landed(c, w) /\ c.writing[w] # {}
    BY <1>1, <1>11 DEF Write, Goes
  <2>2. w # Main => c.pc # "spot"
    BY <1>1, <2>1 DEF Standing, Ordered, Pooling, Writers
  <2>. QED
    BY <1>1, <1>2, <2>1, <2>2, LandedDraws
<1>12. ASSUME NEW w \in Writers, WriteFails(p, w) PROVE \E lines : Draws(c, e, lines) /\ Sourced(c, lines)
  <2>. DEFINE g == [c EXCEPT !.writing[w] = {}, !.lost = @ \cup {<<l[1], l[2]>> : l \in c.writing[w]}]
  <2>0. g = Given(c, w)
    BY DEF Given
  <2>1. /\ c.writing[w] # {}
        /\ \/ w \in Stocks /\ \E transport : e = Refused(g, w, transport)
           \/ e = [g EXCEPT !.pc = "failed"] \/ e = FallBack(g)
    BY <1>1, <1>12 DEF WriteFails, Goes
  <2>. HIDE DEF g
  <2>2. w \in Stocks => c.pc # "spot"
    BY <1>1, <2>1 DEF Standing, Ordered, Pooling
  <2>3. Draws(c, e, {})
    BY <1>1, <2>0, <2>1, <2>2, UnwrittenDraws
  <2>. QED
    BY <1>2, <2>3
<1>. QED
  BY <1>3, <1>4, <1>5, <1>6, <1>7, <1>8, <1>9, <1>10, <1>11, <1>12 DEF SyncStep, Writers

\* In the evening every source shows the last price of a day.
LEMMA SourcedFinal ==
  ASSUME ClockType, now = 2 * Day, NEW c, LateSync(c, Day), ~Resting(c), NEW lines, Sourced(c, lines)
  PROVE  \A l \in lines : Final(l)
<1>1. Day \in Nat
  BY DayOf, DaysTyped DEF ClockType
<1>2. \A d \in Nat : d <= Day => Closed(d)
  BY <1>1 DEF Closed
<1>3. ASSUME NEW s \in Stocks, NEW lo, NEW hi, lines \subseteq History(s, lo, hi) PROVE \A l \in lines : Final(l)
  <2>. SUFFICES ASSUME NEW l \in History(s, lo, hi) PROVE Final(l)
    BY <1>3
  <2>1. l[1] = s /\ l[2] \in Trades[s] /\ l[2] <= Day /\ (Closed(l[2]) => l[3] = 2 * l[2])
    BY HistoryIs
  <2>2. l[2] \in Nat
    BY <2>1, TradesTyped
  <2>. QED
    BY <1>2, <2>1, <2>2 DEF Final
<1>4. ASSUME c.pc = "spot", NEW s \in c.spot, lines = {<<s, SpotDay(c), c.price>>} PROVE \A l \in lines : Final(l)
  BY <1>4 DEF LateSync, Final
<1>. QED
  BY <1>3, <1>4 DEF Sourced

\* Final prices and final rows give final rows.
LEMMA DrawsLate ==
  ASSUME NEW c, NEW e, NEW lines, NEW today, LateSync(c, today), ~Resting(c), Draws(c, e, lines), e.end = c.end, \A l \in lines : Final(l)
  PROVE  LateSync(e, today)
<1>1. e.pc = "spot" => SpotDay(e) = SpotDay(c)
  BY DEF Draws, SpotDay
<1>. QED
  BY <1>1 DEF LateSync, Draws

\* In the evening the snapshot is of the day under which it is stored.
LEMMA SnapshotLate ==
  ASSUME SyncType, Progress, NEW p \in Commands, Snapshot(p), now = 2 * Day, LateSync(sync[p], Day)
  PROVE  LateSync(sync'[p], Day)
<1>. DEFINE c == sync[p]
<1>. DEFINE e == sync'[p]
<1>1. /\ c \in SyncRow /\ Standing(c, Table, blamed, Day) /\ c.pc = "pool" /\ c.stage = "gap" /\ ~Resting(c) /\ Pooling(c)
      /\ sync \in [Commands -> SyncRow]
  BY DEF SyncType, Progress, Snapshot, Finished, At, Resting, Pooling
<1>2. CASE e = FallBack(c)
  <2>1. Draws(c, e, {}) /\ e.end = c.end
    BY <1>1, <1>2, FallBackDraws DEF FallBack, SyncRow
  <2>. QED
    BY <1>1, <2>1, DrawsLate
<1>3. ASSUME NEW set \in SUBSET Quoted, e = [c EXCEPT !.pc = "spot", !.spot = set, !.covered = set, !.price = Quote]
      PROVE  LateSync(e, Day)
  <2>1. e.queue = c.queue /\ e.writing = c.writing /\ e.pc = "spot" /\ e.end = c.end /\ e.days = c.days /\ e.spot = set /\ e.price = Quote
    BY <1>1, <1>3 DEF SyncRow
  <2>2. Held(e) = Held(c) /\ SpotDay(e) = SpotDay(c)
    BY <2>1 DEF Held, SpotDay
  <2>3. SpotDay(c) = Session
    <3>1. /\ Session \in Sessions /\ Session <= Day /\ \A d \in Sessions : d <= Day => d <= Session
      BY SessionIs DEF SyncType
    <3>2. c.end = Day
      BY <1>1 DEF LateSync
    <3>3. /\ c.days # {} /\ SpotDay(c) \in c.start .. c.end /\ \A d \in Sessions : d \in c.start .. c.end => d <= SpotDay(c)
      BY <1>1 DEF Standing, Ordered, Dated
    <3>4. SpotDay(c) \in Sessions
      BY <1>1, <3>3, SpotDayIs
    <3>5. Day \in Nat /\ c.start \in Nat /\ Session \in Nat /\ SpotDay(c) \in Nat
      BY <1>1, <3>1, <3>4, DayOf, DaysTyped, DaysAssumption DEF SyncType, ClockType, SyncRow
    <3>6. SpotDay(c) <= Session /\ Session \in c.start .. c.end
      BY <3>1, <3>2, <3>3, <3>4, <3>5
    <3>. QED
      BY <3>1, <3>3, <3>5, <3>6
  <2>4. Quote = 2 * Session
    <3>1. Session <= Day /\ Session \in Nat /\ Day \in Nat
      BY SessionIs, DayOf, DaysTyped DEF SyncType, ClockType
    <3>2. Closed(Session)
      BY <3>1 DEF Closed
    <3>. QED
      BY <3>2, QuoteIs DEF SyncType
  <2>5. \A s \in set : SpotDay(c) \in Trades[s]
    BY <2>3 DEF Quoted
  <2>. QED
    BY <1>1, <2>1, <2>2, <2>3, <2>4, <2>5 DEF LateSync
<1>4. e = FallBack(c) \/ \E set \in SUBSET Quoted : e = [c EXCEPT !.pc = "spot", !.spot = set, !.covered = set, !.price = Quote]
  BY <1>1 DEF Snapshot, Goes
<1>. QED
  BY <1>2, <1>3, <1>4

\* A step of a synchronisation in the evening.
LEMMA StepLate ==
  ASSUME Candles, NEW p \in Commands, SyncStep(p), now = 2 * Day, \A q \in Commands : LateSync(sync[q], Day), FinalPrices
  PROVE  now' = now /\ (\A q \in Commands : LateSync(sync'[q], Day)) /\ FinalPrices'
<1>. DEFINE c == sync[p]
<1>1. Moved(p) /\ SyncType /\ Progress
  BY StepMoves DEF Candles
<1>2. PICK e : sync' = [sync EXCEPT ![p] = e] /\ Advances(c, e, Table', blamed', Day)
  BY <1>1 DEF Moved
<1>3. /\ now' = now /\ c \in SyncRow /\ ~Resting(c) /\ sync'[p] = e /\ e.end = c.end /\ LateSync(c, Day)
      /\ \A q \in Commands \ {p} : sync'[q] = sync[q]
  BY <1>1, <1>2 DEF Moved, Advances, SyncType, Rests, Resting
<1>4. LateSync(e, Day)
  <2>1. CASE Snapshot(p)
    BY <1>1, <1>3, <2>1, SnapshotLate
  <2>2. CASE ~Snapshot(p)
    <3>1. PICK lines : Draws(c, e, lines) /\ Sourced(c, lines)
      BY <1>1, <1>3, <2>2, StepDraws
    <3>2. \A l \in lines : Final(l)
      BY <1>1, <1>3, <3>1, SourcedFinal DEF SyncType
    <3>. QED
      BY <1>3, <3>1, <3>2, DrawsLate
  <2>. QED
    BY <2>1, <2>2
<1>5. FinalPrices'
  <2>1. CASE candle' = candle
    BY <2>1 DEF FinalPrices
  <2>2. ASSUME NEW w \in Writers, Write(p, w) PROVE FinalPrices'
    <3>. DEFINE batch == c.writing[w]
    <3>1. batch \in SUBSET Lines /\ batch \subseteq Held(c) /\ candle' = Insert(batch)
      BY <1>3, <2>2 DEF SyncRow, Held, Write
    <3>2. \A s \in Stocks, d \in Days : /\ candle[s][d] # 0 => candle'[s][d] = candle[s][d]
                                        /\ candle[s][d] = 0 /\ candle'[s][d] # 0 =>
                                             \E l \in batch : l[1] = s /\ l[2] = d /\ candle'[s][d] = l[3]
      BY <1>1, <3>1, Inserted DEF SyncType
    <3>3. \A l \in batch : Final(l)
      BY <1>3, <3>1 DEF LateSync
    <3>. SUFFICES ASSUME NEW s \in Stocks, NEW d \in Days, candle'[s][d] # 0 PROVE candle'[s][d] = 2 * d /\ d \in Trades[s]
      BY DEF FinalPrices
    <3>4. CASE candle[s][d] # 0
      BY <3>2, <3>4 DEF FinalPrices
    <3>5. CASE candle[s][d] = 0
      <4>1. PICK l \in batch : l[1] = s /\ l[2] = d /\ candle'[s][d] = l[3]
        BY <3>2, <3>5
      <4>. QED
        BY <3>3, <4>1 DEF Final
    <3>. QED
      BY <3>4, <3>5
  <2>. QED
    BY <2>1, <2>2, WritersOnly
<1>. QED
  BY <1>3, <1>4, <1>5

\* A process that is not there holds no price.
LEMMA NoSyncLate == \A today : LateSync(NoSync, today)
BY DEF LateSync, NoSync, Resting

\* A process that begins holds no price.
LEMMA LoadedLate ==
  ASSUME NEW mode, NEW start
  PROVE  LateSync(Loaded(mode, start), Day)
<1>. DEFINE e == Loaded(mode, start)
<1>1. e.queue = {} /\ e.writing = NoRows /\ e.pc # "spot" /\ e.end = Day
  BY DEF Loaded, NoSync
<1>2. \A w \in Writers : e.writing[w] = {}
  BY <1>1 DEF NoRows, Writers
<1>. HIDE DEF e
<1>3. Held(e) = {}
  BY <1>1, <1>2, HeldNothing
<1>. QED
  BY <1>1, <1>3 DEF e, LateSync

\* At the start every candle has the final price.
LEMMA InitLate == Init => Late
<1>. SUFFICES ASSUME Init PROVE Late
  OBVIOUS
<1>1. \A p \in Commands : Idle(p) /\ sync[p] = NoSync
  BY DEF Init, Idle
<1>2. FinalPrices
  BY DEF Init, FinalPrices
<1>. QED
  BY <1>1, <1>2, NoSyncLate DEF Late

\* The steps of the evening that no synchronisation takes.
LEMMA OtherLate ==
  ASSUME Late, UNCHANGED <<world, now, candle>>, now = 2 * Day,
         \A p \in Commands : sync'[p] = sync[p] \/ LateSync(sync'[p], Day)
  PROVE  Late'
<1>1. Day' = Day
  BY DEF Day
<1>. SUFFICES ASSUME Evenings PROVE (\A p \in Commands : LateSync(sync'[p], Day)) /\ FinalPrices'
  BY <1>1 DEF Late, Evenings
<1>2. FinalPrices'
  BY DEF Late, FinalPrices
<1>3. \A p \in Commands : LateSync(sync'[p], Day)
  BY DEF Late
<1>. QED
  BY <1>2, <1>3

\* Every step of an evening keeps the prices final.
LEMMA NextLate == Late /\ Candles /\ Schedule /\ [Next]_vars => Late'
<1>. SUFFICES ASSUME Late, Candles, Schedule, [Next]_vars PROVE Late'
  OBVIOUS
<1>1. /\ world' = world /\ sync \in [Commands -> SyncRow] /\ Night \in Commands /\ Hand \in Commands
      /\ Day \in Nat /\ now \in {2 * Day - 1, 2 * Day} /\ next \in Nat
  <2>1. world' = world
    BY DEF Next, Tick, Wake, HandStarts, Restart, Steps, SyncExits, FillExits, NewsEnds, Recommend, ChainEnds, chainVars, vars
  <2>2. next \in Nat
    BY ScheduleAssumption, DaysAssumption DEF Schedule, ScheduleType, Days
  <2>. QED
    BY <2>1, <2>2, CommandsAssumption, DayOf, DaysTyped DEF Candles, SyncType, ClockType
<1>. SUFFICES ASSUME Evenings PROVE Late'
  BY <1>1 DEF Late, Evenings
<1>2. (\A p \in Commands : ~Idle(p) => now = 2 * Day) /\ (\A p \in Commands : LateSync(sync[p], Day)) /\ FinalPrices
  BY DEF Late
<1>3. CASE Tick
  <2>1. \A p \in Commands : Idle(p)
    BY <1>3 DEF Tick, Evenings
  <2>2. \A p \in Commands : Rests(p)
    BY <2>1 DEF Candles, SyncsWork, Idle
  <2>3. UNCHANGED <<candle, sync, work>>
    BY <1>3 DEF Tick
  <2>4. \A p \in Commands : Idle(p)' /\ LateSync(sync'[p], Day')
    BY <2>1, <2>2, <2>3 DEF LateSync, Rests, Resting, Idle
  <2>5. FinalPrices'
    BY <1>2, <2>3 DEF FinalPrices
  <2>. QED
    BY <2>4, <2>5 DEF Late
<1>4. ASSUME NEW p \in Commands, NEW mode, NEW start, Sync(p, mode, start), now = 2 * Day PROVE Late'
  <2>1. \A q \in Commands : sync'[q] = sync[q] \/ LateSync(sync'[q], Day)
    BY <1>1, <1>4, LoadedLate DEF Sync, Goes
  <2>2. UNCHANGED <<now, candle>>
    BY <1>4 DEF Sync
  <2>. QED
    BY <1>1, <1>4, <2>1, <2>2, OtherLate
<1>5. CASE Wake
  <2>1. Sync(Night, "incremental", LatestCandle) /\ now = 2 * next
    BY <1>5 DEF Wake, Due
  <2>. QED
    BY <1>1, <1>4, <2>1
<1>6. CASE HandStarts
  <2>1. now = 2 * Day
    BY <1>6 DEF HandStarts, Evenings
  <2>2. CASE Backfill(Hand) \/ Daily(Hand)
    <3>1. UNCHANGED <<now, candle, sync>>
      BY <2>2 DEF Backfill, Daily
    <3>. QED
      BY <1>1, <2>1, <3>1, OtherLate
  <2>. QED
    BY <1>1, <1>4, <1>6, <2>1, <2>2 DEF HandStarts
<1>7. CASE Restart
  <2>1. now = 2 * Day /\ sync' = [sync EXCEPT ![Night] = NoSync] /\ UNCHANGED <<now, candle>>
    BY <1>1, <1>2, <1>7 DEF Restart
  <2>2. \A q \in Commands : sync'[q] = sync[q] \/ LateSync(sync'[q], Day)
    BY <1>1, <2>1, NoSyncLate
  <2>. QED
    BY <1>1, <2>1, <2>2, OtherLate
<1>8. ASSUME NEW p \in Commands, SyncStep(p), UNCHANGED work PROVE Late'
  <2>1. ~Rests(p)
    BY <1>8, StepMoves DEF Candles, Moved
  <2>2. now = 2 * Day
    BY <1>2, <2>1 DEF Candles, SyncsWork, Idle
  <2>3. now' = now /\ (\A q \in Commands : LateSync(sync'[q], Day)) /\ FinalPrices'
    BY <1>2, <1>8, <2>2, StepLate
  <2>4. Day' = Day
    BY <2>3 DEF Day
  <2>. QED
    BY <2>2, <2>3, <2>4 DEF Late
<1>9. ASSUME UNCHANGED <<now, candle, sync>>, \A p \in Commands : ~Idle(p)' => ~Idle(p) PROVE Late'
  <2>1. Day' = Day
    BY <1>9 DEF Day
  <2>. QED
    BY <1>2, <1>9, <2>1 DEF Late, FinalPrices
<1>10. ASSUME NEW p \in Commands, Steps(p) PROVE Late'
  <2>1. CASE SyncStep(p) /\ UNCHANGED <<rows, fill, newsVars, chainVars, work, hands>>
    BY <1>8, <2>1
  <2>2. CASE \/ (FillStep(p) \/ IntakeStep(p)) /\ UNCHANGED work
             \/ SyncExits(p) \/ FillExits(p) \/ NewsEnds(p) \/ Recommend(p)
    <3>1. UNCHANGED <<now, candle, sync>>
      BY <2>2 DEF FillStep, IntakeStep, SyncExits, FillExits, NewsEnds, Recommend, Backfill, Daily, dataVars
    <3>2. \A q \in Commands : ~Idle(q)' => ~Idle(q)
      <4>1. work' = work \/ (work[p] # "none" /\ \E what : Does(p, what))
        BY <2>2 DEF SyncExits, FillExits, NewsEnds, Recommend, ChainEnds, Ends, Backfill, Daily
      <4>. QED
        BY <4>1 DEF Does, Idle, Candles
    <3>. QED
      BY <1>9, <3>1, <3>2
  <2>. QED
    BY <1>10, <2>1, <2>2 DEF Steps
<1>11. CASE UNCHANGED vars
  BY <1>9, <1>11 DEF vars, Idle
<1>. QED
  BY <1>3, <1>5, <1>6, <1>7, <1>10, <1>11 DEF Next

\* When commands run after the close and end before the next session, every stored
\* candle is the final price of its own day: the history and the snapshot of
\* sync-stock-history.ts agree on what they store.
THEOREM FinalPricesStored == Spec => []PricesAreFinal
<1>1. Init => News /\ Schedule /\ RowsType /\ Candles /\ Late
  BY InitNews, InitSchedule, InitRows, InitCandles, InitLate
<1>2. News /\ Schedule /\ RowsType /\ Candles /\ Late /\ [Next]_vars => News' /\ Schedule' /\ RowsType' /\ Candles' /\ Late'
  BY NextNews, NextSchedule, NextRows, NextCandles, NextLate DEF Candles
<1>3. Late => PricesAreFinal
  BY DEF Late, Evenings, FinalPrices, PricesAreFinal
<1>. QED
  BY <1>1, <1>2, <1>3, PTL DEF Spec
=============================================================================
