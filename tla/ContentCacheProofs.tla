------------------------- MODULE ContentCacheProofs -------------------------
(***************************************************************************)
(* Proofs about ContentCache for any texts, sessions, workers, tasks and   *)
(* timeouts: a committed result is final however sessions stall and die,   *)
(* and a worker of a session that does not stall loses no lease.           *)
(***************************************************************************)
EXTENDS ContentCache, TLAPS

-----------------------------------------------------------------------------
(* Sequences and records *)

\* Appending a text adds it to the elements.
LEMMA ElementsOfAppend ==
  ASSUME NEW q \in Seq(Texts), NEW t \in Texts
  PROVE  Elements(Append(q, t)) = Elements(q) \cup {t}
<1>1. /\ DOMAIN Append(q, t) = 1 .. Len(q) + 1 /\ DOMAIN q = 1 .. Len(q) /\ Len(q) \in Nat
      /\ \A i \in 1 .. Len(q) : Append(q, t)[i] = q[i]
      /\ Append(q, t)[Len(q) + 1] = t
  OBVIOUS
<1>2. 1 .. Len(q) + 1 = (1 .. Len(q)) \cup {Len(q) + 1}
  BY <1>1
<1>. QED
  BY <1>1, <1>2 DEF Elements

\* A worker without a task holds nothing.
LEMMA ElementsOfNothing == Elements(<<>>) = {}
BY DEF Elements

\* The elements of a list of texts are texts.
LEMMA ElementsAreTexts ==
  ASSUME NEW q \in Seq(Texts)
  PROVE  Elements(q) \subseteq Texts
BY DEF Elements

\* An idle worker is a worker.
LEMMA IdleType == Idle \in Worker /\ [Idle EXCEPT !.pc = "exited"] \in Worker /\ Idle.claimed = <<>>
                    /\ [Idle EXCEPT !.pc = "exited"].claimed = <<>>
<1>1. <<>> \in Seq(Texts) /\ 0 \in 0 .. WaitTicks
  BY TicksAssumption
<1>. QED
  BY <1>1 DEF Idle, Worker, WorkerPc

\* Another place in the code, the same task.
LEMMA PcType ==
  ASSUME TypeOK, NEW s \in Sessions, NEW w \in Workers, NEW pc \in WorkerPc
  PROVE  /\ [worker[s][w] EXCEPT !.pc = pc] \in Worker
         /\ [worker[s][w] EXCEPT !.pc = pc].claimed = worker[s][w].claimed
<1>1. worker[s][w] \in Worker
  BY DEF TypeOK
<1>. QED
  BY <1>1 DEF Worker

\* A worker that is done with the first text of its list.
LEMMA DoneType ==
  ASSUME TypeOK, NEW s \in Sessions, NEW w \in Workers, worker[s][w].todo # <<>>
  PROVE  /\ Text(s, w) \in Texts
         /\ Next1(s, w) \in Worker /\ Next1(s, w).claimed = worker[s][w].claimed
         /\ Independent(s, w) \in Worker /\ Independent(s, w).claimed = worker[s][w].claimed
         /\ Obtained(s, w) \in Worker
         /\ Obtained(s, w).claimed = Append(worker[s][w].claimed, Text(s, w))
<1>1. worker[s][w] \in Worker /\ worker[s][w].todo \in Seq(Texts) /\ worker[s][w].claimed \in Seq(Texts)
  BY DEF TypeOK, Worker
<1>2. Text(s, w) \in Texts /\ Tail(worker[s][w].todo) \in Seq(Texts)
  BY <1>1 DEF Text
<1>3. Next1(s, w) \in Worker /\ Next1(s, w).claimed = worker[s][w].claimed
  <2>1. "claim" \in WorkerPc /\ 0 \in 0 .. WaitTicks
    BY TicksAssumption DEF WorkerPc
  <2>. QED
    BY <1>1, <1>2, <2>1 DEF Next1, Worker
<1>4. Independent(s, w) \in Worker /\ Independent(s, w).claimed = worker[s][w].claimed
  BY <1>3 DEF Independent, Worker
<1>5. Append(worker[s][w].claimed, Text(s, w)) \in Seq(Texts)
  BY <1>1, <1>2
<1>6. /\ Obtained(s, w) \in Worker
      /\ Obtained(s, w).claimed = Append(worker[s][w].claimed, Text(s, w))
  BY <1>3, <1>5 DEF Obtained, Worker
<1>. QED
  BY <1>2, <1>3, <1>4, <1>6

\* What Set leaves of the other workers.
LEMMA SetEffect ==
  ASSUME TypeOK, NEW s \in Sessions, NEW w \in Workers, NEW x \in Worker, Set(s, w, x)
  PROVE  /\ worker' \in [Sessions -> [Workers -> Worker]]
         /\ worker'[s][w] = x
         /\ \A q \in Sessions, v \in Workers : q # s \/ v # w => worker'[q][v] = worker[q][v]
BY DEF TypeOK, Set

-----------------------------------------------------------------------------
(* What a step of a worker may do *)

\* A worker that looks at an entry or waits for it has a text to look at.
Looking == \A s \in Sessions, w \in Workers : worker[s][w].pc \in {"look", "wait"} => worker[s][w].todo # <<>>

\* A lease of the worker is given up: committed or released.
Frees(s, w, t) ==
  /\ entry[t].owner = s
  /\ t \in Elements(worker[s][w].claimed)
  /\ entry'[t].owner = None

\* A lease is obtained.
Obtains(s, w, t) ==
  /\ Claimable(t)
  /\ entry'[t] = [status |-> "claimed", owner |-> s, ttl |-> LeaseTicks]

\* The worker becomes x: it keeps its leases and leaves the entries alone, it
\* ends its task, or it obtains one more lease.
Effect(s, w, x) ==
  /\ session[s].up
  /\ Set(s, w, x)
  /\ x.pc \in {"look", "wait"} => x.todo # <<>>
  /\ entry' \in [Texts -> Entry]
  /\ \/ entry' = entry /\ x.claimed = worker[s][w].claimed
     \/ x.claimed = <<>> /\ \A t \in Texts : entry'[t] = entry[t] \/ Frees(s, w, t)
     \/ /\ Text(s, w) \in Texts
        /\ Elements(x.claimed) = Elements(worker[s][w].claimed) \cup {Text(s, w)}
        /\ Obtains(s, w, Text(s, w))
        /\ \A t \in Texts \ {Text(s, w)} : entry'[t] = entry[t]

\* A step that leaves the entries alone and keeps the task or ends it.
LEMMA QuietEffect ==
  ASSUME TypeOK, NEW s \in Sessions, NEW w \in Workers, NEW x \in Worker, session[s].up, Set(s, w, x),
         x.pc \in {"look", "wait"} => x.todo # <<>>,
         x.claimed \in {worker[s][w].claimed, <<>>}, entry' = entry
  PROVE  Effect(s, w, x)
BY DEF Effect, TypeOK

\* An idle worker and one that exited look at nothing.
LEMMA IdleEffect ==
  ASSUME TypeOK, NEW s \in Sessions, NEW w \in Workers, session[s].up, entry' = entry,
         Set(s, w, Idle) \/ Set(s, w, [Idle EXCEPT !.pc = "exited"])
  PROVE  \E x \in Worker : Effect(s, w, x)
<1>1. Idle.pc = "idle" /\ [Idle EXCEPT !.pc = "exited"].pc = "exited"
  BY DEF Idle
<1>2. CASE Set(s, w, Idle)
  BY <1>1, <1>2, IdleType, QuietEffect
<1>3. CASE Set(s, w, [Idle EXCEPT !.pc = "exited"])
  BY <1>1, <1>3, IdleType, QuietEffect
<1>. QED
  BY <1>2, <1>3

\* Another place in the code that looks at nothing.
LEMMA PcEffect ==
  ASSUME TypeOK, NEW s \in Sessions, NEW w \in Workers, session[s].up, entry' = entry,
         NEW pc \in WorkerPc \ {"look", "wait"}, Set(s, w, [worker[s][w] EXCEPT !.pc = pc])
  PROVE  \E x \in Worker : Effect(s, w, x)
<1>1. [worker[s][w] EXCEPT !.pc = pc].pc = pc
  BY DEF TypeOK, Worker
<1>. QED
  BY <1>1, PcType, QuietEffect

\* The next text of the task, with the result of the last one or without.
LEMMA NextTextEffect ==
  ASSUME TypeOK, NEW s \in Sessions, NEW w \in Workers, session[s].up, entry' = entry,
         worker[s][w].todo # <<>>,
         Set(s, w, Next1(s, w)) \/ Set(s, w, Independent(s, w))
  PROVE  \E x \in Worker : Effect(s, w, x)
<1>1. worker[s][w] \in Worker
  BY DEF TypeOK
<1>2. Next1(s, w).pc = "claim"
  BY <1>1 DEF Next1, Worker
<1>3. Independent(s, w).pc = "claim"
  BY <1>1, <1>2, DoneType DEF Independent, Worker
<1>4. CASE Set(s, w, Next1(s, w))
  BY <1>2, <1>4, DoneType, QuietEffect
<1>5. CASE Set(s, w, Independent(s, w))
  BY <1>3, <1>5, DoneType, QuietEffect
<1>. QED
  BY <1>4, <1>5

\* Reuse is one of the two.
LEMMA ReuseEffect ==
  ASSUME TypeOK, NEW s \in Sessions, NEW w \in Workers, session[s].up, entry' = entry,
         worker[s][w].todo # <<>>, Reuse(s, w)
  PROVE  \E x \in Worker : Effect(s, w, x)
<1>1. CASE Text(s, w) \in session[s].committed
  BY <1>1, NextTextEffect DEF Reuse
<1>2. CASE Text(s, w) \notin session[s].committed
  BY <1>2, NextTextEffect DEF Reuse
<1>. QED
  BY <1>1, <1>2

\* Every action of a worker has such an effect.
LEMMA WorkerEffect ==
  ASSUME TypeOK, Looking, NEW s \in Sessions, NEW w \in Workers,
         TakeTask(s, w) \/ WorkerStep(s, w)
  PROVE  \E x \in Worker : Effect(s, w, x)
<1>. worker[s][w] \in Worker /\ worker[s][w].todo \in Seq(Texts) /\ worker[s][w].claimed \in Seq(Texts)
  BY DEF TypeOK, Worker
<1>. DEFINE mine == worker[s][w].claimed
<1>1. CASE TakeTask(s, w)
  <2>1. PICK task \in load[s][w] : Set(s, w, [Idle EXCEPT !.pc = "claim", !.todo = task])
    BY <1>1 DEF TakeTask
  <2>. DEFINE x == [Idle EXCEPT !.pc = "claim", !.todo = task]
  <2>2. task \in Seq(Texts)
    BY LoadsAssumption DEF TypeOK
  <2>3. x \in Worker /\ x.pc = "claim" /\ x.claimed = <<>>
    BY <2>2, IdleType DEF Idle, Worker, WorkerPc
  <2>. QED
    BY <1>1, <2>1, <2>3, QuietEffect DEF TakeTask, At
<1>2. CASE Claim(s, w) /\ Claimable(Text(s, w))
  <2>. DEFINE x == Obtained(s, w)
  <2>1. /\ Text(s, w) \in Texts /\ x \in Worker
        /\ Elements(x.claimed) = Elements(mine) \cup {Text(s, w)}
    BY <1>2, DoneType, ElementsOfAppend DEF Claim
  <2>2. x.pc = "claim"
    BY <1>2, DoneType DEF Obtained, Next1, Worker
  <2>3. [status |-> "claimed", owner |-> s, ttl |-> LeaseTicks] \in Entry
    BY TicksAssumption DEF Entry
  <2>4. /\ entry' \in [Texts -> Entry]
        /\ Obtains(s, w, Text(s, w))
        /\ \A t \in Texts \ {Text(s, w)} : entry'[t] = entry[t]
    BY <1>2, <2>1, <2>3 DEF Claim, Obtains, TypeOK
  <2>. QED
    BY <1>2, <2>1, <2>2, <2>4 DEF Effect, Claim, At
<1>3. CASE Claim(s, w) /\ ~Claimable(Text(s, w))
  <2>. DEFINE x == [worker[s][w] EXCEPT !.pc = "look"]
  <2>1. x \in Worker /\ x.claimed = mine /\ x.todo = worker[s][w].todo
    BY DEF Worker, WorkerPc
  <2>. QED
    BY <1>3, <2>1, QuietEffect DEF Claim, At
<1>4. CASE Look(s, w)
  <2>1. worker[s][w].todo # <<>> /\ session[s].up /\ entry' = entry
    BY <1>4 DEF Looking, Look, At
  <2>2. CASE Reuse(s, w)
    BY <2>1, <2>2, ReuseEffect
  <2>3. CASE Set(s, w, Independent(s, w))
    BY <2>1, <2>3, NextTextEffect
  <2>4. CASE Set(s, w, [worker[s][w] EXCEPT !.pc = "wait", !.timer = WaitTicks])
    <3>. DEFINE x == [worker[s][w] EXCEPT !.pc = "wait", !.timer = WaitTicks]
    <3>0. "wait" \in WorkerPc /\ WaitTicks \in 0 .. WaitTicks
      BY TicksAssumption DEF WorkerPc
    <3>1. x \in Worker /\ x.claimed = mine /\ x.todo = worker[s][w].todo
      BY <3>0 DEF Worker
    <3>. QED
      BY <2>1, <2>4, <3>1, QuietEffect
  <2>. QED
    BY <1>4, <2>2, <2>3, <2>4 DEF Look
<1>5. CASE WaitHit(s, w)
  <2>1. worker[s][w].todo # <<>> /\ session[s].up /\ entry' = entry
    BY <1>5 DEF Looking, WaitHit, At
  <2>. QED
    BY <1>5, <2>1, ReuseEffect DEF WaitHit
<1>6. CASE WaitTimeout(s, w)
  BY <1>6, IdleEffect DEF WaitTimeout, At
<1>7. CASE ResolveFails(s, w)
  BY <1>7, IdleEffect DEF ResolveFails, At
<1>8. CASE Resolved(s, w)
  BY <1>8, PcEffect DEF Resolved, At, WorkerPc
<1>9. CASE Extract(s, w)
  BY <1>9, PcEffect DEF Extract, At, WorkerPc
<1>10. CASE Commit(s, w)
  <2>. DEFINE upTo == {mine[i] : i \in {j \in DOMAIN mine : \A k \in 1 .. j : Owns(s, mine[k])}}
  <2>1. CASE upTo = Elements(mine)
    <3>1. entry' = [t \in Texts |-> IF t \in upTo THEN Stored(t) ELSE entry[t]] /\ Set(s, w, Idle)
      BY <1>10, <2>1 DEF Commit
    <3>2. \A t \in upTo : Owns(s, t)
      <4>. SUFFICES ASSUME NEW i \in DOMAIN mine, \A k \in 1 .. i : Owns(s, mine[k])
                    PROVE  Owns(s, mine[i])
        OBVIOUS
      <4>1. i \in 1 .. i
        OBVIOUS
      <4>. QED
        BY <4>1
    <3>3. \A t \in Texts : Stored(t) \in Entry /\ Stored(t).owner = None
      BY DEF Stored, Entry
    <3>4. /\ entry' \in [Texts -> Entry]
          /\ \A t \in Texts : entry'[t] = entry[t] \/ Frees(s, w, t)
      BY <2>1, <3>1, <3>2, <3>3 DEF TypeOK, Frees, Owns
    <3>5. Idle.pc = "idle"
      BY DEF Idle
    <3>. QED
      BY <1>10, <3>1, <3>4, <3>5, IdleType DEF Effect, Commit, At
  <2>2. CASE upTo # Elements(mine)
    <3>1. entry' = entry /\ Set(s, w, [worker[s][w] EXCEPT !.pc = "failing"])
      BY <1>10, <2>2 DEF Commit
    <3>. QED
      BY <1>10, <3>1, PcEffect DEF Commit, At, WorkerPc
  <2>. QED
    BY <2>1, <2>2
<1>11. CASE CommitFails(s, w)
  BY <1>11, PcEffect DEF CommitFails, At, WorkerPc
<1>12. CASE Release(s, w)
  <2>1. PICK ok \in BOOLEAN : entry' = [t \in Texts |->
           IF ok /\ t \in Freed(s, w) THEN [status |-> "claimed", owner |-> None, ttl |-> -1] ELSE entry[t]]
    BY <1>12 DEF Release
  <2>2. [status |-> "claimed", owner |-> None, ttl |-> -1] \in Entry
    BY TicksAssumption DEF Entry
  <2>3. /\ entry' \in [Texts -> Entry]
        /\ \A t \in Texts : entry'[t] = entry[t] \/ Frees(s, w, t)
    BY <2>1, <2>2 DEF TypeOK, Frees, Freed
  <2>4. Set(s, w, Idle) \/ Set(s, w, [Idle EXCEPT !.pc = "exited"])
    BY <1>12 DEF Release, Set
  <2>5. Idle.pc = "idle" /\ [Idle EXCEPT !.pc = "exited"].pc = "exited"
    BY DEF Idle
  <2>. QED
    BY <1>12, <2>3, <2>4, <2>5, IdleType DEF Effect, Release, At
<1>. QED
  BY <1>1, <1>2, <1>3, <1>4, <1>5, <1>6, <1>7, <1>8, <1>9, <1>10, <1>11, <1>12 DEF WorkerStep

\* ... and leaves the sessions up, or down, that are.
LEMMA SessionEffect ==
  ASSUME TypeOK, NEW s \in Sessions, NEW w \in Workers,
         TakeTask(s, w) \/ WorkerStep(s, w)
  PROVE  /\ session' \in [Sessions -> Session]
         /\ \A q \in Sessions : session'[q].up = session[q].up
<1>1. CASE session' = session
  BY <1>1 DEF TypeOK
<1>2. CASE ResolveFails(s, w)
  BY <1>2 DEF ResolveFails, TypeOK, Session
<1>3. CASE Commit(s, w)
  <2>. DEFINE mine == worker[s][w].claimed
  <2>. DEFINE upTo == {mine[i] : i \in {j \in DOMAIN mine : \A k \in 1 .. j : Owns(s, mine[k])}}
  <2>1. mine \in Seq(Texts)
    BY DEF TypeOK, Worker
  <2>2. upTo \subseteq Texts
    BY <2>1
  <2>3. session' = [session EXCEPT ![s].committed = @ \cup upTo]
    BY <1>3 DEF Commit
  <2>. QED
    BY <2>2, <2>3 DEF TypeOK, Session
<1>4. CASE Release(s, w)
  <2>1. PICK abort \in BOOLEAN : session' = [session EXCEPT ![s].aborted = @ \/ abort]
    BY <1>4 DEF Release
  <2>2. session[s] \in Session
    BY DEF TypeOK
  <2>. DEFINE y == [session[s] EXCEPT !.aborted = @ \/ abort]
  <2>3. y \in Session /\ y.up = session[s].up
    <3>1. CASE abort
      BY <2>2, <3>1 DEF Session
    <3>2. CASE ~abort
      BY <2>2, <3>2 DEF Session
    <3>. QED
      BY <2>1, <3>1, <3>2
  <2>4. session' = [session EXCEPT ![s] = y]
    BY <2>1
  <2>. QED
    BY <2>3, <2>4 DEF TypeOK
<1>. QED
  BY <1>1, <1>2, <1>3, <1>4
  DEF TakeTask, WorkerStep, Claim, Look, WaitHit, WaitTimeout, Resolved, Extract, CommitFails

-----------------------------------------------------------------------------
(* Types and finality *)

TypeInv == TypeOK /\ Looking

\* The first state has no entries and idle workers.
LEMMA InitTypes == Init => TypeInv
<1>. SUFFICES ASSUME Init PROVE TypeInv
  OBVIOUS
<1>1. entry \in [Texts -> Entry] /\ session \in [Sessions -> Session]
  BY DEF Init, Entry, Session
<1>2. worker \in [Sessions -> [Workers -> Worker]]
  BY IdleType DEF Init
<1>3. Looking
  BY DEF Init, Looking, Idle
<1>. QED
  BY <1>1, <1>2, <1>3 DEF Init, TypeInv, TypeOK

\* Renewal keeps the types.
LEMMA RenewTypes ==
  ASSUME TypeOK, NEW s \in Sessions, Renew(s)
  PROVE  entry' \in [Texts -> Entry]
<1>1. \A t \in Texts : entry[t].status = "claimed" /\ entry[t] \in Entry => [entry[t] EXCEPT !.ttl = LeaseTicks] \in Entry
  BY TicksAssumption DEF Entry
<1>. QED
  BY <1>1 DEF Renew, TypeOK

\* The clock keeps the types.
LEMMA TickTypes ==
  ASSUME TypeOK, Tick
  PROVE  /\ entry' \in [Texts -> Entry]
         /\ \A t \in Texts : entry'[t].status = entry[t].status /\ entry'[t].owner = entry[t].owner
         /\ \A t \in Texts : entry[t].status = "committed" => entry'[t] = entry[t]
         /\ worker' \in [Sessions -> [Workers -> Worker]]
         /\ \A s \in Sessions, w \in Workers :
              /\ worker'[s][w].claimed = worker[s][w].claimed
              /\ worker'[s][w].pc = worker[s][w].pc /\ worker'[s][w].todo = worker[s][w].todo
<1>1. ASSUME NEW t \in Texts
      PROVE  /\ [entry[t] EXCEPT !.ttl = Elapse(@)] \in Entry
             /\ [entry[t] EXCEPT !.ttl = Elapse(@)].status = entry[t].status
             /\ [entry[t] EXCEPT !.ttl = Elapse(@)].owner = entry[t].owner
             /\ entry[t].status = "committed" => [entry[t] EXCEPT !.ttl = Elapse(@)] = entry[t]
  <2>1. entry[t] \in Entry
    BY DEF TypeOK
  <2>. QED
    BY <2>1, TicksAssumption DEF Entry, Elapse
<1>2. ASSUME NEW s \in Sessions, NEW w \in Workers
      PROVE  LET x == [worker[s][w] EXCEPT !.timer = IF @ > 0 THEN @ - 1 ELSE 0]
             IN x \in Worker /\ x.claimed = worker[s][w].claimed
                  /\ x.pc = worker[s][w].pc /\ x.todo = worker[s][w].todo
  <2>1. worker[s][w] \in Worker
    BY DEF TypeOK
  <2>2. (IF worker[s][w].timer > 0 THEN worker[s][w].timer - 1 ELSE 0) \in 0 .. WaitTicks
    BY <2>1, TicksAssumption DEF Worker
  <2>. QED
    BY <2>1, <2>2 DEF Worker
<1>3. \A t \in Texts : entry'[t] = [entry[t] EXCEPT !.ttl = Elapse(@)]
  BY DEF Tick
<1>4. entry' \in [Texts -> Entry]
  BY <1>1 DEF Tick
<1>5. \A s \in Sessions, w \in Workers :
        worker'[s][w] = [worker[s][w] EXCEPT !.timer = IF @ > 0 THEN @ - 1 ELSE 0]
  BY DEF Tick
<1>6. worker' \in [Sessions -> [Workers -> Worker]]
  BY <1>2 DEF Tick
<1>7. ASSUME NEW s \in Sessions, NEW w \in Workers
      PROVE  /\ worker'[s][w].claimed = worker[s][w].claimed
             /\ worker'[s][w].pc = worker[s][w].pc /\ worker'[s][w].todo = worker[s][w].todo
  <2>1. worker[s][w] \in Worker
    BY DEF TypeOK
  <2>2. PICK d \in 0 .. WaitTicks : worker'[s][w] = [worker[s][w] EXCEPT !.timer = d]
    <3>1. (IF worker[s][w].timer > 0 THEN worker[s][w].timer - 1 ELSE 0) \in 0 .. WaitTicks
      BY <2>1, TicksAssumption DEF Worker
    <3>. QED
      BY <1>5, <3>1
  <2>. QED
    BY <2>1, <2>2 DEF Worker
<1>8. \A t \in Texts :
        /\ entry'[t].status = entry[t].status /\ entry'[t].owner = entry[t].owner
        /\ entry[t].status = "committed" => entry'[t] = entry[t]
  BY <1>1, <1>3
<1>. QED
  BY <1>4, <1>6, <1>7, <1>8

\* What the workers meet does not change.
LEMMA LoadStays ==
  ASSUME [Next]_vars
  PROVE  load' = load
<1>1. ASSUME NEW s \in Sessions, NEW w \in Workers, TakeTask(s, w) \/ WorkerStep(s, w)
      PROVE  load' = load
  <2>1. CASE TakeTask(s, w) \/ Claim(s, w) \/ Look(s, w) \/ WaitHit(s, w) \/ WaitTimeout(s, w)
    BY <2>1 DEF TakeTask, Claim, Look, WaitHit, WaitTimeout
  <2>2. CASE ResolveFails(s, w) \/ Resolved(s, w) \/ Extract(s, w) \/ CommitFails(s, w)
    BY <2>2 DEF ResolveFails, Resolved, Extract, CommitFails
  <2>3. CASE Commit(s, w) \/ Release(s, w)
    BY <2>3 DEF Commit, Release
  <2>. QED
    BY <1>1, <2>1, <2>2, <2>3 DEF WorkerStep
<1>2. ASSUME NEW s \in Sessions, Renew(s) \/ Abort(s) \/ Leave(s)
      PROVE  load' = load
  BY <1>2 DEF Renew, Abort, Leave
<1>3. CASE Tick
  BY <1>3 DEF Tick
<1>4. CASE UNCHANGED vars
  BY <1>4 DEF vars
<1>. QED
  BY <1>1, <1>2, <1>3, <1>4 DEF Next

\* Every step keeps the types.
LEMMA TypesStep ==
  ASSUME TypeInv, [Next]_vars
  PROVE  TypeInv'
<1>. USE DEF TypeInv
<1>1. ASSUME NEW s \in Sessions, NEW w \in Workers, TakeTask(s, w) \/ WorkerStep(s, w)
      PROVE  TypeInv'
  <2>1. PICK x \in Worker : Effect(s, w, x)
    BY <1>1, WorkerEffect
  <2>2. /\ worker' \in [Sessions -> [Workers -> Worker]]
        /\ worker'[s][w] = x
        /\ \A q \in Sessions, v \in Workers : q # s \/ v # w => worker'[q][v] = worker[q][v]
    BY <2>1, SetEffect DEF Effect
  <2>3. session' \in [Sessions -> Session]
    BY <1>1, SessionEffect
  <2>4. TypeOK'
    BY <2>1, <2>2, <2>3, LoadStays DEF TypeOK, Effect
  <2>5. Looking'
    BY <2>1, <2>2 DEF Looking, Effect
  <2>. QED
    BY <2>4, <2>5
<1>2. ASSUME NEW s \in Sessions, Renew(s)
      PROVE  TypeInv'
  BY <1>2, RenewTypes, LoadStays DEF Renew, TypeOK, Looking
<1>3. ASSUME NEW s \in Sessions, Abort(s) \/ Leave(s)
      PROVE  TypeInv'
  BY <1>3, LoadStays DEF Abort, Leave, TypeOK, Session, Looking
<1>4. CASE Tick
  <2>1. TypeOK'
    BY <1>4, TickTypes, LoadStays DEF TypeOK, Tick
  <2>2. Looking'
    BY <1>4, TickTypes DEF Looking
  <2>. QED
    BY <2>1, <2>2
<1>5. CASE UNCHANGED vars
  BY <1>5 DEF vars, TypeOK, Looking
<1>. QED
  BY <1>1, <1>2, <1>3, <1>4, <1>5 DEF Next

\* No step changes a committed entry: a lease that is given up or obtained is
\* not one of a committed entry, whose owner is NULL.
LEMMA FinalStep ==
  ASSUME TypeInv, [Next]_vars, NEW t \in Texts, entry[t].status = "committed"
  PROVE  entry'[t] = entry[t]
<1>. USE DEF TypeInv
<1>1. entry[t].owner \notin Sessions
  BY NoneAssumption DEF TypeOK, Entry
<1>2. ASSUME NEW s \in Sessions, NEW w \in Workers, TakeTask(s, w) \/ WorkerStep(s, w)
      PROVE  entry'[t] = entry[t]
  <2>1. PICK x \in Worker : Effect(s, w, x)
    BY <1>2, WorkerEffect
  <2>. QED
    BY <1>1, <2>1 DEF Effect, Frees, Obtains, Claimable
<1>3. ASSUME NEW s \in Sessions, Renew(s)
      PROVE  entry'[t] = entry[t]
  BY <1>3 DEF Renew
<1>4. CASE Tick
  BY <1>4, TickTypes
<1>. QED
  BY <1>2, <1>3, <1>4 DEF Next, Abort, Leave, vars

-----------------------------------------------------------------------------
(* Leases of the sessions that do not stall *)

\* A prompt session that is up has renewed its leases in time.
Renewed == \A t \in Texts, s \in Prompt : entry[t].owner = s /\ session[s].up => entry[t].ttl >= 0

\* A worker of such a session has the leases it remembers.
Held == \A s \in Prompt, w \in Workers : session[s].up =>
          \A t \in Elements(worker[s][w].claimed) : entry[t].owner = s

\* Siblings remember different leases.
Apart == \A s \in Prompt, w, v \in Workers : session[s].up /\ w # v =>
           Elements(worker[s][w].claimed) \cap Elements(worker[s][v].claimed) = {}

LeaseInv == TypeInv /\ Renewed /\ Held /\ Apart

\* Nobody remembers a lease in the first state.
LEMMA InitLeases == Init => LeaseInv
<1>. SUFFICES ASSUME Init PROVE LeaseInv
  OBVIOUS
<1>1. Renewed
  BY NoneAssumption, PromptAssumption DEF Init, Renewed
<1>2. \A s \in Sessions, w \in Workers : Elements(worker[s][w].claimed) = {}
  BY IdleType, ElementsOfNothing DEF Init
<1>. QED
  BY <1>1, <1>2, InitTypes, PromptAssumption DEF LeaseInv, Held, Apart

\* An entry whose lease can be taken is on nobody's list: its lease has run
\* out, or it has none.
LEMMA ClaimableIsUnheld ==
  ASSUME LeaseInv, NEW t \in Texts, Claimable(t),
         NEW s \in Prompt, NEW w \in Workers, session[s].up
  PROVE  t \notin Elements(worker[s][w].claimed)
<1>. SUFFICES ASSUME t \in Elements(worker[s][w].claimed) PROVE FALSE
  OBVIOUS
<1>1. entry[t].owner = s /\ entry[t].ttl >= 0
  BY DEF LeaseInv, Held, Renewed
<1>2. entry[t].ttl \in Int
  BY TicksAssumption DEF LeaseInv, TypeInv, TypeOK, Entry
<1>. QED
  BY <1>1, <1>2, NoneAssumption, PromptAssumption DEF Claimable

\* A step that keeps the lists, the owners and who is up or down.
LEMMA OthersKeepLeases ==
  ASSUME LeaseInv,
         \A s \in Sessions, w \in Workers : worker'[s][w].claimed = worker[s][w].claimed,
         \A t \in Texts : entry'[t].owner = entry[t].owner,
         \A s \in Sessions : session'[s].up => session[s].up
  PROVE  Held' /\ Apart'
<1>. USE PromptAssumption
<1>1. \A s \in Sessions, w \in Workers : Elements(worker[s][w].claimed) \subseteq Texts
  BY ElementsAreTexts DEF LeaseInv, TypeInv, TypeOK, Worker
<1>2. Held'
  BY <1>1 DEF LeaseInv, Held
<1>3. Apart'
  BY DEF LeaseInv, Apart
<1>. QED
  BY <1>2, <1>3

\* A worker's step keeps the lists of all workers true and apart.
LEMMA WorkerKeepsLeases ==
  ASSUME LeaseInv, NEW s \in Sessions, NEW w \in Workers,
         TakeTask(s, w) \/ WorkerStep(s, w)
  PROVE  Held' /\ Apart'
<1>. USE PromptAssumption
<1>. DEFINE list(q, v) == Elements(worker[q][v].claimed)
<1>1. PICK x \in Worker : Effect(s, w, x)
  BY WorkerEffect DEF LeaseInv, TypeInv
<1>2. /\ worker'[s][w] = x
      /\ \A q \in Sessions, v \in Workers : q # s \/ v # w => worker'[q][v] = worker[q][v]
  BY <1>1, SetEffect DEF Effect, LeaseInv, TypeInv
<1>3. \A q \in Sessions : session'[q].up = session[q].up
  BY SessionEffect DEF LeaseInv, TypeInv
<1>4. \A q \in Sessions, v \in Workers : list(q, v) \subseteq Texts
  BY ElementsAreTexts DEF LeaseInv, TypeInv, TypeOK, Worker
<1>5. CASE entry' = entry /\ x.claimed = worker[s][w].claimed
  <2>1. \A q \in Sessions, v \in Workers : worker'[q][v].claimed = worker[q][v].claimed
    BY <1>2, <1>5
  <2>2. \A t \in Texts : entry'[t].owner = entry[t].owner
    BY <1>5
  <2>. QED
    BY <1>3, <2>1, <2>2, OthersKeepLeases
<1>6. CASE x.claimed = <<>> /\ \A t \in Texts : entry'[t] = entry[t] \/ Frees(s, w, t)
  <2>1. Elements(worker'[s][w].claimed) = {}
    BY <1>2, <1>6, ElementsOfNothing
  <2>2. Held'
    <3>. SUFFICES ASSUME NEW q \in Prompt, NEW v \in Workers, session'[q].up,
                         NEW t \in Elements(worker'[q][v].claimed)
                  PROVE  entry'[t].owner = q
      BY DEF Held
    <3>1. (q # s \/ v # w) /\ t \in list(q, v) /\ session[q].up
      BY <1>2, <1>3, <2>1
    <3>2. t \in Texts /\ entry[t].owner = q
      BY <1>4, <3>1 DEF LeaseInv, Held
    <3>3. ~Frees(s, w, t)
      BY <3>1, <3>2 DEF Frees, LeaseInv, Apart
    <3>. QED
      BY <1>6, <3>2, <3>3
  <2>3. Apart'
    BY <1>2, <1>3, <2>1 DEF LeaseInv, Apart
  <2>. QED
    BY <2>2, <2>3
<1>7. CASE /\ Text(s, w) \in Texts
           /\ Elements(x.claimed) = list(s, w) \cup {Text(s, w)}
           /\ Obtains(s, w, Text(s, w))
           /\ \A t \in Texts \ {Text(s, w)} : entry'[t] = entry[t]
  <2>1. \A q \in Prompt, v \in Workers : session[q].up => Text(s, w) \notin list(q, v)
    BY <1>7, ClaimableIsUnheld DEF Obtains
  <2>2. Held'
    <3>. SUFFICES ASSUME NEW q \in Prompt, NEW v \in Workers, session'[q].up,
                         NEW t \in Elements(worker'[q][v].claimed)
                  PROVE  entry'[t].owner = q
      BY DEF Held
    <3>1. CASE t \in list(q, v)
      <4>1. t \in Texts /\ entry[t].owner = q /\ t # Text(s, w)
        BY <1>3, <1>4, <2>1, <3>1 DEF LeaseInv, Held
      <4>. QED
        BY <1>7, <4>1
    <3>2. CASE t \notin list(q, v)
      <4>1. q = s /\ v = w /\ t = Text(s, w)
        BY <1>2, <1>7, <3>2
      <4>. QED
        BY <1>7, <4>1 DEF Obtains
    <3>. QED
      BY <3>1, <3>2
  <2>3. Apart'
    BY <1>2, <1>3, <1>7, <2>1 DEF LeaseInv, Apart
  <2>. QED
    BY <2>2, <2>3
<1>. QED
  BY <1>1, <1>5, <1>6, <1>7 DEF Effect

\* A lease that exists after a step was there before it, and only the clock
\* shortens it, or it is full.
LEMMA LeasesComeFull ==
  ASSUME TypeInv, Next, NEW t \in Texts, NEW s \in Sessions, entry'[t].owner = s
  PROVE  \/ entry'[t].ttl = LeaseTicks
         \/ entry[t].owner = s /\ entry'[t].ttl = entry[t].ttl
         \/ entry[t].owner = s /\ Tick
<1>. USE DEF TypeInv
<1>1. ASSUME NEW q \in Sessions, NEW w \in Workers, TakeTask(q, w) \/ WorkerStep(q, w)
      PROVE  entry'[t].ttl = LeaseTicks \/ entry'[t] = entry[t]
  <2>1. PICK x \in Worker : Effect(q, w, x)
    BY <1>1, WorkerEffect
  <2>. QED
    BY <2>1, NoneAssumption DEF Effect, Frees, Obtains
<1>2. ASSUME NEW q \in Sessions, Renew(q)
      PROVE  entry'[t].ttl = LeaseTicks \/ entry'[t] = entry[t]
  <2>1. entry[t] \in Entry
    BY DEF TypeOK
  <2>2. [entry[t] EXCEPT !.ttl = LeaseTicks].ttl = LeaseTicks
    BY <2>1 DEF Entry
  <2>. QED
    BY <1>2, <2>2 DEF Renew
<1>3. CASE Tick
  BY <1>3, TickTypes
<1>. QED
  BY <1>1, <1>2, <1>3 DEF Next, Abort, Leave

\* A session that is up was up: none comes back.
LEMMA NoneComesBack ==
  ASSUME TypeInv, Next, NEW s \in Sessions, session'[s].up
  PROVE  session[s].up
BY SessionEffect DEF TypeInv, TypeOK, Session, Next, Renew, Abort, Leave, Tick

\* Every step keeps the leases of the prompt sessions.
LEMMA LeasesStep ==
  ASSUME LeaseInv, [Next]_vars
  PROVE  LeaseInv'
<1>. USE PromptAssumption
<1>1. TypeInv'
  BY TypesStep DEF LeaseInv
<1>2. CASE UNCHANGED vars
  BY <1>1, <1>2 DEF vars, LeaseInv, Renewed, Held, Apart
<1>3. CASE Next
  <2>1. Renewed'
    <3>. SUFFICES ASSUME NEW t \in Texts, NEW s \in Prompt, entry'[t].owner = s, session'[s].up
                  PROVE  entry'[t].ttl >= 0
      BY DEF Renewed
    <3>1. CASE entry'[t].ttl = LeaseTicks
      BY <3>1, TicksAssumption
    <3>2. session[s].up
      BY <1>3, NoneComesBack DEF LeaseInv
    <3>3. CASE entry[t].owner = s /\ entry'[t].ttl = entry[t].ttl
      BY <3>2, <3>3 DEF LeaseInv, Renewed
    <3>4. CASE entry[t].owner = s /\ Tick
      <4>1. entry[t] \in Entry /\ entry[t].ttl \in Int
        BY TicksAssumption DEF LeaseInv, TypeInv, TypeOK, Entry
      <4>2. entry[t].ttl > 0
        BY <3>2, <3>4, <4>1 DEF Tick, Due, LeaseInv, Renewed
      <4>3. entry'[t].ttl = entry[t].ttl - 1
        BY <3>4, <4>1, <4>2 DEF Tick, Elapse, Entry
      <4>. QED
        BY <4>1, <4>2, <4>3
    <3>. QED
      BY <1>3, <3>1, <3>3, <3>4, LeasesComeFull DEF LeaseInv
  <2>2. Held' /\ Apart'
    <3>1. ASSUME NEW s \in Sessions, NEW w \in Workers, TakeTask(s, w) \/ WorkerStep(s, w)
          PROVE  Held' /\ Apart'
      BY <3>1, WorkerKeepsLeases
    <3>2. ASSUME NEW s \in Sessions, Renew(s) PROVE Held' /\ Apart'
      <4>1. ASSUME NEW t \in Texts PROVE entry'[t].owner = entry[t].owner
        <5>1. entry[t] \in Entry
          BY DEF LeaseInv, TypeInv, TypeOK
        <5>2. [entry[t] EXCEPT !.ttl = LeaseTicks].owner = entry[t].owner
          BY <5>1 DEF Entry
        <5>. QED
          BY <3>2, <5>2 DEF Renew
      <4>. QED
        BY <3>2, <4>1, OthersKeepLeases DEF Renew
    <3>3. ASSUME NEW s \in Sessions, Abort(s) \/ Leave(s) PROVE Held' /\ Apart'
      <4>1. \A q \in Sessions : session'[q].up => session[q].up
        BY <1>3, NoneComesBack DEF LeaseInv
      <4>. QED
        BY <3>3, <4>1, OthersKeepLeases DEF Abort, Leave
    <3>4. CASE Tick
      <4>1. TypeOK
        BY DEF LeaseInv, TypeInv
      <4>. QED
        BY <3>4, <4>1, TickTypes, OthersKeepLeases DEF Tick
    <3>. QED
      BY <1>3, <3>1, <3>2, <3>3, <3>4 DEF Next
  <2>. QED
    BY <1>1, <2>1, <2>2 DEF LeaseInv
<1>. QED
  BY <1>2, <1>3

-----------------------------------------------------------------------------
(* Theorems *)

\* The types, with a text to look at, hold in every reachable state.
LEMMA TypesHold == Spec => []TypeInv
<1>1. TypeInv /\ [Next]_vars => TypeInv'
  BY TypesStep
<1>. QED
  BY InitTypes, <1>1, PTL DEF Spec

\* The variables keep their types: a committed entry has no owner.
THEOREM TypeCorrect == Spec => []TypeOK
BY TypesHold, PTL DEF TypeInv

\* No late commit, release, claim or renewal of any session changes a
\* committed result, however sessions stall and die (causal-cache-store.ts).
THEOREM CommittedStays == Spec => CommittedIsFinal
<1>1. TypeInv /\ [Next]_vars => [\A t \in Texts : entry[t].status = "committed" => entry'[t] = entry[t]]_vars
  BY FinalStep
<1>. QED
  BY TypesHold, <1>1, PTL DEF Spec, CommittedIsFinal

\* The leases of the sessions that do not stall.
LEMMA LeasesHold == Spec => []LeaseInv
<1>1. LeaseInv /\ [Next]_vars => LeaseInv'
  BY LeasesStep
<1>. QED
  BY InitLeases, <1>1, PTL DEF Spec

\* No worker of a session that does not stall loses a lease that it works under,
\* so no result that was paid for is refused (resolveTaskCache, commitCacheEntry).
THEOREM PromptWorkersKeepClaims == Spec => []ClaimsAreKept
<1>1. LeaseInv => ClaimsAreKept
  <2>. SUFFICES ASSUME LeaseInv, NEW s \in Prompt, NEW w \in Workers, Working(s, w),
                       NEW t \in Elements(worker[s][w].claimed)
                PROVE  entry[t].status = "claimed" /\ entry[t].owner = s
    BY DEF ClaimsAreKept
  <2>1. entry[t].owner = s
    BY DEF LeaseInv, Held, Working
  <2>2. t \in Texts
    BY ElementsAreTexts, PromptAssumption DEF LeaseInv, TypeInv, TypeOK, Worker
  <2>. QED
    BY <2>1, <2>2, NoneAssumption, PromptAssumption DEF LeaseInv, TypeInv, TypeOK, Entry
<1>. QED
  BY LeasesHold, <1>1, PTL

\* ... and no two workers hold the lease of one text, siblings with one owner
\* id included (claimCacheEntry).
THEOREM PromptHoldersDiffer == Spec => []OneHolder
<1>1. LeaseInv => OneHolder
  <2>. SUFFICES ASSUME LeaseInv, NEW s1 \in Prompt, NEW s2 \in Prompt, NEW w1 \in Workers, NEW w2 \in Workers,
                       Working(s1, w1), Working(s2, w2), s1 # s2 \/ w1 # w2,
                       NEW t \in Elements(worker[s1][w1].claimed), t \in Elements(worker[s2][w2].claimed)
                PROVE  FALSE
    BY DEF OneHolder
  <2>1. entry[t].owner = s1 /\ entry[t].owner = s2
    BY DEF LeaseInv, Held, Working
  <2>. QED
    BY <2>1 DEF LeaseInv, Apart, Working
<1>. QED
  BY LeasesHold, <1>1, PTL

=============================================================================
