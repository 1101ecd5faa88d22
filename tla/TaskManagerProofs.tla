-------------------------- MODULE TaskManagerProofs --------------------------
(***************************************************************************)
(* The safety of TaskManager for every set of tasks, clients and closers,  *)
(* every cap and every TTL.  The properties are not inductive one by one:  *)
(* the counter running is right only because a status changes with the     *)
(* control of the goroutine, and the cap holds for calls of req.Run only   *)
(* because each of them has an entry the counter counts.                   *)
(***************************************************************************)
EXTENDS TaskManager, FiniteSetTheorems, TLAPS

-----------------------------------------------------------------------------
(* The inductive invariant *)

\* An entry's status and its place in the map follow from the control of the
\* Submit and the goroutine that keep them.
ControlMatches ==
  \A t \in Task :
    /\ pc[t] \in {"new", "rejected"} => status[t] = "none" /\ t \notin tasks
    /\ pc[t] \in {"inserted", "executing", "returned"} => status[t] = "running" /\ t \in tasks
    /\ pc[t] \in {"published", "exited"} => status[t] \in Final
    /\ t \in doneCh <=> pc[t] \in {"published", "exited"}

\* wg counts the goroutines that were launched and have not called Done.
WaitGroupExact == wg = Cardinality(Live)

CapHeld == running <= MaxConcurrent

IInv ==
  /\ TypeOK
  /\ ControlMatches
  /\ SlotsExact
  /\ CapHeld
  /\ WaitGroupExact
  /\ KeptForTTL
  /\ CloseCancelsAll
  /\ AnswersTrue

-----------------------------------------------------------------------------
(* Lemmas on the sets the counters count *)

\* Every set the manager counts is finite.
LEMMA CountedSetsFinite ==
  ASSUME TypeOK
  PROVE  /\ IsFiniteSet(RunningEntries) /\ Cardinality(RunningEntries) \in Nat
         /\ IsFiniteSet(Live) /\ Cardinality(Live) \in Nat
<1>1. RunningEntries \in SUBSET Task /\ Live \in SUBSET Task
  BY DEF TypeOK, RunningEntries, Live
<1>2. QED
  BY <1>1, TaskAssumption, FS_Subset, FS_CardinalityType

\* What run publishes is an ending.
LEMMA StatusOfIsFinal ==
  ASSUME NEW o
  PROVE  StatusOf(o) \in Final /\ StatusOf(o) # "running" /\ StatusOf(o) # "none"
BY DEF StatusOf, Final

\* A sweep takes no running entry.
LEMMA SweepKeepsRunning ==
  ASSUME NEW t \in tasks, status[t] = "running"
  PROVE  t \in Swept(tasks)
BY DEF Swept, Stale

\* An entry that a sweep takes has ended, longer than TTL ago.
LEMMA SweptIsOld ==
  ASSUME TypeOK, NEW t \in tasks, t \notin Swept(tasks)
  PROVE  status[t] # "running" /\ completed[t] + TTL < now
BY ConfigAssumption DEF TypeOK, Swept, Stale

-----------------------------------------------------------------------------
(* Initially *)

LEMMA InitEstablishesIInv == Init => IInv
<1> SUFFICES ASSUME Init PROVE IInv
  OBVIOUS
<1>1. TypeOK
  <2>1. view \in [Client -> [Task -> Answer \union {"none", "waiting"}]]
    BY DEF Init
  <2>2. now \in 0..MaxTime /\ 0 \in 0..MaxTime
    BY ConfigAssumption DEF Init
  <2>3. QED
    BY <2>1, <2>2 DEF Init, TypeOK, Control
<1>2. ControlMatches
  BY DEF Init, ControlMatches
<1>3. RunningEntries = {} /\ Live = {}
  BY DEF Init, RunningEntries, Live
<1>4. SlotsExact /\ CapHeld /\ WaitGroupExact
  BY <1>3, FS_EmptySet, ConfigAssumption DEF Init, SlotsExact, CapHeld, WaitGroupExact
<1>5. KeptForTTL /\ CloseCancelsAll /\ AnswersTrue
  BY DEF Init, KeptForTTL, CloseCancelsAll, AnswersTrue, Accepted, Final
<1>6. QED
  BY <1>1, <1>2, <1>4, <1>5 DEF IInv

-----------------------------------------------------------------------------
(* Each action preserves the invariant *)

LEMMA RejectKeepsIInv ==
  ASSUME IInv, NEW t \in Task, Reject(t)
  PROVE  IInv'
<1> USE DEF IInv, Reject
<1>1. TypeOK'
  BY DEF TypeOK, Control
<1>2. ControlMatches'
  BY DEF ControlMatches, TypeOK
<1>3. RunningEntries' = RunningEntries /\ Live' = Live
  BY DEF RunningEntries, Live, TypeOK
<1>4. SlotsExact' /\ CapHeld' /\ WaitGroupExact'
  BY <1>3 DEF SlotsExact, CapHeld, WaitGroupExact
<1>5. KeptForTTL' /\ CloseCancelsAll' /\ AnswersTrue'
  BY DEF KeptForTTL, CloseCancelsAll, AnswersTrue, Accepted, TypeOK
<1>6. QED
  BY <1>1, <1>2, <1>4, <1>5

LEMMA InsertKeepsIInv ==
  ASSUME IInv, NEW t \in Task, Insert(t)
  PROVE  IInv'
<1> USE DEF IInv
<1>1. status[t] = "none" /\ t \notin tasks /\ ~ closed /\ running < MaxConcurrent
  BY ConfigAssumption DEF Insert, Refuses, ControlMatches, TypeOK
<1>2. TypeOK'
  BY ConfigAssumption DEF TypeOK, Insert, Control, Swept
<1>3. ControlMatches'
  <2> SUFFICES ASSUME NEW u \in Task
               PROVE  /\ pc'[u] \in {"new", "rejected"} => status'[u] = "none" /\ u \notin tasks'
                      /\ pc'[u] \in {"inserted", "executing", "returned"}
                           => status'[u] = "running" /\ u \in tasks'
                      /\ pc'[u] \in {"published", "exited"} => status'[u] \in Final
                      /\ u \in doneCh' <=> pc'[u] \in {"published", "exited"}
    BY DEF ControlMatches
  <2>1. CASE u = t
    BY <2>1 DEF Insert, TypeOK, ControlMatches
  <2>2. CASE u # t
    BY <2>2, SweepKeepsRunning DEF Insert, TypeOK, ControlMatches, Swept
  <2>3. QED
    BY <2>1, <2>2
<1>4. RunningEntries' = RunningEntries \union {t} /\ t \notin RunningEntries
  BY <1>1, SweepKeepsRunning DEF RunningEntries, Insert, TypeOK, Swept
<1>5. SlotsExact'
  BY <1>4, CountedSetsFinite, FS_AddElement DEF SlotsExact, Insert
<1>6. CapHeld'
  BY <1>1, ConfigAssumption DEF CapHeld, Insert, TypeOK
<1>7. Live' = Live
  BY DEF Live, Insert, TypeOK
<1>8. WaitGroupExact'
  BY <1>7 DEF WaitGroupExact, Insert
<1>9. KeptForTTL'
  <2> SUFFICES ASSUME NEW u \in Accepted', u \notin tasks'
               PROVE  status'[u] \in Final /\ completed'[u] + TTL < now'
    BY DEF KeptForTTL
  <2>1. u \in Accepted /\ u # t
    BY DEF Accepted, Insert, TypeOK
  <2>2. CASE u \in tasks
    <3>1. u \notin Swept(tasks)
      BY DEF Insert
    <3>2. status[u] # "running" /\ completed[u] + TTL < now
      BY <2>2, <3>1, SweptIsOld
    <3>3. status[u] \in Final
      BY <2>1, <3>2 DEF ControlMatches, Accepted
    <3>4. QED
      BY <2>1, <3>2, <3>3 DEF Insert, TypeOK, Accepted
  <2>3. CASE u \notin tasks
    BY <2>1, <2>3 DEF KeptForTTL, Insert, TypeOK, Accepted
  <2>4. QED
    BY <2>2, <2>3
<1>10. CloseCancelsAll'
  BY <1>1 DEF CloseCancelsAll, Insert
<1>11. AnswersTrue'
  BY <1>1 DEF AnswersTrue, Insert, TypeOK, Final, Swept
<1>12. QED
  BY <1>2, <1>3, <1>5, <1>6, <1>8, <1>9, <1>10, <1>11

LEMMA LaunchKeepsIInv ==
  ASSUME IInv, NEW t \in Task, Launch(t)
  PROVE  IInv'
<1> USE DEF IInv
<1>1. TypeOK'
  BY DEF TypeOK, Launch, Control
<1>2. ControlMatches'
  BY DEF ControlMatches, TypeOK, Launch
<1>3. RunningEntries' = RunningEntries
  BY DEF RunningEntries, Launch
<1>4. SlotsExact' /\ CapHeld'
  BY <1>3 DEF SlotsExact, CapHeld, Launch
<1>5. Live' = Live \union {t} /\ t \notin Live
  BY DEF Live, Launch, TypeOK
<1>6. WaitGroupExact'
  BY <1>5, CountedSetsFinite, FS_AddElement DEF WaitGroupExact, Launch
<1>7. KeptForTTL'
  BY DEF KeptForTTL, ControlMatches, Accepted, Launch, TypeOK
<1>8. CloseCancelsAll' /\ AnswersTrue'
  BY DEF CloseCancelsAll, AnswersTrue, Launch
<1>9. QED
  BY <1>1, <1>2, <1>4, <1>6, <1>7, <1>8

LEMMA RunReturnsKeepsIInv ==
  ASSUME IInv, NEW t \in Task, NEW o \in Outcome, RunReturns(t, o)
  PROVE  IInv'
<1> USE DEF IInv
<1>1. TypeOK'
  BY DEF TypeOK, RunReturns, Control
<1>2. ControlMatches'
  BY DEF ControlMatches, TypeOK, RunReturns
<1>3. RunningEntries' = RunningEntries /\ Live' = Live
  BY DEF RunningEntries, Live, RunReturns, TypeOK
<1>4. SlotsExact' /\ CapHeld' /\ WaitGroupExact'
  BY <1>3 DEF SlotsExact, CapHeld, WaitGroupExact, RunReturns
<1>5. KeptForTTL'
  BY DEF KeptForTTL, ControlMatches, Accepted, RunReturns, TypeOK
<1>6. CloseCancelsAll' /\ AnswersTrue'
  BY DEF CloseCancelsAll, AnswersTrue, RunReturns
<1>7. QED
  BY <1>1, <1>2, <1>4, <1>5, <1>6

LEMMA PublishKeepsIInv ==
  ASSUME IInv, NEW t \in Task, Publish(t)
  PROVE  IInv'
<1> USE DEF IInv
<1>1. status[t] = "running" /\ t \in tasks
  BY DEF Publish, ControlMatches
<1>2. StatusOf(outcome[t]) \in Final /\ StatusOf(outcome[t]) # "running"
  BY StatusOfIsFinal
<1>3. RunningEntries' = RunningEntries \ {t} /\ t \in RunningEntries
  BY <1>1, <1>2 DEF RunningEntries, Publish, TypeOK
<1>4. Cardinality(RunningEntries') = Cardinality(RunningEntries) - 1
  BY <1>3, CountedSetsFinite, FS_RemoveElement
<1>5. Cardinality(RunningEntries') \in Nat
  BY <1>3, CountedSetsFinite, FS_RemoveElement, FS_CardinalityType
<1>6. SlotsExact' /\ running' \in Nat
  BY <1>4, <1>5 DEF SlotsExact, Publish
<1>7. CapHeld'
  BY ConfigAssumption DEF CapHeld, Publish, TypeOK
<1>8. TypeOK'
  BY <1>2, <1>6 DEF TypeOK, Publish, Control
<1>9. ControlMatches'
  BY <1>1, <1>2 DEF ControlMatches, TypeOK, Publish
<1>10. Live' = Live
  BY DEF Live, Publish, TypeOK
<1>11. WaitGroupExact'
  BY <1>10 DEF WaitGroupExact, Publish
<1>12. KeptForTTL'
  BY <1>1 DEF KeptForTTL, Accepted, Publish, TypeOK
<1>13. CloseCancelsAll'
  BY <1>2 DEF CloseCancelsAll, Publish, TypeOK
<1>14. AnswersTrue'
  BY <1>1 DEF AnswersTrue, Publish, TypeOK, Final
<1>15. QED
  BY <1>6, <1>7, <1>8, <1>9, <1>11, <1>12, <1>13, <1>14

LEMMA ExitKeepsIInv ==
  ASSUME IInv, NEW t \in Task, Exit(t)
  PROVE  IInv'
<1> USE DEF IInv
<1>1. Live' = Live \ {t} /\ t \in Live
  BY DEF Live, Exit, TypeOK
<1>2. Cardinality(Live') = Cardinality(Live) - 1 /\ Cardinality(Live') \in Nat
  BY <1>1, CountedSetsFinite, FS_RemoveElement, FS_CardinalityType
<1>3. WaitGroupExact' /\ wg' \in Nat
  BY <1>2 DEF WaitGroupExact, Exit
<1>4. TypeOK'
  BY <1>3 DEF TypeOK, Exit, Control
<1>5. ControlMatches'
  BY DEF ControlMatches, TypeOK, Exit
<1>6. RunningEntries' = RunningEntries
  BY DEF RunningEntries, Exit
<1>7. SlotsExact' /\ CapHeld'
  BY <1>6 DEF SlotsExact, CapHeld, Exit
<1>8. KeptForTTL'
  BY DEF KeptForTTL, Accepted, Exit, TypeOK
<1>9. CloseCancelsAll' /\ AnswersTrue'
  BY DEF CloseCancelsAll, AnswersTrue, Exit
<1>10. QED
  BY <1>3, <1>4, <1>5, <1>7, <1>8, <1>9

LEMMA GetKeepsIInv ==
  ASSUME IInv, NEW c \in Client, NEW t \in Task, Get(c, t)
  PROVE  IInv'
<1> USE DEF IInv
<1>1. status[t] \in Final \union {"running"}
  BY DEF Get, Accepted, ControlMatches
<1>2. TypeOK'
  BY <1>1 DEF TypeOK, Get, Answer, Swept
<1>3. ControlMatches'
  BY SweepKeepsRunning DEF ControlMatches, TypeOK, Get, Swept
<1>4. RunningEntries' = RunningEntries /\ Live' = Live
  BY SweepKeepsRunning DEF RunningEntries, Live, Get, Swept
<1>5. SlotsExact' /\ CapHeld' /\ WaitGroupExact'
  BY <1>4 DEF SlotsExact, CapHeld, WaitGroupExact, Get
<1>6. \A u \in Accepted : u \notin tasks' => status[u] \in Final /\ completed[u] + TTL < now
  BY SweptIsOld DEF KeptForTTL, ControlMatches, Accepted, Get
<1>7. KeptForTTL'
  BY <1>6 DEF KeptForTTL, Accepted, Get
<1>8. CloseCancelsAll'
  BY DEF CloseCancelsAll, Get
<1>9. AnswersTrue'
  <2> SUFFICES ASSUME NEW d \in Client, NEW u \in Task
               PROVE  /\ view'[d][u] \in Final => view'[d][u] = status'[u]
                      /\ view'[d][u] = "not_found" => u \notin tasks' /\ status'[u] \in Final
    BY DEF AnswersTrue
  <2>1. CASE d = c /\ u = t
    BY <1>1, <1>6, <2>1 DEF Get, TypeOK, Final
  <2>2. CASE ~ (d = c /\ u = t)
    BY <2>2 DEF Get, TypeOK, AnswersTrue, Swept
  <2>3. QED
    BY <2>1, <2>2
<1>10. QED
  BY <1>2, <1>3, <1>5, <1>7, <1>8, <1>9

\* Wait's three steps change nothing but the client's view.
LEMMA ViewChangeKeepsIInv ==
  ASSUME IInv, NEW c \in Client, NEW t \in Task,
         NEW v \in Answer \union {"none", "waiting"},
         v \in Final => v = status[t],
         v = "not_found" => t \notin tasks /\ status[t] \in Final,
         view' = [view EXCEPT ![c][t] = v],
         UNCHANGED <<now, tasks, running, closed, wg, pc, status, created, completed,
                     cancelled, outcome, doneCh, closer>>
  PROVE  IInv'
<1> USE DEF IInv
<1>1. TypeOK'
  BY DEF TypeOK
<1>2. ControlMatches'
  BY DEF ControlMatches
<1>3. RunningEntries' = RunningEntries /\ Live' = Live
  BY DEF RunningEntries, Live
<1>4. SlotsExact' /\ CapHeld' /\ WaitGroupExact'
  BY <1>3 DEF SlotsExact, CapHeld, WaitGroupExact
<1>5. KeptForTTL' /\ CloseCancelsAll'
  BY DEF KeptForTTL, CloseCancelsAll, Accepted
<1>6. AnswersTrue'
  BY DEF AnswersTrue, TypeOK
<1>7. QED
  BY <1>1, <1>2, <1>4, <1>5, <1>6

LEMMA WaitingKeepsIInv ==
  ASSUME IInv, NEW c \in Client, NEW t \in Task,
         Wait(c, t) \/ WaitDone(c, t) \/ WaitCtx(c, t)
  PROVE  IInv'
<1>1. CASE Wait(c, t)
  <2>1. t \notin tasks => status[t] \in Final
    BY <1>1 DEF IInv, KeptForTTL, Wait
  <2>2. CASE t \in tasks
    BY <1>1, <2>2, ViewChangeKeepsIInv DEF Wait, Final
  <2>3. CASE t \notin tasks
    BY <1>1, <2>1, <2>3, ViewChangeKeepsIInv DEF Wait, Answer, Final
  <2>4. QED
    BY <2>2, <2>3
<1>2. CASE WaitDone(c, t)
  <2>1. status[t] \in Final
    BY <1>2 DEF IInv, ControlMatches, WaitDone
  <2>2. QED
    BY <1>2, <2>1, ViewChangeKeepsIInv DEF WaitDone, Answer, Final
<1>3. CASE WaitCtx(c, t)
  BY <1>3, ViewChangeKeepsIInv DEF WaitCtx, Answer, Final
<1>4. QED
  BY <1>1, <1>2, <1>3

LEMMA CloseKeepsIInv ==
  ASSUME IInv, NEW k \in Closer, CloseFirst(k) \/ CloseAgain(k) \/ CloseWait(k)
  PROVE  IInv'
<1> USE DEF IInv
<1>1. UNCHANGED <<now, tasks, running, wg, pc, status, created, completed, outcome, doneCh, view>>
  BY DEF CloseFirst, CloseAgain, CloseWait
<1>2. TypeOK'
  BY <1>1 DEF TypeOK, CloseFirst, CloseAgain, CloseWait, RunningEntries
<1>3. ControlMatches'
  BY <1>1 DEF ControlMatches
<1>4. RunningEntries' = RunningEntries /\ Live' = Live
  BY <1>1 DEF RunningEntries, Live
<1>5. SlotsExact' /\ CapHeld' /\ WaitGroupExact'
  BY <1>1, <1>4 DEF SlotsExact, CapHeld, WaitGroupExact
<1>6. KeptForTTL' /\ AnswersTrue'
  BY <1>1 DEF KeptForTTL, AnswersTrue, Accepted
<1>7. \A t \in Task : status[t] = "running" => t \in tasks
  BY DEF ControlMatches, TypeOK, Control, Final
<1>8. CloseCancelsAll'
  BY <1>7 DEF CloseCancelsAll, CloseFirst, CloseAgain, CloseWait, RunningEntries
<1>9. QED
  BY <1>2, <1>3, <1>5, <1>6, <1>8

LEMMA TickKeepsIInv ==
  ASSUME IInv, Tick
  PROVE  IInv'
<1> USE DEF IInv, Tick
<1>1. TypeOK'
  BY ConfigAssumption DEF TypeOK
<1>2. ControlMatches'
  BY DEF ControlMatches
<1>3. RunningEntries' = RunningEntries /\ Live' = Live
  BY DEF RunningEntries, Live
<1>4. SlotsExact' /\ CapHeld' /\ WaitGroupExact'
  BY <1>3 DEF SlotsExact, CapHeld, WaitGroupExact
<1>5. KeptForTTL'
  BY ConfigAssumption DEF KeptForTTL, Accepted, TypeOK
<1>6. CloseCancelsAll' /\ AnswersTrue'
  BY DEF CloseCancelsAll, AnswersTrue
<1>7. QED
  BY <1>1, <1>2, <1>4, <1>5, <1>6

LEMMA StutterKeepsIInv ==
  ASSUME IInv, UNCHANGED vars
  PROVE  IInv'
BY DEF IInv, vars, TypeOK, ControlMatches, SlotsExact, CapHeld, WaitGroupExact, KeptForTTL,
       CloseCancelsAll, AnswersTrue, RunningEntries, Live, Accepted

LEMMA NextKeepsIInv == IInv /\ [Next]_vars => IInv'
<1> SUFFICES ASSUME IInv, [Next]_vars PROVE IInv'
  OBVIOUS
<1>1. ASSUME NEW t \in Task, Reject(t) \/ Insert(t) \/ Launch(t)
      PROVE  IInv'
  BY <1>1, RejectKeepsIInv, InsertKeepsIInv, LaunchKeepsIInv
<1>2. ASSUME NEW t \in Task, RunStep(t) \/ Publish(t) \/ Exit(t)
      PROVE  IInv'
  BY <1>2, RunReturnsKeepsIInv, PublishKeepsIInv, ExitKeepsIInv DEF RunStep
<1>3. ASSUME NEW c \in Client, NEW t \in Task,
             Get(c, t) \/ Wait(c, t) \/ WaitDone(c, t) \/ WaitCtx(c, t)
      PROVE  IInv'
  BY <1>3, GetKeepsIInv, WaitingKeepsIInv
<1>4. ASSUME NEW k \in Closer, CloseFirst(k) \/ CloseAgain(k) \/ CloseWait(k)
      PROVE  IInv'
  BY <1>4, CloseKeepsIInv
<1>5. CASE Tick
  BY <1>5, TickKeepsIInv
<1>6. CASE UNCHANGED vars
  BY <1>6, StutterKeepsIInv
<1>7. QED
  BY <1>1, <1>2, <1>3, <1>4, <1>5, <1>6 DEF Next

-----------------------------------------------------------------------------
(* The theorems *)

\* The invariant holds in every reachable state.
THEOREM InvariantHolds == Safety => []IInv
BY InitEstablishesIInv, NextKeepsIInv, PTL DEF Safety

\* Type correctness: in particular neither running nor the wait group's counter
\* ever goes below zero, which would make wg.Done panic.
THEOREM TypeCorrect == Safety => []TypeOK
<1>1. IInv => TypeOK
  BY DEF IInv
<1>2. QED
  BY <1>1, InvariantHolds, PTL

\* The counter is exact: no ending leaks a slot of the pool.
THEOREM SlotsAreExact == Safety => []SlotsExact
<1>1. IInv => SlotsExact
  BY DEF IInv
<1>2. QED
  BY <1>1, InvariantHolds, PTL

\* max_concurrent caps the calls of req.Run in progress.
THEOREM RunsAreBounded == Safety => []RunsBounded
<1>1. IInv => RunsBounded
  <2> SUFFICES ASSUME IInv PROVE RunsBounded
    OBVIOUS
  <2>1. Executing \in SUBSET RunningEntries
    BY DEF IInv, ControlMatches, Executing, RunningEntries
  <2>2. Cardinality(Executing) <= Cardinality(RunningEntries) /\ Cardinality(Executing) \in Nat
    BY <2>1, CountedSetsFinite, FS_Subset, FS_CardinalityType DEF IInv
  <2>3. QED
    BY <2>2, ConfigAssumption DEF IInv, SlotsExact, CapHeld, RunsBounded, TypeOK
<1>2. QED
  BY <1>1, InvariantHolds, PTL

\* An accepted task is found by its id until TTL has passed since its ending.
THEOREM TasksAreKeptForTTL == Safety => []KeptForTTL
<1>1. IInv => KeptForTTL
  BY DEF IInv
<1>2. QED
  BY <1>1, InvariantHolds, PTL

\* After Close's critical section every unfinished task has been cancelled.
THEOREM CloseCancelsEveryTask == Safety => []CloseCancelsAll
<1>1. IInv => CloseCancelsAll
  BY DEF IInv
<1>2. QED
  BY <1>1, InvariantHolds, PTL

\* No client is told an ending that is not the task's, nor "not found" of a task
\* that is still in the map.
THEOREM AnswersAreTrue == Safety => []AnswersTrue
<1>1. IInv => AnswersTrue
  BY DEF IInv
<1>2. QED
  BY <1>1, InvariantHolds, PTL

-----------------------------------------------------------------------------
(* Action properties *)

\* A Wait that found its task is never told "not found".
THEOREM WaitsKeepTheirTask == Safety => WaitKeepsItsTask
<1>1. ASSUME IInv, [Next]_vars, NEW c \in Client, NEW t \in Task, view[c][t] = "waiting"
      PROVE  view'[c][t] # "not_found"
  <2>1. CASE UNCHANGED view
    BY <1>1, <2>1
  <2>2. ASSUME NEW d \in Client, NEW u \in Task, Get(d, u) \/ Wait(d, u)
        PROVE  view'[c][t] = view[c][t]
    BY <1>1, <2>2 DEF Get, Wait, IInv, TypeOK
  <2>3. ASSUME NEW d \in Client, NEW u \in Task, WaitDone(d, u)
        PROVE  view'[c][t] # "not_found"
    BY <1>1, <2>3 DEF WaitDone, IInv, TypeOK, Final
  <2>4. ASSUME NEW d \in Client, NEW u \in Task, WaitCtx(d, u)
        PROVE  view'[c][t] # "not_found"
    BY <1>1, <2>4 DEF WaitCtx, IInv, TypeOK
  <2>5. CASE UNCHANGED vars
    BY <2>1, <2>5 DEF vars
  <2>6. ASSUME NEW u \in Task, Reject(u) \/ Insert(u) \/ Launch(u) \/ RunStep(u) \/ Publish(u) \/ Exit(u)
        PROVE  UNCHANGED view
    BY <2>6 DEF Reject, Insert, Launch, RunStep, RunReturns, Publish, Exit
  <2>7. ASSUME NEW k \in Closer, CloseFirst(k) \/ CloseAgain(k) \/ CloseWait(k)
        PROVE  UNCHANGED view
    BY <2>7 DEF CloseFirst, CloseAgain, CloseWait
  <2>8. CASE Tick
    BY <2>1, <2>8 DEF Tick
  <2>9. QED
    BY <1>1, <2>1, <2>2, <2>3, <2>4, <2>5, <2>6, <2>7, <2>8 DEF Next
<1>2. IInv /\ [Next]_vars =>
        [\A c \in Client, t \in Task : view[c][t] = "waiting" => view'[c][t] # "not_found"]_vars
  BY <1>1
<1>3. QED
  BY <1>2, InvariantHolds, PTL DEF Safety, WaitKeepsItsTask

\* The Close that drains returns only when every launched goroutine is done.
THEOREM DrainWaitsForGoroutines == Safety => DrainWaits
<1>1. ASSUME IInv, IInv', [Next]_vars, NEW k \in Closer,
             closer[k] \in {"draining", "blocked"}, closer'[k] = "returned"
      PROVE  Live' = {}
  <2>1. wg' = 0
    <3>1. ASSUME NEW t \in Task, Exit(t)
          PROVE  wg' = 0
      <4>1. closer'[k] = IF closer[k] = "blocked" /\ wg' = 0 THEN "returned" ELSE closer[k]
        BY <1>1, <3>1 DEF Exit
      <4>2. QED
        BY <1>1, <4>1
    <3>2. ASSUME NEW l \in Closer, CloseFirst(l) \/ CloseAgain(l)
          PROVE  FALSE
      BY <1>1, <3>2 DEF CloseFirst, CloseAgain, IInv, TypeOK
    <3>3. ASSUME NEW l \in Closer, CloseWait(l)
          PROVE  wg' = 0
      BY <1>1, <3>3 DEF CloseWait, IInv, TypeOK
    <3>4. closer' # closer
      BY <1>1
    <3>5. ASSUME NEW t \in Task, Reject(t) \/ Insert(t) \/ Launch(t) \/ RunStep(t) \/ Publish(t)
          PROVE  UNCHANGED closer
      BY <3>5 DEF Reject, Insert, Launch, RunStep, RunReturns, Publish
    <3>6. ASSUME NEW c \in Client, NEW t \in Task,
                 Get(c, t) \/ Wait(c, t) \/ WaitDone(c, t) \/ WaitCtx(c, t)
          PROVE  UNCHANGED closer
      BY <3>6 DEF Get, Wait, WaitDone, WaitCtx
    <3>7. Tick \/ UNCHANGED vars => UNCHANGED closer
      BY DEF Tick, vars
    <3>8. QED
      BY <1>1, <3>1, <3>2, <3>3, <3>4, <3>5, <3>6, <3>7 DEF Next
  <2>2. Cardinality(Live') = 0
    BY <1>1, <2>1 DEF IInv, WaitGroupExact
  <2>3. IsFiniteSet(Live')
    <3>1. Live' \in SUBSET Task
      BY DEF Live
    <3>2. QED
      BY <3>1, TaskAssumption, FS_Subset
  <2>4. QED
    BY <2>2, <2>3, FS_EmptySet
<1>2. IInv /\ IInv' /\ [Next]_vars =>
        [\A k \in Closer : closer[k] \in {"draining", "blocked"} /\ closer'[k] = "returned"
            => Live' = {}]_vars
  BY <1>1
<1>3. QED
  BY <1>2, InvariantHolds, PTL DEF Safety, DrainWaits

-----------------------------------------------------------------------------
(* Refinement: the manager implements the lifecycle *)

\* The lifecycle's running tasks are the running entries.
LEMMA InFlightIsRunning ==
  ASSUME IInv
  PROVE  Lifecycle!InFlight = RunningEntries
BY DEF IInv, ControlMatches, Lifecycle!InFlight, RunningEntries, LifeOf, TypeOK

\* The tasks a sweep takes have ended, and are gone after it.
LEMMA SweptHaveEnded ==
  ASSUME IInv
  PROVE  tasks \ Swept(tasks) \subseteq Lifecycle!Ended
<1> SUFFICES ASSUME NEW t \in tasks, t \notin Swept(tasks)
             PROVE  t \in Task /\ LifeOf(t) \in Final
  BY DEF Lifecycle!Ended, Lifecycle!Ending, Final
<1>1. t \in Task /\ status[t] # "running"
  BY SweptIsOld DEF IInv, TypeOK
<1>2. status[t] \in Final
  BY <1>1 DEF IInv, ControlMatches, TypeOK, Control
<1>3. QED
  BY <1>1, <1>2 DEF LifeOf

LEMMA InsertBegins ==
  ASSUME IInv, NEW t \in Task, Insert(t)
  PROVE  Lifecycle!Begin(t, tasks \ Swept(tasks))
<1>1. t \notin tasks /\ pc[t] = "new" /\ ~ closed /\ ~ closed'
  BY DEF IInv, ControlMatches, Insert, Refuses
<1>2. Lifecycle!Cardinality(Lifecycle!InFlight) < MaxConcurrent
  <2>1. Cardinality(Lifecycle!InFlight) < MaxConcurrent
    BY InFlightIsRunning, ConfigAssumption DEF IInv, SlotsExact, Insert, Refuses, TypeOK
  <2>2. Lifecycle!Cardinality(Lifecycle!InFlight) = Cardinality(Lifecycle!InFlight)
    BY DEF Lifecycle!Cardinality, Cardinality
  <2>3. QED
    BY <2>1, <2>2
<1>3. tasks \ Swept(tasks) \subseteq Lifecycle!Ended
  BY SweptHaveEnded
<1>4. ASSUME NEW u \in Task
      PROVE  LifeOf(u)' = IF u = t THEN "running"
                          ELSE IF u \in tasks \ Swept(tasks) THEN "gone" ELSE LifeOf(u)
  <2>1. CASE u = t
    BY <2>1 DEF Insert, LifeOf, IInv, TypeOK
  <2>2. CASE u # t /\ u \in tasks
    <3>1. pc[u] \notin {"new", "rejected"} /\ pc'[u] = pc[u] /\ status'[u] = status[u]
      BY <2>2 DEF Insert, IInv, TypeOK, ControlMatches
    <3>2. QED
      BY <2>2, <3>1 DEF Insert, LifeOf
  <2>3. CASE u # t /\ u \notin tasks
    BY <2>3 DEF Insert, LifeOf, IInv, TypeOK, Swept
  <2>4. QED
    BY <2>1, <2>2, <2>3
<1>5. LifeOf(t) = "absent"
  BY <1>1 DEF LifeOf
<1>6. QED
  BY <1>1, <1>2, <1>3, <1>4, <1>5 DEF Lifecycle!Begin

LEMMA PublishEnds ==
  ASSUME IInv, NEW t \in Task, Publish(t)
  PROVE  Lifecycle!End(t, StatusOf(outcome[t]))
<1>1. t \in tasks /\ status[t] = "running"
  BY DEF IInv, ControlMatches, Publish
<1>2. ASSUME NEW u \in Task
      PROVE  LifeOf(u)' = IF u = t THEN StatusOf(outcome[t]) ELSE LifeOf(u)
  BY <1>1 DEF LifeOf, Publish, IInv, TypeOK
<1>3. QED
  BY <1>1, <1>2 DEF Lifecycle!End, LifeOf, Publish

LEMMA GetForgets ==
  ASSUME IInv, NEW c \in Client, NEW t \in Task, Get(c, t)
  PROVE  Lifecycle!Forget(tasks \ Swept(tasks))
<1>1. ASSUME NEW u \in Task
      PROVE  LifeOf(u)' = IF u \in tasks \ Swept(tasks) THEN "gone" ELSE LifeOf(u)
  BY DEF LifeOf, Get, IInv, ControlMatches, Swept
<1>2. QED
  BY <1>1, SweptHaveEnded DEF Lifecycle!Forget, Get

\* Steps that touch neither the map, nor a status, nor the closed flag.
LEMMA OthersStutter ==
  ASSUME IInv, UNCHANGED <<tasks, status, closed>>,
         \A t \in Task : pc'[t] \in {"new", "rejected"} <=> pc[t] \in {"new", "rejected"}
  PROVE  UNCHANGED Lifecycle!lifeVars
BY DEF LifeOf, Lifecycle!lifeVars

LEMMA StepImplementsLifecycle == IInv /\ [Next]_vars => [Lifecycle!LifeNext]_(Lifecycle!lifeVars)
<1> SUFFICES ASSUME IInv, [Next]_vars
             PROVE  Lifecycle!LifeNext \/ UNCHANGED Lifecycle!lifeVars
  OBVIOUS
<1> tasks \ Swept(tasks) \in SUBSET Task
  BY DEF IInv, TypeOK
<1>1. ASSUME NEW t \in Task, Insert(t)
      PROVE  Lifecycle!LifeNext
  BY <1>1, InsertBegins DEF Lifecycle!LifeNext
<1>2. ASSUME NEW t \in Task, Publish(t)
      PROVE  Lifecycle!LifeNext
  BY <1>2, PublishEnds, StatusOfIsFinal DEF Lifecycle!LifeNext, Lifecycle!Ending, Final
<1>3. ASSUME NEW c \in Client, NEW t \in Task, Get(c, t)
      PROVE  Lifecycle!LifeNext
  BY <1>3, GetForgets DEF Lifecycle!LifeNext
<1>4. ASSUME NEW t \in Task, Reject(t) \/ Launch(t) \/ RunStep(t) \/ Exit(t)
      PROVE  UNCHANGED Lifecycle!lifeVars
  BY <1>4, OthersStutter DEF Reject, Launch, RunStep, RunReturns, Exit, IInv, TypeOK
<1>5. ASSUME NEW c \in Client, NEW t \in Task, Wait(c, t) \/ WaitDone(c, t) \/ WaitCtx(c, t)
      PROVE  UNCHANGED Lifecycle!lifeVars
  BY <1>5, OthersStutter DEF Wait, WaitDone, WaitCtx
<1>6. ASSUME NEW k \in Closer, CloseFirst(k)
      PROVE  Lifecycle!LifeNext
  <2>1. Lifecycle!Shut
    BY <1>6 DEF CloseFirst, Lifecycle!Shut, LifeOf
  <2>2. QED
    BY <2>1 DEF Lifecycle!LifeNext
<1>7. ASSUME NEW k \in Closer, CloseAgain(k) \/ CloseWait(k)
      PROVE  UNCHANGED Lifecycle!lifeVars
  BY <1>7, OthersStutter DEF CloseAgain, CloseWait
<1>8. CASE Tick \/ UNCHANGED vars
  BY <1>8, OthersStutter DEF Tick, vars
<1>9. QED
  BY <1>1, <1>2, <1>3, <1>4, <1>5, <1>6, <1>7, <1>8 DEF Next

\* The manager implements the lifecycle's safety: from its initial states, every
\* step is a step of the lifecycle or leaves it alone.
THEOREM ImplementsLifecycleSafely == Safety => KeepsLifecycle
<1>1. Init => Lifecycle!LifeInit
  BY DEF Init, Lifecycle!LifeInit, LifeOf
<1>2. QED
  BY <1>1, StepImplementsLifecycle, InvariantHolds, PTL
  DEF Safety, KeepsLifecycle, Lifecycle!LifeSafety

=============================================================================
