----------------------------- MODULE TaskManager -----------------------------
(***************************************************************************)
(* internal/task: the in-memory manager behind pf_fault and pf_poke        *)
(* mode:agent.  Handlers Submit work that runs on a detached goroutine,    *)
(* Get and Wait for it, and the shutdown path Closes the manager.          *)
(*                                                                         *)
(* Every critical section of Manager.mu is one step.  What the code does   *)
(* outside the mutex is a step of its own: Submit's wg.Add and go (after   *)
(* it unlocked), req.Run, the deferred calls of run, Wait's select and     *)
(* Close's wg.Wait.                                                        *)
(*                                                                         *)
(* A member of Task is one call of Submit and the id it mints (128 random  *)
(* bits, taken to be unique).  The result text, the agent, backend and     *)
(* caller fields and the elapsed time are left out.                        *)
(***************************************************************************)
EXTENDS Integers, FiniteSets

CONSTANTS
  Task,           \* the calls of Submit
  Client,         \* who polls and waits; each call is a handler goroutine
  Closer,         \* the callers of Close
  MaxConcurrent,  \* Config.MaxConcurrency()
  TTL,            \* Config.TTL()
  Timeout,        \* SubmitRequest.Timeout
  MaxTime         \* bound: the clock stops here

ASSUME TaskAssumption == IsFiniteSet(Task)

ASSUME ConfigAssumption ==
  /\ MaxConcurrent \in Nat \ {0}
  /\ TTL \in Nat \ {0}
  /\ Timeout \in Nat \ {0}
  /\ MaxTime \in Nat

VARIABLES
  now,            \* the clock
  tasks,          \* Manager.tasks: the ids in the map
  running,        \* Manager.running
  closed,         \* Manager.closed
  wg,             \* Manager.wg's counter
  pc,             \* pc[t]: where t's Submit, then its goroutine, is
  status,         \* entry.task.Status, "none" before the insertion
  created,        \* entry.task.CreatedAt
  completed,      \* when req.Run returned; published as CompletedAt with the status
  cancelled,      \* the tasks whose run context was cancelled
  outcome,        \* what req.Run returned, until run has published it
  doneCh,         \* the tasks whose done channel is closed
  view,           \* view[c][t]: c's open Wait on t, or its latest answer about t
  closer          \* closer[k]: where the call of Close by k is

vars == <<now, tasks, running, closed, wg, pc, status, created, completed,
          cancelled, outcome, doneCh, view, closer>>

-----------------------------------------------------------------------------
Final == {"done", "failed", "timed_out"}

Outcome == {"value", "timeout", "error", "panic"}

\* The switch of run: nil, a *TimeoutError, any other error, a recovered panic.
StatusOf(o) ==
  CASE o = "value"   -> "done"
    [] o = "timeout" -> "timed_out"
    [] OTHER         -> "failed"

\* "new", "rejected" and "inserted" are Submit's; the rest are the goroutine's,
\* which exists once Submit has returned.
Control == {"new", "rejected", "inserted", "executing", "returned", "published", "exited"}

Accepted == {t \in Task : pc[t] \in {"executing", "returned", "published", "exited"}}

Executing == {t \in Task : pc[t] = "executing"}

\* The goroutines wg counts: launched, and not yet past wg.Done.
Live == {t \in Task : pc[t] \in {"executing", "returned", "published"}}

RunningEntries == {t \in tasks : status[t] = "running"}

\* Mutation: the run context gets no timeout.
CtxDoneNoTimeout(t) == t \in cancelled

\* The run context is done: Close or run cancelled it, or its timeout passed.
CtxDone(t) == t \in cancelled \/ now >= created[t] + Timeout

\* Mutations: age counted from the submission; running entries, whose CompletedAt
\* is still nil, swept like the others.
StaleByCreation(t) == status[t] # "running" /\ created[t] < now - TTL
StaleRunningToo(t) == completed[t] < now - TTL

\* sweepLocked leaves running entries and those that completed at most TTL ago.
Stale(t) == status[t] # "running" /\ completed[t] < now - TTL

Swept(S) == {t \in S : ~ Stale(t)}

Answer == Final \union {"running", "not_found", "ctx_err"}

TypeOK ==
  /\ now \in 0..MaxTime
  /\ tasks \subseteq Task
  /\ running \in Nat
  /\ closed \in BOOLEAN
  /\ wg \in Nat
  /\ pc \in [Task -> Control]
  /\ status \in [Task -> Final \union {"none", "running"}]
  /\ created \in [Task -> 0..MaxTime]
  /\ completed \in [Task -> 0..MaxTime]
  /\ cancelled \subseteq Task
  /\ outcome \in [Task -> Outcome \union {"none"}]
  /\ doneCh \subseteq Task
  /\ view \in [Client -> [Task -> Answer \union {"none", "waiting"}]]
  /\ closer \in [Closer -> {"idle", "draining", "blocked", "returned"}]

Init ==
  /\ now = 0
  /\ tasks = {}
  /\ running = 0
  /\ closed = FALSE
  /\ wg = 0
  /\ pc = [t \in Task |-> "new"]
  /\ status = [t \in Task |-> "none"]
  /\ created = [t \in Task |-> 0]
  /\ completed = [t \in Task |-> 0]
  /\ cancelled = {}
  /\ outcome = [t \in Task |-> "none"]
  /\ doneCh = {}
  /\ view = [c \in Client |-> [t \in Task |-> "none"]]
  /\ closer = [k \in Closer |-> "idle"]

-----------------------------------------------------------------------------
(* Submit *)

\* Mutation: the closed flag is not read.
RefusesIgnoresClosed == running >= MaxConcurrent

\* Submit's two refusals: ErrManagerClosed and ErrBackpressure.
Refuses == closed \/ running >= MaxConcurrent

Reject(t) ==
  /\ pc[t] = "new"
  /\ Refuses
  /\ pc' = [pc EXCEPT ![t] = "rejected"]
  /\ UNCHANGED <<now, tasks, running, closed, wg, status, created, completed,
                 cancelled, outcome, doneCh, view, closer>>

\* The critical section of an admitted Submit, its sweep included.  The last
\* guard is a bound: a task is admitted only if its deadline is before MaxTime.
Insert(t) ==
  /\ pc[t] = "new"
  /\ ~ Refuses
  /\ now + Timeout <= MaxTime
  /\ pc' = [pc EXCEPT ![t] = "inserted"]
  /\ status' = [status EXCEPT ![t] = "running"]
  /\ created' = [created EXCEPT ![t] = now]
  /\ running' = running + 1
  /\ tasks' = Swept(tasks) \union {t}
  /\ UNCHANGED <<now, closed, wg, completed, cancelled, outcome, doneCh, view, closer>>

\* Mutation: the goroutine is launched without wg.Add.
LaunchUncounted(t) ==
  /\ pc[t] = "inserted"
  /\ pc' = [pc EXCEPT ![t] = "executing"]
  /\ UNCHANGED <<now, tasks, running, closed, wg, status, created, completed,
                 cancelled, outcome, doneCh, view, closer>>

\* After the unlock: wg.Add(1), go m.run, return the snapshot.
Launch(t) ==
  /\ pc[t] = "inserted"
  /\ pc' = [pc EXCEPT ![t] = "executing"]
  /\ wg' = wg + 1
  /\ UNCHANGED <<now, tasks, running, closed, status, created, completed,
                 cancelled, outcome, doneCh, view, closer>>

-----------------------------------------------------------------------------
(* run, the goroutine of a task *)

\* req.Run may return anything at any time; a panic is recovered.
RunReturns(t, o) ==
  /\ pc[t] = "executing"
  /\ pc' = [pc EXCEPT ![t] = "returned"]
  /\ outcome' = [outcome EXCEPT ![t] = o]
  /\ completed' = [completed EXCEPT ![t] = now]
  /\ UNCHANGED <<now, tasks, running, closed, wg, status, created, cancelled,
                 doneCh, view, closer>>

\* Mutations: a recovered panic skips running-- or close(e.done).
PublishPanicKeepsSlot(t) ==
  /\ pc[t] = "returned"
  /\ pc' = [pc EXCEPT ![t] = "published"]
  /\ status' = [status EXCEPT ![t] = StatusOf(outcome[t])]
  /\ running' = IF outcome[t] = "panic" THEN running ELSE running - 1
  /\ doneCh' = doneCh \union {t}
  /\ outcome' = [outcome EXCEPT ![t] = "none"]
  /\ UNCHANGED <<now, tasks, closed, wg, created, completed, cancelled, view, closer>>

PublishPanicLeavesDoneOpen(t) ==
  /\ pc[t] = "returned"
  /\ pc' = [pc EXCEPT ![t] = "published"]
  /\ status' = [status EXCEPT ![t] = StatusOf(outcome[t])]
  /\ running' = running - 1
  /\ doneCh' = IF outcome[t] = "panic" THEN doneCh ELSE doneCh \union {t}
  /\ outcome' = [outcome EXCEPT ![t] = "none"]
  /\ UNCHANGED <<now, tasks, closed, wg, created, completed, cancelled, view, closer>>

\* The critical section of run: the terminal status, running--, close(e.done).
Publish(t) ==
  /\ pc[t] = "returned"
  /\ pc' = [pc EXCEPT ![t] = "published"]
  /\ status' = [status EXCEPT ![t] = StatusOf(outcome[t])]
  /\ running' = running - 1
  /\ doneCh' = doneCh \union {t}
  /\ outcome' = [outcome EXCEPT ![t] = "none"]
  /\ UNCHANGED <<now, tasks, closed, wg, created, completed, cancelled, view, closer>>

\* Mutation: a failed run skips wg.Done.
ExitFailedUncounted(t) ==
  /\ pc[t] = "published"
  /\ pc' = [pc EXCEPT ![t] = "exited"]
  /\ cancelled' = cancelled \union {t}
  /\ wg' = IF status[t] = "failed" THEN wg ELSE wg - 1
  /\ closer' = [k \in Closer |-> IF closer[k] = "blocked" /\ wg' = 0
                                 THEN "returned" ELSE closer[k]]
  /\ UNCHANGED <<now, tasks, running, closed, status, created, completed,
                 outcome, doneCh, view>>

\* The deferred cancel and wg.Done, which wakes a blocked Close at zero.
Exit(t) ==
  /\ pc[t] = "published"
  /\ pc' = [pc EXCEPT ![t] = "exited"]
  /\ cancelled' = cancelled \union {t}
  /\ wg' = wg - 1
  /\ closer' = [k \in Closer |-> IF closer[k] = "blocked" /\ wg' = 0
                                 THEN "returned" ELSE closer[k]]
  /\ UNCHANGED <<now, tasks, running, closed, status, created, completed,
                 outcome, doneCh, view>>

-----------------------------------------------------------------------------
(* Get and Wait.  A client knows an id once Submit has returned it. *)

\* Get sweeps, then looks the id up.
Get(c, t) ==
  /\ t \in Accepted
  /\ view[c][t] # "waiting"
  /\ tasks' = Swept(tasks)
  /\ view' = [view EXCEPT ![c][t] = IF t \in tasks' THEN status[t] ELSE "not_found"]
  /\ UNCHANGED <<now, running, closed, wg, pc, status, created, completed,
                 cancelled, outcome, doneCh, closer>>

\* Wait looks the id up without sweeping, then blocks on the entry's channel.
Wait(c, t) ==
  /\ t \in Accepted
  /\ view[c][t] # "waiting"
  /\ view' = [view EXCEPT ![c][t] = IF t \in tasks THEN "waiting" ELSE "not_found"]
  /\ UNCHANGED <<now, tasks, running, closed, wg, pc, status, created, completed,
                 cancelled, outcome, doneCh, closer>>

\* Mutation: the done arm goes through the map again, as Get does.
WaitDoneByLookup(c, t) ==
  /\ view[c][t] = "waiting"
  /\ t \in doneCh
  /\ tasks' = Swept(tasks)
  /\ view' = [view EXCEPT ![c][t] = IF t \in tasks' THEN status[t] ELSE "not_found"]
  /\ UNCHANGED <<now, running, closed, wg, pc, status, created, completed,
                 cancelled, outcome, doneCh, closer>>

\* Wait's done arm: the snapshot is read from the entry, swept or not.
WaitDone(c, t) ==
  /\ view[c][t] = "waiting"
  /\ t \in doneCh
  /\ view' = [view EXCEPT ![c][t] = status[t]]
  /\ UNCHANGED <<now, tasks, running, closed, wg, pc, status, created, completed,
                 cancelled, outcome, doneCh, closer>>

\* Wait's ctx arm: the caller's context may fire at any time, also when done is closed.
WaitCtx(c, t) ==
  /\ view[c][t] = "waiting"
  /\ view' = [view EXCEPT ![c][t] = "ctx_err"]
  /\ UNCHANGED <<now, tasks, running, closed, wg, pc, status, created, completed,
                 cancelled, outcome, doneCh, closer>>

-----------------------------------------------------------------------------
(* Close *)

\* The critical section of the first Close; running entries get cancelled.
CloseFirst(k) ==
  /\ closer[k] = "idle"
  /\ ~ closed
  /\ closed' = TRUE
  /\ cancelled' = cancelled \union RunningEntries
  /\ closer' = [closer EXCEPT ![k] = "draining"]
  /\ UNCHANGED <<now, tasks, running, wg, pc, status, created, completed,
                 outcome, doneCh, view>>

\* A Close that finds the manager closed returns at once.
CloseAgain(k) ==
  /\ closer[k] = "idle"
  /\ closed
  /\ closer' = [closer EXCEPT ![k] = "returned"]
  /\ UNCHANGED <<now, tasks, running, closed, wg, pc, status, created, completed,
                 cancelled, outcome, doneCh, view>>

\* wg.Wait: return on a zero counter, else block until Exit brings it to zero.
CloseWait(k) ==
  /\ closer[k] = "draining"
  /\ closer' = [closer EXCEPT ![k] = IF wg = 0 THEN "returned" ELSE "blocked"]
  /\ UNCHANGED <<now, tasks, running, closed, wg, pc, status, created, completed,
                 cancelled, outcome, doneCh, view>>

-----------------------------------------------------------------------------
Tick ==
  /\ now < MaxTime
  /\ now' = now + 1
  /\ UNCHANGED <<tasks, running, closed, wg, pc, status, created, completed,
                 cancelled, outcome, doneCh, view, closer>>

RunStep(t) == \E o \in Outcome : RunReturns(t, o)

Next ==
  \/ \E t \in Task : Reject(t) \/ Insert(t) \/ Launch(t)
  \/ \E t \in Task : RunStep(t) \/ Publish(t) \/ Exit(t)
  \/ \E c \in Client, t \in Task : Get(c, t) \/ Wait(c, t) \/ WaitDone(c, t) \/ WaitCtx(c, t)
  \/ \E k \in Closer : CloseFirst(k) \/ CloseAgain(k) \/ CloseWait(k)
  \/ Tick

Safety == Init /\ [][Next]_vars

(***************************************************************************)
(* Goroutines are scheduled and the mutex is not starved for ever.  A Run  *)
(* returns only because its context is done: nothing obliges it to return  *)
(* before.  Clients owe nothing.                                           *)
(***************************************************************************)
Fairness ==
  /\ WF_vars(Tick)
  /\ \A t \in Task :
       /\ WF_vars(Launch(t))
       /\ WF_vars(CtxDone(t) /\ RunStep(t))
       /\ WF_vars(Publish(t))
       /\ WF_vars(Exit(t))
  /\ \A c \in Client, t \in Task : WF_vars(WaitDone(c, t))
  /\ \A k \in Closer : WF_vars(CloseWait(k))

Spec == Safety /\ Fairness

-----------------------------------------------------------------------------
(* Properties *)

\* The cap holds for the work itself: never more than MaxConcurrent calls of
\* req.Run at once, although the check is made on a counter that two critical
\* sections in different goroutines keep (Submit and run).
RunsBounded == Cardinality(Executing) <= MaxConcurrent

\* Manager.running is exactly the number of map entries in status running: no
\* ending, panic included, leaks a slot, and no sweep takes a running entry.
SlotsExact == running = Cardinality(RunningEntries)

\* A task the manager accepted is found by its id until it has ended and TTL has
\* passed since: no earlier sweep by any handler drops it, however long it ran.
KeptForTTL ==
  \A t \in Accepted : t \notin tasks => /\ status[t] \in Final
                                        /\ completed[t] + TTL < now

\* Once Close has cancelled what it found, no task is left with a context that
\* nobody will cancel, whatever Submit was doing meanwhile.
CloseCancelsAll ==
  closed => \A t \in Task : status[t] = "running" => t \in cancelled

\* An answer with an ending is the task's ending, and "not found" is said only of
\* a task that has left the map for good.
AnswersTrue ==
  \A c \in Client, t \in Task :
    /\ view[c][t] \in Final => view[c][t] = status[t]
    /\ view[c][t] = "not_found" => t \notin tasks /\ status[t] \in Final

\* A Wait that found its task never ends in "not found", even when a concurrent
\* sweep reclaims the entry between the done signal and the read of it.
WaitKeepsItsTask ==
  [][\A c \in Client, t \in Task :
       view[c][t] = "waiting" => view'[c][t] # "not_found"]_vars

\* When the Close that drains returns, every goroutine launched by then is past
\* its last deferred call.
DrainWaits ==
  [][\A k \in Closer :
       closer[k] \in {"draining", "blocked"} /\ closer'[k] = "returned"
         => Live' = {}]_vars

\* What the comment on Close says: a Close that has returned leaves no goroutine
\* of a task behind.  (Submit's wg.Add is made after its unlock.)
ClosedMeansQuiet ==
  \A k \in Closer : closer[k] = "returned" => Live = {}

\* Every Wait returns, also those whose task panicked, timed out or was cancelled.
WaitsEnd ==
  \A c \in Client, t \in Task : view[c][t] = "waiting" ~> view[c][t] # "waiting"

\* Close does not hang.
CloseEnds == \A k \in Closer : closer[k] = "draining" ~> closer[k] = "returned"

-----------------------------------------------------------------------------
(* The abstract lifecycle this module implements *)

LifeOf(t) ==
  IF t \in tasks THEN status[t]
  ELSE IF pc[t] \in {"new", "rejected"} THEN "absent"
  ELSE "gone"

Lifecycle == INSTANCE TaskLifecycle
               WITH life <- [t \in Task |-> LifeOf(t)], open <- ~ closed

\* Every step of the manager is a step of the lifecycle or invisible to it, although
\* admission, the run, its publication and the sweep are in different goroutines.
KeepsLifecycle == Lifecycle!LifeSafety

\* The manager also implements the lifecycle's progress: an admitted task ends, by its
\* deadline if by nothing else.
ImplementsLifecycle == Lifecycle!LifeSpec

=============================================================================
