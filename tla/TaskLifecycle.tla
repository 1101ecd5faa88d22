---------------------------- MODULE TaskLifecycle ----------------------------
(***************************************************************************)
(* What the task manager promises its clients, with no map, no counter, no *)
(* goroutine and no clock: a task runs at most once, ends exactly one way, *)
(* keeps that ending until it is forgotten, and is never forgotten while   *)
(* it runs.  At most MaxConcurrent tasks run at once, and none starts once *)
(* the manager is shut.  TaskManager implements this module.               *)
(***************************************************************************)
EXTENDS Naturals, FiniteSets

CONSTANTS
  Task,           \* the submissions a behaviour may make
  MaxConcurrent   \* the cap on tasks running at once

VARIABLES
  life,           \* life[t]: where t is in its lifecycle
  open            \* whether new tasks are still admitted

lifeVars == <<life, open>>

Ending == {"done", "failed", "timed_out"}

Life == {"absent", "running", "gone"} \union Ending

InFlight == {t \in Task : life[t] = "running"}

Ended == {t \in Task : life[t] \in Ending}

LifeTypeOK ==
  /\ life \in [Task -> Life]
  /\ open \in BOOLEAN

LifeInit ==
  /\ life = [t \in Task |-> "absent"]
  /\ open = TRUE

\* Ended tasks may be forgotten at any time, also by the step that begins another.
Begin(t, forgotten) ==
  /\ open
  /\ life[t] = "absent"
  /\ Cardinality(InFlight) < MaxConcurrent
  /\ forgotten \subseteq Ended
  /\ life' = [u \in Task |-> IF u = t THEN "running"
                             ELSE IF u \in forgotten THEN "gone" ELSE life[u]]
  /\ UNCHANGED open

End(t, how) ==
  /\ life[t] = "running"
  /\ life' = [life EXCEPT ![t] = how]
  /\ UNCHANGED open

Forget(forgotten) ==
  /\ forgotten \subseteq Ended
  /\ life' = [u \in Task |-> IF u \in forgotten THEN "gone" ELSE life[u]]
  /\ UNCHANGED open

Shut ==
  /\ open' = FALSE
  /\ UNCHANGED life

LifeNext ==
  \/ \E t \in Task, forgotten \in SUBSET Task : Begin(t, forgotten)
  \/ \E t \in Task, how \in Ending : End(t, how)
  \/ \E forgotten \in SUBSET Task : Forget(forgotten)
  \/ Shut

\* A running task ends: the promise behind every poll and every wait.
LifeFairness ==
  \A t \in Task : WF_lifeVars(\E how \in Ending : End(t, how))

LifeSafety == LifeInit /\ [][LifeNext]_lifeVars

LifeSpec == LifeSafety /\ LifeFairness

=============================================================================
