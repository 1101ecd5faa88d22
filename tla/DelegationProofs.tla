--------------------------- MODULE DelegationProofs ---------------------------
(***************************************************************************)
(* The safety of Delegation for every set of delegations, polls and other   *)
(* tasks, every list of backends and every cap.  A handler, the goroutine   *)
(* of its task and the shutdown meet in three places: the entry that both   *)
(* the manager and a waiter read, the audit file, and the drain.            *)
(***************************************************************************)
EXTENDS Delegation, FiniteSetTheorems, TLAPS

-----------------------------------------------------------------------------
(* The inductive invariant *)

\* What serve has opened and closed follows from its phase.
PhaseMatches ==
  /\ open <=> phase \in {"serving", "draining"}
  /\ logOpen <=> phase \in {"serving", "draining", "closing"}
  /\ phase = "draining" => ~ accepting
  /\ clean => ~ accepting /\ phase \notin {"serving", "draining"}

\* The entry behind a waiter's pointer agrees with the map for as long as the map has it.
EntriesMatch ==
  \A f \in Fault :
    /\ life[f] = "absent" <=> entry[f] = "none"
    /\ life[f] = "running" <=> entry[f] = "running"
    /\ life[f] \in Ending => entry[f] = life[f]

\* A delegation has a task once it has submitted, and an answer once it has decided.
CallMatches(f) ==
  /\ pc[f] \in {"idle", "chosen"} => life[f] = "absent"
  /\ pc[f] \in {"inserted", "submitted", "waiting", "fallback"} => life[f] # "absent"
  /\ pc[f] \notin {"answered", "returned"} => answer[f] = "none"
  /\ pc[f] = "waiting" => f \in sync
  /\ pc[f] = "fallback" => f \in hungUp

CallsMatch == \A f \in Fault : CallMatches(f)

\* A subagent that has got anywhere is of a transport that somebody chose.
AgentMatches(f) ==
  /\ pc[f] \in {"idle", "chosen", "inserted"} => stage[f] = "none"
  /\ pc[f] \in {"chosen", "inserted"} \/ stage[f] # "none" => via[f] \in Transport

AgentsMatch == \A f \in Fault : AgentMatches(f)

\* The mutex is held by a call that has its answer.
LogMatches == \A c \in writer : pc[c] = "answered"

\* A drain that ended in time has left no handler behind.
CleanIsQuiet == clean => \A c \in Call : pc[c] \in {"idle", "returned"}

\* What the next line costs already: the file ends inside a line that is not the writer's.
Debt ==
  IF (writer = {} /\ ~ torn) \/ (writer # {} /\ entire = writer) THEN 0 ELSE 1

\* A failed write pays for two lines: for the one it belongs to, and for what it leaves.
LossBounded ==
  /\ IsFiniteSet(Lost)
  /\ logOpen \/ clean => Cardinality(Lost) + Debt <= 2 * faults

Control ==
  /\ PhaseMatches
  /\ EntriesMatch
  /\ CallsMatch
  /\ AgentsMatch
  /\ LogMatches
  /\ CleanIsQuiet

IInv ==
  /\ TypeOK
  /\ Control
  /\ AnswersTrue
  /\ LossBounded
  /\ GracefulStopLeavesNoTask

-----------------------------------------------------------------------------
(* What the steps are made of *)

\* The backend that is found for an agent has a transport.
LEMMA FoundHasTransport ==
  ASSUME NEW agent, NEW i \in FindSubagent(agent)
  PROVE  Backends[i].kind \in Transport
BY DEF FindSubagent, Exposes

\* However a subagent ends, its task does.
LEMMA ClassifyEnds ==
  ASSUME NEW f
  PROVE  Classify(f) \in Ending
BY DEF Classify, Ending, Lifecycle!Ending

\* A submission begins the task of its call, and may forget others that have ended.
LEMMA BeginChanges ==
  ASSUME life \in [Fault \union Other -> Lifecycle!Life],
         NEW t \in Fault \union Other, NEW S, Lifecycle!Begin(t, S)
  PROVE  /\ open /\ UNCHANGED open /\ life[t] = "absent" /\ life'[t] = "running"
         /\ life' \in [Fault \union Other -> Lifecycle!Life]
         /\ \A u \in (Fault \union Other) \ {t} :
              life'[u] = life[u] \/ (life[u] \in Ending /\ life'[u] = "gone")
BY DEF Lifecycle!Begin, Lifecycle!Ended, Lifecycle!Life, Lifecycle!Ending, Ending

LEMMA EndChanges ==
  ASSUME life \in [Fault \union Other -> Lifecycle!Life],
         NEW t \in Fault \union Other, NEW how \in Ending, Lifecycle!End(t, how)
  PROVE  /\ UNCHANGED open /\ life[t] = "running" /\ life'[t] = how
         /\ life' \in [Fault \union Other -> Lifecycle!Life]
         /\ \A u \in (Fault \union Other) \ {t} : life'[u] = life[u]
BY DEF Lifecycle!End, Lifecycle!Life, Lifecycle!Ending, Ending

LEMMA ForgetChanges ==
  ASSUME life \in [Fault \union Other -> Lifecycle!Life],
         NEW S, Lifecycle!Forget(S)
  PROVE  /\ UNCHANGED open
         /\ life' \in [Fault \union Other -> Lifecycle!Life]
         /\ \A u \in Fault \union Other :
              life'[u] = life[u] \/ (life[u] \in Ending /\ life'[u] = "gone")
BY DEF Lifecycle!Forget, Lifecycle!Ended, Lifecycle!Life, Lifecycle!Ending, Ending

-----------------------------------------------------------------------------
(* Types *)

LEMMA InitTyped == Init => TypeOK
<1> SUFFICES ASSUME Init PROVE TypeOK
  OBVIOUS
<1>1. Lifecycle!LifeTypeOK
  BY DEF Init, Lifecycle!LifeInit, Lifecycle!LifeTypeOK, Lifecycle!Life
<1>2. faults \in 0..MaxFaults
  BY DelegationAssumption DEF Init
<1>3. QED
  BY <1>1, <1>2 DEF Init, TypeOK, Call

LEMMA CallTyped ==
  ASSUME TypeOK, NEW c \in Call, CallStep(c)
  PROVE  TypeOK'
<1> USE DEF TypeOK, taskVars, agentVars, callVars, serverVars, auditVars, Move
<1>1. CASE LogEntry(c)
  <2>1. faults' \in 0..MaxFaults
    BY <1>1, DelegationAssumption DEF LogEntry, WriteFails
  <2>2. Lifecycle!LifeTypeOK'
    BY <1>1 DEF LogEntry, Lifecycle!LifeTypeOK
  <2>3. QED
    BY <1>1, <2>1, <2>2 DEF LogEntry
<1>2. CASE LogNewline(c)
  <2>1. faults' \in 0..MaxFaults
    BY <1>2, DelegationAssumption DEF LogNewline, WriteFails
  <2>2. Lifecycle!LifeTypeOK'
    BY <1>2 DEF LogNewline, Lifecycle!LifeTypeOK
  <2>3. QED
    BY <1>2, <2>1, <2>2 DEF LogNewline
<1>3. QED
  BY <1>1, <1>2 DEF CallStep

LEMMA FaultTyped ==
  ASSUME TypeOK, Control, NEW f \in Fault, FaultStep(f)
  PROVE  TypeOK'
<1> USE DEF TypeOK, taskVars, agentVars, callVars, serverVars, auditVars, Move, Answer, Call
<1>1. CASE Start(f)
  <2>1. \E kind \in Transport : via' = [via EXCEPT ![f] = kind]
    BY <1>1, FoundHasTransport DEF Start
  <2>2. Lifecycle!LifeTypeOK'
    BY <1>1 DEF Start, Lifecycle!LifeTypeOK
  <2>3. QED
    BY <1>1, <2>1, <2>2 DEF Start
<1>2. CASE StartRefused(f)
  BY <1>2 DEF StartRefused, Refusal, Lifecycle!LifeTypeOK
<1>3. CASE Submit(f)
  <2>1. Lifecycle!LifeTypeOK'
    BY <1>3, BeginChanges DEF Submit, Lifecycle!LifeTypeOK
  <2>2. QED
    BY <1>3, <2>1 DEF Submit
<1>4. CASE SubmitRefused(f)
  BY <1>4 DEF SubmitRefused, Refusal, Lifecycle!LifeTypeOK
<1>5. CASE Launch(f)
  BY <1>5 DEF Launch, Lifecycle!LifeTypeOK
<1>6. CASE AnswerAsync(f)
  BY <1>6 DEF AnswerAsync, Lifecycle!LifeTypeOK
<1>7. CASE Wait(f)
  BY <1>7 DEF Wait, Refusal, Lifecycle!LifeTypeOK
<1>8. CASE WaitDone(f)
  BY <1>8 DEF WaitDone, Lifecycle!LifeTypeOK
<1>9. CASE WaitCtx(f)
  BY <1>9 DEF WaitCtx, Control, CallsMatch, CallMatches, Lifecycle!LifeTypeOK
<1>10. CASE Fallback(f)
  <2>1. Lifecycle!LifeTypeOK'
    BY <1>10, ForgetChanges DEF Fallback, Snapshot, Lifecycle!LifeTypeOK
  <2>2. answer' \in [Call -> {"none", "running"} \union Ending \union Refusal]
    BY <1>10, <2>1 DEF Fallback, Snapshot, Refusal, Ending, Lifecycle!LifeTypeOK, Lifecycle!Life
  <2>3. QED
    BY <1>10, <2>1, <2>2 DEF Fallback, Snapshot
<1>11. QED
  BY <1>1, <1>2, <1>3, <1>4, <1>5, <1>6, <1>7, <1>8, <1>9, <1>10 DEF FaultStep

LEMMA AgentTyped ==
  ASSUME TypeOK, NEW f \in Fault, AgentStep(f)
  PROVE  TypeOK'
<1> USE DEF TypeOK, taskVars, agentVars, callVars, serverVars, auditVars
<1>1. CASE ChildExits(f) \/ Headers(f) \/ Body(f)
  BY <1>1 DEF ChildExits, Headers, Body, SubagentStep, Lifecycle!LifeTypeOK
<1>2. CASE PipeCloses(f) \/ Deadline(f)
  BY <1>2 DEF PipeCloses, Deadline, Lifecycle!LifeTypeOK
<1>3. CASE SpawnReturns(f)
  <2>1. Lifecycle!LifeTypeOK'
    BY <1>3, ClassifyEnds, EndChanges DEF SpawnReturns, Lifecycle!LifeTypeOK
  <2>2. entry' \in [Fault -> {"none", "running"} \union Ending]
    BY <1>3, ClassifyEnds DEF SpawnReturns
  <2>3. QED
    BY <1>3, <2>1, <2>2 DEF SpawnReturns
<1>4. QED
  BY <1>1, <1>2, <1>3 DEF AgentStep

LEMMA OthersTyped ==
  ASSUME TypeOK, (\E p \in Poll : PollStep(p)) \/ OtherTask \/ ServerStep \/ UNCHANGED vars
  PROVE  TypeOK'
<1> USE DEF TypeOK, taskVars, agentVars, callVars, serverVars, auditVars, Move, Answer, Call
<1>1. ASSUME NEW p \in Poll, StartPoll(p) PROVE TypeOK'
  BY <1>1 DEF StartPoll, Lifecycle!LifeTypeOK
<1>2. ASSUME NEW p \in Poll, GetTask(p) PROVE TypeOK'
  <2>1. Lifecycle!LifeTypeOK'
    BY <1>2, ForgetChanges DEF GetTask, Snapshot, Lifecycle!LifeTypeOK
  <2>2. answer' \in [Call -> {"none", "running"} \union Ending \union Refusal]
    BY <1>2, <2>1 DEF GetTask, Snapshot, Refusal, Ending, Lifecycle!LifeTypeOK, Lifecycle!Life
  <2>3. QED
    BY <1>2, <2>1, <2>2 DEF GetTask, Snapshot
<1>3. CASE OtherTask
  <2>1. Lifecycle!LifeTypeOK'
    BY <1>3, BeginChanges, EndChanges DEF OtherTask, Lifecycle!LifeTypeOK
  <2>2. QED
    BY <1>3, <2>1 DEF OtherTask
<1>4. CASE Drained \/ DrainExpires \/ ListenerFails
  BY <1>4 DEF Drained, DrainExpires, ListenerFails, ShutTasks, Serve, Lifecycle!Shut,
     Lifecycle!LifeTypeOK
<1>5. CASE Signal \/ CloseLog \/ Exit
  BY <1>5 DEF Signal, CloseLog, Exit, Serve, Lifecycle!LifeTypeOK
<1>6. CASE UNCHANGED vars
  BY <1>6 DEF vars, Lifecycle!LifeTypeOK
<1>7. QED
  BY <1>1, <1>2, <1>3, <1>4, <1>5, <1>6 DEF PollStep, ServerStep

LEMMA StepTyped ==
  ASSUME TypeOK, Control, [Next]_vars
  PROVE  TypeOK'
BY CallTyped, FaultTyped, AgentTyped, OthersTyped DEF Next

-----------------------------------------------------------------------------
(* Control *)

LEMMA InitControlled ==
  ASSUME Init
  PROVE  Control /\ AnswersTrue /\ LossBounded /\ GracefulStopLeavesNoTask
<1> USE DEF Init, Lifecycle!LifeInit, Call, Ending, Lifecycle!Ending
<1>1. PhaseMatches /\ EntriesMatch /\ CallsMatch
  BY DEF PhaseMatches, EntriesMatch, CallsMatch, CallMatches
<1>2. AgentsMatch /\ LogMatches /\ CleanIsQuiet
  BY DEF AgentsMatch, AgentMatches, LogMatches, CleanIsQuiet
<1>3. AnswersTrue /\ GracefulStopLeavesNoTask
  BY DEF AnswersTrue, GracefulStopLeavesNoTask
<1>4. LossBounded
  <2>1. Lost = {} /\ Debt = 0
    BY DEF Lost, Debt
  <2>2. QED
    BY <2>1, FS_EmptySet DEF LossBounded
<1>5. QED
  BY <1>1, <1>2, <1>3, <1>4 DEF Control

\* A step that is none of the shutdown's leaves serve where it is; only Submit and tasks of
\* other calls look at whether the manager is open.
LEMMA PhasesKept ==
  ASSUME TypeOK, Control, [Next]_vars
  PROVE  PhaseMatches'
<1> USE DEF Control, PhaseMatches, taskVars, agentVars, callVars, serverVars, auditVars
<1>1. CASE UNCHANGED <<open, serverVars>>
  BY <1>1
<1>2. ASSUME NEW c \in Call, CallStep(c) PROVE UNCHANGED <<open, serverVars>>
  BY <1>2 DEF CallStep, LogEntry, LogNewline
<1>3. ASSUME NEW f \in Fault, FaultStep(f) PROVE UNCHANGED <<open, serverVars>>
  BY <1>3 DEF FaultStep, Start, StartRefused, Submit, SubmitRefused, Launch, AnswerAsync, Wait,
     WaitDone, WaitCtx, Fallback, Snapshot, Lifecycle!Begin, Lifecycle!Forget
<1>4. ASSUME NEW f \in Fault, AgentStep(f) PROVE UNCHANGED <<open, serverVars>>
  BY <1>4 DEF AgentStep, ChildExits, PipeCloses, Headers, Body, SubagentStep, SpawnReturns,
     Deadline, Lifecycle!End
<1>5. ASSUME NEW p \in Poll, PollStep(p) PROVE UNCHANGED <<open, serverVars>>
  BY <1>5 DEF PollStep, StartPoll, GetTask, Snapshot, Lifecycle!Forget
<1>6. CASE OtherTask
  BY <1>1, <1>6 DEF OtherTask, Lifecycle!Begin, Lifecycle!End
<1>7. CASE Signal
  BY <1>7 DEF Signal, Serve
<1>8. CASE Drained \/ DrainExpires \/ ListenerFails
  BY <1>8 DEF Drained, DrainExpires, ListenerFails, Serve, ShutTasks, Lifecycle!Shut
<1>9. CASE CloseLog \/ Exit
  BY <1>9 DEF CloseLog, Exit, Serve
<1>10. CASE UNCHANGED vars
  BY <1>1, <1>10 DEF vars
<1>11. QED
  BY <1>1, <1>2, <1>3, <1>4, <1>5, <1>6, <1>7, <1>8, <1>9, <1>10 DEF Next, ServerStep

\* What the steps do to the map and to what waiters see of it.
LEMMA EntriesKept ==
  ASSUME TypeOK, Control, [Next]_vars
  PROVE  EntriesMatch'
<1> USE DEF TypeOK, Control, EntriesMatch, Lifecycle!LifeTypeOK, taskVars
<1>0. {"none", "absent", "running", "gone"} \intersect Ending = {}
  BY DEF Ending, Lifecycle!Ending
<1>1. CASE UNCHANGED <<life, entry>>
  BY <1>1
<1>2. CASE /\ UNCHANGED entry
           /\ \A f \in Fault : life'[f] = life[f] \/ (life[f] \in Ending /\ life'[f] = "gone")
  BY <1>0, <1>2
<1>3. ASSUME NEW f \in Fault, Submit(f) PROVE EntriesMatch'
  <2>1. PICK S : Lifecycle!Begin(f, S)
    BY <1>3 DEF Submit
  <2>2. /\ life[f] = "absent" /\ life'[f] = "running"
        /\ \A u \in Fault \ {f} :
             life'[u] = life[u] \/ (life[u] \in Ending /\ life'[u] = "gone")
    BY <2>1, BeginChanges
  <2>3. entry'[f] = "running" /\ \A u \in Fault \ {f} : entry'[u] = entry[u]
    BY <1>3 DEF Submit
  <2>4. QED
    BY <1>0, <2>2, <2>3
<1>4. ASSUME NEW f \in Fault, SpawnReturns(f) PROVE EntriesMatch'
  <2>1. /\ life[f] = "running" /\ life'[f] = Classify(f)
        /\ \A u \in Fault \ {f} : life'[u] = life[u]
    BY <1>4, ClassifyEnds, EndChanges DEF SpawnReturns
  <2>2. entry'[f] = Classify(f) /\ \A u \in Fault \ {f} : entry'[u] = entry[u]
    BY <1>4 DEF SpawnReturns
  <2>3. QED
    BY <1>0, <2>1, <2>2, ClassifyEnds
<1>5. ASSUME NEW c \in Call, NEW missing, NEW f \in Fault, Snapshot(f, c, missing)
      PROVE  EntriesMatch'
  BY <1>2, <1>5, ForgetChanges DEF Snapshot
<1>6. CASE OtherTask
  <2>1. PICK t \in Other : Lifecycle!Begin(t, {}) \/ \E how \in Ending : Lifecycle!End(t, how)
    BY <1>6 DEF OtherTask
  <2>2. t \notin Fault
    BY DelegationAssumption
  <2>3. \A f \in Fault : life'[f] = life[f] \/ (life[f] \in Ending /\ life'[f] = "gone")
    BY <2>1, <2>2, BeginChanges, EndChanges
  <2>4. QED
    BY <1>2, <1>6, <2>3 DEF OtherTask
<1>7. ASSUME NEW c \in Call, CallStep(c) PROVE UNCHANGED <<life, entry>>
  BY <1>7 DEF CallStep, LogEntry, LogNewline
<1>8. ASSUME NEW f \in Fault,
             \/ Start(f) \/ StartRefused(f) \/ SubmitRefused(f) \/ Launch(f)
             \/ AnswerAsync(f) \/ Wait(f) \/ WaitDone(f) \/ WaitCtx(f)
             \/ ChildExits(f) \/ PipeCloses(f) \/ Headers(f) \/ Body(f) \/ Deadline(f)
      PROVE  UNCHANGED <<life, entry>>
  BY <1>8 DEF Start, StartRefused, SubmitRefused, Launch, AnswerAsync, Wait, WaitDone, WaitCtx,
     ChildExits, PipeCloses, Headers, Body, SubagentStep, Deadline
<1>9. ASSUME NEW p \in Poll, StartPoll(p) PROVE UNCHANGED <<life, entry>>
  BY <1>9 DEF StartPoll
<1>10. CASE ServerStep \/ UNCHANGED vars
  BY <1>1, <1>10 DEF ServerStep, Signal, Drained, DrainExpires, ListenerFails, CloseLog, Exit,
     Serve, ShutTasks, Lifecycle!Shut, vars
<1>11. ASSUME NEW f \in Fault, Fallback(f) PROVE EntriesMatch'
  BY <1>5, <1>11 DEF Fallback, Call
<1>12. ASSUME NEW p \in Poll, GetTask(p) PROVE EntriesMatch'
  BY <1>5, <1>12 DEF GetTask, Call
<1>13. QED
  BY <1>1, <1>3, <1>4, <1>6, <1>7, <1>8, <1>9, <1>10, <1>11, <1>12
     DEF Next, FaultStep, AgentStep, PollStep

\* A life that has begun has begun for good, and only the call itself begins it.
GoesOn(f) ==
  /\ life[f] # "absent" => life'[f] # "absent"
  /\ life[f] = "gone" => life'[f] = "gone"
  /\ life[f] = "absent" /\ ~ Submit(f) => life'[f] = "absent"

LEMMA LivesGoOn ==
  ASSUME TypeOK, [Next]_vars, NEW f \in Fault
  PROVE  GoesOn(f)
<1> USE DEF TypeOK, Lifecycle!LifeTypeOK, taskVars
<1>0. {"none", "absent", "running", "gone"} \intersect Ending = {}
  BY DEF Ending, Lifecycle!Ending
<1>1. CASE life'[f] = life[f] \/ (life[f] \in Ending /\ life'[f] = "gone")
  BY <1>0, <1>1 DEF GoesOn
<1>2. ASSUME NEW g \in Fault, Submit(g) PROVE GoesOn(f)
  <2>1. PICK S : Lifecycle!Begin(g, S)
    BY <1>2 DEF Submit
  <2>2. CASE g = f
    BY <2>1, <2>2, <1>2, BeginChanges DEF GoesOn
  <2>3. CASE g # f
    BY <2>1, <2>3, <1>1, BeginChanges
  <2>4. QED
    BY <2>2, <2>3
<1>3. ASSUME NEW g \in Fault, SpawnReturns(g) PROVE GoesOn(f)
  <2>1. Lifecycle!End(g, Classify(g)) /\ Classify(g) \in Ending
    BY <1>3, ClassifyEnds DEF SpawnReturns
  <2>2. /\ life[g] = "running" /\ life'[g] \in Ending
        /\ \A u \in Fault \ {g} : life'[u] = life[u]
    BY <2>1, EndChanges
  <2>3. QED
    BY <1>0, <2>2 DEF GoesOn
<1>4. ASSUME NEW c, NEW missing, NEW g, Snapshot(g, c, missing) PROVE GoesOn(f)
  BY <1>1, <1>4, ForgetChanges DEF Snapshot
<1>5. CASE OtherTask
  <2>1. PICK t \in Other : Lifecycle!Begin(t, {}) \/ \E how \in Ending : Lifecycle!End(t, how)
    BY <1>5 DEF OtherTask
  <2>2. t # f
    BY DelegationAssumption
  <2>3. QED
    BY <1>1, <2>1, <2>2, BeginChanges, EndChanges
<1>6. ASSUME NEW c \in Call, CallStep(c) PROVE UNCHANGED life
  BY <1>6 DEF CallStep, LogEntry, LogNewline
<1>7. ASSUME NEW g \in Fault,
             \/ Start(g) \/ StartRefused(g) \/ SubmitRefused(g) \/ Launch(g)
             \/ AnswerAsync(g) \/ Wait(g) \/ WaitDone(g) \/ WaitCtx(g)
             \/ ChildExits(g) \/ PipeCloses(g) \/ Headers(g) \/ Body(g) \/ Deadline(g)
      PROVE  UNCHANGED life
  BY <1>7 DEF Start, StartRefused, SubmitRefused, Launch, AnswerAsync, Wait, WaitDone, WaitCtx,
     ChildExits, PipeCloses, Headers, Body, SubagentStep, Deadline
<1>8. ASSUME NEW p \in Poll, StartPoll(p) PROVE UNCHANGED life
  BY <1>8 DEF StartPoll
<1>9. CASE ServerStep \/ UNCHANGED vars
  BY <1>1, <1>9 DEF ServerStep, Signal, Drained, DrainExpires, ListenerFails, CloseLog, Exit,
     Serve, ShutTasks, Lifecycle!Shut, vars
<1>10. ASSUME NEW g \in Fault, Fallback(g) PROVE GoesOn(f)
  BY <1>4, <1>10 DEF Fallback
<1>11. ASSUME NEW p \in Poll, GetTask(p) PROVE GoesOn(f)
  BY <1>4, <1>11 DEF GetTask
<1>12. CASE UNCHANGED life
  BY <1>1, <1>12
<1>13. ASSUME NEW g \in Fault, FaultStep(g) PROVE GoesOn(f)
  BY <1>2, <1>7, <1>10, <1>12, <1>13 DEF FaultStep
<1>14. ASSUME NEW g \in Fault, AgentStep(g) PROVE GoesOn(f)
  BY <1>3, <1>7, <1>12, <1>14 DEF AgentStep
<1>15. ASSUME NEW p \in Poll, PollStep(p) PROVE GoesOn(f)
  BY <1>8, <1>11, <1>12, <1>15 DEF PollStep
<1>16. QED
  BY <1>5, <1>6, <1>9, <1>12, <1>13, <1>14, <1>15 DEF Next

\* A call is where it was after every step but its own.
Rests(f) ==
  /\ pc'[f] = pc[f]
  /\ answer'[f] = answer[f]
  /\ f \in sync' <=> f \in sync
  /\ f \in hungUp => f \in hungUp'

\* The steps that move the call of a delegation.
OwnStep(f) == FaultStep(f) \/ CallStep(f)

LEMMA OthersRest ==
  ASSUME TypeOK, [Next]_vars, NEW f \in Fault, ~ OwnStep(f)
  PROVE  Rests(f)
<1> USE DEF TypeOK, Rests, OwnStep, taskVars, agentVars, callVars, serverVars, auditVars, Move,
            Answer, Call
<1>1. ASSUME NEW c \in Call, CallStep(c) PROVE Rests(f)
  BY <1>1 DEF CallStep, LogEntry, LogNewline
<1>2. ASSUME NEW g \in Fault, FaultStep(g) PROVE Rests(f)
  <2>1. g # f
    BY <1>2
  <2>2. CASE Start(g) \/ StartRefused(g) \/ Submit(g) \/ SubmitRefused(g) \/ Launch(g)
    BY <2>1, <2>2 DEF Start, StartRefused, Submit, SubmitRefused, Launch
  <2>3. CASE \/ AnswerAsync(g) \/ Wait(g) \/ WaitDone(g) \/ WaitCtx(g) \/ Fallback(g)
    BY <2>1, <2>3 DEF AnswerAsync, Wait, WaitDone, WaitCtx, Fallback, Snapshot
  <2>4. QED
    BY <1>2, <2>2, <2>3 DEF FaultStep
<1>3. ASSUME NEW g \in Fault, AgentStep(g) PROVE Rests(f)
  BY <1>3 DEF AgentStep, ChildExits, PipeCloses, Headers, Body, SubagentStep, SpawnReturns,
     Deadline
<1>4. ASSUME NEW p \in Poll, PollStep(p) PROVE Rests(f)
  <2>1. p # f
    BY DelegationAssumption
  <2>2. QED
    BY <1>4, <2>1 DEF PollStep, StartPoll, GetTask, Snapshot
<1>5. CASE OtherTask \/ ServerStep \/ UNCHANGED vars
  BY <1>5 DEF OtherTask, ServerStep, Signal, Drained, DrainExpires, ListenerFails, CloseLog, Exit,
     Serve, vars
<1>6. QED
  BY <1>1, <1>2, <1>3, <1>4, <1>5 DEF Next

LEMMA OwnCallKept ==
  ASSUME TypeOK, Control, [Next]_vars, NEW f \in Fault, OwnStep(f)
  PROVE  CallMatches(f)'
<1> USE DEF TypeOK, Control, CallsMatch, CallMatches, callVars, Move, Answer, Call
<1>0. GoesOn(f)
  BY LivesGoOn
<1>1. CASE Start(f)
  BY <1>0, <1>1 DEF Start, Submit, GoesOn
<1>2. CASE Submit(f)
  <2>1. life'[f] = "running"
    BY <1>2, BeginChanges DEF Submit, Lifecycle!LifeTypeOK
  <2>2. QED
    BY <1>2, <2>1 DEF Submit
<1>3. CASE StartRefused(f) \/ SubmitRefused(f) \/ AnswerAsync(f) \/ WaitDone(f) \/ Fallback(f)
  BY <1>3 DEF StartRefused, SubmitRefused, AnswerAsync, WaitDone, Fallback
<1>4. CASE Launch(f) \/ Wait(f) \/ WaitCtx(f)
  BY <1>0, <1>4 DEF Launch, Wait, WaitCtx, GoesOn
<1>5. CASE LogEntry(f) \/ LogNewline(f)
  BY <1>5 DEF LogEntry, LogNewline
<1>6. QED
  BY <1>1, <1>2, <1>3, <1>4, <1>5 DEF OwnStep, FaultStep, CallStep

LEMMA CallsKept ==
  ASSUME TypeOK, Control, [Next]_vars
  PROVE  CallsMatch'
<1> SUFFICES ASSUME NEW f \in Fault PROVE CallMatches(f)'
  BY DEF CallsMatch
<1>1. CASE OwnStep(f)
  BY <1>1, OwnCallKept
<1>2. CASE ~ OwnStep(f)
  <2>1. Rests(f) /\ GoesOn(f) /\ ~ Submit(f)
    BY <1>2, OthersRest, LivesGoOn DEF OwnStep, FaultStep
  <2>2. QED
    BY <2>1 DEF Control, CallsMatch, CallMatches, Rests, GoesOn
<1>3. QED
  BY <1>1, <1>2

LEMMA OwnAgentKept ==
  ASSUME TypeOK, Control, NEW f \in Fault, OwnStep(f) \/ AgentStep(f)
  PROVE  AgentMatches(f)'
<1> USE DEF TypeOK, Control, AgentsMatch, AgentMatches, agentVars, callVars, Move, Call
<1>1. CASE Start(f)
  <2>1. \E kind \in Transport : via' = [via EXCEPT ![f] = kind]
    BY <1>1, FoundHasTransport DEF Start
  <2>2. QED
    BY <1>1, <2>1 DEF Start
<1>2. CASE Submit(f) \/ Launch(f) \/ StartRefused(f) \/ SubmitRefused(f)
  BY <1>2 DEF Submit, Launch, StartRefused, SubmitRefused
<1>3. CASE \/ AnswerAsync(f) \/ Wait(f) \/ WaitDone(f) \/ WaitCtx(f) \/ Fallback(f)
  BY <1>3 DEF AnswerAsync, Wait, WaitDone, WaitCtx, Fallback
<1>4. CASE CallStep(f)
  BY <1>4 DEF CallStep, LogEntry, LogNewline
<1>5. CASE ChildExits(f) \/ Headers(f) \/ Body(f)
  BY <1>5 DEF ChildExits, Headers, Body, SubagentStep
<1>6. CASE SpawnReturns(f)
  BY <1>6 DEF SpawnReturns
<1>7. CASE PipeCloses(f) \/ Deadline(f)
  BY <1>7 DEF PipeCloses, Deadline
<1>8. QED
  BY <1>1, <1>2, <1>3, <1>4, <1>5, <1>6, <1>7 DEF OwnStep, FaultStep, AgentStep

LEMMA OthersSpareAgent ==
  ASSUME TypeOK, [Next]_vars, NEW f \in Fault, ~ OwnStep(f), ~ AgentStep(f)
  PROVE  via'[f] = via[f] /\ stage'[f] = stage[f]
<1> USE DEF TypeOK, agentVars, callVars, Call
<1>1. ASSUME NEW c \in Call, CallStep(c) PROVE UNCHANGED agentVars
  BY <1>1 DEF CallStep, LogEntry, LogNewline
<1>2. ASSUME NEW g \in Fault, FaultStep(g)
      PROVE  via'[f] = via[f] /\ stage'[f] = stage[f]
  <2>1. g # f
    BY <1>2 DEF OwnStep
  <2>2. CASE Start(g) \/ StartRefused(g) \/ Submit(g) \/ SubmitRefused(g) \/ Launch(g)
    BY <2>1, <2>2 DEF Start, StartRefused, Submit, SubmitRefused, Launch
  <2>3. CASE \/ AnswerAsync(g) \/ Wait(g) \/ WaitDone(g) \/ WaitCtx(g) \/ Fallback(g)
    BY <2>3 DEF AnswerAsync, Wait, WaitDone, WaitCtx, Fallback
  <2>4. QED
    BY <1>2, <2>2, <2>3 DEF FaultStep
<1>3. ASSUME NEW g \in Fault, AgentStep(g)
      PROVE  via'[f] = via[f] /\ stage'[f] = stage[f]
  <2>1. g # f
    BY <1>3
  <2>2. QED
    BY <1>3, <2>1 DEF AgentStep, ChildExits, PipeCloses, Headers, Body, SubagentStep,
       SpawnReturns, Deadline
<1>4. ASSUME NEW p \in Poll, PollStep(p) PROVE UNCHANGED agentVars
  BY <1>4 DEF PollStep, StartPoll, GetTask
<1>5. CASE OtherTask \/ ServerStep \/ UNCHANGED vars
  BY <1>5 DEF OtherTask, ServerStep, Signal, Drained, DrainExpires, ListenerFails, CloseLog, Exit,
     Serve, vars
<1>6. QED
  BY <1>1, <1>2, <1>3, <1>4, <1>5 DEF Next

LEMMA AgentsKept ==
  ASSUME TypeOK, Control, [Next]_vars
  PROVE  AgentsMatch'
<1> SUFFICES ASSUME NEW f \in Fault PROVE AgentMatches(f)'
  BY DEF AgentsMatch
<1>1. CASE OwnStep(f) \/ AgentStep(f)
  BY <1>1, OwnAgentKept
<1>2. CASE ~ OwnStep(f) /\ ~ AgentStep(f)
  <2>1. Rests(f) /\ via'[f] = via[f] /\ stage'[f] = stage[f]
    BY <1>2, OthersRest, OthersSpareAgent
  <2>2. QED
    BY <2>1 DEF Control, AgentsMatch, AgentMatches, Rests
<1>3. QED
  BY <1>1, <1>2

\* Nobody but the holder of the mutex writes, and nobody who answered moves but by logging.
LEMMA LogKept ==
  ASSUME TypeOK, Control, [Next]_vars
  PROVE  LogMatches'
<1> USE DEF TypeOK, Control, LogMatches, auditVars, serverVars, callVars, Call, Move
<1>1. ASSUME NEW c \in Call, CallStep(c) PROVE LogMatches'
  <2>1. CASE LogEntry(c)
    BY <1>1, <2>1 DEF LogEntry
  <2>2. CASE LogNewline(c)
    BY <1>1, <2>2 DEF LogNewline
  <2>3. QED
    BY <1>1, <2>1, <2>2 DEF CallStep
<1>2. ASSUME NEW f \in Fault, FaultStep(f) PROVE LogMatches'
  <2>1. UNCHANGED <<auditVars, serverVars>> /\ pc[f] # "answered"
        /\ \A c \in Call \ {f} : pc'[c] = pc[c]
    BY <1>2 DEF FaultStep, Start, StartRefused, Submit, SubmitRefused, Launch, AnswerAsync,
       Wait, WaitDone, WaitCtx, Fallback
  <2>2. QED
    BY <2>1
<1>3. ASSUME NEW p \in Poll, PollStep(p) PROVE LogMatches'
  <2>1. UNCHANGED <<auditVars, serverVars>> /\ pc[p] # "answered"
        /\ \A c \in Call \ {p} : pc'[c] = pc[c]
    BY <1>3 DEF PollStep, StartPoll, GetTask
  <2>2. QED
    BY <2>1
<1>4. ASSUME NEW f \in Fault, AgentStep(f) PROVE UNCHANGED <<auditVars, serverVars, callVars>>
  BY <1>4 DEF AgentStep, ChildExits, PipeCloses, Headers, Body, SubagentStep, SpawnReturns,
     Deadline
<1>5. CASE OtherTask \/ UNCHANGED vars
  BY <1>5 DEF OtherTask, vars
<1>6. CASE ServerStep
  BY <1>6, PhasesKept DEF ServerStep, Signal, Drained, DrainExpires, ListenerFails, CloseLog, Exit,
     Serve, PhaseMatches
<1>7. QED
  BY <1>1, <1>2, <1>3, <1>4, <1>5, <1>6 DEF Next

\* Once every handler has returned and none is admitted, nothing writes a line.
LEMMA CleanKept ==
  ASSUME TypeOK, Control, [Next]_vars
  PROVE  CleanIsQuiet'
<1> USE DEF TypeOK, Control, CleanIsQuiet, auditVars, serverVars, callVars, Call, Move
<1>1. CASE UNCHANGED <<clean, pc>>
  BY <1>1
<1>2. ASSUME NEW c \in Call, CallStep(c) PROVE ~ clean /\ UNCHANGED clean
  BY <1>2 DEF CallStep, LogEntry, LogNewline, LogMatches
<1>3. ASSUME NEW f \in Fault, FaultStep(f) PROVE ~ clean /\ UNCHANGED clean
  BY <1>3 DEF FaultStep, Start, StartRefused, Submit, SubmitRefused, Launch, AnswerAsync,
     Wait, WaitDone, WaitCtx, Fallback, PhaseMatches
<1>4. ASSUME NEW p \in Poll, PollStep(p) PROVE ~ clean /\ UNCHANGED clean
  BY <1>4 DEF PollStep, StartPoll, GetTask, PhaseMatches
<1>5. ASSUME NEW f \in Fault, AgentStep(f) PROVE UNCHANGED <<clean, pc>>
  BY <1>5 DEF AgentStep, ChildExits, PipeCloses, Headers, Body, SubagentStep, SpawnReturns,
     Deadline
<1>6. CASE OtherTask \/ UNCHANGED vars
  BY <1>6 DEF OtherTask, vars
<1>7. CASE Drained
  <2>1. logOpen /\ \A c \in Call : pc[c] \in {"idle", "returned"}
    BY <1>7 DEF Drained, Serve, PhaseMatches
  <2>2. QED
    BY <1>7, <2>1 DEF Drained, Serve
<1>8. CASE Signal \/ DrainExpires \/ ListenerFails \/ CloseLog \/ Exit
  BY <1>8 DEF Signal, DrainExpires, ListenerFails, CloseLog, Exit, Serve
<1>9. QED
  BY <1>1, <1>2, <1>3, <1>4, <1>5, <1>6, <1>7, <1>8 DEF Next, ServerStep

LEMMA ControlKept ==
  ASSUME TypeOK, Control, [Next]_vars
  PROVE  Control'
BY PhasesKept, EntriesKept, CallsKept, AgentsKept, LogKept, CleanKept DEF Control

-----------------------------------------------------------------------------
(* What the callers are told *)

\* The entry of a task changes when it begins and when it ends, and never again.
LEMMA EntriesSettle ==
  ASSUME TypeOK, Control, [Next]_vars, NEW f \in Fault, entry[f] \in Ending
  PROVE  entry'[f] = entry[f]
<1> USE DEF TypeOK, taskVars
<1>0. life[f] \notin {"absent", "running"} /\ life \in [Fault \union Other -> Lifecycle!Life]
  BY DEF Control, EntriesMatch, Ending, Lifecycle!Ending, Lifecycle!LifeTypeOK
<1>1. ASSUME NEW g \in Fault, Submit(g) PROVE entry'[f] = entry[f]
  <2>1. f # g
    BY <1>0, <1>1, BeginChanges DEF Submit
  <2>2. QED
    BY <1>1, <2>1 DEF Submit
<1>2. ASSUME NEW g \in Fault, SpawnReturns(g) PROVE entry'[f] = entry[f]
  <2>1. f # g
    BY <1>0, <1>2, ClassifyEnds, EndChanges DEF SpawnReturns
  <2>2. QED
    BY <1>2, <2>1 DEF SpawnReturns
<1>3. ASSUME NEW g \in Fault, FaultStep(g), ~ Submit(g) PROVE UNCHANGED entry
  BY <1>3 DEF FaultStep, Start, StartRefused, SubmitRefused, Launch, AnswerAsync, Wait, WaitDone,
     WaitCtx, Fallback, Snapshot
<1>4. ASSUME NEW g \in Fault, AgentStep(g), ~ SpawnReturns(g) PROVE UNCHANGED entry
  BY <1>4 DEF AgentStep, ChildExits, PipeCloses, Headers, Body, SubagentStep, Deadline
<1>5. ASSUME NEW p \in Poll, PollStep(p) PROVE UNCHANGED entry
  BY <1>5 DEF PollStep, StartPoll, GetTask, Snapshot
<1>6. ASSUME NEW c \in Call, CallStep(c) PROVE UNCHANGED entry
  BY <1>6 DEF CallStep, LogEntry, LogNewline
<1>7. CASE OtherTask \/ ServerStep \/ UNCHANGED vars
  BY <1>7 DEF OtherTask, ServerStep, Signal, Drained, DrainExpires, ListenerFails, CloseLog, Exit,
     Serve, vars
<1>8. QED
  BY <1>1, <1>2, <1>3, <1>4, <1>5, <1>6, <1>7 DEF Next

AnswerTrue(f) ==
  /\ answer[f] \in Ending => answer[f] = entry[f]
  /\ answer[f] = "running" => f \notin sync \/ f \in hungUp
  /\ answer[f] = "lost" => life[f] = "gone"

LEMMA OwnAnswerTrue ==
  ASSUME TypeOK, Control, AnswersTrue, [Next]_vars, NEW f \in Fault, OwnStep(f)
  PROVE  AnswerTrue(f)'
<1> USE DEF TypeOK, AnswersTrue, AnswerTrue, callVars, Move, Answer, Call
<1>0. /\ {"none", "running", "lost", "invalid", "agent_not_found", "rate_limited", "closed"}
           \intersect Ending = {}
      /\ pc[f] \notin {"answered", "returned"} => answer[f] = "none"
  BY DEF Ending, Lifecycle!Ending, Control, CallsMatch, CallMatches
<1>1. CASE Start(f) \/ Submit(f) \/ Launch(f) \/ WaitCtx(f)
  BY <1>0, <1>1 DEF Start, Submit, Launch, WaitCtx
<1>2. CASE StartRefused(f) \/ SubmitRefused(f) \/ AnswerAsync(f)
  BY <1>0, <1>2 DEF StartRefused, SubmitRefused, AnswerAsync
<1>3. CASE Wait(f)
  BY <1>0, <1>3 DEF Wait, taskVars
<1>4. CASE WaitDone(f)
  BY <1>0, <1>4 DEF WaitDone, taskVars
<1>5. CASE Fallback(f)
  <2>1. f \in hungUp /\ hungUp' = hungUp /\ life'[f] # "absent"
    BY <1>5, LivesGoOn DEF Fallback, Control, CallsMatch, CallMatches, GoesOn
  <2>2. answer'[f] = IF life'[f] \in {"absent", "gone"} THEN "lost" ELSE life'[f]
    BY <1>5 DEF Fallback, Snapshot
  <2>3. life'[f] \in Ending => life'[f] = entry'[f]
    BY ControlKept DEF Control, EntriesMatch
  <2>4. life'[f] # "lost"
    BY StepTyped DEF Lifecycle!LifeTypeOK, Lifecycle!Life, Lifecycle!Ending
  <2>5. QED
    BY <1>0, <2>1, <2>2, <2>3, <2>4
<1>6. CASE CallStep(f)
  BY <1>6 DEF CallStep, LogEntry, LogNewline, taskVars
<1>7. QED
  BY <1>1, <1>2, <1>3, <1>4, <1>5, <1>6 DEF OwnStep, FaultStep

LEMMA AnswersKept ==
  ASSUME TypeOK, Control, AnswersTrue, [Next]_vars
  PROVE  AnswersTrue'
<1> SUFFICES ASSUME NEW f \in Fault PROVE AnswerTrue(f)'
  BY DEF AnswersTrue, AnswerTrue
<1>1. CASE OwnStep(f)
  BY <1>1, OwnAnswerTrue
<1>2. CASE ~ OwnStep(f)
  <2>1. Rests(f) /\ GoesOn(f)
    BY <1>2, OthersRest, LivesGoOn
  <2>2. entry[f] \in Ending => entry'[f] = entry[f]
    BY EntriesSettle
  <2>3. QED
    BY <2>1, <2>2 DEF AnswersTrue, AnswerTrue, Rests, GoesOn
<1>3. QED
  BY <1>1, <1>2

-----------------------------------------------------------------------------
(* What a stop leaves *)

NoneBegins == \A t \in Fault \union Other : life'[t] = "running" => life[t] = "running"

\* A shut manager begins no task.
LEMMA NothingBegins ==
  ASSUME TypeOK, [Next]_vars, ~ open
  PROVE  Lifecycle!InFlight' \subseteq Lifecycle!InFlight
<1> SUFFICES NoneBegins
  BY DEF Lifecycle!InFlight, NoneBegins
<1> USE DEF TypeOK, Lifecycle!LifeTypeOK, taskVars, NoneBegins
<1>0. {"running", "gone"} \intersect Ending = {}
  BY DEF Ending, Lifecycle!Ending
<1>1. ASSUME NEW f \in Fault, FaultStep(f) PROVE NoneBegins
  <2>1. ~ Submit(f)
    BY <1>1, BeginChanges DEF Submit
  <2>2. CASE Fallback(f)
    BY <2>2, <1>0, ForgetChanges DEF Fallback, Snapshot
  <2>3. CASE ~ Fallback(f)
    BY <1>1, <2>1, <2>3 DEF FaultStep, Start, StartRefused, SubmitRefused, Launch, AnswerAsync,
       Wait, WaitDone, WaitCtx
  <2>4. QED
    BY <2>2, <2>3
<1>2. ASSUME NEW f \in Fault, AgentStep(f) PROVE NoneBegins
  <2>1. CASE SpawnReturns(f)
    BY <2>1, <1>0, ClassifyEnds, EndChanges DEF SpawnReturns
  <2>2. CASE ~ SpawnReturns(f)
    BY <1>2, <2>2 DEF AgentStep, ChildExits, PipeCloses, Headers, Body, SubagentStep, Deadline
  <2>3. QED
    BY <2>1, <2>2
<1>3. ASSUME NEW p \in Poll, PollStep(p) PROVE NoneBegins
  BY <1>0, <1>3, ForgetChanges DEF PollStep, StartPoll, GetTask, Snapshot
<1>4. ASSUME NEW c \in Call, CallStep(c) PROVE NoneBegins
  BY <1>4 DEF CallStep, LogEntry, LogNewline
<1>5. CASE OtherTask
  <2>1. PICK t \in Other : Lifecycle!Begin(t, {}) \/ \E how \in Ending : Lifecycle!End(t, how)
    BY <1>5 DEF OtherTask
  <2>2. PICK how \in Ending : Lifecycle!End(t, how)
    BY <2>1, BeginChanges
  <2>3. life'[t] = how /\ \A u \in (Fault \union Other) \ {t} : life'[u] = life[u]
    BY <2>2, EndChanges
  <2>4. QED
    BY <1>0, <2>3
<1>6. CASE ServerStep \/ UNCHANGED vars
  <2>1. UNCHANGED life
    BY <1>6 DEF ServerStep, Signal, Drained, DrainExpires, ListenerFails, CloseLog, Exit,
       Serve, ShutTasks, Lifecycle!Shut, vars
  <2>2. QED
    BY <2>1
<1> HIDE DEF NoneBegins, TypeOK, taskVars
<1>7. QED
  BY <1>1, <1>2, <1>3, <1>4, <1>5, <1>6 DEF Next

\* What an action other than the shutdown's leaves of serve.
LEMMA ServerStays ==
  ASSUME [Next]_vars, ~ ServerStep
  PROVE  UNCHANGED <<phase, accepting, clean, logOpen>>
<1> USE DEF serverVars
<1>1. ASSUME NEW c \in Call, CallStep(c) PROVE UNCHANGED serverVars
  BY <1>1 DEF CallStep, LogEntry, LogNewline
<1>2. ASSUME NEW f \in Fault, FaultStep(f) PROVE UNCHANGED serverVars
  BY <1>2 DEF FaultStep, Start, StartRefused, Submit, SubmitRefused, Launch, AnswerAsync, Wait,
     WaitDone, WaitCtx, Fallback
<1>3. ASSUME NEW f \in Fault, AgentStep(f) PROVE UNCHANGED serverVars
  BY <1>3 DEF AgentStep, ChildExits, PipeCloses, Headers, Body, SubagentStep, SpawnReturns,
     Deadline
<1>4. ASSUME NEW p \in Poll, PollStep(p) PROVE UNCHANGED serverVars
  BY <1>4 DEF PollStep, StartPoll, GetTask
<1>5. QED
  BY <1>1, <1>2, <1>3, <1>4 DEF Next, OtherTask, vars

LEMMA NoTaskKept ==
  ASSUME TypeOK, Control, GracefulStopLeavesNoTask, [Next]_vars
  PROVE  GracefulStopLeavesNoTask'
<1> USE DEF GracefulStopLeavesNoTask
<1>1. CASE UNCHANGED <<clean, phase>> \/ Exit
  <2>1. clean' /\ phase' \in {"closed", "exited"} => clean /\ phase \in {"closed", "exited"}
    BY <1>1 DEF Exit, Serve
  <2>2. clean' /\ phase' \in {"closed", "exited"} => Lifecycle!InFlight' = {}
    <3> SUFFICES ASSUME clean', phase' \in {"closed", "exited"} PROVE Lifecycle!InFlight' = {}
      OBVIOUS
    <3>1. ~ open /\ Lifecycle!InFlight = {}
      BY <2>1 DEF Control, PhaseMatches
    <3>2. QED
      BY <3>1, NothingBegins
  <2>3. QED
    BY <2>2
<1>2. CASE CloseLog
  <2>1. CASE ~ clean
    BY <1>2, <2>1 DEF CloseLog
  <2>2. CASE clean
    <3>1. Lifecycle!InFlight = {}
      BY <1>2, <2>2 DEF CloseLog, Control, CleanIsQuiet, Call
    <3>2. QED
      BY <1>2, <3>1 DEF CloseLog, Lifecycle!InFlight
  <2>3. QED
    BY <2>1, <2>2
<1>3. CASE Signal \/ Drained \/ DrainExpires \/ ListenerFails
  BY <1>3 DEF Signal, Drained, DrainExpires, ListenerFails, Serve
<1>4. CASE ~ ServerStep
  BY <1>1, <1>4, ServerStays
<1>5. QED
  BY <1>1, <1>2, <1>3, <1>4 DEF ServerStep

\* What a step but LogEntry and LogNewline leaves of the file and of those who returned.
LogRests ==
  /\ UNCHANGED auditVars
  /\ \A c \in Call : pc'[c] = "returned" => pc[c] = "returned"
  /\ logOpen' \/ clean' => logOpen \/ clean

LEMMA OthersLeaveLog ==
  ASSUME TypeOK, Control, [Next]_vars, \A c \in Call : ~ CallStep(c)
  PROVE  LogRests
<1> USE DEF TypeOK, LogRests, callVars, serverVars, Move, Call
<1>1. ASSUME NEW f \in Fault, FaultStep(f) PROVE LogRests
  BY <1>1 DEF FaultStep, Start, StartRefused, Submit, SubmitRefused, Launch, AnswerAsync,
     Wait, WaitDone, WaitCtx, Fallback
<1>2. ASSUME NEW p \in Poll, PollStep(p) PROVE LogRests
  BY <1>2 DEF PollStep, StartPoll, GetTask
<1>3. ASSUME NEW f \in Fault, AgentStep(f) PROVE LogRests
  BY <1>3 DEF AgentStep, ChildExits, PipeCloses, Headers, Body, SubagentStep, SpawnReturns,
     Deadline
<1>4. CASE OtherTask \/ UNCHANGED vars
  BY <1>4 DEF OtherTask, vars
<1>5. CASE ServerStep
  BY <1>5 DEF ServerStep, Signal, Drained, DrainExpires, ListenerFails, CloseLog, Exit, Serve,
     Control, PhaseMatches
<1>6. QED
  BY <1>1, <1>2, <1>3, <1>4, <1>5 DEF Next

\* The body of a line makes the debt that its newline collects.
LEMMA EntryCosts ==
  ASSUME TypeOK, Control, LossBounded, NEW c \in Call, LogEntry(c)
  PROVE  LossBounded'
<1> USE DEF LogEntry, callVars, serverVars
<1>1. Lost' = Lost
  BY DEF Lost
<1>2. IsFiniteSet(Lost) /\ Cardinality(Lost) \in Nat
  BY FS_CardinalityType DEF LossBounded
<1>3. CASE ~ logOpen
  <2>1. ~ logOpen' /\ ~ clean'
    BY <1>3 DEF Control, CleanIsQuiet
  <2>2. QED
    BY <1>1, <1>2, <2>1 DEF LossBounded
<1>4. CASE logOpen
  <2>1. Cardinality(Lost) + Debt <= 2 * faults /\ faults \in Nat
    BY <1>4 DEF LossBounded, TypeOK
  <2>2. /\ writer = {} /\ writer' = {c} /\ faults' \in {faults, faults + 1}
        /\ faults' = faults => torn' /\ entire' = IF torn THEN {} ELSE {c}
    BY <1>4, <2>1 DEF WriteFails
  <2>3. Debt' \in {0, 1} /\ Debt \in {0, 1}
    BY DEF Debt
  <2>4. CASE faults' = faults
    <3>1. Debt' = Debt
      BY <2>2, <2>4 DEF Debt
    <3>2. QED
      BY <1>1, <1>2, <2>1, <2>4, <3>1 DEF LossBounded
  <2>5. CASE faults' = faults + 1
    <3>1. Cardinality(Lost) + Debt' <= 2 * faults'
      BY <1>2, <2>1, <2>3, <2>5
    <3>2. QED
      BY <1>1, <1>2, <3>1 DEF LossBounded
  <2>6. QED
    BY <2>2, <2>4, <2>5
<1>5. QED
  BY <1>3, <1>4

\* A newline that succeeds settles the debt, with the writer's own line if it was not whole.
LEMMA NewlineCosts ==
  ASSUME TypeOK, Control, LossBounded, NEW c \in Call, LogNewline(c)
  PROVE  LossBounded'
<1> USE DEF LogNewline, serverVars
<1>1. writer = {c} /\ writer' = {}
  BY DEF TypeOK
<1>2. Lost' \subseteq Lost \union {c} /\ (c \in logged' => Lost' \subseteq Lost)
  BY DEF Lost, TypeOK, Move
<1>3. /\ IsFiniteSet(Lost) /\ Cardinality(Lost) \in Nat
      /\ IsFiniteSet(Lost') /\ Cardinality(Lost') \in Nat
      /\ Cardinality(Lost') <= Cardinality(Lost) + 1
      /\ c \in logged' => Cardinality(Lost') <= Cardinality(Lost)
  <2>1. IsFiniteSet(Lost) /\ Cardinality(Lost) \in Nat
    BY FS_CardinalityType DEF LossBounded
  <2>2. /\ IsFiniteSet(Lost \union {c})
        /\ Cardinality(Lost \union {c}) \in {Cardinality(Lost), Cardinality(Lost) + 1}
    BY <2>1, FS_AddElement
  <2>3. QED
    BY <1>2, <2>1, <2>2, FS_Subset, FS_CardinalityType
<1>4. CASE ~ logOpen
  <2>1. ~ logOpen' /\ ~ clean'
    BY <1>1, <1>4 DEF Control, CleanIsQuiet, LogMatches
  <2>2. QED
    BY <1>3, <2>1 DEF LossBounded
<1>5. CASE logOpen
  <2>1. Cardinality(Lost) + Debt <= 2 * faults /\ faults \in Nat
    BY <1>5 DEF LossBounded, TypeOK
  <2>2. \/ faults' = faults /\ ~ torn' /\ logged' = logged \union entire
        \/ faults' = faults + 1
    BY <1>5 DEF WriteFails
  <2>3. Debt' \in {0, 1} /\ Debt \in {0, 1} /\ (Debt = 0 => entire = {c})
    BY <1>1 DEF Debt
  <2>4. CASE faults' = faults + 1
    <3>1. Cardinality(Lost') + Debt' <= 2 * faults'
      BY <1>3, <2>1, <2>3, <2>4
    <3>2. QED
      BY <1>3, <3>1 DEF LossBounded
  <2>5. CASE faults' = faults /\ ~ torn' /\ logged' = logged \union entire
    <3>1. Debt' = 0
      BY <1>1, <2>5 DEF Debt
    <3>2. Cardinality(Lost') <= Cardinality(Lost) + Debt
      BY <1>3, <2>3, <2>5
    <3>3. Cardinality(Lost') + Debt' <= 2 * faults'
      BY <1>3, <2>1, <2>3, <2>5, <3>1, <3>2
    <3>4. QED
      BY <1>3, <3>3 DEF LossBounded
  <2>6. QED
    BY <2>2, <2>4, <2>5
<1>6. QED
  BY <1>4, <1>5

LEMMA LossKept ==
  ASSUME TypeOK, Control, LossBounded, [Next]_vars
  PROVE  LossBounded'
<1>1. ASSUME NEW c \in Call, CallStep(c) PROVE LossBounded'
  BY <1>1, EntryCosts, NewlineCosts DEF CallStep
<1>2. CASE \A c \in Call : ~ CallStep(c)
  <2>1. LogRests
    BY <1>2, OthersLeaveLog
  <2>2. Lost' \subseteq Lost /\ Debt' = Debt
    BY <2>1 DEF LogRests, Lost, Debt, auditVars
  <2>3. /\ IsFiniteSet(Lost') /\ Cardinality(Lost') <= Cardinality(Lost)
        /\ Cardinality(Lost) \in Nat /\ Cardinality(Lost') \in Nat
    BY <2>2, FS_Subset, FS_CardinalityType DEF LossBounded
  <2>4. faults' = faults /\ faults \in Nat /\ Debt \in Nat
    BY <2>1 DEF LogRests, auditVars, TypeOK, Debt
  <2>5. QED
    BY <2>1, <2>2, <2>3, <2>4 DEF LossBounded, LogRests
<1>3. QED
  BY <1>1, <1>2

-----------------------------------------------------------------------------
(* The theorems *)

LEMMA IInvInductive ==
  /\ Init => IInv
  /\ IInv /\ [Next]_vars => IInv'
<1>1. Init => IInv
  BY InitTyped, InitControlled DEF IInv
<1>2. IInv /\ [Next]_vars => IInv'
  BY StepTyped, ControlKept, AnswersKept, LossKept, NoTaskKept DEF IInv
<1>3. QED
  BY <1>1, <1>2

\* The six parts of Control, the types and the three promises hold together from the start:
\* each promise needs the parts, and the parts need one another.
THEOREM Invariant == Safety => []IInv
BY IInvInductive, PTL DEF Safety

\* Calls, tasks, subagents, server and audit log stay within their states.
THEOREM TypeCorrect == Safety => []TypeOK
<1>1. IInv => TypeOK
  BY DEF IInv
<1>2. QED
  BY <1>1, Invariant, PTL

\* However a delegation's handler, its task, sweeps and shutdown interleave, the answer of
\* DeepRetrieve or DelegateWrite is what became of the task it submitted.
THEOREM AnswersAreTrue == Safety => []AnswersTrue
<1>1. IInv => AnswersTrue
  BY DEF IInv
<1>2. QED
  BY <1>1, Invariant, PTL

LEMMA LossesShown ==
  ASSUME IInv
  PROVE  LostOnlyToFaults
<1> USE DEF IInv, Control
<1>1. Debt \in {0, 1} /\ faults \in Nat /\ Cardinality(Lost) \in Nat
  BY FS_CardinalityType DEF Debt, TypeOK, LossBounded
<1>2. logOpen \/ clean => Cardinality(Lost) <= 2 * faults
  BY <1>1 DEF LossBounded
<1>3. clean /\ torn => faults > 0
  <2>1. clean => writer = {}
    BY DEF CleanIsQuiet, LogMatches, TypeOK
  <2>2. clean /\ torn => Debt = 1
    BY <2>1 DEF Debt
  <2>3. QED
    BY <1>1, <2>2 DEF LossBounded
<1>4. QED
  BY <1>2, <1>3 DEF LostOnlyToFaults, CleanIsQuiet

\* Whoever logs, hangs up or still runs, and whenever serve stops after a drain that ended
\* in time, each failed write costs two audit lines at most, and nothing else costs one.
THEOREM LossesHaveFaults == Safety => []LostOnlyToFaults
<1>1. IInv => LostOnlyToFaults
  BY LossesShown
<1>2. QED
  BY <1>1, Invariant, PTL

\* After a drain that ended in time, Manager.Close waits for every task, those between the
\* insertion and wg.Add included, because no handler is left to be there.
THEOREM GracefulStopsLeaveNoTask == Safety => []GracefulStopLeavesNoTask
<1>1. IInv => GracefulStopLeavesNoTask
  BY DEF IInv
<1>2. QED
  BY <1>1, Invariant, PTL

\* Only the return of Spawn ends a task, and it says what Classify says.
LEMMA OnlySpawnEnds ==
  ASSUME TypeOK, Control, [Next]_vars, NEW f \in Fault, entry'[f] \in Ending,
         entry'[f] # entry[f]
  PROVE  SpawnReturns(f) /\ entry'[f] = Classify(f)
<1> USE DEF TypeOK, taskVars
<1>0. "running" \notin Ending
  BY DEF Ending, Lifecycle!Ending
<1>1. ASSUME NEW g \in Fault, FaultStep(g) PROVE FALSE
  <2>1. CASE Submit(g)
    BY <1>0, <2>1 DEF Submit
  <2>2. CASE ~ Submit(g)
    BY <1>1, <2>2 DEF FaultStep, Start, StartRefused, SubmitRefused, Launch, AnswerAsync, Wait,
       WaitDone, WaitCtx, Fallback, Snapshot
  <2>3. QED
    BY <2>1, <2>2
<1>2. ASSUME NEW g \in Fault, AgentStep(g)
      PROVE  SpawnReturns(f) /\ entry'[f] = Classify(f)
  <2>1. SpawnReturns(g)
    BY <1>2 DEF AgentStep, ChildExits, PipeCloses, Headers, Body, SubagentStep, Deadline
  <2>2. g = f
    BY <2>1 DEF SpawnReturns
  <2>3. QED
    BY <2>1, <2>2 DEF SpawnReturns
<1>3. ASSUME NEW p \in Poll, PollStep(p) PROVE FALSE
  BY <1>3 DEF PollStep, StartPoll, GetTask, Snapshot
<1>4. ASSUME NEW c \in Call, CallStep(c) PROVE FALSE
  BY <1>4 DEF CallStep, LogEntry, LogNewline
<1>5. ~ (OtherTask \/ ServerStep \/ UNCHANGED vars)
  BY DEF OtherTask, ServerStep, Signal, Drained, DrainExpires, ListenerFails, CloseLog, Exit,
     Serve, vars
<1>6. QED
  BY <1>1, <1>2, <1>3, <1>4, <1>5 DEF Next

\* Both backends report a deadline as ErrSubagentTimeout whenever it comes before anything
\* of the reply, whatever else went wrong by then.
THEOREM LateTasksTimeOut == Safety => LateMeansTimedOut
<1> DEFINE InTime == \A f \in Fault :
             context[f] = "deadline" /\ entry'[f] \in Ending \ {entry[f], "timed_out"}
               => via[f] = "http" /\ stage[f] \in {"ok", "refused", "cut"}
<1>1. IInv /\ [Next]_vars => InTime
  <2> SUFFICES ASSUME IInv, [Next]_vars, NEW f \in Fault, context[f] = "deadline",
                      entry'[f] \in Ending \ {entry[f], "timed_out"}
               PROVE  via[f] = "http" /\ stage[f] \in {"ok", "refused", "cut"}
    OBVIOUS
  <2>1. SpawnReturns(f) /\ Classify(f) # "timed_out"
    BY OnlySpawnEnds DEF IInv
  <2>2. stage[f] \in {"ok", "bad", "refused", "cut"}
    BY <2>1 DEF SpawnReturns
  <2>3. via[f] \in {"cli", "http"}
    BY <2>2 DEF IInv, Control, AgentsMatch, AgentMatches, Transport
  <2>4. QED
    BY <2>1, <2>2, <2>3 DEF Classify
<1>2. QED
  BY <1>1, Invariant, PTL DEF Safety, LateMeansTimedOut
=============================================================================
