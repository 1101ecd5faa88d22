------------------------------ MODULE Delegation ------------------------------
(***************************************************************************)
(* pf_fault and pf_poke mode:agent (a delegation), pf_ps with a task id    *)
(* (a poll), the subagent backends that run the delegated work, the audit  *)
(* log and the shutdown of the server.  The task manager is here by what   *)
(* it promises, TaskLifecycle; TaskManager shows that it keeps it.         *)
(*                                                                         *)
(* The id of the task that a delegation submits is the delegation itself.  *)
(***************************************************************************)
EXTENDS Naturals, FiniteSets, Sequences

CONSTANTS
  Fault,          \* calls of DeepRetrieve or DelegateWrite
  Poll,           \* calls of GetTask
  Other,          \* tasks of calls that are not followed here
  MaxConcurrent,  \* tasks.max_concurrent
  Backends,       \* backendsOrdered: kind and agents of each
  Agent,          \* agent ids a caller may name
  AnyAgent,       \* the empty agent id
  MaxFaults       \* bound: how many writes to the open audit file fail

Call == Fault \union Poll

Transport == {"cli", "http"}

ASSUME DelegationAssumption ==
  /\ Fault \intersect (Poll \union Other) = {}
  /\ MaxConcurrent \in Nat \ {0}
  /\ AnyAgent \notin Agent
  /\ MaxFaults \in Nat
  /\ \A i \in DOMAIN Backends :
       Backends[i].kind \in Transport => Backends[i].agents # <<>>

VARIABLES
  life, open,     \* the task manager (TaskLifecycle)
  entry,          \* entry[f]: the status a waiter reads through its pointer
  context,        \* context[f]: the detached context of the task
  via,            \* via[f]: the transport of the backend chosen for f
  stage,          \* stage[f]: how far the subagent has got
  held,           \* held: the tasks whose output pipe a descendant holds open
  pc,             \* pc[c]: where the call is
  sync,           \* sync: the delegations that wait (opts.Wait)
  answer,         \* answer[c]: what the dispatcher returns
  hungUp,         \* hungUp: those of them whose caller has gone
  phase,          \* where serve is
  accepting,      \* whether requests still reach a handler
  clean,          \* whether Shutdown returned before its own deadline
  logOpen,        \* whether the audit file is open
  logged,         \* logged: the calls whose whole line is in the audit file
  torn,           \* whether the audit file ends inside a line
  entire,         \* the call whose whole entry is all of that line, in a set
  faults,         \* how many writes to the open audit file have failed
  writer          \* the call that holds the logger's mutex, in a set

taskVars   == <<life, open, entry, context>>
agentVars  == <<via, stage, held>>
callVars   == <<pc, sync, answer, hungUp>>
serverVars == <<phase, accepting, clean, logOpen>>
auditVars  == <<logged, torn, entire, faults, writer>>
vars == <<taskVars, agentVars, callVars, serverVars, auditVars>>

Lifecycle == INSTANCE TaskLifecycle WITH Task <- Fault \union Other

Ending == Lifecycle!Ending

Refusal == {"invalid", "agent_not_found", "rate_limited", "closed", "lost", "not_found"}

TypeOK ==
  /\ Lifecycle!LifeTypeOK
  /\ entry \in [Fault -> {"none", "running"} \union Ending]
  /\ context \in [Fault -> {"live", "deadline", "cancelled", "over"}]
  /\ via \in [Fault -> Transport \union {"none"}]
  /\ stage \in [Fault -> {"none", "working", "replying", "cut", "refused", "ok", "bad"}]
  /\ held \subseteq Fault
  /\ pc \in [Call -> {"idle", "chosen", "inserted", "submitted", "waiting",
                      "fallback", "answered", "returned"}]
  /\ sync \subseteq Fault
  /\ answer \in [Call -> {"none", "running"} \union Ending \union Refusal]
  /\ hungUp \subseteq sync
  /\ phase \in {"serving", "draining", "closing", "closed", "exited"}
  /\ accepting \in BOOLEAN
  /\ clean \in BOOLEAN
  /\ torn \in BOOLEAN
  /\ entire \subseteq Call
  /\ faults \in 0..MaxFaults
  /\ logOpen \in BOOLEAN
  /\ logged \subseteq Call
  /\ writer \subseteq Call /\ \A c, d \in writer : c = d

Init ==
  /\ Lifecycle!LifeInit
  /\ entry = [f \in Fault |-> "none"]
  /\ context = [f \in Fault |-> "live"]
  /\ via = [f \in Fault |-> "none"]
  /\ stage = [f \in Fault |-> "none"]
  /\ held = {}
  /\ pc = [c \in Call |-> "idle"]
  /\ sync = {}
  /\ answer = [c \in Call |-> "none"]
  /\ hungUp = {}
  /\ phase = "serving"
  /\ accepting = TRUE
  /\ clean = FALSE
  /\ torn = FALSE
  /\ entire = {}
  /\ faults = 0
  /\ logOpen = TRUE
  /\ logged = {}
  /\ writer = {}

Move(c, from, to) == pc[c] = from /\ pc' = [pc EXCEPT ![c] = to]

Answer(c, said) == answer' = [answer EXCEPT ![c] = said]

-----------------------------------------------------------------------------
(* The calls *)

Exposes(i, agent) ==
  /\ Backends[i].kind \in Transport
  /\ agent = AnyAgent \/ \E j \in DOMAIN Backends[i].agents : Backends[i].agents[j] = agent

\* The backends in configured order; the first that lists the agent is taken.
FindSubagent(agent) ==
  {i \in DOMAIN Backends :
     Exposes(i, agent) /\ \A j \in DOMAIN Backends : Exposes(j, agent) => i <= j}

Start(f) ==
  /\ accepting
  /\ \E agent \in Agent \union {AnyAgent} :
       \E i \in FindSubagent(agent) : via' = [via EXCEPT ![f] = Backends[i].kind]
  /\ Move(f, "idle", "chosen")
  /\ sync' \in {sync, sync \union {f}}
  /\ UNCHANGED <<taskVars, stage, held, answer, hungUp, serverVars, auditVars>>

\* An empty query or content, or an agent that no backend exposes.
StartRefused(f) ==
  /\ accepting
  /\ Move(f, "idle", "answered")
  /\ \/ Answer(f, "invalid")
     \/ /\ \E agent \in Agent \union {AnyAgent} : FindSubagent(agent) = {}
        /\ Answer(f, "agent_not_found")
  /\ UNCHANGED <<taskVars, agentVars, sync, hungUp, serverVars, auditVars>>

\* The critical section of Submit; it may sweep ended tasks.
Submit(f) ==
  /\ Move(f, "chosen", "inserted")
  /\ \E forgotten \in SUBSET Lifecycle!Ended : Lifecycle!Begin(f, forgotten)
  /\ entry' = [entry EXCEPT ![f] = "running"]
  /\ UNCHANGED <<context, agentVars, sync, answer, hungUp, serverVars, auditVars>>

SubmitRefused(f) ==
  /\ Move(f, "chosen", "answered")
  /\ \/ ~open /\ Answer(f, "closed")
     \/ /\ open /\ Cardinality(Lifecycle!InFlight) >= MaxConcurrent
        /\ Answer(f, "rate_limited")
  /\ UNCHANGED <<taskVars, agentVars, sync, hungUp, serverVars, auditVars>>

\* The rest of Submit, after its unlock: wg.Add and the goroutine.
Launch(f) ==
  /\ Move(f, "inserted", "submitted")
  /\ stage' = [stage EXCEPT ![f] = "working"]
  /\ UNCHANGED <<taskVars, via, held, sync, answer, hungUp, serverVars, auditVars>>

\* Mutation: Wait is not read.
AnswerAsyncAlways(f) ==
  /\ Move(f, "submitted", "answered")
  /\ Answer(f, "running")
  /\ UNCHANGED <<taskVars, agentVars, sync, hungUp, serverVars, auditVars>>

\* Without Wait the snapshot that Submit took is the answer, whatever has happened.
AnswerAsync(f) ==
  /\ f \notin sync
  /\ Move(f, "submitted", "answered")
  /\ Answer(f, "running")
  /\ UNCHANGED <<taskVars, agentVars, sync, hungUp, serverVars, auditVars>>

\* Wait: the lookup, under the lock.
Wait(f) ==
  /\ f \in sync
  /\ pc[f] = "submitted"
  /\ IF life[f] # "gone"
     THEN Move(f, "submitted", "waiting") /\ UNCHANGED answer
     ELSE Move(f, "submitted", "answered") /\ Answer(f, "lost")
  /\ UNCHANGED <<taskVars, agentVars, sync, hungUp, serverVars, auditVars>>

\* Mutation: the waiter looks for the ended task in the map.
WaitDoneByLookup(f) ==
  /\ life[f] \in Ending
  /\ Move(f, "waiting", "answered")
  /\ Answer(f, life[f])
  /\ UNCHANGED <<taskVars, agentVars, sync, hungUp, serverVars, auditVars>>

\* Wait: the done channel is closed.  The entry is read through the pointer, also
\* after a sweep has taken it from the map.
WaitDone(f) ==
  /\ entry[f] \in Ending
  /\ Move(f, "waiting", "answered")
  /\ Answer(f, entry[f])
  /\ UNCHANGED <<taskVars, agentVars, sync, hungUp, serverVars, auditVars>>

\* Wait: the request context is done.  A caller may hang up at any time, and nothing
\* but this select looks.
WaitCtx(f) ==
  /\ Move(f, "waiting", "fallback")
  /\ hungUp' = hungUp \union {f}
  /\ UNCHANGED <<taskVars, agentVars, sync, answer, serverVars, auditVars>>

\* Manager.Get: a sweep and the lookup in one critical section.
Snapshot(f, c, missing) ==
  /\ \E forgotten \in SUBSET Lifecycle!Ended : Lifecycle!Forget(forgotten)
  /\ Answer(c, IF life'[f] \in {"absent", "gone"} THEN missing ELSE life'[f])
  /\ UNCHANGED <<entry, context>>

\* After a wait that the caller gave up: the task as it is now, or the error of the
\* context if the task is gone.
Fallback(f) ==
  /\ Move(f, "fallback", "answered")
  /\ Snapshot(f, f, "lost")
  /\ UNCHANGED <<agentVars, sync, hungUp, serverVars, auditVars>>

StartPoll(p) ==
  /\ accepting
  /\ \E f \in Fault : life[f] # "absent"
  /\ Move(p, "idle", "chosen")
  /\ UNCHANGED <<taskVars, agentVars, sync, answer, hungUp, serverVars, auditVars>>

\* GetTask, by a caller that has learned the id.
GetTask(p) ==
  /\ Move(p, "chosen", "answered")
  /\ \E f \in Fault : life[f] # "absent" /\ Snapshot(f, p, "not_found")
  /\ UNCHANGED <<agentVars, sync, hungUp, serverVars, auditVars>>

\* A write to the audit file fails: it is closed, or it is open and the disk is full.
WriteFails ==
  \/ ~ logOpen /\ UNCHANGED faults
  \/ logOpen /\ faults < MaxFaults /\ faults' = faults + 1

\* The deferred audit entry: the body of the line, under the logger's mutex.  It goes
\* into the file whole, in part or not at all, behind what an unfinished line has left;
\* the error is dropped.
LogEntry(c) ==
  /\ pc[c] = "answered"
  /\ writer = {}
  /\ writer' = {c}
  /\ \/ /\ logOpen /\ UNCHANGED faults
        /\ torn' = TRUE
        /\ entire' = IF torn THEN {} ELSE {c}
     \/ /\ WriteFails
        /\ \/ logOpen /\ torn' = TRUE /\ entire' = {}
           \/ UNCHANGED <<torn, entire>>
  /\ UNCHANGED <<taskVars, agentVars, callVars, serverVars, logged>>

\* Its newline, which drops its error too.  Then the handler returns its answer.
LogNewline(c) ==
  /\ c \in writer
  /\ writer' = {}
  /\ \/ /\ logOpen /\ UNCHANGED faults
        /\ logged' = logged \union entire
        /\ torn' = FALSE /\ entire' = {}
     \/ WriteFails /\ UNCHANGED <<logged, torn, entire>>
  /\ Move(c, "answered", "returned")
  /\ UNCHANGED <<taskVars, agentVars, sync, answer, hungUp, serverVars>>

-----------------------------------------------------------------------------
(* The subagents: SubagentCLIBackend.Spawn and SubagentHTTPBackend.Spawn *)

Done(f) == context[f] \in {"deadline", "cancelled"}

\* Mutation: the command's exit status is looked at before the deadline.
ClassifyByExit(f) ==
  CASE stage[f] = "ok" -> "done"
    [] via[f] = "http" /\ stage[f] = "bad" /\ context[f] = "deadline" -> "timed_out"
    [] OTHER -> "failed"

\* The two backends look at different things, in different orders.
Classify(f) ==
  CASE via[f] = "cli" /\ context[f] = "deadline"                     -> "timed_out"
    [] via[f] = "http" /\ stage[f] = "bad" /\ context[f] = "deadline" -> "timed_out"
    [] via[f] = "cli" /\ context[f] = "live" /\ stage[f] = "ok"       -> "done"
    [] via[f] = "http" /\ stage[f] = "ok"                             -> "done"
    [] OTHER                                                          -> "failed"

SubagentStep(f, from, to) ==
  /\ stage[f] \in from
  /\ stage' = [stage EXCEPT ![f] = to]
  /\ UNCHANGED <<taskVars, via, callVars, serverVars, auditVars>>

\* The child exits, on its own or killed; a descendant may keep its stdout open.
ChildExits(f) ==
  /\ via[f] = "cli"
  /\ SubagentStep(f, {"working"}, "ok") \/ SubagentStep(f, {"working"}, "bad")
  /\ held' \in {held, held \union {f}}

PipeCloses(f) ==
  /\ held' = held \ {f}
  /\ f \in held
  /\ UNCHANGED <<taskVars, via, stage, callVars, serverVars, auditVars>>

\* client.Do returns: a response with a status and headers, or an error.
Headers(f) ==
  /\ via[f] = "http"
  /\ SubagentStep(f, {"working"}, "replying") \/ SubagentStep(f, {"working"}, "bad")
  /\ UNCHANGED held

\* io.ReadAll returns: a usable 2xx body, an unusable one or a broken connection, or
\* what had come when the context was done.
Body(f) ==
  /\ via[f] = "http"
  /\ \/ SubagentStep(f, {"replying"}, "ok")
     \/ SubagentStep(f, {"replying"}, "refused")
     \/ Done(f) /\ SubagentStep(f, {"replying"}, "cut")
  /\ UNCHANGED held

\* Mutation: a reply cut off is not an error, so that Spawn reads on.
SpawnReturnsUncut(f) ==
  /\ stage[f] \in {"ok", "bad", "refused"}
  /\ f \notin held
  /\ Lifecycle!End(f, Classify(f))
  /\ entry' = [entry EXCEPT ![f] = Classify(f)]
  /\ context' = [context EXCEPT ![f] = "over"]
  /\ via' = [via EXCEPT ![f] = "none"]
  /\ stage' = [stage EXCEPT ![f] = "none"]
  /\ UNCHANGED <<held, callVars, serverVars, auditVars>>

\* Spawn returns what it makes of it, Run translates it, and the manager publishes;
\* the goroutine ends, with its locals and its context.
SpawnReturns(f) ==
  /\ stage[f] \in {"ok", "bad", "refused", "cut"}
  /\ f \notin held
  /\ Lifecycle!End(f, Classify(f))
  /\ entry' = [entry EXCEPT ![f] = Classify(f)]
  /\ context' = [context EXCEPT ![f] = "over"]
  /\ via' = [via EXCEPT ![f] = "none"]
  /\ stage' = [stage EXCEPT ![f] = "none"]
  /\ UNCHANGED <<held, callVars, serverVars, auditVars>>

Deadline(f) ==
  /\ life[f] = "running"
  /\ context[f] = "live"
  /\ context' = [context EXCEPT ![f] = "deadline"]
  /\ UNCHANGED <<life, open, entry, agentVars, callVars, serverVars, auditVars>>

-----------------------------------------------------------------------------
(* serve and its shutdown *)

Serve(from, to) ==
  /\ phase = from
  /\ phase' = to
  /\ UNCHANGED <<entry, agentVars, callVars, auditVars>>

Signal ==
  /\ Serve("serving", "draining")
  /\ accepting' = FALSE
  /\ UNCHANGED <<life, open, context, clean, logOpen>>

\* Manager.Close refuses what comes and cancels what runs.
ShutTasks ==
  /\ Lifecycle!Shut
  /\ context' = [f \in Fault |->
       IF life[f] = "running" /\ context[f] = "live" THEN "cancelled" ELSE context[f]]

\* Mutation: the server is closed and not shut down.
DrainedAtOnce ==
  /\ Serve("draining", "closing")
  /\ clean' = TRUE
  /\ ShutTasks
  /\ UNCHANGED <<accepting, logOpen>>

\* Shutdown returns when no connection has a request in a handler ...
Drained ==
  /\ \A c \in Call : pc[c] \in {"idle", "returned"}
  /\ Serve("draining", "closing")
  /\ clean' = TRUE
  /\ ShutTasks
  /\ UNCHANGED <<accepting, logOpen>>

\* ... or when its ten seconds are over.
DrainExpires ==
  /\ Serve("draining", "closing")
  /\ ShutTasks
  /\ UNCHANGED <<accepting, clean, logOpen>>

\* ListenAndServe fails: serve returns without Shutdown, and the connections that are
\* open stay open.
ListenerFails ==
  /\ Serve("serving", "closing")
  /\ ShutTasks
  /\ UNCHANGED <<accepting, clean, logOpen>>

\* Mutation: the task manager is not closed before the log.
CloseLogFirst ==
  /\ Serve("closing", "closed")
  /\ logOpen' = FALSE
  /\ UNCHANGED <<life, open, context, accepting, clean>>

\* Manager.Close waits for the goroutines that wg counts; then the audit file is
\* closed, without the logger's mutex.
CloseLog ==
  /\ \A t \in Lifecycle!InFlight : t \in Fault /\ pc[t] = "inserted"
  /\ Serve("closing", "closed")
  /\ logOpen' = FALSE
  /\ UNCHANGED <<life, open, context, accepting, clean>>

\* main returns, and with it whatever goroutine is left.
Exit ==
  /\ Serve("closed", "exited")
  /\ UNCHANGED <<life, open, context, accepting, clean, logOpen>>

\* Other calls submit tasks too, and those end.
OtherTask ==
  /\ \E t \in Other :
       Lifecycle!Begin(t, {}) \/ \E how \in Ending : Lifecycle!End(t, how)
  /\ UNCHANGED <<entry, context, agentVars, callVars, serverVars, auditVars>>

CallStep(c) == LogEntry(c) \/ LogNewline(c)

FaultStep(f) ==
  \/ Start(f) \/ StartRefused(f)
  \/ Submit(f) \/ SubmitRefused(f) \/ Launch(f)
  \/ AnswerAsync(f) \/ Wait(f) \/ WaitDone(f) \/ WaitCtx(f) \/ Fallback(f)

AgentStep(f) ==
  \/ ChildExits(f) \/ PipeCloses(f) \/ Headers(f) \/ Body(f)
  \/ SpawnReturns(f) \/ Deadline(f)

PollStep(p) == StartPoll(p) \/ GetTask(p)

ServerStep ==
  \/ Signal \/ Drained \/ DrainExpires \/ ListenerFails \/ CloseLog \/ Exit

Next ==
  /\ phase # "exited"
  /\ \/ \E c \in Call : CallStep(c)
     \/ \E f \in Fault : FaultStep(f) \/ AgentStep(f)
     \/ \E p \in Poll : PollStep(p)
     \/ OtherTask
     \/ ServerStep

Safety == Init /\ [][Next]_vars

\* Handlers, goroutines and main are scheduled, deadlines come, a context that is done
\* ends the child or the exchange, and a descendant closes the pipe at some time.
Fairness ==
  /\ \A c \in Call : WF_vars(LogEntry(c)) /\ WF_vars(LogNewline(c))
  /\ \A f \in Fault :
       /\ WF_vars(Submit(f) \/ SubmitRefused(f))
       /\ WF_vars(Launch(f))
       /\ WF_vars(AnswerAsync(f) \/ Wait(f) \/ WaitDone(f) \/ Fallback(f))
       /\ WF_vars(Deadline(f))
       /\ WF_vars(Done(f) /\ (ChildExits(f) \/ Headers(f) \/ Body(f)))
       /\ WF_vars(PipeCloses(f))
       /\ WF_vars(SpawnReturns(f))
  /\ \A p \in Poll : WF_vars(GetTask(p))
  /\ WF_vars(Drained \/ DrainExpires)
  /\ WF_vars(CloseLog \/ Exit)
  /\ \A t \in Other : WF_vars(life[t] = "running" /\ OtherTask)

Spec == Safety /\ Fairness

-----------------------------------------------------------------------------
(* Properties *)

\* The dispatcher tells a delegating caller how its own task ended, "running" only if
\* the caller did not wait or hung up, and nothing of the task only once it is forgotten.
AnswersTrue ==
  \A f \in Fault :
    /\ answer[f] \in Ending => answer[f] = entry[f]
    /\ answer[f] = "running" => f \notin sync \/ f \in hungUp
    /\ answer[f] = "lost" => life[f] = "gone"

\* A task that ends past its deadline is reported as timed out, whichever way the
\* backend noticed; the one exception is an HTTP reply that had begun.
LateMeansTimedOut ==
  [][\A f \in Fault :
       context[f] = "deadline" /\ entry'[f] \in Ending \ {entry[f], "timed_out"}
         => via[f] = "http" /\ stage[f] \in {"ok", "refused", "cut"}]_vars

\* The calls that have returned and have no line in the audit file.
Lost == {c \in Call : pc[c] = "returned" /\ c \notin logged}

\* While the log is open, and for good if Shutdown drained the handlers, a failed write is
\* the only way to lose an audit line, and costs two at most: the entry it belongs to and
\* the next one, which ends up behind what it left.  (docs/security.md promises that the
\* call is refused then; nothing reads the error.)
LostOnlyToFaults ==
  /\ logOpen \/ clean => Cardinality(Lost) <= 2 * faults
  /\ clean => /\ torn => faults > 0
              /\ \A c \in Call : pc[c] \in {"idle", "returned"}

\* If Shutdown drained the handlers, no subagent outlives the server, although async
\* tasks outlive their handlers and Close counts goroutines only once launched.
GracefulStopLeavesNoTask ==
  clean /\ phase \in {"closed", "exited"} => Lifecycle!InFlight = {}

\* What the interface promises of Spawn: an agent that does not finish in time ends in
\* ErrSubagentTimeout.  (An HTTP reply cut off by the deadline does not.)
UnfinishedMeansTimedOut ==
  [][\A f \in Fault :
       context[f] = "deadline" /\ stage[f] \notin {"ok", "refused"} /\ entry'[f] \in Ending \ {entry[f]}
         => entry'[f] = "timed_out"]_vars

\* Every call returns, also one that waits on a killed, cut off or cancelled subagent,
\* unless the process is gone first.
CallsReturn ==
  \A c \in Call : pc[c] \notin {"idle", "returned"} ~> pc[c] = "returned" \/ phase = "exited"

\* A stop comes to its end, whatever the handlers and the subagents are doing.
StopEnds == phase = "draining" ~> phase = "exited"

=============================================================================
