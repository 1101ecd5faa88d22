# pagefault in TLA+

Models, model-checking configurations and proofs for pagefault, a memory server
that gives MCP and REST clients read, search, retrieve and write tools over
configured backends.  The source is the reference: every definition that stands
for code is translated from it, and `PROJECT.json` (`map`) names the lines.

## The system

| Part | State it keeps | Operations | Talks to |
|------|----------------|------------|----------|
| task manager (`internal/task`) | map of tasks, slot counter, closed flag, wait group | Submit, the run goroutine, Get, Wait, Close, sweep | subagent backends (through `Run`), dispatcher |
| OAuth2 provider (`internal/auth/oauth2.go`) | clients, authorization codes, access tokens | issue and exchange a code, issue a token, authenticate, register, reload, revoke | clients file, token endpoint |
| OAuth2 handlers (`internal/server/oauth2.go`) | none | token, authorize and register endpoints | provider |
| clients file | JSONL records | append (server), read and rename (command line), read (server) | provider, `oauth-client` command |
| dispatcher (`internal/dispatcher`) | none between calls | Search fan-out, Read, GetContext, DeepRetrieve, Write, Close | backends, filter, task manager, audit |
| subagent backends | none between calls | Spawn with a deadline, by process or by HTTP | task manager |
| filesystem, subprocess and http backends | none (compiled globs) | Read, Search, ListResources, Write | dispatcher |
| writer (`internal/write`) | a mutex | Append under mutex and flock | filesystem backend |
| audit log | an open file, a mutex | Log, Close | dispatcher |
| filter (`internal/filter`) | none (fixed globs, tags and rules) | AllowURI, AllowTags, FilterContent | dispatcher |
| rate limiter | a bucket per caller | Allow, Retry-After | every authenticated request |
| http server (`internal/server`) | none | routing, CORS, authentication, the limiter, REST and MCP gates, health | all of the above |
| configuration (`internal/config`) | fixed after start | load, default, validate, decode | every constructor |
| commands (`cmd/pagefault`) | the process: what is open | serve; maps, load, scan, peek, fault, poke, ps; oauth-client, token | all of the above |
| OpenAPI, prompts, web assets | fixed after start | pure | |

What is hard here: detached goroutines against shutdown; a counter kept by two
critical sections; a sweep that runs in the middle of other calls; lookups made
under one lock and used under the next; a one-time code and two requests that
race for it; a file with two kinds of writer and no lock; short writes, failed
syncs, killed processes and power cuts; deadlines against late answers; backends
that report in any order; budgets that cut in the middle of a character; the layers
of a router; a start-up that may fail at every stage; reservations given back late; a
disk that fills up under the audit log.  `hazards` in
`PROJECT.json` lists each at its line with the properties that cover it.

## Modules

| Module | Models |
|--------|--------|
| `TaskLifecycle` | abstract: what the manager promises its clients |
| `TaskManager` | `internal/task/task.go`; implements `TaskLifecycle` |
| `TaskManagerProofs` | theorems about `TaskManager` |
| `OAuth2Provider` | codes, tokens and clients, with the token handlers |
| `OAuth2ProviderProofs` | theorems about `OAuth2Provider` |
| `ClientsFile` | registration, reload, crash and restart against the `oauth-client` command |
| `ClientsFileProofs` | theorems about `ClientsFile` |
| `Delegation` | `pf_fault`, `pf_poke` mode:agent and `pf_ps` through the dispatcher, both subagent backends, the audit log and shutdown; composes `TaskLifecycle` |
| `DelegationProofs` | theorems about `Delegation` |
| `WritePath` | `pf_poke` mode:direct from its gates to the file |
| `WritePathProofs` | theorems about `WritePath` |
| `Resources` | operators: the filter pipeline and the reading side of the filesystem backend |
| `Retrieval` | `pf_scan`, `pf_load`, `pf_peek` through the dispatcher and the backends that answer; extends `Resources` |
| `RetrievalProofs` | theorems about `Retrieval` and the operators of `Resources` |
| `Config` | operators: from a configuration file to the parts, each stage of which may refuse |
| `RateLimit` | a bucket for each caller under concurrent requests |
| `Server` | a process from start to end, and the requests a serving one routes; extends `Config` and `RateLimit` |
| `ServerProofs` | theorems about `Server` and the operators of `Config` |
| `RateLimitProofs` | the theorem about the limiter inside `Server`; extends `ServerProofs` |
| `MC...` | model values for TLC |

Conventions.  A critical section is one step; the work on local values that
follows it belongs to it, and what the code does between two critical sections is
visible as a program counter.  A call is named by a constant (a member of `Task`,
`Code`, `Exchange`, `Grant`, `Registration`), which is also the id it mints: ids
are 128 or 256 random bits and are taken to be unique.  Time is a counter that
any step may be interleaved with; `MaxTime` stops it.  Definitions named in a
comment that starts with *Mutation* are not part of a specification: each is the
form a definition would take after a plausible mistake, and `mutants` says which
property notices.

### TaskManager

`tasks`, `running`, `closed` and `wg` are the manager's fields; `status`,
`created`, `completed` and `doneCh` are an entry's.  `pc[t]` follows one Submit
and then its goroutine: `new`, `inserted` (unlocked, not yet counted by `wg`),
`executing`, `returned`, `published`, `exited`.  `view[c][t]` is what a client
was last told, or `waiting` inside Wait's select.  Get sweeps and Wait does not,
as in the code (the package comment says that every call sweeps).  `Run` may
return a value, an error, a timeout or a panic at any time.

`CompletedAt` is read when `Run` returns and published later, under the mutex;
`completed` is therefore set a step before `status` becomes terminal, and a sweep
in between must not use it.  That is the reason for the status test in `Stale`.

### OAuth2Provider

`authCodes` and `issued` are the key sets of the two maps and `ac` and `tok` the
records behind them, which never change after they are built except for
`Consumed`: `consumed` is the set of stored codes with that flag, and goes with
the entry when the entry is swept.  `pc[x]` follows a call from its first lookup
(`approved`, `built`, `checking`, `admitted`) through the critical section that spends a code
(`spent`) to the one that stores the result (`stored`).  Reload and Revoke may run
between any two steps; the clients map may lose a client, get it back, or change
its record.  `removals`, `storedAt` and `spentBy` are history: they let the
properties speak of the past and guard nothing.

The authorization endpoint is one lookup in the handler (`Approve` and the three ways
to turn a request away) and two critical sections in the provider (`BuildCode`,
`StoreCode`).  `sent[k]` is where the browser goes, with a code or with an error.  A
consent page is an answer and no more: the form posted from it is another request.

### ClientsFile

The disk is a set of inodes with the two names `path` and `path.tmp`, so that a
descriptor opened before a rename keeps writing to the file that lost its name.
A file is the set of its complete records, what follows its last newline and a
flag for a line that does not parse.  One Write of the server may put all of a
line, none of it, a part, or all but the newline on disk.  Every step of the
server and of a command is a system call, and both may be killed between any two.

### Delegation

The task manager appears by its promise: `life` and `open` are the variables of
`TaskLifecycle`, and `Submit`, `SpawnReturns`, the sweeps and the shutdown take its
actions.  `TaskManager` is shown to implement it (`task_progress`), so the two
modules together cover the path from a handler to a goroutine.  `entry[f]` is what a
waiter reads through its own pointer, after a sweep too, and `life[f]` what a lookup
finds; the code's order (wait on the pointer, look up only after a hang-up) is what
`AnswersTrue` is about.  `stage` and `held` follow the subagent: a child process
and the pipe that its descendants may hold, or the two halves of an HTTP reply,
headers and body.  `context[f]` says why a context is done, since the backends
classify an outcome by it.  The audit logger writes an entry and its newline
separately, under its mutex; `Close` takes no mutex.  Either write may fail on the open
file, in whole or in part, and the code drops the error (audit.go:68-69): `faults`
counts those failures and `MaxFaults` bounds them, `torn` says that the file ends
inside a line and `entire` whose entry is all of that line.  `phase`, `accepting` and
`clean` follow `serve`: signal, drain with a deadline, task manager, audit file, exit.

### WritePath

`data[u]` is what a reader of the file sees and `synced[u]` the part of it that a
power cut spares.  A text is two pieces, because one write(2) may take less than it
was given and Go then calls again.  `mutex` and `flock` are sets with at most one
member, so that a mutant may put two there.  `locking = "none"` is the
configuration's single-writer case, and there only `Server` writes; under `flock`
any process does.  The command line's `--no-filter` is the case without filter globs.
A killed process may be started again at once, which is why no variable says that
one is down.  The name of a new file is taken to survive a power cut (the code
syncs the file and not its directory), and a program that replaces the file by a
rename is left out.

### Retrieval and Resources

A behaviour makes one call while files change, backends fail and the caller may go: calls
share nothing else. A glob is the set of the URIs it matches, `Dotted` the URIs whose path
has ".." in it, a file a sequence of lines of six kinds, a command's output or a server's
array a sequence of items. `run[i]` is the goroutine of the i-th target of a search; a
filesystem walks its files one entry a step, so a file may change behind or before it. A
walk meets only the URIs of its own backend (`ResolveURI`, filesystem.go:185, and the
schemes of dispatcher.go:97-105). `VisitNext` and `LoadSource` use `Visit` and `Readable`,
which translate the two code paths from a file to a caller; `FoundIsReadable` compares
them. A result of a walk carries the line as the file has it (`Hit`). `of` in an answer or
a loaded source is the file's text as it was read: history, for the properties. A source
of a markdown bundle is a header of one byte and a character of two for each line, so that
a cut may fall into one; `uris` are the sources that begin before the cut (`BeganBefore`),
since those behind it are gone from the text and leave no record, and `size` has the
marker behind the cut (`MarkerSize`). The document of the json format has a size that
grows with each source, which is all that the truncation looks at.

### Server, Config and RateLimit

`Config` keeps of every path, pattern and template its fate at start-up, and of every
number its value: `Defaulted`, `Valid`, `WriteDefaulted`, `Constructs`, `AuditOpens`,
`Wires`, `Provides` and `Settings` are the stages in the order of the code.  `Server`
runs a script of commands, one process after the other; `stage` says how far a process
has come, `opened` what it has to close.  A request gets to the limiter in one step,
because nothing on the way waits; from there on `at[r]` is the program counter and
the steps of `RateLimit` interleave.  The tools behind the router are `Retrieval`,
`Delegation` and `WritePath`; here one is a result.  `peer` is the other
end of a request's connection and `forwarded` what a forwarding header says; `Remote` is
what `middleware.RealIP` makes of the two, and that is what authentication sees.  Which
of the three headers it takes and how it parses it is left out.  A path
that is mounted under another method gets 405, an unknown one 404 (`Mounted`); what
/api/openapi.json gets behind the middlewares when it is not fetched is either
(`Unrouted`).  A new process begins without requests, buckets or a clock that runs
(`Forget`): the limiter's map is the process's own.

`RateLimit` follows `golang.org/x/time/rate` in integers: a tick of the clock is one unit,
a token `Cost` units. `paid` is history: the requests for which `Allow` has taken a token.
`ReserveN` may leave a bucket in debt; `CancelAt` gives back what was not promised to a
later reservation. The rate that the limiter refills at is a constant of the run and not
the configured one.

## Runs

| Run | Question | Result |
|-----|----------|--------|
| `task_safety` | slot counter, retention, cancellation, truth of answers, drain | holds |
| `task_progress` | does the manager implement `TaskLifecycle`, progress included; do Wait and Close return | holds |
| `task_close_quiet` | is no goroutine left when Close returns | violated |
| `oauth` | one attempt per code, the right client, secret and redirect URI; removal cuts off stored tokens; nothing else drops a live one | holds |
| `clients_file` | what survives appends, rewrites, crashes and failed writes | holds |
| `delegation` | are answers and outcomes true, is a failed write the only way to lose an audit line, does a drained stop leave no task behind, do calls and stops end | holds |
| `delegation_timeout` | does a subagent that misses its deadline always end as timed out | violated |
| `write_path` | is what is acknowledged whole and durable, is any text split, do writes return | holds |
| `retrieval` | is the merge independent of order and failures, do search and read agree (paths with ".." aside), does a slice keep what is masked, is every source accounted for, where do budgets cut, are calls answered | holds |
| `server` | does any start-up leak, are defaults workable, is there a way around a middleware, does the limiter hold | holds |
| `command_async` | can a task of `fault --async` be polled | violated |
| `rate_refusals` | does a refusal leave the bucket alone | violated |

Bounds.  A lifetime of 0 ticks in a configuration lasts to the end of its tick.
The tasks: two Submits over one slot make every pair of steps of two
tasks race, including a refusal for the cap and one for `closed`; a TTL and a
timeout of one tick with three ticks let a task end, age past its TTL and be swept
while the other runs.  A third task adds no new pair.  Progress is
checked with one task, two clients and two closers (`task_progress`): what makes a
Wait or a Close return depends on each task by itself.  The codes: one code
is enough because exchanges of different codes share nothing but the sweep; two
exchanges cover the race, and two clients, secrets, redirect URIs and verifiers
make each check fail on its own.  The tokens: one of each grant, two removals of
one client, so that a token may be stored after the first and be cut off by the
second; two ticks, so that codes and tokens expire at different times.  `MCWorkload`
keeps the two halves apart (a race while clients stay; one exchange and a grant
while they go), since a removal concerns each exchange by itself.  The file:
two registrations (one can spoil the line of the other), one operator with two
commands in sequence (a create or revoke after a failed or killed one).
The delegation: one call that delegates and one that polls meet everything the
dispatcher shares, which is a slot (taken by a third task), the logger's mutex and
the shutdown; delegations share nothing else.  Three agents: on two
backends, on one, on none.  One write of the audit file may
fail.  With two calls that shows that no line is lost and none is torn without a failure,
and that a drain in time leaves no call behind; that one failure costs two lines and
never a third is the theorem's.  The writes: two of them, on one process or two, to a file
that a foreign program also writes (one text), to another file, and to one that
the backend does not read; `MCInit` keeps one of each set of starts that differ only
in the names of writes and processes, since a liveness property rules out SYMMETRY.

The retrieval: a filesystem and an http backend are the two shapes of target (one walks,
one waits); a caller may name one backend twice. Four files, of which one matches no glob,
one has two dots in its name and one is anything (with a secret over two lines, beyond the
scanner's buffer, a link out of the root, a link to a directory, absent), one change,
three filters (off; a tag denied; a URI denied, without redaction), a context that names a
file twice and a URI that is nobody's, and budgets of one byte, of nine and sixteen
(exactly the document of one source and of two, and a byte that is inside a character of a
markdown text), and none. A subprocess backend differs from the http one in its failures
only and has no run of its own. The server: `Serving` differ from a base configuration in
one field or two, `Failing` break one stage each; every kind of request arrives at each
serving configuration alone, from either peer with and without a forwarded address, two
callers with and without an id share a limited server, and five requests of one caller
meet a bucket of two tokens, so that three are refused at once.

Deadlock is not checked: the workloads are finite and the system may come to
rest.  What must go on is stated as liveness.

Symmetry: tasks, closers, racing exchanges and registrations are interchangeable
in the safety runs.  No run with a liveness property uses symmetry.

Fairness.  In `TaskManager`, launched goroutines and steps that follow an
unlock are scheduled (weak fairness on `Launch`, `Publish`, `Exit`, `CloseWait`,
`WaitDone`), and time passes.  `Run` need not return before its context is done
(`WF_vars(CtxDone(t) /\ RunStep(t))`); once it is done, it is assumed to.  The
backends promise that, and one of them may break it: `cmd.Run` in
`subagent_cli.go` waits for the output pipes of descendants that the deadline
does not kill.  Clients need not poll.  `Delegation` has that pipe: `PipeCloses` is
assumed to happen, and neither `CallsReturn` nor `StopEnds` would hold without it.
There, deadlines come, a done context ends the child or the exchange, handlers and
main are scheduled; callers need not hang up and signals need not come.  In
`WritePath` a write that has entered takes its next step; entering the mutex is
strongly fair (Go hands a mutex to a waiter that starves), and so is taking the lock,
which assumes that the kernel does not pass one waiter over for ever; the foreign
program is assumed to release.  If it never did, one locked file would stop
every write of the process, to any file, and no caller could cancel.  In `Retrieval`
the goroutines of a search go on and a backend answers or meets its deadline (each
has one, or a walk that ends).  `OAuth2Provider`, `ClientsFile` and `Server` have no
fairness and no liveness.

## What the violated runs show

- `task_close_quiet`.  Submit releases the mutex (task.go:258) before it calls
  `wg.Add(1)` (260).  A Close between the two finds the counter at zero and
  returns, and the goroutine starts afterwards.  The comment on Close (367-368)
  says that it waits for the goroutines.  `DrainWaits` says what does hold: no
  goroutine launched by then is left.  An `Add` that runs concurrently with a
  `Wait` at zero is also a misuse that `sync.WaitGroup` may answer with a panic;
  that outcome is not modelled.
- `delegation_timeout`.  A deadline that fires while the HTTP backend reads the body
  ends the task as failed: only an error of `client.Do` is held against the deadline
  (subagent_http.go:214-219), not one of `io.ReadAll` (224-227).  The interface
  (subagent.go:44-47) promises a timeout and the partial output.  `LateMeansTimedOut`
  says what does hold.
- `command_async`.  `fault --async` submits to the manager of its own process and
  returns; the deferred closer cancels the task.  The `ps` it says to poll with
  (tools.go:395, and the flag's help at 356) has another manager and answers
  resource_not_found.
- `rate_refusals`.  Two refused requests reserve one after the other; the earlier then
  cancels and gets nothing back, because the later reservation counts on it
  (ratelimit.go:67-82, "don't actually consume the token").  A token is lost and the
  next request waits longer.  `AdmittedBounded` says what does hold: refusals never
  let more through.

Three properties say what is left of a comment. A token request that has read its client
before a reload or revocation stores its token after it (oauth2.go:393), which the
comments at 206-209 and 264-267 do not expect; `CutOff` speaks of the tokens stored by
then. The server's append may fall between the command line's read and its rename, which
oauth2.go:827-828 says that appending avoids; `LostOnlyToRewrite` says that this is the
only way. docs/security.md:682 says that no subagent outlives the process;
`GracefulStopLeavesNoTask` says it of tasks after a drain in time, since descendants of a
killed command may live on and after a deadline `wg.Add` races Close. In this version only
start-up and tests reload or revoke.

Five more properties say what the code does where a document says something else, and
none of them should be read for the document's words.

- Audit.  `Log` drops the errors of its two writes and returns nothing (audit.go:61-69), so
  that a call whose line is lost or cut is answered all the same.
  docs/security.md:406-408 promises an error and a 500 on a full disk, against losing
  audit coverage silently.  The code gives neither the line nor the 500.  What is left is
  `LostOnlyToFaults`: nothing but such a failure costs a line.
- Reading a hit.  `relPathFromURI` refuses a path that contains ".." anywhere
  (filesystem.go:177), a..b.md included; the walk of a search does not (425-460), and
  pf_scan's description (mcp.go:119) says to read a hit in full with pf_peek.
  `FoundIsReadable` is of the other paths.
- Redaction.  Search filters URIs and tags and never redacts (dispatcher.go:451-465), so
  that a snippet is a line of the file as it stands; docs/security.md:359-361 and 696 and
  docs/config-doc.md:962-964 say that no unredacted copy leaves.  `SecretsMasked` is of
  pf_peek and pf_load.
- Budgets.  max_size is compared with bytes (dispatcher.go:287, 303) where config.go:580
  and docs/config-doc.md:858 say characters, and the marker is added on top (292, 308).
  `WithinBudget` is of bytes in front of the marker, and `SourcesAccounted` lets a text that
  has the marker lack its last sources, of which no record is made.
- The peer.  RealIP (server.go:274) has replaced `RemoteAddr` before authentication
  compares it with trusted_proxies (auth.go:273-286), by an address that a header forwards;
  auth.go:252 and docs/security.md:24-26 and 287-288 speak of the peer.  `ToolsGuarded` is
  stated with `Remote`, which is what the code guards by.

Met on the way and not worth a run: a response_path that the body lacks is an error
of the http backend that Search passes over (http.go:159-163); a bad JSON body of a
REST call is answered 400 with code internal_error where docs/api-doc.md:360 says
invalid_request; `log_path` turns the audit log on although `enabled` is false, and
audit.go says that it matches applyDefaults; an empty tokens file loads although
auth.go calls it an error; a symbolic link to a directory that an include glob matches
fails a whole search; the command line does not look at `tools:`.

## Proofs

`TaskManagerProofs` proves, for any finite set of tasks, any clients and closers
and any configuration that satisfies `ConfigAssumption`, every safety property of
`task_safety` and the safety part of the refinement.  TLC evaluates the two
assumptions on each run.

The invariants are not inductive one by one.  `IInv` joins them with three facts:
`ControlMatches` (what `pc` says of an entry: its status, whether it is in the
map, whether its channel is closed, whether its outcome is pending), `CapHeld`
(`running <= MaxConcurrent`) and `WaitGroupExact` (`wg` is the number of live
goroutines, and a blocked closer sees it above zero).  `RunsBounded` then follows
because an executing task is a running entry, `SlotsExact` says that `running`
counts those, and `CapHeld` bounds it; `SlotsExact` needs `ControlMatches`, so
that a sweep takes no running entry and `Publish` releases exactly one.
Cardinality steps rest on lemmas about adding and removing one element.  The
action properties (`WaitsKeepTheirTask`, `DrainWaitsForGoroutines`) follow from
`IInv` one action at a time.  `ImplementsLifecycleSafely` maps each action to
`Begin`, `End`, `Forget`, `Shut` or a stutter.

`OAuth2ProviderProofs` proves every property of `oauth` for any clients, codes,
exchanges and grants (infinite sets included), any files, requests and lifetimes.
What it assumes: a file holds no record that is neither confidential nor public; a
call of one kind is no call of another; `None` is no value of the program.  A call
holds no lock from its lookup to its store, so the invariant has to say what a
program counter still guarantees after the map has changed underneath.

- `Control`: what a call has built, asked for and sent, by where it is; only a stored
  code can have been spent; an exchange that has yet to spend is in no `spentBy`.
- `FromFile`: every record in memory is one that some file holds.  Through it an
  earlier lookup stays a fact about the files (`RegisteredSomewhere`, `Guarded`)
  after a reload or a revocation.  `RedirectsAreRegistered` and
  `AdmittedAreGuarded`, of which `SecretGuardsCode` is a consequence, rest on it.
- `SpentByOne`: a spent code is not spendable and has one spender.  A sweep takes the
  flag only with the entry, and a code is stored once (`Control`), so no step makes it
  spendable again; `CodeSpentOnce` follows.
- `SpentMatches`: an exchange between the critical section and the token is that
  spender, with the redirect URI and the verifier of the code.  `TokensMatchCodes` is
  inductive together with it, because only `BuildCode` changes a code and only one
  that nobody has spent (`SpentCodesFixed`).
- `CutOff` needs `Control`: a token in the making is in no store yet.

`TokensKept` holds of each step by itself.  `ExpiresInRoundsUp` is arithmetic: the
number in a token response is the least that covers what remains, and at least one.

`ClientsFileProofs` has two layers. For any number of operators at once, with any finite
`Cli`: `Descriptors` (whoever has a descriptor has an inode that exists), `OnDisk` (every
record on disk was written by somebody) and `Allocated` (the inodes suffice, by an
injection of those in use into the commands that made them) carry `ClientsWereWritten`.
Under `OneOperator`, `OneInv` adds what an append or a command finds when it goes on:
`path` holds whole lines or ends in one that was cut (`PathIsWhole`, `LastLines`),
`path.tmp` belongs to the command that is writing it (`TmpIsOwn`), what that command has
read and edited agrees with every command before it (`EditIsSound`), and no registration
is in a file before it is written (`Fresh`). From it follow `RewriteIsAtomic`,
`CommandsLast` and, through `Kept`, `LostOnlyToRewrite`.

`DelegationProofs` holds for any calls, other tasks and agents.  `Control` is what the
parts know of one another: the phase of the server and its listener and logger
(`PhaseMatches`), a call's place and its task (`CallsMatch`), a task, its entry and the
slot it holds (`EntriesMatch`), a task and its subagent (`AgentsMatch`), a place and the
audit lines (`LogMatches`), and that after a drain in time every call has ended
(`CleanIsQuiet`).  With it `AnswersTrue` and `GracefulStopLeavesNoTask` are
inductive, and `LateMeansTimedOut` holds of each step.  `LossesHaveFaults` bounds the lost lines
by the failed writes; what is inductive is a sum: two for each failure cover the lines
lost so far, the one that the call with the mutex may be about to lose, and the one
that a torn line will cost.

`WritePathProofs` holds for any writes, files, processes and texts of `Pieces` pieces.
`MutexMatches` and `LockMatches` say that a mutex and a flock have one holder and who it
is; `TextsMatch` that the holder's text so far is the end of its file, so that the next
piece goes behind its own, and that a write which has not come to writing has left nothing
anywhere; `WrittenIsSynced` that a power cut does not reach what was acknowledged.
`locking = "none"` is included, with the module's assumption that only the server then
writes.

`RetrievalProofs` holds for any backends, globs, files, replies, contexts and requests.
`SearchMatches` says what the goroutine of each target has found after the entries it has
visited, `LoadMatches` that the sources seen so far are loaded or skipped as often as the
context names them. `FoundIsReadable` is of paths without "..", `SecretsMasked` of what
Read and GetContext serve, and `WithinBudget` of bytes, for every length of the marker. A
call that is answered takes no step, so each of the five properties is established at the
step that answers. What the two loops compute is a recursive function, and proofs about
those need induction: `Induction` has it with a *set* in place of a predicate, from the
library's theorem on minimal elements (`WFMin`), which the provers can instantiate. On it
rest the lemmas about the operators: what a cut at the limit takes of a filtered merge
(`SelectTakes`, `SelectConcat`, `SelectRanks`), that the merge has every hit in its place
(`MergeRanks`, `MovedCounts`), what a bundle holds (`FlattenJoins`) and that a stretch
of a redacted text is masked as the whole is (`StretchIsMasked`).

`ServerProofs` holds for any configuration files, scripts and requests that satisfy
`ServerAssumption`. `SettingsMatch` says what each stage of the start-up has checked or
completed: a file in `Config` that passes `Valid` and the constructors has no number left
at zero. `OpenedMatches` says that nothing is open outside the stages between audit log
and exit, `RequestsMatch` what a request has passed by where it is: one that is past the
limiter of a limited server is in `paid`, and one that authentication let through has
shown what its mode asks for.

`RateLimitProofs` proves `AdmittedBounded` for any burst, cost, callers and requests.
That requests pay for what they take is not inductive: `CancelAt` gives back what was
not promised to later reservations by comparing with `lastEvent`, and a cancellation
may move `lastEvent` below reservations that are still out, so that one of them later
gets back more than it should, paid for by what others have lost.  `Balanced` accounts
for that.  For a bucket that is empty at the moment `Dry` (in the past or to come), with
n requests let through, and seen from any moment `from` that a later cancellation may
still refer to,

    Cost * n + (the claims of the reservations that are out) <= Full + Dry + Excess(Dry - from)

where a reservation that can act at a claims `Max(0, Cost + a - from) + Excess(a - from - Cost)`
and `Excess(y) = Max(0, y) + 2 * Excess(y - Cost)`.  `Excess` is the most that reservations
beyond `from` can gain from one another; it is convex (`ExcessConvex`), which is what
each of the four cases needs.  At an admission the bucket has a token, `Dry + Cost <= now`,
`from` may be `now`, the excess is 0 and the bound is the one stated.  Sums over requests
are cardinalities of sets of pairs (`Total`), so that no recursion over sets is needed;
for a finite set of requests that have begun, out of a set that may be infinite.

### Only model-checked

Liveness under fairness, which is out of the prover's reach: the progress part of
`ImplementsLifecycle`, `WaitsEnd` and `CloseEnds`, `CallsReturn` and `StopEnds`,
`WritesReturn`, `CallsAnswered`.  That the model's operators on configurations and
files are those of the code is a matter of reading the two side by side.

## Not modelled

`components` in `PROJECT.json` lists every part with its status. Left out on purpose: the
`token` command, which does to another file what `oauth-client` does to its own, and to
which nothing appends; the OpenAPI document, prompts and web assets, which are text; the
decoding of tool arguments and the wording of results, errors, logs and snippets; invalid
UTF-8, in front of which the loop for the start of a character may stop elsewhere; rules
that match within one line (one that spans two is the harder case); randomness (ids are
unique); a disk that loses synced data; TLS and proxies before the server; the values of
`rps` and of lifetimes too large for a time.Duration. What no property says, though the
model has it: `AnswersTrue` allows the answer "lost", so it does not rule out that a sweep
takes a task before its caller has looked; `TokensKept` is the half of expiry that keeps a
live token; a short append to the clients file leaves a line that makes it unreadable,
from which `RewriteIsAtomic` and `CommandsLast` except themselves; a cut markdown bundle
has no record of what was behind the cut.

Two commands of the operator at once share `path.tmp`
and can undo one another.  `ClientsFile` has the steps (`Cli` may have any finite number
of members), and `ClientsWereWritten` is proved for them; its other properties assume
one operator at a time.

## Plan

1. `TaskManager`, `TaskLifecycle`: done, proved.
2. `OAuth2Provider`, `ClientsFile`: done, proved.
3. `Delegation`: done, proved.
4. `WritePath`: done, proved.
5. `Resources`, `Retrieval`: done, proved.
6. `Config`, `RateLimit`, `Server`: done, proved.
7. Next: what of `CommandsLast` and `RewriteIsAtomic` is left with two operators; what a
   stale reload (`oauth2.go:218`) can take away; how long after a refusal a caller gets
   its next token; lemmas about `Config` that say what each refusal guards.
