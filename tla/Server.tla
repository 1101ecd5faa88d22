------------------------------- MODULE Server -------------------------------
(***************************************************************************)
(* The program from its start to its end: cmd/pagefault/serve.go and       *)
(* tools.go build the parts from a configuration, and close them again     *)
(* whatever fails in between; internal/server routes the requests of the   *)
(* serving program through CORS, authentication (internal/auth/auth.go)    *)
(* and the rate limiter to the tools, which are Retrieval, Delegation and  *)
(* WritePath.                                                              *)
(*                                                                         *)
(* chi, mcp-go and net/http are external.  A header is what its reader     *)
(* makes of it; the path "oauth" is /oauth/authorize.                      *)
(***************************************************************************)
EXTENDS Config, RateLimit

CONSTANTS
  Script,     \* the sequences of commands that may be given
  None,       \* no configuration, no query
  Token,      \* bearer tokens of the tokens file
  Issued,     \* access tokens the OAuth2 provider has issued
  Owner,      \* Owner[t]: the caller behind a token, NoCaller for an empty id
  NoOrigin,
  NoAddress,  \* no header that forwards an address
  Queries(_), \* Queries(c): what is asked of a server with configuration c
  Arrivals(_) \* Arrivals(c): bound on the requests it gets

Command ==
  [program : {"serve", "maps", "load", "scan", "peek", "fault", "poke", "ps"},
   usage : BOOLEAN,      \* the arguments are in order
   config : Config, port : Nat, noFilter : BOOLEAN, async : BOOLEAN, poll : BOOLEAN]

\* cred is a token, or any other string for a header that carries none; peer is the other
\* end of the connection, and forwarded the address that True-Client-IP, X-Real-IP or
\* X-Forwarded-For gives.  A preflight is an OPTIONS request that asks for a method.
Query ==
  {q \in [path : {"web", "health", "openapi", "oauth", "register", "mcp", "sse", "message", "api",
                  "other"},
          tool : Tool \union {Blank}, method : {"GET", "HEAD", "POST", "DELETE", "OPTIONS"},
          preflight : BOOLEAN, origin : Origin \union {NoOrigin},
          cred : Token \union Issued \union {Blank}, header : Caller \union {NoCaller},
          peer : Address, forwarded : Address \union {NoAddress}, body : {"good", "bad"}] :
     q.preflight => q.method = "OPTIONS"}

ASSUME ServerAssumption ==
  \A s \in Script :
    /\ s \in Seq(Command)
    /\ \A i \in DOMAIN s : Queries(s[i].config) \subseteq Query

VARIABLES
  script,     \* the commands still to come
  stage, command, settings,  \* of the process that runs
  opened,     \* the parts that it has to close
  held,       \* the tasks its manager knows
  promised,   \* task ids that were printed, of any process
  told,       \* told[t]: what polling t was answered
  query, answer,
  ran         \* ran[r]: the tool that r has run, Blank if none

processVars == <<script, stage, command, settings, opened, held, promised, told>>
requestVars == <<query, answer, ran>>
vars == <<processVars, requestVars, rateVars>>

NoAnswer == [status |-> 0, code |-> Blank, allow |-> Blank]

TypeOK ==
  /\ stage \in {"down", "loaded", "built", "audited", "wired", "ready", "serving", "closing", "exited"}
  /\ opened \subseteq {"audit", "tasks"}
  /\ promised \subseteq Nat /\ DOMAIN told = promised
  /\ \A r \in Request : ran[r] \in Tool \union {Blank}
  /\ \A c \in DOMAIN buckets : buckets[c] \in Bucket
  /\ paid \subseteq Request

Init ==
  /\ script \in Script /\ stage = "down" /\ command = None /\ settings = None
  /\ opened = {} /\ held = {} /\ promised = {} /\ told = [t \in {} |-> Blank]
  /\ query = [r \in Request |-> None] /\ answer = [r \in Request |-> NoAnswer]
  /\ ran = [r \in Request |-> Blank]
  /\ RateInit

\* A process begins without requests, whatever the one before it has seen.
Forget ==
  /\ query' = [r \in Request |-> None] /\ answer' = [r \in Request |-> NoAnswer]
  /\ ran' = [r \in Request |-> Blank]
  /\ now' = 0 /\ buckets' = [c \in {} |-> Fresh] /\ at' = [r \in Request |-> "new"]
  /\ caller' = [r \in Request |-> NoCaller]
  /\ act' = [r \in Request |-> 0] /\ retry' = [r \in Request |-> 0] /\ paid' = {}

-----------------------------------------------------------------------------
(* Start and end of a process *)

\* --port overrides what was validated, and is not.  The tools write to standard
\* output, so that their log does not, and --no-filter wipes the filters.
Overridden(c, cmd) ==
  IF cmd.program = "serve"
  THEN [c EXCEPT !.port = IF cmd.port > 0 THEN cmd.port ELSE @]
  ELSE [c EXCEPT !.filtersOn = @ /\ ~ cmd.noFilter,
                 !.auditMode = IF @ = "stdout" THEN "stderr" ELSE @]

Proceed(ok, next, otherwise) == stage' = IF ok THEN next ELSE otherwise

Start ==
  /\ stage \in {"down", "exited"} /\ script # <<>>
  /\ LET cmd == Head(script)
         ok == cmd.usage /\ Loads(cmd.config)
     IN  /\ command' = cmd
         /\ settings' = IF ok THEN Overridden(Defaulted(cmd.config), cmd) ELSE None
         /\ Proceed(ok, "loaded", "exited")
  /\ script' = Tail(script)
  /\ Forget
  /\ UNCHANGED <<opened, held, promised, told>>

\* buildDispatcher, up to the filter: nothing is open yet.
BuildBackends ==
  /\ stage = "loaded"
  /\ LET ok == /\ \A i \in DOMAIN settings.backends : Constructs(WriteDefaulted(settings.backends[i]))
               /\ FilterBuilds(settings)
     IN  Proceed(ok, "built", "exited")
  /\ settings' = Settings(settings)
  /\ UNCHANGED <<script, command, opened, held, promised, told, requestVars, rateVars>>

OpenAudit ==
  /\ stage = "built"
  /\ Proceed(AuditOpens(settings), "audited", "exited")
  /\ opened' = IF AuditOpens(settings) /\ settings.auditMode # "off" THEN {"audit"} ELSE {}
  /\ UNCHANGED <<script, command, settings, held, promised, told, requestVars, rateVars>>

\* Mutation: a dispatcher that is not built leaves its parts open.
NewDispatcherLeaving ==
  /\ stage = "audited"
  /\ Proceed(Wires(settings), "wired", "exited")
  /\ opened' = opened \union {"tasks"}
  /\ UNCHANGED <<script, command, settings, held, promised, told, requestVars, rateVars>>

\* The task manager, and the dispatcher that closes it; without one buildDispatcher does.
NewDispatcher ==
  /\ stage = "audited"
  /\ Proceed(Wires(settings), "wired", "exited")
  /\ opened' = IF Wires(settings) THEN opened \union {"tasks"} ELSE {}
  /\ UNCHANGED <<script, command, settings, held, promised, told, requestVars, rateVars>>

\* From here on the closer is deferred.
NewProvider ==
  /\ stage = "wired" /\ command.program = "serve"
  /\ Proceed(Provides(settings), "ready", "closing")
  /\ UNCHANGED <<script, command, settings, opened, held, promised, told, requestVars, rateVars>>

\* The port may be taken; one that does not exist fails always.
Listen ==
  /\ stage = "ready"
  /\ \/ PortOK(settings.port) /\ stage' = "serving"
     \/ stage' = "closing"
  /\ UNCHANGED <<script, command, settings, opened, held, promised, told, requestVars, rateVars>>

\* SIGINT or SIGTERM, and http.Server.Shutdown: no more requests are taken, and after
\* ten seconds those that are not answered yet are left behind.
Signal ==
  /\ stage = "serving" /\ stage' = "closing"
  /\ UNCHANGED <<script, command, settings, opened, held, promised, told, requestVars, rateVars>>

\* ToolDispatcher.Close: running tasks are cancelled with their manager.
Close ==
  /\ stage = "closing" /\ stage' = "exited"
  /\ opened' = {} /\ held' = {}
  /\ UNCHANGED <<script, command, settings, promised, told, requestVars, rateVars>>

\* runMaps, runLoad, runScan, runPeek, runPoke: one call of a handler, as the caller "cli"
\* and whatever `tools` says.
RunTool ==
  /\ stage = "wired" /\ command.program \in {"maps", "load", "scan", "peek", "poke"}
  /\ stage' = "closing"
  /\ UNCHANGED <<script, command, settings, opened, held, promised, told, requestVars, rateVars>>

\* runFault waits for the agent, or with --async prints the id of the task and returns.
RunFault ==
  /\ stage = "wired" /\ command.program = "fault"
  /\ stage' = "closing"
  /\ \/ UNCHANGED <<held, promised, told>>      \* an error, or an answer
     \/ LET id == Cardinality(promised) + 1
        IN  /\ command.async
            /\ held' = held \union {id} /\ promised' = promised \union {id}
            /\ told' = [t \in promised' |-> IF t = id THEN Blank ELSE told[t]]
  /\ UNCHANGED <<script, command, settings, opened, requestVars, rateVars>>

\* runPs lists the agents, or asks this process's manager for a task.
RunPs ==
  /\ stage = "wired" /\ command.program = "ps"
  /\ stage' = "closing"
  /\ IF command.poll /\ promised # {}
     THEN \E t \in promised :
            told' = [told EXCEPT ![t] = IF t \in held THEN "found" ELSE "resource_not_found"]
     ELSE UNCHANGED told
  /\ UNCHANGED <<script, command, settings, opened, held, promised, requestVars, rateVars>>

Process ==
  \/ Start \/ BuildBackends \/ OpenAudit \/ NewDispatcher \/ NewProvider \/ Listen \/ Signal
  \/ Close \/ RunTool \/ RunFault \/ RunPs

-----------------------------------------------------------------------------
(* A request *)

CorsOn == settings.corsOn /\ (settings.anyOrigin \/ settings.origins # {})

\* Access-Control-Allow-Origin: "*" is not said together with credentials.
AllowOrigin(q) ==
  IF ~ CorsOn \/ q.origin = NoOrigin \/ ~ (settings.anyOrigin \/ q.origin \in settings.origins)
  THEN Blank
  ELSE IF settings.anyOrigin /\ ~ settings.credentials THEN "*" ELSE "origin"

\* Routes without authentication.
Public(q) ==
  \/ q.path = "web" /\ q.method \in {"GET", "HEAD"}
  \/ q.path \in {"health", "openapi"} /\ q.method = "GET"
  \/ q.path = "oauth" /\ settings.auth = "oauth2" /\ q.method \in {"GET", "POST"}
  \/ q.path = "register" /\ settings.auth = "oauth2" /\ settings.dcr /\ q.method = "POST"

\* Everything under /mcp and /api is behind the middlewares, routed further or not, and
\* /api/openapi.json is too when it is not fetched.
Protected(q) ==
  \/ q.path \in {"mcp", "api"}
  \/ q.path = "openapi" /\ q.method # "GET"
  \/ q.path = "sse" /\ settings.sse /\ q.method = "GET"
  \/ q.path = "message" /\ settings.sse /\ q.method = "POST"

\* Paths that the router knows under some method: another one is not allowed there.
Mounted(q) ==
  \/ q.path \in {"web", "health"}
  \/ q.path = "oauth" /\ settings.auth = "oauth2"
  \/ q.path = "register" /\ settings.auth = "oauth2" /\ settings.dcr
  \/ q.path \in {"sse", "message"} /\ settings.sse

\* middleware.RealIP: what a header gives takes the place of the peer's address.
Remote(q) == IF q.forwarded # NoAddress THEN q.forwarded ELSE q.peer

\* BearerTokenAuth.Authenticate
ByToken(q) == IF q.cred \in Token THEN {Owner[q.cred]} ELSE {"unauthenticated"}

\* OAuth2Provider.Authenticate: an issued token may have expired.
ByIssued(q) ==
  IF q.cred \in Issued THEN {Owner[q.cred], "unauthenticated"}
  ELSE IF settings.tokensFile # Blank THEN ByToken(q) ELSE {"unauthenticated"}

\* TrustedHeaderAuth.Authenticate
ByHeader(q) ==
  IF settings.proxies # {} /\ Remote(q) \notin settings.proxies THEN {"forbidden"}
  ELSE IF q.header = NoCaller THEN {"unauthenticated"} ELSE {q.header}

\* auth.Middleware lets a preflight pass without a caller.
Authenticate(q) ==
  CASE q.preflight -> {NoCaller}
    [] ~ q.preflight /\ settings.auth = "none" -> {Anonymous}
    [] ~ q.preflight /\ settings.auth = "bearer" -> ByToken(q)
    [] ~ q.preflight /\ settings.auth = "oauth2" -> ByIssued(q)
    [] ~ q.preflight /\ settings.auth = "trusted_header" -> ByHeader(q)

\* errorStatus and errorCode
Status == [invalid_request |-> 400, unauthenticated |-> 401, access_violation |-> 403,
           resource_not_found |-> 404, context_not_found |-> 404, backend_not_found |-> 404,
           agent_not_found |-> 404, content_too_large |-> 413, backend_unavailable |-> 502,
           subagent_timeout |-> 504, rate_limited |-> 429, internal_error |-> 500]

Respond(r, status, code) ==
  answer' = [answer EXCEPT ![r].status = status, ![r].code = code]

\* handleHealth probes every backend.
Health(bad) ==
  CASE bad = {} -> "ok" [] bad = DOMAIN settings.backends -> "unavailable" [] OTHER -> "degraded"

\* Up to the middlewares nothing waits, so a request gets there in one step.  One that
\* is answered on the way is "done" without having asked for a token.
Arrive(r, q) ==
  /\ stage = "serving" /\ at[r] = "new"
  /\ query' = [query EXCEPT ![r] = q]
  /\ LET say(status, code) ==
           /\ answer' = [answer EXCEPT ![r] = [status |-> status, code |-> code, allow |-> AllowOrigin(q)]]
           /\ UNCHANGED caller
         done(status, code) == say(status, code) /\ Go(r, "done")
     IN  IF CorsOn /\ q.preflight THEN done(204, Blank)
         ELSE IF Public(q)
         THEN \E bad \in SUBSET (DOMAIN settings.backends) :
                IF q.path = "health" THEN done(200, Health(bad)) ELSE bad = {} /\ done(200, Blank)
         ELSE IF ~ Protected(q) THEN done(IF Mounted(q) THEN 405 ELSE 404, Blank)
         ELSE \E who \in Authenticate(q) :
                CASE who = "unauthenticated" -> done(401, who)
                  [] who = "forbidden" -> done(403, "access_violation")
                  [] OTHER -> /\ caller' = [caller EXCEPT ![r] = who]
                              /\ answer' = [answer EXCEPT ![r].allow = AllowOrigin(q)]
                              /\ Go(r, IF settings.limited THEN "limiter" ELSE "admitted")
  /\ UNCHANGED <<processVars, ran, now, buckets, act, retry, paid>>

\* Requests that have arrived go on until everything is closed.
Up == stage \in {"serving", "closing"}

\* The limiter, whose refusal is an answer.
Limit(r) ==
  /\ Up /\ RateStep(r)
  /\ IF at'[r] = "limited" THEN Respond(r, 429, "rate_limited") ELSE UNCHANGED answer
  /\ UNCHANGED <<processVars, query, ran>>

\* The tools that are registered with either transport.
Enabled(t) == t \in Tool /\ t \notin settings.off

\* What a tool comes to.
Result(r) ==
  \/ Respond(r, 200, Blank)
  \/ \E error \in DOMAIN Status \ {"unauthenticated", "rate_limited"} : Respond(r, Status[error], error)

\* Mutation: a tool that is off is left out of the specification only.
RestUngated(r) ==
  LET q == query[r]
      t == q.tool
  IN  /\ q.path = "api"
      /\ IF t \notin Tool THEN Respond(r, 404, Blank) /\ UNCHANGED ran
         ELSE IF q.method # "POST" THEN Respond(r, 405, Blank) /\ UNCHANGED ran
         ELSE IF q.body = "bad" THEN Respond(r, 400, "internal_error") /\ UNCHANGED ran
         ELSE ran' = [ran EXCEPT ![r] = t] /\ Result(r)

\* restHandler and psHandler.  A body that is not JSON has a code of its own: none.
Rest(r) ==
  LET q == query[r]
      t == q.tool
  IN  /\ q.path = "api"
      /\ IF ~ Enabled(t) THEN Respond(r, 404, Blank) /\ UNCHANGED ran
         ELSE IF q.method # "POST" THEN Respond(r, 405, Blank) /\ UNCHANGED ran
         ELSE IF q.body = "bad" THEN Respond(r, 400, "internal_error") /\ UNCHANGED ran
         ELSE ran' = [ran EXCEPT ![r] = t] /\ Result(r)

\* MCP: a call is posted, and an error is a result like any other.
Mcp(r) ==
  LET q == query[r]
  IN  /\ q.path \in {"mcp", "message", "sse"}
      /\ Respond(r, 200, Blank)
      /\ IF q.path # "sse" /\ q.method = "POST" /\ q.body = "good" /\ Enabled(q.tool)
         THEN ran' = [ran EXCEPT ![r] = q.tool] ELSE UNCHANGED ran

\* /api has no such path; which of the two answers it is, is chi's affair.
Unrouted(r) ==
  /\ query[r].path = "openapi"
  /\ \E status \in {404, 405} : Respond(r, status, Blank)
  /\ UNCHANGED ran

\* Behind the middlewares.
Serve(r) ==
  /\ Up /\ at[r] = "admitted" /\ Go(r, "served")
  /\ Rest(r) \/ Mcp(r) \/ Unrouted(r)
  /\ UNCHANGED <<processVars, query, now, buckets, caller, act, retry, paid>>

\* Time matters to the limiter alone.
Pass ==
  /\ stage = "serving" /\ settings.limited /\ Tick
  /\ UNCHANGED <<processVars, requestVars>>

Room == Cardinality({r \in Request : at[r] # "new"}) < Arrivals(command.config)

Next ==
  \/ Process \/ Pass
  \/ \E r \in Request :
       \/ stage = "serving" /\ Room /\ \E q \in Queries(command.config) : Arrive(r, q)
       \/ Limit(r)
       \/ Serve(r)

Spec == Init /\ [][Next]_vars

-----------------------------------------------------------------------------
(* Properties *)

\* Whom the limiter has let through.
Admitted(c) == {r \in Request : Id(r) = c /\ at[r] \in {"admitted", "served"}}

\* However requests, refusals and cancelled reservations interleave, no caller gets more
\* through than a full bucket and what time has put into it (ratelimit.go: "per-caller
\* token buckets to every request the middleware wraps").
AdmittedBounded ==
  command # None /\ settings # None /\ settings.limited =>
    \A c \in Caller : Cost * Cardinality(Admitted(c)) <= Full + now

\* A refusal leaves the bucket as it was once its reservation is cancelled
\* (ratelimit.go: "don't actually consume the token"): what is let through never leaves a
\* bucket in debt, so without a reservation that is still to be cancelled none is.
RefusalsTakeNothing ==
  (\A r \in Request : at[r] # "reserved") => \A c \in DOMAIN buckets : Level(buckets[c]) >= 0

\* Whatever stage of the start-up fails, and however the program ends, nothing that it
\* opened stays open (serve.go: "keeps the error path obviously leak-free").
NothingLeftOpen == stage \in {"down", "exited"} => opened = {}

\* A server that answers does so from settings its parts can work with, wherever a
\* number was left out or negative and whatever overrode it, and every context it
\* offers names a backend it has.
ServesSoundly ==
  stage = "serving" =>
    /\ PortOK(settings.port)
    /\ settings.limited => settings.rps > 0 /\ settings.burst > 0
    /\ settings.taskTTL > 0 /\ settings.maxConcurrent > 0 /\ settings.keepalive > 0
    /\ settings.tokenTTL > 0 /\ settings.codeTTL > 0
    /\ \A i \in Filesystems(settings) :
         LET b == settings.backends[i]
         IN  b.writable => /\ b.maxEntry > 0 /\ b.writeMode \in {"append", "any"}
                           /\ b.locking \in {"flock", "none"}
    /\ \A i \in DOMAIN settings.contexts : \A k \in DOMAIN settings.contexts[i].sources :
         \E j \in DOMAIN settings.backends : settings.backends[j].name = settings.contexts[i].sources[k]

\* A request runs a tool only when the tool is on, the mode of authentication is
\* satisfied by what the request carries, and the limiter has taken a token for it: no
\* route, method or preflight leads around one of the middlewares.  (What is
\* held against trusted_proxies is the address that RealIP makes of the request: the peer's
\* only when no header forwards another, whatever docs/security.md says of the peer.)
ToolsGuarded ==
  \A r \in Request : ran[r] # Blank =>
    LET q == query[r]
    IN  /\ ran[r] \notin settings.off /\ q.method = "POST" /\ ~ q.preflight
        /\ settings.auth = "bearer" => q.cred \in Token
        /\ settings.auth = "oauth2" => \/ q.cred \in Issued
                                       \/ q.cred \in Token /\ settings.tokensFile # Blank
        /\ settings.auth = "trusted_header" =>
             q.header # NoCaller /\ (settings.proxies = {} \/ Remote(q) \in settings.proxies)
        /\ settings.limited => r \in paid
        /\ answer[r].allow = "*" => ~ settings.credentials

\* A task id that `pagefault fault --async` has printed can be polled with the command
\* it prints (tools.go: "Poll with: pagefault ps").
AsyncTaskCanBePolled == \A t \in promised : told[t] # "resource_not_found"
=============================================================================
