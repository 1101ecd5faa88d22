----------------------------- MODULE ServerProofs -----------------------------
(***************************************************************************)
(* The safety of Server for every configuration, every sequence of         *)
(* commands and every set of requests: what start-up leaves behind, what   *)
(* the parts are built from, and what a request has passed before it runs  *)
(* a tool.                                                                 *)
(***************************************************************************)
EXTENDS Server, FiniteSetTheorems, TLAPS

-----------------------------------------------------------------------------
(* The inductive invariant *)

\* Until the listener is up no request has come.
Early == {"down", "loaded", "built", "audited", "wired", "ready"}

Untouched(r) == at[r] = "new" /\ ran[r] = Blank /\ answer[r].allow = Blank

\* The functions on requests stay such, and commands are those of the script.
Shape ==
  /\ script \in Seq(Command)
  /\ \A i \in DOMAIN script : Queries(script[i].config) \subseteq Query
  /\ stage \notin {"down", "exited"} =>
       command \in Command /\ Queries(command.config) \subseteq Query
  /\ DOMAIN query = Request /\ DOMAIN ran = Request
  /\ DOMAIN at = Request /\ DOMAIN caller = Request
  /\ DOMAIN answer = Request
  /\ \A r \in Request : DOMAIN answer[r] = {"status", "code", "allow"}

\* What the process has to close: nothing before the audit log, nothing after the end.
OpenedMatches == stage \in {"down", "loaded", "built", "exited"} => opened = {}

NumbersFit(c) == c.limited => c.rps > 0 /\ c.burst > 0

\* What the constructors were given.
PartsFit(c) ==
  /\ c.taskTTL > 0 /\ c.maxConcurrent > 0 /\ c.keepalive > 0
  /\ c.tokenTTL > 0 /\ c.codeTTL > 0
  /\ \A i \in Filesystems(c) :
       c.backends[i].writable =>
         /\ c.backends[i].maxEntry > 0
         /\ c.backends[i].writeMode \in {"append", "any"}
         /\ c.backends[i].locking \in {"flock", "none"}

\* Each stage of the start-up has checked or completed the settings of the next.
SettingsMatch ==
  /\ stage = "loaded" =>
       \E c \in Config : settings = Overridden(Defaulted(c), command)
  /\ stage \in {"built", "audited", "wired", "ready", "serving", "closing"} =>
       NumbersFit(settings) /\ PartsFit(settings)
  /\ stage \in {"wired", "ready", "serving", "closing"} => Wires(settings)
  /\ stage = "serving" => PortOK(settings.port)

\* What authentication has accepted of a request.
Authentic(q) ==
  /\ settings.auth = "bearer" => q.cred \in Token
  /\ settings.auth = "oauth2" => q.cred \in Issued \/ (q.cred \in Token /\ settings.tokensFile # Blank)
  /\ settings.auth = "trusted_header" =>
       q.header # NoCaller /\ (settings.proxies = {} \/ Remote(q) \in settings.proxies)

\* Where a request is says what it has passed.
RequestMatches(r) ==
  /\ stage \in Early => Untouched(r)
  /\ at[r] \notin {"new", "done"} =>
       query[r] \in Query /\ (query[r].preflight \/ Authentic(query[r]))
  /\ at[r] \in {"asking", "refused", "reserved", "limited"} => Id(r) \in DOMAIN buckets
  /\ at[r] \in {"admitted", "served"} /\ settings.limited => r \in paid
  /\ ran[r] # Blank =>
       at[r] = "served" /\ ran[r] \notin settings.off /\ query[r].method = "POST"
  /\ answer[r].allow = "*" => ~ settings.credentials

RequestsMatch == \A r \in Request : RequestMatches(r)

IInv ==
  /\ Shape
  /\ OpenedMatches
  /\ SettingsMatch
  /\ RequestsMatch

-----------------------------------------------------------------------------
(* The stages of a configuration *)

\* A number of zero or less is replaced, so that none is left.
LEMMA OrPositive ==
  ASSUME NEW x \in Int, NEW d \in Nat \ {0}
  PROVE  Or(x, d) > 0
BY DEF Or

\* The fields that the start-up completes.
Field == {"host", "port", "limited", "rps", "burst", "auditMode", "contexts", "filtersOn", "backends",
          "taskTTL", "maxConcurrent", "tokenTTL", "codeTTL", "keepalive"}

LEMMA ConfigFields ==
  ASSUME NEW c \in Config
  PROVE  Field \subseteq DOMAIN c
BY DEF Config, Field

LEMMA ConfigNumbers ==
  ASSUME NEW c \in Config
  PROVE  /\ c.rps \in Int /\ c.burst \in Int
         /\ c.taskTTL \in Int /\ c.maxConcurrent \in Int /\ c.keepalive \in Int
         /\ c.tokenTTL \in Int /\ c.codeTTL \in Int
BY DEF Config

LEMMA ConfigBackends ==
  ASSUME NEW c \in Config
  PROVE  c.backends \in Seq(Backend)
BY DEF Config

LEMMA DefaultedFields ==
  ASSUME NEW c, Field \subseteq DOMAIN c
  PROVE  /\ Field \subseteq DOMAIN Defaulted(c)
         /\ Defaulted(c).limited = c.limited /\ Defaulted(c).backends = c.backends
         /\ Defaulted(c).rps = (IF c.limited THEN Or(c.rps, 10) ELSE c.rps)
         /\ Defaulted(c).burst = (IF c.limited THEN Or(c.burst, 20) ELSE c.burst)
         /\ Defaulted(c).taskTTL = c.taskTTL /\ Defaulted(c).maxConcurrent = c.maxConcurrent
         /\ Defaulted(c).tokenTTL = c.tokenTTL /\ Defaulted(c).codeTTL = c.codeTTL
         /\ Defaulted(c).keepalive = c.keepalive
BY DEF Defaulted, Field

LEMMA OverriddenFields ==
  ASSUME NEW c, NEW cmd, Field \subseteq DOMAIN c
  PROVE  /\ Field \subseteq DOMAIN Overridden(c, cmd)
         /\ Overridden(c, cmd).limited = c.limited /\ Overridden(c, cmd).backends = c.backends
         /\ Overridden(c, cmd).rps = c.rps /\ Overridden(c, cmd).burst = c.burst
         /\ Overridden(c, cmd).taskTTL = c.taskTTL
         /\ Overridden(c, cmd).maxConcurrent = c.maxConcurrent
         /\ Overridden(c, cmd).tokenTTL = c.tokenTTL /\ Overridden(c, cmd).codeTTL = c.codeTTL
         /\ Overridden(c, cmd).keepalive = c.keepalive
BY DEF Overridden, Field

LEMMA SettingsFields ==
  ASSUME NEW c, Field \subseteq DOMAIN c
  PROVE  /\ Settings(c).limited = c.limited /\ Settings(c).rps = c.rps
         /\ Settings(c).burst = c.burst
         /\ Settings(c).backends = [i \in DOMAIN c.backends |-> WriteDefaulted(c.backends[i])]
         /\ Settings(c).taskTTL = Or(c.taskTTL, 600)
         /\ Settings(c).maxConcurrent = Or(c.maxConcurrent, 16)
         /\ Settings(c).tokenTTL = Or(c.tokenTTL, 3600)
         /\ Settings(c).codeTTL = Or(c.codeTTL, 60)
         /\ Settings(c).keepalive = Or(c.keepalive, 15)
BY DEF Settings, Field

LEMMA BackendFields ==
  ASSUME NEW b \in Backend
  PROVE  /\ {"writeMode", "locking", "maxEntry"} \subseteq DOMAIN b /\ b.maxEntry \in Int
         /\ b.writeMode \in {Blank, "append", "any", "other"}
         /\ b.locking \in {Blank, "flock", "none", "other"}
BY DEF Backend

LEMMA WriteDefaultedFields ==
  ASSUME NEW b, {"writeMode", "locking", "maxEntry"} \subseteq DOMAIN b
  PROVE  WriteDefaulted(b).writable =>
           /\ WriteDefaulted(b).maxEntry = Or(b.maxEntry, 2000)
           /\ WriteDefaulted(b).writeMode = (IF b.writeMode = Blank THEN "append" ELSE b.writeMode)
           /\ WriteDefaulted(b).locking = (IF b.locking = Blank THEN "flock" ELSE b.locking)
BY DEF WriteDefaulted

\* A writable filesystem backend that was constructed has a mode, a lock and a bound.
LEMMA BackendFits ==
  ASSUME NEW b \in Backend, Constructs(WriteDefaulted(b)),
         WriteDefaulted(b).type = "filesystem"
  PROVE  WriteDefaulted(b).writable =>
           /\ WriteDefaulted(b).maxEntry > 0
           /\ WriteDefaulted(b).writeMode \in {"append", "any"}
           /\ WriteDefaulted(b).locking \in {"flock", "none"}
<1>1. /\ {"writeMode", "locking", "maxEntry"} \subseteq DOMAIN b /\ b.maxEntry \in Int
      /\ b.writeMode \in {Blank, "append", "any", "other"}
      /\ b.locking \in {Blank, "flock", "none", "other"}
  BY BackendFields
<1>2. WriteDefaulted(b).writeMode # "other" /\ WriteDefaulted(b).locking # "other"
  BY DEF Constructs, Decodes
<1>3. Or(b.maxEntry, 2000) > 0
  BY <1>1, OrPositive
<1>4. QED
  BY <1>1, <1>2, <1>3, WriteDefaultedFields

\* What buildDispatcher makes of a file that was loaded, if its constructors take it.
LEMMA BuiltFits ==
  ASSUME NEW c \in Config, NEW cmd, NEW s,
         s = Overridden(Defaulted(c), cmd),
         \A i \in DOMAIN s.backends : Constructs(WriteDefaulted(s.backends[i]))
  PROVE  NumbersFit(Settings(s)) /\ PartsFit(Settings(s))
<1> DEFINE t == Settings(s)
<1>1. Field \subseteq DOMAIN c /\ Field \subseteq DOMAIN Defaulted(c) /\ Field \subseteq DOMAIN s
  BY ConfigFields, DefaultedFields, OverriddenFields
<1>2. /\ s.limited = c.limited /\ s.backends = c.backends
      /\ s.rps = (IF c.limited THEN Or(c.rps, 10) ELSE c.rps)
      /\ s.burst = (IF c.limited THEN Or(c.burst, 20) ELSE c.burst)
      /\ s.taskTTL = c.taskTTL /\ s.maxConcurrent = c.maxConcurrent
      /\ s.tokenTTL = c.tokenTTL /\ s.codeTTL = c.codeTTL /\ s.keepalive = c.keepalive
  BY <1>1, DefaultedFields, OverriddenFields
<1>3. /\ t.limited = c.limited
      /\ t.rps = (IF c.limited THEN Or(c.rps, 10) ELSE c.rps)
      /\ t.burst = (IF c.limited THEN Or(c.burst, 20) ELSE c.burst)
      /\ t.taskTTL = Or(c.taskTTL, 600) /\ t.maxConcurrent = Or(c.maxConcurrent, 16)
      /\ t.tokenTTL = Or(c.tokenTTL, 3600) /\ t.codeTTL = Or(c.codeTTL, 60)
      /\ t.keepalive = Or(c.keepalive, 15)
      /\ t.backends = [i \in DOMAIN c.backends |-> WriteDefaulted(c.backends[i])]
  BY <1>1, <1>2, SettingsFields
<1>4. NumbersFit(t)
  BY <1>3, ConfigNumbers, OrPositive DEF NumbersFit
<1>5. /\ t.taskTTL > 0 /\ t.maxConcurrent > 0 /\ t.keepalive > 0 /\ t.tokenTTL > 0 /\ t.codeTTL > 0
  BY <1>3, ConfigNumbers, OrPositive
<1>6. ASSUME NEW i \in Filesystems(t)
      PROVE  t.backends[i].writable =>
               /\ t.backends[i].maxEntry > 0
               /\ t.backends[i].writeMode \in {"append", "any"}
               /\ t.backends[i].locking \in {"flock", "none"}
  <2>1. /\ i \in DOMAIN c.backends /\ t.backends[i] = WriteDefaulted(c.backends[i])
        /\ t.backends[i].type = "filesystem"
    BY <1>3 DEF Filesystems
  <2>2. c.backends[i] \in Backend /\ Constructs(WriteDefaulted(c.backends[i]))
    BY <1>2, <2>1, ConfigBackends
  <2> HIDE DEF t
  <2>3. QED
    BY <2>1, <2>2, BackendFits
<1> HIDE DEF t
<1>7. NumbersFit(t) /\ PartsFit(t)
  BY <1>4, <1>5, <1>6 DEF PartsFit
<1>8. QED
  BY <1>7 DEF t

-----------------------------------------------------------------------------
(* Processes *)

LEMMA BlankDiffers == Blank # "*"
BY Zenon DEF Blank

LEMMA InitInv ==
  ASSUME Init
  PROVE  IInv
<1> USE DEF Init, RateInit
<1>1. Shape
  BY ServerAssumption DEF Shape, NoAnswer
<1>2. OpenedMatches /\ SettingsMatch
  BY DEF OpenedMatches, SettingsMatch
<1>3. ASSUME NEW r \in Request PROVE RequestMatches(r)
  BY BlankDiffers DEF RequestMatches, Untouched, NoAnswer
<1>4. QED
  BY <1>1, <1>2, <1>3 DEF IInv, RequestsMatch

\* A new process: what was read of the file becomes its settings.
LEMMA StartKeeps ==
  ASSUME IInv, Start
  PROVE  IInv'
<1> USE DEF IInv, Start, Proceed
<1>1. PICK cmd \in Command, ok \in BOOLEAN :
        /\ cmd = Head(script) /\ Queries(cmd.config) \subseteq Query
        /\ command' = cmd /\ cmd.config \in Config
        /\ settings' = IF ok THEN Overridden(Defaulted(cmd.config), cmd) ELSE None
        /\ stage' = IF ok THEN "loaded" ELSE "exited"
        /\ script' = Tail(script)
  <2>1. Head(script) \in Command /\ Queries(Head(script).config) \subseteq Query
    BY DEF Shape
  <2>2. Head(script).config \in Config
    BY <2>1 DEF Command
  <2>3. QED
    BY <2>1, <2>2
<1>2. /\ script' \in Seq(Command)
      /\ \A i \in DOMAIN script' : Queries(script'[i].config) \subseteq Query
  <2>1. script \in Seq(Command) /\ script # <<>>
    BY DEF Shape
  <2>2. \A i \in DOMAIN Tail(script) : i + 1 \in DOMAIN script /\ Tail(script)[i] = script[i + 1]
    BY <2>1
  <2>3. QED
    BY <1>1, <2>1, <2>2 DEF Shape
<1>3. Shape'
  BY <1>1, <1>2 DEF Shape, Forget, NoAnswer
<1>4. OpenedMatches'
  BY <1>1 DEF OpenedMatches
<1>5. SettingsMatch'
  BY <1>1 DEF SettingsMatch
<1>6. RequestsMatch'
  BY BlankDiffers DEF RequestsMatch, RequestMatches, Forget, Untouched, NoAnswer
<1>7. QED
  BY <1>3, <1>4, <1>5, <1>6

\* The steps of a process that change none of its settings.
LEMMA RequestsFrozen ==
  ASSUME IInv, UNCHANGED <<settings, requestVars, rateVars>>, stage' \in Early => stage \in Early
  PROVE  RequestsMatch'
<1> SUFFICES ASSUME NEW r \in Request PROVE RequestMatches(r)'
  BY DEF RequestsMatch
<1>1. RequestMatches(r)
  BY DEF IInv, RequestsMatch
<1>2. /\ settings' = settings /\ query' = query /\ answer' = answer /\ ran' = ran
      /\ at' = at /\ caller' = caller /\ buckets' = buckets /\ paid' = paid
  BY DEF requestVars, rateVars
<1>3. Untouched(r)' <=> Untouched(r)
  BY <1>2 DEF Untouched
<1>4. Authentic(query[r])' <=> Authentic(query[r])
  BY <1>2 DEF Authentic
<1>5. Id(r)' = Id(r)
  BY <1>2 DEF Id
<1>6. QED
  BY <1>1, <1>2, <1>3, <1>4, <1>5 DEF RequestMatches

\* buildDispatcher: each stage adds what it has checked to what is known of the settings.
LEMMA BuildKeeps ==
  ASSUME IInv, BuildBackends
  PROVE  IInv'
<1> USE DEF IInv, BuildBackends, Proceed
<1>1. PICK c \in Config : settings = Overridden(Defaulted(c), command)
  BY DEF SettingsMatch
<1>2. stage' \in {"built", "exited"}
  OBVIOUS
<1>3. stage' = "built" => NumbersFit(settings') /\ PartsFit(settings')
  <2>1. SUFFICES ASSUME stage' = "built"
                 PROVE  NumbersFit(Settings(settings)) /\ PartsFit(Settings(settings))
    BY DEF NumbersFit, PartsFit, Filesystems
  <2>2. \A i \in DOMAIN settings.backends : Constructs(WriteDefaulted(settings.backends[i]))
    BY <2>1
  <2>3. QED
    BY <1>1, <2>2, BuiltFits
<1>4. Shape'
  BY <1>2 DEF Shape, requestVars, rateVars
<1>5. OpenedMatches'
  BY <1>2 DEF OpenedMatches
<1>6. SettingsMatch'
  BY <1>2, <1>3 DEF SettingsMatch
<1>7. ASSUME NEW r \in Request PROVE RequestMatches(r)'
  <2>1. Untouched(r)
    BY DEF RequestsMatch, RequestMatches, Early
  <2>2. Untouched(r)'
    BY <2>1 DEF Untouched, requestVars, rateVars
  <2>3. QED
    BY <2>2, BlankDiffers DEF RequestMatches, Untouched
<1>8. QED
  BY <1>4, <1>5, <1>6, <1>7 DEF RequestsMatch

LEMMA ProcessKeeps ==
  ASSUME IInv,
         \/ OpenAudit \/ NewDispatcher \/ NewProvider \/ Listen \/ Signal
         \/ Close \/ RunTool \/ RunFault \/ RunPs
  PROVE  IInv'
<1>1. UNCHANGED <<script, command, settings, requestVars, rateVars>>
  BY DEF OpenAudit, NewDispatcher, NewProvider, Listen, Signal, Close, RunTool, RunFault, RunPs
<1>2. stage' \in Early => stage \in Early
  BY DEF OpenAudit, NewDispatcher, NewProvider, Listen, Signal, Close, RunTool, RunFault, RunPs,
     Proceed, Early
<1>3. stage' # "loaded" /\ (stage' = "built" => FALSE)
  BY DEF OpenAudit, NewDispatcher, NewProvider, Listen, Signal, Close, RunTool, RunFault, RunPs,
     Proceed
<1>4. Shape'
  <2>1. stage \notin {"down", "exited"}
    BY DEF OpenAudit, NewDispatcher, NewProvider, Listen, Signal, Close, RunTool, RunFault, RunPs
  <2>2. QED
    BY <1>1, <2>1 DEF IInv, Shape, requestVars, rateVars
<1>5. OpenedMatches'
  BY <1>3 DEF OpenAudit, NewDispatcher, NewProvider, Listen, Signal, Close, RunTool, RunFault,
     RunPs, Proceed, OpenedMatches
<1>6. SettingsMatch'
  <2>1. CASE OpenAudit
    BY <1>1, <1>3, <2>1 DEF IInv, SettingsMatch, OpenAudit, Proceed
  <2>2. CASE NewDispatcher
    BY <1>1, <1>3, <2>2 DEF IInv, SettingsMatch, NewDispatcher, Proceed
  <2>3. CASE NewProvider \/ Listen \/ Signal \/ Close \/ RunTool \/ RunFault \/ RunPs
    BY <1>1, <1>3, <2>3 DEF IInv, SettingsMatch, NewProvider, Listen, Signal, Close, RunTool,
       RunFault, RunPs, Proceed
  <2>4. QED
    BY <2>1, <2>2, <2>3
<1>7. RequestsMatch'
  BY <1>1, <1>2, RequestsFrozen
<1>8. QED
  BY <1>4, <1>5, <1>6, <1>7 DEF IInv

-----------------------------------------------------------------------------
(* Requests *)

\* A request that goes on leaves the process and the other requests alone.
Alone(r) ==
  /\ UNCHANGED processVars
  /\ \A s \in Request \ {r} :
       /\ query'[s] = query[s] /\ answer'[s] = answer[s] /\ ran'[s] = ran[s]
       /\ at'[s] = at[s] /\ caller'[s] = caller[s]
  /\ DOMAIN buckets \subseteq DOMAIN buckets' /\ paid \subseteq paid'

LEMMA AloneKeeps ==
  ASSUME IInv, NEW r \in Request, Alone(r), Shape', RequestMatches(r)'
  PROVE  IInv'
<1>1. OpenedMatches' /\ SettingsMatch'
  BY DEF IInv, OpenedMatches, SettingsMatch, Alone, processVars
<1>2. ASSUME NEW s \in Request \ {r} PROVE RequestMatches(s)'
  <2>1. RequestMatches(s)
    BY <1>2 DEF IInv, RequestsMatch
  <2>2. /\ settings' = settings /\ stage' = stage
        /\ query'[s] = query[s] /\ answer'[s] = answer[s] /\ ran'[s] = ran[s] /\ at'[s] = at[s]
        /\ Id(s)' = Id(s)
    BY <1>2 DEF Alone, processVars, Id
  <2>3. Untouched(s)' <=> Untouched(s)
    BY <2>2 DEF Untouched
  <2>4. Authentic(query[s])' <=> Authentic(query[s])
    BY <2>2 DEF Authentic
  <2>5. QED
    BY <2>1, <2>2, <2>3, <2>4 DEF RequestMatches, Alone
<1>3. QED
  BY <1>1, <1>2 DEF IInv, RequestsMatch

LEMMA AllowSafe ==
  ASSUME NEW q
  PROVE  AllowOrigin(q) = "*" => ~ settings.credentials
BY BlankDiffers DEF AllowOrigin

\* Whom a provider accepts has what its mode asks for.
LEMMA AcceptedIsAuthentic ==
  ASSUME NEW q, NEW who \in Authenticate(q), who \notin {"unauthenticated", "forbidden"}
  PROVE  q.preflight \/ Authentic(q)
<1>1. CASE settings.auth = "bearer"
  BY <1>1 DEF Authenticate, Authentic, ByToken
<1>2. CASE settings.auth = "oauth2"
  BY <1>2 DEF Authenticate, Authentic, ByIssued, ByToken
<1>3. CASE settings.auth = "trusted_header"
  BY <1>3 DEF Authenticate, Authentic, ByHeader
<1>4. CASE settings.auth \notin {"bearer", "oauth2", "trusted_header"}
  BY <1>4 DEF Authentic
<1>5. QED
  BY <1>1, <1>2, <1>3, <1>4

\* An arrival is answered on the way, or is accepted and goes to the limiter if there is one.
LEMMA ArriveCases ==
  ASSUME NEW r, NEW q, Arrive(r, q)
  PROVE  /\ stage = "serving" /\ at[r] = "new" /\ query' = [query EXCEPT ![r] = q]
         /\ UNCHANGED <<processVars, ran, now, buckets, act, retry, paid>>
         /\ \/ /\ at' = [at EXCEPT ![r] = "done"] /\ UNCHANGED caller
               /\ \E status, code : answer' = [answer EXCEPT ![r] =
                    [status |-> status, code |-> code, allow |-> AllowOrigin(q)]]
            \/ /\ \E who \in Authenticate(q) \ {"unauthenticated", "forbidden"} :
                    caller' = [caller EXCEPT ![r] = who]
               /\ at' = [at EXCEPT ![r] = IF settings.limited THEN "limiter" ELSE "admitted"]
               /\ answer' = [answer EXCEPT ![r].allow = AllowOrigin(q)]
<1>1. CASE CorsOn /\ q.preflight
  BY <1>1 DEF Arrive, Go
<1>2. CASE ~ (CorsOn /\ q.preflight) /\ Public(q)
  BY <1>2 DEF Arrive, Go
<1>3. CASE ~ (CorsOn /\ q.preflight) /\ ~ Public(q) /\ ~ Protected(q)
  BY <1>3 DEF Arrive, Go
<1>4. CASE ~ (CorsOn /\ q.preflight) /\ ~ Public(q) /\ Protected(q)
  BY <1>4 DEF Arrive, Go
<1>5. QED
  BY <1>1, <1>2, <1>3, <1>4

LEMMA ArriveKeeps ==
  ASSUME IInv, NEW r \in Request, NEW q \in Queries(command.config), Arrive(r, q)
  PROVE  IInv'
<1>1. q \in Query
  BY ArriveCases DEF IInv, Shape
<1>2. ran[r] = Blank
  BY ArriveCases DEF IInv, RequestsMatch, RequestMatches
<1>3. Alone(r) /\ Shape'
  <2>1. DOMAIN answer' = Request /\ \A s \in Request : DOMAIN answer'[s] = {"status", "code", "allow"}
    BY ArriveCases DEF IInv, Shape
  <2>2. \A s \in Request \ {r} : answer'[s] = answer[s]
    BY ArriveCases DEF IInv, Shape
  <2>3. QED
    BY <2>1, <2>2, ArriveCases DEF IInv, Shape, Alone, processVars
<1>4. answer'[r].allow = AllowOrigin(q) /\ query'[r] = q /\ ran'[r] = Blank
  BY <1>2, ArriveCases DEF IInv, Shape
<1>5. UNCHANGED settings /\ stage' = "serving"
  BY ArriveCases DEF processVars
<1>6. RequestMatches(r)'
  <2>1. CASE at'[r] = "done"
    BY <1>4, <1>5, <2>1, AllowSafe DEF RequestMatches, Early
  <2>2. CASE at'[r] # "done"
    <3>1. PICK who \in Authenticate(q) \ {"unauthenticated", "forbidden"} :
            /\ caller' = [caller EXCEPT ![r] = who]
            /\ at' = [at EXCEPT ![r] = IF settings.limited THEN "limiter" ELSE "admitted"]
      BY <2>2, ArriveCases DEF IInv, Shape
    <3>2. q.preflight \/ Authentic(q)
      BY AcceptedIsAuthentic
    <3>3. (q.preflight \/ Authentic(q))'
      BY <1>5, <3>2 DEF Authentic
    <3>4. at'[r] = IF settings.limited THEN "limiter" ELSE "admitted"
      BY <3>1 DEF IInv, Shape
    <3>5. QED
      BY <1>1, <1>4, <1>5, <3>3, <3>4, AllowSafe DEF RequestMatches, Early
  <2>3. QED
    BY <2>1, <2>2
<1>7. QED
  BY <1>3, <1>6, AloneKeeps

\* The limiter moves a request on, and lets one pass only when it has taken a token for it.
LEMMA RateStepMoves ==
  ASSUME IInv, NEW r \in Request, RateStep(r)
  PROVE  /\ UNCHANGED caller
         /\ at[r] \in {"limiter", "asking", "refused", "reserved"}
         /\ \E to \in {"asking", "admitted", "refused", "reserved", "limited"} :
              at' = [at EXCEPT ![r] = to]
         /\ DOMAIN buckets \subseteq DOMAIN buckets' /\ Id(r) \in DOMAIN buckets'
         /\ paid \subseteq paid' /\ (at'[r] = "admitted" => r \in paid')
<1>1. RequestMatches(r) /\ DOMAIN at = Request
  BY DEF IInv, RequestsMatch, Shape
<1>2. CASE LimiterFor(r)
  BY <1>1, <1>2 DEF LimiterFor, Go
<1>3. CASE Admit(r)
  BY <1>1, <1>3 DEF Admit, Go, Store, RequestMatches
<1>4. CASE TurnAway(r)
  BY <1>1, <1>4 DEF TurnAway, Go, RequestMatches
<1>5. CASE Reserve(r)
  BY <1>1, <1>5 DEF Reserve, Go, Store, RequestMatches
<1>6. CASE Cancel(r)
  BY <1>1, <1>6 DEF Cancel, Go, Store, RequestMatches
<1>7. QED
  BY <1>2, <1>3, <1>4, <1>5, <1>6 DEF RateStep

\* A response is a status and a code, and leaves the headers that were set.
LEMMA RespondMoves ==
  ASSUME Shape, NEW r \in Request, NEW status, NEW code, Respond(r, status, code)
  PROVE  /\ DOMAIN answer' = Request
         /\ \A s \in Request : DOMAIN answer'[s] = {"status", "code", "allow"}
         /\ answer'[r].allow = answer[r].allow
         /\ \A s \in Request \ {r} : answer'[s] = answer[s]
BY DEF Shape, Respond

LEMMA LimitKeeps ==
  ASSUME IInv, NEW r \in Request, Limit(r)
  PROVE  IInv'
<1>1. /\ RateStep(r) /\ Up /\ UNCHANGED <<processVars, query, ran>>
      /\ answer' = answer \/ Respond(r, 429, "rate_limited")
  BY DEF Limit
<1>2. /\ DOMAIN answer' = Request
      /\ \A s \in Request : DOMAIN answer'[s] = {"status", "code", "allow"}
      /\ answer'[r].allow = answer[r].allow
      /\ \A s \in Request \ {r} : answer'[s] = answer[s]
  BY <1>1, RespondMoves DEF IInv, Shape
<1>3. Alone(r) /\ Shape'
  BY <1>1, <1>2, RateStepMoves DEF IInv, Shape, Alone, processVars
<1>4. RequestMatches(r)'
  <2>1. RequestMatches(r) /\ stage \notin Early
    BY <1>1 DEF IInv, RequestsMatch, Up, Early
  <2>2. settings' = settings /\ stage' = stage /\ query' = query /\ ran' = ran
    BY <1>1 DEF processVars
  <2>3. at'[r] \in {"asking", "admitted", "refused", "reserved", "limited"}
    BY RateStepMoves, <1>1 DEF IInv, Shape
  <2>4. at[r] \in {"limiter", "asking", "refused", "reserved"} /\ Id(r)' = Id(r)
        /\ Id(r) \in DOMAIN buckets' /\ (at'[r] = "admitted" => r \in paid')
    BY RateStepMoves, <1>1 DEF Id
  <2>5. Authentic(query[r])' <=> Authentic(query[r])
    BY <2>2 DEF Authentic
  <2>6. QED
    BY <1>2, <2>1, <2>2, <2>3, <2>4, <2>5 DEF RequestMatches
<1>5. QED
  BY <1>3, <1>4, AloneKeeps

\* Both transports run a tool only if it is on and the request is a POST.
LEMMA ServeMoves ==
  ASSUME IInv, NEW r \in Request, Serve(r)
  PROVE  /\ \E status, code : Respond(r, status, code)
         /\ \/ ran' = ran
            \/ \E t : /\ t \notin settings.off /\ query[r].method = "POST"
                      /\ ran' = [ran EXCEPT ![r] = t]
<1>1. CASE Rest(r)
  BY <1>1 DEF Rest, Result, Enabled
<1>2. CASE Mcp(r)
  BY <1>2 DEF Mcp, Enabled
<1>3. CASE Unrouted(r)
  BY <1>3 DEF Unrouted
<1>4. QED
  BY <1>1, <1>2, <1>3 DEF Serve

LEMMA ServeKeeps ==
  ASSUME IInv, NEW r \in Request, Serve(r)
  PROVE  IInv'
<1>1. /\ stage \in {"serving", "closing"} /\ at[r] = "admitted"
      /\ at' = [at EXCEPT ![r] = "served"]
      /\ UNCHANGED <<processVars, query, caller, buckets, paid>>
  BY DEF Serve, Up, Go
<1>2. /\ DOMAIN answer' = Request
      /\ \A s \in Request : DOMAIN answer'[s] = {"status", "code", "allow"}
      /\ answer'[r].allow = answer[r].allow
      /\ \A s \in Request \ {r} : answer'[s] = answer[s]
  <2>1. PICK status, code : Respond(r, status, code)
    BY ServeMoves
  <2>2. QED
    BY <2>1, RespondMoves DEF IInv
<1>3. Alone(r) /\ Shape'
  BY <1>1, <1>2, ServeMoves DEF IInv, Shape, Alone, processVars
<1>4. RequestMatches(r)'
  <2>1. RequestMatches(r) /\ stage \notin Early
    BY <1>1 DEF IInv, RequestsMatch, Early
  <2>2. /\ settings' = settings /\ stage' = stage /\ query' = query /\ at'[r] = "served"
        /\ Id(r)' = Id(r) /\ buckets' = buckets /\ paid' = paid
    BY <1>1 DEF processVars, Id, IInv, Shape
  <2>3. ran[r] = Blank
    BY <1>1, <2>1 DEF RequestMatches
  <2>4. ran'[r] # Blank => ran'[r] \notin settings.off /\ query[r].method = "POST"
    BY <2>3, ServeMoves DEF IInv, Shape
  <2>5. Authentic(query[r])' <=> Authentic(query[r])
    BY <2>2 DEF Authentic
  <2>6. QED
    BY <1>1, <1>2, <2>1, <2>2, <2>4, <2>5 DEF RequestMatches
<1>5. QED
  BY <1>3, <1>4, AloneKeeps

LEMMA PassKeeps ==
  ASSUME IInv, Pass \/ UNCHANGED vars
  PROVE  IInv'
<1>1. /\ UNCHANGED <<processVars, requestVars>>
      /\ at' = at /\ caller' = caller /\ buckets' = buckets /\ paid' = paid
  BY DEF Pass, Tick, vars, rateVars
<1>2. Shape' /\ OpenedMatches' /\ SettingsMatch'
  BY <1>1 DEF IInv, Shape, OpenedMatches, SettingsMatch, processVars, requestVars
<1>3. ASSUME NEW r \in Request PROVE RequestMatches(r)'
  <2>1. RequestMatches(r)
    BY DEF IInv, RequestsMatch
  <2>2. /\ settings' = settings /\ stage' = stage /\ query' = query /\ answer' = answer
        /\ ran' = ran /\ Id(r)' = Id(r)
    BY <1>1 DEF processVars, requestVars, Id
  <2>3. Untouched(r)' <=> Untouched(r)
    BY <1>1, <2>2 DEF Untouched
  <2>4. Authentic(query[r])' <=> Authentic(query[r])
    BY <2>2 DEF Authentic
  <2>5. QED
    BY <1>1, <2>1, <2>2, <2>3, <2>4 DEF RequestMatches
<1>4. QED
  BY <1>2, <1>3 DEF IInv, RequestsMatch

-----------------------------------------------------------------------------
(* The theorems *)

\* What each stage of the start-up knows of the settings, and what each request has passed,
\* holds in every state.
THEOREM Invariant == Spec => []IInv
<1>1. Init => IInv
  BY InitInv
<1>2. IInv /\ [Next]_vars => IInv'
  <2> SUFFICES ASSUME IInv, [Next]_vars PROVE IInv'
    OBVIOUS
  <2>1. CASE Process
    BY <2>1, StartKeeps, BuildKeeps, ProcessKeeps DEF Process
  <2>2. CASE Pass \/ UNCHANGED vars
    BY <2>2, PassKeeps
  <2>3. ASSUME NEW r \in Request, NEW q \in Queries(command.config), Arrive(r, q) PROVE IInv'
    BY <2>3, ArriveKeeps
  <2>4. ASSUME NEW r \in Request, Limit(r) \/ Serve(r) PROVE IInv'
    BY <2>4, LimitKeeps, ServeKeeps
  <2>5. QED
    BY <2>1, <2>2, <2>3, <2>4 DEF Next
<1>3. QED
  BY <1>1, <1>2, PTL DEF Spec

\* Whatever stage fails, the closers that buildDispatcher and runServe call leave nothing
\* open.
THEOREM NothingIsLeftOpen == Spec => []NothingLeftOpen
<1>1. IInv => NothingLeftOpen
  BY DEF IInv, OpenedMatches, NothingLeftOpen
<1>2. QED
  BY <1>1, Invariant, PTL

\* For every configuration that passes the stages, whatever it left out: the server runs
\* on settings that all its parts can work with.
THEOREM ServersServeSoundly == Spec => []ServesSoundly
<1>1. IInv => ServesSoundly
  BY DEF IInv, SettingsMatch, NumbersFit, PartsFit, Wires, Names, ServesSoundly
<1>2. QED
  BY <1>1, Invariant, PTL

\* No route, method, preflight or transport runs a tool past the switch in `tools`, the
\* mode of authentication (with the address that RealIP leaves) or a limiter that has not
\* taken a token for it.
THEOREM ToolsAreGuarded == Spec => []ToolsGuarded
<1>1. IInv => ToolsGuarded
  <2> SUFFICES ASSUME IInv, NEW r \in Request, ran[r] # Blank
               PROVE  /\ ran[r] \notin settings.off /\ query[r].method = "POST"
                      /\ ~ query[r].preflight /\ Authentic(query[r])
                      /\ settings.limited => r \in paid
                      /\ answer[r].allow = "*" => ~ settings.credentials
    BY DEF ToolsGuarded, Authentic
  <2>1. RequestMatches(r)
    BY DEF IInv, RequestsMatch
  <2>2. at[r] = "served" /\ query[r].method = "POST"
    BY <2>1 DEF RequestMatches
  <2>3. query[r] \in Query /\ (query[r].preflight \/ Authentic(query[r]))
    BY <2>1, <2>2 DEF RequestMatches
  <2>4. ~ query[r].preflight
    BY <2>2, <2>3 DEF Query
  <2>5. QED
    BY <2>1, <2>2, <2>3, <2>4 DEF RequestMatches
<1>2. QED
  BY <1>1, Invariant, PTL
=============================================================================
