------------------------------- MODULE Config -------------------------------
(***************************************************************************)
(* From a configuration file to the parts of the program:                  *)
(* internal/config/config.go, the constructors that serve.go calls, and    *)
(* NewProvider.  Each stage is an operator on the configuration, and each  *)
(* may refuse it.                                                          *)
(*                                                                         *)
(* A field that is left out has the value 0, Blank or {}.  Of a path, a    *)
(* pattern, a template or a file only its fate at start-up is kept.        *)
(***************************************************************************)
EXTENDS Integers, Sequences

CONSTANTS
  Name,      \* names of backends and contexts
  Scheme,
  Tool,      \* the wire names of the tools
  Origin,
  Address    \* the remote addresses of requests

\* The empty string.
Blank == ""

\* What is at the path of a tokens or clients file, Blank being no path.  Two records with
\* one token, or a record without one, make a file that loads no more than malformed lines.
FileState == {Blank, "missing", "malformed", "duplicate", "good"}

Backend == [name : Name,
            type : {"filesystem", "subprocess", "http", "subagent-cli", "subagent-http", "other"},
            complete : BOOLEAN,   \* every required field is there
            sound : BOOLEAN,      \* its root exists, its patterns and templates parse
            scheme : Scheme, writable : BOOLEAN, writeMode : {Blank, "append", "any", "other"},
            locking : {Blank, "flock", "none", "other"}, maxEntry : Int]

Context == [name : Name, sources : Seq(Name), format : {Blank, "markdown", "json", "other"},
            maxSize : Int]

Config == [readable : BOOLEAN,    \* the file is there, and is YAML of the right shape
           host : {Blank, "set"}, port : Int,
           corsOn : BOOLEAN, origins : SUBSET Origin, anyOrigin : BOOLEAN, credentials : BOOLEAN,
           limited : BOOLEAN, rps : Int, burst : Int,
           sse : BOOLEAN, keepalive : Int,
           taskTTL : Int, maxConcurrent : Int,
           auth : {Blank, "none", "bearer", "trusted_header", "oauth2", "other"},
           tokensFile : FileState, header : {Blank, "set"}, proxies : SUBSET Address,
           clientsFile : FileState, tokenTTL : Int, codeTTL : Int, dcr : BOOLEAN,
           backends : Seq(Backend), contexts : Seq(Context),
           off : SUBSET Tool,     \* the tools set to false
           filtersOn : BOOLEAN, filtersSound : BOOLEAN,
           auditOn : BOOLEAN, auditMode : {Blank, "jsonl", "stdout", "stderr", "off", "other"},
           logPath : {Blank, "good", "bad"}]

-----------------------------------------------------------------------------
(* config.Parse *)

\* Mutation: only a zero counts as left out.
OrZero(x, default) == IF x = 0 THEN default ELSE x

\* A number of zero or less stands for the default.
Or(x, default) == IF x <= 0 THEN default ELSE x

\* The audit mode that applyDefaults infers: a log_path alone turns the log on.
InferredMode(c) ==
  CASE c.auditMode # Blank -> c.auditMode
    [] c.auditMode = Blank /\ c.logPath # Blank -> "jsonl"
    [] c.auditMode = Blank /\ c.logPath = Blank /\ c.auditOn -> "stdout"
    [] OTHER -> "off"

Defaulted(c) ==
  [c EXCEPT !.host = "set",
            !.port = IF @ = 0 THEN 8444 ELSE @,
            !.rps = IF c.limited THEN Or(@, 10) ELSE @,
            !.burst = IF c.limited THEN Or(@, 20) ELSE @,
            !.auditMode = InferredMode(c),
            !.contexts = [i \in DOMAIN @ |->
                            [@[i] EXCEPT !.format = IF @ = Blank THEN "markdown" ELSE @,
                                         !.maxSize = IF @ = 0 THEN 16000 ELSE @]]]

PortOK(port) == port \in 1..65535

\* The validator's tags.
Valid(c) ==
  /\ PortOK(c.port)
  /\ c.auth \in {"none", "bearer", "trusted_header", "oauth2"}
  /\ c.backends # <<>>
  /\ \A i \in DOMAIN c.contexts : c.contexts[i].sources # <<>>

Loads(c) == c.readable /\ Valid(Defaulted(c))

-----------------------------------------------------------------------------
(* buildDispatcher *)

\* applyWriteDefaults: a backend that cannot be written keeps what it says.
WriteDefaulted(b) ==
  IF ~ b.writable THEN b
  ELSE [b EXCEPT !.writeMode = IF @ = Blank THEN "append" ELSE @,
                 !.locking = IF @ = Blank THEN "flock" ELSE @,
                 !.maxEntry = Or(@, 2000)]

\* The Decode functions with their validators.
Decodes(b) ==
  /\ b.type # "other" /\ b.complete
  /\ b.type = "filesystem" => b.writeMode # "other" /\ b.locking # "other"

\* And then the constructors.
Constructs(b) == Decodes(b) /\ b.sound

\* filter.NewFromConfig: patterns and rules are looked at only if they are in use.
FilterBuilds(c) == c.filtersOn => c.filtersSound

\* audit.NewFromConfig
AuditOpens(c) ==
  /\ c.auditMode # "other"
  /\ c.auditMode = "jsonl" => c.logPath = "good"

Filesystems(c) == {i \in DOMAIN c.backends : c.backends[i].type = "filesystem"}

Names(bs) == {bs[i].name : i \in DOMAIN bs}

\* dispatcher.New: names and schemes are unique, and a context names backends there are.
Wires(c) ==
  /\ \A i, j \in DOMAIN c.backends : c.backends[i].name = c.backends[j].name => i = j
  /\ \A i, j \in Filesystems(c) : c.backends[i].scheme = c.backends[j].scheme => i = j
  /\ \A i, j \in DOMAIN c.contexts : c.contexts[i].name = c.contexts[j].name => i = j
  /\ \A i \in DOMAIN c.contexts : \A k \in DOMAIN c.contexts[i].sources :
       c.contexts[i].sources[k] \in Names(c.backends)

-----------------------------------------------------------------------------
(* NewProvider *)

\* oauth2 takes a tokens file as a fallback, if one is named.
Provides(c) ==
  CASE c.auth = "none" -> TRUE
    [] c.auth = "bearer" -> c.tokensFile = "good"
    [] c.auth = "trusted_header" -> c.header # Blank
    [] c.auth = "oauth2" -> c.clientsFile = "good" /\ c.tokensFile \in {Blank, "good"}
    [] OTHER -> FALSE

\* What the parts are built with: the backends as they were decoded, and the times and
\* counts after their OrDefault functions.
Settings(c) ==
  [c EXCEPT !.backends = [i \in DOMAIN @ |-> WriteDefaulted(@[i])],
            !.taskTTL = Or(@, 600), !.maxConcurrent = Or(@, 16),
            !.tokenTTL = Or(@, 3600), !.codeTTL = Or(@, 60), !.keepalive = Or(@, 15)]
=============================================================================
