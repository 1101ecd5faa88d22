------------------------------ MODULE MCServer ------------------------------
(* A base configuration and those that differ from it in a field or two.  A limited *)
(* server gets five requests of one caller, another one two of callers with and     *)
(* without an id; the others get every kind of request, one at a time.              *)
EXTENDS Server, TLC

CONSTANTS fs, web, main, c1, c2, anon, nobody, none, t1, t0, a1, home, away, direct, site, noSite

MCName == {fs, web, main}
MCTool == {"pf_scan", "pf_poke"}
MCOwner == (t1 :> c1) @@ (t0 :> nobody) @@ (a1 :> c2)

Fs == [name |-> fs, type |-> "filesystem", complete |-> TRUE, sound |-> TRUE, scheme |-> "memory",
       writable |-> TRUE, writeMode |-> "", locking |-> "", maxEntry |-> 0]
Web == [Fs EXCEPT !.name = web, !.type = "http", !.scheme = "", !.writable = FALSE]
Main == [name |-> main, sources |-> <<fs, web>>, format |-> "", maxSize |-> 0]

Base ==
  [readable |-> TRUE, host |-> "", port |-> 0,
   corsOn |-> FALSE, origins |-> {}, anyOrigin |-> FALSE, credentials |-> FALSE,
   limited |-> FALSE, rps |-> 0, burst |-> 0, sse |-> TRUE, keepalive |-> 0,
   taskTTL |-> 0, maxConcurrent |-> 0, auth |-> "none", tokensFile |-> "", header |-> "",
   proxies |-> {}, clientsFile |-> "", tokenTTL |-> 0, codeTTL |-> 0, dcr |-> FALSE,
   backends |-> <<Fs, Web>>, contexts |-> <<Main>>, off |-> {"pf_poke"},
   filtersOn |-> TRUE, filtersSound |-> TRUE, auditOn |-> FALSE, auditMode |-> "", logPath |-> "good"]

Limited == [Base EXCEPT !.limited = TRUE, !.auth = "bearer", !.tokensFile = "good",
                        !.rps = -1, !.burst = -1]
Shared == [Limited EXCEPT !.burst = 0]
Oauth == [Base EXCEPT !.auth = "oauth2", !.clientsFile = "good", !.dcr = TRUE]

\* Configurations that serve.
Serving ==
  {Base, Limited, Shared, Oauth,
   [Base EXCEPT !.auth = "bearer", !.tokensFile = "good", !.corsOn = TRUE, !.anyOrigin = TRUE],
   [Oauth EXCEPT !.tokensFile = "good", !.tokenTTL = -1, !.codeTTL = -1, !.off = {}],
   [Base EXCEPT !.auth = "trusted_header", !.header = "set", !.proxies = {home}, !.sse = FALSE],
   [Base EXCEPT !.corsOn = TRUE, !.origins = {site}, !.credentials = TRUE, !.anyOrigin = TRUE],
   [Base EXCEPT !.taskTTL = -1, !.maxConcurrent = -1, !.keepalive = -1, !.auditMode = "stdout"],
   [Base EXCEPT !.backends = <<[Fs EXCEPT !.maxEntry = -1], Web>>]}

\* Configurations of which a stage of the start-up makes nothing.
Failing ==
  {[Base EXCEPT !.readable = FALSE], [Base EXCEPT !.port = 65536], [Base EXCEPT !.auth = "other"],
   [Base EXCEPT !.backends = <<>>], [Base EXCEPT !.contexts = <<[Main EXCEPT !.sources = <<>>]>>],
   [Base EXCEPT !.backends = <<[Fs EXCEPT !.type = "other"], Web>>],
   [Base EXCEPT !.backends = <<Fs, [Web EXCEPT !.complete = FALSE]>>],
   [Base EXCEPT !.backends = <<[Fs EXCEPT !.locking = "other"], Web>>],
   [Base EXCEPT !.backends = <<Fs, Fs>>], [Base EXCEPT !.backends = <<Fs, [Fs EXCEPT !.name = web]>>],
   [Base EXCEPT !.backends = <<Web>>], [Base EXCEPT !.contexts = <<Main, Main>>],
   [Base EXCEPT !.filtersSound = FALSE], [Base EXCEPT !.logPath = "bad"],
   [Base EXCEPT !.auditMode = "other"], [Base EXCEPT !.auth = "bearer", !.tokensFile = "duplicate"],
   [Base EXCEPT !.auth = "trusted_header"], [Oauth EXCEPT !.tokensFile = "missing"],
   [Oauth EXCEPT !.clientsFile = ""]}

Serve0(c) == [program |-> "serve", usage |-> TRUE, config |-> c, port |-> 0, noFilter |-> FALSE,
              async |-> FALSE, poll |-> FALSE]
Tool0(p, c) == [Serve0(c) EXCEPT !.program = p]
Async == [Tool0("fault", Base) EXCEPT !.async = TRUE]
Poll == [Tool0("ps", Base) EXCEPT !.poll = TRUE]

MCScript ==
  {<<Serve0(c)>> : c \in Serving \union Failing}
  \union {<<Tool0(p, c)>> : p \in {"load", "scan", "poke", "ps", "fault"}, c \in Failing \union {Base}}
  \union {<<Async, Poll>>, <<Serve0([Base EXCEPT !.off = {}]), Serve0(Base)>>,
          <<[Serve0(Base) EXCEPT !.port = 70000]>>, <<[Async EXCEPT !.usage = FALSE], Poll>>,
          <<[Tool0("maps", [Base EXCEPT !.filtersSound = FALSE, !.auditMode = "stdout"])
               EXCEPT !.noFilter = TRUE], Serve0(Base)>>}
MCAsync == {<<Async, Poll>>}
MCLimited == {<<Serve0(Limited)>>}

Ask == [path |-> "api", tool |-> "pf_scan", method |-> "POST", preflight |-> FALSE, origin |-> noSite,
        cred |-> "", header |-> nobody, peer |-> away, forwarded |-> direct, body |-> "good"]
Preflight == [Ask EXCEPT !.method = "OPTIONS", !.preflight = TRUE, !.origin = site]

MCQueries(c) ==
  IF c = Limited THEN {[Ask EXCEPT !.cred = t1, !.tool = ""]}
  ELSE IF c = Shared THEN {[Ask EXCEPT !.cred = t1], [Ask EXCEPT !.cred = t0, !.tool = ""], Preflight}
  ELSE {Ask, Preflight, [Ask EXCEPT !.cred = t1, !.tool = "pf_poke"], [Ask EXCEPT !.cred = t0],
        [Ask EXCEPT !.cred = a1, !.origin = site], [Ask EXCEPT !.body = "bad"], [Ask EXCEPT !.method = "GET"],
        [Ask EXCEPT !.header = c1], [Ask EXCEPT !.peer = home]}
       \union {[Ask EXCEPT !.header = c1, !.peer = home, !.forwarded = f] : f \in {direct, home, away}}
       \union {[q EXCEPT !.path = p] : p \in {"mcp", "sse", "message"},
                                       q \in {[Ask EXCEPT !.cred = a1], [Ask EXCEPT !.method = "GET"], Preflight}}
       \union {[Ask EXCEPT !.path = p, !.method = m] : p \in {"web", "health", "openapi", "oauth", "register", "other"},
                                                       m \in {"GET", "POST"}}
MCArrivals(c) == IF c = Limited THEN 5 ELSE IF c = Shared THEN 2 ELSE 1
MCRequest == Permutations(Request)
=============================================================================
