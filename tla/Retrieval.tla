------------------------------ MODULE Retrieval ------------------------------
(***************************************************************************)
(* The retrieving tools: pf_scan (ToolDispatcher.Search with its fan-out), *)
(* pf_load (GetContext with its formats and its size budget) and pf_peek   *)
(* (Read), with the backends that answer them.                             *)
(*                                                                         *)
(* Calls share nothing but the files, so a behaviour makes one call while  *)
(* files change, backends fail and the caller may go.  The goroutines of a *)
(* search are the entries of run: each walks its files one by one, or      *)
(* waits for a command or a server, and reports in its own time.           *)
(***************************************************************************)
EXTENDS Resources, FiniteSets, SequencesExt

CONSTANTS
  Backends,      \* the configured backends, a sequence of names
  Kind,          \* Kind[b]: "filesystem", "subprocess", "http" or "subagent"
  Walk,          \* Walk[b]: the URIs of the filesystem b in the order WalkDir meets them
  OnDisk,        \* what may be at a path
  Filters,       \* the filter configurations in play
  Contexts,      \* contexts: a function from names to records
  Format,        \* the formats that a request may name, or NoFormat
  Reply,         \* the items that a command or a server may answer with
  Asked,         \* the lists of backends that a request may name, empty for none
  Sought,        \* the queries: a query is the kind of line that holds it
  Limit,         \* the limits that a request may name
  Slice,         \* the pairs of from_line and to_line that a request may name
  MarkerSize,    \* the length of "\n\n...[truncated]"
  Changing,      \* bound: the files that change during a call
  MaxChanges     \* bound: how often a file changes

\* One line of a command's output, or one element of a server's array: ill-formed ones
\* are skipped, and only a server sends tags.
Item == [wellFormed : BOOLEAN, uri : URI, tags : SUBSET Tag]

\* A format that is left out.
NoFormat == ""

ContextConfig ==
  [sources : Seq(Name \X URI), format : {NoFormat, "markdown", "json", "other"}, maxSize : Int]

\* What dispatcher.New demands: names are unique and a context names only backends there are.
\* A scheme is a backend's alone, which makes Owner a function, and a walk meets URIs of
\* its backend's scheme only.
ASSUME NewAssumption ==
  /\ Backends \in Seq(Name)
  /\ \A i, j \in DOMAIN Backends : Backends[i] = Backends[j] => i = j
  /\ \A b \in Name : b \in Range(Backends)
  /\ \A c \in DOMAIN Contexts : Contexts[c] \in ContextConfig
  /\ \A u \in URI : Owner[u] # NoName => Kind[Owner[u]] = "filesystem"
  /\ \A b \in Name :
       Kind[b] = "filesystem" =>
         Walk[b] \in Seq(URI) /\ \A n \in DOMAIN Walk[b] : Owner[Walk[b][n]] = b

ASSUME RetrievalAssumption ==
  /\ OnDisk \subseteq Disk /\ Filters \subseteq FilterConfig
  /\ Reply \subseteq Seq(Item) /\ Asked \subseteq Seq(Name)
  /\ Sought \subseteq Line \ {"long", "mask"}
  /\ Limit \subseteq Int /\ Slice \subseteq Int \X Int
  /\ MarkerSize \in Nat \ {0}
  /\ Changing \subseteq URI /\ MaxChanges \in Nat

VARIABLES
  files,     \* files[u]: what is on the disk at u
  changes,   \* how often a file has changed
  filters,   \* ToolDispatcher.filter
  gone,      \* the caller's context is cancelled
  call,      \* the call: its operation, its stage and its arguments
  run,       \* search: run[i] is the goroutine of the i-th target
  loaded,    \* load: the sources taken in, with their text
  skipped,   \* load: the sources left out, with the reason
  answer     \* what the caller gets

world == <<files, changes, filters, gone>>
vars == <<world, call, run, loaded, skipped, answer>>

\* Of a file, the line that holds the query, and its number; what a command or a server
\* shows is its own affair.
Result == [uri : URI, tags : SUBSET Tag, backend : Name, line : Nat, snippet : Line]

Cause == {"none", "cancelled", "walk", "scan", "exit", "timeout", "status", "path"}

TypeOK ==
  /\ files \in [URI -> OnDisk] /\ changes \in 0..MaxChanges
  /\ filters \in Filters /\ gone \in BOOLEAN
  /\ call.op \in {"none", "search", "load", "peek"}
  /\ call.stage \in {"idle", "running", "answered"}
  /\ \A i \in DOMAIN run :
       /\ run[i].state \in {"running", "reported", "failed"}
       /\ run[i].at \in Nat /\ run[i].cause \in Cause
       /\ run[i].got \in Seq(Result) /\ Len(run[i].got) <= call.quota
  /\ \A i \in DOMAIN loaded : loaded[i].uri \in URI /\ loaded[i].text \in Seq(Line)
  /\ \A i \in DOMAIN skipped :
       skipped[i].uri \in URI /\ skipped[i].reason \in {"uri filter", "read error", "tag filter", "budget"}
  /\ answer.status \in {"none", "ok", "refused"}

Init ==
  /\ files \in [URI -> OnDisk]
  /\ changes = 0
  /\ filters \in Filters
  /\ gone = FALSE
  /\ call = [op |-> "none", stage |-> "idle"]
  /\ run = <<>> /\ loaded = <<>> /\ skipped = <<>>
  /\ answer = [status |-> "none"]

Finish(a) ==
  /\ call' = [call EXCEPT !.stage = "answered"]
  /\ answer' = a

-----------------------------------------------------------------------------
(* The outside *)

\* What changes before a call is another start.
FileChanges(u) ==
  /\ call.stage = "running"
  /\ changes < MaxChanges /\ changes' = changes + 1
  /\ \E d \in OnDisk : files' = [files EXCEPT ![u] = d]
  /\ UNCHANGED <<filters, gone, call, run, loaded, skipped, answer>>

CallerGoes ==
  /\ ~ gone /\ gone' = TRUE
  /\ call.stage = "running"
  /\ UNCHANGED <<files, changes, filters, call, run, loaded, skipped, answer>>

\* An unknown backend, context or format, an empty query, name or URI.
Refuse ==
  /\ call.stage = "idle"
  /\ \E op \in {"search", "load", "peek"} : call' = [op |-> op, stage |-> "answered"]
  /\ answer' = [status |-> "refused"]
  /\ UNCHANGED <<world, run, loaded, skipped>>

-----------------------------------------------------------------------------
(* pf_scan *)

Least(a, b) == IF a < b THEN a ELSE b
Most(a, b) == IF a > b THEN a ELSE b

\* Each of several targets gets its share of the limit, rounded up.
Quota(limit, n) == IF n > 1 THEN Most(1, (limit + n - 1) \div n) ELSE limit

\* A caller that names backends gets those, twice if it names one twice.
StartSearch(names, limit, query) ==
  LET targets == IF names = <<>> THEN Backends ELSE names
      bound == IF limit <= 0 THEN 10 ELSE limit
  IN  /\ call.stage = "idle"
      /\ call' = [op |-> "search", stage |-> "running", targets |-> targets, limit |-> bound,
                  quota |-> Quota(bound, Len(targets)), query |-> query]
      /\ run' = [i \in DOMAIN targets |->
                   [state |-> "running", at |-> 0, got |-> <<>>, cause |-> "none"]]
      /\ UNCHANGED <<world, loaded, skipped, answer>>

Running(i) == call.op = "search" /\ i \in DOMAIN run /\ run[i].state = "running"
Target(i) == call.targets[i]

Reports(i, got) == run' = [run EXCEPT ![i].state = "reported", ![i].got = got]
Fails(i, cause) == run' = [run EXCEPT ![i].state = "failed", ![i].cause = cause, ![i].got = <<>>]

\* The result for a file: the line as it stands in it, which nothing redacts later.
Hit(u, d, b) ==
  LET n == StopsAt(d.text, call.query)
  IN  [uri |-> u, tags |-> TagsFor(u), backend |-> b, line |-> n, snippet |-> d.text[n]]

\* FilesystemBackend.Search, one entry of the walk: at most one result a file.
VisitNext(i) ==
  /\ Running(i) /\ Kind[Target(i)] = "filesystem"
  /\ run[i].at < Len(Walk[Target(i)])
  /\ LET u == Walk[Target(i)][run[i].at + 1]
         found == Append(run[i].got, Hit(u, files[u], Target(i)))
         what == Visit(u, files[u], call.query)
     IN  \/ gone /\ Fails(i, "cancelled")
         \/ ~ gone /\ what = "error" /\ Fails(i, "scan")
         \/ ~ gone /\ what = "nothing" /\ run' = [run EXCEPT ![i].at = @ + 1]
         \/ /\ ~ gone /\ what = "hit"
            /\ IF Len(found) >= call.quota THEN Reports(i, found)
               ELSE run' = [run EXCEPT ![i].at = @ + 1, ![i].got = found]
  /\ UNCHANGED <<world, call, loaded, skipped, answer>>

\* A directory that cannot be read ends the walk, and what it found is dropped.
WalkFails(i) ==
  /\ Running(i) /\ Kind[Target(i)] = "filesystem"
  /\ Fails(i, "walk")
  /\ UNCHANGED <<world, call, loaded, skipped, answer>>

WalkEnds(i) ==
  /\ Running(i) /\ Kind[Target(i)] = "filesystem"
  /\ run[i].at = Len(Walk[Target(i)])
  /\ Reports(i, run[i].got)
  /\ UNCHANGED <<world, call, loaded, skipped, answer>>

\* The elements of s that are in S, in their order.
Select(s, S) ==
  LET taken[n \in 0..Len(s)] ==
        IF n = 0 THEN <<>>
        ELSE IF s[n] \in S THEN Append(taken[n - 1], s[n]) ELSE taken[n - 1]
  IN  taken[Len(s)]

\* The parsers of a command's output and of a server's array.
Parsed(b, items, quota) ==
  LET good == Select(items, {x \in Item : x.wellFormed})
  IN  [k \in 1..Least(quota, Len(good)) |->
        [uri |-> good[k].uri, tags |-> IF Kind[b] = "http" THEN good[k].tags ELSE {},
         backend |-> b, line |-> 0, snippet |-> "plain"]]

\* A command that exits with 0 or 1, a server that answers with an array; a subagent
\* has nothing to search.
Replies(i) ==
  /\ Running(i) /\ Kind[Target(i)] # "filesystem"
  /\ \E items \in IF Kind[Target(i)] = "subagent" THEN {<<>>} ELSE Reply :
       Reports(i, Parsed(Target(i), items, call.quota))
  /\ UNCHANGED <<world, call, loaded, skipped, answer>>

\* Another exit status or a bad HTTP one, the deadline, a caller that has gone, and a
\* response_path that the body lacks.
ReplyFails(i) ==
  /\ Running(i) /\ Kind[Target(i)] \in {"subprocess", "http"}
  /\ \E cause \in {"timeout"} \union (IF gone THEN {"cancelled"} ELSE {})
                    \union (IF Kind[Target(i)] = "http" THEN {"status", "path"} ELSE {"exit"}) :
       Fails(i, cause)
  /\ UNCHANGED <<world, call, loaded, skipped, answer>>

Passing == {r \in Result : AllowURI(filters, r.uri) /\ AllowTags(filters, r.tags)}

Reported == FlattenSeq([i \in DOMAIN run |-> run[i].got])

\* Mutation: the limit cuts before the filter drops.
MergeCutFirst ==
  /\ call.op = "search" /\ call.stage = "running"
  /\ \A i \in DOMAIN run : run[i].state # "running"
  /\ Finish([status |-> "ok",
             results |-> Select(SubSeq(Reported, 1, Least(call.limit, Len(Reported))), Passing)])
  /\ UNCHANGED <<world, run, loaded, skipped>>

\* Mutation: a search waits for every target to succeed.
MergeWhenAllReported ==
  /\ call.op = "search" /\ call.stage = "running"
  /\ \A i \in DOMAIN run : run[i].state = "reported"
  /\ LET all == Select(Reported, Passing)
     IN  Finish([status |-> "ok", results |-> SubSeq(all, 1, Least(call.limit, Len(all)))])
  /\ UNCHANGED <<world, run, loaded, skipped>>

\* Once every target has reported or failed, in the order of the targets: the filter
\* and then the limit.
Merge ==
  /\ call.op = "search" /\ call.stage = "running"
  /\ \A i \in DOMAIN run : run[i].state # "running"
  /\ LET all == Select(Reported, Passing)
     IN  Finish([status |-> "ok", results |-> SubSeq(all, 1, Least(call.limit, Len(all)))])
  /\ UNCHANGED <<world, run, loaded, skipped>>

-----------------------------------------------------------------------------
(* pf_load *)

\* The request's format, then the context's, then markdown.  One that is neither is
\* refused, here as the start-up has not looked at a context's.
StartLoad(c, format) ==
  LET chosen == IF format # NoFormat THEN format
                ELSE IF Contexts[c].format # NoFormat THEN Contexts[c].format ELSE "markdown"
  IN  /\ call.stage = "idle" /\ chosen # "other"
      /\ call' = [op |-> "load", stage |-> "running", context |-> c, format |-> chosen]
      /\ UNCHANGED <<world, run, loaded, skipped, answer>>

Loading == call.op = "load" /\ call.stage = "running"
Sources == Contexts[call.context].sources
Budget == Contexts[call.context].maxSize
NextSource == Len(loaded) + Len(skipped) + 1

Skip(u, reason) ==
  /\ skipped' = Append(skipped, [uri |-> u, reason |-> reason])
  /\ UNCHANGED loaded

\* One source: the URI filter, the read, the tag filter, and then its redacted text.
LoadSource ==
  /\ Loading /\ NextSource <= Len(Sources)
  /\ LET b == Sources[NextSource][1]
         u == Sources[NextSource][2]
         ok == ~ gone /\ Readable(b, u, files[u])
     IN  \/ ~ AllowURI(filters, u) /\ Skip(u, "uri filter")
         \/ AllowURI(filters, u) /\ ~ ok /\ Skip(u, "read error")
         \/ AllowURI(filters, u) /\ ok /\ ~ AllowTags(filters, TagsFor(u)) /\ Skip(u, "tag filter")
         \/ /\ AllowURI(filters, u) /\ ok /\ AllowTags(filters, TagsFor(u))
            /\ loaded' = Append(loaded, [uri |-> u, of |-> files[u].text,
                                         text |-> FilterContent(filters, files[u].text)])
            /\ UNCHANGED skipped
  /\ UNCHANGED <<world, call, run, answer>>

\* The bytes of a bundle: a header of ASCII for each source, and for each line of it a
\* character of two bytes.
Bytes(s) == <<"ascii">> \o FlattenSeq([i \in DOMAIN s.text |-> <<"lead", "cont">>])
Joined(ss) == FlattenSeq([i \in DOMAIN ss |-> Bytes(ss[i])])

\* Mutation: the cut looks at no character.
CutAnywhere(bytes, n) == n

\* The longest cut of at most n bytes in front of the start of a character.
CutAt(bytes, n) ==
  CHOOSE c \in 0..n : /\ c = 0 \/ bytes[c + 1] # "cont"
                      /\ \A d \in c + 1 .. n : bytes[d + 1] = "cont"

Overflows == Budget > 0 /\ Len(Joined(loaded)) > Budget

\* How many sources begin before a cut after n bytes: the others are gone from the text,
\* with their headers.
BeganBefore(n) ==
  LET begins(k) == Len(Joined(SubSeq(loaded, 1, k - 1)))
  IN  CHOOSE k \in 0..Len(loaded) : /\ k = 0 \/ begins(k) < n
                                   /\ \A j \in k + 1 .. Len(loaded) : begins(j) >= n

\* markdown, with metadata or without: one text.  When it is too long it is cut, and a
\* marker follows; a budget of zero or less is none.
AssembleMarkdown ==
  /\ Loading /\ NextSource > Len(Sources) /\ call.format = "markdown"
  /\ LET joined == Joined(loaded)
         cut == IF Overflows THEN CutAt(joined, Budget) ELSE Len(joined)
         shown == IF Overflows THEN BeganBefore(cut) ELSE Len(loaded)
     IN  Finish([status |-> "ok", uris |-> [i \in 1..shown |-> loaded[i].uri], whole |-> joined,
                 size |-> IF Overflows THEN cut + MarkerSize ELSE cut, truncated |-> Overflows])
  /\ UNCHANGED <<world, run, loaded, skipped>>

\* The document of the first k sources, with its name and brackets in two bytes.
DocumentSize(k) == 2 + Len(Joined(SubSeq(loaded, 1, k)))

Fits(k) == Budget <= 0 \/ DocumentSize(k) <= Budget

\* How many sources are left once the tail has been dropped.
Kept ==
  CHOOSE k \in 0..Len(loaded) : (k = 0 \/ Fits(k)) /\ \A j \in k + 1 .. Len(loaded) : ~ Fits(j)

\* Mutation: a source that the budget drops is not reported.
AssembleJSONSilently ==
  /\ Loading /\ NextSource > Len(Sources) /\ call.format = "json"
  /\ Finish([status |-> "ok", uris |-> [i \in 1..Kept |-> loaded[i].uri], whole |-> <<>>,
             size |-> DocumentSize(Kept), truncated |-> FALSE])
  /\ UNCHANGED <<world, run, loaded, skipped>>

\* json: sources are dropped from the tail, each with a reason, until the document fits.
AssembleJSON ==
  /\ Loading /\ NextSource > Len(Sources) /\ call.format = "json"
  /\ skipped' = skipped \o [i \in 1..Len(loaded) - Kept |->
                              [uri |-> loaded[Len(loaded) + 1 - i].uri, reason |-> "budget"]]
  /\ Finish([status |-> "ok", uris |-> [i \in 1..Kept |-> loaded[i].uri], whole |-> <<>>,
             size |-> DocumentSize(Kept), truncated |-> FALSE])
  /\ UNCHANGED <<world, run, loaded>>

-----------------------------------------------------------------------------
(* pf_peek *)

\* What Read gives for u: the filters about the read, and the slice of the redacted text.
Peekable(u) ==
  /\ AllowURI(filters, u) /\ Owner[u] # NoName
  /\ Readable(Owner[u], u, files[u]) /\ AllowTags(filters, TagsFor(u))

\* Mutation: the lines are cut out before the rules see them.
PeekSlicedFirst(u, from, to) ==
  /\ call.stage = "idle" /\ Peekable(u)
  /\ call' = [op |-> "peek", stage |-> "answered"]
  /\ answer' = [status |-> "ok", of |-> files[u].text,
                text |-> FilterContent(filters, SliceLines(files[u].text, from, to))]
  /\ UNCHANGED <<world, run, loaded, skipped>>

Peek(u, from, to) ==
  /\ call.stage = "idle" /\ Peekable(u)
  /\ call' = [op |-> "peek", stage |-> "answered"]
  /\ answer' = [status |-> "ok", of |-> files[u].text,
                text |-> SliceLines(FilterContent(filters, files[u].text), from, to)]
  /\ UNCHANGED <<world, run, loaded, skipped>>

-----------------------------------------------------------------------------
Step(i) == VisitNext(i) \/ WalkEnds(i) \/ Replies(i) \/ ReplyFails(i)

Requests ==
  \/ Refuse
  \/ \E names \in Asked, limit \in Limit, query \in Sought : StartSearch(names, limit, query)
  \/ \E c \in DOMAIN Contexts, format \in Format : StartLoad(c, format)
  \/ \E u \in URI, s \in Slice : Peek(u, s[1], s[2])

Next ==
  \/ \E u \in Changing : FileChanges(u)
  \/ CallerGoes
  \/ Requests
  \/ \E i \in DOMAIN run : Step(i) \/ WalkFails(i)
  \/ Merge \/ LoadSource \/ AssembleMarkdown \/ AssembleJSON

Safety == Init /\ [][Next]_vars

\* No search has more targets.
MaxTargets == Len(Backends) + Max({Len(names) : names \in Asked})

\* Goroutines run on, and a backend answers or meets its deadline.
Fairness ==
  /\ \A i \in 1..MaxTargets : WF_vars(Step(i))
  /\ WF_vars(Merge) /\ WF_vars(LoadSource)
  /\ WF_vars(AssembleMarkdown) /\ WF_vars(AssembleJSON)

Spec == Safety /\ Fairness

-----------------------------------------------------------------------------
(* Properties *)

Answered(op) == call.op = op /\ answer.status = "ok"

\* Whatever the order in which backends reported and whichever failed: the answer keeps
\* the targets' order, holds only what a backend that did not fail reported and the
\* filter lets pass, misses none of that unless it is at its limit, and then misses only
\* what comes after its last result.
AnswersMerged ==
  Answered("search") =>
    LET good == {i \in DOMAIN run : run[i].state = "reported"}
        wanted == {p \in good \X (1..call.quota) :
                     p[2] \in DOMAIN run[p[1]].got /\ run[p[1]].got[p[2]] \in Passing}
        before(p, q) == p[1] < q[1] \/ (p[1] = q[1] /\ p[2] < q[2])
        rank(p) == 1 + Cardinality({q \in wanted : before(q, p)})
    IN  /\ Len(answer.results) = Least(call.limit, Cardinality(wanted))
        /\ \A p \in wanted : rank(p) <= call.limit => answer.results[rank(p)] = run[p[1]].got[p[2]]

\* A file that a result came from is still there and can be read.
StillThere(r) ==
  Kind[r.backend] = "filesystem" /\ files[r.uri].at \in {"file", "outside"} /\ InRoot(files[r.uri])

\* What pf_scan finds in a file pf_peek serves, as long as the file is there and its path
\* has no ".." in it: the two ways to a file, through the walk and through its URI, agree
\* on the globs, the sandbox and the tags.  (relPathFromURI refuses the other paths.)
FoundIsReadable ==
  Answered("search") =>
    \A k \in DOMAIN answer.results :
      LET r == answer.results[k]
      IN  StillThere(r) /\ r.uri \notin Dotted => Peekable(r.uri)

\* text is a stretch of the file with every line that a rule matches masked there, and no
\* other line touched.
StretchMasked(of, text) ==
  filters.enabled /\ filters.redact =>
    \E k \in 0..Len(of) : \A i \in DOMAIN text :
      /\ k + i \in DOMAIN of
      /\ text[i] = IF Matched(of, k + i) THEN "mask" ELSE of[k + i]

\* With redaction on, what pf_peek and pf_load take of a file is masked as the file is,
\* whatever lines a caller asks for: a rule that spans lines is not blinded by the slice.
\* (What pf_scan shows is not masked, although docs/security.md has no such exception.)
SecretsMasked ==
  /\ Answered("peek") => StretchMasked(answer.of, answer.text)
  /\ \A i \in DOMAIN loaded :
       /\ StretchMasked(loaded[i].of, loaded[i].text)
       /\ Len(loaded[i].text) = Len(loaded[i].of)

\* Every source of a context is in the bundle or among the skipped ones, as often as the
\* context names it: a caller that sees neither would take the bundle for whole.  Only a
\* markdown text that ends with the marker may lack loaded sources, and then its last ones.
SourcesAccounted ==
  Answered("load") =>
    LET named(u) == Cardinality({i \in DOMAIN Sources : Sources[i][2] = u})
        shown(u) == Cardinality({i \in DOMAIN answer.uris : answer.uris[i] = u})
        left(u) == Cardinality({i \in DOMAIN skipped : skipped[i].uri = u})
    IN  /\ \A i \in DOMAIN answer.uris : i \in DOMAIN loaded /\ answer.uris[i] = loaded[i].uri
        /\ ~ answer.truncated => \A u \in URI : named(u) = shown(u) + left(u)
        /\ answer.truncated =>
             call.format = "markdown" /\ \A u \in URI : named(u) >= shown(u) + left(u)

\* max_size, in bytes (config.go speaks of characters): a document holds as many of the first
\* sources as fit, and markdown is the longest text of whole characters that does, with the
\* marker on top; nothing is cut that would have fitted.
WithinBudget ==
  Answered("load") /\ Budget > 0 =>
    /\ call.format = "json" =>
         /\ answer.size <= Budget \/ answer.uris = <<>>
         /\ Len(answer.uris) < Len(loaded) => DocumentSize(Len(answer.uris) + 1) > Budget
    /\ call.format = "markdown" =>
         /\ answer.truncated <=> Len(answer.whole) > Budget
         /\ answer.truncated =>
              LET cut == answer.size - MarkerSize
              IN  /\ cut \in 0..Budget
                  /\ cut = 0 \/ answer.whole[cut + 1] # "cont"
                  /\ \A d \in cut + 1 .. Budget : answer.whole[d + 1] = "cont"
         /\ ~ answer.truncated => answer.size = Len(answer.whole)

\* A call that was taken is answered, though backends fail, files change and the caller
\* goes: no goroutine of a search is left unreported.
CallsAnswered == call.stage = "running" ~> call.stage = "answered"
=============================================================================
