------------------------------ MODULE Resources ------------------------------
(***************************************************************************)
(* What a URI stands for: the filter pipeline of internal/filter, and the  *)
(* reading side of internal/backend/filesystem.go.  Both are functions of  *)
(* the configuration and of the files as they are at the moment.           *)
(*                                                                         *)
(* A glob is the set of the URIs it matches.  A file is a sequence of      *)
(* lines, and of a line only what tells two outcomes apart is kept: it is  *)
(* longer than the scanner's buffer ("long"), is one of the two lines that *)
(* a redaction rule matches together ("head", "tail"), or is neither       *)
(* ("hit", "plain").  A query is the kind of the lines that hold it.       *)
(***************************************************************************)
EXTENDS Integers, Sequences

CONSTANTS
  Name,       \* backend names
  URI,        \* the URIs in play; NoURI is the empty one
  NoURI,
  Tag,
  Owner,      \* Owner[u]: the filesystem backend that claims u's scheme, or NoName
  NoName,
  Include,    \* the URIs that match an include glob of their backend; none: all do
  Exclude,    \* those that match an exclude glob
  AutoTag,    \* auto_tag: pairs of a glob and a tag
  Dotted,     \* the URIs whose path has ".." in it, as in "a..b.md"
  Sandbox     \* sandbox, of every filesystem backend

Line == {"plain", "hit", "long", "head", "tail", "mask"}

\* What is found at a path.  "locked" cannot be opened, "outside" is a link that leaves
\* the root, "dirlink" a link to a directory below it.
Place == {"absent", "dir", "dirlink", "locked", "outside", "file"}

Disk == [at : Place, large : BOOLEAN, text : Seq(Line)]

FilterConfig == [enabled : BOOLEAN, allow : SUBSET URI, deny : SUBSET URI,
                 tagAllow : SUBSET Tag, tagDeny : SUBSET Tag, redact : BOOLEAN]

ASSUME ResourcesAssumption ==
  /\ NoName \notin Name /\ NoURI \in URI
  /\ Owner \in [URI -> Name \union {NoName}] /\ Owner[NoURI] = NoName
  /\ Include \subseteq URI /\ Exclude \subseteq URI
  /\ AutoTag \subseteq (SUBSET URI) \X Tag
  /\ Dotted \subseteq URI
  /\ Sandbox \in BOOLEAN

-----------------------------------------------------------------------------
(* The filter pipeline, f being filters of the configuration *)

\* Deny is looked at first; an empty allow list allows.
MatchGlobs(u, allow, deny) == u \notin deny /\ (allow = {} \/ u \in allow)

AllowURI(f, u) == f.enabled => MatchGlobs(u, f.allow, f.deny)

AllowTags(f, tags) ==
  f.enabled => /\ tags \intersect f.tagDeny = {}
               /\ f.tagAllow = {} \/ tags \intersect f.tagAllow # {}

\* Where a rule that spans two lines matches, and the lines it masks.
Secret(text) == {i \in 1..Len(text) - 1 : text[i] = "head" /\ text[i + 1] = "tail"}

Matched(text, i) == i \in Secret(text) \/ i - 1 \in Secret(text)

Redact(text) == [i \in DOMAIN text |-> IF Matched(text, i) THEN "mask" ELSE text[i]]

FilterContent(f, text) == IF f.enabled /\ f.redact THEN Redact(text) ELSE text

-----------------------------------------------------------------------------
(* The filesystem backend, d being what is on the disk at u *)

\* matchesInclude: exclude overrides include.
Included(u) == (Include = {} \/ u \in Include) /\ u \notin Exclude

TagsFor(u) == {p[2] : p \in {q \in AutoTag : u \in q[1]}}

\* resolvePath and walkIncluded: a sandboxed backend follows no link out of its root.
InRoot(d) == d.at = "outside" => ~ Sandbox

\* relPathFromURI takes no URI of another scheme and no path with ".." anywhere in it.
HasRelPath(b, u) == Owner[u] = b /\ u \notin Dotted

\* Read by backend b.  A directory is refused, through a link or not.
Readable(b, u, d) ==
  /\ HasRelPath(b, u)
  /\ Included(u) /\ d.at \in {"file", "outside"} /\ InRoot(d)

\* Where the scanner stops in a file: at the first line that holds the query, or at one
\* beyond its buffer; 0 is the end.
StopsAt(text, query) ==
  LET marks == {n \in DOMAIN text : text[n] \in {query, "long"}}
  IN  IF marks = {} THEN 0 ELSE CHOOSE n \in marks : \A m \in marks : n <= m

\* Mutation: the walk leaves out the include and exclude globs.
WalkedAll(u, d) == d.at \in {"file", "outside", "locked", "dirlink"} /\ InRoot(d)

\* walkIncluded calls back for this entry: WalkDir does not take a link for a directory.
Walked(u, d) == Included(u) /\ d.at \in {"file", "outside", "locked", "dirlink"} /\ InRoot(d)

\* What the search makes of an entry.  A large or unopenable file is passed over; a
\* link to a directory opens, and then fails to be read; a line beyond the buffer is an
\* error.
Visit(u, d, query) ==
  LET n == StopsAt(d.text, query)
  IN  IF ~ Walked(u, d) \/ d.large \/ d.at = "locked" THEN "nothing"
      ELSE IF d.at = "dirlink" THEN "error"
      ELSE IF n = 0 THEN "nothing" ELSE IF d.text[n] = "long" THEN "error" ELSE "hit"

\* SliceLines: a bound of zero or less is open, and one beyond the end is the end.
SliceLines(text, from, to) ==
  SubSeq(text, IF from <= 0 THEN 1 ELSE from, IF to <= 0 \/ to > Len(text) THEN Len(text) ELSE to)
=============================================================================
