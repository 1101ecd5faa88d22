----------------------------- MODULE ClientsFile -----------------------------
(***************************************************************************)
(* The OAuth2 clients file and everybody who writes it:                    *)
(*   - the server, which reads it at start and on ReloadClients and appends *)
(*     to it on a dynamic registration (internal/auth/oauth2.go);          *)
(*   - the command line, which reads it whole and replaces it through       *)
(*     path.tmp and a rename (cmd/pagefault/oauth_client.go).               *)
(*                                                                         *)
(* Each system call is one step.  A file is an inode; the path and         *)
(* path.tmp name one, and a rename moves a name while open descriptors     *)
(* keep the inode they have.  A record is its client id; the one that a    *)
(* registration mints is the registration itself.                          *)
(***************************************************************************)
EXTENDS Naturals, FiniteSets

CONSTANTS
  Initial,        \* the ids in the file before the server starts
  NewId,          \* the ids the operator may create
  Registration,   \* the calls of RegisterClient
  Cli,            \* command-line processes that may run at the same time
  MaxCommands,    \* bound: commands run by one of them, one after the other
  NoLine, Junk,   \* what an unterminated last line holds, other than one record
  None

Id == Initial \union NewId \union Registration

Inode == 0..(MaxCommands * Cardinality(Cli))

\* The terminated lines that parse, what follows the last newline, and whether a
\* terminated line does not parse.
Content == [ids : SUBSET Id, last : Id \union {NoLine, Junk}, bad : BOOLEAN]

ASSUME ClientsFileAssumption ==
  /\ MaxCommands \in Nat
  /\ IsFiniteSet(Cli)
  /\ {NoLine, Junk, None} \intersect (Id \union Inode) = {}
  /\ NoLine # Junk
  /\ (Initial \union NewId) \intersect Registration = {}

VARIABLES
  content,        \* content[i]: what inode i holds
  inodes,         \* how many inodes exist
  path, tmp,      \* the inode that each name stands for, None if there is no file
  up,             \* the server runs
  clients,        \* the keys of OAuth2Provider.clients
  reg, regFd,     \* reg[r]: where the registration is; the inode it has open
  reload,         \* what a ReloadClients in progress has parsed, or None
  cli,            \* cli[p]: where the command is
  cmd,            \* cmd[p]: [op, id] of the command
  recs,           \* recs[p]: the records it has read, edited
  cliFd,          \* cliFd[p]: the inode of path.tmp that it has open
  commands,       \* commands[p]: how many p has run
  created,        \* history: the ids whose latest command to succeed was a create
  revoked,        \* history: the ids whose latest command to succeed was a revoke
  written,        \* history: the ids that some write put on disk
  overtaken,      \* history: the registrations that wrote while a rewrite was under way
  cut             \* history: some append of the server was cut short

disk == <<content, inodes, path, tmp>>
server == <<up, clients, reg, regFd, reload>>
operator == <<cli, cmd, recs, cliFd, commands, created, revoked>>

vars == <<disk, server, operator, written, overtaken, cut>>

-----------------------------------------------------------------------------
File(ids) == [ids |-> ids, last |-> NoLine, bad |-> FALSE]

\* ParseClientsJSONL: one line that does not parse fails the whole file.
Parses(f) == ~ f.bad /\ f.last # Junk

Records(f) == f.ids \union ({f.last} \ {NoLine, Junk})

\* What one Write may leave: all of the line, nothing, a part, or all but its newline.
Extent == {"all", "nothing", "part", "unterminated"}

\* A line written after an unterminated one becomes one line with it.
Append(f, r, extent) ==
  CASE extent = "nothing" -> f
    [] extent = "all" /\ f.last = NoLine -> [f EXCEPT !.ids = @ \union {r}]
    [] extent = "all" /\ f.last # NoLine -> [f EXCEPT !.bad = TRUE, !.last = NoLine]
    [] extent = "unterminated" /\ f.last = NoLine -> [f EXCEPT !.last = r]
    [] OTHER -> [f EXCEPT !.last = Junk]

TypeOK ==
  /\ content \in [Inode -> Content]
  /\ inodes \in 1..Cardinality(Inode)
  /\ path \in 0..(inodes - 1)
  /\ tmp \in (0..(inodes - 1) \ {path}) \union {None}
  /\ up \in BOOLEAN
  /\ clients \subseteq Id
  /\ reg \in [Registration -> {"new", "opened", "written", "acked", "failed"}]
  /\ regFd \in [Registration -> Inode \union {None}]
  /\ reload \in (SUBSET Id) \union {None}
  /\ cli \in [Cli -> {"idle", "read", "opened", "wrote"}]
  /\ cmd \in [Cli -> [op : {"create", "revoke"}, id : Id] \union {None}]
  /\ recs \in [Cli -> SUBSET Id]
  /\ cliFd \in [Cli -> Inode \union {None}]
  /\ commands \in [Cli -> 0..MaxCommands]
  /\ created \subseteq Id /\ revoked \subseteq Id
  /\ written \subseteq Id
  /\ overtaken \subseteq Registration
  /\ cut \in BOOLEAN

Init ==
  /\ content = [i \in Inode |-> File(IF i = 0 THEN Initial ELSE {})]
  /\ inodes = 1
  /\ path = 0
  /\ tmp = None
  /\ up = TRUE
  /\ clients = Initial
  /\ reg = [r \in Registration |-> "new"]
  /\ regFd = [r \in Registration |-> None]
  /\ reload = None
  /\ cli = [p \in Cli |-> "idle"]
  /\ cmd = [p \in Cli |-> None]
  /\ recs = [p \in Cli |-> {}]
  /\ cliFd = [p \in Cli |-> None]
  /\ commands = [p \in Cli |-> 0]
  /\ created = Initial
  /\ revoked = {}
  /\ written = Initial
  /\ overtaken = {}
  /\ cut = FALSE

-----------------------------------------------------------------------------
(* The server: RegisterClient and appendClient *)

\* Mutation: O_TRUNC for O_APPEND.
OpenTruncates(r) ==
  /\ up
  /\ reg[r] = "new"
  /\ reg' = [reg EXCEPT ![r] = "opened"]
  /\ regFd' = [regFd EXCEPT ![r] = path]
  /\ content' = [content EXCEPT ![path] = File({})]
  /\ UNCHANGED <<inodes, path, tmp, up, clients, reload, operator, written, overtaken, cut>>

\* OpenFile(clientsPath, O_APPEND|O_CREATE|O_WRONLY).
OpenAppend(r) ==
  /\ up
  /\ reg[r] = "new"
  /\ reg' = [reg EXCEPT ![r] = "opened"]
  /\ regFd' = [regFd EXCEPT ![r] = path]
  /\ UNCHANGED <<disk, up, clients, reload, operator, written, overtaken, cut>>

\* handleOAuthRegister and RegisterClient turn it away: registration is off, the gate token
\* is missing or wrong, or the metadata are not acceptable.
RefuseRegistration(r) ==
  /\ up
  /\ reg[r] = "new"
  /\ reg' = [reg EXCEPT ![r] = "failed"]
  /\ UNCHANGED <<disk, up, clients, regFd, reload, operator, written, overtaken, cut>>

\* f.Write: the descriptor may by now be that of a file without a name.
WriteRecord(r, extent) ==
  /\ up
  /\ reg[r] = "opened"
  /\ content' = [content EXCEPT ![regFd[r]] = Append(@, r, extent)]
  /\ reg' = [reg EXCEPT ![r] = IF extent = "all" THEN "written" ELSE "failed"]
  /\ regFd' = [regFd EXCEPT ![r] = None]
  /\ written' = IF extent \in {"all", "unterminated"} THEN written \union {r} ELSE written
  /\ cut' = (cut \/ extent \in {"part", "unterminated"})
  /\ overtaken' = IF regFd[r] # path \/ \E p \in Cli : cli[p] # "idle"
                  THEN overtaken \union {r} ELSE overtaken
  /\ UNCHANGED <<inodes, path, tmp, up, clients, reload, operator>>

\* Mutation: the error of f.Write or f.Sync is dropped.
AcknowledgeAnyway(r) ==
  /\ up
  /\ reg[r] \in {"written", "failed"}
  /\ reg' = [reg EXCEPT ![r] = "acked"]
  /\ clients' = clients \union {r}
  /\ UNCHANGED <<disk, up, regFd, reload, operator, written, overtaken, cut>>

\* f.Sync succeeded: into the map, and the client id is returned.
Acknowledge(r) ==
  /\ up
  /\ reg[r] = "written"
  /\ reg' = [reg EXCEPT ![r] = "acked"]
  /\ clients' = clients \union {r}
  /\ UNCHANGED <<disk, up, regFd, reload, operator, written, overtaken, cut>>

\* f.Sync failed: an error, although the line is there.
SyncFails(r) ==
  /\ up
  /\ reg[r] = "written"
  /\ reg' = [reg EXCEPT ![r] = "failed"]
  /\ UNCHANGED <<disk, up, clients, regFd, reload, operator, written, overtaken, cut>>

-----------------------------------------------------------------------------
(* The server: ReloadClients, a crash, and a start *)

\* ReadFile and parse, before the mutex is taken; a file that does not parse is an
\* error and changes nothing.
ReloadRead ==
  /\ up
  /\ reload = None
  /\ Parses(content[path])
  /\ reload' = Records(content[path])
  /\ UNCHANGED <<disk, up, clients, reg, regFd, operator, written, overtaken, cut>>

\* The critical section.
ReloadSwap ==
  /\ up
  /\ reload # None
  /\ clients' = reload
  /\ reload' = None
  /\ UNCHANGED <<disk, up, reg, regFd, operator, written, overtaken, cut>>

Crash ==
  /\ up
  /\ up' = FALSE
  /\ clients' = {}
  /\ reload' = None
  /\ reg' = [r \in Registration |->
               IF reg[r] \in {"opened", "written"} THEN "failed" ELSE reg[r]]
  /\ regFd' = [r \in Registration |-> None]
  /\ UNCHANGED <<disk, operator, written, overtaken, cut>>

\* NewOAuth2Provider: no start with a file that does not parse.
Start ==
  /\ ~ up
  /\ Parses(content[path])
  /\ up' = TRUE
  /\ clients' = Records(content[path])
  /\ UNCHANGED <<disk, reg, regFd, reload, operator, written, overtaken, cut>>

-----------------------------------------------------------------------------
(* The command line: oauth-client create and revoke *)

\* readOAuthClients and the edit of what was read.  A file that does not parse, an
\* id that exists or one that is not found ends the command: nothing changes.
CliRead(p, op, c) ==
  /\ cli[p] = "idle"
  /\ commands[p] < MaxCommands
  /\ Parses(content[path])
  /\ LET old == Records(content[path])
     IN  /\ op = "create" => c \in NewId /\ c \notin old
         /\ op = "revoke" => c \in old
         /\ recs' = [recs EXCEPT ![p] = IF op = "create" THEN old \union {c} ELSE old \ {c}]
  /\ cli' = [cli EXCEPT ![p] = "read"]
  /\ cmd' = [cmd EXCEPT ![p] = [op |-> op, id |-> c]]
  /\ commands' = [commands EXCEPT ![p] = @ + 1]
  /\ UNCHANGED <<disk, server, cliFd, created, revoked, written, overtaken, cut>>

\* Mutation: path.tmp is opened without O_TRUNC.
TmpOpenKeeps(p) ==
  /\ cli[p] = "read"
  /\ LET i == IF tmp = None THEN inodes ELSE tmp
     IN  /\ tmp' = i
         /\ cliFd' = [cliFd EXCEPT ![p] = i]
  /\ inodes' = IF tmp = None THEN inodes + 1 ELSE inodes
  /\ cli' = [cli EXCEPT ![p] = "opened"]
  /\ UNCHANGED <<content, path, server, cmd, recs, commands, created, revoked, written,
                 overtaken, cut>>

\* WriteFile opens path.tmp with O_CREATE|O_TRUNC.
TmpOpen(p) ==
  /\ cli[p] = "read"
  /\ LET i == IF tmp = None THEN inodes ELSE tmp
     IN  /\ tmp' = i
         /\ content' = [content EXCEPT ![i] = File({})]
         /\ cliFd' = [cliFd EXCEPT ![p] = i]
  /\ inodes' = IF tmp = None THEN inodes + 1 ELSE inodes
  /\ cli' = [cli EXCEPT ![p] = "opened"]
  /\ UNCHANGED <<path, server, cmd, recs, commands, created, revoked, written,
                 overtaken, cut>>

\* A whole write at offset 0; over bytes that another process put there, either the
\* new ones cover them or the lines run into each other.
Overwrites(old, ids) ==
  {File(ids)} \union (IF old = File({}) THEN {} ELSE {[File(ids) EXCEPT !.bad = TRUE]})

TmpWrite(p) ==
  /\ cli[p] = "opened"
  /\ \E f \in Overwrites(content[cliFd[p]], recs[p]) :
       content' = [content EXCEPT ![cliFd[p]] = f]
  /\ cli' = [cli EXCEPT ![p] = "wrote"]
  /\ written' = written \union recs[p]
  /\ UNCHANGED <<inodes, path, tmp, server, cmd, recs, cliFd, commands, created, revoked,
                 overtaken, cut>>

EndCommand(p) ==
  /\ cli' = [cli EXCEPT ![p] = "idle"]
  /\ cmd' = [cmd EXCEPT ![p] = None]
  /\ recs' = [recs EXCEPT ![p] = {}]
  /\ cliFd' = [cliFd EXCEPT ![p] = None]
  /\ UNCHANGED commands

Report(p) ==
  LET c == cmd[p].id
  IN  IF cmd[p].op = "create"
        THEN created' = created \union {c} /\ revoked' = revoked \ {c}
        ELSE created' = created \ {c} /\ revoked' = revoked \union {c}

\* WriteFile fails on the way: the command ends, and path.tmp stays as it is.
TmpWriteFails(p) ==
  /\ cli[p] = "opened"
  /\ content' = [content EXCEPT ![cliFd[p]] = [File({}) EXCEPT !.last = Junk]]
  /\ EndCommand(p)
  /\ UNCHANGED <<inodes, path, tmp, server, created, revoked, written, overtaken, cut>>

\* The rename replaces the file; without a path.tmp it fails.
CliRename(p) ==
  /\ cli[p] = "wrote"
  /\ tmp # None
  /\ path' = tmp
  /\ tmp' = None
  /\ Report(p)
  /\ EndCommand(p)
  /\ UNCHANGED <<content, inodes, server, written, overtaken, cut>>

\* Mutation: the error of the rename is dropped.
CliRenameErrorIgnored(p) ==
  /\ cli[p] = "wrote"
  /\ Report(p)
  /\ EndCommand(p)
  /\ UNCHANGED <<disk, server, written, overtaken, cut>>

\* The rename fails, or the process is killed at any step.
CliStops(p) ==
  /\ cli[p] # "idle"
  /\ EndCommand(p)
  /\ UNCHANGED <<disk, server, created, revoked, written, overtaken, cut>>

-----------------------------------------------------------------------------
Next ==
  \/ \E r \in Registration :
       \/ OpenAppend(r) \/ RefuseRegistration(r) \/ Acknowledge(r) \/ SyncFails(r)
       \/ \E extent \in Extent : WriteRecord(r, extent)
  \/ ReloadRead \/ ReloadSwap
  \/ Crash \/ Start
  \/ \E p \in Cli :
       \/ \E op \in {"create", "revoke"}, c \in Id : CliRead(p, op, c)
       \/ TmpOpen(p) \/ TmpWrite(p) \/ TmpWriteFails(p) \/ CliRename(p) \/ CliStops(p)

Spec == Init /\ [][Next]_vars

-----------------------------------------------------------------------------
(* Properties *)

Current == content[path]

Acked == {r \in Registration : reg[r] = "acked"}

\* With one operator, no crash and no failure of the command line leaves a file that
\* the server cannot load: only an append of the server that was cut short can.
RewriteIsAtomic == cut \/ Parses(Current)

\* A command that reported success is not undone by anything but a later command:
\* a created client stays in the file and a revoked one stays out, through appends,
\* crashes and failures in between.
CommandsLast ==
  /\ created \subseteq Records(Current)
  /\ revoked \intersect Records(Current) = {}

\* An acknowledged registration leaves the file in two ways only: by a revoke, or by
\* a rewrite that was under way when it was appended, which appending was to rule out
\* (oauth2.go: "avoids a read-rewrite race with the CLI's writeOAuthClients").  A file
\* that does not parse hides it, but then nothing loads.
LostOnlyToRewrite ==
  \A r \in Acked :
    r \in Records(Current) \/ r \in revoked \/ ~ Parses(Current) \/ r \in overtaken

\* The server knows no client that no write has put on disk, whatever failed.
ClientsWereWritten == clients \subseteq written
=============================================================================
