------------------------------ MODULE WritePath ------------------------------
(***************************************************************************)
(* pf_poke mode:direct, from the handler to the disk: the gates that a     *)
(* request passes, and FilesystemWriter.Append by goroutines of several    *)
(* processes that share the files.  Each process (a server, a command      *)
(* line) has a writer of its own, with its mutex; flock is between all of  *)
(* them and a foreign program that honours it, such as an editor.          *)
(* Processes are killed and the host loses power at any time.              *)
(***************************************************************************)
EXTENDS Naturals, FiniteSets, Sequences

CONSTANTS
  Write,                  \* direct writes a behaviour may make
  Proc,                   \* pagefault processes on the host
  Server,                 \* the only one that writes when file_locking is none
  Uri,                    \* URIs whose scheme a writable backend owns
  Shared,                 \* those of files that a foreign program writes to as well
  Included,               \* those that its include and exclude globs let pass
  WritePaths,             \* those that match write_paths; none: no restriction
  Allow, Deny,            \* those that match filters.path.allow and .deny
  WriteAllow, WriteDeny,  \* those that match .write_allow and .write_deny
  WriteMode               \* write_mode

Foreign == "foreign"

ASSUME WritePathAssumption ==
  /\ Server \in Proc
  /\ Foreign \notin Write
  /\ UNION {Shared, Included, WritePaths, Allow, Deny, WriteAllow, WriteDeny} \subseteq Uri
  /\ WriteMode \in {"append", "any"}

VARIABLES
  locking,        \* file_locking, the same in every process
  pc,             \* pc[w]: where the write is
  uri,            \* uri[w]: what it writes to
  home,           \* home[w]: the process it runs in
  mutex,          \* mutex[p]: who is in p's writer, a set
  data,           \* data[u]: the pieces in the file at u, as readers see it
  synced,         \* synced[u]: how many of them are on the disk for certain
  flock,          \* flock[u]: who holds the lock of the file, a set
  foreign,        \* foreign[u]: pieces of its text the foreign program has written
  answer          \* answer[w]: what Append or a gate has decided to return

files == <<data, synced, flock, foreign>>
vars == <<locking, pc, uri, home, mutex, files, answer>>

\* A text reaches the file in pieces: one write(2) may take any number of them.
Pieces == 2
Text(w) == [k \in 1..Pieces |-> <<w, k>>]

InAppend == {"entered", "opened", "writing", "closing", "leaving"}

TypeOK ==
  /\ locking \in {"flock", "none"}
  /\ pc \in [Write -> {"idle", "admitted", "returned", "killed"} \union InAppend]
  /\ uri \in [Write -> Uri] /\ home \in [Write -> Proc]
  /\ \A p \in Proc : mutex[p] \subseteq Write /\ Cardinality(mutex[p]) <= 1
  /\ \A u \in Uri :
       /\ data[u] \in Seq((Write \union {Foreign}) \X (1..Pieces))
       /\ synced[u] \in 0..Len(data[u])
       /\ flock[u] \subseteq Write \union {Foreign} /\ Cardinality(flock[u]) <= 1
       /\ foreign[u] \in 0..Pieces
  /\ answer \in [Write -> {"none", "refused", "failed", "written"}]

Init ==
  /\ locking \in {"flock", "none"}
  /\ pc = [w \in Write |-> "idle"]
  /\ uri \in [Write -> Uri]
  /\ home \in [Write -> IF locking = "none" THEN {Server} ELSE Proc]
  /\ mutex = [p \in Proc |-> {}]
  /\ data = [u \in Uri |-> <<>>]
  /\ synced = [u \in Uri |-> 0]
  /\ flock = [u \in Uri |-> {}]
  /\ foreign = [u \in Uri |-> IF locking = "flock" /\ u \in Shared THEN 0 ELSE Pieces]
  /\ answer = [w \in Write |-> "none"]

Goto(w, place) == pc' = [pc EXCEPT ![w] = place]
Answer(w, what) == answer' = [answer EXCEPT ![w] = what]

-----------------------------------------------------------------------------
(* The gates *)

MatchGlobs(u, allow, deny) == u \notin deny /\ (allow = {} \/ u \in allow)

\* Write globs, once there are any, replace the read globs.
AllowWriteURI(u) ==
  IF WriteAllow = {} /\ WriteDeny = {} THEN MatchGlobs(u, Allow, Deny)
  ELSE MatchGlobs(u, WriteAllow, WriteDeny)

\* Mutation: once there is a write_paths list, the read globs are forgotten.
BackendAcceptsWritePaths(u) == IF WritePaths = {} THEN u \in Included ELSE u \in WritePaths

\* FilesystemBackend.Write: the read globs and then write_paths.
BackendAccepts(u) == u \in Included /\ (WritePaths = {} \/ u \in WritePaths)

\* max_entry_size is held against the raw content, and raw needs write_mode any.
RequestAccepted(format, fits) == fits /\ (format = "entry" \/ WriteMode = "any")

Accepted(u, format, fits) ==
  RequestAccepted(format, fits) /\ AllowWriteURI(u) /\ BackendAccepts(u)

Admit(w) ==
  /\ pc[w] = "idle"
  /\ \E format \in {"entry", "raw"}, fits \in BOOLEAN : Accepted(uri[w], format, fits)
  /\ Goto(w, "admitted")
  /\ UNCHANGED <<locking, uri, home, mutex, files, answer>>

\* One of the gates, an empty content or a bad mode; or the caller has gone by the
\* time Append looks at its context.
Refuse(w) ==
  /\ pc[w] \in {"idle", "admitted"}
  /\ Goto(w, "returned")
  /\ Answer(w, "refused")
  /\ UNCHANGED <<locking, uri, home, mutex, files>>

-----------------------------------------------------------------------------
(* FilesystemWriter.Append *)

\* One mutex for all the files of the writer; from here the context is not looked at.
Enter(w) ==
  /\ pc[w] = "admitted"
  /\ mutex[home[w]] = {}
  /\ mutex' = [mutex EXCEPT ![home[w]] = {w}]
  /\ Goto(w, "entered")
  /\ UNCHANGED <<locking, uri, home, files, answer>>

\* MkdirAll and OpenFile; O_CREATE makes an empty file, which data has from the start.
Open(w) ==
  /\ pc[w] = "entered"
  /\ \/ Goto(w, "opened") /\ UNCHANGED answer
     \/ Goto(w, "leaving") /\ Answer(w, "failed")
  /\ UNCHANGED <<locking, uri, home, mutex, files>>

\* Mutation: flock(2) is asked not to wait, and its answer is not looked at.
TakeLockNonBlocking(w) ==
  /\ pc[w] = "opened"
  /\ flock' = [flock EXCEPT ![uri[w]] =
                 IF locking = "flock" /\ @ = {} THEN {w} ELSE @]
  /\ Goto(w, "writing")
  /\ UNCHANGED <<locking, uri, home, mutex, data, synced, foreign, answer>>

\* Append waits for the exclusive lock with the mutex held.
TakeLock(w) ==
  /\ pc[w] = "opened"
  /\ locking = "flock" => flock[uri[w]] = {}
  /\ flock' = [flock EXCEPT ![uri[w]] = IF locking = "flock" THEN {w} ELSE @]
  /\ Goto(w, "writing")
  /\ UNCHANGED <<locking, uri, home, mutex, data, synced, foreign, answer>>

LockFails(w) ==
  /\ pc[w] = "opened" /\ locking = "flock"
  /\ Goto(w, "leaving")
  /\ Answer(w, "failed")
  /\ UNCHANGED <<locking, uri, home, mutex, files>>

Put(w) == Cardinality({i \in DOMAIN data[uri[w]] : data[uri[w]][i][1] = w})

\* WriteString calls write(2) until everything is written; the file has O_APPEND.
WritePiece(w) ==
  /\ pc[w] = "writing" /\ Put(w) < Pieces
  /\ \E n \in Put(w) + 1..Pieces :
       data' = [data EXCEPT ![uri[w]] = @ \o SubSeq(Text(w), Put(w) + 1, n)]
  /\ UNCHANGED <<locking, pc, uri, home, mutex, synced, flock, foreign, answer>>

WriteFails(w) ==
  /\ pc[w] = "writing" /\ Put(w) < Pieces
  /\ Goto(w, "closing")
  /\ Answer(w, "failed")
  /\ UNCHANGED <<locking, uri, home, mutex, files>>

\* Mutation: the file is not synced.
SyncSkipped(w) ==
  /\ pc[w] = "writing" /\ Put(w) = Pieces
  /\ Goto(w, "closing")
  /\ Answer(w, "written")
  /\ UNCHANGED <<locking, uri, home, mutex, files>>

Sync(w) ==
  /\ pc[w] = "writing" /\ Put(w) = Pieces
  /\ synced' = [synced EXCEPT ![uri[w]] = Len(data[uri[w]])]
  /\ Goto(w, "closing")
  /\ Answer(w, "written")
  /\ UNCHANGED <<locking, uri, home, mutex, data, flock, foreign>>

SyncFails(w) ==
  /\ pc[w] = "writing" /\ Put(w) = Pieces
  /\ Goto(w, "closing")
  /\ Answer(w, "failed")
  /\ UNCHANGED <<locking, uri, home, mutex, files>>

\* The deferred unlock and Close.
Release(w) ==
  /\ pc[w] = "closing"
  /\ flock' = [flock EXCEPT ![uri[w]] = @ \ {w}]
  /\ Goto(w, "leaving")
  /\ UNCHANGED <<locking, uri, home, mutex, data, synced, foreign, answer>>

\* Mutation: the mutex is given back on the way out of a success only.
LeaveOnSuccess(w) ==
  /\ pc[w] = "leaving"
  /\ mutex' = [mutex EXCEPT ![home[w]] = IF answer[w] = "written" THEN {} ELSE @]
  /\ Goto(w, "returned")
  /\ UNCHANGED <<locking, uri, home, files, answer>>

\* The deferred unlock of the mutex.
Leave(w) ==
  /\ pc[w] = "leaving"
  /\ mutex' = [mutex EXCEPT ![home[w]] = @ \ {w}]
  /\ Goto(w, "returned")
  /\ UNCHANGED <<locking, uri, home, files, answer>>

-----------------------------------------------------------------------------
(* The environment *)

ForeignLock(u) ==
  /\ locking = "flock" /\ flock[u] = {}
  /\ flock' = [flock EXCEPT ![u] = {Foreign}]
  /\ UNCHANGED <<locking, pc, uri, home, mutex, data, synced, foreign, answer>>

ForeignWrite(u) ==
  /\ Foreign \in flock[u] /\ foreign[u] < Pieces
  /\ foreign' = [foreign EXCEPT ![u] = @ + 1]
  /\ data' = [data EXCEPT ![u] = Append(@, <<Foreign, foreign'[u]>>)]
  /\ UNCHANGED <<locking, pc, uri, home, mutex, synced, flock, answer>>

\* Not in the middle of its text.
ForeignUnlock(u) ==
  /\ Foreign \in flock[u] /\ foreign[u] \in {0, Pieces}
  /\ flock' = [flock EXCEPT ![u] = {}]
  /\ UNCHANGED <<locking, pc, uri, home, mutex, data, synced, foreign, answer>>

\* The kernel closes the descriptors of killed processes, and their locks go.  They
\* may be started again at once; one that is not does what an idle one does.
Die(killed) ==
  /\ pc' = [w \in Write |-> IF home[w] \in killed /\ pc[w] \notin {"idle", "returned"}
                            THEN "killed" ELSE pc[w]]
  /\ mutex' = [p \in Proc |-> IF p \in killed THEN {} ELSE mutex[p]]

Kill(p) ==
  /\ \E w \in Write : home[w] = p /\ pc[w] \notin {"idle", "returned", "killed"}
  /\ Die({p})
  /\ flock' = [u \in Uri |-> {h \in flock[u] : h = Foreign \/ home[h] # p}]
  /\ UNCHANGED <<locking, uri, home, data, synced, foreign, answer>>

\* What was not synced may be lost; the foreign program does not come back.
PowerLoss ==
  /\ Die(Proc)
  /\ \E kept \in [Uri -> 0..(Cardinality(Write) + 1) * Pieces] :
       /\ \A u \in Uri : kept[u] \in synced[u]..Len(data[u])
       /\ data' = [u \in Uri |-> SubSeq(data[u], 1, kept[u])]
       /\ synced' = kept
  /\ flock' = [u \in Uri |-> {}]
  /\ foreign' = [u \in Uri |-> Pieces]
  /\ UNCHANGED <<locking, uri, home, answer>>

Step(w) ==
  \/ Enter(w) \/ Open(w) \/ TakeLock(w) \/ LockFails(w)
  \/ WritePiece(w) \/ WriteFails(w) \/ Sync(w) \/ SyncFails(w)
  \/ Release(w) \/ Leave(w)

Next ==
  \/ \E w \in Write : Admit(w) \/ Refuse(w) \/ Step(w)
  \/ \E u \in Shared : ForeignLock(u) \/ ForeignWrite(u) \/ ForeignUnlock(u)
  \/ \E p \in Proc : Kill(p)
  \/ PowerLoss

\* Go's mutex hands itself to a waiter that starves, and flock(2) is assumed not to
\* pass the same waiter over for ever: strong fairness.  The foreign program is
\* assumed to give its lock back.
Fairness ==
  /\ \A w \in Write : SF_vars(Enter(w)) /\ SF_vars(TakeLock(w)) /\ WF_vars(Step(w))
  /\ \A u \in Shared : WF_vars(ForeignWrite(u) \/ ForeignUnlock(u))

Spec == Init /\ [][Next]_vars /\ Fairness

-----------------------------------------------------------------------------
(* Properties *)

Authors(u) == {data[u][i][1] : i \in DOMAIN data[u]}

\* What pf_poke calls written is in the file, whole and in one piece, and stays
\* there: across other writers, failed writes, killed processes and power cuts.
WrittenStaysWhole ==
  \A w \in Write : pc[w] = "returned" /\ answer[w] = "written" =>
    \E i \in DOMAIN data[uri[w]] :
      /\ i + Pieces - 1 \in DOMAIN data[uri[w]]
      /\ SubSeq(data[uri[w]], i, i + Pieces - 1) = Text(w)

\* No text is split by another's, be it an entry of this process or of another, one
\* that fails or is killed half way, or the text of a program that takes the lock.
NoTextIsSplit ==
  \A u \in Uri : \A i, j, k \in DOMAIN data[u] :
    i < j /\ j < k /\ data[u][i][1] = data[u][k][1] => data[u][j][1] = data[u][i][1]

\* Writes never create a file that the backend would refuse to read back, whatever
\* write_paths and the write filter say, and a refused write leaves nothing.
FilesAreReadable ==
  \A u \in Uri :
    /\ Authors(u) \ {Foreign} # {} => u \in Included
    /\ \A w \in Authors(u) \ {Foreign} : answer[w] # "refused"

\* A write that has come as far as the writer returns, although every write of the
\* process waits for one mutex whose holder may wait for a lock of any program.
WritesReturn ==
  \A w \in Write : pc[w] = "admitted" ~> pc[w] \in {"returned", "killed"}
=============================================================================
