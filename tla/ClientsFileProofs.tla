-------------------------- MODULE ClientsFileProofs --------------------------
(***************************************************************************)
(* The safety of ClientsFile: for every set of registrations and commands,  *)
(* what holds with any number of operators at once, and what the rewrite    *)
(* through path.tmp gives as long as there is one.                          *)
(***************************************************************************)
EXTENDS ClientsFile, FiniteSetTheorems, TLAPS

Command == [op : {"create", "revoke"}, id : Id]

-----------------------------------------------------------------------------
(* The inductive invariant, with any number of operators *)

\* A descriptor that will be written to is open on a file that exists, and the
\* server's never on path.tmp: only a name that was the path's is ever opened by it.
Descriptors ==
  /\ \A r \in Registration :
       reg[r] = "opened" => regFd[r] \in 0..(inodes - 1) /\ regFd[r] # tmp
  /\ \A p \in Cli :
       /\ cli[p] \in {"opened", "wrote"} => cliFd[p] \in 0..(inodes - 1)
       /\ cli[p] # "idle" => cmd[p] \in Command /\ commands[p] > 0

\* Every inode but the first was made by a command that opened path.tmp, and no
\* command opens it twice: so they suffice.
Slot == Cli \X (1..MaxCommands)

PastOpening(p) == IF cli[p] = "read" THEN commands[p] - 1 ELSE commands[p]

MadeBy(f) ==
  /\ f \in Injection(1..(inodes - 1), Slot)
  /\ \A i \in 1..(inodes - 1) : f[i][2] <= PastOpening(f[i][1])

Allocated == \E f : MadeBy(f)

\* Whatever is in a file, read from one or about to be acknowledged was written.
OnDisk ==
  /\ \A i \in Inode : Records(content[i]) \subseteq written
  /\ reload # None => reload \subseteq written
  /\ \A r \in Registration : reg[r] = "written" => r \in written

IInv ==
  /\ TypeOK
  /\ Descriptors
  /\ Allocated
  /\ OnDisk
  /\ ClientsWereWritten

-----------------------------------------------------------------------------
(* Inodes *)

LEMMA InodeIsBounded ==
  /\ MaxCommands * Cardinality(Cli) \in Nat
  /\ Cardinality(Inode) = MaxCommands * Cardinality(Cli) + 1
  /\ IsFiniteSet(Slot) /\ Cardinality(Slot) = MaxCommands * Cardinality(Cli)
<1>1. Cardinality(Cli) \in Nat
  BY FS_CardinalityType, ClientsFileAssumption
<1>2. MaxCommands * Cardinality(Cli) \in Nat
  BY <1>1, ClientsFileAssumption
<1>3. Cardinality(0..(MaxCommands * Cardinality(Cli))) = MaxCommands * Cardinality(Cli) + 1
  <2>1. 0 \in Int /\ MaxCommands * Cardinality(Cli) \in Int
    BY <1>2
  <2>2. Cardinality(0..(MaxCommands * Cardinality(Cli)))
          = IF 0 > MaxCommands * Cardinality(Cli) THEN 0
            ELSE MaxCommands * Cardinality(Cli) - 0 + 1
    BY <2>1, FS_Interval
  <2> QED
    BY <1>2, <2>2
<1>4. IsFiniteSet(1..MaxCommands) /\ Cardinality(1..MaxCommands) = MaxCommands
  BY FS_Interval, ClientsFileAssumption
<1>5. /\ IsFiniteSet(Cli \X (1..MaxCommands))
      /\ Cardinality(Cli \X (1..MaxCommands)) = Cardinality(Cli) * Cardinality(1..MaxCommands)
  BY FS_Product, <1>4, ClientsFileAssumption
<1> QED
  BY <1>1, <1>2, <1>3, <1>4, <1>5, ClientsFileAssumption DEF Inode, Slot

\* A function into the slots that is one to one says how many inodes there are at most.
LEMMA InjectionBounds ==
  ASSUME NEW n \in Nat, NEW f \in Injection(1..n, Slot)
  PROVE  n <= MaxCommands * Cardinality(Cli)
<1>1. Cardinality(1..n) <= Cardinality(Slot)
  BY FS_Injection, InodeIsBounded
<1>2. Cardinality(1..n) = n
  BY FS_Interval
<1> QED
  BY <1>1, <1>2, InodeIsBounded

\* A step that makes no inode and sends no command back keeps the account.
LEMMA AllocatedStays ==
  ASSUME TypeOK, Allocated, inodes' = inodes,
         \A p \in Cli : PastOpening(p) <= PastOpening(p)',
         \A p \in Cli : PastOpening(p)' \in Int
  PROVE  Allocated'
<1>1. PICK f : MadeBy(f)
  BY DEF Allocated
<1>2. f \in [1..(inodes - 1) -> Slot]
  BY <1>1 DEF MadeBy, Injection
<1>3. ASSUME NEW i \in 1..(inodes - 1)
      PROVE  f[i][2] <= PastOpening(f[i][1])'
  <2>1. f[i][1] \in Cli /\ f[i][2] \in 1..MaxCommands
    BY <1>2 DEF Slot
  <2>2. PastOpening(f[i][1]) \in Int
    BY <2>1 DEF TypeOK, PastOpening
  <2>3. f[i][2] <= PastOpening(f[i][1])
    BY <1>1 DEF MadeBy
  <2> DEFINE q == f[i][1]
  <2>4. PastOpening(q) <= PastOpening(q)' /\ PastOpening(q)' \in Int
    BY <2>1
  <2> QED
    BY <2>1, <2>2, <2>3, <2>4
<1>4. MadeBy(f)'
  BY <1>1, <1>3 DEF MadeBy
<1> QED
  BY <1>4 DEF Allocated

\* A command that opens path.tmp finds an inode for it.
LEMMA RoomForTmp ==
  ASSUME TypeOK, Allocated, Descriptors, NEW p \in Cli, cli[p] = "read",
         inodes' = inodes + 1, commands' = commands, cli' = [cli EXCEPT ![p] = "opened"]
  PROVE  Allocated' /\ inodes \in Inode /\ inodes' \in 1..Cardinality(Inode)
<1>1. PICK f : MadeBy(f)
  BY DEF Allocated
<1>2. f \in [1..(inodes - 1) -> Slot] /\ inodes \in Nat \ {0}
  <2>1. f \in [1..(inodes - 1) -> Slot]
    BY <1>1 DEF MadeBy, Injection
  <2>2. inodes \in Nat \ {0}
    BY InodeIsBounded DEF TypeOK
  <2> QED
    BY <2>1, <2>2
<1>3. commands[p] \in 1..MaxCommands
  BY ClientsFileAssumption DEF TypeOK, Descriptors
<1>0. PICK g : g = [i \in 1..inodes |-> IF i = inodes THEN <<p, commands[p]>> ELSE f[i]]
  OBVIOUS
<1>4. g \in [1..inodes -> Slot]
  BY <1>0, <1>2, <1>3 DEF Slot
<1>5. ASSUME NEW i \in 1..(inodes - 1)
      PROVE  f[i][1] \in Cli /\ f[i][2] \in 1..MaxCommands /\ f[i][2] <= PastOpening(f[i][1])
  <2>1. f[i] \in Slot /\ f[i][2] <= PastOpening(f[i][1])
    BY <1>1, <1>2 DEF MadeBy
  <2> QED
    BY <2>1 DEF Slot
<1>6. ASSUME NEW i \in 1..(inodes - 1)
      PROVE  f[i] # <<p, commands[p]>>
  <2> SUFFICES ASSUME f[i] = <<p, commands[p]>>
               PROVE  FALSE
    OBVIOUS
  <2>1. PastOpening(p) = commands[p] - 1
    BY DEF PastOpening
  <2> QED
    BY <1>3, <1>5, <2>1
<1>7. \A i, j \in 1..(inodes - 1) : f[i] = f[j] => i = j
  BY <1>1 DEF MadeBy, Injection, IsInjective
<1>8. \A i, j \in 1..inodes : g[i] = g[j] => i = j
  <2> SUFFICES ASSUME NEW i \in 1..inodes, NEW j \in 1..inodes, g[i] = g[j]
               PROVE  i = j
    OBVIOUS
  <2>1. CASE i = inodes /\ j = inodes
    BY <2>1
  <2>2. CASE i = inodes /\ j # inodes
    BY <2>2, <1>0, <1>2, <1>6
  <2>3. CASE i # inodes /\ j = inodes
    BY <2>3, <1>0, <1>2, <1>6
  <2>4. CASE i # inodes /\ j # inodes
    BY <2>4, <1>0, <1>2, <1>7
  <2> QED
    BY <2>1, <2>2, <2>3, <2>4
<1>9. g \in Injection(1..inodes, Slot)
  BY <1>4, <1>8 DEF Injection, IsInjective
<1>10. inodes <= MaxCommands * Cardinality(Cli)
  BY <1>2, <1>9, InjectionBounds
<1>11. ASSUME NEW i \in 1..inodes
       PROVE  g[i][2] <= PastOpening(g[i][1])'
  <2>1. CASE i = inodes
    <3>1. g[i] = <<p, commands[p]>>
      BY <2>1, <1>0, <1>2
    <3>2. PastOpening(p)' = commands[p]
      BY DEF PastOpening, TypeOK
    <3> QED
      BY <3>1, <3>2, <1>3
  <2>2. CASE i # inodes
    <3>1. i \in 1..(inodes - 1) /\ g[i] = f[i]
      BY <2>2, <1>0, <1>2
    <3> DEFINE q == f[i][1]
    <3>2. q \in Cli /\ f[i][2] <= PastOpening(q) /\ f[i][2] \in Nat
      BY <3>1, <1>5
    <3>3. PastOpening(q) <= PastOpening(q)' /\ PastOpening(q) \in Int /\ PastOpening(q)' \in Int
      BY <3>2 DEF PastOpening, TypeOK
    <3> QED
      BY <3>1, <3>2, <3>3
  <2> QED
    BY <2>1, <2>2
<1>12. MadeBy(g)'
  <2>1. (inodes - 1)' = inodes
    BY <1>2
  <2> QED
    BY <1>9, <1>11, <2>1 DEF MadeBy
<1>13. inodes \in Inode /\ inodes + 1 \in 1..Cardinality(Inode)
  BY <1>2, <1>10, InodeIsBounded DEF Inode
<1> QED
  BY <1>12, <1>13 DEF Allocated

-----------------------------------------------------------------------------
(* Files *)

\* An append adds one record at most, and never the one that it runs into.
LEMMA AppendRecords ==
  ASSUME NEW f \in Content, NEW r \in Id, NEW extent \in Extent
  PROVE  /\ Append(f, r, extent) \in Content
         /\ Records(Append(f, r, extent)) \subseteq
              Records(f) \union (IF extent \in {"all", "unterminated"} THEN {r} ELSE {})
BY ClientsFileAssumption DEF Append, Content, Records, Extent, Id

LEMMA FileIsRecords ==
  ASSUME NEW ids \in SUBSET Id
  PROVE  File(ids) \in Content /\ Records(File(ids)) = ids /\ Parses(File(ids))
BY ClientsFileAssumption DEF File, Content, Records, Parses

LEMMA RecordsAreIds ==
  ASSUME NEW f \in Content
  PROVE  Records(f) \subseteq Id
BY DEF Content, Records

\* Whatever a write at offset 0 leaves, its records are those that were written.
LEMMA OverwriteRecords ==
  ASSUME NEW old, NEW ids \in SUBSET Id, NEW f \in Overwrites(old, ids)
  PROVE  f \in Content /\ Records(f) = ids
<1>1. f = File(ids) \/ f = [File(ids) EXCEPT !.bad = TRUE]
  <2>1. CASE old = File({})
    BY <2>1 DEF Overwrites
  <2>2. CASE old # File({})
    BY <2>2 DEF Overwrites
  <2> QED
    BY <2>1, <2>2
<1>2. PICK bad \in BOOLEAN : f = [ids |-> ids, last |-> NoLine, bad |-> bad]
  BY <1>1 DEF File
<1> QED
  BY <1>2, ClientsFileAssumption DEF Records, Content

LEMMA HalfAFile ==
  [File({}) EXCEPT !.last = Junk] \in Content /\ Records([File({}) EXCEPT !.last = Junk]) = {}
BY ClientsFileAssumption DEF File, Content, Records

\* The inode of a name, and of a descriptor, is an inode.
LEMMA NamedInodes ==
  ASSUME TypeOK, Descriptors
  PROVE  /\ inodes \in Nat \ {0}
         /\ 0..(inodes - 1) \subseteq Inode
         /\ path \in Inode /\ path # tmp
         /\ tmp # None => tmp \in Inode /\ tmp # path
         /\ \A r \in Registration : reg[r] = "opened" => regFd[r] \in Inode
         /\ \A p \in Cli : cli[p] \in {"opened", "wrote"} => cliFd[p] \in Inode
<1>1. inodes \in Nat \ {0} /\ inodes <= MaxCommands * Cardinality(Cli) + 1
  BY InodeIsBounded DEF TypeOK
<1>2. 0..(inodes - 1) \subseteq Inode
  BY <1>1, InodeIsBounded DEF Inode
<1>3. path # tmp
  BY <1>1, <1>2, ClientsFileAssumption DEF TypeOK
<1> QED
  BY <1>1, <1>2, <1>3 DEF TypeOK, Descriptors

-----------------------------------------------------------------------------
(* The steps of the server *)

LEMMA InitHolds == Init => IInv
<1> SUFFICES ASSUME Init
             PROVE  IInv
  OBVIOUS
<1>1. Initial \subseteq Id /\ 0 \in Inode /\ 1 \in 1..Cardinality(Inode)
  BY InodeIsBounded DEF Id, Inode
<1>2. File(Initial) \in Content /\ Records(File(Initial)) = Initial
  BY <1>1, FileIsRecords
<1>3. File({}) \in Content /\ Records(File({})) = {}
  BY FileIsRecords
<1>4. TypeOK
  <2>1. content \in [Inode -> Content]
    BY <1>2, <1>3 DEF Init
  <2>2. inodes \in 1..Cardinality(Inode) /\ path \in 0..(inodes - 1)
    BY <1>1 DEF Init
  <2>3. commands \in [Cli -> 0..MaxCommands]
    BY ClientsFileAssumption DEF Init
  <2>4. /\ tmp = None /\ up \in BOOLEAN /\ reload = None /\ cut \in BOOLEAN
        /\ clients \subseteq Id /\ created \subseteq Id /\ revoked \subseteq Id /\ written \subseteq Id
        /\ overtaken \subseteq Registration
    BY <1>1 DEF Init
  <2>5. /\ reg \in [Registration -> {"new", "opened", "written", "acked", "failed"}]
        /\ regFd \in [Registration -> Inode \union {None}]
    BY DEF Init
  <2>6. /\ cli \in [Cli -> {"idle", "read", "opened", "wrote"}]
        /\ cmd \in [Cli -> [op : {"create", "revoke"}, id : Id] \union {None}]
        /\ recs \in [Cli -> SUBSET Id]
        /\ cliFd \in [Cli -> Inode \union {None}]
    BY DEF Init
  <2> QED
    BY <2>1, <2>2, <2>3, <2>4, <2>5, <2>6 DEF TypeOK
<1>5. Descriptors
  BY DEF Init, Descriptors
<1>6. Allocated
  <2>1. MadeBy(<<>>)
    <3>1. 1..(inodes - 1) = {}
      BY DEF Init
    <3>2. [i \in {} |-> i] \in Injection(1..(inodes - 1), Slot)
      BY <3>1 DEF Injection, IsInjective
    <3>3. MadeBy([i \in {} |-> i])
      BY <3>1, <3>2 DEF MadeBy
    <3> QED
      BY <3>3
  <2> QED
    BY <2>1 DEF Allocated
<1>7. OnDisk
  <2>1. \A i \in Inode : Records(content[i]) \subseteq written
    BY <1>2, <1>3 DEF Init
  <2> QED
    BY <2>1 DEF Init, OnDisk
<1>8. ClientsWereWritten
  BY DEF Init, ClientsWereWritten
<1> QED
  BY <1>4, <1>5, <1>6, <1>7, <1>8 DEF IInv

\* Steps of the server move no command and make no inode.
LEMMA ServerLeavesInodes ==
  ASSUME Allocated, UNCHANGED <<inodes, cli, commands>>
  PROVE  Allocated'
BY DEF Allocated, MadeBy, PastOpening

LEMMA OpenAppendHolds ==
  ASSUME IInv, NEW r \in Registration, OpenAppend(r)
  PROVE  IInv'
<1>1. path \in Inode /\ path # tmp
  BY NamedInodes DEF IInv
<1>2. TypeOK'
  <2>1. reg' \in [Registration -> {"new", "opened", "written", "acked", "failed"}]
    BY DEF IInv, TypeOK, OpenAppend
  <2>2. regFd' \in [Registration -> Inode \union {None}]
    BY <1>1 DEF IInv, TypeOK, OpenAppend
  <2>3. UNCHANGED <<content, inodes, path, tmp, up, clients, reload, cli, cmd, recs, cliFd,
                    commands, created, revoked, written, overtaken, cut>>
    BY DEF OpenAppend, disk, operator
  <2>4. TypeOK
    BY DEF IInv
  <2> QED
    BY <2>1, <2>2, <2>3, <2>4 DEF TypeOK
<1>3. Descriptors'
  BY <1>1 DEF IInv, TypeOK, Descriptors, OpenAppend, disk, operator
<1>4. Allocated'
  BY ServerLeavesInodes DEF IInv, OpenAppend, disk, operator
<1>5. OnDisk' /\ ClientsWereWritten'
  BY DEF IInv, TypeOK, OnDisk, ClientsWereWritten, OpenAppend, disk, operator
<1> QED
  BY <1>2, <1>3, <1>4, <1>5 DEF IInv

LEMMA WriteRecordHolds ==
  ASSUME IInv, NEW r \in Registration, NEW extent \in Extent, WriteRecord(r, extent)
  PROVE  IInv'
<1> DEFINE i == regFd[r]
<1>1. i \in Inode /\ content \in [Inode -> Content] /\ r \in Id
  BY NamedInodes DEF IInv, TypeOK, WriteRecord, Id
<1>2. /\ content' = [content EXCEPT ![i] = Append(content[i], r, extent)]
      /\ Append(content[i], r, extent) \in Content
  BY <1>1, AppendRecords DEF WriteRecord
<1>3. content' \in [Inode -> Content]
  BY <1>1, <1>2
<1>4. TypeOK'
  BY <1>1, <1>3 DEF IInv, TypeOK, WriteRecord, operator
<1>5. Descriptors'
  BY DEF IInv, TypeOK, Descriptors, WriteRecord, operator
<1>6. Allocated'
  BY ServerLeavesInodes DEF IInv, WriteRecord, operator
<1>7. written \subseteq written' /\ (extent \in {"all", "unterminated"} => r \in written')
  BY DEF WriteRecord
<1>8. ASSUME NEW j \in Inode
      PROVE  Records(content'[j]) \subseteq written'
  <2>1. Records(content[j]) \subseteq written
    BY DEF IInv, OnDisk
  <2>2. CASE j = i
    <3>1. content'[j] = Append(content[j], r, extent)
      BY <1>1, <1>2, <2>2
    <3>2. Records(Append(content[j], r, extent)) \subseteq
            Records(content[j]) \union (IF extent \in {"all", "unterminated"} THEN {r} ELSE {})
      BY <1>1, AppendRecords
    <3> QED
      BY <3>1, <3>2, <2>1, <1>7
  <2>3. CASE j # i
    BY <1>1, <1>2, <1>7, <2>1, <2>3
  <2> QED
    BY <2>2, <2>3
<1>9. OnDisk'
  <2>1. (reload # None => reload \subseteq written)'
    BY <1>7 DEF IInv, OnDisk, WriteRecord
  <2>2. ASSUME NEW q \in Registration, reg'[q] = "written"
        PROVE  q \in written'
    BY <2>2, <1>7 DEF IInv, TypeOK, OnDisk, WriteRecord
  <2> QED
    BY <1>8, <2>1, <2>2 DEF OnDisk
<1>10. ClientsWereWritten'
  BY <1>7 DEF IInv, ClientsWereWritten, WriteRecord
<1> QED
  BY <1>4, <1>5, <1>6, <1>9, <1>10 DEF IInv

\* The steps of a registration that touch no file.
LEMMA AnswerHolds ==
  ASSUME IInv, NEW r \in Registration,
         RefuseRegistration(r) \/ Acknowledge(r) \/ SyncFails(r)
  PROVE  IInv'
<1>1. TypeOK'
  BY DEF IInv, TypeOK, RefuseRegistration, Acknowledge, SyncFails, disk, operator, Id
<1>2. Descriptors'
  BY DEF IInv, TypeOK, Descriptors, RefuseRegistration, Acknowledge, SyncFails, disk, operator
<1>3. Allocated'
  BY ServerLeavesInodes
     DEF IInv, RefuseRegistration, Acknowledge, SyncFails, disk, operator
<1>4. OnDisk'
  BY DEF IInv, TypeOK, OnDisk, RefuseRegistration, Acknowledge, SyncFails, disk
<1>5. ClientsWereWritten'
  BY DEF IInv, TypeOK, OnDisk, ClientsWereWritten, RefuseRegistration, Acknowledge, SyncFails
<1> QED
  BY <1>1, <1>2, <1>3, <1>4, <1>5 DEF IInv

\* Reading the file, putting what was read in place, crashing and starting again.
LEMMA ReloadHolds ==
  ASSUME IInv, ReloadRead \/ ReloadSwap \/ Crash \/ Start
  PROVE  IInv'
<1>1. path \in Inode /\ content[path] \in Content
  BY NamedInodes DEF IInv, TypeOK
<1>2. Records(content[path]) \subseteq Id /\ Records(content[path]) \subseteq written
  BY <1>1, RecordsAreIds DEF IInv, OnDisk
<1>3. TypeOK'
  BY <1>2 DEF IInv, TypeOK, ReloadRead, ReloadSwap, Crash, Start, disk, operator
<1>4. Descriptors'
  BY DEF IInv, TypeOK, Descriptors, ReloadRead, ReloadSwap, Crash, Start, disk, operator
<1>5. Allocated'
  BY ServerLeavesInodes DEF IInv, ReloadRead, ReloadSwap, Crash, Start, disk, operator
<1>6. OnDisk'
  BY <1>2 DEF IInv, TypeOK, OnDisk, ReloadRead, ReloadSwap, Crash, Start, disk
<1>7. ClientsWereWritten'
  BY <1>2 DEF IInv, OnDisk, ClientsWereWritten, ReloadRead, ReloadSwap, Crash, Start
<1> QED
  BY <1>3, <1>4, <1>5, <1>6, <1>7 DEF IInv

-----------------------------------------------------------------------------
(* The steps of the command line *)

LEMMA CliReadHolds ==
  ASSUME IInv, NEW p \in Cli, NEW op \in {"create", "revoke"}, NEW c \in Id, CliRead(p, op, c)
  PROVE  IInv'
<1>1. path \in Inode /\ content[path] \in Content
  BY NamedInodes DEF IInv, TypeOK
<1>2. Records(content[path]) \subseteq Id
  BY <1>1, RecordsAreIds
<1>3. /\ cli[p] = "idle" /\ cli' = [cli EXCEPT ![p] = "read"]
      /\ commands[p] < MaxCommands /\ commands' = [commands EXCEPT ![p] = @ + 1]
      /\ cmd' = [cmd EXCEPT ![p] = [op |-> op, id |-> c]]
      /\ \E new \in SUBSET Id : recs' = [recs EXCEPT ![p] = new]
  BY <1>2 DEF CliRead
<1>4. UNCHANGED <<content, inodes, path, tmp, up, clients, reg, regFd, reload, cliFd, created,
                  revoked, written, overtaken, cut>>
  BY DEF CliRead, disk, server
<1>5. TypeOK'
  <2>1. TypeOK
    BY DEF IInv
  <2>2. commands' \in [Cli -> 0..MaxCommands]
    BY <1>3, <2>1, ClientsFileAssumption DEF TypeOK
  <2>3. /\ cli' \in [Cli -> {"idle", "read", "opened", "wrote"}]
        /\ cmd' \in [Cli -> [op : {"create", "revoke"}, id : Id] \union {None}]
        /\ recs' \in [Cli -> SUBSET Id]
    BY <1>3, <2>1 DEF TypeOK
  <2> QED
    BY <1>4, <2>1, <2>2, <2>3 DEF TypeOK
<1>6. Descriptors'
  BY <1>3, <1>4 DEF IInv, TypeOK, Descriptors, Command
<1>7. Allocated'
  <2>1. \A q \in Cli : PastOpening(q)' = PastOpening(q) /\ PastOpening(q) \in Int
    BY <1>3 DEF IInv, TypeOK, PastOpening
  <2> QED
    BY <1>4, <2>1, AllocatedStays DEF IInv
<1>8. OnDisk' /\ ClientsWereWritten'
  BY <1>4 DEF IInv, OnDisk, ClientsWereWritten
<1> QED
  BY <1>5, <1>6, <1>7, <1>8 DEF IInv

LEMMA TmpOpenHolds ==
  ASSUME IInv, NEW p \in Cli, TmpOpen(p)
  PROVE  IInv'
<1> DEFINE i == IF tmp = None THEN inodes ELSE tmp
<1>1. /\ cli[p] = "read" /\ cli' = [cli EXCEPT ![p] = "opened"]
      /\ tmp' = i /\ cliFd' = [cliFd EXCEPT ![p] = i]
      /\ content' = [content EXCEPT ![i] = File({})]
      /\ inodes' = IF tmp = None THEN inodes + 1 ELSE inodes
  BY DEF TmpOpen
<1>2. UNCHANGED <<path, up, clients, reg, regFd, reload, cmd, recs, commands, created,
                  revoked, written, overtaken, cut>>
  BY DEF TmpOpen, server
<1>3. Allocated' /\ i \in Inode /\ inodes' \in 1..Cardinality(Inode)
  <2>1. CASE tmp = None
    BY <2>1, <1>1, <1>2, RoomForTmp DEF IInv
  <2>2. CASE tmp # None
    <3>1. \A q \in Cli : PastOpening(q) <= PastOpening(q)' /\ PastOpening(q)' \in Int
      BY <1>1, <1>2 DEF IInv, TypeOK, PastOpening
    <3>2. inodes' = inodes /\ inodes \in 1..Cardinality(Inode)
      BY <2>2, <1>1 DEF IInv, TypeOK
    <3> QED
      BY <2>2, <3>1, <3>2, NamedInodes, AllocatedStays DEF IInv
  <2> QED
    BY <2>1, <2>2
<1>4. i \in 0..(inodes' - 1) /\ i # path /\ inodes \in Nat /\ inodes' \in Nat /\ inodes <= inodes'
  BY <1>1, NamedInodes DEF IInv, TypeOK
<1>5. ASSUME NEW r \in Registration, reg[r] = "opened"
      PROVE  regFd[r] \in 0..(inodes' - 1) /\ regFd[r] # i
  BY <1>5, <1>1, <1>4, NamedInodes DEF IInv, TypeOK, Descriptors
<1>6. TypeOK'
  <2>1. TypeOK
    BY DEF IInv
  <2>2. content' \in [Inode -> Content]
    BY <1>1, <1>3, <2>1, FileIsRecords DEF TypeOK
  <2>3. /\ cli' \in [Cli -> {"idle", "read", "opened", "wrote"}]
        /\ cliFd' \in [Cli -> Inode \union {None}]
    BY <1>1, <1>3, <2>1 DEF TypeOK
  <2>4. tmp' \in (0..(inodes' - 1) \ {path'}) /\ path' \in 0..(inodes' - 1)
    BY <1>1, <1>2, <1>4, <2>1 DEF TypeOK
  <2> QED
    BY <1>2, <1>3, <2>1, <2>2, <2>3, <2>4 DEF TypeOK
<1>7. Descriptors'
  <2>1. ASSUME NEW r \in Registration, reg'[r] = "opened"
        PROVE  regFd'[r] \in 0..(inodes' - 1) /\ regFd'[r] # tmp'
    BY <2>1, <1>1, <1>2, <1>5
  <2>2. ASSUME NEW q \in Cli
        PROVE  /\ cli'[q] \in {"opened", "wrote"} => cliFd'[q] \in 0..(inodes' - 1)
               /\ cli'[q] # "idle" => cmd'[q] \in Command /\ commands'[q] > 0
    BY <1>1, <1>2, <1>4 DEF IInv, TypeOK, Descriptors
  <2> QED
    BY <2>1, <2>2 DEF Descriptors
<1>8. OnDisk'
  <2>1. ASSUME NEW j \in Inode
        PROVE  Records(content'[j]) \subseteq written
    <3>1. content'[j] = content[j] \/ content'[j] = File({})
      BY <1>1, <1>3 DEF IInv, TypeOK
    <3> QED
      BY <3>1, FileIsRecords DEF IInv, OnDisk
  <2> QED
    BY <1>2, <2>1 DEF IInv, OnDisk
<1>9. ClientsWereWritten'
  BY <1>2 DEF IInv, ClientsWereWritten
<1> QED
  BY <1>3, <1>6, <1>7, <1>8, <1>9 DEF IInv

LEMMA TmpWriteHolds ==
  ASSUME IInv, NEW p \in Cli, TmpWrite(p)
  PROVE  IInv'
<1> DEFINE i == cliFd[p]
<1>1. i \in Inode /\ cli[p] = "opened" /\ recs[p] \in SUBSET Id
  BY NamedInodes DEF IInv, TypeOK, TmpWrite
<1>2. PICK f \in Overwrites(content[i], recs[p]) : content' = [content EXCEPT ![i] = f]
  BY DEF TmpWrite
<1>3. f \in Content /\ Records(f) = recs[p]
  BY <1>1, <1>2, OverwriteRecords
<1>4. /\ cli' = [cli EXCEPT ![p] = "wrote"]
      /\ written' = written \union recs[p]
      /\ UNCHANGED <<inodes, path, tmp, up, clients, reg, regFd, reload, cmd, recs, cliFd,
                     commands, created, revoked, overtaken, cut>>
  BY DEF TmpWrite, server
<1>5. TypeOK'
  <2>1. TypeOK
    BY DEF IInv
  <2>2. content' \in [Inode -> Content]
    BY <1>1, <1>2, <1>3, <2>1 DEF TypeOK
  <2>3. cli' \in [Cli -> {"idle", "read", "opened", "wrote"}] /\ written' \subseteq Id
    BY <1>1, <1>4, <2>1 DEF TypeOK
  <2> QED
    BY <1>4, <2>1, <2>2, <2>3 DEF TypeOK
<1>6. Descriptors'
  BY <1>1, <1>4 DEF IInv, TypeOK, Descriptors
<1>7. Allocated'
  <2>1. \A q \in Cli : PastOpening(q)' = PastOpening(q) /\ PastOpening(q) \in Int
    BY <1>1, <1>4 DEF IInv, TypeOK, PastOpening
  <2> QED
    BY <1>4, <2>1, AllocatedStays DEF IInv
<1>8. OnDisk'
  <2>1. ASSUME NEW j \in Inode
        PROVE  Records(content'[j]) \subseteq written'
    <3>1. content'[j] = content[j] \/ content'[j] = f
      BY <1>1, <1>2 DEF IInv, TypeOK
    <3> QED
      BY <3>1, <1>3, <1>4 DEF IInv, OnDisk
  <2> QED
    BY <1>4, <2>1 DEF IInv, OnDisk
<1>9. ClientsWereWritten'
  BY <1>4 DEF IInv, ClientsWereWritten
<1> QED
  BY <1>5, <1>6, <1>7, <1>8, <1>9 DEF IInv

\* What the end of a command changes, whatever ended it.
LEMMA EndCommandHolds ==
  ASSUME IInv, NEW p \in Cli, EndCommand(p), inodes' = inodes
  PROVE  /\ Allocated'
         /\ cli' \in [Cli -> {"idle", "read", "opened", "wrote"}]
         /\ cmd' \in [Cli -> [op : {"create", "revoke"}, id : Id] \union {None}]
         /\ recs' \in [Cli -> SUBSET Id]
         /\ cliFd' \in [Cli -> Inode \union {None}]
         /\ commands' = commands
         /\ \A q \in Cli : cli'[q] # "idle" => /\ cli'[q] = cli[q] /\ cliFd'[q] = cliFd[q]
                                               /\ cmd'[q] = cmd[q] /\ recs'[q] = recs[q]
<1>1. /\ cli' = [cli EXCEPT ![p] = "idle"] /\ cmd' = [cmd EXCEPT ![p] = None]
      /\ recs' = [recs EXCEPT ![p] = {}] /\ cliFd' = [cliFd EXCEPT ![p] = None]
      /\ commands' = commands
  BY DEF EndCommand
<1>2. \A q \in Cli : PastOpening(q) <= PastOpening(q)' /\ PastOpening(q)' \in Int
  BY <1>1 DEF IInv, TypeOK, PastOpening
<1>3. Allocated'
  BY <1>2, AllocatedStays DEF IInv
<1> QED
  BY <1>1, <1>3 DEF IInv, TypeOK

LEMMA CliEndHolds ==
  ASSUME IInv, NEW p \in Cli, TmpWriteFails(p) \/ CliRename(p) \/ CliStops(p)
  PROVE  IInv'
<1>1. EndCommand(p) /\ UNCHANGED <<inodes, up, clients, reg, regFd, reload, written, overtaken, cut>>
  BY DEF TmpWriteFails, CliRename, CliStops, disk, server
<1>2. TypeOK /\ Descriptors
  BY DEF IInv
<1>3. content' \in [Inode -> Content] /\ \A j \in Inode : Records(content'[j]) \subseteq written
  <2>1. CASE TmpWriteFails(p)
    <3>1. cliFd[p] \in Inode
      BY <2>1, NamedInodes DEF IInv, TmpWriteFails
    <3>2. content' = [content EXCEPT ![cliFd[p]] = [File({}) EXCEPT !.last = Junk]]
      BY <2>1 DEF TmpWriteFails
    <3> QED
      BY <3>1, <3>2, HalfAFile DEF IInv, TypeOK, OnDisk
  <2>2. CASE ~ TmpWriteFails(p)
    <3>1. content' = content
      BY <2>2 DEF CliRename, CliStops, disk
    <3> QED
      BY <3>1 DEF IInv, TypeOK, OnDisk
  <2> QED
    BY <2>1, <2>2
<1>4. /\ path' \in 0..(inodes - 1) /\ tmp' \in (0..(inodes - 1) \ {path'}) \union {None}
      /\ tmp' = tmp \/ tmp' = None
  BY <1>2 DEF TypeOK, TmpWriteFails, CliRename, CliStops, disk
<1>5. created' \subseteq Id /\ revoked' \subseteq Id
  <2>1. CASE CliRename(p)
    <3>1. cmd[p].id \in Id
      BY <1>2, <2>1 DEF Descriptors, CliRename, Command
    <3> QED
      BY <1>2, <2>1, <3>1 DEF TypeOK, CliRename, Report
  <2>2. CASE ~ CliRename(p)
    BY <1>2, <2>2 DEF TypeOK, TmpWriteFails, CliStops
  <2> QED
    BY <2>1, <2>2
<1>6. TypeOK'
  <2>1. inodes' = inodes /\ EndCommand(p)
    BY <1>1
  <2>2. /\ cli' \in [Cli -> {"idle", "read", "opened", "wrote"}]
        /\ cmd' \in [Cli -> [op : {"create", "revoke"}, id : Id] \union {None}]
        /\ recs' \in [Cli -> SUBSET Id]
        /\ cliFd' \in [Cli -> Inode \union {None}]
        /\ commands' = commands
    BY <2>1, EndCommandHolds
  <2> QED
    BY <1>1, <1>2, <1>3, <1>4, <1>5, <2>2 DEF TypeOK
<1>7. Descriptors'
  <2>1. \A q \in Cli : cli'[q] # "idle" => /\ cli'[q] = cli[q] /\ cliFd'[q] = cliFd[q]
                                           /\ cmd'[q] = cmd[q] /\ commands' = commands
    BY <1>1, EndCommandHolds
  <2>2. \A r \in Registration : reg[r] = "opened" => regFd[r] # tmp'
    <3>1. \A r \in Registration : reg[r] = "opened" => regFd[r] # None
      BY NamedInodes, ClientsFileAssumption DEF IInv
    <3> QED
      BY <3>1, <1>2, <1>4 DEF Descriptors
  <2> QED
    BY <1>1, <1>2, <2>1, <2>2 DEF Descriptors
<1>8. Allocated'
  BY <1>1, EndCommandHolds
<1>9. OnDisk' /\ ClientsWereWritten'
  BY <1>1, <1>3 DEF IInv, OnDisk, ClientsWereWritten
<1> QED
  BY <1>6, <1>7, <1>8, <1>9 DEF IInv

-----------------------------------------------------------------------------
LEMMA NextHolds == IInv /\ [Next]_vars => IInv'
<1> SUFFICES ASSUME IInv, [Next]_vars
             PROVE  IInv'
  OBVIOUS
<1>1. ASSUME NEW r \in Registration,
             \/ OpenAppend(r) \/ RefuseRegistration(r) \/ Acknowledge(r) \/ SyncFails(r)
             \/ \E extent \in Extent : WriteRecord(r, extent)
      PROVE  IInv'
  BY <1>1, OpenAppendHolds, AnswerHolds, WriteRecordHolds
<1>2. ASSUME ReloadRead \/ ReloadSwap \/ Crash \/ Start
      PROVE  IInv'
  BY <1>2, ReloadHolds
<1>3. ASSUME NEW p \in Cli,
             \/ \E op \in {"create", "revoke"}, c \in Id : CliRead(p, op, c)
             \/ TmpOpen(p) \/ TmpWrite(p) \/ TmpWriteFails(p) \/ CliRename(p) \/ CliStops(p)
      PROVE  IInv'
  BY <1>3, CliReadHolds, TmpOpenHolds, TmpWriteHolds, CliEndHolds
<1>4. CASE UNCHANGED vars
  BY <1>4 DEF IInv, TypeOK, Descriptors, Allocated, MadeBy, PastOpening, OnDisk,
              ClientsWereWritten, vars, disk, server, operator
<1> QED
  BY <1>1, <1>2, <1>3, <1>4 DEF Next

\* Every inode a command opens exists, and every value keeps its type, however many
\* operators run commands at once.
THEOREM Invariant == Spec => []IInv
<1>1. Init => IInv
  BY InitHolds
<1>2. IInv /\ [Next]_vars => IInv'
  BY NextHolds
<1> QED
  BY <1>1, <1>2, PTL DEF Spec

\* The server knows no client that no write has put on disk (LoadClients,
\* ReloadClients and RegisterClient), whatever failed and whoever wrote.
THEOREM ServerKnowsOnlyWritten == Spec => []ClientsWereWritten
<1>1. IInv => ClientsWereWritten
  BY DEF IInv
<1> QED
  BY <1>1, Invariant, PTL

-----------------------------------------------------------------------------
(* One operator *)

\* Nobody runs two commands at once (writeOAuthClients takes no lock, and two share
\* one path.tmp).
OneOperator == \A p, q \in Cli : p = q

\* The lines of a file without a newline at their end are registrations.
LastLines == \A i \in Inode : content[i].last \notin Initial \union NewId

Whole(f) == ~ f.bad /\ f.last = NoLine

\* Only a cut append leaves anything but whole lines in the file.
PathIsWhole == cut \/ Whole(Current)

\* path.tmp is the command's own, and holds what the command has written to it.
TmpIsOwn(p) ==
  /\ cli[p] \in {"opened", "wrote"} => cliFd[p] = tmp
  /\ cli[p] = "opened" => content[cliFd[p]] = File({})
  /\ cli[p] = "wrote" => content[cliFd[p]] = File(recs[p])

\* What a command has read and edited agrees with the commands that came before.
EditIsSound(p) ==
  cli[p] # "idle" =>
    /\ cmd[p].op = "create" => /\ cmd[p].id \in NewId /\ cmd[p].id \in recs[p]
                               /\ created \subseteq recs[p]
                               /\ revoked \intersect recs[p] \subseteq {cmd[p].id}
    /\ cmd[p].op = "revoke" => /\ cmd[p].id \notin recs[p]
                               /\ cmd[p].id \in written
                               /\ created \subseteq recs[p] \union {cmd[p].id}
                               /\ revoked \intersect recs[p] = {}
    /\ recs[p] \intersect Registration \subseteq written

\* A registration is in no file, and nobody has revoked it, before it is written.
Fresh ==
  /\ \A r \in Registration : reg[r] \in {"new", "opened"} => r \notin written
  /\ revoked \subseteq written
  /\ created \subseteq Initial \union NewId

\* A registration that was written in full is where LostOnlyToRewrite says, and in
\* what a command has read as well.
Kept(r) ==
  reg[r] \in {"written", "acked"} =>
    /\ r \in Records(Current) \/ r \in revoked \/ ~ Parses(Current) \/ r \in overtaken
    /\ \A p \in Cli : cli[p] # "idle" =>
         r \in recs[p] \/ r \in revoked \/ r \in overtaken \/ (cmd[p].op = "revoke" /\ cmd[p].id = r)

OneInv ==
  /\ LastLines
  /\ PathIsWhole
  /\ \A p \in Cli : TmpIsOwn(p)
  /\ \A p \in Cli : EditIsSound(p)
  /\ Fresh
  /\ CommandsLast
  /\ \A r \in Registration : Kept(r)

LEMMA OneInitHolds == Init => OneInv
<1> SUFFICES ASSUME Init
             PROVE  OneInv
  OBVIOUS
<1>1. 0 \in Inode /\ Initial \subseteq Id
  BY InodeIsBounded DEF Inode, Id
<1>2. path = 0 /\ Current = File(Initial) /\ Records(Current) = Initial
  BY <1>1, FileIsRecords DEF Init, Current
<1>3. LastLines /\ PathIsWhole
  BY <1>2, ClientsFileAssumption DEF Init, LastLines, PathIsWhole, Whole, File, Id
<1>4. CommandsLast
  BY <1>2 DEF Init, CommandsLast
<1>5. Fresh /\ (\A p \in Cli : TmpIsOwn(p) /\ EditIsSound(p)) /\ \A r \in Registration : Kept(r)
  BY ClientsFileAssumption DEF Init, Fresh, TmpIsOwn, EditIsSound, Kept
<1> QED
  BY <1>3, <1>4, <1>5 DEF OneInv

\* An append to the file of the path: what was in it stays, or nothing parses.
LEMMA AppendKeeps ==
  ASSUME NEW f \in Content, NEW r \in Registration, NEW extent \in Extent,
         f.last \notin Initial \union NewId
  PROVE  LET g == Append(f, r, extent)
         IN  /\ g.last \notin Initial \union NewId
             /\ Whole(f) /\ extent \in {"all", "nothing"} => Whole(g)
             /\ Records(g) \subseteq Records(f) \union {r}
             /\ Records(f) \ Registration \subseteq Records(g)
             /\ ~ Parses(f) => ~ Parses(g)
             /\ Records(f) \subseteq Records(g) \/ ~ Parses(g)
             /\ extent = "all" => r \in Records(g) \/ ~ Parses(g)
<1>1. /\ r \in Id /\ r # NoLine /\ r # Junk /\ NoLine # Junk /\ r \notin Initial \union NewId
      /\ NoLine \notin Id /\ Junk \notin Id
  BY ClientsFileAssumption DEF Id
<1>2. /\ f.ids \subseteq Id /\ f.bad \in BOOLEAN /\ f.last \in Registration \union {NoLine, Junk}
      /\ f = [ids |-> f.ids, last |-> f.last, bad |-> f.bad]
  BY DEF Content, Id
<1>3. CASE extent = "nothing"
  BY <1>1, <1>2, <1>3 DEF Append, Whole, Records, Parses
<1>4. CASE extent = "all" /\ f.last = NoLine
  <2>1. Append(f, r, extent) = [ids |-> f.ids \union {r}, last |-> NoLine, bad |-> f.bad]
    BY <1>2, <1>4 DEF Append
  <2> QED
    BY <1>1, <1>2, <1>4, <2>1 DEF Whole, Records, Parses, Id
<1>5. CASE extent = "all" /\ f.last # NoLine
  <2>1. Append(f, r, extent) = [ids |-> f.ids, last |-> NoLine, bad |-> TRUE]
    BY <1>2, <1>5 DEF Append
  <2> QED
    BY <1>1, <1>2, <1>5, <2>1 DEF Whole, Records, Parses, Id
<1>6. CASE extent = "unterminated" /\ f.last = NoLine
  <2>1. Append(f, r, extent) = [ids |-> f.ids, last |-> r, bad |-> f.bad]
    BY <1>2, <1>6 DEF Append
  <2> QED
    BY <1>1, <1>2, <1>6, <2>1 DEF Whole, Records, Parses, Id
<1>7. CASE extent = "part" \/ (extent = "unterminated" /\ f.last # NoLine)
  <2>1. Append(f, r, extent) = [ids |-> f.ids, last |-> Junk, bad |-> f.bad]
    BY <1>2, <1>7 DEF Append
  <2> QED
    BY <1>1, <1>2, <1>7, <2>1 DEF Whole, Records, Parses, Id
<1> QED
  BY <1>3, <1>4, <1>5, <1>6, <1>7 DEF Extent

\* A step that leaves the files and the commands alone keeps all but what it says of
\* the registrations that it moves.
LEMMA OneRests ==
  ASSUME OneInv, UNCHANGED <<disk, operator, written, overtaken, cut>>,
         \A r \in Registration : /\ reg'[r] \in {"new", "opened"} => reg[r] \in {"new", "opened"}
                                 /\ reg'[r] \in {"written", "acked"} => reg[r] \in {"written", "acked"}
  PROVE  OneInv'
<1>1. LastLines' /\ PathIsWhole' /\ CommandsLast'
  BY DEF OneInv, LastLines, PathIsWhole, CommandsLast, Current, disk, operator
<1>2. \A p \in Cli : TmpIsOwn(p)' /\ EditIsSound(p)'
  BY DEF OneInv, TmpIsOwn, EditIsSound, disk, operator
<1>3. Fresh'
  BY DEF OneInv, Fresh, operator
<1>4. ASSUME NEW r \in Registration
      PROVE  Kept(r)'
  <2>1. Kept(r) /\ (reg'[r] \in {"written", "acked"} => reg[r] \in {"written", "acked"})
    BY DEF OneInv
  <2> QED
    BY <2>1 DEF Kept, Current, disk, operator
<1> QED
  BY <1>1, <1>2, <1>3, <1>4 DEF OneInv

LEMMA OneServerHolds ==
  ASSUME IInv, OneInv,
         \/ ReloadRead \/ ReloadSwap \/ Crash \/ Start
         \/ \E r \in Registration : \/ OpenAppend(r) \/ RefuseRegistration(r)
                                    \/ Acknowledge(r) \/ SyncFails(r)
  PROVE  OneInv'
<1>1. UNCHANGED <<disk, operator, written, overtaken, cut>>
  BY DEF ReloadRead, ReloadSwap, Crash, Start, OpenAppend, RefuseRegistration, Acknowledge, SyncFails
<1>2. ASSUME NEW r \in Registration
      PROVE  /\ reg'[r] \in {"new", "opened"} => reg[r] \in {"new", "opened"}
             /\ reg'[r] \in {"written", "acked"} => reg[r] \in {"written", "acked"}
  BY DEF IInv, TypeOK, ReloadRead, ReloadSwap, Crash, Start,
         OpenAppend, RefuseRegistration, Acknowledge, SyncFails
<1> QED
  BY <1>1, <1>2, OneRests

LEMMA OneWriteRecordHolds ==
  ASSUME IInv, OneInv, NEW r \in Registration, NEW extent \in Extent, WriteRecord(r, extent)
  PROVE  OneInv'
<1> DEFINE i == regFd[r]
           g == Append(content[i], r, extent)
<1>1. /\ i \in Inode /\ i # tmp /\ path \in Inode
      /\ content \in [Inode -> Content] /\ content[i] \in Content
  BY NamedInodes DEF IInv, TypeOK, Descriptors, WriteRecord
<1>2. /\ content' = [content EXCEPT ![i] = g]
      /\ reg[r] = "opened"
      /\ reg' = [reg EXCEPT ![r] = IF extent = "all" THEN "written" ELSE "failed"]
      /\ written' = IF extent \in {"all", "unterminated"} THEN written \union {r} ELSE written
      /\ cut' = (cut \/ extent \in {"part", "unterminated"})
      /\ overtaken' = IF i # path \/ \E p \in Cli : cli[p] # "idle"
                      THEN overtaken \union {r} ELSE overtaken
      /\ UNCHANGED <<inodes, path, tmp, cli, cmd, recs, cliFd, commands, created, revoked>>
  BY DEF WriteRecord, operator
<1>3. content[i].last \notin Initial \union NewId
  BY <1>1 DEF OneInv, LastLines
<1>4. /\ g.last \notin Initial \union NewId
      /\ Whole(content[i]) /\ extent \in {"all", "nothing"} => Whole(g)
      /\ Records(g) \subseteq Records(content[i]) \union {r}
      /\ Records(content[i]) \ Registration \subseteq Records(g)
      /\ ~ Parses(content[i]) => ~ Parses(g)
      /\ Records(content[i]) \subseteq Records(g) \/ ~ Parses(g)
      /\ extent = "all" => r \in Records(g) \/ ~ Parses(g)
  BY <1>1, <1>3, AppendKeeps
<1>5. Current' = IF i = path THEN g ELSE Current
  BY <1>1, <1>2 DEF Current
<1> HIDE DEF i, g
<1>6. LastLines'
  BY <1>1, <1>2, <1>4 DEF OneInv, LastLines
<1>7. PathIsWhole'
  BY <1>2, <1>4, <1>5 DEF OneInv, PathIsWhole, Extent, Current
<1>8. ASSUME NEW p \in Cli
      PROVE  TmpIsOwn(p)'
  <2>1. cli[p] \in {"opened", "wrote"} => cliFd[p] = tmp /\ cliFd[p] \in Inode
    BY NamedInodes DEF IInv, OneInv, TmpIsOwn
  <2>2. cli[p] \in {"opened", "wrote"} => content'[cliFd[p]] = content[cliFd[p]]
    BY <1>1, <1>2, <2>1
  <2>3. TmpIsOwn(p)
    BY DEF OneInv
  <2> QED
    BY <1>2, <2>1, <2>2, <2>3 DEF TmpIsOwn
<1>9. written \subseteq written' /\ overtaken \subseteq overtaken'
  BY <1>2
<1>10. ASSUME NEW p \in Cli
       PROVE  EditIsSound(p)'
  <2>1. EditIsSound(p)
    BY DEF OneInv
  <2> QED
    BY <1>2, <1>9, <2>1 DEF EditIsSound
<1>11. Fresh /\ CommandsLast /\ r \notin written
  BY <1>2 DEF OneInv, Fresh
<1>12. Fresh'
  BY <1>2, <1>11 DEF Fresh, IInv, TypeOK
<1>13. CommandsLast'
  <2>1. created \intersect Registration = {} /\ r \notin revoked
    BY <1>11, ClientsFileAssumption DEF Fresh
  <2>2. created \subseteq Records(Current') /\ revoked \intersect Records(Current') = {}
    BY <1>4, <1>5, <1>11, <2>1 DEF CommandsLast, Current
  <2> QED
    BY <1>2, <2>2 DEF CommandsLast
<1>14. ASSUME NEW q \in Registration, reg'[q] \in {"written", "acked"}
       PROVE  /\ q \in Records(Current') \/ q \in revoked \/ ~ Parses(Current') \/ q \in overtaken'
              /\ \A p \in Cli : cli[p] # "idle" =>
                   \/ q \in recs[p] \/ q \in revoked \/ q \in overtaken'
                   \/ (cmd[p].op = "revoke" /\ cmd[p].id = q)
  <2>1. CASE q = r
    <3>1. extent = "all"
      BY <1>2, <1>14, <2>1 DEF IInv, TypeOK
    <3> QED
      BY <1>2, <1>4, <1>5, <2>1, <3>1
  <2>2. CASE q # r
    <3>1. reg[q] \in {"written", "acked"} /\ Kept(q)
      BY <1>2, <1>14, <2>2 DEF IInv, TypeOK, OneInv
    <3> QED
      BY <1>4, <1>5, <1>9, <3>1 DEF Kept, Current
  <2> QED
    BY <2>1, <2>2
<1>15. \A q \in Registration : Kept(q)'
  BY <1>2, <1>14 DEF Kept
<1> QED
  BY <1>6, <1>7, <1>8, <1>10, <1>12, <1>13, <1>15 DEF OneInv

LEMMA OneCliReadHolds ==
  ASSUME IInv, OneInv, OneOperator,
         NEW p \in Cli, NEW op \in {"create", "revoke"}, NEW c \in Id, CliRead(p, op, c)
  PROVE  OneInv'
<1> DEFINE old == Records(Current)
           new == IF op = "create" THEN old \union {c} ELSE old \ {c}
<1>1. /\ Parses(Current)
      /\ op = "create" => c \in NewId /\ c \notin old
      /\ op = "revoke" => c \in old
      /\ recs' = [recs EXCEPT ![p] = new]
      /\ cli' = [cli EXCEPT ![p] = "read"]
      /\ cmd' = [cmd EXCEPT ![p] = [op |-> op, id |-> c]]
      /\ UNCHANGED <<content, inodes, path, tmp, reg, cliFd, created, revoked, written, overtaken, cut>>
  BY DEF CliRead, Current, disk, server
<1>2. recs'[p] = new /\ cli'[p] = "read" /\ cmd'[p] = [op |-> op, id |-> c]
  BY <1>1 DEF IInv, TypeOK
<1>3. old \subseteq written
  BY NamedInodes DEF IInv, OnDisk, Current
<1>4. Fresh /\ CommandsLast
  BY DEF OneInv
<1> HIDE DEF old
<1>5. LastLines' /\ PathIsWhole' /\ Fresh' /\ CommandsLast'
  BY <1>1 DEF OneInv, LastLines, PathIsWhole, Fresh, CommandsLast, Current
<1>6. ASSUME NEW q \in Cli
      PROVE  TmpIsOwn(q)' /\ EditIsSound(q)'
  <2>1. q = p
    BY DEF OneOperator
  <2>2. TmpIsOwn(p)'
    BY <1>2 DEF TmpIsOwn
  <2>3. /\ created \subseteq old /\ revoked \intersect old = {}
        /\ NewId \intersect Registration = {}
    BY <1>4, ClientsFileAssumption DEF CommandsLast, old
  <2>4. EditIsSound(p)'
    <3>1. CASE op = "create"
      BY <1>1, <1>2, <1>3, <2>3, <3>1 DEF EditIsSound
    <3>2. CASE op = "revoke"
      BY <1>1, <1>2, <1>3, <2>3, <3>2 DEF EditIsSound
    <3> QED
      BY <3>1, <3>2
  <2> QED
    BY <2>1, <2>2, <2>4
<1>7. ASSUME NEW r \in Registration, reg[r] \in {"written", "acked"}, NEW q \in Cli
      PROVE  \/ r \in recs'[q] \/ r \in revoked \/ r \in overtaken
             \/ (cmd'[q].op = "revoke" /\ cmd'[q].id = r)
  <2>1. q = p /\ Kept(r)
    BY DEF OneOperator, OneInv
  <2>2. r \in old \/ r \in revoked \/ r \in overtaken
    BY <1>1, <1>7, <2>1 DEF Kept, old
  <2> QED
    BY <1>2, <2>1, <2>2
<1>8. ASSUME NEW r \in Registration
      PROVE  Kept(r)'
  <2>1. Kept(r)
    BY DEF OneInv
  <2> QED
    BY <1>1, <1>7, <2>1 DEF Kept, Current
<1> QED
  BY <1>5, <1>6, <1>8 DEF OneInv

\* A command that writes path.tmp leaves the file of the path as it is.
LEMMA OneTmpHolds ==
  ASSUME IInv, OneInv, OneOperator, NEW p \in Cli, TmpOpen(p) \/ TmpWrite(p)
  PROVE  OneInv'
<1> DEFINE i == cliFd'[p]
<1>1. /\ i \in Inode /\ i # path /\ path \in Inode /\ cliFd \in [Cli -> Inode \union {None}]
      /\ content \in [Inode -> Content] /\ recs \in [Cli -> SUBSET Id] /\ cli[p] # "idle"
      /\ tmp' = i
  <2>1. CASE TmpOpen(p)
    <3>1. IInv'
      BY <2>1, TmpOpenHolds
    <3>2. cliFd'[p] = tmp' /\ path' = path /\ tmp' # path
      BY <2>1, NamedInodes, ClientsFileAssumption DEF IInv, TypeOK, TmpOpen
    <3>3. tmp' \in Inode
      <4>1. inodes' \in 1..Cardinality(Inode)
        BY <3>1 DEF IInv, TypeOK
      <4>2. tmp' = (IF tmp = None THEN inodes ELSE tmp)
        BY <2>1 DEF TmpOpen
      <4>3. CASE tmp = None
        BY <2>1, <4>1, <4>2, <4>3, NamedInodes, InodeIsBounded DEF IInv, TmpOpen, Inode
      <4>4. CASE tmp # None
        BY <4>2, <4>4, NamedInodes DEF IInv
      <4> QED
        BY <4>3, <4>4
    <3> QED
      BY <2>1, <3>2, <3>3, NamedInodes DEF IInv, TypeOK, TmpOpen
  <2>2. CASE TmpWrite(p)
    <3>1. cli[p] = "opened" /\ UNCHANGED <<tmp, cliFd>> /\ TmpIsOwn(p)
      BY <2>2 DEF TmpWrite, OneInv
    <3> QED
      BY <3>1, NamedInodes DEF IInv, TypeOK, TmpIsOwn
  <2> QED
    BY <2>1, <2>2
<1> HIDE DEF i
<1>2. /\ content' = [content EXCEPT ![i] = content'[i]]
      /\ cli'[p] \in {"opened", "wrote"}
      /\ \/ cli'[p] = "opened" /\ content'[i] = File({}) /\ UNCHANGED written
         \/ cli'[p] = "wrote" /\ content'[i] = File(recs[p]) /\ written' = written \union recs[p]
      /\ UNCHANGED <<path, reg, cmd, recs, created, revoked, overtaken, cut>>
  <2>1. CASE TmpOpen(p)
    <3>1. content' = [content EXCEPT ![i] = File({})] /\ cli' = [cli EXCEPT ![p] = "opened"]
      BY <2>1 DEF TmpOpen, i, IInv, TypeOK
    <3> QED
      BY <1>1, <2>1, <3>1 DEF TmpOpen, IInv, TypeOK, server
  <2>2. CASE TmpWrite(p)
    <3>1. cli[p] = "opened" /\ i = cliFd[p] /\ content[i] = File({})
      BY <2>2 DEF TmpWrite, OneInv, TmpIsOwn, i
    <3>2. Overwrites(content[i], recs[p]) = {File(recs[p])}
      BY <3>1 DEF Overwrites
    <3>3. content' = [content EXCEPT ![i] = File(recs[p])]
      BY <2>2, <3>1, <3>2 DEF TmpWrite
    <3> QED
      BY <1>1, <2>2, <3>3 DEF TmpWrite, IInv, TypeOK, server
  <2> QED
    BY <2>1, <2>2
<1>3. Current' = Current
  BY <1>1, <1>2 DEF Current
<1>4. content'[i].last \notin Initial \union NewId
  BY <1>2, ClientsFileAssumption DEF File, Id
<1>5. LastLines' /\ PathIsWhole' /\ CommandsLast'
  BY <1>1, <1>2, <1>3, <1>4 DEF OneInv, LastLines, PathIsWhole, CommandsLast
<1>6. TmpIsOwn(p)'
  BY <1>1, <1>2 DEF TmpIsOwn, i
<1>7. EditIsSound(p) /\ written \subseteq written' /\ (cli[p] # "idle" => EditIsSound(p)')
  BY <1>2 DEF OneInv, EditIsSound
<1>8. Fresh'
  BY <1>1, <1>2, <1>7 DEF OneInv, Fresh, EditIsSound
<1>9. ASSUME NEW r \in Registration
      PROVE  Kept(r)'
  <2>1. \A q \in Cli : q = p
    BY DEF OneOperator
  <2> QED
    BY <1>1, <1>2, <1>3, <2>1 DEF OneInv, Kept
<1>10. \A q \in Cli : TmpIsOwn(q)' /\ EditIsSound(q)'
  <2>1. \A q \in Cli : q = p
    BY DEF OneOperator
  <2> QED
    BY <1>1, <1>6, <1>7, <2>1
<1> QED
  BY <1>5, <1>8, <1>9, <1>10 DEF OneInv

LEMMA OneRenameHolds ==
  ASSUME IInv, OneInv, OneOperator, NEW p \in Cli, CliRename(p)
  PROVE  OneInv'
<1>1. /\ cli[p] = "wrote" /\ path' = tmp /\ tmp' = None
      /\ cli' = [cli EXCEPT ![p] = "idle"]
      /\ UNCHANGED <<content, reg, written, overtaken, cut>>
  BY DEF CliRename, EndCommand, server
<1>2. recs[p] \in SUBSET Id
  BY DEF IInv, TypeOK
<1>3. Current' = File(recs[p])
  BY <1>1 DEF Current, OneInv, TmpIsOwn
<1>4. Records(Current') = recs[p] /\ Whole(Current')
  BY <1>2, <1>3, FileIsRecords DEF Whole, File
<1>5. \A q \in Cli : cli'[q] = "idle"
  BY <1>1 DEF IInv, TypeOK, OneOperator
<1>6. LastLines' /\ PathIsWhole' /\ \A q \in Cli : TmpIsOwn(q)' /\ EditIsSound(q)'
  BY <1>1, <1>4, <1>5 DEF OneInv, LastLines, PathIsWhole, TmpIsOwn, EditIsSound
<1>7. EditIsSound(p) /\ Fresh
  BY DEF OneInv
<1>8. cmd[p] \in Command
  BY <1>1 DEF IInv, Descriptors
<1>9. CASE cmd[p].op = "create"
  <2>1. created' = created \union {cmd[p].id} /\ revoked' = revoked \ {cmd[p].id}
    BY <1>9 DEF CliRename, Report
  <2>2. Fresh'
    BY <1>1, <1>7, <1>9, <2>1 DEF EditIsSound, Fresh
  <2>3. CommandsLast'
    BY <1>1, <1>4, <1>7, <1>9, <2>1 DEF EditIsSound, CommandsLast
  <2>4. ASSUME NEW r \in Registration, reg'[r] \in {"written", "acked"}
        PROVE  r \in Records(Current') \/ r \in revoked' \/ r \in overtaken'
    <3>1. Kept(r) /\ cmd[p].id # r
      BY <1>1, <1>7, <1>9, ClientsFileAssumption DEF OneInv, EditIsSound
    <3>2. r \in recs[p] \/ r \in revoked \/ r \in overtaken
      BY <1>1, <1>9, <2>4, <3>1 DEF Kept
    <3> QED
      BY <1>1, <1>4, <2>1, <3>1, <3>2
  <2>5. \A r \in Registration : Kept(r)'
    BY <1>5, <2>4 DEF Kept
  <2> QED
    BY <1>6, <2>2, <2>3, <2>5 DEF OneInv
<1>10. CASE cmd[p].op = "revoke"
  <2>1. created' = created \ {cmd[p].id} /\ revoked' = revoked \union {cmd[p].id}
    BY <1>10 DEF CliRename, Report
  <2>2. Fresh'
    BY <1>1, <1>7, <1>10, <2>1 DEF EditIsSound, Fresh
  <2>3. CommandsLast'
    BY <1>1, <1>4, <1>7, <1>10, <2>1 DEF EditIsSound, CommandsLast
  <2>4. ASSUME NEW r \in Registration, reg'[r] \in {"written", "acked"}
        PROVE  r \in Records(Current') \/ r \in revoked' \/ r \in overtaken'
    <3>1. Kept(r)
      BY DEF OneInv
    <3>2. r \in recs[p] \/ r \in revoked \/ r \in overtaken \/ cmd[p].id = r
      BY <1>1, <2>4, <3>1 DEF Kept
    <3> QED
      BY <1>1, <1>4, <2>1, <3>2
  <2>5. \A r \in Registration : Kept(r)'
    BY <1>5, <2>4 DEF Kept
  <2> QED
    BY <1>6, <2>2, <2>3, <2>5 DEF OneInv
<1> QED
  BY <1>8, <1>9, <1>10 DEF Command

\* A command that fails leaves path.tmp behind, and the file as it was.
LEMMA OneStopHolds ==
  ASSUME IInv, OneInv, OneOperator, NEW p \in Cli, TmpWriteFails(p) \/ CliStops(p)
  PROVE  OneInv'
<1>1. /\ cli' = [cli EXCEPT ![p] = "idle"]
      /\ UNCHANGED <<path, tmp, reg, created, revoked, written, overtaken, cut>>
  BY DEF TmpWriteFails, CliStops, EndCommand, server, disk
<1>2. \A q \in Cli : cli'[q] = "idle"
  BY <1>1 DEF IInv, TypeOK, OneOperator
<1>3. /\ Current' = Current
      /\ \A i \in Inode : content'[i] = content[i] \/ content'[i] = [File({}) EXCEPT !.last = Junk]
  <2>1. CASE TmpWriteFails(p)
    <3>1. cliFd[p] = tmp /\ cliFd[p] \in Inode /\ path \in Inode /\ path # tmp
      BY <2>1, NamedInodes DEF IInv, OneInv, TmpIsOwn, TmpWriteFails
    <3>2. content' = [content EXCEPT ![cliFd[p]] = [File({}) EXCEPT !.last = Junk]]
      BY <2>1 DEF TmpWriteFails
    <3> QED
      BY <1>1, <3>1, <3>2 DEF Current, IInv, TypeOK
  <2>2. CASE CliStops(p)
    BY <2>2 DEF CliStops, disk, Current
  <2> QED
    BY <2>1, <2>2
<1>4. LastLines'
  <2>1. [File({}) EXCEPT !.last = Junk].last \notin Initial \union NewId
    BY ClientsFileAssumption DEF File, Id
  <2> QED
    BY <1>3, <2>1 DEF OneInv, LastLines
<1>5. PathIsWhole' /\ CommandsLast' /\ Fresh'
  BY <1>1, <1>3 DEF OneInv, PathIsWhole, CommandsLast, Fresh
<1>6. \A q \in Cli : TmpIsOwn(q)' /\ EditIsSound(q)'
  BY <1>2 DEF TmpIsOwn, EditIsSound
<1>7. \A r \in Registration : Kept(r)'
  BY <1>1, <1>2, <1>3 DEF OneInv, Kept
<1> QED
  BY <1>4, <1>5, <1>6, <1>7 DEF OneInv

LEMMA OneNextHolds == OneOperator /\ IInv /\ OneInv /\ [Next]_vars => OneInv'
<1> SUFFICES ASSUME OneOperator, IInv, OneInv, [Next]_vars
             PROVE  OneInv'
  OBVIOUS
<1>1. ASSUME NEW r \in Registration, \E extent \in Extent : WriteRecord(r, extent)
      PROVE  OneInv'
  BY <1>1, OneWriteRecordHolds
<1>2. ASSUME \/ ReloadRead \/ ReloadSwap \/ Crash \/ Start
             \/ \E r \in Registration : \/ OpenAppend(r) \/ RefuseRegistration(r)
                                        \/ Acknowledge(r) \/ SyncFails(r)
      PROVE  OneInv'
  BY <1>2, OneServerHolds
<1>3. ASSUME NEW p \in Cli,
             \/ \E op \in {"create", "revoke"}, c \in Id : CliRead(p, op, c)
             \/ TmpOpen(p) \/ TmpWrite(p) \/ TmpWriteFails(p) \/ CliRename(p) \/ CliStops(p)
      PROVE  OneInv'
  BY <1>3, OneCliReadHolds, OneTmpHolds, OneRenameHolds, OneStopHolds
<1>4. CASE UNCHANGED vars
  <2>1. /\ UNCHANGED <<disk, operator, written, overtaken, cut>>
        /\ UNCHANGED reg
    BY <1>4 DEF vars, server
  <2> QED
    BY <2>1, OneRests
<1> QED
  BY <1>1, <1>2, <1>3, <1>4 DEF Next

LEMMA OneInvariant ==
  ASSUME OneOperator
  PROVE  Spec => []OneInv
<1>1. Init => OneInv
  BY OneInitHolds
<1>2. IInv /\ OneInv /\ [Next]_vars => OneInv'
  BY OneNextHolds
<1> QED
  BY <1>1, <1>2, Invariant, PTL DEF Spec

\* As long as there is one operator, no crash and no failure of oauth-client create or
\* revoke leaves a file that the server cannot load.
THEOREM RewritesAreAtomic ==
  ASSUME OneOperator
  PROVE  Spec => []RewriteIsAtomic
<1>1. OneInv => RewriteIsAtomic
  <2> SUFFICES ASSUME OneInv, ~ cut
               PROVE  Parses(Current)
    BY DEF RewriteIsAtomic
  <2>1. Whole(Current)
    BY DEF OneInv, PathIsWhole
  <2> QED
    BY <2>1, ClientsFileAssumption DEF Whole, Parses
<1> QED
  BY <1>1, OneInvariant, PTL

\* A command that reported success is undone by a later command only: a created client
\* stays in the file, and a revoked one stays out.
THEOREM CommandsStay ==
  ASSUME OneOperator
  PROVE  Spec => []CommandsLast
<1>1. OneInv => CommandsLast
  BY DEF OneInv
<1> QED
  BY <1>1, OneInvariant, PTL

\* A registration that RegisterClient has acknowledged is lost to a revoke, or to a
\* rewrite that was under way while appendClient wrote it, and to nothing else.
THEOREM RegistrationsStay ==
  ASSUME OneOperator
  PROVE  Spec => []LostOnlyToRewrite
<1>1. OneInv => LostOnlyToRewrite
  BY DEF OneInv, Kept, LostOnlyToRewrite, Acked
<1> QED
  BY <1>1, OneInvariant, PTL
=============================================================================
