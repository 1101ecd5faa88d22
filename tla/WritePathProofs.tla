--------------------------- MODULE WritePathProofs ---------------------------
(***************************************************************************)
(* The safety of WritePath for every set of writes, processes and URIs, all  *)
(* globs and both settings of file_locking.  The writers that may append to  *)
(* a file at a time are one, by the lock or by the mutex of the only process *)
(* that writes; so a text that is under way is the end of the file.          *)
(***************************************************************************)
EXTENDS WritePath, FiniteSetTheorems, SequenceTheorems, TLAPS

Author == Write \union {Foreign}

-----------------------------------------------------------------------------
(* Files as sequences of pieces *)

\* The first n pieces of a's text are the end of s, and the only ones of a.
EndsWith(s, a, n) ==
  /\ n \in 0..Len(s)
  /\ \A i \in 1..Len(s) : IF i > Len(s) - n THEN s[i] = <<a, i - (Len(s) - n)>> ELSE s[i][1] # a

\* t is s with the pieces n + 1 to m of a's text behind it.
Extends(t, s, a, n, m) ==
  /\ Len(t) = Len(s) + m - n
  /\ \A i \in 1..Len(s) : t[i] = s[i]
  /\ \A i \in Len(s) + 1..Len(t) : t[i] = <<a, n + i - Len(s)>>

NotSplit(s) ==
  \A i, j, k \in 1..Len(s) : i < j /\ j < k /\ s[i][1] = s[k][1] => s[j][1] = s[i][1]

\* All of a's text is in the first n pieces of s.
HasText(s, a, n) ==
  \E i \in 1..Len(s) : i + Pieces - 1 <= n /\ \A k \in 1..Pieces : s[i + k - 1] = <<a, k>>

LEMMA TextIsSeq ==
  ASSUME NEW w \in Write
  PROVE  /\ Text(w) \in Seq(Author \X (1..Pieces)) /\ Len(Text(w)) = Pieces
         /\ \A k \in 1..Pieces : Text(w)[k] = <<w, k>>
<1>1. Pieces \in Nat
  BY DEF Pieces
<1> QED
  BY <1>1 DEF Text, Author

LEMMA PieceExtends ==
  ASSUME NEW s \in Seq(Author \X (1..Pieces)), NEW w \in Write, NEW n \in 0..Pieces,
         NEW m \in n + 1..Pieces
  PROVE  /\ s \o SubSeq(Text(w), n + 1, m) \in Seq(Author \X (1..Pieces))
         /\ Extends(s \o SubSeq(Text(w), n + 1, m), s, w, n, m)
<1> DEFINE T == Author \X (1..Pieces)
           d == SubSeq(Text(w), n + 1, m)
<1>0. Pieces \in Nat
  BY DEF Pieces
<1>1. Text(w) \in Seq(T) /\ Len(Text(w)) = Pieces
  BY TextIsSeq
<1> HIDE DEF T
<1>2. d \in Seq(T) /\ Len(d) = m - n
  BY <1>0, <1>1
<1>3. \A k \in 1..(m - n) : d[k] = <<w, n + k>>
  <2>1. \A k \in 1..(m - n) : d[k] = Text(w)[n + k]
    BY <1>0, <1>1
  <2> QED
    BY <1>0, <2>1, TextIsSeq
<1> HIDE DEF d
<1>4. s \in Seq(T)
  BY DEF T
<1>5. /\ s \o d \in Seq(T) /\ Len(s \o d) = Len(s) + Len(d)
      /\ \A i \in 1..Len(s) + Len(d) :
           (s \o d)[i] = IF i <= Len(s) THEN s[i] ELSE d[i - Len(s)]
  BY <1>2, <1>4, ConcatProperties
<1>6. \A i \in 1..Len(s) : (s \o d)[i] = s[i]
  BY <1>2, <1>4, <1>5
<1>7. \A i \in Len(s) + 1..Len(s \o d) : (s \o d)[i] = <<w, n + i - Len(s)>>
  <2> SUFFICES ASSUME NEW i \in Len(s) + 1..Len(s \o d)
               PROVE  (s \o d)[i] = <<w, n + i - Len(s)>>
    OBVIOUS
  <2>1. Len(s) \in Nat /\ i - Len(s) \in 1..(m - n)
    BY <1>0, <1>2, <1>4, <1>5
  <2>2. (s \o d)[i] = d[i - Len(s)]
    BY <1>2, <1>4, <1>5, <2>1
  <2>3. d[i - Len(s)] = <<w, n + (i - Len(s))>>
    BY <1>3, <2>1
  <2>4. n + (i - Len(s)) = n + i - Len(s)
    BY <2>1
  <2> QED
    BY <2>2, <2>3, <2>4
<1>8. Len(s \o d) = Len(s) + m - n
  BY <1>0, <1>2, <1>4, <1>5
<1> QED
  BY <1>5, <1>6, <1>7, <1>8 DEF Extends, T, d

LEMMA AppendExtends ==
  ASSUME NEW s \in Seq(Author \X (1..Pieces)), NEW n \in Nat, n + 1 <= Pieces
  PROVE  /\ Append(s, <<Foreign, n + 1>>) \in Seq(Author \X (1..Pieces))
         /\ Extends(Append(s, <<Foreign, n + 1>>), s, Foreign, n, n + 1)
<1>0. Pieces \in Nat
  BY DEF Pieces
<1>1. <<Foreign, n + 1>> \in Author \X (1..Pieces)
  BY <1>0 DEF Author
<1> QED
  BY <1>1 DEF Extends

\* A text that grows at the end of a file splits no other, and is still its end.
LEMMA ExtendsKeeps ==
  ASSUME NEW T, NEW s \in Seq(T), NEW t \in Seq(T), NEW a, NEW n \in Nat, NEW m \in Nat, n <= m,
         Extends(t, s, a, n, m), EndsWith(s, a, n)
  PROVE  /\ EndsWith(t, a, m)
         /\ NotSplit(s) => NotSplit(t)
         /\ \A b : b # a /\ EndsWith(s, b, 0) => EndsWith(t, b, 0)
         /\ \A b, j : j \in 0..Len(s) /\ HasText(s, b, j) => HasText(t, b, j)
<1>1. Len(s) \in Nat /\ Len(t) \in Nat /\ Len(t) = Len(s) + m - n /\ n <= Len(s)
  BY DEF Extends, EndsWith
<1>2. \A i \in 1..Len(t) : \/ i \in 1..Len(s) /\ t[i] = s[i]
                           \/ i > Len(s) /\ t[i] = <<a, n + i - Len(s)>>
  <2> SUFFICES ASSUME NEW i \in 1..Len(t)
               PROVE  \/ i \in 1..Len(s) /\ t[i] = s[i]
                      \/ i > Len(s) /\ t[i] = <<a, n + i - Len(s)>>
    OBVIOUS
  <2>1. CASE i <= Len(s)
    BY <1>1, <2>1 DEF Extends
  <2>2. CASE i > Len(s)
    <3>1. i \in Len(s) + 1..Len(t)
      BY <1>1, <2>2
    <3> QED
      BY <2>2, <3>1 DEF Extends
  <2> QED
    BY <1>1, <2>1, <2>2
<1>3. EndsWith(t, a, m)
  <2>1. ASSUME NEW i \in 1..Len(t), i > Len(t) - m
        PROVE  t[i] = <<a, i - (Len(t) - m)>>
    <3>1. Len(t) - m = Len(s) - n
      BY <1>1
    <3>2. CASE i \in 1..Len(s) /\ t[i] = s[i]
      BY <1>1, <2>1, <3>1, <3>2 DEF EndsWith
    <3>3. CASE i > Len(s) /\ t[i] = <<a, n + i - Len(s)>>
      <4>1. n + i - Len(s) = i - (Len(t) - m)
        BY <1>1, <3>1
      <4> QED
        BY <3>3, <4>1
    <3> QED
      BY <1>2, <3>2, <3>3
  <2>2. ASSUME NEW i \in 1..Len(t), ~ (i > Len(t) - m)
        PROVE  t[i][1] # a
    BY <1>1, <1>2, <2>2 DEF EndsWith
  <2> QED
    BY <1>1, <2>1, <2>2 DEF EndsWith
<1>4. ASSUME NotSplit(s)
      PROVE  NotSplit(t)
  <2> SUFFICES ASSUME NEW i \in 1..Len(t), NEW j \in 1..Len(t), NEW k \in 1..Len(t),
                      i < j, j < k, t[i][1] = t[k][1]
               PROVE  t[j][1] = t[i][1]
    BY DEF NotSplit
  <2>1. CASE k <= Len(s)
    <3>1. i \in 1..Len(s) /\ j \in 1..Len(s) /\ k \in 1..Len(s)
      BY <1>1, <2>1
    <3>2. t[i] = s[i] /\ t[j] = s[j] /\ t[k] = s[k]
      BY <3>1 DEF Extends
    <3> QED
      BY <1>4, <3>1, <3>2 DEF NotSplit
  <2>2. CASE k > Len(s)
    <3>1. t[k][1] = a
      <4>1. t[k] = <<a, n + k - Len(s)>>
        BY <1>1, <1>2, <2>2
      <4> QED
        BY <4>1
    <3>2. i > Len(t) - m
      BY <1>3, <3>1 DEF EndsWith
    <3>3. j > Len(t) - m
      BY <1>1, <3>2
    <3>4. t[j][1] = a
      BY <1>3, <3>3 DEF EndsWith
    <3> QED
      BY <3>1, <3>4
  <2> QED
    BY <1>1, <2>1, <2>2
<1>5. ASSUME NEW b, b # a, EndsWith(s, b, 0)
      PROVE  EndsWith(t, b, 0)
  <2>1. ASSUME NEW i \in 1..Len(t)
        PROVE  t[i][1] # b /\ ~ (i > Len(t) - 0)
    <3>1. CASE i \in 1..Len(s) /\ t[i] = s[i]
      <4>1. ~ (i > Len(s) - 0)
        BY <1>1, <3>1
      <4>2. s[i][1] # b
        BY <1>5, <3>1, <4>1 DEF EndsWith
      <4> QED
        BY <1>1, <3>1, <4>2
    <3>2. CASE t[i] = <<a, n + i - Len(s)>>
      BY <1>1, <1>5, <3>2
    <3> QED
      BY <1>2, <3>1, <3>2
  <2> QED
    BY <1>1, <2>1 DEF EndsWith
<1>6. ASSUME NEW b, NEW j \in 0..Len(s), HasText(s, b, j)
      PROVE  HasText(t, b, j)
  <2>0. Pieces \in Nat \ {0}
    BY DEF Pieces
  <2>1. PICK i \in 1..Len(s) : i + Pieces - 1 <= j /\ \A k \in 1..Pieces : s[i + k - 1] = <<b, k>>
    BY <1>6 DEF HasText
  <2>2. ASSUME NEW k \in 1..Pieces
        PROVE  t[i + k - 1] = <<b, k>>
    <3>1. i + k - 1 \in 1..Len(s)
      BY <1>1, <2>0, <2>1
    <3> QED
      BY <2>1, <3>1 DEF Extends
  <2>3. i \in 1..Len(t)
    BY <1>1
  <2> QED
    BY <2>1, <2>2, <2>3 DEF HasText
<1> QED
  BY <1>3, <1>4, <1>5, <1>6

\* What a power cut keeps is the beginning of the file.
LEMMA CutKeeps ==
  ASSUME NEW T, NEW s \in Seq(T), NEW n \in 0..Len(s)
  PROVE  LET t == SubSeq(s, 1, n)
         IN  /\ t \in Seq(T) /\ Len(t) = n
             /\ \A i \in 1..n : t[i] = s[i]
             /\ NotSplit(s) => NotSplit(t)
             /\ \A b : EndsWith(s, b, 0) => EndsWith(t, b, 0)
             /\ \A b, j : j \in 0..n /\ HasText(s, b, j) => HasText(t, b, j)
<1> DEFINE t == SubSeq(s, 1, n)
<1>1. t \in Seq(T) /\ Len(t) = n /\ \A i \in 1..n : t[i] = s[i]
  <2>1. \A i \in 1..n : s[i] \in T
    OBVIOUS
  <2>2. n \in Int /\ 1 \in Int /\ n - 1 + 1 = n /\ n \in Nat
    OBVIOUS
  <2>3. /\ t \in Seq(T) /\ Len(t) = IF 1 <= n THEN n - 1 + 1 ELSE 0
        /\ \A i \in 1..n - 1 + 1 : t[i] = s[1 + i - 1]
    BY <2>1, <2>2, SubSeqProperties
  <2>4. \A i \in 1..n : 1 + i - 1 = i
    OBVIOUS
  <2> QED
    BY <2>2, <2>3, <2>4
<1> HIDE DEF t
<1>2. Len(s) \in Nat /\ n \in Nat /\ n <= Len(s)
  OBVIOUS
<1>3. NotSplit(s) => NotSplit(t)
  BY <1>1, <1>2 DEF NotSplit
<1>4. ASSUME NEW b, EndsWith(s, b, 0)
      PROVE  EndsWith(t, b, 0)
  BY <1>1, <1>2, <1>4 DEF EndsWith
<1>5. ASSUME NEW b, NEW j \in 0..n, HasText(s, b, j)
      PROVE  HasText(t, b, j)
  <2>0. Pieces \in Nat \ {0}
    BY DEF Pieces
  <2>1. PICK i \in 1..Len(s) : i + Pieces - 1 <= j /\ \A k \in 1..Pieces : s[i + k - 1] = <<b, k>>
    BY <1>5 DEF HasText
  <2>2. ASSUME NEW k \in 1..Pieces
        PROVE  t[i + k - 1] = <<b, k>>
    <3>1. i + k - 1 \in 1..n
      BY <1>2, <2>0, <2>1
    <3> QED
      BY <1>1, <2>1, <3>1
  <2>3. i \in 1..Len(t)
    BY <1>1, <1>2, <2>0, <2>1
  <2> QED
    BY <2>1, <2>2, <2>3 DEF HasText
<1> QED
  BY <1>1, <1>3, <1>4, <1>5 DEF t

\* Put counts the pieces at the end.
LEMMA PutCounts ==
  ASSUME NEW w \in Write, NEW T, data[uri[w]] \in Seq(T), NEW n, EndsWith(data[uri[w]], w, n)
  PROVE  Put(w) = n
<1> DEFINE s == data[uri[w]]
<1>1. Len(s) \in Nat /\ n \in 0..Len(s) /\ DOMAIN s = 1..Len(s)
  BY DEF EndsWith
<1>2. {i \in DOMAIN s : s[i][1] = w} = Len(s) - n + 1..Len(s)
  <2>1. ASSUME NEW i \in 1..Len(s)
        PROVE  s[i][1] = w <=> i > Len(s) - n
    <3>1. CASE i > Len(s) - n
      <4>1. s[i] = <<w, i - (Len(s) - n)>>
        BY <3>1 DEF EndsWith
      <4> QED
        BY <3>1, <4>1
    <3>2. CASE ~ (i > Len(s) - n)
      BY <3>2 DEF EndsWith
    <3> QED
      BY <3>1, <3>2
  <2> QED
    BY <1>1, <2>1
<1>3. Cardinality(Len(s) - n + 1..Len(s)) = n
  <2>1. Len(s) - n + 1 \in Int /\ Len(s) \in Int
    BY <1>1
  <2>2. Cardinality(Len(s) - n + 1..Len(s)) =
          IF Len(s) - n + 1 > Len(s) THEN 0 ELSE Len(s) - (Len(s) - n + 1) + 1
    BY <2>1, FS_Interval
  <2> QED
    BY <1>1, <2>2
<1> QED
  BY <1>2, <1>3 DEF Put

-----------------------------------------------------------------------------
(* The inductive invariant *)

Shape ==
  /\ pc \in [Write -> {"idle", "admitted", "returned", "killed"} \union InAppend]
  /\ uri \in [Write -> Uri] /\ home \in [Write -> Proc]
  /\ mutex \in [Proc -> SUBSET Write]
  /\ flock \in [Uri -> SUBSET Author]
  /\ data \in [Uri -> Seq(Author \X (1..Pieces))]
  /\ synced \in [Uri -> Nat] /\ \A u \in Uri : synced[u] <= Len(data[u])
  /\ foreign \in [Uri -> 0..Pieces]
  /\ answer \in [Write -> {"none", "refused", "failed", "written"}]
  /\ locking \in {"flock", "none"}

\* The mutex of a process has the one write that is inside Append.
MutexMatches ==
  /\ \A p \in Proc, w \in Write : w \in mutex[p] <=> home[w] = p /\ pc[w] \in InAppend
  /\ \A p \in Proc : \A v, w \in mutex[p] : v = w

\* The lock of a file has the one write that is between TakeLock and Release, or the
\* foreign program, which gives it back between texts only.
LockMatches ==
  /\ \A u \in Uri, w \in Write :
       w \in flock[u] <=> locking = "flock" /\ uri[w] = u /\ pc[w] \in {"writing", "closing"}
  /\ \A u \in Uri : \A g, h \in flock[u] : g = h
  /\ \A u \in Uri : foreign[u] \notin {0, Pieces} => Foreign \in flock[u]
  /\ locking = "none" => /\ \A w \in Write : home[w] = Server
                         /\ \A u \in Uri : Foreign \notin flock[u] /\ foreign[u] = Pieces

\* What the gates let pass, and what they answered.
GatesMatch ==
  /\ \A w \in Write : pc[w] \in InAppend \union {"admitted"} => uri[w] \in Included
  /\ \A w \in Write : pc[w] \in {"idle", "admitted", "entered", "opened", "writing"} => answer[w] = "none"
  /\ \A w \in Write : pc[w] \in InAppend => answer[w] # "refused"

\* A write has left nothing before it writes, and then only in its own file; while it
\* writes, what it has written is the end of that file.
TextsMatch ==
  /\ \A w \in Write, u \in Uri :
       u # uri[w] \/ pc[w] \in {"idle", "admitted", "entered", "opened"} \/ answer[w] = "refused"
         \/ u \notin Included
       => EndsWith(data[u], w, 0)
  /\ \A w \in Write : pc[w] = "writing" => \E n \in 0..Pieces : EndsWith(data[uri[w]], w, n)
  /\ \A u \in Uri : foreign[u] < Pieces => EndsWith(data[u], Foreign, foreign[u])
  /\ \A u \in Uri : NotSplit(data[u])

\* What was called written is in the part of the file that is on the disk.
WrittenIsSynced ==
  \A w \in Write : answer[w] = "written" => HasText(data[uri[w]], w, synced[uri[w]])

IInv ==
  /\ Shape
  /\ MutexMatches
  /\ LockMatches
  /\ GatesMatch
  /\ TextsMatch
  /\ WrittenIsSynced

LEMMA InitHolds == Init => IInv
<1> SUFFICES ASSUME Init
             PROVE  IInv
  OBVIOUS
<1>0. Pieces \in Nat \ {0}
  BY DEF Pieces
<1>1. \A u \in Uri : data[u] = <<>> /\ Len(data[u]) = 0
  BY DEF Init
<1>2. \A u \in Uri, a \in Author : EndsWith(data[u], a, 0)
  BY <1>1 DEF EndsWith
<1>3. Shape
  <2>1. data \in [Uri -> Seq(Author \X (1..Pieces))]
    BY DEF Init
  <2>2. home \in [Write -> Proc]
    BY WritePathAssumption DEF Init
  <2>3. foreign \in [Uri -> 0..Pieces]
    BY <1>0 DEF Init
  <2> QED
    BY <1>1, <2>1, <2>2, <2>3 DEF Init, Shape, Author, InAppend
<1>4. MutexMatches
  BY DEF Init, MutexMatches, InAppend
<1>5. LockMatches
  BY WritePathAssumption DEF Init, LockMatches
<1>6. GatesMatch
  BY DEF Init, GatesMatch, InAppend
<1>7. TextsMatch
  <2>1. \A u \in Uri : NotSplit(data[u])
    BY <1>1 DEF NotSplit
  <2>2. \A u \in Uri : foreign[u] < Pieces => foreign[u] = 0
    BY <1>0 DEF Init
  <2> QED
    BY <1>2, <2>1, <2>2 DEF Init, TextsMatch, Author
<1>8. WrittenIsSynced
  BY DEF Init, WrittenIsSynced
<1> QED
  BY <1>3, <1>4, <1>5, <1>6, <1>7, <1>8 DEF IInv

-----------------------------------------------------------------------------
(* Steps that leave every file as it is *)

Early == {"idle", "admitted", "entered", "opened"}

LEMMA TextsRest ==
  ASSUME TextsMatch, UNCHANGED <<data, foreign, uri>>,
         \A w \in Write : /\ pc'[w] \in Early => pc[w] \in Early
                          /\ pc'[w] = "writing" => pc[w] \in {"opened", "writing"}
                          /\ answer'[w] = "refused" => answer[w] = "refused" \/ pc[w] \in Early,
         uri \in [Write -> Uri]
  PROVE  TextsMatch'
<1>0. Pieces \in Nat
  BY DEF Pieces
<1>1. ASSUME NEW w \in Write, NEW u \in Uri,
             \/ u # uri'[w] \/ pc'[w] \in Early \/ answer'[w] = "refused"
             \/ u \notin Included
      PROVE  EndsWith(data'[u], w, 0)
  BY <1>1 DEF TextsMatch, Early
<1>2. ASSUME NEW w \in Write, pc'[w] = "writing"
      PROVE  \E n \in 0..Pieces : EndsWith(data'[uri'[w]], w, n)
  <2>1. CASE pc[w] = "writing"
    BY <2>1 DEF TextsMatch
  <2>2. CASE pc[w] = "opened"
    <3>1. EndsWith(data[uri[w]], w, 0)
      BY <2>2 DEF TextsMatch
    <3> QED
      BY <1>0, <3>1
  <2> QED
    BY <1>2, <2>1, <2>2
<1>3. \A u \in Uri : (foreign[u] < Pieces => EndsWith(data[u], Foreign, foreign[u]))'
                     /\ NotSplit(data[u])'
  BY DEF TextsMatch
<1> QED
  BY <1>1, <1>2, <1>3 DEF TextsMatch, Early

LEMMA WrittenRests ==
  ASSUME WrittenIsSynced, UNCHANGED <<data, synced, uri>>,
         \A w \in Write : answer'[w] = "written" => answer[w] = "written"
  PROVE  WrittenIsSynced'
BY DEF WrittenIsSynced

\* The gates.
LEMMA GateHolds ==
  ASSUME IInv, NEW w \in Write, Admit(w) \/ Refuse(w)
  PROVE  IInv'
<1>1. /\ pc[w] \in {"idle", "admitted"}
      /\ \/ pc' = [pc EXCEPT ![w] = "admitted"] /\ answer' = answer /\ uri[w] \in Included
         \/ pc' = [pc EXCEPT ![w] = "returned"] /\ answer' = [answer EXCEPT ![w] = "refused"]
      /\ UNCHANGED <<locking, uri, home, mutex, data, synced, flock, foreign>>
  BY DEF Admit, Refuse, Goto, Answer, files, Accepted, BackendAccepts
<1>2. Shape
  BY DEF IInv
<1>3. Shape'
  BY <1>1, <1>2 DEF Shape
<1>4. MutexMatches'
  BY <1>1, <1>2 DEF IInv, MutexMatches, Shape, InAppend
<1>5. LockMatches'
  BY <1>1, <1>2 DEF IInv, LockMatches, Shape
<1>6. GatesMatch'
  BY <1>1, <1>2 DEF IInv, GatesMatch, Shape, InAppend
<1>7. \A v \in Write : /\ pc'[v] \in Early => pc[v] \in Early
                       /\ pc'[v] = "writing" => pc[v] \in {"opened", "writing"}
                       /\ answer'[v] = "refused" => answer[v] = "refused" \/ pc[v] \in Early
                       /\ answer'[v] = "written" => answer[v] = "written"
  BY <1>1, <1>2 DEF Shape, Early
<1>8. TextsMatch' /\ WrittenIsSynced'
  BY <1>1, <1>2, <1>7, TextsRest, WrittenRests DEF IInv, Shape
<1> QED
  BY <1>3, <1>4, <1>5, <1>6, <1>8 DEF IInv

LEMMA EnterHolds ==
  ASSUME IInv, NEW w \in Write, Enter(w)
  PROVE  IInv'
<1>1. /\ pc[w] = "admitted" /\ mutex[home[w]] = {}
      /\ mutex' = [mutex EXCEPT ![home[w]] = {w}]
      /\ pc' = [pc EXCEPT ![w] = "entered"]
      /\ UNCHANGED <<locking, uri, home, data, synced, flock, foreign, answer>>
  BY DEF Enter, Goto, files
<1>2. Shape
  BY DEF IInv
<1>3. Shape'
  BY <1>1, <1>2 DEF Shape, InAppend
<1>4. MutexMatches'
  <2>1. ASSUME NEW p \in Proc, NEW v \in Write
        PROVE  v \in mutex'[p] <=> home[v] = p /\ pc'[v] \in InAppend
    BY <1>1, <1>2 DEF IInv, MutexMatches, Shape, InAppend
  <2>2. \A p \in Proc : \A v, x \in mutex'[p] : v = x
    BY <1>1, <1>2 DEF IInv, MutexMatches, Shape
  <2> QED
    BY <1>1, <2>1, <2>2 DEF MutexMatches
<1>5. LockMatches'
  BY <1>1, <1>2 DEF IInv, LockMatches, Shape
<1>6. GatesMatch'
  BY <1>1, <1>2 DEF IInv, GatesMatch, Shape, InAppend
<1>7. \A v \in Write : /\ pc'[v] \in Early => pc[v] \in Early
                       /\ pc'[v] = "writing" => pc[v] \in {"opened", "writing"}
  BY <1>1, <1>2 DEF Shape, Early
<1>8. TextsMatch' /\ WrittenIsSynced'
  BY <1>1, <1>2, <1>7, TextsRest, WrittenRests DEF IInv, Shape
<1> QED
  BY <1>3, <1>4, <1>5, <1>6, <1>8 DEF IInv

\* Steps inside Append that change no lock and no file.
LEMMA GoesOnHolds ==
  ASSUME IInv, NEW w \in Write,
         Open(w) \/ LockFails(w) \/ WriteFails(w) \/ SyncFails(w)
  PROVE  IInv'
<1>1. /\ \/ pc[w] = "entered" /\ pc' = [pc EXCEPT ![w] = "opened"] /\ UNCHANGED answer
         \/ /\ pc[w] \in {"entered", "opened"}
            /\ pc' = [pc EXCEPT ![w] = "leaving"] /\ answer' = [answer EXCEPT ![w] = "failed"]
         \/ /\ pc[w] = "writing"
            /\ pc' = [pc EXCEPT ![w] = "closing"] /\ answer' = [answer EXCEPT ![w] = "failed"]
      /\ UNCHANGED <<locking, uri, home, mutex, data, synced, flock, foreign>>
  BY DEF Open, LockFails, WriteFails, SyncFails, Goto, Answer, files
<1>2. Shape
  BY DEF IInv
<1>3. Shape'
  BY <1>1, <1>2 DEF Shape, InAppend
<1>4. MutexMatches'
  BY <1>1, <1>2 DEF IInv, MutexMatches, Shape, InAppend
<1>5. LockMatches'
  BY <1>1, <1>2 DEF IInv, LockMatches, Shape
<1>6. GatesMatch'
  BY <1>1, <1>2 DEF IInv, GatesMatch, Shape, InAppend
<1>7. \A v \in Write : /\ pc'[v] \in Early => pc[v] \in Early
                       /\ pc'[v] = "writing" => pc[v] \in {"opened", "writing"}
                       /\ answer'[v] = "refused" => answer[v] = "refused" \/ pc[v] \in Early
                       /\ answer'[v] = "written" => answer[v] = "written"
  BY <1>1, <1>2 DEF Shape, Early
<1>8. TextsMatch' /\ WrittenIsSynced'
  BY <1>1, <1>2, <1>7, TextsRest, WrittenRests DEF IInv, Shape
<1> QED
  BY <1>3, <1>4, <1>5, <1>6, <1>8 DEF IInv

LEMMA TakeLockHolds ==
  ASSUME IInv, NEW w \in Write, TakeLock(w)
  PROVE  IInv'
<1>1. /\ pc[w] = "opened" /\ (locking = "flock" => flock[uri[w]] = {})
      /\ flock' = [flock EXCEPT ![uri[w]] = IF locking = "flock" THEN {w} ELSE @]
      /\ pc' = [pc EXCEPT ![w] = "writing"]
      /\ UNCHANGED <<locking, uri, home, mutex, data, synced, foreign, answer>>
  BY DEF TakeLock, Goto
<1>2. Shape
  BY DEF IInv
<1>3. Shape'
  BY <1>1, <1>2 DEF Shape, InAppend, Author
<1>4. MutexMatches'
  BY <1>1, <1>2 DEF IInv, MutexMatches, Shape, InAppend
<1>5. LockMatches'
  <2>1. CASE locking = "flock"
    <3>1. \A u \in Uri : flock'[u] = IF u = uri[w] THEN {w} ELSE flock[u]
      BY <1>1, <1>2, <2>1 DEF Shape
    <3>2. ASSUME NEW u \in Uri, NEW v \in Write
          PROVE  v \in flock'[u] <=> uri[v] = u /\ pc'[v] \in {"writing", "closing"}
      BY <1>1, <1>2, <2>1, <3>1 DEF IInv, LockMatches, Shape
    <3>3. \A u \in Uri : \A g, h \in flock'[u] : g = h
      BY <1>1, <3>1 DEF IInv, LockMatches
    <3>4. \A u \in Uri : foreign[u] \notin {0, Pieces} => Foreign \in flock'[u]
      BY <1>1, <1>2, <2>1, <3>1 DEF IInv, LockMatches
    <3> QED
      BY <1>1, <2>1, <3>2, <3>3, <3>4 DEF LockMatches
  <2>2. CASE locking # "flock"
    <3>1. flock' = flock
      BY <1>1, <1>2, <2>2 DEF Shape
    <3> QED
      BY <1>1, <1>2, <2>2, <3>1 DEF IInv, LockMatches, Shape
  <2> QED
    BY <2>1, <2>2
<1>6. GatesMatch'
  BY <1>1, <1>2 DEF IInv, GatesMatch, Shape, InAppend
<1>7. \A v \in Write : /\ pc'[v] \in Early => pc[v] \in Early
                       /\ pc'[v] = "writing" => pc[v] \in {"opened", "writing"}
  BY <1>1, <1>2 DEF Shape, Early
<1>8. TextsMatch' /\ WrittenIsSynced'
  BY <1>1, <1>2, <1>7, TextsRest, WrittenRests DEF IInv, Shape
<1> QED
  BY <1>3, <1>4, <1>5, <1>6, <1>8 DEF IInv

LEMMA ReleaseHolds ==
  ASSUME IInv, NEW w \in Write, Release(w)
  PROVE  IInv'
<1>1. /\ pc[w] = "closing"
      /\ flock' = [flock EXCEPT ![uri[w]] = @ \ {w}]
      /\ pc' = [pc EXCEPT ![w] = "leaving"]
      /\ UNCHANGED <<locking, uri, home, mutex, data, synced, foreign, answer>>
  BY DEF Release, Goto
<1>2. Shape
  BY DEF IInv
<1>3. Shape'
  BY <1>1, <1>2 DEF Shape, InAppend
<1>4. MutexMatches'
  BY <1>1, <1>2 DEF IInv, MutexMatches, Shape, InAppend
<1>5. LockMatches'
  <2>1. \A u \in Uri : flock'[u] = IF u = uri[w] THEN flock[u] \ {w} ELSE flock[u]
    BY <1>1, <1>2 DEF Shape
  <2>2. ASSUME NEW u \in Uri, NEW v \in Write
        PROVE  v \in flock'[u] <=> locking = "flock" /\ uri[v] = u /\ pc'[v] \in {"writing", "closing"}
    BY <1>1, <1>2, <2>1 DEF IInv, LockMatches, Shape
  <2>3. \A u \in Uri : Foreign \in flock'[u] <=> Foreign \in flock[u]
    BY <2>1, WritePathAssumption
  <2> QED
    BY <1>1, <2>1, <2>2, <2>3 DEF IInv, LockMatches
<1>6. GatesMatch'
  BY <1>1, <1>2 DEF IInv, GatesMatch, Shape, InAppend
<1>7. \A v \in Write : /\ pc'[v] \in Early => pc[v] \in Early
                       /\ pc'[v] = "writing" => pc[v] \in {"opened", "writing"}
  BY <1>1, <1>2 DEF Shape, Early
<1>8. TextsMatch' /\ WrittenIsSynced'
  BY <1>1, <1>2, <1>7, TextsRest, WrittenRests DEF IInv, Shape
<1> QED
  BY <1>3, <1>4, <1>5, <1>6, <1>8 DEF IInv

LEMMA LeaveHolds ==
  ASSUME IInv, NEW w \in Write, Leave(w)
  PROVE  IInv'
<1>1. /\ pc[w] = "leaving"
      /\ mutex' = [mutex EXCEPT ![home[w]] = @ \ {w}]
      /\ pc' = [pc EXCEPT ![w] = "returned"]
      /\ UNCHANGED <<locking, uri, home, data, synced, flock, foreign, answer>>
  BY DEF Leave, Goto, files
<1>2. Shape
  BY DEF IInv
<1>3. Shape'
  BY <1>1, <1>2 DEF Shape
<1>4. MutexMatches'
  BY <1>1, <1>2 DEF IInv, MutexMatches, Shape, InAppend
<1>5. LockMatches'
  BY <1>1, <1>2 DEF IInv, LockMatches, Shape
<1>6. GatesMatch'
  BY <1>1, <1>2 DEF IInv, GatesMatch, Shape, InAppend
<1>7. \A v \in Write : /\ pc'[v] \in Early => pc[v] \in Early
                       /\ pc'[v] = "writing" => pc[v] \in {"opened", "writing"}
  BY <1>1, <1>2 DEF Shape, Early
<1>8. TextsMatch' /\ WrittenIsSynced'
  BY <1>1, <1>2, <1>7, TextsRest, WrittenRests DEF IInv, Shape
<1> QED
  BY <1>3, <1>4, <1>5, <1>6, <1>8 DEF IInv

-----------------------------------------------------------------------------
(* Steps that write *)

\* Two writes are not inside WriteString on one file at the same time, and none is
\* while the foreign program has the lock.
LEMMA Alone ==
  ASSUME IInv, NEW v \in Write, pc[v] = "writing"
  PROVE  /\ \A w \in Write : pc[w] = "writing" /\ uri[w] = uri[v] => w = v
         /\ Foreign \notin flock[uri[v]]
         /\ foreign[uri[v]] \in {0, Pieces}
<1>1. Shape /\ MutexMatches /\ LockMatches
  BY DEF IInv
<1>2. CASE locking = "flock"
  <2>1. v \in flock[uri[v]]
    BY <1>1, <1>2 DEF LockMatches, Shape
  <2>2. Foreign \notin flock[uri[v]]
    BY <1>1, <2>1, WritePathAssumption DEF LockMatches, Shape
  <2> QED
    BY <1>1, <1>2, <2>1, <2>2 DEF LockMatches, Shape
<1>3. CASE locking = "none"
  BY <1>1, <1>3 DEF LockMatches, MutexMatches, Shape, InAppend
<1> QED
  BY <1>1, <1>2, <1>3 DEF Shape

\* A text that grows at the end of its file, by the only one who writes to it.
LEMMA TextsGrow ==
  ASSUME IInv, NEW a \in Author, NEW u \in Uri, NEW t \in Seq(Author \X (1..Pieces)),
         NEW n \in 0..Pieces, NEW m \in n..Pieces,
         EndsWith(data[u], a, n), Extends(t, data[u], a, n, m),
         data' = [data EXCEPT ![u] = t],
         UNCHANGED <<uri, pc, answer, synced>>,
         foreign' \in [Uri -> 0..Pieces],
         \A x \in Uri : foreign'[x] = IF x = u /\ a = Foreign THEN m ELSE foreign[x],
         a \in Write => pc[a] = "writing" /\ uri[a] = u,
         a = Foreign => \A w \in Write : ~ (pc[w] = "writing" /\ uri[w] = u)
  PROVE  TextsMatch' /\ WrittenIsSynced'
<1>0. Pieces \in Nat \ {0} /\ n \in Nat /\ m \in Nat /\ n <= m /\ m <= Pieces
  BY DEF Pieces
<1>1. Shape /\ data[u] \in Seq(Author \X (1..Pieces))
  BY DEF IInv, Shape
<1>2. /\ EndsWith(t, a, m)
      /\ NotSplit(data[u]) => NotSplit(t)
      /\ \A b : b # a /\ EndsWith(data[u], b, 0) => EndsWith(t, b, 0)
      /\ \A b, j : j \in 0..Len(data[u]) /\ HasText(data[u], b, j) => HasText(t, b, j)
  BY <1>0, <1>1, ExtendsKeeps
<1>3. \A x \in Uri : data'[x] = IF x = u THEN t ELSE data[x]
  BY <1>1 DEF Shape
<1>4. a \in Write => u \in Included /\ answer[a] = "none"
  BY DEF IInv, GatesMatch, InAppend
<1>5. ASSUME NEW w \in Write, NEW x \in Uri,
             x # uri[w] \/ pc[w] \in Early \/ answer[w] = "refused" \/ x \notin Included
      PROVE  EndsWith(data'[x], w, 0)
  <2>1. EndsWith(data[x], w, 0)
    BY <1>5 DEF IInv, TextsMatch, Early
  <2>2. CASE x = u
    <3>1. w # a
      BY <1>4, <1>5, <2>2 DEF Early
    <3> QED
      BY <1>2, <1>3, <2>1, <2>2, <3>1
  <2> QED
    BY <1>3, <2>1, <2>2
<1>6. ASSUME NEW w \in Write, pc[w] = "writing"
      PROVE  \E k \in 0..Pieces : EndsWith(data'[uri[w]], w, k)
  <2>1. uri[w] \in Uri /\ \E k \in 0..Pieces : EndsWith(data[uri[w]], w, k)
    BY <1>1, <1>6 DEF IInv, TextsMatch, Shape
  <2>2. CASE uri[w] = u
    <3>1. a \in Write /\ a = w
      BY <1>6, <2>2, Alone DEF Author
    <3> QED
      BY <1>0, <1>2, <1>3, <2>1, <2>2, <3>1
  <2> QED
    BY <1>3, <2>1, <2>2
<1>7. ASSUME NEW x \in Uri
      PROVE  /\ foreign'[x] < Pieces => EndsWith(data'[x], Foreign, foreign'[x])
             /\ NotSplit(data'[x])
  <2>1. /\ foreign[x] < Pieces => EndsWith(data[x], Foreign, foreign[x])
        /\ NotSplit(data[x])
    BY DEF IInv, TextsMatch
  <2>2. CASE x = u /\ a = Foreign
    BY <1>2, <1>3, <2>1, <2>2
  <2>3. CASE x = u /\ a # Foreign
    <3>1. foreign'[x] = foreign[x] /\ foreign[x] \in {0, Pieces}
      BY <2>3, Alone DEF Author
    <3> QED
      BY <1>0, <1>2, <1>3, <2>1, <2>3, <3>1
  <2>4. CASE x # u
    BY <1>3, <2>1, <2>4
  <2> QED
    BY <2>2, <2>3, <2>4
<1>8. TextsMatch'
  BY <1>5, <1>6, <1>7 DEF TextsMatch, Early
<1>9. ASSUME NEW w \in Write, answer[w] = "written"
      PROVE  HasText(data'[uri[w]], w, synced[uri[w]])
  <2>1. HasText(data[uri[w]], w, synced[uri[w]]) /\ synced[uri[w]] \in 0..Len(data[uri[w]]) /\ uri[w] \in Uri
    BY <1>1, <1>9 DEF IInv, WrittenIsSynced, Shape
  <2> QED
    BY <1>2, <1>3, <2>1
<1>10. WrittenIsSynced'
  BY <1>9 DEF WrittenIsSynced
<1> QED
  BY <1>8, <1>10

\* A longer file keeps its shape, and no control depends on what is in it.
LEMMA ControlRests ==
  ASSUME IInv, UNCHANGED <<locking, pc, uri, home, mutex, flock, answer>>
  PROVE  /\ MutexMatches' /\ GatesMatch'
         /\ foreign' = foreign => LockMatches'
BY DEF IInv, MutexMatches, GatesMatch, LockMatches

LEMMA WritePieceHolds ==
  ASSUME IInv, NEW w \in Write, WritePiece(w)
  PROVE  IInv'
<1> DEFINE u == uri[w]
           s == data[u]
<1>0. Pieces \in Nat \ {0}
  BY DEF Pieces
<1>1. Shape /\ pc[w] = "writing" /\ u \in Uri /\ s \in Seq(Author \X (1..Pieces))
  BY DEF IInv, Shape, WritePiece
<1>2. PICK n \in 0..Pieces : EndsWith(s, w, n)
  BY <1>1 DEF IInv, TextsMatch
<1>3. Put(w) = n
  BY <1>1, <1>2, PutCounts
<1>4. PICK m \in n + 1..Pieces :
        data' = [data EXCEPT ![u] = s \o SubSeq(Text(w), n + 1, m)]
  BY <1>3 DEF WritePiece
<1> DEFINE t == s \o SubSeq(Text(w), n + 1, m)
<1>5. t \in Seq(Author \X (1..Pieces)) /\ Extends(t, s, w, n, m)
  BY <1>1, PieceExtends
<1> HIDE DEF t
<1>6. data' = [data EXCEPT ![u] = t]
  BY <1>4 DEF t
<1>7. UNCHANGED <<locking, pc, uri, home, mutex, synced, flock, foreign, answer>>
  BY DEF WritePiece
<1>8. w \in Author /\ m \in n..Pieces /\ w # Foreign
  BY <1>0, WritePathAssumption DEF Author
<1>9. TextsMatch' /\ WrittenIsSynced'
  <2>1. \A x \in Uri : foreign'[x] = IF x = u /\ w = Foreign THEN m ELSE foreign[x]
    BY <1>7, <1>8
  <2>2. foreign' \in [Uri -> 0..Pieces]
    BY <1>1, <1>7 DEF Shape
  <2> QED
    BY <1>1, <1>2, <1>5, <1>6, <1>7, <1>8, <2>1, <2>2, TextsGrow
<1>10. Shape'
  <2>1. data' \in [Uri -> Seq(Author \X (1..Pieces))]
    BY <1>1, <1>5, <1>6 DEF Shape
  <2>2. Len(s) <= Len(t)
    BY <1>0, <1>1, <1>5 DEF Extends
  <2>3. \A x \in Uri : synced[x] <= Len(data'[x])
    <3> SUFFICES ASSUME NEW x \in Uri
                 PROVE  synced[x] <= Len(data'[x])
      OBVIOUS
    <3>1. synced[x] \in Nat /\ synced[x] <= Len(data[x])
      BY <1>1 DEF Shape
    <3>2. CASE x = u
      <4>1. data'[x] = t /\ data[x] = s
        BY <1>1, <1>6, <3>2 DEF Shape
      <4>2. Len(s) \in Nat /\ Len(t) \in Nat
        BY <1>1, <1>5
      <4> QED
        BY <2>2, <3>1, <4>1, <4>2
    <3>3. CASE x # u
      BY <1>1, <1>6, <3>1, <3>3 DEF Shape
    <3> QED
      BY <3>2, <3>3
  <2> QED
    BY <1>1, <1>7, <2>1, <2>3 DEF Shape
<1> QED
  BY <1>7, <1>9, <1>10, ControlRests DEF IInv

LEMMA ForeignWriteHolds ==
  ASSUME IInv, NEW u \in Uri, ForeignWrite(u)
  PROVE  IInv'
<1> DEFINE s == data[u]
           n == foreign[u]
           t == Append(s, <<Foreign, n + 1>>)
<1>0. Pieces \in Nat \ {0}
  BY DEF Pieces
<1>1. Shape /\ s \in Seq(Author \X (1..Pieces)) /\ n \in 0..Pieces /\ n < Pieces /\ Foreign \in flock[u]
  BY DEF IInv, Shape, ForeignWrite
<1>2. /\ foreign' = [foreign EXCEPT ![u] = n + 1]
      /\ data' = [data EXCEPT ![u] = Append(s, <<Foreign, foreign'[u]>>)]
      /\ UNCHANGED <<locking, pc, uri, home, mutex, synced, flock, answer>>
  BY DEF ForeignWrite
<1>3. data' = [data EXCEPT ![u] = t] /\ foreign' \in [Uri -> 0..Pieces]
      /\ \A x \in Uri : foreign'[x] = IF x = u THEN n + 1 ELSE foreign[x]
  BY <1>0, <1>1, <1>2 DEF Shape
<1>4. t \in Seq(Author \X (1..Pieces)) /\ Extends(t, s, Foreign, n, n + 1)
  <2>1. n \in Nat /\ n + 1 <= Pieces
    BY <1>0, <1>1
  <2> QED
    BY <1>1, <2>1, AppendExtends
<1>5. Len(t) = Len(s) + 1
  BY <1>1
<1> HIDE DEF t
<1>6. EndsWith(s, Foreign, n) /\ n + 1 \in n..Pieces /\ Foreign \in Author
  BY <1>0, <1>1 DEF IInv, TextsMatch, Author
<1>7. \A w \in Write : ~ (pc[w] = "writing" /\ uri[w] = u)
  BY <1>1, Alone
<1>8. TextsMatch' /\ WrittenIsSynced'
  <2>1. Foreign \notin Write
    BY WritePathAssumption
  <2>2. \A x \in Uri : foreign'[x] = IF x = u /\ Foreign = Foreign THEN n + 1 ELSE foreign[x]
    BY <1>3
  <2> QED
    BY <1>1, <1>2, <1>3, <1>4, <1>6, <1>7, <2>1, <2>2, TextsGrow
<1>9. Shape'
  <2>1. data' \in [Uri -> Seq(Author \X (1..Pieces))]
    BY <1>1, <1>3, <1>4 DEF Shape
  <2>2. \A x \in Uri : synced[x] <= Len(data'[x])
    <3> SUFFICES ASSUME NEW x \in Uri
                 PROVE  synced[x] <= Len(data'[x])
      OBVIOUS
    <3>1. synced[x] \in Nat /\ synced[x] <= Len(data[x]) /\ data[x] \in Seq(Author \X (1..Pieces))
      BY <1>1 DEF Shape
    <3>2. data'[x] = IF x = u THEN t ELSE data[x]
      BY <1>1, <1>3 DEF Shape
    <3> QED
      BY <1>5, <3>1, <3>2
  <2> QED
    BY <1>1, <1>2, <1>3, <2>1, <2>2 DEF Shape
<1>10. LockMatches'
  <2>1. \A x \in Uri : foreign'[x] \notin {0, Pieces} => Foreign \in flock[x]
    BY <1>1, <1>3 DEF IInv, LockMatches
  <2>2. locking # "none"
    BY <1>1 DEF IInv, LockMatches
  <2> QED
    BY <1>2, <2>1, <2>2 DEF IInv, LockMatches
<1> QED
  BY <1>2, <1>8, <1>9, <1>10, ControlRests DEF IInv

\* The foreign program takes and gives back the lock.
LEMMA ForeignLockHolds ==
  ASSUME IInv, NEW u \in Uri, ForeignLock(u) \/ ForeignUnlock(u)
  PROVE  IInv'
<1>1. /\ \/ locking = "flock" /\ flock[u] = {} /\ flock' = [flock EXCEPT ![u] = {Foreign}]
         \/ Foreign \in flock[u] /\ foreign[u] \in {0, Pieces} /\ flock' = [flock EXCEPT ![u] = {}]
      /\ UNCHANGED <<locking, pc, uri, home, mutex, data, synced, foreign, answer>>
  BY DEF ForeignLock, ForeignUnlock
<1>2. Shape /\ LockMatches
  BY DEF IInv
<1>3. Shape'
  <2>1. {Foreign} \in SUBSET Author /\ {} \in SUBSET Author
    BY DEF Author
  <2>2. flock' \in [Uri -> SUBSET Author]
    BY <1>1, <1>2, <2>1 DEF Shape
  <2> QED
    BY <1>1, <1>2, <2>2 DEF Shape
<1>4. LockMatches'
  <2>1. CASE locking = "flock" /\ flock[u] = {} /\ flock' = [flock EXCEPT ![u] = {Foreign}]
    <3>1. \A x \in Uri : flock'[x] = IF x = u THEN {Foreign} ELSE flock[x]
      BY <1>2, <2>1 DEF Shape
    <3>2. ASSUME NEW x \in Uri, NEW w \in Write
          PROVE  w \in flock'[x] <=> uri[w] = x /\ pc[w] \in {"writing", "closing"}
      BY <1>2, <2>1, <3>1, WritePathAssumption DEF LockMatches
    <3> QED
      BY <1>1, <1>2, <2>1, <3>1, <3>2 DEF LockMatches
  <2>2. CASE Foreign \in flock[u] /\ foreign[u] \in {0, Pieces} /\ flock' = [flock EXCEPT ![u] = {}]
    <3>1. \A x \in Uri : flock'[x] = IF x = u THEN {} ELSE flock[x]
      BY <1>2, <2>2 DEF Shape
    <3>2. \A w \in Write : w \notin flock[u]
      BY <1>2, <2>2, WritePathAssumption DEF LockMatches
    <3> QED
      BY <1>1, <1>2, <2>2, <3>1, <3>2 DEF LockMatches
  <2> QED
    BY <1>1, <2>1, <2>2
<1>5. MutexMatches' /\ GatesMatch' /\ TextsMatch' /\ WrittenIsSynced'
  BY <1>1 DEF IInv, MutexMatches, GatesMatch, TextsMatch, WrittenIsSynced
<1> QED
  BY <1>3, <1>4, <1>5 DEF IInv

\* A text that is the end of a file as a whole is in it.
LEMMA EndIsText ==
  ASSUME NEW s, Len(s) \in Nat, NEW a, EndsWith(s, a, Pieces)
  PROVE  HasText(s, a, Len(s))
<1>1. Pieces \in Nat \ {0} /\ Pieces <= Len(s)
  BY DEF EndsWith, Pieces
<1>2. PICK i : i = Len(s) - Pieces + 1
  OBVIOUS
<1>3. i \in 1..Len(s) /\ i + Pieces - 1 <= Len(s)
  BY <1>1, <1>2
<1>4. ASSUME NEW k \in 1..Pieces
      PROVE  s[i + k - 1] = <<a, k>>
  <2>1. /\ i + k - 1 \in 1..Len(s) /\ i + k - 1 > Len(s) - Pieces
        /\ (i + k - 1) - (Len(s) - Pieces) = k
    BY <1>1, <1>2
  <2>2. s[i + k - 1] = <<a, (i + k - 1) - (Len(s) - Pieces)>>
    BY <2>1 DEF EndsWith
  <2> QED
    BY <2>1, <2>2
<1> QED
  BY <1>3, <1>4 DEF HasText

\* A text that is in the first m pieces is in the first n.
LEMMA HasTextGrows ==
  ASSUME NEW s, NEW a, NEW m \in Nat, NEW n \in Nat, m <= n, Len(s) \in Nat, HasText(s, a, m)
  PROVE  HasText(s, a, n)
<1>1. PICK i \in 1..Len(s) : i + Pieces - 1 <= m /\ \A k \in 1..Pieces : s[i + k - 1] = <<a, k>>
  BY DEF HasText
<1>2. i + Pieces - 1 <= n
  BY <1>1 DEF Pieces
<1> QED
  BY <1>1, <1>2 DEF HasText

LEMMA SyncHolds ==
  ASSUME IInv, NEW w \in Write, Sync(w)
  PROVE  IInv'
<1> DEFINE s == data[uri[w]]
<1>0. Pieces \in Nat \ {0}
  BY DEF Pieces
<1>1. /\ pc[w] = "writing" /\ Put(w) = Pieces
      /\ synced' = [synced EXCEPT ![uri[w]] = Len(data[uri[w]])]
      /\ pc' = [pc EXCEPT ![w] = "closing"] /\ answer' = [answer EXCEPT ![w] = "written"]
      /\ UNCHANGED <<locking, uri, home, mutex, data, flock, foreign>>
  BY DEF Sync, Goto, Answer
<1>2. Shape /\ uri[w] \in Uri /\ s \in Seq(Author \X (1..Pieces)) /\ Len(s) \in Nat
  BY DEF IInv, Shape
<1>3. \A x \in Uri : /\ synced'[x] = IF x = uri[w] THEN Len(s) ELSE synced[x]
                     /\ synced[x] \in Nat /\ synced[x] <= Len(data[x]) /\ Len(data[x]) \in Nat
  BY <1>1, <1>2 DEF Shape
<1>4. Shape'
  <2>1. synced' \in [Uri -> Nat] /\ \A x \in Uri : synced'[x] <= Len(data[x])
    BY <1>1, <1>2, <1>3 DEF Shape
  <2> QED
    BY <1>1, <1>2, <2>1 DEF Shape, InAppend
<1>5. MutexMatches'
  BY <1>1, <1>2 DEF IInv, MutexMatches, Shape, InAppend
<1>6. LockMatches'
  BY <1>1, <1>2 DEF IInv, LockMatches, Shape
<1>7. GatesMatch'
  BY <1>1, <1>2 DEF IInv, GatesMatch, Shape, InAppend
<1>8. TextsMatch'
  <2>1. \A v \in Write : /\ pc'[v] \in Early => pc[v] \in Early
                         /\ pc'[v] = "writing" => pc[v] \in {"opened", "writing"}
                         /\ answer'[v] = "refused" => answer[v] = "refused" \/ pc[v] \in Early
    BY <1>1, <1>2 DEF Shape, Early
  <2> QED
    BY <1>1, <1>2, <2>1, TextsRest DEF IInv, Shape
<1>9. HasText(s, w, Len(s))
  <2>1. PICK n \in 0..Pieces : EndsWith(s, w, n)
    BY <1>1 DEF IInv, TextsMatch
  <2>2. n = Pieces
    BY <1>1, <1>2, <2>1, PutCounts
  <2> QED
    BY <1>2, <2>1, <2>2, EndIsText
<1>10. ASSUME NEW v \in Write, answer'[v] = "written"
       PROVE  HasText(data[uri[v]], v, synced'[uri[v]])
  <2>1. CASE v = w
    BY <1>2, <1>3, <1>9, <2>1
  <2>2. CASE v # w
    <3>1. HasText(data[uri[v]], v, synced[uri[v]]) /\ uri[v] \in Uri
      BY <1>1, <1>2, <1>10, <2>2 DEF IInv, WrittenIsSynced, Shape
    <3>2. synced[uri[v]] <= synced'[uri[v]] /\ synced'[uri[v]] \in Nat /\ synced[uri[v]] \in Nat
      BY <1>3, <3>1
    <3> QED
      BY <1>3, <3>1, <3>2, HasTextGrows
  <2> QED
    BY <2>1, <2>2
<1>11. WrittenIsSynced'
  BY <1>1, <1>10 DEF WrittenIsSynced
<1> QED
  BY <1>4, <1>5, <1>6, <1>7, <1>8, <1>11 DEF IInv

-----------------------------------------------------------------------------
(* Processes that die *)

\* What is common to a kill and a power cut: the writes of the processes that die are
\* over, and their mutexes are gone.
LEMMA DieHolds ==
  ASSUME IInv, NEW killed \in SUBSET Proc, Die(killed), UNCHANGED <<uri, home, answer>>
  PROVE  /\ pc' \in [Write -> {"idle", "admitted", "returned", "killed"} \union InAppend]
         /\ mutex' \in [Proc -> SUBSET Write]
         /\ MutexMatches' /\ GatesMatch'
         /\ \A w \in Write : pc'[w] = IF home[w] \in killed /\ pc[w] \notin {"idle", "returned"}
                                      THEN "killed" ELSE pc[w]
<1>1. Shape
  BY DEF IInv
<1>2. \A w \in Write : pc'[w] = IF home[w] \in killed /\ pc[w] \notin {"idle", "returned"}
                                THEN "killed" ELSE pc[w]
  BY DEF Die
<1>3. pc' \in [Write -> {"idle", "admitted", "returned", "killed"} \union InAppend]
  BY <1>1 DEF Die, Shape
<1>4. mutex' = [p \in Proc |-> IF p \in killed THEN {} ELSE mutex[p]]
  BY DEF Die
<1>5. mutex' \in [Proc -> SUBSET Write]
  BY <1>1, <1>4 DEF Shape
<1>6. MutexMatches'
  <2>1. ASSUME NEW p \in Proc, NEW w \in Write
        PROVE  w \in mutex'[p] <=> home[w] = p /\ pc'[w] \in InAppend
    <3>1. w \in mutex[p] <=> home[w] = p /\ pc[w] \in InAppend
      BY DEF IInv, MutexMatches
    <3>2. CASE p \in killed
      BY <1>2, <1>4, <3>1, <3>2 DEF InAppend
    <3>3. CASE p \notin killed
      BY <1>2, <1>4, <3>1, <3>3
    <3> QED
      BY <3>2, <3>3
  <2>2. \A p \in Proc : \A v, w \in mutex'[p] : v = w
    BY <1>4 DEF IInv, MutexMatches
  <2> QED
    BY <2>1, <2>2 DEF MutexMatches
<1>7. GatesMatch'
  BY <1>1, <1>2 DEF IInv, GatesMatch, Shape, InAppend
<1> QED
  BY <1>2, <1>3, <1>5, <1>6, <1>7

LEMMA KillHolds ==
  ASSUME IInv, NEW p \in Proc, Kill(p)
  PROVE  IInv'
<1>1. /\ Die({p})
      /\ flock' = [u \in Uri |-> {h \in flock[u] : h = Foreign \/ home[h] # p}]
      /\ UNCHANGED <<locking, uri, home, data, synced, foreign, answer>>
  BY DEF Kill
<1>2. /\ pc' \in [Write -> {"idle", "admitted", "returned", "killed"} \union InAppend]
      /\ mutex' \in [Proc -> SUBSET Write]
      /\ MutexMatches' /\ GatesMatch'
      /\ \A w \in Write : pc'[w] = IF home[w] = p /\ pc[w] \notin {"idle", "returned"}
                                   THEN "killed" ELSE pc[w]
  BY <1>1, DieHolds
<1>3. Shape
  BY DEF IInv
<1>4. Shape'
  <2>1. flock' \in [Uri -> SUBSET Author]
    BY <1>1, <1>3 DEF Shape
  <2> QED
    BY <1>1, <1>2, <1>3, <2>1 DEF Shape
<1>5. LockMatches'
  <2>1. ASSUME NEW u \in Uri, NEW w \in Write
        PROVE  w \in flock'[u] <=> locking = "flock" /\ uri[w] = u /\ pc'[w] \in {"writing", "closing"}
    BY <1>1, <1>2, WritePathAssumption DEF IInv, LockMatches
  <2>2. \A u \in Uri : flock'[u] \subseteq flock[u] /\ (Foreign \in flock[u] <=> Foreign \in flock'[u])
    BY <1>1
  <2> QED
    BY <1>1, <2>1, <2>2 DEF IInv, LockMatches
<1>6. \A w \in Write : /\ pc'[w] \in Early => pc[w] \in Early
                       /\ pc'[w] = "writing" => pc[w] \in {"opened", "writing"}
  BY <1>2, <1>3 DEF Shape, Early
<1>7. TextsMatch' /\ WrittenIsSynced'
  BY <1>1, <1>3, <1>6, TextsRest, WrittenRests DEF IInv, Shape
<1> QED
  BY <1>2, <1>4, <1>5, <1>7 DEF IInv

LEMMA PowerLossHolds ==
  ASSUME IInv, PowerLoss
  PROVE  IInv'
<1>0. Pieces \in Nat \ {0}
  BY DEF Pieces
<1>1. Shape
  BY DEF IInv
<1>2. PICK kept : /\ kept \in [Uri -> 0..(Cardinality(Write) + 1) * Pieces]
                  /\ \A u \in Uri : kept[u] \in synced[u]..Len(data[u])
                  /\ data' = [u \in Uri |-> SubSeq(data[u], 1, kept[u])]
                  /\ synced' = kept
  BY DEF PowerLoss
<1>3. /\ Die(Proc)
      /\ flock' = [u \in Uri |-> {}] /\ foreign' = [u \in Uri |-> Pieces]
      /\ UNCHANGED <<locking, uri, home, answer>>
  BY DEF PowerLoss
<1>4. /\ pc' \in [Write -> {"idle", "admitted", "returned", "killed"} \union InAppend]
      /\ mutex' \in [Proc -> SUBSET Write]
      /\ MutexMatches' /\ GatesMatch'
      /\ \A w \in Write : pc'[w] = IF pc[w] \notin {"idle", "returned"} THEN "killed" ELSE pc[w]
  <2>1. \A w \in Write : home[w] \in Proc
    BY <1>1 DEF Shape
  <2> QED
    BY <1>3, <2>1, DieHolds
<1>5. ASSUME NEW u \in Uri
      PROVE  /\ data'[u] \in Seq(Author \X (1..Pieces)) /\ Len(data'[u]) = kept[u]
             /\ kept[u] \in Nat /\ synced[u] \in 0..kept[u]
             /\ NotSplit(data[u]) => NotSplit(data'[u])
             /\ \A b : EndsWith(data[u], b, 0) => EndsWith(data'[u], b, 0)
             /\ \A b, j : j \in 0..kept[u] /\ HasText(data[u], b, j) => HasText(data'[u], b, j)
  <2>1. data[u] \in Seq(Author \X (1..Pieces)) /\ synced[u] \in Nat
    BY <1>1 DEF Shape
  <2>2. kept[u] \in 0..Len(data[u]) /\ synced[u] \in 0..kept[u] /\ kept[u] \in Nat
    BY <1>2, <2>1
  <2>3. data'[u] = SubSeq(data[u], 1, kept[u])
    BY <1>2
  <2> QED
    BY <2>1, <2>2, <2>3, CutKeeps
<1>6. Shape'
  <2>1. data' \in [Uri -> Seq(Author \X (1..Pieces))]
    BY <1>2, <1>5
  <2>2. synced' \in [Uri -> Nat] /\ \A u \in Uri : synced'[u] <= Len(data'[u])
    BY <1>2, <1>5
  <2>3. flock' \in [Uri -> SUBSET Author] /\ foreign' \in [Uri -> 0..Pieces]
    BY <1>0, <1>3
  <2> QED
    BY <1>1, <1>3, <1>4, <2>1, <2>2, <2>3 DEF Shape
<1>7. LockMatches'
  BY <1>1, <1>3, <1>4 DEF IInv, LockMatches, Shape
<1>8. TextsMatch'
  <2>1. ASSUME NEW w \in Write, NEW u \in Uri,
               \/ u # uri[w] \/ pc'[w] \in Early \/ answer[w] = "refused" \/ u \notin Included
        PROVE  EndsWith(data'[u], w, 0)
    <3>1. pc'[w] \in Early => pc[w] \in Early
      BY <1>1, <1>4 DEF Early, Shape
    <3>2. EndsWith(data[u], w, 0)
      BY <2>1, <3>1 DEF IInv, TextsMatch, Early
    <3> QED
      BY <1>5, <3>2
  <2>2. \A w \in Write : pc'[w] # "writing"
    BY <1>1, <1>4 DEF Shape
  <2>3. \A u \in Uri : ~ (foreign'[u] < Pieces)
    BY <1>0, <1>3
  <2>4. \A u \in Uri : NotSplit(data'[u])
    BY <1>5 DEF IInv, TextsMatch
  <2> QED
    BY <1>3, <2>1, <2>2, <2>3, <2>4 DEF TextsMatch, Early
<1>9. ASSUME NEW w \in Write, answer[w] = "written"
      PROVE  HasText(data'[uri[w]], w, synced'[uri[w]])
  <2>1. uri[w] \in Uri /\ HasText(data[uri[w]], w, synced[uri[w]])
    BY <1>1, <1>9 DEF IInv, WrittenIsSynced, Shape
  <2>2. HasText(data'[uri[w]], w, synced[uri[w]])
    BY <1>5, <2>1
  <2>3. /\ synced[uri[w]] \in Nat /\ synced'[uri[w]] \in Nat /\ synced[uri[w]] <= synced'[uri[w]]
        /\ Len(data'[uri[w]]) \in Nat
    BY <1>2, <1>5, <2>1
  <2> QED
    BY <2>2, <2>3, HasTextGrows
<1>10. WrittenIsSynced'
  BY <1>3, <1>9 DEF WrittenIsSynced
<1> QED
  BY <1>4, <1>6, <1>7, <1>8, <1>10 DEF IInv

-----------------------------------------------------------------------------
LEMMA NextHolds == IInv /\ [Next]_vars => IInv'
<1> SUFFICES ASSUME IInv, [Next]_vars
             PROVE  IInv'
  OBVIOUS
<1>1. ASSUME NEW w \in Write, Admit(w) \/ Refuse(w) \/ Step(w)
      PROVE  IInv'
  BY <1>1, GateHolds, EnterHolds, GoesOnHolds, TakeLockHolds, WritePieceHolds, SyncHolds,
     ReleaseHolds, LeaveHolds DEF Step
<1>2. ASSUME NEW u \in Shared, ForeignLock(u) \/ ForeignWrite(u) \/ ForeignUnlock(u)
      PROVE  IInv'
  <2>1. u \in Uri
    BY WritePathAssumption
  <2> QED
    BY <1>2, <2>1, ForeignLockHolds, ForeignWriteHolds
<1>3. ASSUME NEW p \in Proc, Kill(p)
      PROVE  IInv'
  BY <1>3, KillHolds
<1>4. CASE PowerLoss
  BY <1>4, PowerLossHolds
<1>5. CASE UNCHANGED vars
  BY <1>5 DEF vars, files, IInv, Shape, MutexMatches, LockMatches, GatesMatch, TextsMatch, WrittenIsSynced
<1> QED
  BY <1>1, <1>2, <1>3, <1>4, <1>5 DEF Next

\* The mutex and the lock of a file keep the writes apart, whatever is killed and
\* whenever the power goes: see MutexMatches, LockMatches and TextsMatch.
THEOREM Invariant == Spec => []IInv
<1>1. Init => IInv
  BY InitHolds
<1>2. IInv /\ [Next]_vars => IInv'
  BY NextHolds
<1> QED
  BY <1>1, <1>2, PTL DEF Spec

\* Every value keeps its type, and a mutex and a lock have one holder at most.
THEOREM TypeCorrect == Spec => []TypeOK
<1>1. IInv => TypeOK
  <2> SUFFICES ASSUME IInv
               PROVE  TypeOK
    OBVIOUS
  <2>1. ASSUME NEW S, \A g, h \in S : g = h
        PROVE  Cardinality(S) <= 1
    <3>1. CASE S = {}
      BY <3>1, FS_EmptySet
    <3>2. CASE S # {}
      <4>1. PICK g : S = {g}
        BY <2>1, <3>2
      <4> QED
        BY <4>1, FS_Singleton
    <3> QED
      BY <3>1, <3>2
  <2>2. \A p \in Proc : mutex[p] \subseteq Write /\ Cardinality(mutex[p]) <= 1
    BY <2>1 DEF IInv, Shape, MutexMatches
  <2>3. ASSUME NEW u \in Uri
        PROVE  /\ data[u] \in Seq((Write \union {Foreign}) \X (1..Pieces))
               /\ synced[u] \in 0..Len(data[u])
               /\ flock[u] \subseteq Write \union {Foreign} /\ Cardinality(flock[u]) <= 1
               /\ foreign[u] \in 0..Pieces
    BY <2>1 DEF IInv, Shape, LockMatches, Author
  <2> QED
    BY <2>2, <2>3 DEF TypeOK, IInv, Shape
<1> QED
  BY <1>1, Invariant, PTL

\* What pf_poke calls written (FilesystemWriter.Append returns no error) is in the file,
\* whole and in one piece, for good.
THEOREM WrittenTextsStayWhole == Spec => []WrittenStaysWhole
<1>1. IInv => WrittenStaysWhole
  <2> SUFFICES ASSUME IInv, NEW w \in Write, pc[w] = "returned", answer[w] = "written"
               PROVE  \E i \in DOMAIN data[uri[w]] :
                        /\ i + Pieces - 1 \in DOMAIN data[uri[w]]
                        /\ SubSeq(data[uri[w]], i, i + Pieces - 1) = Text(w)
    BY DEF WrittenStaysWhole
  <2> DEFINE s == data[uri[w]]
             T == Author \X (1..Pieces)
  <2>0. Pieces \in Nat \ {0}
    BY DEF Pieces
  <2>1. s \in Seq(T) /\ Len(s) \in Nat /\ DOMAIN s = 1..Len(s) /\ synced[uri[w]] <= Len(s)
        /\ synced[uri[w]] \in Nat
    BY DEF IInv, Shape
  <2>2. PICK i \in 1..Len(s) : /\ i + Pieces - 1 <= synced[uri[w]]
                               /\ \A k \in 1..Pieces : s[i + k - 1] = <<w, k>>
    BY DEF IInv, WrittenIsSynced, HasText
  <2>3. i + Pieces - 1 \in 1..Len(s)
    BY <2>0, <2>1, <2>2
  <2>4. SubSeq(s, i, i + Pieces - 1) = Text(w)
    <3> DEFINE t == SubSeq(s, i, i + Pieces - 1)
    <3>1. \A j \in i..i + Pieces - 1 : s[j] \in T
      BY <2>0, <2>1, <2>3
    <3>2. i \in Int /\ i + Pieces - 1 \in Int /\ i <= i + Pieces - 1
          /\ (i + Pieces - 1) - i + 1 = Pieces
      BY <2>0
    <3>3. /\ t \in Seq(T) /\ Len(t) = Pieces
          /\ \A k \in 1..Pieces : t[k] = s[i + k - 1]
      BY <3>1, <3>2, SubSeqProperties
    <3>4. Text(w) \in Seq(T) /\ Len(Text(w)) = Pieces /\ \A k \in 1..Pieces : Text(w)[k] = <<w, k>>
      BY TextIsSeq
    <3>5. \A k \in 1..Len(t) : t[k] = Text(w)[k]
      BY <2>2, <3>3, <3>4
    <3> HIDE DEF t, T
    <3>6. t = Text(w)
      BY <3>3, <3>4, <3>5, SeqEqual
    <3> QED
      BY <3>6 DEF t
  <2> QED
    BY <2>1, <2>3, <2>4
<1> QED
  BY <1>1, Invariant, PTL

\* No text in a file is split by another's: not by this process's, another's or a
\* foreign program's, and not around a text that failed or was killed half way.
THEOREM TextsAreInOnePiece == Spec => []NoTextIsSplit
<1>1. IInv => NoTextIsSplit
  <2> SUFFICES ASSUME IInv, NEW u \in Uri
               PROVE  \A i, j, k \in DOMAIN data[u] :
                        i < j /\ j < k /\ data[u][i][1] = data[u][k][1]
                          => data[u][j][1] = data[u][i][1]
    BY DEF NoTextIsSplit
  <2>1. data[u] \in Seq(Author \X (1..Pieces)) /\ NotSplit(data[u])
    BY DEF IInv, Shape, TextsMatch
  <2>2. DOMAIN data[u] = 1..Len(data[u])
    BY <2>1
  <2> QED
    BY <2>1, <2>2 DEF NotSplit
<1> QED
  BY <1>1, Invariant, PTL

\* Writes leave nothing in a file that FilesystemBackend would refuse to read back,
\* whatever write_paths and the write filter allow, and a refused one leaves nothing.
THEOREM WritesAreReadable == Spec => []FilesAreReadable
<1>1. IInv => FilesAreReadable
  <2> SUFFICES ASSUME IInv, NEW u \in Uri, NEW w \in Authors(u) \ {Foreign}
               PROVE  u \in Included /\ answer[w] # "refused"
    BY DEF FilesAreReadable
  <2>1. data[u] \in Seq(Author \X (1..Pieces))
    BY DEF IInv, Shape
  <2>2. PICK i \in 1..Len(data[u]) : data[u][i][1] = w
    BY <2>1 DEF Authors
  <2>3. w \in Write
    <3>1. data[u][i] \in Author \X (1..Pieces)
      BY <2>1
    <3> QED
      BY <2>2, <3>1 DEF Author
  <2>4. ~ EndsWith(data[u], w, 0)
    BY <2>1, <2>2 DEF EndsWith
  <2> QED
    BY <2>3, <2>4 DEF IInv, TextsMatch
<1> QED
  BY <1>1, Invariant, PTL
=============================================================================
