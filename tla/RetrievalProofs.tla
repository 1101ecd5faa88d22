--------------------------- MODULE RetrievalProofs ---------------------------
(***************************************************************************)
(* The safety of Retrieval, for every configuration of backends, filters   *)
(* and contexts, every file and every reply.  The recursive functions of   *)
(* the model are first shown to compute what their names say.              *)
(***************************************************************************)
EXTENDS Retrieval, FiniteSetTheorems, SequenceTheorems, WellFoundedInduction, TLAPS

-----------------------------------------------------------------------------
(* Induction over the naturals, and what a recursive function is *)

LEMMA Induction ==
  ASSUME NEW S, 0 \in S, \A n \in Nat : n \in S => n + 1 \in S
  PROVE  Nat \subseteq S
<1> DEFINE R == OpToRel(<, Nat)
<1>1. IsWellFoundedOn(R, Nat)
  BY NatLessThanWellFounded
<1> SUFFICES ASSUME Nat \ S # {} PROVE FALSE
  OBVIOUS
<1>2. PICK m \in Nat \ S : \A k \in Nat \ S : ~ (<<k, m>> \in R)
  <2> HIDE DEF R
  <2>1. Nat \ S \subseteq Nat
    OBVIOUS
  <2> QED
    BY <1>1, <2>1, WFMin
<1>3. m # 0 /\ m - 1 \in Nat
  OBVIOUS
<1>4. <<m - 1, m>> \in R
  BY <1>3 DEF OpToRel
<1>5. m - 1 \in S
  BY <1>2, <1>3, <1>4
<1> QED
  BY <1>3, <1>5

StaysIn(step, V, last) == \A v \in V, n \in 1..last : step[<<v, n>>] \in V

Follows(f, first, step, last) ==
  f[0] = first /\ \A n \in 1..last : f[n] = step[<<f[n - 1], n>>]

\* There is a function that begins with a value and follows a step.
LEMMA Recursion ==
  ASSUME NEW V, NEW first \in V, NEW last \in Nat, NEW step, StaysIn(step, V, last)
  PROVE  \E f \in [0..last -> V] : Follows(f, first, step, last)
<1> USE DEF StaysIn, Follows
<1> DEFINE Good(m) == \E f \in [0..m -> V] :
                         f[0] = first /\ \A n \in 1..m : f[n] = step[<<f[n - 1], n>>]
           S == {m \in Nat : m <= last => Good(m)}
<1>1. 0 \in S
  <2> DEFINE f == [n \in 0..0 |-> first]
  <2>1. f \in [0..0 -> V] /\ f[0] = first /\ \A n \in 1..0 : f[n] = step[<<f[n - 1], n>>]
    OBVIOUS
  <2> QED
    BY <2>1
<1>2. ASSUME NEW m \in Nat, m \in S PROVE m + 1 \in S
  <2> SUFFICES ASSUME m + 1 <= last PROVE Good(m + 1)
    OBVIOUS
  <2>1. PICK f \in [0..m -> V] :
               f[0] = first /\ \A n \in 1..m : f[n] = step[<<f[n - 1], n>>]
    BY <1>2
  <2> DEFINE g == [n \in 0..m + 1 |-> IF n = m + 1 THEN step[<<f[m], m + 1>>] ELSE f[n]]
  <2>2. step[<<f[m], m + 1>>] \in V
    BY <2>1
  <2>3. g \in [0..m + 1 -> V]
    BY <2>1, <2>2
  <2>4. ASSUME NEW n \in 1..m + 1 PROVE g[n] = step[<<g[n - 1], n>>]
    <3>1. CASE n = m + 1
      <4>1. g[n] = step[<<f[m], m + 1>>] /\ g[n - 1] = f[m] /\ n = m + 1
        BY <3>1
      <4> HIDE DEF g
      <4> QED
        BY <4>1
    <3>2. CASE n # m + 1
      <4>1. n \in 1..m /\ n - 1 \in 0..m /\ n - 1 # m + 1
        BY <3>2
      <4>2. g[n] = f[n] /\ g[n - 1] = f[n - 1]
        BY <4>1, <3>2
      <4>3. f[n] = step[<<f[n - 1], n>>]
        BY <2>1, <4>1
      <4> HIDE DEF g
      <4> QED
        BY <4>2, <4>3
    <3> QED
      BY <3>1, <3>2
  <2>5. g[0] = first
    BY <2>1
  <2> HIDE DEF g
  <2> QED
    BY <2>3, <2>4, <2>5
<1>3. last \in S
  <2> HIDE DEF S
  <2> QED
    BY <1>1, <1>2, Induction
<1> QED
  BY <1>3

-----------------------------------------------------------------------------
(* Append and \o, which the provers unfold, as terms *)

Add(s, x) == Append(s, x)
Cat(s, t) == s \o t

LEMMA CatProperties ==
  ASSUME NEW T, NEW s \in Seq(T), NEW t \in Seq(T)
  PROVE  /\ Cat(s, t) \in Seq(T) /\ Len(s) \in Nat /\ Len(t) \in Nat
         /\ Len(Cat(s, t)) = Len(s) + Len(t)
         /\ \A n \in 1..Len(s) : Cat(s, t)[n] = s[n]
         /\ \A n \in 1..Len(t) : Cat(s, t)[Len(s) + n] = t[n]
BY ConcatProperties DEF Cat

Behind(s, t) == \A n \in 1..Len(t) : Cat(s, t)[Len(s) + n] = t[n]

LEMMA CatBehind ==
  ASSUME NEW T, NEW s \in Seq(T), NEW t \in Seq(T)
  PROVE  Behind(s, t)
<1>1. \A n \in 1..Len(t) : Cat(s, t)[Len(s) + n] = t[n]
  BY ONLY s \in Seq(T), t \in Seq(T), CatProperties, SMTT(30)
<1> QED
  BY ONLY <1>1 DEF Behind

LEMMA AddToCat ==
  ASSUME NEW T, NEW s \in Seq(T), NEW t \in Seq(T), NEW x \in T
  PROVE  Add(Cat(s, t), x) = Cat(s, Add(t, x))
BY DEF Add, Cat

-----------------------------------------------------------------------------
(* Select *)

Picks(s, S) == {k \in 1..Len(s) : s[k] \in S}

\* f[n] is what is taken of the first n elements.
Takes(f, s, S) ==
  /\ f[0] = <<>>
  /\ \A n \in 1..Len(s) : f[n] = IF s[n] \in S THEN Append(f[n - 1], s[n]) ELSE f[n - 1]

LEMMA SelectTakes ==
  ASSUME NEW T, NEW s \in Seq(T), NEW S
  PROVE  \E f \in [0..Len(s) -> Seq(T \intersect S)] : Takes(f, s, S) /\ Select(s, S) = f[Len(s)]
<1> DEFINE V == Seq(T \intersect S)
           step == [p \in V \X (1..Len(s)) |->
                      IF s[p[2]] \in S THEN Append(p[1], s[p[2]]) ELSE p[1]]
           Equation(f) == f = [n \in 0..Len(s) |->
                                 IF n = 0 THEN <<>>
                                 ELSE IF s[n] \in S THEN Append(f[n - 1], s[n]) ELSE f[n - 1]]
<1>1. Len(s) \in Nat /\ \A n \in 1..Len(s) : s[n] \in T
  OBVIOUS
<1>2. <<>> \in V
  OBVIOUS
<1>3. \A v \in V, n \in 1..Len(s) :
        /\ step[<<v, n>>] = IF s[n] \in S THEN Append(v, s[n]) ELSE v
        /\ step[<<v, n>>] \in V
  <2> TAKE v \in V, n \in 1..Len(s)
  <2>1. step[<<v, n>>] = IF s[n] \in S THEN Append(v, s[n]) ELSE v
    OBVIOUS
  <2>2. s[n] \in S => Append(v, s[n]) \in V
    BY <1>1
  <2> QED
    BY <2>1, <2>2
<1>4. PICK g \in [0..Len(s) -> V] :
             Follows(g, <<>>, step, Len(s))
  <2>1. Len(s) \in Nat /\ <<>> \in V /\ StaysIn(step, V, Len(s))
    BY <1>1, <1>2, <1>3 DEF StaysIn
  <2> HIDE DEF step, V
  <2> QED
    BY ONLY <2>1, Recursion
<1>5. Equation(g)
  <2> HIDE DEF step, V
  <2>1. \A n \in 1..Len(s) : g[n - 1] \in V
    <3>1. \A n \in 1..Len(s) : n - 1 \in 0..Len(s)
      BY <1>1
    <3> QED
      BY <3>1
  <2>2. \A n \in 1..Len(s) :
          step[<<g[n - 1], n>>] = IF s[n] \in S THEN Append(g[n - 1], s[n]) ELSE g[n - 1]
    BY <2>1, <1>3
  <2>3. \A n \in 0..Len(s) :
          g[n] = IF n = 0 THEN <<>>
                 ELSE IF s[n] \in S THEN Append(g[n - 1], s[n]) ELSE g[n - 1]
    <3>1. g[0] = <<>> /\ \A n \in 1..Len(s) : g[n] = step[<<g[n - 1], n>>]
      BY <1>4 DEF Follows
    <3> TAKE n \in 0..Len(s)
    <3>2. n # 0 => n \in 1..Len(s)
      BY <1>1
    <3> QED
      BY <2>2, <3>1, <3>2
  <2> QED
    BY <2>3, <1>4
<1> DEFINE f == CHOOSE h : Equation(h)
<1>6. Select(s, S) = f[Len(s)]
  BY DEF Select
<1>7. Equation(f)
  <2> HIDE DEF Equation
  <2> QED
    BY <1>5
<1> HIDE DEF f
<1>8. \A n \in 0..Len(s) :
        f[n] = IF n = 0 THEN <<>> ELSE IF s[n] \in S THEN Append(f[n - 1], s[n]) ELSE f[n - 1]
  BY <1>7
<1>9. f = g
  <2> DEFINE Same == {n \in Nat : n <= Len(s) => f[n] = g[n]}
  <2>1. \A n \in 0..Len(s) :
          g[n] = IF n = 0 THEN <<>> ELSE IF s[n] \in S THEN Append(g[n - 1], s[n]) ELSE g[n - 1]
    BY <1>5
  <2>2. 0 \in Same
    BY <1>1, <1>8, <2>1
  <2>3. ASSUME NEW n \in Nat, n \in Same PROVE n + 1 \in Same
    <3> SUFFICES ASSUME n + 1 <= Len(s) PROVE f[n + 1] = g[n + 1]
      OBVIOUS
    <3>1. n + 1 \in 0..Len(s) /\ n + 1 # 0 /\ (n + 1) - 1 = n /\ f[n] = g[n]
      BY <1>1, <2>3
    <3>2. f[n + 1] = IF s[n + 1] \in S THEN Append(f[n], s[n + 1]) ELSE f[n]
      BY <1>8, <3>1
    <3>3. g[n + 1] = IF s[n + 1] \in S THEN Append(g[n], s[n + 1]) ELSE g[n]
      BY <2>1, <3>1
    <3> QED
      BY <3>1, <3>2, <3>3
  <2>4. Nat \subseteq Same
    <3> HIDE DEF Same
    <3> QED
      BY <2>2, <2>3, Induction
  <2>5. \A n \in 0..Len(s) : f[n] = g[n]
    BY <2>4
  <2>6. DOMAIN f = 0..Len(s) /\ f = [n \in DOMAIN f |-> f[n]]
    BY <1>7
  <2> QED
    BY <1>4, <2>5, <2>6
<1>10. Takes(f, s, S)
  BY <1>1, <1>8 DEF Takes
<1> QED
  BY <1>4, <1>6, <1>9, <1>10

\* What follows has the same elements taken of it, wherever it stands.
LEMMA SelectConcat ==
  ASSUME NEW T, NEW s \in Seq(T), NEW t \in Seq(T), NEW S
  PROVE  Select(Cat(s, t), S) = Cat(Select(s, S), Select(t, S))
<1> DEFINE W == T \intersect S
           V == Seq(W)
<1>1. /\ Len(s) \in Nat /\ Len(t) \in Nat /\ s \o t \in Seq(T) /\ Len(s \o t) = Len(s) + Len(t)
      /\ \A n \in 1..Len(s) : (s \o t)[n] = s[n]
      /\ \A n \in 1..Len(t) : (s \o t)[Len(s) + n] = t[n]
  BY ConcatProperties
<1>2. PICK f \in [0..Len(s) -> V] : Takes(f, s, S) /\ Select(s, S) = f[Len(s)]
  BY SelectTakes
<1>3. PICK g \in [0..Len(t) -> V] : Takes(g, t, S) /\ Select(t, S) = g[Len(t)]
  BY SelectTakes
<1>4. PICK h \in [0..Len(s \o t) -> V] : Takes(h, s \o t, S) /\ Select(s \o t, S) = h[Len(s \o t)]
  BY <1>1, SelectTakes
<1> DEFINE u == s \o t
<1> HIDE DEF u, V
<1>5. h[Len(s)] = f[Len(s)]
  <2> DEFINE Same == {n \in Nat : n <= Len(s) => h[n] = f[n]}
  <2>1. 0 \in Same
    BY <1>2, <1>4 DEF Takes
  <2>2. ASSUME NEW n \in Nat, n \in Same PROVE n + 1 \in Same
    <3> SUFFICES ASSUME n + 1 <= Len(s) PROVE h[n + 1] = f[n + 1]
      OBVIOUS
    <3>1. h[n] = f[n] /\ n + 1 \in 1..Len(s) /\ n + 1 \in 1..Len(s \o t) /\ (n + 1) - 1 = n
      BY <1>1, <2>2
    <3>2. (s \o t)[n + 1] = s[n + 1]
      BY <1>1, <3>1
    <3>3. f[n + 1] = IF s[n + 1] \in S THEN Append(f[n], s[n + 1]) ELSE f[n]
      BY <1>2, <3>1 DEF Takes
    <3>4. h[n + 1] = IF (s \o t)[n + 1] \in S THEN Append(h[n], (s \o t)[n + 1]) ELSE h[n]
      BY <1>4, <3>1 DEF Takes
    <3> QED
      BY <3>1, <3>2, <3>3, <3>4
  <2>3. Len(s) \in Same
    <3> HIDE DEF Same
    <3> QED
      BY <1>1, <2>1, <2>2, Induction
  <2> QED
    BY <1>1, <2>3
<1>6. f[Len(s)] \in V
  <2>1. Len(s) \in 0..Len(s)
    BY <1>1
  <2> QED
    BY <2>1
<1>7. h[Len(s) + Len(t)] = Cat(f[Len(s)], g[Len(t)])
  <2> DEFINE Same == {n \in Nat : n <= Len(t) => h[Len(s) + n] = Cat(f[Len(s)], g[n])}
  <2>1. 0 \in Same
    <3>1. g[0] = <<>>
      BY <1>3 DEF Takes
    <3>2. f[Len(s)] \o g[0] = f[Len(s)]
      BY <3>1, <1>6 DEF V
    <3> QED
      BY <1>1, <1>5, <3>2 DEF Cat
  <2>2. ASSUME NEW n \in Nat, n \in Same PROVE n + 1 \in Same
    <3> SUFFICES ASSUME n + 1 <= Len(t) PROVE h[Len(s) + (n + 1)] = Cat(f[Len(s)], g[n + 1])
      OBVIOUS
    <3>1. /\ h[Len(s) + n] = Cat(f[Len(s)], g[n]) /\ n + 1 \in 1..Len(t) /\ (n + 1) - 1 = n
          /\ Len(s) + (n + 1) \in 1..Len(s \o t) /\ (Len(s) + (n + 1)) - 1 = Len(s) + n
      BY <1>1, <2>2
    <3>2. (s \o t)[Len(s) + (n + 1)] = t[n + 1]
      BY <1>1, <3>1
    <3>3. g[n + 1] = IF t[n + 1] \in S THEN Add(g[n], t[n + 1]) ELSE g[n]
      BY <1>3, <3>1 DEF Takes, Add
    <3>4. h[Len(s) + (n + 1)]
            = IF t[n + 1] \in S THEN Add(h[Len(s) + n], t[n + 1]) ELSE h[Len(s) + n]
      BY <1>4, <3>1, <3>2 DEF Takes, Add
    <3>5. n \in 0..Len(t) /\ t[n + 1] \in T
      BY <1>1, <3>1
    <3>6. f[Len(s)] \in Seq(W) /\ g[n] \in Seq(W) /\ (t[n + 1] \in S => t[n + 1] \in W)
      BY <1>6, <3>5 DEF V
    <3> HIDE DEF W
    <3>7. t[n + 1] \in S =>
            Add(Cat(f[Len(s)], g[n]), t[n + 1]) = Cat(f[Len(s)], Add(g[n], t[n + 1]))
      BY <3>6, AddToCat
    <3> QED
      BY <3>1, <3>3, <3>4, <3>7
  <2>3. Len(t) \in Same
    <3> HIDE DEF Same
    <3> QED
      BY <1>1, <2>1, <2>2, Induction
  <2> QED
    BY <1>1, <2>3
<1> QED
  BY <1>1, <1>2, <1>3, <1>4, <1>7 DEF Cat

-----------------------------------------------------------------------------
(* FlattenSeq *)

\* f[n] is what the first n sequences make.
Joins(f, ss) ==
  /\ f[0] = <<>>
  /\ \A n \in 1..Len(ss) : f[n] = Cat(f[n - 1], ss[n])

LEMMA FlattenJoins ==
  ASSUME NEW T, NEW ss \in Seq(Seq(T))
  PROVE  \E f \in [0..Len(ss) -> Seq(T)] : Joins(f, ss) /\ FlattenSeq(ss) = f[Len(ss)]
<1>1. Len(ss) \in Nat /\ \A n \in 1..Len(ss) : ss[n] \in Seq(T)
  OBVIOUS
<1> DEFINE V == Seq(T)
           step == [p \in V \X (1..Len(ss)) |-> Cat(p[1], ss[p[2]])]
<1>2. \A v \in V, n \in 1..Len(ss) :
        step[<<v, n>>] = Cat(v, ss[n]) /\ step[<<v, n>>] \in V
  <2> TAKE v \in V, n \in 1..Len(ss)
  <2>1. step[<<v, n>>] = Cat(v, ss[n])
    OBVIOUS
  <2>2. Cat(v, ss[n]) \in V
    BY <1>1, ConcatProperties DEF Cat
  <2> QED
    BY <2>1, <2>2
<1>3. PICK g \in [0..Len(ss) -> V] : Follows(g, <<>>, step, Len(ss))
  <2>1. <<>> \in V
    OBVIOUS
  <2> HIDE DEF step, V
  <2>2. Len(ss) \in Nat /\ StaysIn(step, V, Len(ss))
    BY <1>1, <1>2 DEF StaysIn
  <2> QED
    BY ONLY <2>1, <2>2, Recursion
<1>4. Joins(g, ss)
  <2> HIDE DEF step, V
  <2>1. g[0] = <<>> /\ \A n \in 1..Len(ss) : g[n] = step[<<g[n - 1], n>>]
    BY <1>3 DEF Follows
  <2>2. ASSUME NEW n \in 1..Len(ss) PROVE g[n] = Cat(g[n - 1], ss[n])
    <3>1. n - 1 \in 0..Len(ss)
      BY <1>1
    <3>2. g[n - 1] \in V
      BY <3>1
    <3> QED
      BY <1>2, <2>1, <3>2
  <2> QED
    BY <2>1, <2>2 DEF Joins
<1>5. CASE Len(ss) = 0
  <2>1. ss = <<>>
    BY <1>5
  <2>2. FlattenSeq(ss) = <<>>
    BY <1>5, <2>1 DEF FlattenSeq
  <2> QED
    BY <1>4, <1>5, <2>2 DEF Joins
<1>6. CASE Len(ss) # 0
  <2> DEFINE Equation(f) == f = [i \in 1..Len(ss) |-> IF i = 1 THEN ss[i] ELSE f[i - 1] \o ss[i]]
             h == [i \in 1..Len(ss) |-> g[i]]
             f == CHOOSE e : Equation(e)
  <2>1. g[1] = ss[1]
    <3>1. 1 \in 1..Len(ss) /\ ss[1] \in Seq(T)
      BY <1>1, <1>6
    <3>2. g[1] = Cat(<<>>, ss[1])
      BY <1>4, <3>1 DEF Joins
    <3> QED
      BY <3>1, <3>2 DEF Cat
  <2>2. Equation(h)
    <3>1. ASSUME NEW i \in 1..Len(ss)
          PROVE  h[i] = IF i = 1 THEN ss[i] ELSE h[i - 1] \o ss[i]
      <4>1. CASE i = 1
        BY <2>1, <4>1
      <4>2. CASE i # 1
        <5>1. i - 1 \in 1..Len(ss) /\ g[i] = Cat(g[i - 1], ss[i])
          BY <1>1, <1>4, <4>2 DEF Joins
        <5> QED
          BY <4>2, <5>1 DEF Cat
      <4> QED
        BY <4>1, <4>2
    <3> HIDE DEF h
    <3>2. h = [i \in 1..Len(ss) |-> h[i]]
      BY DEF h
    <3> QED
      BY <3>1, <3>2
  <2>3. FlattenSeq(ss) = f[Len(ss)]
    BY <1>6 DEF FlattenSeq
  <2>4. Equation(f)
    <3> HIDE DEF Equation, h
    <3> QED
      BY <2>2
  <2> HIDE DEF f, h
  <2>5. f[1] = ss[1] /\ \A i \in 2..Len(ss) : f[i] = Cat(f[i - 1], ss[i])
    <3>1. \A i \in 1..Len(ss) : f[i] = IF i = 1 THEN ss[i] ELSE f[i - 1] \o ss[i]
      BY <2>4
    <3>2. 1 \in 1..Len(ss) /\ \A i \in 2..Len(ss) : i \in 1..Len(ss) /\ i # 1
      BY <1>1, <1>6
    <3> QED
      BY <3>1, <3>2 DEF Cat
  <2> DEFINE Same == {n \in Nat : n + 1 <= Len(ss) => f[n + 1] = g[n + 1]}
  <2>6. 0 \in Same
    BY <2>1, <2>5
  <2>7. ASSUME NEW n \in Nat, n \in Same PROVE n + 1 \in Same
    <3> SUFFICES ASSUME (n + 1) + 1 <= Len(ss) PROVE f[(n + 1) + 1] = g[(n + 1) + 1]
      OBVIOUS
    <3>1. /\ (n + 1) + 1 \in 2..Len(ss) /\ (n + 1) + 1 \in 1..Len(ss)
          /\ ((n + 1) + 1) - 1 = n + 1 /\ f[n + 1] = g[n + 1]
      BY <1>1, <2>7
    <3> QED
      BY <1>4, <2>5, <3>1 DEF Joins
  <2>8. Len(ss) - 1 \in Same
    <3> HIDE DEF Same
    <3>1. Len(ss) - 1 \in Nat
      BY <1>1, <1>6
    <3> QED
      BY <2>6, <2>7, <3>1, Induction
  <2>9. f[Len(ss)] = g[Len(ss)]
    BY <1>1, <1>6, <2>8
  <2> QED
    BY <1>4, <2>3, <2>9
<1> QED
  BY <1>5, <1>6

-----------------------------------------------------------------------------
(* Places in a selection *)

UpTo(A, n) == {k \in A : k <= n}

LEMMA UpToCounts ==
  ASSUME NEW A \in SUBSET (Nat \ {0}), NEW n \in Nat
  PROVE  /\ IsFiniteSet(UpTo(A, n)) /\ Cardinality(UpTo(A, n)) \in Nat
         /\ UpTo(A, 0) = {} /\ Cardinality(UpTo(A, 0)) = 0
         /\ Cardinality(UpTo(A, n + 1))
              = IF n + 1 \in A THEN Cardinality(UpTo(A, n)) + 1 ELSE Cardinality(UpTo(A, n))
<1>1. \A k \in A : k \in Nat /\ k >= 1
  OBVIOUS
<1>2. UpTo(A, n) \subseteq 1..n /\ UpTo(A, 0) = {}
  <2>1. ASSUME NEW k \in UpTo(A, n) PROVE k \in 1..n
    <3>1. k \in A /\ k <= n
      BY DEF UpTo
    <3> QED
      BY <1>1, <3>1
  <2>2. ASSUME NEW k \in UpTo(A, 0) PROVE FALSE
    <3>1. k \in A /\ k <= 0
      BY DEF UpTo
    <3> QED
      BY <1>1, <3>1
  <2> QED
    BY <2>1, <2>2
<1>3. IsFiniteSet(1..n)
  BY FS_Interval
<1>4. IsFiniteSet(UpTo(A, n)) /\ Cardinality(UpTo(A, n)) \in Nat
  <2>1. UpTo(A, n) \in SUBSET (1..n)
    BY <1>2
  <2>2. IsFiniteSet(UpTo(A, n))
    BY <1>3, <2>1, FS_Subset
  <2> QED
    BY <2>2, FS_CardinalityType
<1>5. n + 1 \in A => UpTo(A, n + 1) = UpTo(A, n) \union {n + 1} /\ n + 1 \notin UpTo(A, n)
  <2>1. \A k \in A : k <= n + 1 <=> k <= n \/ k = n + 1
    BY <1>1
  <2>2. ~ (n + 1 <= n)
    OBVIOUS
  <2> QED
    BY <2>1, <2>2 DEF UpTo
<1>6. n + 1 \notin A => UpTo(A, n + 1) = UpTo(A, n)
  <2> SUFFICES ASSUME n + 1 \notin A, NEW k \in A PROVE k <= n + 1 <=> k <= n
    BY DEF UpTo
  <2> QED
    BY <1>1
<1>7. Cardinality(UpTo(A, 0)) = 0
  BY <1>2, FS_EmptySet
<1>8. n + 1 \in A => Cardinality(UpTo(A, n + 1)) = Cardinality(UpTo(A, n)) + 1
  BY <1>4, <1>5, FS_AddElement
<1> QED
  BY <1>2, <1>4, <1>6, <1>7, <1>8

Places(sel, s, S) ==
  \A k \in Picks(s, S) : sel[Cardinality(UpTo(Picks(s, S), k))] = s[k]

\* A selection has one element for each pick, the k-th element at the place that k has
\* among the picks.
LEMMA SelectRanks ==
  ASSUME NEW T, NEW s \in Seq(T), NEW S
  PROVE  /\ Select(s, S) \in Seq(T \intersect S)
         /\ Len(Select(s, S)) = Cardinality(UpTo(Picks(s, S), Len(s)))
         /\ Places(Select(s, S), s, S)
<1> DEFINE W == T \intersect S
           A == Picks(s, S)
           Count(n) == Cardinality(UpTo(A, n))
<1>1. PICK f \in [0..Len(s) -> Seq(W)] : Takes(f, s, S) /\ Select(s, S) = f[Len(s)]
  BY SelectTakes
<1>2. Len(s) \in Nat /\ Len(s) \in 0..Len(s)
  OBVIOUS
<1>3. A \in SUBSET (Nat \ {0}) /\ \A k \in A : k \in 1..Len(s)
  BY <1>2 DEF Picks
<1>4. \A n \in Nat : /\ Count(n) \in Nat /\ Count(0) = 0
                     /\ Count(n + 1) = IF n + 1 \in A THEN Count(n) + 1 ELSE Count(n)
  <2> HIDE DEF A
  <2> QED
    BY <1>3, UpToCounts
<1>5. \A n \in 1..Len(s) : s[n] \in S <=> n \in A
  BY DEF Picks
<1>6. \A n \in 1..Len(s) : s[n] \in S => s[n] \in W
  OBVIOUS
<1> HIDE DEF A, Count, W
<1> DEFINE Placed(n) == /\ Len(f[n]) = Count(n)
                        /\ \A k \in A : k <= n => Count(k) \in 1..Count(n) /\ f[n][Count(k)] = s[k]
           Good == {n \in Nat : n <= Len(s) => Placed(n)}
<1>7. 0 \in Good
  <2>1. f[0] = <<>>
    BY <1>1 DEF Takes
  <2>2. \A k \in A : ~ (k <= 0)
    BY <1>3
  <2> QED
    BY <1>4, <2>1, <2>2
<1>8. ASSUME NEW n \in Nat, n \in Good PROVE n + 1 \in Good
  <2> SUFFICES ASSUME n + 1 <= Len(s) PROVE Placed(n + 1)
    OBVIOUS
  <2>1. n + 1 \in 1..Len(s) /\ (n + 1) - 1 = n /\ n \in 0..Len(s)
    BY <1>2
  <2>2. Placed(n)
    BY <1>2, <1>8, <2>1
  <2>3. \A k \in A : k <= n + 1 <=> (k <= n \/ k = n + 1)
    BY <1>3
  <2>4. f[n] \in Seq(W) /\ Count(n) \in Nat
    BY <1>4, <2>1
  <2>5. CASE n + 1 \notin A
    <3>1. f[n + 1] = f[n] /\ Count(n + 1) = Count(n)
      BY <1>1, <1>4, <1>5, <2>1, <2>5 DEF Takes
    <3> QED
      BY <2>2, <2>3, <2>5, <3>1
  <2>6. CASE n + 1 \in A
    <3>1. f[n + 1] = Append(f[n], s[n + 1]) /\ Count(n + 1) = Count(n) + 1
      BY <1>1, <1>4, <1>5, <2>1, <2>6 DEF Takes
    <3>2. s[n + 1] \in W
      BY <1>5, <1>6, <2>1, <2>6
    <3>3. /\ Len(f[n + 1]) = Len(f[n]) + 1 /\ f[n + 1][Len(f[n]) + 1] = s[n + 1]
          /\ \A i \in 1..Len(f[n]) : f[n + 1][i] = f[n][i]
      BY <2>4, <3>1, <3>2
    <3>4. Len(f[n]) = Count(n)
      BY <2>2
    <3>5. ASSUME NEW k \in A, k <= n + 1
          PROVE  Count(k) \in 1..Count(n + 1) /\ f[n + 1][Count(k)] = s[k]
      <4>1. CASE k = n + 1
        BY <2>4, <3>1, <3>3, <3>4, <4>1
      <4>2. CASE k <= n
        <5>1. Count(k) \in 1..Count(n) /\ f[n][Count(k)] = s[k]
          BY <2>2, <4>2
        <5> QED
          BY <2>4, <3>1, <3>3, <3>4, <5>1
      <4> QED
        BY <2>3, <3>5, <4>1, <4>2
    <3> QED
      BY <3>1, <3>3, <3>4, <3>5
  <2> QED
    BY <2>5, <2>6
<1>9. Placed(Len(s))
  <2>1. Nat \subseteq Good
    <3> HIDE DEF Good
    <3> QED
      BY <1>7, <1>8, Induction
  <2>2. Len(s) \in Good
    BY <1>2, <2>1
  <2> QED
    BY <1>2, <2>2
<1>10. f[Len(s)] \in Seq(W)
  BY <1>2
<1>11. \A k \in A : k <= Len(s)
  BY <1>2, <1>3
<1> QED
  BY <1>1, <1>9, <1>10, <1>11 DEF A, Count, W, Places

-----------------------------------------------------------------------------
(* Places in a selection of what several sequences make together *)

\* The picks of the first n sequences, as pairs of a sequence and a place in it.
Chosen(ss, S, n) == {p \in (1..n) \X (Nat \ {0}) : p[2] \in Picks(ss[p[1]], S)}

Before(W, p) == {q \in W : q[1] < p[1] \/ (q[1] = p[1] /\ q[2] < p[2])}

LEMMA DisjointCounts ==
  ASSUME NEW A, NEW B, IsFiniteSet(A), IsFiniteSet(B), A \intersect B = {}
  PROVE  IsFiniteSet(A \union B) /\ Cardinality(A \union B) = Cardinality(A) + Cardinality(B)
<1>1. Cardinality(A \union B) = Cardinality(A) + Cardinality(B) - Cardinality(A \intersect B)
  BY FS_Union
<1>2. Cardinality(A \intersect B) = 0
  BY FS_EmptySet
<1>3. Cardinality(A) \in Nat /\ Cardinality(B) \in Nat
  BY FS_CardinalityType
<1>4. IsFiniteSet(A \union B)
  BY FS_Union
<1> QED
  BY <1>1, <1>2, <1>3, <1>4

LEMMA RowCounts ==
  ASSUME NEW i, NEW A, IsFiniteSet(A)
  PROVE  IsFiniteSet({i} \X A) /\ Cardinality({i} \X A) = Cardinality(A)
<1>1. IsFiniteSet({i}) /\ Cardinality({i}) = 1
  BY FS_Singleton
<1>2. IsFiniteSet({i} \X A) /\ Cardinality({i} \X A) = Cardinality({i}) * Cardinality(A)
  BY <1>1, FS_Product
<1>3. Cardinality(A) \in Nat
  BY FS_CardinalityType
<1> QED
  BY <1>1, <1>2, <1>3

LEMMA PicksFinite ==
  ASSUME NEW T, NEW s \in Seq(T), NEW S
  PROVE  /\ Picks(s, S) \in SUBSET (Nat \ {0}) /\ IsFiniteSet(Picks(s, S))
         /\ UpTo(Picks(s, S), Len(s)) = Picks(s, S)
<1>1. Len(s) \in Nat
  OBVIOUS
<1>2. Picks(s, S) \subseteq 1..Len(s)
  BY DEF Picks
<1>3. Picks(s, S) \in SUBSET (Nat \ {0})
  BY <1>1, <1>2
<1>4. UpTo(Picks(s, S), Len(s)) = Picks(s, S)
  BY <1>1, <1>2 DEF UpTo
<1>5. IsFiniteSet(UpTo(Picks(s, S), Len(s)))
  BY <1>1, <1>3, UpToCounts
<1> QED
  BY <1>3, <1>4, <1>5

LEMMA ChosenCounts ==
  ASSUME NEW T, NEW ss \in Seq(Seq(T)), NEW S, NEW n \in Nat, n < Len(ss),
         IsFiniteSet(Chosen(ss, S, n))
  PROVE  /\ IsFiniteSet(Chosen(ss, S, n + 1))
         /\ Cardinality(Chosen(ss, S, n + 1))
              = Cardinality(Chosen(ss, S, n)) + Cardinality(Picks(ss[n + 1], S))
<1>1. ss[n + 1] \in Seq(T)
  OBVIOUS
<1>2. Picks(ss[n + 1], S) \in SUBSET (Nat \ {0}) /\ IsFiniteSet(Picks(ss[n + 1], S))
  BY <1>1, PicksFinite
<1> DEFINE row == {n + 1} \X Picks(ss[n + 1], S)
<1>3. Chosen(ss, S, n + 1) = Chosen(ss, S, n) \union row
  <2>1. ASSUME NEW p \in Chosen(ss, S, n + 1) PROVE p \in Chosen(ss, S, n) \union row
    <3>1. p \in (1..n + 1) \X (Nat \ {0}) /\ p[2] \in Picks(ss[p[1]], S)
      BY DEF Chosen
    <3>2. CASE p[1] = n + 1
      BY <3>1, <3>2
    <3>3. CASE p[1] # n + 1
      <4>1. p \in (1..n) \X (Nat \ {0})
        BY <3>1, <3>3
      <4> QED
        BY <3>1, <4>1 DEF Chosen
    <3> QED
      BY <3>2, <3>3
  <2>2. ASSUME NEW p \in Chosen(ss, S, n) PROVE p \in Chosen(ss, S, n + 1)
    BY DEF Chosen
  <2>3. ASSUME NEW p \in row PROVE p \in Chosen(ss, S, n + 1)
    <3>1. p[1] = n + 1 /\ p[2] \in Picks(ss[n + 1], S) /\ p \in (1..n + 1) \X (Nat \ {0})
      BY <1>2
    <3> QED
      BY <3>1 DEF Chosen
  <2> QED
    BY <2>1, <2>2, <2>3
<1>4. Chosen(ss, S, n) \intersect row = {}
  <2> SUFFICES ASSUME NEW p \in Chosen(ss, S, n), p \in row PROVE FALSE
    OBVIOUS
  <2>1. p[1] \in 1..n
    BY DEF Chosen
  <2>2. p[1] = n + 1
    OBVIOUS
  <2> QED
    BY <2>1, <2>2
<1>5. IsFiniteSet(row) /\ Cardinality(row) = Cardinality(Picks(ss[n + 1], S))
  BY <1>2, RowCounts
<1> QED
  <2> HIDE DEF row
  <2> QED
    BY <1>3, <1>4, <1>5, DisjointCounts

LEMMA ChosenFinite ==
  ASSUME NEW T, NEW ss \in Seq(Seq(T)), NEW S, NEW m \in 0..Len(ss)
  PROVE  IsFiniteSet(Chosen(ss, S, m)) /\ Cardinality(Chosen(ss, S, m)) \in Nat
<1> DEFINE Good == {n \in Nat : n <= Len(ss) => IsFiniteSet(Chosen(ss, S, n))}
<1>1. 0 \in Good
  <2>1. Chosen(ss, S, 0) = {}
    BY DEF Chosen
  <2> QED
    BY <2>1, FS_EmptySet
<1>2. ASSUME NEW n \in Nat, n \in Good PROVE n + 1 \in Good
  <2> SUFFICES ASSUME n + 1 <= Len(ss) PROVE IsFiniteSet(Chosen(ss, S, n + 1))
    OBVIOUS
  <2>1. n < Len(ss) /\ IsFiniteSet(Chosen(ss, S, n))
    BY <1>2
  <2> QED
    BY <2>1, ChosenCounts
<1>3. Nat \subseteq Good
  <2> HIDE DEF Good
  <2> QED
    BY <1>1, <1>2, Induction
<1>4. IsFiniteSet(Chosen(ss, S, m))
  BY <1>3
<1> QED
  BY <1>4, FS_CardinalityType

LEMMA PlaceInSelection ==
  ASSUME NEW T, NEW s \in Seq(T), NEW S, NEW k \in Picks(s, S)
  PROVE  Cardinality(UpTo(Picks(s, S), k)) \in 1..Cardinality(Picks(s, S))
<1> DEFINE A == Picks(s, S)
<1>1. A \in SUBSET (Nat \ {0}) /\ IsFiniteSet(A)
  BY PicksFinite
<1>2. k \in A /\ k \in Nat /\ UpTo(A, k) \in SUBSET A /\ k \in UpTo(A, k)
  BY <1>1 DEF UpTo
<1>3. /\ IsFiniteSet(UpTo(A, k)) /\ Cardinality(UpTo(A, k)) \in Nat
      /\ Cardinality(UpTo(A, k)) <= Cardinality(A) /\ Cardinality(A) \in Nat
  <2> HIDE DEF A
  <2> QED
    BY <1>1, <1>2, FS_Subset, FS_CardinalityType
<1>4. Cardinality(UpTo(A, k)) # 0
  <2> HIDE DEF A
  <2> QED
    BY <1>2, <1>3, FS_EmptySet
<1> QED
  <2> HIDE DEF A
  <2>1. Cardinality(UpTo(A, k)) \in 1..Cardinality(A)
    BY <1>3, <1>4
  <2> QED
    BY <2>1 DEF A

\* What comes before a pick: all of the earlier sequences, and of its own the earlier ones.
LEMMA BeforeCounts ==
  ASSUME NEW T, NEW ss \in Seq(Seq(T)), NEW S, NEW p \in Chosen(ss, S, Len(ss))
  PROVE  1 + Cardinality(Before(Chosen(ss, S, Len(ss)), p))
           = Cardinality(Chosen(ss, S, p[1] - 1))
             + Cardinality(UpTo(Picks(ss[p[1]], S), p[2]))
<1> DEFINE W == Chosen(ss, S, Len(ss))
           i == p[1]
           k == p[2]
           A == Picks(ss[p[1]], S)
           row == {i} \X UpTo(A, k - 1)
<1>1. /\ Len(ss) \in Nat /\ i \in 1..Len(ss) /\ k \in Nat \ {0} /\ k \in A
      /\ i - 1 \in 0..Len(ss) /\ k - 1 \in Nat /\ (k - 1) + 1 = k
  BY DEF Chosen
<1>2. A \in SUBSET (Nat \ {0})
  BY <1>1, PicksFinite
<1>3. /\ IsFiniteSet(UpTo(A, k - 1)) /\ Cardinality(UpTo(A, k - 1)) \in Nat
      /\ Cardinality(UpTo(A, k)) = Cardinality(UpTo(A, k - 1)) + 1
  <2> HIDE DEF A, k
  <2>1. /\ IsFiniteSet(UpTo(A, k - 1)) /\ Cardinality(UpTo(A, k - 1)) \in Nat
        /\ Cardinality(UpTo(A, (k - 1) + 1))
             = IF (k - 1) + 1 \in A THEN Cardinality(UpTo(A, k - 1)) + 1
               ELSE Cardinality(UpTo(A, k - 1))
    <3>1. k - 1 \in Nat
      BY <1>1
    <3> DEFINE j == k - 1
    <3> HIDE DEF j
    <3>2. j \in Nat
      BY <3>1 DEF j
    <3>3. /\ IsFiniteSet(UpTo(A, j)) /\ Cardinality(UpTo(A, j)) \in Nat
          /\ Cardinality(UpTo(A, j + 1))
               = IF j + 1 \in A THEN Cardinality(UpTo(A, j)) + 1 ELSE Cardinality(UpTo(A, j))
      BY <1>2, <3>2, UpToCounts
    <3> QED
      BY <3>3 DEF j
  <2> QED
    BY <1>1, <2>1
<1>4. IsFiniteSet(Chosen(ss, S, i - 1)) /\ Cardinality(Chosen(ss, S, i - 1)) \in Nat
  BY <1>1, ChosenFinite
<1>5. Before(W, p) = Chosen(ss, S, i - 1) \union row
  <2>1. ASSUME NEW q \in Before(W, p) PROVE q \in Chosen(ss, S, i - 1) \union row
    <3>1. /\ q \in (1..Len(ss)) \X (Nat \ {0}) /\ q[2] \in Picks(ss[q[1]], S)
          /\ q[1] < i \/ (q[1] = i /\ q[2] < k)
      BY DEF Before, Chosen
    <3>2. CASE q[1] < i
      <4>1. q \in (1..i - 1) \X (Nat \ {0})
        BY <1>1, <3>1, <3>2
      <4> QED
        BY <3>1, <4>1 DEF Chosen
    <3>3. CASE q[1] = i /\ q[2] < k
      <4>1. q[2] \in A /\ q[2] <= k - 1
        BY <1>1, <3>1, <3>3
      <4>2. q[2] \in UpTo(A, k - 1)
        BY <4>1 DEF UpTo
      <4> HIDE DEF A
      <4> QED
        BY <3>1, <3>3, <4>2
    <3> QED
      BY <3>1, <3>2, <3>3
  <2>2. ASSUME NEW q \in Chosen(ss, S, i - 1) PROVE q \in Before(W, p)
    <3>1. q \in (1..i - 1) \X (Nat \ {0}) /\ q[2] \in Picks(ss[q[1]], S)
      BY DEF Chosen
    <3>2. q = <<q[1], q[2]>> /\ q[1] \in 1..i - 1 /\ q[2] \in Nat \ {0}
      BY <3>1
    <3>3. q[1] \in 1..Len(ss) /\ q[1] < i
      <4>1. i \in Nat /\ Len(ss) \in Nat /\ i <= Len(ss)
        BY <1>1
      <4> HIDE DEF i
      <4> QED
        BY ONLY <4>1, <3>2
    <3>4. q \in (1..Len(ss)) \X (Nat \ {0})
      BY <3>2, <3>3
    <3> QED
      BY <3>1, <3>3, <3>4 DEF Before, Chosen
  <2>3. ASSUME NEW q \in row PROVE q \in Before(W, p)
    <3>1. q[1] = i /\ q[2] \in A /\ q[2] <= k - 1 /\ q = <<q[1], q[2]>>
      BY DEF UpTo
    <3>2. q[2] \in Nat \ {0} /\ q[2] < k
      BY <1>1, <1>2, <3>1
    <3>3. q \in (1..Len(ss)) \X (Nat \ {0})
      BY <1>1, <3>1, <3>2
    <3> QED
      BY <3>1, <3>2, <3>3 DEF Before, Chosen
  <2> QED
    BY <2>1, <2>2, <2>3
<1>6. Chosen(ss, S, i - 1) \intersect row = {}
  <2> SUFFICES ASSUME NEW q \in Chosen(ss, S, i - 1), q \in row PROVE FALSE
    OBVIOUS
  <2>1. q[1] \in 1..i - 1 /\ q[1] = i
    BY DEF Chosen
  <2> QED
    BY <1>1, <2>1
<1>7. IsFiniteSet(row) /\ Cardinality(row) = Cardinality(UpTo(A, k - 1))
  BY <1>3, RowCounts
<1>8. Cardinality(Before(W, p)) = Cardinality(Chosen(ss, S, i - 1)) + Cardinality(row)
  <2> HIDE DEF row, W, i
  <2> QED
    BY <1>4, <1>5, <1>6, <1>7, DisjointCounts
<1> QED
  <2> HIDE DEF row
  <2> QED
    BY <1>3, <1>4, <1>7, <1>8

Ranked(sel, ss, S) ==
  \A p \in Chosen(ss, S, Len(ss)) :
    sel[1 + Cardinality(Before(Chosen(ss, S, Len(ss)), p))] = ss[p[1]][p[2]]

\* The selection of what several sequences make together has one element for each pick,
\* each at the place it has among the picks, those of an earlier sequence first.
LEMMA MergeRanks ==
  ASSUME NEW T, NEW ss \in Seq(Seq(T)), NEW S
  PROVE  /\ Select(FlattenSeq(ss), S) \in Seq(T \intersect S)
         /\ Len(Select(FlattenSeq(ss), S)) = Cardinality(Chosen(ss, S, Len(ss)))
         /\ Ranked(Select(FlattenSeq(ss), S), ss, S)
<1> DEFINE Count(n) == Cardinality(Chosen(ss, S, n))
           Rank(p) == Count(p[1] - 1) + Cardinality(UpTo(Picks(ss[p[1]], S), p[2]))
<1>1. PICK f \in [0..Len(ss) -> Seq(T)] : Joins(f, ss) /\ FlattenSeq(ss) = f[Len(ss)]
  BY FlattenJoins
<1>2. Len(ss) \in Nat /\ Len(ss) \in 0..Len(ss)
  OBVIOUS
<1>3. \A n \in 0..Len(ss) : Count(n) \in Nat
  BY ChosenFinite
<1>4. \A n \in 0..Len(ss) : Select(f[n], S) \in Seq(T \intersect S)
  <2>1. \A n \in 0..Len(ss) : f[n] \in Seq(T)
    BY <1>1
  <2> QED
    BY <2>1, SelectRanks
<1> DEFINE Placed(n) ==
             /\ Len(Select(f[n], S)) = Count(n)
             /\ \A p \in Chosen(ss, S, n) :
                  Rank(p) \in 1..Count(n) /\ Select(f[n], S)[Rank(p)] = ss[p[1]][p[2]]
           Good == {n \in Nat : n <= Len(ss) => Placed(n)}
<1>5. 0 \in Good
  <2>1. Chosen(ss, S, 0) = {} /\ Count(0) = 0
    <3>1. Chosen(ss, S, 0) = {}
      BY DEF Chosen
    <3> QED
      BY <3>1, FS_EmptySet
  <2>2. f[0] = <<>>
    BY <1>1 DEF Joins
  <2>3. Len(Select(<<>>, S)) = 0
    <3>1. <<>> \in Seq(T) /\ Picks(<<>>, S) = {} /\ UpTo(Picks(<<>>, S), Len(<<>>)) = {}
      BY DEF Picks, UpTo
    <3>2. Len(Select(<<>>, S)) = Cardinality(UpTo(Picks(<<>>, S), Len(<<>>)))
      BY ONLY <3>1, SelectRanks
    <3> QED
      BY <3>1, <3>2, FS_EmptySet
  <2> HIDE DEF Rank, Count
  <2> QED
    BY <2>1, <2>2, <2>3
<1>6. ASSUME NEW n \in Nat, n \in Good PROVE n + 1 \in Good
  <2> SUFFICES ASSUME n + 1 <= Len(ss) PROVE Placed(n + 1)
    OBVIOUS
  <2> DEFINE s == ss[n + 1]
             A == Picks(s, S)
             sel == Select(f[n], S)
             more == Select(s, S)
  <2>1. /\ n + 1 \in 1..Len(ss) /\ (n + 1) - 1 = n /\ n \in 0..Len(ss) /\ n + 1 \in 0..Len(ss)
        /\ n < Len(ss)
    BY <1>2
  <2>2. Placed(n)
    BY <1>2, <1>6, <2>1
  <2>3. s \in Seq(T) /\ f[n] \in Seq(T) /\ Count(n) \in Nat
    <3>1. s \in Seq(T)
      BY <2>1
    <3>2. f[n] \in Seq(T)
      BY <2>1
    <3> QED
      BY <1>3, <2>1, <3>1, <3>2
  <2>4. f[n + 1] = Cat(f[n], s)
    BY <1>1, <2>1 DEF Joins
  <2>5. Select(f[n + 1], S) = Cat(sel, more)
    <3> HIDE DEF s
    <3> QED
      BY <2>3, <2>4, SelectConcat
  <2>6. /\ sel \in Seq(T \intersect S) /\ more \in Seq(T \intersect S)
        /\ Len(more) = Cardinality(A)
        /\ \A k \in A : more[Cardinality(UpTo(A, k))] = s[k]
    <3> HIDE DEF s
    <3>1. sel \in Seq(T \intersect S)
      BY <1>4, <2>1
    <3>2. more \in Seq(T \intersect S)
      BY <2>3, SelectRanks
    <3>3. Len(more) = Cardinality(UpTo(A, Len(s))) /\ UpTo(A, Len(s)) = A
      BY <2>3, SelectRanks, PicksFinite
    <3>4. \A k \in A : more[Cardinality(UpTo(A, k))] = s[k]
      <4>1. Places(more, s, S)
        BY <2>3, SelectRanks
      <4> QED
        BY <4>1 DEF Places
    <3> QED
      BY <3>1, <3>2, <3>3, <3>4
  <2>7. /\ Len(sel) \in Nat /\ Len(more) \in Nat
        /\ Len(Cat(sel, more)) = Len(sel) + Len(more)
        /\ \A j \in 1..Len(sel) : Cat(sel, more)[j] = sel[j]
        /\ \A j \in 1..Len(more) : Cat(sel, more)[Len(sel) + j] = more[j]
    <3> DEFINE X == T \intersect S
    <3>1. sel \in Seq(X) /\ more \in Seq(X)
      BY <2>6
    <3> HIDE DEF sel, more, X
    <3> QED
      <4>1. Len(sel) \in Nat /\ Len(more) \in Nat
        BY <3>1
      <4>2. Len(Cat(sel, more)) = Len(sel) + Len(more)
        BY ONLY <3>1, CatProperties
      <4>3. ASSUME NEW j \in 1..Len(sel) PROVE Cat(sel, more)[j] = sel[j]
        BY <3>1, CatProperties
      <4>4. ASSUME NEW j \in 1..Len(more) PROVE Cat(sel, more)[Len(sel) + j] = more[j]
        BY <3>1, CatProperties
      <4> QED
        BY <4>1, <4>2, <4>3, <4>4
  <2>8. Count(n + 1) = Count(n) + Len(more)
    BY <1>2, <2>1, <2>6, ChosenFinite, ChosenCounts
  <2>9. ASSUME NEW k \in A PROVE Cardinality(UpTo(A, k)) \in 1..Len(more)
    BY <2>3, <2>6, PlaceInSelection
  <2>10. ASSUME NEW p \in Chosen(ss, S, n + 1)
         PROVE  /\ Rank(p) \in 1..Count(n + 1)
                /\ Select(f[n + 1], S)[Rank(p)] = ss[p[1]][p[2]]
    <3>1. p \in (1..n + 1) \X (Nat \ {0}) /\ p[2] \in Picks(ss[p[1]], S)
      BY DEF Chosen
    <3>2. CASE p[1] = n + 1
      <4>1. p[2] \in A /\ Rank(p) = Count(n) + Cardinality(UpTo(A, p[2]))
        BY <2>1, <3>1, <3>2
      <4> DEFINE r == Cardinality(UpTo(A, p[2]))
      <4>2. r \in 1..Len(more) /\ more[r] = s[p[2]]
        BY <2>6, <2>9, <4>1
      <4>3. Len(sel) = Count(n)
        BY <2>2
      <4>4. Rank(p) = Count(n) + r
        BY <4>1
      <4> HIDE DEF r, more, sel, Count, Rank
      <4>5. Rank(p) \in 1..Count(n + 1)
        <5>1. Count(n) \in Nat /\ Len(more) \in Nat /\ r \in 1..Len(more)
          BY <2>3, <2>7, <4>2
        <5> QED
          BY ONLY <5>1, <2>8, <4>4
      <4>6. Select(f[n + 1], S)[Rank(p)] = more[r]
        BY <2>5, <2>7, <4>2, <4>3, <4>4
      <4> QED
        BY <3>2, <4>2, <4>5, <4>6
    <3>3. CASE p[1] # n + 1
      <4>1. p \in (1..n) \X (Nat \ {0})
        BY <3>1, <3>3
      <4>2. p \in Chosen(ss, S, n)
        BY <3>1, <4>1 DEF Chosen
      <4>3. Len(sel) = Count(n) /\ Rank(p) \in 1..Count(n) /\ sel[Rank(p)] = ss[p[1]][p[2]]
        BY <2>2, <4>2
      <4> HIDE DEF more, sel, Count, Rank
      <4> QED
        BY <2>3, <2>5, <2>7, <2>8, <4>3
    <3> QED
      BY <3>2, <3>3
  <2>11. Len(sel) = Count(n)
    BY <2>2
  <2>12. Len(Select(f[n + 1], S)) = Count(n + 1)
    <3> HIDE DEF more, sel, Count
    <3> QED
      BY <2>5, <2>7, <2>8, <2>11
  <2> QED
    BY <2>10, <2>12
<1>7. Placed(Len(ss))
  <2>1. Nat \subseteq Good
    <3> HIDE DEF Good
    <3> QED
      BY <1>5, <1>6, Induction
  <2>2. Len(ss) \in Good
    BY <1>2, <2>1
  <2> QED
    BY <1>2, <2>2
<1>8. \A p \in Chosen(ss, S, Len(ss)) :
        Rank(p) = 1 + Cardinality(Before(Chosen(ss, S, Len(ss)), p))
  BY BeforeCounts
<1> HIDE DEF Count, Rank
<1> QED
  BY <1>1, <1>2, <1>4, <1>7, <1>8 DEF Count, Ranked

-----------------------------------------------------------------------------
(* The inductive invariant *)

\* What a goroutine has found is in its walk or its answer; if the walk found it, the
\* globs let it through and its tags are those that the file has.
Finding ==
  {r \in Result : Kind[r.backend] = "filesystem" =>
     Included(r.uri) /\ r.tags = TagsFor(r.uri) /\ Owner[r.uri] = r.backend}

Goroutine ==
  [state : {"running", "reported", "failed"}, at : Nat, got : Seq(Finding), cause : Cause]

Source == [uri : URI, of : Seq(Line), text : Seq(Line)]
Reason == {"uri filter", "read error", "tag filter", "budget"}
Left == [uri : URI, reason : Reason]

\* Only the call that was made has left anything, and an answer is the last of it.
Shape ==
  /\ files \in [URI -> OnDisk] /\ changes \in 0..MaxChanges
  /\ filters \in Filters /\ gone \in BOOLEAN
  /\ {"op", "stage"} \subseteq DOMAIN call
  /\ call.op \in {"none", "search", "load", "peek"}
  /\ call.stage \in {"idle", "running", "answered"}
  /\ answer.status \in {"none", "ok", "refused"}
  /\ call.stage # "answered" => answer.status = "none"
  /\ call.stage = "idle" => call.op = "none"
  /\ call.stage = "running" => call.op \in {"search", "load"}
  /\ answer.status = "ok" => call.op # "none"
  /\ call.op # "search" => run = <<>>
  /\ call.op # "load" => loaded = <<>> /\ skipped = <<>>
  /\ answer.status = "refused" => run = <<>> /\ loaded = <<>> /\ skipped = <<>>

\* A goroutine that runs has room for one result more, one that failed keeps none, and
\* none runs once the call is answered.
SearchMatches ==
  call.op = "search" /\ answer.status # "refused" =>
    /\ {"targets", "limit", "quota"} \subseteq DOMAIN call
    /\ call.targets \in Seq(Name)
    /\ call.limit \in Nat \ {0} /\ call.quota \in Nat \ {0}
    /\ run \in [1..Len(call.targets) -> Goroutine]
    /\ \A i \in DOMAIN run :
         /\ Len(run[i].got) <= call.quota
         /\ run[i].state = "running" => Len(run[i].got) < call.quota /\ call.stage = "running"
         /\ run[i].state = "failed" => run[i].got = <<>>

\* How often u is among the first n sources of a context, and in a list.
Named(u, n) == Cardinality({i \in 1..n : Sources[i][2] = u})
Listed(u, list) == Cardinality({i \in DOMAIN list : list[i].uri = u})

\* The sources seen so far are loaded or skipped, each as often as the context names it.
LoadMatches ==
  call.op = "load" /\ answer.status # "refused" =>
    /\ {"context", "format"} \subseteq DOMAIN call /\ call.context \in DOMAIN Contexts
    /\ loaded \in Seq(Source) /\ skipped \in Seq(Left)
    /\ call.stage = "running" =>
         /\ Len(loaded) + Len(skipped) <= Len(Sources)
         /\ \A u \in URI :
              Named(u, Len(loaded) + Len(skipped)) = Listed(u, loaded) + Listed(u, skipped)

IInv ==
  /\ Shape
  /\ SearchMatches
  /\ LoadMatches
  /\ AnswersMerged
  /\ FoundIsReadable
  /\ SecretsMasked
  /\ SourcesAccounted
  /\ WithinBudget

-----------------------------------------------------------------------------
(* The properties of an answer, while there is none *)

LEMMA Silent ==
  ASSUME answer.status # "ok"
  PROVE  /\ AnswersMerged /\ FoundIsReadable /\ SourcesAccounted /\ WithinBudget
         /\ ~ Answered("peek")
BY DEF AnswersMerged, FoundIsReadable, SourcesAccounted, WithinBudget, Answered

WholeMasked(of, text) == StretchMasked(of, text) /\ Len(text) = Len(of)

Masked == \A i \in DOMAIN loaded : WholeMasked(loaded[i].of, loaded[i].text)

\* What is left to show of a step that gives no answer.
LEMMA SilentStep ==
  ASSUME (answer.status # "ok")', Shape', SearchMatches', LoadMatches', Masked'
  PROVE  IInv'
<1>1. (/\ AnswersMerged /\ FoundIsReadable /\ SourcesAccounted /\ WithinBudget
       /\ ~ Answered("peek"))'
  <2>1. answer'.status # "ok"
    OBVIOUS
  <2> QED
    BY <2>1 DEF AnswersMerged, FoundIsReadable, SourcesAccounted, WithinBudget, Answered
<1>2. SecretsMasked'
  BY <1>1 DEF SecretsMasked, Masked, WholeMasked
<1> QED
  BY <1>1, <1>2 DEF IInv

LEMMA MaskedNow ==
  ASSUME IInv
  PROVE  Masked
BY DEF IInv, SecretsMasked, Masked, WholeMasked

LEMMA InitInv ==
  ASSUME Init
  PROVE  IInv
<1>1. /\ loaded = <<>> /\ skipped = <<>> /\ run = <<>> /\ answer = [status |-> "none"]
      /\ call = [op |-> "none", stage |-> "idle"]
  BY DEF Init
<1>2. answer.status = "none" /\ call.op = "none" /\ call.stage = "idle"
  BY <1>1
<1>3. Shape
  <2>1. 0 \in 0..MaxChanges
    BY RetrievalAssumption
  <2>2. {"op", "stage"} \subseteq DOMAIN call
    BY <1>1
  <2> QED
    BY <1>1, <1>2, <2>1, <2>2 DEF Shape, Init
<1>4. SearchMatches /\ LoadMatches
  BY <1>2 DEF SearchMatches, LoadMatches
<1>5. SecretsMasked
  <2>1. \A i \in DOMAIN loaded : FALSE
    BY <1>1
  <2> QED
    BY <1>2, <2>1, Silent DEF SecretsMasked
<1> QED
  BY <1>2, <1>3, <1>4, <1>5, Silent DEF IInv

-----------------------------------------------------------------------------
(* The outside, and the requests that are not answered at once *)

LEMMA FileChangesStep ==
  ASSUME IInv, NEW u \in Changing, FileChanges(u)
  PROVE  IInv'
<1> USE DEF FileChanges
<1>1. answer.status = "none" /\ (answer.status = "none")'
  BY DEF IInv, Shape
<1>2. Shape'
  <2>1. files' \in [URI -> OnDisk] /\ changes' \in 0..MaxChanges
    <3>1. files \in [URI -> OnDisk] /\ changes \in 0..MaxChanges
      BY DEF IInv, Shape
    <3>2. MaxChanges \in Nat
      BY RetrievalAssumption
    <3>3. PICK d \in OnDisk : files' = [files EXCEPT ![u] = d]
      OBVIOUS
    <3>4. files' \in [URI -> OnDisk]
      BY <3>1, <3>3
    <3> QED
      BY <3>1, <3>2, <3>4
  <2> QED
    BY <2>1 DEF IInv, Shape
<1>3. SearchMatches'
  BY DEF IInv, SearchMatches
<1>4. LoadMatches'
  BY DEF IInv, LoadMatches, Named, Listed, Sources
<1>5. Masked'
  <2>1. UNCHANGED <<filters, loaded>>
    OBVIOUS
  <2>2. SUFFICES ASSUME NEW i \in DOMAIN loaded
                 PROVE  WholeMasked(loaded[i].of, loaded[i].text)'
    BY <2>1 DEF Masked
  <2>3. WholeMasked(loaded[i].of, loaded[i].text)
    BY ONLY IInv, MaskedNow, <2>2 DEF Masked
  <2> QED
    BY ONLY <2>1, <2>3 DEF WholeMasked, StretchMasked
<1> QED
  BY <1>1, <1>2, <1>3, <1>4, <1>5, SilentStep

LEMMA CallerGoesStep ==
  ASSUME IInv, CallerGoes
  PROVE  IInv'
<1> USE DEF CallerGoes
<1>1. answer.status = "none" /\ (answer.status = "none")'
  BY DEF IInv, Shape
<1>2. Shape'
  BY DEF IInv, Shape
<1>3. SearchMatches'
  BY DEF IInv, SearchMatches
<1>4. LoadMatches'
  BY DEF IInv, LoadMatches, Named, Listed, Sources
<1>5. Masked'
  BY MaskedNow DEF Masked, WholeMasked, StretchMasked
<1> QED
  BY <1>1, <1>2, <1>3, <1>4, <1>5, SilentStep

\* AnswersMerged of the limit, the quota, the goroutines r, the results and those that pass.
InPlace(limit, quota, r, results, S) ==
  LET good == {i \in DOMAIN r : r[i].state = "reported"}
      wanted == {p \in good \X (1..quota) :
                   p[2] \in DOMAIN r[p[1]].got /\ r[p[1]].got[p[2]] \in S}
      before(p, q) == p[1] < q[1] \/ (p[1] = q[1] /\ p[2] < q[2])
      rank(p) == 1 + Cardinality({q \in wanted : before(q, p)})
  IN  /\ Len(results) = Least(limit, Cardinality(wanted))
      /\ \A p \in wanted : rank(p) <= limit => results[rank(p)] = r[p[1]].got[p[2]]

LEMMA StutterStep ==
  ASSUME IInv, UNCHANGED vars
  PROVE  IInv'
<1> USE DEF vars, world
<1>1. Shape' /\ SearchMatches' /\ LoadMatches'
  BY DEF IInv, Shape, SearchMatches, LoadMatches, Named, Listed, Sources
<1>2. AnswersMerged'
  <2>1. Passing' = Passing
    BY DEF Passing
  <2>2. call' = call /\ run' = run /\ answer' = answer
    OBVIOUS
  <2>3. Answered("search") => InPlace(call.limit, call.quota, run, answer.results, Passing)
    BY DEF IInv, AnswersMerged, InPlace
  <2>4. Answered("search")' =>
          InPlace(call'.limit, call'.quota, run', answer'.results, Passing')
    BY ONLY <2>1, <2>2, <2>3 DEF Answered
  <2> QED
    BY <2>4 DEF AnswersMerged, InPlace
<1>3. FoundIsReadable'
  BY DEF IInv, FoundIsReadable, StillThere, Answered, Peekable
<1>4. SecretsMasked'
  BY DEF IInv, SecretsMasked, Answered, StretchMasked
<1>5. SourcesAccounted'
  BY DEF IInv, SourcesAccounted, Answered, Sources
<1>6. WithinBudget'
  BY DEF IInv, WithinBudget, Answered, Budget, DocumentSize
<1> QED
  BY <1>1, <1>2, <1>3, <1>4, <1>5, <1>6 DEF IInv

\* Nothing is there before a call.
Fresh == run = <<>> /\ loaded = <<>> /\ skipped = <<>> /\ answer.status = "none"

LEMMA IdleIsFresh ==
  ASSUME IInv, call.stage = "idle"
  PROVE  Fresh /\ call.op = "none"
BY DEF IInv, Shape, Fresh

LEMMA RefuseStep ==
  ASSUME IInv, Refuse
  PROVE  IInv'
<1>1. PICK op \in {"search", "load", "peek"} : call' = [op |-> op, stage |-> "answered"]
  BY DEF Refuse
<1>2. call'.op = op /\ call'.stage = "answered" /\ {"op", "stage"} \subseteq DOMAIN call'
  BY <1>1
<1>3. answer'.status = "refused"
  BY DEF Refuse
<1>4. Fresh /\ UNCHANGED <<world, run, loaded, skipped>>
  BY IdleIsFresh DEF Refuse
<1>5. Shape'
  BY <1>2, <1>3, <1>4 DEF IInv, Shape, Fresh, world
<1>6. SearchMatches' /\ LoadMatches'
  BY <1>3 DEF SearchMatches, LoadMatches
<1>7. Masked'
  BY <1>4 DEF Masked, Fresh
<1> QED
  BY <1>3, <1>5, <1>6, <1>7, SilentStep

LEMMA QuotaType ==
  ASSUME NEW limit \in Nat \ {0}, NEW n \in Nat
  PROVE  Quota(limit, n) \in Nat \ {0}
<1>1. CASE n > 1
  <2>1. (limit + n - 1) \div n \in Int
    BY <1>1
  <2> DEFINE d == (limit + n - 1) \div n
  <2>2. Quota(limit, n) = IF 1 > d THEN 1 ELSE d
    BY <1>1 DEF Quota, Most
  <2> HIDE DEF d
  <2>3. d \in Int
    BY <2>1 DEF d
  <2> QED
    BY <2>2, <2>3
<1>2. CASE ~ (n > 1)
  BY <1>2 DEF Quota
<1> QED
  BY <1>1, <1>2

LEMMA StartSearchStep ==
  ASSUME IInv, NEW names \in Asked, NEW limit \in Limit, NEW query \in Sought,
         StartSearch(names, limit, query)
  PROVE  IInv'
<1> DEFINE targets == IF names = <<>> THEN Backends ELSE names
           bound == IF limit <= 0 THEN 10 ELSE limit
           n == Len(targets)
<1>1. targets \in Seq(Name) /\ n \in Nat
  <2>1. names \in Seq(Name) /\ Backends \in Seq(Name)
    BY RetrievalAssumption, NewAssumption
  <2> QED
    BY <2>1
<1>2. bound \in Nat \ {0}
  <2>1. limit \in Int
    BY RetrievalAssumption
  <2> QED
    BY <2>1
<1>3. /\ call.stage = "idle"
      /\ call' = [op |-> "search", stage |-> "running", targets |-> targets, limit |-> bound,
                  quota |-> Quota(bound, n), query |-> query]
      /\ run' = [i \in DOMAIN targets |->
                   [state |-> "running", at |-> 0, got |-> <<>>, cause |-> "none"]]
      /\ UNCHANGED <<world, loaded, skipped, answer>>
  BY DEF StartSearch
<1>4. Quota(bound, n) \in Nat \ {0}
  BY <1>1, <1>2, QuotaType
<1>5. DOMAIN targets = 1..n
  BY <1>1
<1> HIDE DEF targets, bound, n
<1>6. /\ call'.op = "search" /\ call'.stage = "running" /\ call'.targets = targets
      /\ call'.limit = bound /\ call'.quota = Quota(bound, n)
      /\ {"op", "stage", "targets", "limit", "quota"} \subseteq DOMAIN call'
  BY <1>3
<1>7. Fresh /\ answer' = answer /\ answer.status = "none"
  BY <1>3, IdleIsFresh DEF Fresh
<1>8. Shape'
  BY <1>3, <1>6, <1>7 DEF IInv, Shape, Fresh, world
<1>9. SearchMatches'
  <2>1. run' = [i \in 1..n |-> [state |-> "running", at |-> 0, got |-> <<>>, cause |-> "none"]]
    BY <1>3, <1>5
  <2>2. [state |-> "running", at |-> 0, got |-> <<>>, cause |-> "none"] \in Goroutine
    <3>1. <<>> \in Seq(Finding)
      OBVIOUS
    <3> QED
      BY <3>1 DEF Goroutine, Cause
  <2>3. run' \in [1..n -> Goroutine]
    <3> DEFINE g == [state |-> "running", at |-> 0, got |-> <<>>, cause |-> "none"]
    <3>1. run' = [i \in 1..n |-> g] /\ g \in Goroutine
      BY <2>1, <2>2
    <3> HIDE DEF g
    <3> QED
      BY <3>1
  <2>4. \A i \in DOMAIN run' :
          run'[i].state = "running" /\ run'[i].got = <<>> /\ Len(run'[i].got) = 0
    BY <2>1
  <2>5. call'.targets \in Seq(Name) /\ Len(call'.targets) = n
    BY <1>1, <1>6 DEF n
  <2> QED
    BY <1>2, <1>4, <1>6, <2>3, <2>4, <2>5 DEF SearchMatches
<1>10. LoadMatches'
  BY <1>6 DEF LoadMatches
<1>11. Masked'
  BY <1>3, <1>7 DEF Masked, Fresh
<1> QED
  BY <1>7, <1>8, <1>9, <1>10, <1>11, SilentStep

LEMMA ContextType ==
  ASSUME NEW c \in DOMAIN Contexts
  PROVE  /\ Contexts[c].sources \in Seq(Name \X URI) /\ Contexts[c].maxSize \in Int
         /\ Len(Contexts[c].sources) \in Nat
BY NewAssumption DEF ContextConfig

LEMMA StartLoadStep ==
  ASSUME IInv, NEW c \in DOMAIN Contexts, NEW format \in Format, StartLoad(c, format)
  PROVE  IInv'
<1>1. PICK chosen : call' = [op |-> "load", stage |-> "running", context |-> c, format |-> chosen]
  BY DEF StartLoad
<1>2. call.stage = "idle" /\ UNCHANGED <<world, run, loaded, skipped, answer>>
  BY DEF StartLoad
<1>3. /\ call'.op = "load" /\ call'.stage = "running" /\ call'.context = c
      /\ {"op", "stage", "context", "format"} \subseteq DOMAIN call'
  BY <1>1
<1>4. Fresh
  BY <1>2, IdleIsFresh
<1>5. Shape'
  BY <1>2, <1>3, <1>4 DEF IInv, Shape, Fresh, world
<1>6. SearchMatches'
  BY <1>3 DEF SearchMatches
<1>7. LoadMatches'
  <2>1. loaded' = <<>> /\ skipped' = <<>>
    BY <1>2, <1>4 DEF Fresh
  <2>2. loaded' \in Seq(Source) /\ skipped' \in Seq(Left) /\ Len(loaded') = 0 /\ Len(skipped') = 0
    BY <2>1
  <2>3. 0 <= Len(Sources')
    BY <1>3, ContextType DEF Sources
  <2>4. ASSUME NEW u \in URI
        PROVE  Named(u, 0)' = 0 /\ Listed(u, loaded)' = 0 /\ Listed(u, skipped)' = 0
    <3>1. {i \in 1..0 : Sources'[i][2] = u} = {}
      OBVIOUS
    <3>2. {i \in DOMAIN loaded' : loaded'[i].uri = u} = {}
      BY <2>1
    <3>3. {i \in DOMAIN skipped' : skipped'[i].uri = u} = {}
      BY <2>1
    <3> QED
      BY <3>1, <3>2, <3>3, FS_EmptySet DEF Named, Listed
  <2>5. Len(loaded') + Len(skipped') = 0 /\ 0 + 0 = 0
    BY <2>2
  <2> QED
    BY <1>3, <2>2, <2>3, <2>4, <2>5 DEF LoadMatches
<1>8. Masked'
  BY <1>2, <1>4 DEF Masked, Fresh
<1> QED
  BY <1>2, <1>4, <1>5, <1>6, <1>7, <1>8, SilentStep DEF Fresh

-----------------------------------------------------------------------------
(* The goroutines of a search *)

\* What is known of a goroutine that runs.
LEMMA RunningMatches ==
  ASSUME IInv, NEW i \in DOMAIN run, Running(i)
  PROVE  /\ SearchMatches /\ call.op = "search" /\ answer.status = "none"
         /\ call.stage = "running" /\ call.targets \in Seq(Name) /\ call.quota \in Nat \ {0}
         /\ run \in [1..Len(call.targets) -> Goroutine]
         /\ i \in 1..Len(call.targets) /\ run[i] \in Goroutine /\ Target(i) \in Name
         /\ Len(run[i].got) < call.quota /\ run[i].state = "running"
<1>1. answer.status # "refused"
  BY DEF IInv, Shape
<1>2. SearchMatches /\ call.op = "search" /\ run[i].state = "running"
  BY DEF IInv, Running
<1>3. /\ call.targets \in Seq(Name) /\ call.quota \in Nat \ {0}
      /\ run \in [1..Len(call.targets) -> Goroutine]
      /\ call.stage = "running" /\ Len(run[i].got) < call.quota
  BY <1>1, <1>2 DEF SearchMatches
<1>4. answer.status = "none"
  BY <1>3 DEF IInv, Shape
<1>5. i \in 1..Len(call.targets) /\ run[i] \in Goroutine
  BY <1>3
<1>6. Target(i) \in Name
  BY <1>3, <1>5 DEF Target
<1> QED
  BY <1>2, <1>3, <1>4, <1>5, <1>6

\* A goroutine that runs becomes g, and nothing else changes.
LEMMA GoroutineStep ==
  ASSUME IInv, NEW i \in DOMAIN run, Running(i), NEW g \in Goroutine,
         run' = [run EXCEPT ![i] = g], Len(g.got) <= call.quota,
         g.state = "running" => Len(g.got) < call.quota,
         g.state = "failed" => g.got = <<>>,
         UNCHANGED <<world, call, loaded, skipped, answer>>
  PROVE  IInv'
<1>1. /\ SearchMatches /\ call.op = "search" /\ answer.status = "none" /\ call.stage = "running"
      /\ run \in [1..Len(call.targets) -> Goroutine] /\ i \in 1..Len(call.targets)
  BY RunningMatches
<1>2. /\ run' \in [1..Len(call.targets) -> Goroutine] /\ run'[i] = g
      /\ \A j \in DOMAIN run : j # i => run'[j] = run[j]
  BY <1>1
<1>3. SearchMatches'
  <2>1. \A j \in DOMAIN run' :
          /\ Len(run'[j].got) <= call.quota
          /\ run'[j].state = "running" => Len(run'[j].got) < call.quota /\ call.stage = "running"
          /\ run'[j].state = "failed" => run'[j].got = <<>>
    <3> SUFFICES ASSUME NEW j \in DOMAIN run'
                 PROVE  /\ Len(run'[j].got) <= call.quota
                        /\ run'[j].state = "running" =>
                             Len(run'[j].got) < call.quota /\ call.stage = "running"
                        /\ run'[j].state = "failed" => run'[j].got = <<>>
      OBVIOUS
    <3>1. CASE j = i
      BY <1>1, <1>2, <3>1
    <3>2. CASE j # i
      BY <1>1, <1>2, <3>2 DEF SearchMatches
    <3> QED
      BY <3>1, <3>2
  <2> QED
    BY <1>1, <1>2, <2>1 DEF SearchMatches
<1>4. Shape'
  BY <1>1 DEF IInv, Shape, world
<1>5. LoadMatches'
  BY <1>1 DEF LoadMatches
<1>6. Masked'
  BY MaskedNow DEF Masked, WholeMasked, StretchMasked, world
<1> QED
  BY <1>1, <1>3, <1>4, <1>5, <1>6, SilentStep

LEMMA FailsStep ==
  ASSUME IInv, NEW i \in DOMAIN run, Running(i), NEW cause \in Cause, Fails(i, cause),
         UNCHANGED <<world, call, loaded, skipped, answer>>
  PROVE  IInv'
<1> DEFINE g == [run[i] EXCEPT !.state = "failed", !.cause = cause, !.got = <<>>]
<1>1. run[i] \in Goroutine /\ call.quota \in Nat \ {0} /\ run \in [1..Len(call.targets) -> Goroutine]
  BY RunningMatches
<1>2. g \in Goroutine /\ g.state = "failed" /\ g.got = <<>>
  <2>1. <<>> \in Seq(Finding)
    OBVIOUS
  <2> QED
    BY <1>1, <2>1 DEF Goroutine
<1>3. run' = [run EXCEPT ![i] = g]
  BY <1>1 DEF Fails
<1>4. Len(g.got) <= call.quota
  BY <1>1, <1>2
<1> HIDE DEF g
<1> QED
  BY <1>2, <1>3, <1>4, GoroutineStep

LEMMA ReportsStep ==
  ASSUME IInv, NEW i \in DOMAIN run, Running(i), NEW got \in Seq(Finding),
         Len(got) <= call.quota, Reports(i, got),
         UNCHANGED <<world, call, loaded, skipped, answer>>
  PROVE  IInv'
<1> DEFINE g == [run[i] EXCEPT !.state = "reported", !.got = got]
<1>1. run[i] \in Goroutine /\ run \in [1..Len(call.targets) -> Goroutine]
  BY RunningMatches
<1>2. g \in Goroutine /\ g.state = "reported" /\ g.got = got
  BY <1>1 DEF Goroutine
<1>3. run' = [run EXCEPT ![i] = g]
  BY <1>1 DEF Reports
<1> HIDE DEF g
<1> QED
  BY <1>2, <1>3, GoroutineStep

LEMMA WalkEndsStep ==
  ASSUME IInv, NEW i \in DOMAIN run, WalkEnds(i)
  PROVE  IInv'
<1>1. Running(i) /\ Reports(i, run[i].got) /\ UNCHANGED <<world, call, loaded, skipped, answer>>
  BY DEF WalkEnds
<1>2. run[i].got \in Seq(Finding) /\ Len(run[i].got) <= call.quota
  <2>1. run[i] \in Goroutine /\ Len(run[i].got) < call.quota /\ call.quota \in Nat \ {0}
    BY <1>1, RunningMatches
  <2>2. run[i].got \in Seq(Finding)
    BY <2>1 DEF Goroutine
  <2>3. Len(run[i].got) \in Nat
    BY <2>2
  <2> QED
    BY <2>1, <2>2, <2>3
<1> QED
  BY <1>1, <1>2, ReportsStep

LEMMA WalkFailsStep ==
  ASSUME IInv, NEW i \in DOMAIN run, WalkFails(i)
  PROVE  IInv'
<1>1. Running(i) /\ Fails(i, "walk") /\ UNCHANGED <<world, call, loaded, skipped, answer>>
  BY DEF WalkFails
<1>2. "walk" \in Cause
  BY DEF Cause
<1> QED
  BY <1>1, <1>2, FailsStep

LEMMA ReplyFailsStep ==
  ASSUME IInv, NEW i \in DOMAIN run, ReplyFails(i)
  PROVE  IInv'
<1>1. Running(i) /\ UNCHANGED <<world, call, loaded, skipped, answer>>
  BY DEF ReplyFails
<1>2. PICK cause \in Cause : Fails(i, cause)
  BY DEF ReplyFails, Cause
<1> QED
  BY <1>1, <1>2, FailsStep

LEMMA FileText ==
  ASSUME IInv, NEW u \in URI
  PROVE  files[u].text \in Seq(Line)
<1>1. files[u] \in Disk
  BY RetrievalAssumption DEF IInv, Shape
<1> QED
  BY <1>1 DEF Disk

\* A scan stops at a line of the file, or at its end.
LEMMA StopsAtType ==
  ASSUME NEW text \in Seq(Line), NEW query
  PROVE  StopsAt(text, query) \in 0..Len(text)
<1> DEFINE marks == {n \in DOMAIN text : text[n] \in {query, "long"}}
           first == CHOOSE n \in marks : \A m \in marks : n <= m
<1>1. marks \subseteq 1..Len(text) /\ Len(text) \in Nat
  OBVIOUS
<1>2. StopsAt(text, query) = IF marks = {} THEN 0 ELSE first
  BY DEF StopsAt
<1> HIDE DEF marks
<1>3. CASE marks = {}
  BY <1>1, <1>2, <1>3
<1>4. CASE marks # {}
  <2> DEFINE R == OpToRel(<, Nat)
  <2>1. IsWellFoundedOn(R, Nat)
    BY NatLessThanWellFounded
  <2>2. marks \subseteq Nat
    BY <1>1
  <2>3. PICK n \in marks : \A m \in marks : ~ (<<m, n>> \in R)
    <3> HIDE DEF R
    <3> QED
      BY <1>4, <2>1, <2>2, WFMin
  <2>4. ASSUME NEW m \in marks PROVE n <= m
    <3>1. m \in Nat /\ n \in Nat
      BY <2>2
    <3>2. m < n => <<m, n>> \in R
      BY <3>1 DEF OpToRel
    <3>3. ~ (<<m, n>> \in R)
      BY <2>3
    <3> HIDE DEF R
    <3> QED
      BY ONLY <3>1, <3>2, <3>3
  <2>5. first \in marks
    BY <2>4
  <2> HIDE DEF first
  <2> QED
    BY <1>1, <1>2, <1>4, <2>5
<1> QED
  BY <1>3, <1>4

\* The result for the walk's next entry is a finding if the file is a hit.
LEMMA HitIsFinding ==
  ASSUME NEW b \in Name, Kind[b] = "filesystem", NEW n \in DOMAIN Walk[b], NEW d,
         d.text \in Seq(Line), Visit(Walk[b][n], d, call.query) = "hit"
  PROVE  Hit(Walk[b][n], d, b) \in Finding
<1> DEFINE u == Walk[b][n]
           k == StopsAt(d.text, call.query)
<1>1. u \in URI /\ Owner[u] = b
  BY NewAssumption
<1>2. Included(u) /\ k # 0
  BY DEF Visit, Walked
<1>3. TagsFor(u) \in SUBSET Tag
  BY ResourcesAssumption DEF TagsFor
<1>4. k \in 1..Len(d.text)
  <2>1. k \in 0..Len(d.text)
    BY StopsAtType
  <2> HIDE DEF k
  <2> QED
    BY <1>2, <2>1
<1> HIDE DEF k
<1>5. k \in Nat /\ d.text[k] \in Line
  BY <1>4
<1> HIDE DEF u
<1> DEFINE hit == [uri |-> u, tags |-> TagsFor(u), backend |-> b, line |-> k, snippet |-> d.text[k]]
<1>6. hit \in Result
  BY <1>1, <1>3, <1>5 DEF Result
<1>7. hit \in Finding
  BY <1>1, <1>2, <1>6 DEF Finding
<1> QED
  BY <1>7 DEF Hit, u, k

LEMMA VisitNextStep ==
  ASSUME IInv, NEW i \in DOMAIN run, VisitNext(i)
  PROVE  IInv'
<1> DEFINE b == Target(i)
           u == Walk[Target(i)][run[i].at + 1]
           new == Hit(u, files[u], Target(i))
           found == Append(run[i].got, new)
           what == Visit(u, files[u], call.query)
           on == [run[i] EXCEPT !.at = @ + 1]
           onFound == [on EXCEPT !.got = found]
<1>1. /\ Running(i) /\ Kind[b] = "filesystem" /\ run[i].at < Len(Walk[b])
      /\ UNCHANGED <<world, call, loaded, skipped, answer>>
      /\ \/ Fails(i, "cancelled")
         \/ Fails(i, "scan")
         \/ what = "nothing" /\ run' = [run EXCEPT ![i].at = @ + 1]
         \/ what = "hit" /\ Len(found) >= call.quota /\ Reports(i, found)
         \/ /\ what = "hit" /\ ~ (Len(found) >= call.quota)
            /\ run' = [run EXCEPT ![i].at = @ + 1, ![i].got = found]
  BY DEF VisitNext
<1>2. /\ run[i] \in Goroutine /\ run \in [1..Len(call.targets) -> Goroutine]
      /\ b \in Name /\ Len(run[i].got) < call.quota /\ call.quota \in Nat \ {0}
      /\ run[i].state = "running"
  BY <1>1, RunningMatches
<1>3. run[i].got \in Seq(Finding) /\ run[i].at \in Nat
  BY <1>2 DEF Goroutine
<1>4. "cancelled" \in Cause /\ "scan" \in Cause
  BY DEF Cause
<1>5. CASE Fails(i, "cancelled") \/ Fails(i, "scan")
  BY <1>1, <1>4, <1>5, FailsStep
<1>6. CASE what = "nothing" /\ run' = [run EXCEPT ![i].at = @ + 1]
  <2>1. on \in Goroutine /\ on.got = run[i].got /\ on.state = "running"
    BY <1>2, <1>3 DEF Goroutine
  <2>2. run' = [run EXCEPT ![i] = on]
    BY <1>2, <1>6
  <2>3. Len(on.got) <= call.quota /\ Len(on.got) < call.quota
    BY <1>2, <1>3, <2>1
  <2> HIDE DEF on
  <2> QED
    BY <1>1, <2>1, <2>2, <2>3, GoroutineStep
<1>7. what = "hit" => found \in Seq(Finding) /\ Len(found) = Len(run[i].got) + 1
  <2> SUFFICES ASSUME what = "hit" PROVE found \in Seq(Finding) /\ Len(found) = Len(run[i].got) + 1
    OBVIOUS
  <2>1. Walk[b] \in Seq(URI)
    BY <1>1, <1>2, NewAssumption
  <2>2. run[i].at + 1 \in DOMAIN Walk[b]
    BY <1>1, <1>3, <2>1
  <2>3. files[u].text \in Seq(Line)
    <3>1. u \in URI
      BY <2>1, <2>2
    <3> QED
      BY <3>1, FileText
  <2>4. new \in Finding
    BY <1>1, <1>2, <2>2, <2>3, HitIsFinding
  <2> HIDE DEF new
  <2> QED
    BY <1>3, <2>4
<1>8. Len(run[i].got) + 1 <= call.quota
  BY <1>2, <1>3
<1> HIDE DEF found, what
<1>9. CASE what = "hit" /\ Len(found) >= call.quota /\ Reports(i, found)
  <2>1. found \in Seq(Finding) /\ Len(found) <= call.quota
    BY <1>7, <1>8, <1>9
  <2> QED
    BY <1>1, <1>9, <2>1, ReportsStep
<1>10. CASE /\ what = "hit" /\ ~ (Len(found) >= call.quota)
            /\ run' = [run EXCEPT ![i].at = @ + 1, ![i].got = found]
  <2>1. found \in Seq(Finding) /\ Len(found) < call.quota /\ Len(found) <= call.quota
    BY <1>2, <1>7, <1>10
  <2>2. onFound \in Goroutine /\ onFound.got = found /\ onFound.state = "running"
    <3>1. on \in Goroutine /\ on.state = "running"
      BY <1>2, <1>3 DEF Goroutine
    <3> HIDE DEF on
    <3> QED
      BY <2>1, <3>1 DEF Goroutine
  <2>3. run' = [run EXCEPT ![i] = onFound]
    BY <1>2, <1>10
  <2> HIDE DEF onFound
  <2> QED
    BY <1>1, <2>1, <2>2, <2>3, GoroutineStep
<1> QED
  BY <1>1, <1>5, <1>6, <1>9, <1>10

\* The results parsed from an answer of b are findings, and no more than the quota.
LEMMA ParsedType ==
  ASSUME NEW b \in Name, Kind[b] # "filesystem", NEW items \in Seq(Item), NEW quota \in Nat
  PROVE  Parsed(b, items, quota) \in Seq(Finding) /\ Len(Parsed(b, items, quota)) <= quota
<1> DEFINE S == {x \in Item : x.wellFormed}
           good == Select(items, S)
           n == Least(quota, Len(good))
           found(k) == [uri |-> good[k].uri,
                        tags |-> IF Kind[b] = "http" THEN good[k].tags ELSE {}, backend |-> b,
                        line |-> 0, snippet |-> "plain"]
<1>1. good \in Seq(Item)
  <2>1. good \in Seq(Item \intersect S)
    BY SelectRanks
  <2>2. Item \intersect S = S /\ \A x \in S : x \in Item
    OBVIOUS
  <2> DEFINE W == Item \intersect S
  <2>3. \A x \in W : x \in Item
    OBVIOUS
  <2> HIDE DEF good, W, S
  <2>4. good \in Seq(W)
    BY <2>1 DEF W
  <2> QED
    BY <2>3, <2>4
<1> HIDE DEF good
<1>2. n \in Nat /\ n <= quota /\ n <= Len(good)
  BY <1>1 DEF Least
<1>3. \A k \in 1..n : found(k) \in Finding
  <2> TAKE k \in 1..n
  <2>1. good[k] \in Item
    <3>1. k \in 1..Len(good)
      BY <1>1, <1>2
    <3> QED
      BY <1>1, <3>1
  <2>2. good[k].uri \in URI /\ good[k].tags \in SUBSET Tag
    BY <2>1 DEF Item
  <2>3. found(k) \in Result
    BY <2>2 DEF Result, Line
  <2>4. found(k).backend = b
    OBVIOUS
  <2> HIDE DEF found
  <2> QED
    BY <2>3, <2>4 DEF Finding
<1>4. Parsed(b, items, quota) = [k \in 1..n |-> found(k)]
  BY DEF Parsed, good
<1> HIDE DEF n, found
<1>5. [k \in 1..n |-> found(k)] \in Seq(Finding) /\ Len([k \in 1..n |-> found(k)]) = n
  BY <1>2, <1>3
<1> QED
  BY <1>2, <1>4, <1>5

LEMMA RepliesStep ==
  ASSUME IInv, NEW i \in DOMAIN run, Replies(i)
  PROVE  IInv'
<1>1. /\ Running(i) /\ Kind[Target(i)] # "filesystem"
      /\ UNCHANGED <<world, call, loaded, skipped, answer>>
  BY DEF Replies
<1>2. PICK items \in Seq(Item) : Reports(i, Parsed(Target(i), items, call.quota))
  <2>1. <<>> \in Seq(Item) /\ Reply \subseteq Seq(Item)
    BY RetrievalAssumption
  <2> QED
    BY <2>1 DEF Replies
<1>3. Target(i) \in Name /\ call.quota \in Nat
  BY <1>1, RunningMatches
<1>4. /\ Parsed(Target(i), items, call.quota) \in Seq(Finding)
      /\ Len(Parsed(Target(i), items, call.quota)) <= call.quota
  BY <1>1, <1>3, ParsedType
<1> QED
  BY <1>1, <1>2, <1>4, ReportsStep

-----------------------------------------------------------------------------
(* The answer of a search *)

LEMMA RankInBounds ==
  ASSUME NEW W, IsFiniteSet(W), NEW p \in W, p[2] \in Int, p[1] \in Int
  PROVE  1 + Cardinality(Before(W, p)) \in 1..Cardinality(W)
<1>1. p \notin Before(W, p)
  BY DEF Before
<1>2. Before(W, p) \in SUBSET (W \ {p})
  BY <1>1 DEF Before
<1>3. IsFiniteSet(W \ {p}) /\ Cardinality(W \ {p}) = Cardinality(W) - 1
  BY FS_RemoveElement
<1>4. /\ IsFiniteSet(Before(W, p)) /\ Cardinality(Before(W, p)) <= Cardinality(W \ {p})
      /\ Cardinality(Before(W, p)) \in Nat /\ Cardinality(W) \in Nat
  BY <1>2, <1>3, FS_Subset, FS_CardinalityType
<1> QED
  BY <1>3, <1>4

LEMMA CutType ==
  ASSUME NEW T, NEW all \in Seq(T), NEW limit \in Nat
  PROVE  LET m == Least(limit, Len(all))
         IN  /\ m \in Nat /\ SubSeq(all, 1, m) \in Seq(T) /\ Len(SubSeq(all, 1, m)) = m
             /\ \A k \in 1..m : SubSeq(all, 1, m)[k] = all[k]
<1> DEFINE m == Least(limit, Len(all))
<1>1. m \in Nat /\ m <= Len(all)
  BY DEF Least
<1> HIDE DEF m
<1>2. /\ SubSeq(all, 1, m) \in Seq(T) /\ Len(SubSeq(all, 1, m)) = m
      /\ \A k \in 1..m : SubSeq(all, 1, m)[k] = all[k]
  BY <1>1
<1> QED
  BY <1>1, <1>2 DEF m

LEMMA MergeStep ==
  ASSUME IInv, Merge
  PROVE  IInv'
<1> DEFINE n == Len(call.targets)
           gots == [i \in DOMAIN run |-> run[i].got]
           all == Select(Reported, Passing)
           m == Least(call.limit, Len(all))
           results == SubSeq(all, 1, m)
           W == Chosen(gots, Passing, Len(gots))
<1>1. /\ call.op = "search" /\ call.stage = "running"
      /\ \A i \in DOMAIN run : run[i].state # "running"
      /\ call' = [call EXCEPT !.stage = "answered"]
      /\ answer' = [status |-> "ok", results |-> results]
      /\ UNCHANGED <<world, run, loaded, skipped>>
  BY DEF Merge, Finish
<1>2. answer.status = "none" /\ {"op", "stage", "targets", "limit", "quota"} \subseteq DOMAIN call
  BY <1>1 DEF IInv, Shape, SearchMatches
<1>3. /\ call.targets \in Seq(Name) /\ call.limit \in Nat \ {0} /\ call.quota \in Nat \ {0}
      /\ run \in [1..n -> Goroutine] /\ n \in Nat
      /\ \A i \in 1..n : Len(run[i].got) <= call.quota /\ run[i] \in Goroutine
                         /\ (run[i].state = "failed" => run[i].got = <<>>)
  <2>1. SearchMatches
    BY DEF IInv
  <2> QED
    BY <1>1, <1>2, <2>1 DEF SearchMatches
<1>4. /\ call'.op = "search" /\ call'.stage = "answered" /\ call'.targets = call.targets
      /\ call'.limit = call.limit /\ call'.quota = call.quota
      /\ {"op", "stage", "targets", "limit", "quota"} \subseteq DOMAIN call'
      /\ answer'.status = "ok" /\ answer'.results = results
  BY <1>1, <1>2
<1> HIDE DEF n, results
<1>5. gots \in Seq(Seq(Finding)) /\ Len(gots) = n /\ \A i \in 1..n : gots[i] = run[i].got
  <2>1. \A i \in 1..n : run[i].got \in Seq(Finding)
    BY <1>3 DEF Goroutine
  <2>2. DOMAIN run = 1..n
    BY <1>3
  <2> QED
    BY <1>3, <2>1, <2>2
<1>6. /\ all \in Seq(Finding \intersect Passing)
      /\ Len(all) = Cardinality(W)
      /\ Ranked(all, gots, Passing)
  <2>1. all = Select(FlattenSeq(gots), Passing)
    BY DEF Reported
  <2> HIDE DEF gots, all
  <2> QED
    BY <1>5, <2>1, MergeRanks
<1>7. IsFiniteSet(W) /\ Cardinality(W) \in Nat
  <2>1. Len(gots) \in 0..Len(gots)
    BY <1>3, <1>5
  <2> HIDE DEF gots
  <2> QED
    BY <1>5, <2>1, ChosenFinite
<1> HIDE DEF all
<1>8. /\ m \in Nat /\ results \in Seq(Finding \intersect Passing) /\ Len(results) = m
      /\ \A k \in 1..m : results[k] = all[k]
  <2> DEFINE X == Finding \intersect Passing
  <2>1. all \in Seq(X) /\ call.limit \in Nat
    BY <1>3, <1>6
  <2> HIDE DEF X
  <2>2. /\ m \in Nat /\ results \in Seq(X) /\ Len(results) = m
        /\ \A k \in 1..m : results[k] = all[k]
    BY <2>1, CutType DEF results
  <2> QED
    BY <2>2 DEF X
<1>9. Passing' = Passing
  BY <1>1 DEF Passing, world
<1>10. AnswersMerged'
  <2> DEFINE wanted == {p \in {i \in DOMAIN run : run[i].state = "reported"} \X (1..call.quota) :
                          p[2] \in DOMAIN run[p[1]].got /\ run[p[1]].got[p[2]] \in Passing}
  <2>1. wanted = W
    <3>1. ASSUME NEW p \in wanted PROVE p \in W
      <4>1. p[1] \in 1..n /\ p[2] \in 1..call.quota /\ p = <<p[1], p[2]>>
        BY <1>3
      <4>2. p[2] \in Picks(gots[p[1]], Passing)
        <5>1. gots[p[1]] \in Seq(Finding) /\ gots[p[1]] = run[p[1]].got
          BY <1>5, <4>1
        <5> QED
          BY <5>1 DEF Picks
      <4>3. p \in (1..Len(gots)) \X (Nat \ {0})
        BY <1>3, <1>5, <4>1
      <4> QED
        BY <4>2, <4>3 DEF Chosen
    <3>2. ASSUME NEW p \in W PROVE p \in wanted
      <4>1. p \in (1..n) \X (Nat \ {0}) /\ p[2] \in Picks(gots[p[1]], Passing)
        BY <1>5 DEF Chosen
      <4> DEFINE i == p[1]
                 k == p[2]
      <4>2. i \in 1..n /\ k \in Nat \ {0} /\ p = <<i, k>>
        BY <4>1
      <4>3. gots[i] = run[i].got /\ run[i].got \in Seq(Finding)
        BY <1>5, <4>2
      <4>4. k \in 1..Len(run[i].got) /\ run[i].got[k] \in Passing
        BY <4>1, <4>3 DEF Picks
      <4>5. run[i].state = "reported"
        <5>1. run[i].got # <<>>
          BY <4>3, <4>4
        <5>2. run[i].state \in {"running", "reported", "failed"}
          BY <1>3, <4>2 DEF Goroutine
        <5> QED
          BY <1>1, <1>3, <4>2, <5>1, <5>2
      <4>6. k \in 1..call.quota
        BY <1>3, <4>2, <4>3, <4>4
      <4>7. i \in DOMAIN run /\ DOMAIN run[i].got = 1..Len(run[i].got)
        BY <1>3, <4>2, <4>3
      <4> HIDE DEF i, k
      <4>8. p[1] = i /\ p[2] = k
        BY <4>2
      <4> QED
        BY <4>2, <4>4, <4>5, <4>6, <4>7, <4>8
    <3> QED
      BY <3>1, <3>2
  <2>2. Len(results) = Least(call.limit, Cardinality(W))
    BY <1>6, <1>8
  <2>3. ASSUME NEW p \in W, 1 + Cardinality(Before(W, p)) <= call.limit
        PROVE  results[1 + Cardinality(Before(W, p))] = run[p[1]].got[p[2]]
    <3>1. p[1] \in 1..n /\ p[2] \in Nat
      BY <1>5 DEF Chosen
    <3> DEFINE r == 1 + Cardinality(Before(W, p))
    <3>2. r \in 1..Cardinality(W)
      <4> HIDE DEF W
      <4> QED
        BY <1>7, <3>1, RankInBounds
    <3>3. all[r] = gots[p[1]][p[2]] /\ gots[p[1]] = run[p[1]].got
      BY <1>5, <1>6, <3>1 DEF Ranked
    <3>4. r \in 1..m
      <4> HIDE DEF r, W
      <4>1. r <= call.limit
        BY <2>3 DEF r
      <4> QED
        BY <1>3, <1>6, <1>7, <3>2, <4>1 DEF Least
    <3> HIDE DEF r, W, m, gots
    <3>5. results[r] = run[p[1]].got[p[2]]
      BY <1>8, <3>3, <3>4
    <3> QED
      BY <3>5 DEF r
  <2>4. /\ Len(results) = Least(call.limit, Cardinality(wanted))
        /\ \A p \in wanted : 1 + Cardinality(Before(wanted, p)) <= call.limit =>
              results[1 + Cardinality(Before(wanted, p))] = run[p[1]].got[p[2]]
    <3> HIDE DEF W, wanted
    <3> QED
      BY <2>1, <2>2, <2>3
  <2>5. InPlace(call.limit, call.quota, run, results, Passing)
    BY ONLY <2>4 DEF InPlace, Before
  <2>6. InPlace(call'.limit, call'.quota, run', answer'.results, Passing')
    <3>1. run' = run
      BY <1>1
    <3> QED
      BY ONLY <1>4, <1>9, <2>5, <3>1
  <2> QED
    BY <2>6 DEF AnswersMerged, InPlace

<1>11. FoundIsReadable'
  <2> SUFFICES ASSUME NEW k \in DOMAIN results, Kind[results[k].backend] = "filesystem",
                      files[results[k].uri].at \in {"file", "outside"},
                      InRoot(files[results[k].uri]), results[k].uri \notin Dotted
               PROVE  Peekable(results[k].uri)
    BY <1>1, <1>4 DEF FoundIsReadable, StillThere, Answered, Peekable, world
  <2> DEFINE r == results[k]
  <2>1. r \in Finding /\ r \in Passing
    BY <1>8
  <2>2. /\ Kind[r.backend] = "filesystem" /\ files[r.uri].at \in {"file", "outside"}
        /\ InRoot(files[r.uri]) /\ r.uri \notin Dotted
    OBVIOUS
  <2> HIDE DEF r
  <2>3. Included(r.uri) /\ r.tags = TagsFor(r.uri) /\ Owner[r.uri] = r.backend /\ r.backend \in Name
    BY <2>1, <2>2 DEF Finding, Result
  <2>4. AllowURI(filters, r.uri) /\ AllowTags(filters, r.tags)
    BY <2>1 DEF Passing
  <2>5. Owner[r.uri] # NoName
    BY <2>3, ResourcesAssumption
  <2>6. Peekable(r.uri)
    BY <2>2, <2>3, <2>4, <2>5 DEF Peekable, Readable, HasRelPath
  <2> QED
    BY <2>6 DEF r
<1>12. Shape'
  BY <1>1, <1>4 DEF IInv, Shape, world
<1>13. SearchMatches'
  BY <1>1, <1>3, <1>4 DEF SearchMatches, n
<1>14. LoadMatches' /\ SourcesAccounted' /\ WithinBudget'
  BY <1>4 DEF LoadMatches, SourcesAccounted, WithinBudget, Answered
<1>15. SecretsMasked'
  <2>1. Masked'
    BY <1>1, MaskedNow DEF Masked, WholeMasked, StretchMasked, world
  <2> QED
    BY <1>4, <2>1 DEF SecretsMasked, Masked, WholeMasked, Answered
<1> QED
  BY <1>10, <1>11, <1>12, <1>13, <1>14, <1>15 DEF IInv

-----------------------------------------------------------------------------
(* Redaction *)

LEMMA RedactType ==
  ASSUME NEW of \in Seq(Line)
  PROVE  /\ FilterContent(filters, of) \in Seq(Line)
         /\ Len(FilterContent(filters, of)) = Len(of)
<1> DEFINE t(i) == IF Matched(of, i) THEN "mask" ELSE of[i]
<1>1. Len(of) \in Nat /\ DOMAIN of = 1..Len(of) /\ \A i \in 1..Len(of) : of[i] \in Line
  OBVIOUS
<1>2. "mask" \in Line
  BY DEF Line
<1>3. \A i \in 1..Len(of) : t(i) \in Line
  BY <1>1, <1>2
<1>4. Redact(of) = [i \in 1..Len(of) |-> t(i)]
  BY <1>1 DEF Redact
<1> HIDE DEF t
<1>5. Redact(of) \in Seq(Line) /\ Len(Redact(of)) = Len(of)
  BY <1>1, <1>3, <1>4
<1> QED
  BY <1>5 DEF FilterContent

\* A stretch of a redacted text, after its first lines, is masked as the whole is.
LEMMA StretchIsMasked ==
  ASSUME NEW of \in Seq(Line), NEW text, NEW from \in 0..Len(of),
         \A i \in DOMAIN text : /\ i \in Int /\ from + i \in 1..Len(of)
                                /\ text[i] = FilterContent(filters, of)[from + i]
  PROVE  StretchMasked(of, text)
<1> SUFFICES ASSUME filters.enabled /\ filters.redact, NEW i \in DOMAIN text
             PROVE  /\ from + i \in DOMAIN of
                    /\ text[i] = IF Matched(of, from + i) THEN "mask" ELSE of[from + i]
  BY DEF StretchMasked
<1> DEFINE j == from + i
<1>1. DOMAIN of = 1..Len(of) /\ j \in 1..Len(of)
  OBVIOUS
<1>2. text[i] = Redact(of)[j]
  BY DEF FilterContent
<1>3. Redact(of)[j] = IF Matched(of, j) THEN "mask" ELSE of[j]
  <2> HIDE DEF j
  <2> QED
    BY <1>1 DEF Redact
<1> QED
  BY <1>1, <1>2, <1>3

LEMMA WholeIsMasked ==
  ASSUME NEW of \in Seq(Line)
  PROVE  WholeMasked(of, FilterContent(filters, of))
<1> DEFINE text == FilterContent(filters, of)
<1>1. text \in Seq(Line) /\ Len(text) = Len(of)
  BY RedactType
<1> HIDE DEF text
<1>2. /\ \A i \in DOMAIN text : i \in Int /\ 0 + i \in 1..Len(of) /\ text[i] = text[0 + i]
      /\ 0 \in 0..Len(of)
  BY <1>1
<1>3. StretchMasked(of, text)
  BY <1>2, StretchIsMasked DEF text
<1> QED
  BY <1>1, <1>3 DEF WholeMasked, text

LEMMA SliceIsMasked ==
  ASSUME NEW of \in Seq(Line), NEW from \in Int, NEW to \in Int
  PROVE  StretchMasked(of, SliceLines(FilterContent(filters, of), from, to))
<1> DEFINE whole == FilterContent(filters, of)
           a == IF from <= 0 THEN 1 ELSE from
           b == IF to <= 0 \/ to > Len(whole) THEN Len(whole) ELSE to
           text == SubSeq(whole, a, b)
           k == IF a - 1 <= Len(of) THEN a - 1 ELSE 0
<1>1. whole \in Seq(Line) /\ Len(whole) = Len(of)
  BY RedactType
<1> HIDE DEF whole
<1>2. a \in Int /\ b \in Int /\ 1 <= a /\ b <= Len(of) /\ Len(of) \in Nat
  BY <1>1
<1>3. text = SliceLines(whole, from, to)
  BY DEF SliceLines
<1> HIDE DEF a, b
<1>4. \A i \in DOMAIN text : i \in 1..1 + b - a /\ text[i] = whole[a + i - 1]
  BY <1>1, <1>2
<1> HIDE DEF text
<1>5. \A i \in DOMAIN text : i \in Int /\ k + i \in 1..Len(of) /\ text[i] = whole[k + i]
  <2> TAKE i \in DOMAIN text
  <2>1. i \in Int /\ 1 <= i /\ i <= 1 + b - a
    BY <1>2, <1>4
  <2>2. k = a - 1
    BY <1>2, <2>1
  <2>3. k + i = a + i - 1 /\ k + i \in 1..Len(of)
    BY <1>2, <2>1, <2>2
  <2> QED
    BY <1>4, <2>1, <2>3
<1>6. k \in 0..Len(of)
  BY <1>2
<1> HIDE DEF k
<1>7. StretchMasked(of, text)
  BY <1>5, <1>6, StretchIsMasked DEF whole
<1> QED
  BY <1>3, <1>7 DEF whole

LEMMA PeekStep ==
  ASSUME IInv, NEW u \in URI, NEW s \in Slice, Peek(u, s[1], s[2])
  PROVE  IInv'
<1> DEFINE of == files[u].text
           text == SliceLines(FilterContent(filters, of), s[1], s[2])
<1>1. /\ call.stage = "idle" /\ call' = [op |-> "peek", stage |-> "answered"]
      /\ answer' = [status |-> "ok", of |-> of, text |-> text]
      /\ UNCHANGED <<world, run, loaded, skipped>>
  BY DEF Peek
<1>2. Fresh
  BY <1>1, IdleIsFresh
<1>3. s[1] \in Int /\ s[2] \in Int
  BY RetrievalAssumption
<1>4. of \in Seq(Line)
  BY FileText
<1>5. StretchMasked(of, text)
  <2> HIDE DEF of
  <2> QED
    BY <1>3, <1>4, SliceIsMasked
<1> HIDE DEF of, text
<1>6. /\ call'.op = "peek" /\ call'.stage = "answered" /\ {"op", "stage"} \subseteq DOMAIN call'
      /\ answer'.status = "ok" /\ answer'.of = of /\ answer'.text = text
  BY <1>1
<1>7. Shape'
  BY <1>1, <1>2, <1>6 DEF IInv, Shape, Fresh, world
<1>8. SearchMatches' /\ LoadMatches'
  BY <1>6 DEF SearchMatches, LoadMatches
<1>9. AnswersMerged' /\ FoundIsReadable' /\ SourcesAccounted' /\ WithinBudget'
  BY <1>6 DEF AnswersMerged, FoundIsReadable, SourcesAccounted, WithinBudget, Answered
<1>10. SecretsMasked'
  <2>1. filters' = filters
    BY <1>1 DEF world
  <2>2. StretchMasked(answer.of, answer.text)'
    BY <1>5, <1>6, <2>1 DEF StretchMasked
  <2>3. \A i \in DOMAIN loaded' : FALSE
    BY <1>1, <1>2 DEF Fresh
  <2> QED
    BY <2>2, <2>3 DEF SecretsMasked
<1> QED
  BY <1>7, <1>8, <1>9, <1>10 DEF IInv

-----------------------------------------------------------------------------
(* The sources of a context *)

LEMMA NamedNext ==
  ASSUME NEW u, NEW n \in Nat
  PROVE  /\ Named(u, n) \in Nat
         /\ Named(u, n + 1) = IF Sources[n + 1][2] = u THEN Named(u, n) + 1 ELSE Named(u, n)
<1> DEFINE A == {i \in Nat \ {0} : Sources[i][2] = u}
<1>1. \A m \in Nat : UpTo(A, m) = {i \in 1..m : Sources[i][2] = u}
  BY DEF UpTo
<1>2. n + 1 \in A <=> Sources[n + 1][2] = u
  OBVIOUS
<1>3. A \in SUBSET (Nat \ {0})
  OBVIOUS
<1> HIDE DEF A
<1>4. /\ Cardinality(UpTo(A, n)) \in Nat
      /\ Cardinality(UpTo(A, n + 1))
           = IF n + 1 \in A THEN Cardinality(UpTo(A, n)) + 1 ELSE Cardinality(UpTo(A, n))
  BY <1>3, UpToCounts
<1>5. Named(u, n) = Cardinality(UpTo(A, n))
  BY <1>1 DEF Named
<1>6. Named(u, n + 1) = Cardinality(UpTo(A, n + 1))
  <2>1. UpTo(A, n + 1) = {i \in 1..n + 1 : Sources[i][2] = u}
    BY <1>1
  <2> QED
    BY ONLY <2>1 DEF Named
<1> QED
  BY <1>2, <1>4, <1>5, <1>6

\* A list with an element more at its end.
Longer(s, t, x) ==
  /\ Len(t) = Len(s) + 1 /\ t[Len(s) + 1] = x
  /\ \A i \in 1..Len(s) : t[i] = s[i]
  /\ DOMAIN s = 1..Len(s) /\ DOMAIN t = 1..Len(s) + 1

LEMMA LongerNext ==
  ASSUME NEW u, NEW s, NEW t, NEW x, Len(s) \in Nat, Longer(s, t, x)
  PROVE  /\ Listed(u, s) \in Nat
         /\ Listed(u, t) = IF x.uri = u THEN Listed(u, s) + 1 ELSE Listed(u, s)
<1> DEFINE A == {i \in Nat \ {0} : t[i].uri = u}
           n == Len(s)
<1>1. UpTo(A, n) = {i \in DOMAIN s : s[i].uri = u}
  BY DEF UpTo, Longer
<1>2. UpTo(A, n + 1) = {i \in DOMAIN t : t[i].uri = u}
  BY DEF UpTo, Longer
<1>3. n + 1 \in A <=> x.uri = u
  BY DEF Longer
<1>4. A \in SUBSET (Nat \ {0})
  OBVIOUS
<1> HIDE DEF A
<1>5. /\ Cardinality(UpTo(A, n)) \in Nat
      /\ Cardinality(UpTo(A, n + 1))
           = IF n + 1 \in A THEN Cardinality(UpTo(A, n)) + 1 ELSE Cardinality(UpTo(A, n))
  BY <1>4, UpToCounts
<1> QED
  BY <1>1, <1>2, <1>3, <1>5 DEF Listed

LEMMA AppendIsLonger ==
  ASSUME NEW T, NEW s \in Seq(T), NEW x \in T
  PROVE  Append(s, x) \in Seq(T) /\ Len(s) \in Nat /\ Longer(s, Append(s, x), x)
BY DEF Longer

LEMMA LoadSourceStep ==
  ASSUME IInv, LoadSource
  PROVE  IInv'
<1> DEFINE n == Len(loaded) + Len(skipped)
           u == Sources[NextSource][2]
           new == [uri |-> u, of |-> files[u].text, text |-> FilterContent(filters, files[u].text)]
<1>1. /\ call.op = "load" /\ call.stage = "running" /\ NextSource <= Len(Sources)
      /\ UNCHANGED <<world, call, run, answer>>
      /\ \/ \E reason \in Reason : Skip(u, reason)
         \/ loaded' = Append(loaded, new) /\ UNCHANGED skipped
  BY DEF LoadSource, Loading, Reason
<1>2. answer.status = "none"
  BY <1>1 DEF IInv, Shape
<1>3. /\ {"context", "format"} \subseteq DOMAIN call /\ call.context \in DOMAIN Contexts
      /\ loaded \in Seq(Source) /\ skipped \in Seq(Left)
      /\ n <= Len(Sources)
      /\ \A v \in URI : Named(v, n) = Listed(v, loaded) + Listed(v, skipped)
  BY <1>1, <1>2 DEF IInv, LoadMatches
<1>4. /\ Len(loaded) \in Nat /\ Len(skipped) \in Nat /\ n \in Nat
      /\ n = Len(loaded) + Len(skipped) /\ NextSource = n + 1
  BY <1>3 DEF NextSource
<1> HIDE DEF n
<1>5. u \in URI
  <2>1. Sources \in Seq(Name \X URI) /\ Len(Sources) \in Nat
    BY <1>3, ContextType DEF Sources
  <2>2. NextSource \in 1..Len(Sources)
    <3>1. /\ NextSource = n + 1 /\ n \in Nat /\ NextSource <= Len(Sources)
          /\ Len(Sources) \in Nat
      BY <1>1, <1>4, <2>1
    <3> HIDE DEF NextSource, Sources
    <3> QED
      BY ONLY <3>1
  <2> QED
    BY <2>1, <2>2
<1>6. new \in Source
  <2>1. files[u].text \in Seq(Line)
    BY <1>5, FileText
  <2>2. FilterContent(filters, files[u].text) \in Seq(Line)
    BY <2>1, RedactType
  <2> HIDE DEF u
  <2> QED
    BY <1>5, <2>1, <2>2 DEF Source
<1>7. new.uri = u /\ new.of = files[u].text /\ new.text = FilterContent(filters, files[u].text)
  OBVIOUS
<1>8. Shape'
  BY <1>1, <1>2 DEF IInv, Shape, world
<1>9. SearchMatches'
  BY <1>1 DEF SearchMatches
<1>10. u = Sources[n + 1][2]
  BY <1>4
<1> HIDE DEF new, u
<1>11. \A v : /\ Named(v, n + 1) = (IF u = v THEN Named(v, n) + 1 ELSE Named(v, n))
              /\ Named(v, n) \in Nat
  BY <1>4, <1>10, NamedNext
<1>12. \A v, m : Named(v, m)' = Named(v, m) /\ Sources' = Sources
  BY <1>1 DEF Named, Sources
<1>13. ASSUME NEW reason \in Reason, Skip(u, reason)
       PROVE  LoadMatches' /\ Masked'
  <2> DEFINE left == [uri |-> u, reason |-> reason]
  <2>1. skipped' = Append(skipped, left) /\ loaded' = loaded /\ left.uri = u
    BY <1>13 DEF Skip
  <2>2. left \in Left
    BY <1>5 DEF Left
  <2> HIDE DEF left
  <2>3. skipped' \in Seq(Left) /\ Longer(skipped, skipped', left)
    BY <1>3, <2>1, <2>2, AppendIsLonger
  <2>4. Len(loaded') + Len(skipped') = n + 1
    BY <1>4, <2>1, <2>3 DEF Longer
  <2>5. ASSUME NEW v \in URI
        PROVE  Named(v, n + 1) = Listed(v, loaded') + Listed(v, skipped')
    <3>1. /\ Listed(v, skipped) \in Nat
          /\ Listed(v, skipped') = IF u = v THEN Listed(v, skipped) + 1 ELSE Listed(v, skipped)
      BY <1>4, <2>1, <2>3, LongerNext
    <3>2. Named(v, n) = Listed(v, loaded) + Listed(v, skipped) /\ loaded' = loaded
      BY <1>3, <2>1
    <3>3. Listed(v, loaded) \in Nat
      <4>1. Len(loaded) \in Nat /\ IsFiniteSet(1..Len(loaded))
        BY <1>4, FS_Interval
      <4>2. {i \in DOMAIN loaded : loaded[i].uri = v} \in SUBSET (1..Len(loaded))
        BY <1>3
      <4> QED
        BY <4>1, <4>2, FS_Subset, FS_CardinalityType DEF Listed
    <3> QED
      BY <1>11, <3>1, <3>2, <3>3
  <2>6. LoadMatches'
    <3>1. ASSUME NEW v \in URI
          PROVE  Named(v, Len(loaded) + Len(skipped))' = Listed(v, loaded)' + Listed(v, skipped)'
      <4>1. Named(v, Len(loaded) + Len(skipped))' = Named(v, n + 1)
        BY <1>12, <2>4 DEF Named
      <4> QED
        BY <2>5, <4>1 DEF Listed
    <3>2. Len(loaded') + Len(skipped') <= Len(Sources')
      BY <1>1, <1>4, <1>12, <2>4
    <3> QED
      BY <1>1, <1>3, <2>1, <2>3, <3>1, <3>2 DEF LoadMatches
  <2>7. Masked'
    BY <1>1, <2>1, MaskedNow DEF Masked, WholeMasked, StretchMasked, world
  <2> QED
    BY <2>6, <2>7
<1>14. ASSUME loaded' = Append(loaded, new), UNCHANGED skipped
       PROVE  LoadMatches' /\ Masked'
  <2>1. loaded' \in Seq(Source) /\ Longer(loaded, loaded', new) /\ skipped' = skipped
    BY <1>3, <1>6, <1>14, AppendIsLonger
  <2>2. Len(loaded') + Len(skipped') = n + 1
    BY <1>4, <2>1 DEF Longer
  <2>3. ASSUME NEW v \in URI
        PROVE  Named(v, n + 1) = Listed(v, loaded') + Listed(v, skipped')
    <3>1. /\ Listed(v, loaded) \in Nat
          /\ Listed(v, loaded') = IF u = v THEN Listed(v, loaded) + 1 ELSE Listed(v, loaded)
      BY <1>4, <1>7, <2>1, LongerNext
    <3>2. Named(v, n) = Listed(v, loaded) + Listed(v, skipped) /\ skipped' = skipped
      BY <1>3, <2>1
    <3>3. Listed(v, skipped) \in Nat
      <4>1. Len(skipped) \in Nat /\ IsFiniteSet(1..Len(skipped))
        BY <1>4, FS_Interval
      <4>2. {i \in DOMAIN skipped : skipped[i].uri = v} \in SUBSET (1..Len(skipped))
        BY <1>3
      <4> QED
        BY <4>1, <4>2, FS_Subset, FS_CardinalityType DEF Listed
    <3> QED
      BY <1>11, <3>1, <3>2, <3>3
  <2>4. LoadMatches'
    <3>1. ASSUME NEW v \in URI
          PROVE  Named(v, Len(loaded) + Len(skipped))' = Listed(v, loaded)' + Listed(v, skipped)'
      <4>1. Named(v, Len(loaded) + Len(skipped))' = Named(v, n + 1)
        BY <1>12, <2>2 DEF Named
      <4> QED
        BY <2>3, <4>1 DEF Listed
    <3>2. Len(loaded') + Len(skipped') <= Len(Sources')
      BY <1>1, <1>4, <1>12, <2>2
    <3> QED
      BY <1>1, <1>3, <2>1, <3>1, <3>2 DEF LoadMatches
  <2>5. Masked'
    <3>1. WholeMasked(new.of, new.text)
      BY <1>5, <1>7, FileText, WholeIsMasked
    <3>2. ASSUME NEW i \in DOMAIN loaded' PROVE WholeMasked(loaded'[i].of, loaded'[i].text)
      <4>1. i \in 1..Len(loaded) + 1
        BY <2>1 DEF Longer
      <4>2. CASE i = Len(loaded) + 1
        <5>1. loaded'[i] = new
          BY <2>1, <4>2 DEF Longer
        <5> QED
          BY <3>1, <5>1
      <4>3. CASE i # Len(loaded) + 1
        <5>1. i \in 1..Len(loaded) /\ DOMAIN loaded = 1..Len(loaded)
          BY <1>4, <2>1, <4>1, <4>3 DEF Longer
        <5>2. loaded'[i] = loaded[i]
          BY <2>1, <5>1 DEF Longer
        <5>3. WholeMasked(loaded[i].of, loaded[i].text)
          BY <5>1, MaskedNow DEF Masked
        <5> QED
          BY <5>2, <5>3
      <4> QED
        BY <4>2, <4>3
    <3>3. filters' = filters
      BY <1>1 DEF world
    <3> QED
      BY <3>2, <3>3 DEF Masked, WholeMasked, StretchMasked
  <2> QED
    BY <2>4, <2>5
<1>15. LoadMatches' /\ Masked'
  BY <1>1, <1>13, <1>14 DEF u, new
<1>16. answer'.status # "ok"
  BY <1>1, <1>2
<1> QED
  BY <1>8, <1>9, <1>15, <1>16, SilentStep

-----------------------------------------------------------------------------
(* The bundle *)

\* The last place of 1..n that is in S, or 0.
LEMMA LastPlace ==
  ASSUME NEW S, NEW n \in Nat
  PROVE  \E c \in 0..n : (c = 0 \/ c \in S) /\ \A d \in c + 1 .. n : d \notin S
<1> DEFINE Has(m) == \E c \in 0..m : (c = 0 \/ c \in S) /\ \A d \in c + 1 .. m : d \notin S
           Good == {m \in Nat : Has(m)}
<1>1. 0 \in Good
  OBVIOUS
<1>2. ASSUME NEW m \in Nat, m \in Good PROVE m + 1 \in Good
  <2>1. CASE m + 1 \in S
    <3>1. m + 1 \in 0..m + 1 /\ \A d \in (m + 1) + 1 .. m + 1 : FALSE
      OBVIOUS
    <3> QED
      BY <2>1, <3>1
  <2>2. CASE m + 1 \notin S
    <3>1. PICK c \in 0..m : (c = 0 \/ c \in S) /\ \A d \in c + 1 .. m : d \notin S
      BY <1>2
    <3>2. \A d \in c + 1 .. m + 1 : d \notin S
      <4> TAKE d \in c + 1 .. m + 1
      <4>1. d = m + 1 \/ d \in c + 1 .. m
        OBVIOUS
      <4> QED
        BY <2>2, <3>1, <4>1
    <3>3. c \in 0..m + 1
      OBVIOUS
    <3> QED
      BY <3>1, <3>2, <3>3
  <2> QED
    BY <2>1, <2>2
<1>3. n \in Good
  <2> HIDE DEF Good
  <2> QED
    BY <1>1, <1>2, Induction
<1> QED
  BY <1>3

Byte == {"ascii", "lead", "cont"}

LEMMA BytesType ==
  ASSUME NEW s \in Source
  PROVE  Bytes(s) \in Seq(Byte) /\ Len(Bytes(s)) >= 1 /\ Bytes(s)[1] = "ascii"
<1> DEFINE ss == [i \in DOMAIN s.text |-> <<"lead", "cont">>]
           rest == FlattenSeq(ss)
<1>1. <<"lead", "cont">> \in Seq(Byte)
  BY DEF Byte
<1>2. ss \in Seq(Seq(Byte))
  <2> DEFINE pair == <<"lead", "cont">>
  <2>1. ss = [i \in DOMAIN s.text |-> pair] /\ pair \in Seq(Byte)
    BY <1>1
  <2>2. s.text \in Seq(Line)
    BY DEF Source
  <2>3. DOMAIN s.text = 1..Len(s.text) /\ Len(s.text) \in Nat
    BY <2>2
  <2> HIDE DEF pair, ss
  <2> QED
    BY <2>1, <2>3
<1> HIDE DEF ss
<1>3. rest \in Seq(Byte)
  <2>1. PICK f \in [0..Len(ss) -> Seq(Byte)] : Joins(f, ss) /\ rest = f[Len(ss)]
    BY <1>2, FlattenJoins
  <2>2. Len(ss) \in 0..Len(ss)
    BY <1>2
  <2> QED
    BY <2>1, <2>2
<1> HIDE DEF rest
<1>4. <<"ascii">> \in Seq(Byte) /\ Len(<<"ascii">>) = 1 /\ <<"ascii">>[1] = "ascii"
  BY DEF Byte
<1>5. Bytes(s) = Cat(<<"ascii">>, rest)
  BY DEF Bytes, Cat, ss, rest
<1> DEFINE head == <<"ascii">>
<1>6. head \in Seq(Byte) /\ Len(head) = 1 /\ head[1] = "ascii" /\ Bytes(s) = Cat(head, rest)
  BY <1>4, <1>5
<1> HIDE DEF head
<1>7. /\ Cat(head, rest) \in Seq(Byte) /\ Len(rest) \in Nat
      /\ Len(Cat(head, rest)) = Len(head) + Len(rest)
      /\ \A k \in 1..Len(head) : Cat(head, rest)[k] = head[k]
  BY <1>3, <1>6, CatProperties
<1> QED
  BY <1>6, <1>7

\* The bytes of a bundle, if it has any, begin a character.
LEMMA JoinedType ==
  ASSUME NEW ss \in Seq(Source)
  PROVE  /\ Joined(ss) \in Seq(Byte) /\ Len(Joined(ss)) \in Nat
         /\ Len(Joined(ss)) > 0 => Joined(ss)[1] = "ascii"
<1> DEFINE bs == [i \in DOMAIN ss |-> Bytes(ss[i])]
<1>1. Len(ss) \in Nat /\ DOMAIN ss = 1..Len(ss) /\ \A i \in 1..Len(ss) : ss[i] \in Source
  OBVIOUS
<1>2. \A i \in 1..Len(ss) : Bytes(ss[i]) \in Seq(Byte)
  BY <1>1, BytesType
<1>3. bs \in Seq(Seq(Byte)) /\ Len(bs) = Len(ss) /\ \A i \in 1..Len(ss) : bs[i] = Bytes(ss[i])
  BY <1>1, <1>2
<1>4. Joined(ss) = FlattenSeq(bs)
  BY DEF Joined
<1> HIDE DEF bs
<1>5. PICK f \in [0..Len(bs) -> Seq(Byte)] : Joins(f, bs) /\ Joined(ss) = f[Len(bs)]
  BY <1>3, <1>4, FlattenJoins
<1> DEFINE Good == {n \in Nat : n + 1 <= Len(bs) => Len(f[n + 1]) >= 1 /\ f[n + 1][1] = "ascii"}
<1>6. ASSUME NEW n \in 1..Len(bs)
      PROVE  /\ f[n - 1] \in Seq(Byte) /\ bs[n] \in Seq(Byte) /\ f[n] = Cat(f[n - 1], bs[n])
             /\ Len(f[n - 1]) \in Nat /\ Len(bs[n]) \in Nat /\ Len(bs[n]) >= 1
             /\ bs[n][1] = "ascii"
  <2>1. n - 1 \in 0..Len(bs) /\ n \in 1..Len(ss)
    BY <1>1, <1>3
  <2>2. f[n - 1] \in Seq(Byte)
    BY <1>5, <2>1
  <2>3. bs[n] = Bytes(ss[n]) /\ ss[n] \in Source
    BY <1>1, <1>3, <2>1
  <2>4. bs[n] \in Seq(Byte) /\ Len(bs[n]) >= 1 /\ bs[n][1] = "ascii"
    BY <2>3, BytesType
  <2>5. f[n] = Cat(f[n - 1], bs[n])
    BY <1>5 DEF Joins
  <2> QED
    BY <2>2, <2>4, <2>5
<1>7. 0 \in Good
  <2> SUFFICES ASSUME 0 + 1 <= Len(bs) PROVE Len(f[1]) >= 1 /\ f[1][1] = "ascii"
    OBVIOUS
  <2>1. 1 \in 1..Len(bs)
    BY <1>1, <1>3
  <2>2. f[0] = <<>>
    BY <1>5 DEF Joins
  <2>3. f[1] = bs[1]
    <3>1. f[1] = Cat(f[1 - 1], bs[1]) /\ bs[1] \in Seq(Byte) /\ 1 - 1 = 0
      BY <1>6, <2>1
    <3>2. f[1] = Cat(<<>>, bs[1])
      BY <2>2, <3>1
    <3> QED
      BY <3>1, <3>2 DEF Cat
  <2> QED
    BY <1>6, <2>1, <2>3
<1>8. ASSUME NEW n \in Nat, n \in Good PROVE n + 1 \in Good
  <2> SUFFICES ASSUME (n + 1) + 1 <= Len(bs)
               PROVE  Len(f[(n + 1) + 1]) >= 1 /\ f[(n + 1) + 1][1] = "ascii"
    OBVIOUS
  <2>1. (n + 1) + 1 \in 1..Len(bs) /\ ((n + 1) + 1) - 1 = n + 1 /\ n + 1 <= Len(bs)
    BY <1>1, <1>3
  <2> DEFINE s == f[n + 1]
             t == bs[(n + 1) + 1]
  <2>2. Len(s) >= 1 /\ s[1] = "ascii"
    BY <1>8, <2>1
  <2>3. s \in Seq(Byte) /\ t \in Seq(Byte) /\ f[(n + 1) + 1] = Cat(s, t)
    BY <1>6, <2>1
  <2> HIDE DEF s, t
  <2>4. /\ Len(s) \in Nat /\ Len(t) \in Nat /\ Len(Cat(s, t)) = Len(s) + Len(t)
        /\ \A k \in 1..Len(s) : Cat(s, t)[k] = s[k]
    BY <2>3, CatProperties
  <2> QED
    BY <2>2, <2>3, <2>4
<1>9. Nat \subseteq Good
  <2> HIDE DEF Good
  <2> QED
    BY <1>7, <1>8, Induction
<1>10. Joined(ss) \in Seq(Byte) /\ Len(Joined(ss)) \in Nat
  <2>1. Len(bs) \in 0..Len(bs)
    BY <1>1, <1>3
  <2>2. Joined(ss) \in Seq(Byte)
    BY <1>5, <2>1
  <2> QED
    BY <2>2
<1>11. ASSUME Len(Joined(ss)) > 0 PROVE Joined(ss)[1] = "ascii"
  <2>1. CASE Len(bs) = 0
    <3>1. Joined(ss) = <<>>
      BY <1>5, <2>1 DEF Joins
    <3> QED
      BY <1>11, <3>1
  <2>2. CASE Len(bs) # 0
    <3>1. Len(bs) - 1 \in Nat /\ (Len(bs) - 1) + 1 = Len(bs)
      BY <1>1, <1>3, <2>2
    <3>2. Len(bs) - 1 \in Good
      BY <1>9, <3>1
    <3> QED
      BY <1>5, <3>1, <3>2
  <2> QED
    BY <2>1, <2>2
<1> QED
  BY <1>10, <1>11

LEMMA CutAtIsLast ==
  ASSUME NEW bytes, NEW n \in Nat
  PROVE  /\ CutAt(bytes, n) \in 0..n
         /\ CutAt(bytes, n) = 0 \/ bytes[CutAt(bytes, n) + 1] # "cont"
         /\ \A d \in CutAt(bytes, n) + 1 .. n : bytes[d + 1] = "cont"
<1> DEFINE S == {c \in Nat : bytes[c + 1] # "cont"}
           Cut(c) == /\ c = 0 \/ bytes[c + 1] # "cont"
                     /\ \A d \in c + 1 .. n : bytes[d + 1] = "cont"
<1>1. PICK c \in 0..n : (c = 0 \/ c \in S) /\ \A d \in c + 1 .. n : d \notin S
  <2> HIDE DEF S
  <2> QED
    BY LastPlace
<1>2. Cut(c)
  <2>1. \A d \in c + 1 .. n : d \in Nat
    OBVIOUS
  <2> QED
    BY <1>1, <2>1
<1>3. CutAt(bytes, n) = CHOOSE k \in 0..n : Cut(k)
  BY DEF CutAt
<1> DEFINE cut == CHOOSE k \in 0..n : Cut(k)
<1>4. cut \in 0..n /\ Cut(cut)
  <2> HIDE DEF Cut
  <2> QED
    BY <1>2
<1> HIDE DEF cut
<1> QED
  BY <1>3, <1>4 DEF cut

\* What both formats leave as it was, and what the sources amount to by then.
Assembled ==
  /\ call.op = "load" /\ answer.status = "none" /\ call.context \in DOMAIN Contexts
  /\ {"op", "stage", "context", "format"} \subseteq DOMAIN call
  /\ loaded \in Seq(Source) /\ skipped \in Seq(Left)
  /\ Len(loaded) \in Nat /\ Len(skipped) \in Nat /\ Budget \in Int
  /\ \A u \in URI : Cardinality({i \in DOMAIN Sources : Sources[i][2] = u})
                      = Listed(u, loaded) + Listed(u, skipped)

LEMMA AssembledNow ==
  ASSUME IInv, Loading, NextSource > Len(Sources)
  PROVE  Assembled
<1>1. call.op = "load" /\ call.stage = "running"
  BY DEF Loading
<1>2. answer.status = "none"
  BY <1>1 DEF IInv, Shape
<1>3. /\ {"op", "stage", "context", "format"} \subseteq DOMAIN call
      /\ call.context \in DOMAIN Contexts /\ loaded \in Seq(Source) /\ skipped \in Seq(Left)
      /\ Len(loaded) + Len(skipped) <= Len(Sources)
      /\ \A u \in URI :
           Named(u, Len(loaded) + Len(skipped)) = Listed(u, loaded) + Listed(u, skipped)
  BY <1>1, <1>2 DEF IInv, Shape, LoadMatches
<1>4. Sources \in Seq(Name \X URI) /\ Budget \in Int
  BY <1>3, ContextType DEF Sources, Budget
<1>5. Len(loaded) \in Nat /\ Len(skipped) \in Nat
  BY <1>3
<1>6. Len(Sources) \in Nat /\ DOMAIN Sources = 1..Len(Sources)
  <2> DEFINE P == Name \X URI
  <2>1. Sources \in Seq(P)
    BY <1>4
  <2> HIDE DEF P, Sources
  <2> QED
    BY <2>1
<1>7. Len(loaded) + Len(skipped) = Len(Sources)
  <2>1. Len(loaded) + Len(skipped) + 1 > Len(Sources)
    BY DEF NextSource
  <2>2. /\ Len(loaded) + Len(skipped) <= Len(Sources)
        /\ Len(loaded) \in Nat /\ Len(skipped) \in Nat /\ Len(Sources) \in Nat
    BY <1>3, <1>5, <1>6
  <2> DEFINE x == Len(loaded)
             y == Len(skipped)
             z == Len(Sources)
  <2>3. x + y + 1 > z /\ x + y <= z /\ x \in Nat /\ y \in Nat /\ z \in Nat
    BY <2>1, <2>2
  <2> HIDE DEF x, y, z
  <2>4. x + y = z
    BY ONLY <2>3
  <2> QED
    BY <2>4 DEF x, y, z
<1>8. \A u \in URI : Named(u, Len(Sources))
                       = Cardinality({i \in DOMAIN Sources : Sources[i][2] = u})
  BY <1>6 DEF Named
<1> QED
  BY <1>1, <1>2, <1>3, <1>4, <1>5, <1>7, <1>8 DEF Assembled

\* Assembling touches none of the properties of the other calls.
LEMMA AssemblyStep ==
  ASSUME IInv, Assembled, NEW a, Finish(a), UNCHANGED <<world, run, loaded>>,
         a.status = "ok", skipped' \in Seq(Left), SourcesAccounted', WithinBudget'
  PROVE  IInv'
<1>1. /\ call'.op = "load" /\ call'.stage = "answered" /\ call'.context = call.context
      /\ {"op", "stage", "context", "format"} \subseteq DOMAIN call' /\ answer'.status = "ok"
  BY DEF Assembled, Finish
<1>2. Shape'
  BY <1>1 DEF IInv, Shape, Assembled, world
<1>3. SearchMatches' /\ AnswersMerged' /\ FoundIsReadable'
  BY <1>1 DEF SearchMatches, AnswersMerged, FoundIsReadable, Answered
<1>4. LoadMatches'
  BY <1>1 DEF LoadMatches, Assembled
<1>5. SecretsMasked'
  <2>1. Masked'
    BY MaskedNow DEF Masked, WholeMasked, StretchMasked, world
  <2> QED
    BY <1>1, <2>1 DEF SecretsMasked, Masked, WholeMasked, Answered
<1> QED
  BY <1>2, <1>3, <1>4, <1>5 DEF IInv

LEMMA BeganBeforeType ==
  ASSUME loaded \in Seq(Source), NEW n \in Nat
  PROVE  BeganBefore(n) \in 0..Len(loaded)
<1> DEFINE begins(k) == Len(Joined(SubSeq(loaded, 1, k - 1)))
           S == {k \in Nat : begins(k) < n}
           IsLast(k) == /\ k = 0 \/ begins(k) < n
                        /\ \A j \in k + 1 .. Len(loaded) : begins(j) >= n
           last == CHOOSE k \in 0..Len(loaded) : IsLast(k)
<1>1. Len(loaded) \in Nat
  OBVIOUS
<1>2. \A k \in 1..Len(loaded) : begins(k) \in Nat
  <2> TAKE k \in 1..Len(loaded)
  <2>1. SubSeq(loaded, 1, k - 1) \in Seq(Source)
    <3>1. k - 1 \in Nat /\ k - 1 <= Len(loaded)
      BY <1>1
    <3> QED
      BY <3>1
  <2> QED
    BY <2>1, JoinedType
<1>3. PICK c \in 0..Len(loaded) :
             (c = 0 \/ c \in S) /\ \A d \in c + 1 .. Len(loaded) : d \notin S
  <2> HIDE DEF S
  <2> QED
    BY <1>1, LastPlace
<1>4. BeganBefore(n) = last
  BY DEF BeganBefore
<1> HIDE DEF begins
<1>5. IsLast(c)
  <2>1. \A d \in c + 1 .. Len(loaded) : d \in Nat /\ d \in 1..Len(loaded)
    BY <1>1
  <2> QED
    BY <1>2, <1>3, <2>1
<1>6. last \in 0..Len(loaded)
  <2> HIDE DEF IsLast
  <2> QED
    BY <1>5
<1> HIDE DEF last
<1> QED
  BY <1>4, <1>6

LEMMA AssembleMarkdownStep ==
  ASSUME IInv, AssembleMarkdown
  PROVE  IInv'
<1> DEFINE joined == Joined(loaded)
           over == Overflows
           cut == IF over THEN CutAt(joined, Budget) ELSE Len(joined)
           shown == IF over THEN BeganBefore(cut) ELSE Len(loaded)
           uris == [i \in 1..shown |-> loaded[i].uri]
           size == IF over THEN cut + MarkerSize ELSE cut
           a == [status |-> "ok", uris |-> uris, whole |-> joined, size |-> size,
                 truncated |-> over]
<1>1. /\ Loading /\ NextSource > Len(Sources) /\ call.format = "markdown" /\ Finish(a)
      /\ UNCHANGED <<world, run, loaded, skipped>>
  BY DEF AssembleMarkdown
<1>2. Assembled
  BY <1>1, AssembledNow
<1>3. /\ a.status = "ok" /\ a.uris = uris /\ a.whole = joined /\ a.size = size
      /\ a.truncated = over
  OBVIOUS
<1>4. over <=> Budget > 0 /\ Len(joined) > Budget
  BY DEF Overflows
<1> HIDE DEF joined, over, a
<1>5. /\ answer' = a /\ call'.context = call.context /\ call'.format = "markdown"
      /\ call'.op = "load"
  BY <1>1, <1>2 DEF Finish, Assembled
<1>6. /\ Len(joined) \in Nat /\ Budget \in Int /\ Len(loaded) \in Nat /\ loaded \in Seq(Source)
      /\ Budget' = Budget /\ Sources' = Sources
  BY <1>2, <1>5, JoinedType DEF Budget, Sources, Assembled, joined
<1>7. over => /\ cut \in 0..Budget /\ (cut = 0 \/ joined[cut + 1] # "cont")
              /\ \A d \in cut + 1 .. Budget : joined[d + 1] = "cont"
  <2> SUFFICES ASSUME over
               PROVE  /\ cut \in 0..Budget /\ (cut = 0 \/ joined[cut + 1] # "cont")
                      /\ \A d \in cut + 1 .. Budget : joined[d + 1] = "cont"
    OBVIOUS
  <2>1. Budget \in Nat
    BY <1>4, <1>6
  <2> QED
    BY <2>1, CutAtIsLast
<1>8. cut \in Nat
  BY <1>6, <1>7
<1> HIDE DEF cut
<1>9. shown \in 0..Len(loaded) /\ (~ over => shown = Len(loaded))
  BY <1>6, <1>8, BeganBeforeType
<1>10. over => size = cut + MarkerSize
  OBVIOUS
<1>11. ~ over => size = Len(joined)
  BY DEF cut
<1> HIDE DEF shown, size
<1>12. SourcesAccounted'
  <2>1. DOMAIN uris = 1..shown /\ DOMAIN loaded = 1..Len(loaded) /\ 1..shown \subseteq 1..Len(loaded)
    BY <1>6, <1>9
  <2>2. \A i \in DOMAIN uris : i \in DOMAIN loaded /\ uris[i] = loaded[i].uri
    BY <2>1
  <2>3. ASSUME NEW u \in URI
        PROVE  LET c == Cardinality({i \in DOMAIN uris : uris[i] = u})
               IN  /\ c \in Nat /\ Listed(u, loaded) \in Nat /\ c <= Listed(u, loaded)
                   /\ ~ over => c = Listed(u, loaded)
    <3> DEFINE A == {i \in DOMAIN uris : uris[i] = u}
               B == {i \in DOMAIN loaded : loaded[i].uri = u}
    <3>1. A \subseteq B /\ (~ over => A = B)
      BY <1>9, <2>1, <2>2
    <3>2. B \subseteq 1..Len(loaded)
      BY <2>1
    <3>3. IsFiniteSet(1..Len(loaded))
      BY <1>6, FS_Interval
    <3> HIDE DEF A, B
    <3>4. IsFiniteSet(B)
      BY <3>2, <3>3, FS_Subset
    <3>5. IsFiniteSet(A) /\ Cardinality(A) <= Cardinality(B)
      BY <3>1, <3>4, FS_Subset
    <3>6. Cardinality(A) \in Nat /\ Cardinality(B) \in Nat
      BY <3>4, <3>5, FS_CardinalityType
    <3> QED
      BY <3>1, <3>5, <3>6 DEF A, B, Listed
  <2>4. \A u \in URI : /\ Cardinality({i \in DOMAIN Sources : Sources[i][2] = u})
                            = Listed(u, loaded) + Listed(u, skipped)
                       /\ Listed(u, skipped) = Cardinality({i \in DOMAIN skipped' : skipped'[i].uri = u})
    BY <1>1, <1>2 DEF Assembled, Listed
  <2>5. ASSUME NEW u \in URI PROVE Listed(u, skipped) \in Nat
    <3>1. Len(skipped) \in Nat /\ DOMAIN skipped = 1..Len(skipped)
      BY <1>2 DEF Assembled
    <3>2. {i \in DOMAIN skipped : skipped[i].uri = u} \subseteq 1..Len(skipped)
      BY <3>1
    <3>3. IsFiniteSet(1..Len(skipped))
      BY <3>1, FS_Interval
    <3> QED
      BY <3>2, <3>3, FS_Subset, FS_CardinalityType DEF Listed
  <2>6. /\ answer'.uris = uris /\ answer'.truncated = over /\ loaded' = loaded
        /\ call'.format = "markdown"
    BY <1>1, <1>3, <1>5
  <2> DEFINE N(u) == Cardinality({i \in DOMAIN Sources : Sources[i][2] = u})
             C(u) == Cardinality({i \in DOMAIN uris : uris[i] = u})
             K(u) == Cardinality({i \in DOMAIN skipped' : skipped'[i].uri = u})
  <2>7. ASSUME NEW u \in URI PROVE N(u) >= C(u) + K(u) /\ (~ over => N(u) = C(u) + K(u))
    <3>1. /\ N(u) = Listed(u, loaded) + K(u) /\ K(u) \in Nat /\ C(u) \in Nat
          /\ Listed(u, loaded) \in Nat /\ C(u) <= Listed(u, loaded)
          /\ ~ over => C(u) = Listed(u, loaded)
      BY <2>3, <2>4, <2>5
    <3> HIDE DEF N, C, K
    <3> QED
      BY <3>1
  <2>8. /\ \A i \in DOMAIN answer'.uris : i \in DOMAIN loaded' /\ answer'.uris[i] = loaded'[i].uri
        /\ ~ answer'.truncated => \A u \in URI : N(u) = C(u) + K(u)
        /\ answer'.truncated => call'.format = "markdown" /\ \A u \in URI : N(u) >= C(u) + K(u)
    <3> HIDE DEF N, C, K
    <3> QED
      BY <2>2, <2>6, <2>7
  <2> HIDE DEF Sources, uris
  <2> QED
    BY <1>6, <2>6, <2>8 DEF SourcesAccounted
<1>13. WithinBudget'
  <2>1. /\ answer'.size = size /\ answer'.whole = joined /\ answer'.truncated = over
    BY <1>3, <1>5
  <2>2. over => size - MarkerSize = cut
    <3>1. MarkerSize \in Nat
      BY RetrievalAssumption
    <3> QED
      BY <1>8, <1>10, <3>1
  <2> QED
    BY <1>4, <1>5, <1>6, <1>7, <1>11, <2>1, <2>2 DEF WithinBudget
<1>14. skipped' \in Seq(Left)
  BY <1>1, <1>2 DEF Assembled
<1> QED
  BY <1>1, <1>2, <1>3, <1>12, <1>13, <1>14, AssemblyStep

\* m places from the end of 1..b have gone behind a, in reverse.
Moved(A, B, a, b, m) ==
  /\ A \in SUBSET (Nat \ {0}) /\ B \in SUBSET (Nat \ {0})
  /\ a \in Nat /\ b \in Nat /\ m \in 0..b
  /\ \A j \in 1..m : a + j \in A <=> b + 1 - j \in B

\* What goes from one list to another is counted there.
LEMMA MovedCounts ==
  ASSUME NEW A, NEW B, NEW a, NEW b, NEW m, Moved(A, B, a, b, m)
  PROVE  Cardinality(UpTo(A, a + m)) + Cardinality(UpTo(B, b - m))
           = Cardinality(UpTo(A, a)) + Cardinality(UpTo(B, b))
<1> DEFINE CA(n) == Cardinality(UpTo(A, n))
           CB(n) == Cardinality(UpTo(B, n))
           Good == {j \in Nat : j <= m => CA(a + j) + CB(b - j) = CA(a) + CB(b)}
<1> USE DEF Moved
<1>1. \A n \in Nat : /\ CA(n) \in Nat /\ CB(n) \in Nat
                     /\ CA(n + 1) = IF n + 1 \in A THEN CA(n) + 1 ELSE CA(n)
                     /\ CB(n + 1) = IF n + 1 \in B THEN CB(n) + 1 ELSE CB(n)
  BY UpToCounts
<1> HIDE DEF CA, CB
<1>2. 0 \in Good
  OBVIOUS
<1>3. ASSUME NEW j \in Nat, j \in Good PROVE j + 1 \in Good
  <2> SUFFICES ASSUME j + 1 <= m PROVE CA(a + (j + 1)) + CB(b - (j + 1)) = CA(a) + CB(b)
    OBVIOUS
  <2> DEFINE p == a + j
             q == b - (j + 1)
  <2>1. /\ p \in Nat /\ q \in Nat /\ a + (j + 1) = p + 1 /\ b - j = q + 1
        /\ j + 1 \in 1..m /\ b + 1 - (j + 1) = q + 1
    OBVIOUS
  <2>2. CA(p) + CB(q + 1) = CA(a) + CB(b)
    BY <1>3, <2>1
  <2>3. p + 1 \in A <=> q + 1 \in B
    BY <2>1
  <2> HIDE DEF p, q
  <2>4. CA(p + 1) + CB(q) = CA(p) + CB(q + 1)
    <3>1. CA(p) \in Nat /\ CA(p + 1) = IF p + 1 \in A THEN CA(p) + 1 ELSE CA(p)
      BY <1>1, <2>1
    <3>2. CB(q) \in Nat /\ CB(q + 1) = IF q + 1 \in B THEN CB(q) + 1 ELSE CB(q)
      BY <1>1, <2>1
    <3> QED
      BY <2>3, <3>1, <3>2
  <2> QED
    BY <2>1, <2>2, <2>4 DEF q
<1>4. m \in Good
  <2> HIDE DEF Good
  <2> QED
    BY <1>2, <1>3, Induction
<1> QED
  BY <1>4 DEF CA, CB

LEMMA KeptIsLast ==
  /\ Len(loaded) \in Nat =>
       /\ Kept \in 0..Len(loaded) /\ (Kept = 0 \/ Fits(Kept))
       /\ \A j \in Kept + 1 .. Len(loaded) : ~ Fits(j)
<1> SUFFICES ASSUME Len(loaded) \in Nat
             PROVE  /\ Kept \in 0..Len(loaded) /\ (Kept = 0 \/ Fits(Kept))
                    /\ \A j \in Kept + 1 .. Len(loaded) : ~ Fits(j)
  OBVIOUS
<1> DEFINE S == {k \in Nat : Fits(k)}
           IsLast(k) == (k = 0 \/ Fits(k)) /\ \A j \in k + 1 .. Len(loaded) : ~ Fits(j)
<1>1. PICK c \in 0..Len(loaded) :
             (c = 0 \/ c \in S) /\ \A d \in c + 1 .. Len(loaded) : d \notin S
  <2> HIDE DEF S
  <2> QED
    BY LastPlace
<1>2. IsLast(c)
  <2>1. \A d \in c + 1 .. Len(loaded) : d \in Nat
    OBVIOUS
  <2> QED
    BY <1>1, <2>1
<1>3. Kept = CHOOSE k \in 0..Len(loaded) : IsLast(k)
  BY DEF Kept
<1> DEFINE kept == CHOOSE k \in 0..Len(loaded) : IsLast(k)
<1>4. kept \in 0..Len(loaded) /\ IsLast(kept)
  <2> HIDE DEF IsLast
  <2> QED
    BY <1>2
<1> HIDE DEF kept
<1> QED
  BY <1>3, <1>4 DEF kept

LEMMA DocumentSizeType ==
  ASSUME loaded \in Seq(Source), NEW k \in 0..Len(loaded)
  PROVE  DocumentSize(k) \in Nat
<1>1. SubSeq(loaded, 1, k) \in Seq(Source)
  <2>1. Len(loaded) \in Nat /\ k \in Nat /\ k <= Len(loaded)
    OBVIOUS
  <2> QED
    BY <2>1
<1>2. Len(Joined(SubSeq(loaded, 1, k))) \in Nat
  BY <1>1, JoinedType
<1> QED
  BY <1>2 DEF DocumentSize

LEMMA AssembleJSONStep ==
  ASSUME IInv, AssembleJSON
  PROVE  IInv'
<1> DEFINE size == DocumentSize(Kept)
           uris == [i \in 1..Kept |-> loaded[i].uri]
           n == Len(loaded)
           left == n - Kept
           tail == [i \in 1..left |-> [uri |-> loaded[n + 1 - i].uri, reason |-> "budget"]]
           a == [status |-> "ok", uris |-> uris, whole |-> <<>>, size |-> size, truncated |-> FALSE]
<1>1. /\ Loading /\ NextSource > Len(Sources) /\ call.format = "json" /\ Finish(a)
      /\ skipped' = Cat(skipped, tail) /\ UNCHANGED <<world, run, loaded>>
  BY DEF AssembleJSON, Cat
<1>2. Assembled
  BY <1>1, AssembledNow
<1>3. /\ a.status = "ok" /\ a.uris = uris /\ a.size = size /\ a.truncated = FALSE
  OBVIOUS
<1> HIDE DEF a, size
<1>4. /\ answer' = a /\ call'.context = call.context /\ call'.format = "json"
      /\ call'.op = "load"
  BY <1>1, <1>2 DEF Finish, Assembled
<1>5. /\ n \in Nat /\ loaded \in Seq(Source) /\ skipped \in Seq(Left) /\ Len(skipped) \in Nat
      /\ Kept \in 0..n /\ (Kept = 0 \/ Fits(Kept)) /\ \A j \in Kept + 1 .. n : ~ Fits(j)
  BY <1>2, KeptIsLast DEF Assembled
<1> DEFINE k == Kept
<1>6. k \in 0..n /\ left \in 0..n /\ left = n - k /\ n - left = k
  BY <1>5
<1>7. tail \in Seq(Left) /\ Len(tail) = left /\ \A j \in 1..left : tail[j].uri = loaded[n + 1 - j].uri
  <2> DEFINE e(j) == [uri |-> loaded[n + 1 - j].uri, reason |-> "budget"]
  <2>1. "budget" \in Reason
    BY DEF Reason
  <2>2. ASSUME NEW j \in 1..left PROVE e(j) \in Left /\ e(j).uri = loaded[n + 1 - j].uri
    <3>1. n + 1 - j \in 1..n
      BY <1>5, <1>6
    <3>2. loaded[n + 1 - j] \in Source
      BY <1>5, <3>1
    <3>3. loaded[n + 1 - j].uri \in URI
      BY <3>2 DEF Source
    <3> QED
      BY <2>1, <3>3 DEF Left
  <2>3. tail = [j \in 1..left |-> e(j)]
    OBVIOUS
  <2> HIDE DEF e, tail
  <2> QED
    BY <1>5, <1>6, <2>2, <2>3
<1> HIDE DEF tail, left, k
<1>8. /\ skipped' \in Seq(Left) /\ Len(skipped') = Len(skipped) + left
      /\ \A j \in 1..Len(skipped) : skipped'[j] = skipped[j]
      /\ \A j \in 1..left : skipped'[Len(skipped) + j] = tail[j]
  <2>1. skipped \in Seq(Left) /\ tail \in Seq(Left) /\ Len(tail) = left
    BY <1>5, <1>7
  <2>2. /\ Cat(skipped, tail) \in Seq(Left) /\ Len(Cat(skipped, tail)) = Len(skipped) + Len(tail)
        /\ \A j \in 1..Len(skipped) : Cat(skipped, tail)[j] = skipped[j]
        /\ \A j \in 1..Len(tail) : Cat(skipped, tail)[Len(skipped) + j] = tail[j]
    <3>1. Cat(skipped, tail) \in Seq(Left) /\ Len(Cat(skipped, tail)) = Len(skipped) + Len(tail)
      BY ONLY <2>1, CatProperties
    <3>2. ASSUME NEW j \in 1..Len(skipped) PROVE Cat(skipped, tail)[j] = skipped[j]
      BY <2>1, CatProperties
    <3>3. Behind(skipped, tail)
      BY ONLY <2>1, CatBehind
    <3> QED
      BY <3>1, <3>2, <3>3 DEF Behind
  <2>3. skipped' = Cat(skipped, tail)
    BY <1>1
  <2> QED
    BY ONLY <2>1, <2>2, <2>3
<1>9. SourcesAccounted'
  <2>1. Sources' = Sources
    BY <1>4 DEF Sources
  <2>2. ASSUME NEW u \in URI
        PROVE  Cardinality({i \in DOMAIN uris : uris[i] = u})
                 + Cardinality({i \in DOMAIN skipped' : skipped'[i].uri = u})
                 = Listed(u, loaded) + Listed(u, skipped)
    <3> DEFINE A == {i \in Nat \ {0} : skipped'[i].uri = u}
               B == {i \in Nat \ {0} : loaded[i].uri = u}
               s == Len(skipped)
    <3>1. UpTo(A, s) = {i \in DOMAIN skipped : skipped[i].uri = u}
      <4>1. DOMAIN skipped = 1..s /\ s \in Nat
        BY <1>5
      <4> QED
        BY <1>8, <4>1 DEF UpTo
    <3>2. UpTo(A, s + left) = {i \in DOMAIN skipped' : skipped'[i].uri = u}
      <4>1. DOMAIN skipped' = 1..s + left /\ s + left \in Nat
        BY <1>5, <1>6, <1>8
      <4> QED
        BY <4>1 DEF UpTo
    <3>3. UpTo(B, n) = {i \in DOMAIN loaded : loaded[i].uri = u}
      <4>1. DOMAIN loaded = 1..n /\ n \in Nat
        BY <1>5
      <4> QED
        BY <4>1 DEF UpTo
    <3>4. UpTo(B, k) = {i \in DOMAIN uris : uris[i] = u}
      <4>1. DOMAIN uris = 1..k /\ k \in Nat /\ \A i \in 1..k : uris[i] = loaded[i].uri
        BY <1>6 DEF k
      <4> HIDE DEF uris
      <4> QED
        BY <4>1 DEF UpTo
    <3>5. \A j \in 1..left : s + j \in A <=> n + 1 - j \in B
      <4> TAKE j \in 1..left
      <4>1. s + j \in Nat \ {0} /\ n + 1 - j \in Nat \ {0}
        BY <1>5, <1>6
      <4>2. skipped'[s + j].uri = loaded[n + 1 - j].uri
        BY <1>7, <1>8
      <4> QED
        BY <4>1, <4>2
    <3>6. A \in SUBSET (Nat \ {0}) /\ B \in SUBSET (Nat \ {0})
      OBVIOUS
    <3> HIDE DEF A, B, uris
    <3>7. Cardinality(UpTo(A, s + left)) + Cardinality(UpTo(B, n - left))
            = Cardinality(UpTo(A, s)) + Cardinality(UpTo(B, n))
      <4>1. s \in Nat /\ n \in Nat /\ left \in 0..n
        BY <1>5, <1>6
      <4> HIDE DEF s, n
      <4>2. Moved(A, B, s, n, left)
        BY ONLY <3>5, <3>6, <4>1 DEF Moved
      <4> QED
        BY ONLY <4>2, MovedCounts
    <3>8. n - left = k
      BY <1>6
    <3>9. Cardinality(UpTo(B, k)) \in Nat /\ Cardinality(UpTo(A, s + left)) \in Nat
          /\ Cardinality(UpTo(A, s)) \in Nat /\ Cardinality(UpTo(B, n)) \in Nat
      <4>1. k \in Nat /\ s + left \in Nat /\ s \in Nat /\ n \in Nat
        BY <1>5, <1>6
      <4> QED
        BY <3>6, <4>1, UpToCounts
    <3> DEFINE a1 == Cardinality(UpTo(A, s + left))
               b1 == Cardinality(UpTo(B, k))
               a2 == Cardinality(UpTo(A, s))
               b2 == Cardinality(UpTo(B, n))
    <3>10. /\ a1 + b1 = a2 + b2 /\ a1 \in Nat /\ b1 \in Nat /\ a2 \in Nat /\ b2 \in Nat
      BY <3>7, <3>8, <3>9
    <3>11. /\ b1 = Cardinality({i \in DOMAIN uris : uris[i] = u})
           /\ a1 = Cardinality({i \in DOMAIN skipped' : skipped'[i].uri = u})
      BY <3>2, <3>4
    <3>12. b2 = Listed(u, loaded) /\ a2 = Listed(u, skipped)
      BY <3>1, <3>3 DEF Listed
    <3> HIDE DEF a1, a2, b1, b2
    <3>13. b1 + a1 = b2 + a2
      BY <3>10
    <3> QED
      BY <3>11, <3>12, <3>13
  <2>3. \A u \in URI : Cardinality({i \in DOMAIN Sources : Sources[i][2] = u})
                         = Listed(u, loaded) + Listed(u, skipped)
    BY <1>2 DEF Assembled
  <2>4. answer'.uris = uris /\ answer'.truncated = FALSE
    BY <1>3, <1>4
  <2>6. \A i \in DOMAIN uris : i \in DOMAIN loaded' /\ uris[i] = loaded'[i].uri
    <3>1. DOMAIN uris = 1..k /\ DOMAIN loaded = 1..n /\ 1..k \subseteq 1..n
      BY <1>5, <1>6 DEF k
    <3> QED
      BY <1>1, <3>1
  <2> HIDE DEF Sources, uris
  <2>5. \A u \in URI : Cardinality({i \in DOMAIN Sources' : Sources'[i][2] = u})
                         = Cardinality({i \in DOMAIN answer'.uris : answer'.uris[i] = u})
                           + Cardinality({i \in DOMAIN skipped' : skipped'[i].uri = u})
    BY <2>1, <2>2, <2>3, <2>4
  <2> QED
    BY <2>4, <2>5, <2>6 DEF SourcesAccounted
<1>10. WithinBudget'
  <2>1. Budget' = Budget /\ Budget \in Int
    BY <1>2, <1>4 DEF Budget, Assembled
  <2>2. Len(uris) = k /\ (k = 0 => uris = <<>>) /\ k \in 0..n /\ n \in Nat
    BY <1>5, <1>6 DEF k
  <2>3. loaded' = loaded /\ answer'.uris = uris /\ answer'.size = DocumentSize(k)
    BY <1>1, <1>3, <1>4 DEF size, k
  <2>4. (k = 0 \/ Fits(k)) /\ \A j \in k + 1 .. n : ~ Fits(j)
    BY <1>5 DEF k
  <2> HIDE DEF uris
  <2>5. ASSUME Budget > 0
        PROVE  /\ DocumentSize(k) <= Budget \/ uris = <<>>
               /\ k < n => DocumentSize(k + 1) > Budget
    <3>1. DocumentSize(k) <= Budget \/ uris = <<>>
      BY <2>1, <2>2, <2>4, <2>5 DEF Fits
    <3>2. ASSUME k < n PROVE DocumentSize(k + 1) > Budget
      <4>1. k + 1 \in k + 1 .. n /\ k + 1 \in 0..Len(loaded)
        BY <2>2, <3>2
      <4>2. ~ Fits(k + 1) /\ DocumentSize(k + 1) \in Nat
        BY <1>5, <2>4, <4>1, DocumentSizeType
      <4> QED
        BY <2>1, <4>2 DEF Fits
    <3> QED
      BY <3>1, <3>2
  <2> QED
    BY <1>4, <2>1, <2>2, <2>3, <2>5 DEF WithinBudget, DocumentSize
<1> QED
  BY <1>1, <1>2, <1>3, <1>8, <1>9, <1>10, AssemblyStep

-----------------------------------------------------------------------------
(* The theorems *)

LEMMA NextInv ==
  ASSUME IInv, [Next]_vars
  PROVE  IInv'
<1>1. CASE UNCHANGED vars
  BY <1>1, StutterStep
<1>2. ASSUME NEW u \in Changing, FileChanges(u) PROVE IInv'
  BY <1>2, FileChangesStep
<1>3. CASE CallerGoes
  BY <1>3, CallerGoesStep
<1>4. CASE Refuse
  BY <1>4, RefuseStep
<1>5. ASSUME NEW names \in Asked, NEW limit \in Limit, NEW query \in Sought,
             StartSearch(names, limit, query)
      PROVE  IInv'
  BY <1>5, StartSearchStep
<1>6. ASSUME NEW c \in DOMAIN Contexts, NEW format \in Format, StartLoad(c, format) PROVE IInv'
  BY <1>6, StartLoadStep
<1>7. ASSUME NEW u \in URI, NEW s \in Slice, Peek(u, s[1], s[2]) PROVE IInv'
  BY <1>7, PeekStep
<1>8. ASSUME NEW i \in DOMAIN run, Step(i) \/ WalkFails(i) PROVE IInv'
  BY <1>8, VisitNextStep, WalkEndsStep, RepliesStep, ReplyFailsStep, WalkFailsStep DEF Step
<1>9. CASE Merge
  BY <1>9, MergeStep
<1>10. CASE LoadSource
  BY <1>10, LoadSourceStep
<1>11. CASE AssembleMarkdown
  BY <1>11, AssembleMarkdownStep
<1>12. CASE AssembleJSON
  BY <1>12, AssembleJSONStep
<1> QED
  BY <1>1, <1>2, <1>3, <1>4, <1>5, <1>6, <1>7, <1>8, <1>9, <1>10, <1>11, <1>12
  DEF Next, Requests

\* Every step of a call, whatever its backends and the files do meanwhile, keeps the invariant.
THEOREM Invariant == Safety => []IInv
<1>1. Init => IInv
  BY InitInv
<1>2. IInv /\ [Next]_vars => IInv'
  BY NextInv
<1> QED
  BY <1>1, <1>2, PTL DEF Safety

LEMMA SubtypeSeq ==
  ASSUME NEW s \in Seq(Finding)
  PROVE  s \in Seq(Result)
<1>1. \A r \in Finding : r \in Result
  BY DEF Finding
<1> QED
  BY <1>1

LEMMA TypesHold ==
  ASSUME IInv
  PROVE  TypeOK
<1> USE DEF IInv, Shape
<1>1. ASSUME NEW i \in DOMAIN run
      PROVE  /\ run[i].state \in {"running", "reported", "failed"}
             /\ run[i].at \in Nat /\ run[i].cause \in Cause
             /\ run[i].got \in Seq(Result) /\ Len(run[i].got) <= call.quota
  <2>1. call.op = "search" /\ answer.status # "refused"
    OBVIOUS
  <2>2. run[i] \in Goroutine /\ Len(run[i].got) <= call.quota
    BY <2>1 DEF SearchMatches
  <2>3. run[i].got \in Seq(Finding)
    BY <2>2 DEF Goroutine
  <2> QED
    BY <2>2, <2>3, SubtypeSeq DEF Goroutine
<1>2. ASSUME NEW i \in DOMAIN loaded
      PROVE  loaded[i].uri \in URI /\ loaded[i].text \in Seq(Line)
  <2>1. call.op = "load" /\ answer.status # "refused"
    OBVIOUS
  <2>2. loaded \in Seq(Source)
    BY <2>1 DEF LoadMatches
  <2>3. loaded[i] \in Source
    BY <2>2
  <2> QED
    BY <2>3 DEF Source
<1>3. ASSUME NEW i \in DOMAIN skipped
      PROVE  skipped[i].uri \in URI /\ skipped[i].reason \in Reason
  <2>1. call.op = "load" /\ answer.status # "refused"
    OBVIOUS
  <2>2. skipped \in Seq(Left)
    BY <2>1 DEF LoadMatches
  <2>3. skipped[i] \in Left
    BY <2>2
  <2> QED
    BY <2>3 DEF Left
<1>4. /\ files \in [URI -> OnDisk] /\ changes \in 0..MaxChanges
      /\ filters \in Filters /\ gone \in BOOLEAN
      /\ call.op \in {"none", "search", "load", "peek"}
      /\ call.stage \in {"idle", "running", "answered"}
      /\ answer.status \in {"none", "ok", "refused"}
  OBVIOUS
<1> QED
  BY ONLY <1>1, <1>2, <1>3, <1>4, Zenon DEF TypeOK, Reason

\* The type invariant holds.
THEOREM TypeCorrect == Safety => []TypeOK
BY Invariant, TypesHold, PTL

\* A search answers with what its backends found, in their order: a Merge that cut before
\* it filtered, or that let a late goroutine's results come first, would not.
THEOREM SearchAnswersMerged == Safety => []AnswersMerged
<1>1. IInv => AnswersMerged
  BY DEF IInv
<1> QED
  BY <1>1, Invariant, PTL

\* What a search finds in a file, Read serves, unless the path has ".." in it: walkIncluded
\* and resolvePath agree on globs, tags and links.
THEOREM FoundStaysReadable == Safety => []FoundIsReadable
<1>1. IInv => FoundIsReadable
  BY DEF IInv
<1> QED
  BY <1>1, Invariant, PTL

\* What Read and GetContext take of a file is a stretch of it masked as the whole file is.
\* (A search's lines are not masked.)
THEOREM SecretsStayMasked == Safety => []SecretsMasked
<1>1. IInv => SecretsMasked
  BY DEF IInv
<1> QED
  BY <1>1, Invariant, PTL

\* A bundle and its list of skipped sources have every source of the context between them,
\* as often as it names it; only a text that ends with the marker lacks the last ones.
THEOREM NoSourceIsLost == Safety => []SourcesAccounted
<1>1. IInv => SourcesAccounted
  BY DEF IInv
<1> QED
  BY <1>1, Invariant, PTL

\* A document keeps to max_size in bytes, a text does so in whole characters before the marker,
\* and neither drops what would have fitted.
THEOREM BudgetIsKept == Safety => []WithinBudget
<1>1. IInv => WithinBudget
  BY DEF IInv
<1> QED
  BY <1>1, Invariant, PTL
=============================================================================
