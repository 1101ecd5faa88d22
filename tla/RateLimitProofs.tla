--------------------------- MODULE RateLimitProofs ---------------------------
(***************************************************************************)
(* No caller gets more through than its bucket held and time has put into  *)
(* it, for any burst, any rate and any number of requests, though a        *)
(* cancelled reservation may give back less than it took, or more.         *)
(***************************************************************************)
EXTENDS ServerProofs, WellFoundedInduction

-----------------------------------------------------------------------------
(* What cancellations may give back beyond what was taken *)

\* Induction over the naturals, with a set in place of a predicate.
LEMMA Induction ==
  ASSUME NEW S, 0 \in S, \A n \in Nat : n \in S => n + 1 \in S
  PROVE  Nat \subseteq S
<1> DEFINE R == OpToRel(<, Nat)
<1>1. IsWellFoundedOn(R, Nat)
  BY NatLessThanWellFounded
<1> SUFFICES ASSUME Nat \ S # {} PROVE FALSE
  OBVIOUS
<1>2. PICK m \in Nat \ S : \A k \in Nat \ S : ~ (<<k, m>> \in R)
  <2> HIDE DEF R
  <2>1. Nat \ S \subseteq Nat
    OBVIOUS
  <2> QED
    BY <1>1, <2>1, WFMin
<1>3. m # 0 /\ m - 1 \in Nat
  OBVIOUS
<1>4. <<m - 1, m>> \in R
  BY <1>3 DEF OpToRel
<1>5. m - 1 \in S
  BY <1>2, <1>3, <1>4
<1> QED
  BY <1>3, <1>5

\* The function that Excess is, up to n.
IsExcess(f, n) ==
  /\ f \in [0..n -> Nat]
  /\ \A y \in 0..n : f[y] = IF y <= Cost THEN y ELSE y + 2 * f[y - Cost]

Excess(y) == IF y <= 0 THEN 0 ELSE (CHOOSE f : IsExcess(f, y))[y]

LEMMA ExcessExists ==
  ASSUME NEW n \in Nat
  PROVE  \E f : IsExcess(f, n)
<1> USE RateAssumption DEF IsExcess
<1> DEFINE S == {k \in Nat : \E f : IsExcess(f, k)}
<1>1. 0 \in S
  <2> DEFINE f == [y \in 0..0 |-> 0]
  <2>1. IsExcess(f, 0)
    OBVIOUS
  <2> QED
    BY <2>1
<1>2. ASSUME NEW k \in Nat, k \in S PROVE k + 1 \in S
  <2>1. PICK f : IsExcess(f, k)
    BY <1>2
  <2> DEFINE last == IF k + 1 <= Cost THEN k + 1 ELSE k + 1 + 2 * f[k + 1 - Cost]
             g == [y \in 0..k + 1 |-> IF y = k + 1 THEN last ELSE f[y]]
  <2>2. last \in Nat
    BY <2>1
  <2>3. g \in [0..k + 1 -> Nat]
    BY <2>1, <2>2
  <2>4. ASSUME NEW y \in 0..k + 1
        PROVE  g[y] = IF y <= Cost THEN y ELSE y + 2 * g[y - Cost]
    <3>1. CASE y = k + 1
      <4>1. g[y] = last /\ (y > Cost => g[y - Cost] = f[y - Cost])
        BY <3>1
      <4> QED
        BY <4>1, <3>1
    <3>2. CASE y # k + 1
      <4>1. g[y] = f[y] /\ (y > Cost => g[y - Cost] = f[y - Cost])
        BY <3>2
      <4>2. y \in 0..k
        BY <3>2
      <4> HIDE DEF g
      <4> QED
        BY <4>1, <4>2, <2>1
    <3> QED
      BY <3>1, <3>2
  <2>5. IsExcess(g, k + 1)
    <3> HIDE DEF g
    <3> QED
      BY <2>3, <2>4
  <2> HIDE DEF g
  <2> QED
    BY <2>5
<1>3. n \in S
  <2> HIDE DEF S
  <2> QED
    BY <1>1, <1>2, Induction
<1> QED
  BY <1>3

LEMMA ExcessUnique ==
  ASSUME NEW m \in Nat, NEW n \in Nat, NEW f, NEW g, IsExcess(f, m), IsExcess(g, n),
         NEW y \in Nat, y <= m, y <= n
  PROVE  f[y] = g[y]
<1> USE RateAssumption
<1> DEFINE S == {k \in Nat : \A x \in 0..k : x <= m /\ x <= n => f[x] = g[x]}
<1>1. 0 \in S
  BY DEF IsExcess
<1>2. ASSUME NEW k \in Nat, k \in S PROVE k + 1 \in S
  <2> SUFFICES ASSUME k + 1 <= m, k + 1 <= n PROVE f[k + 1] = g[k + 1]
    <3>1. \A x \in 0..k + 1 : x = k + 1 \/ x \in 0..k
      OBVIOUS
    <3> QED
      BY <1>2, <3>1
  <2>1. CASE k + 1 <= Cost
    BY <2>1 DEF IsExcess
  <2>2. CASE k + 1 > Cost
    <3>1. k + 1 - Cost \in 0..k /\ k + 1 - Cost <= m /\ k + 1 - Cost <= n
      BY <2>2
    <3>2. f[k + 1 - Cost] = g[k + 1 - Cost]
      BY <1>2, <3>1
    <3> QED
      BY <2>2, <3>2 DEF IsExcess
  <2> QED
    BY <2>1, <2>2
<1>3. y \in S
  <2> HIDE DEF S
  <2> QED
    BY <1>1, <1>2, Induction
<1> QED
  BY <1>3

\* What Excess is: a unit for each unit, and twice what there is a token lower.
LEMMA ExcessStep ==
  ASSUME NEW y \in Int
  PROVE  Excess(y) \in Nat /\ Excess(y) = Most(0, y) + 2 * Excess(y - Cost)
<1> USE RateAssumption
<1>1. CASE y <= 0
  BY <1>1 DEF Excess, Most
<1>2. CASE y > 0
  <2> DEFINE f == CHOOSE h : IsExcess(h, y)
  <2>1. IsExcess(f, y)
    BY <1>2, ExcessExists
  <2>2. Excess(y) = f[y] /\ f[y] \in Nat
    BY <1>2, <2>1 DEF Excess, IsExcess
  <2>3. f[y] = IF y <= Cost THEN y ELSE y + 2 * f[y - Cost]
    <3> HIDE DEF f
    <3>1. y \in 0..y
      BY <1>2
    <3> QED
      BY <3>1, <2>1 DEF IsExcess
  <2>4. CASE y <= Cost
    BY <1>2, <2>2, <2>3, <2>4 DEF Excess, Most
  <2>5. CASE y > Cost
    <3> DEFINE x == y - Cost
               g == CHOOSE h : IsExcess(h, x)
    <3>1. x \in Nat /\ x > 0 /\ x <= y
      BY <2>5
    <3>2. IsExcess(g, x)
      BY <3>1, ExcessExists
    <3>3. Excess(x) = g[x]
      BY <3>1 DEF Excess
    <3> HIDE DEF f, g
    <3>4. f[x] = g[x]
      BY <1>2, <2>1, <3>1, <3>2, ExcessUnique
    <3> QED
      BY <1>2, <2>2, <2>3, <2>5, <3>3, <3>4 DEF Most
  <2> QED
    BY <1>2, <2>4, <2>5
<1> QED
  BY <1>1, <1>2

\* Excess is convex: it grows by more higher up.
LEMMA ExcessConvex ==
  ASSUME NEW s \in Int, NEW t \in Int, NEW d \in Nat, s <= t
  PROVE  Excess(s + d) - Excess(s) <= Excess(t + d) - Excess(t)
<1> USE RateAssumption
<1> DEFINE Rises(x, y, z) == Excess(x + z) - Excess(x) <= Excess(y + z) - Excess(y)
           S == {n \in Nat : \A x, y \in Int, z \in Nat : x <= y /\ y + z <= n => Rises(x, y, z)}
<1>1. 0 \in S
  BY DEF Excess
<1>2. ASSUME NEW n \in Nat, n \in S PROVE n + 1 \in S
  <2> SUFFICES ASSUME NEW x \in Int, NEW y \in Int, NEW z \in Nat, x <= y, y + z <= n + 1
               PROVE  Rises(x, y, z)
    OBVIOUS
  <2> DEFINE a == x - Cost
             b == y - Cost
  <2>1. a \in Int /\ b \in Int /\ a <= b /\ b + z <= n
    OBVIOUS
  <2>2. Rises(a, b, z)
    BY <1>2, <2>1
  <2>3. (x + z) - Cost = a + z /\ (y + z) - Cost = b + z
    OBVIOUS
  <2>4. /\ Excess(x) = Most(0, x) + 2 * Excess(a)
        /\ Excess(y) = Most(0, y) + 2 * Excess(b)
        /\ Excess(x + z) = Most(0, x + z) + 2 * Excess(a + z)
        /\ Excess(y + z) = Most(0, y + z) + 2 * Excess(b + z)
    <3>1. x + z \in Int /\ y + z \in Int
      OBVIOUS
    <3> QED
      BY <2>3, <3>1, ExcessStep
  <2>5. /\ Excess(a) \in Nat /\ Excess(b) \in Nat
        /\ Excess(a + z) \in Nat /\ Excess(b + z) \in Nat
    <3>1. a + z \in Int /\ b + z \in Int
      OBVIOUS
    <3> QED
      BY <2>1, <3>1, ExcessStep
  <2>6. Most(0, x + z) - Most(0, x) <= Most(0, y + z) - Most(0, y)
    BY DEF Most
  <2>7. Most(0, x) \in Nat /\ Most(0, y) \in Nat /\ Most(0, x + z) \in Nat /\ Most(0, y + z) \in Nat
    BY DEF Most
  <2> HIDE DEF a, b
  <2> QED
    BY <2>2, <2>4, <2>5, <2>6, <2>7
<1>3. Nat \subseteq S
  <2> HIDE DEF S
  <2> QED
    BY <1>1, <1>2, Induction
<1>4. CASE t + d >= 0
  <2>1. t + d \in S
    BY <1>3, <1>4
  <2> QED
    BY <2>1
<1>5. CASE t + d < 0
  BY <1>5 DEF Excess
<1> QED
  BY <1>4, <1>5

LEMMA ExcessGrows ==
  ASSUME NEW x \in Int, NEW y \in Int, x <= y
  PROVE  Excess(x) <= Excess(y)
<1> DEFINE s == x - Most(0, x) - Most(0, y)
<1>1. s \in Int /\ s <= x /\ s + (y - x) <= 0 /\ s <= 0
  BY DEF Most
<1> HIDE DEF s
<1>2. y - x \in Nat /\ x + (y - x) = y /\ s + (y - x) \in Int
  BY <1>1
<1>3. Excess(s + (y - x)) - Excess(s) <= Excess(y) - Excess(x)
  BY <1>1, <1>2, ExcessConvex
<1>4. Excess(s) = 0 /\ Excess(s + (y - x)) = 0
  BY <1>1, <1>2 DEF Excess
<1>5. Excess(x) \in Nat /\ Excess(y) \in Nat
  BY ExcessStep
<1> QED
  BY <1>3, <1>4, <1>5

\* A value in the middle is at most the mean.
LEMMA ExcessMiddle ==
  ASSUME NEW p \in Int, NEW q \in Int, NEW m \in Int, p + q = 2 * m
  PROVE  2 * Excess(m) <= Excess(p) + Excess(q)
<1>0. Excess(p) \in Nat /\ Excess(q) \in Nat /\ Excess(m) \in Nat
  BY ExcessStep
<1>1. CASE p <= m
  <2>1. m - p \in Nat /\ p + (m - p) = m /\ m + (m - p) = q
    BY <1>1
  <2>2. Excess(m) - Excess(p) <= Excess(q) - Excess(m)
    BY <1>1, <2>1, ExcessConvex
  <2> QED
    BY <1>0, <2>2
<1>2. CASE q <= m
  <2>1. m - q \in Nat /\ q + (m - q) = m /\ m + (m - q) = p
    BY <1>2
  <2>2. Excess(m) - Excess(q) <= Excess(p) - Excess(m)
    BY <1>2, <2>1, ExcessConvex
  <2> QED
    BY <1>0, <2>2
<1> QED
  BY <1>1, <1>2

-----------------------------------------------------------------------------
(* What a reservation may claim *)

\* Seen from a moment: what a reservation that could act at a may still give back,
\* before or after others have moved lastEvent.
Claim(a, from) == Most(0, Cost + a - from) + Excess(a - from - Cost)

LEMMA ClaimType ==
  ASSUME NEW a \in Int, NEW from \in Int
  PROVE  Claim(a, from) \in Nat
<1>1. a - from - Cost \in Int /\ Cost + a - from \in Int
  BY RateAssumption
<1>2. Most(0, Cost + a - from) \in Nat
  BY <1>1 DEF Most
<1> QED
  BY <1>1, <1>2, ExcessStep DEF Claim

\* From later on it claims less.
LEMMA ClaimFalls ==
  ASSUME NEW a \in Int, NEW from \in Int, NEW later \in Int, from <= later
  PROVE  Claim(a, later) <= Claim(a, from)
<1> USE RateAssumption
<1>1. Excess(a - later - Cost) <= Excess(a - from - Cost)
  BY ExcessGrows
<1>2. Most(0, Cost + a - later) <= Most(0, Cost + a - from)
  BY DEF Most
<1>3. Most(0, Cost + a - later) \in Nat /\ Most(0, Cost + a - from) \in Nat
  BY DEF Most
<1>4. Excess(a - later - Cost) \in Nat /\ Excess(a - from - Cost) \in Nat
  BY ExcessStep
<1> QED
  BY <1>1, <1>2, <1>3, <1>4 DEF Claim

\* A bucket that is dry until u promises its next token for u + Cost, or at once: the new
\* claim is covered by the token taken.
LEMMA ReserveCovered ==
  ASSUME NEW u \in Int, NEW time \in Int, NEW from \in Int, time <= from
  PROVE  Claim(Most(time, u + Cost), from) + Excess(u - from) <= Cost + Excess((u + Cost) - from)
<1> USE RateAssumption
<1>1. u - from \in Int /\ (u + Cost) - from \in Int
  OBVIOUS
<1>2. Excess(u - from) \in Nat /\ Excess((u + Cost) - from) \in Nat
  BY <1>1, ExcessStep
<1>3. CASE u + Cost >= time
  <2>1. Most(time, u + Cost) = u + Cost
    BY <1>3 DEF Most
  <2>2. (u + Cost) - from - Cost = u - from /\ ((u + Cost) - from) - Cost = u - from
    OBVIOUS
  <2>3. Excess((u + Cost) - from) = Most(0, (u + Cost) - from) + 2 * Excess(u - from)
    BY <1>1, <2>2, ExcessStep
  <2>4. Claim(u + Cost, from) = Most(0, Cost + (u + Cost) - from) + Excess(u - from)
    BY <2>2 DEF Claim
  <2>5. Most(0, Cost + (u + Cost) - from) <= Cost + Most(0, (u + Cost) - from)
    BY DEF Most
  <2>6. Most(0, Cost + (u + Cost) - from) \in Nat /\ Most(0, (u + Cost) - from) \in Nat
    BY DEF Most
  <2> QED
    BY <1>2, <2>1, <2>3, <2>4, <2>5, <2>6
<1>4. CASE u + Cost < time
  <2>1. Most(time, u + Cost) = time
    BY <1>4 DEF Most
  <2>2. Excess(u - from) = 0 /\ Excess(time - from - Cost) = 0
    BY <1>4 DEF Excess
  <2>3. Most(0, Cost + time - from) <= Cost
    BY DEF Most
  <2>4. Most(0, Cost + time - from) \in Nat
    BY DEF Most
  <2> QED
    BY <1>2, <2>1, <2>2, <2>3, <2>4 DEF Claim
<1> QED
  BY <1>3, <1>4

\* What a cancelled reservation gives back, more than a token or less, is covered by its
\* claim, as long as lastEvent is no earlier than the moment from which it is seen.
LEMMA CancelCovered ==
  ASSUME NEW a \in Int, NEW e \in Int, NEW u \in Int, NEW from \in Int, NEW back \in Nat,
         back = Cost - (e - a), u <= e, from <= e
  PROVE  back + Excess(u - from) - Excess(u - back - from) <= Claim(a, from)
<1> USE RateAssumption
<1> DEFINE low == u - back - from
           high == e - back - from
           middle == e - from - Cost
           p == a - from - Cost
<1>1. low \in Int /\ high \in Int /\ middle \in Int /\ p \in Int /\ low <= high
  OBVIOUS
<1>2. u - from = low + back /\ e - from = high + back /\ p + high = 2 * middle
  OBVIOUS
<1>3. Excess(low + back) - Excess(low) <= Excess(high + back) - Excess(high)
  BY <1>1, ExcessConvex
<1>4. Excess(e - from) = Most(0, e - from) + 2 * Excess(middle)
  <2>1. e - from \in Int
    OBVIOUS
  <2> QED
    BY <2>1, ExcessStep
<1>5. 2 * Excess(middle) <= Excess(p) + Excess(high)
  BY <1>1, <1>2, ExcessMiddle
<1>6. Most(0, e - from) = e - from
  BY DEF Most
<1>7. Claim(a, from) = Most(0, Cost + a - from) + Excess(p)
  BY DEF Claim
<1>8. Most(0, Cost + a - from) = back + (e - from)
  BY DEF Most
<1>9. /\ Excess(p) \in Nat /\ Excess(high) \in Nat /\ Excess(low) \in Nat /\ Excess(middle) \in Nat
      /\ Excess(low + back) \in Nat /\ Excess(high + back) \in Nat
  <2>1. low + back \in Int /\ high + back \in Int
    OBVIOUS
  <2> QED
    BY <1>1, <2>1, ExcessStep
<1> HIDE DEF low, high, middle, p
<1>10. Excess(low + back) - Excess(low) <= (e - from) + Excess(p)
  BY <1>2, <1>3, <1>4, <1>5, <1>6, <1>9
<1>11. back + Excess(low + back) - Excess(low) <= Claim(a, from)
  BY <1>7, <1>8, <1>9, <1>10
<1> QED
  BY <1>2, <1>11 DEF low

-----------------------------------------------------------------------------
(* Adding up what a finite set of requests may claim *)

\* A sum is the size of a set that has as many pairs for each request as it claims.
Units(R, claim) == {p \in R \X Nat : p[2] \in 1..claim[p[1]]}

Total(R, claim) == Cardinality(Units(R, claim))

LEMMA UnitsAdd ==
  ASSUME NEW R, NEW claim, NEW r, r \notin R, IsFiniteSet(Units(R, claim)), claim[r] \in Nat
  PROVE  /\ IsFiniteSet(Units(R \union {r}, claim))
         /\ Total(R \union {r}, claim) = Total(R, claim) + claim[r]
<1> DEFINE New == {r} \X (1..claim[r])
<1>1. IsFiniteSet(New) /\ Cardinality(New) = claim[r]
  <2>1. IsFiniteSet({r}) /\ Cardinality({r}) = 1
    BY FS_Singleton
  <2>2. IsFiniteSet(1..claim[r]) /\ Cardinality(1..claim[r]) = claim[r]
    BY FS_Interval
  <2>3. IsFiniteSet(New) /\ Cardinality(New) = Cardinality({r}) * Cardinality(1..claim[r])
    BY <2>1, <2>2, FS_Product
  <2>4. 1 * claim[r] = claim[r]
    OBVIOUS
  <2> HIDE DEF New
  <2> QED
    BY <2>1, <2>2, <2>3, <2>4
<1>2. Units(R \union {r}, claim) = Units(R, claim) \union New
  BY DEF Units
<1>3. Units(R, claim) \intersect New = {}
  BY DEF Units
<1>4. Cardinality(Units(R, claim) \intersect New) = 0
  BY <1>3, FS_EmptySet
<1>5. Cardinality(Units(R, claim)) \in Nat
  BY FS_CardinalityType
<1> HIDE DEF New
<1>6. /\ IsFiniteSet(Units(R, claim) \union New)
      /\ Cardinality(Units(R, claim) \union New)
           = Cardinality(Units(R, claim)) + Cardinality(New) - Cardinality(Units(R, claim) \intersect New)
  BY <1>1, FS_Union
<1>7. Cardinality(Units(R, claim) \union New) = Cardinality(Units(R, claim)) + claim[r]
  <2> DEFINE c == Cardinality(Units(R, claim))
             d == Cardinality(Units(R, claim) \union New)
  <2>1. d = c + claim[r] - 0
    BY <1>1, <1>4, <1>6
  <2> HIDE DEF c, d
  <2>2. c \in Nat
    BY <1>5 DEF c
  <2> QED
    BY <2>1, <2>2 DEF c, d
<1> QED
  BY <1>2, <1>6, <1>7 DEF Total

LEMMA UnitsFinite ==
  ASSUME NEW R, IsFiniteSet(R), NEW claim, \A r \in R : claim[r] \in Nat
  PROVE  IsFiniteSet(Units(R, claim)) /\ Total(R, claim) \in Nat
<1> DEFINE S == {n \in Nat : \A Q \in SUBSET R : Cardinality(Q) = n => IsFiniteSet(Units(Q, claim))}
<1>1. 0 \in S
  <2> SUFFICES ASSUME NEW Q \in SUBSET R, Cardinality(Q) = 0 PROVE IsFiniteSet(Units(Q, claim))
    OBVIOUS
  <2>1. Q = {}
    BY FS_Subset, FS_EmptySet
  <2>2. Units(Q, claim) = {}
    BY <2>1 DEF Units
  <2> QED
    BY <2>2, FS_EmptySet
<1>2. ASSUME NEW n \in Nat, n \in S PROVE n + 1 \in S
  <2> SUFFICES ASSUME NEW Q \in SUBSET R, Cardinality(Q) = n + 1 PROVE IsFiniteSet(Units(Q, claim))
    OBVIOUS
  <2>1. IsFiniteSet(Q)
    BY FS_Subset
  <2>2. PICK r : r \in Q
    BY <2>1, FS_EmptySet
  <2>3. Cardinality(Q \ {r}) = n
    <3>1. Cardinality(Q \ {r}) = Cardinality(Q) - 1
      BY <2>1, <2>2, FS_RemoveElement
    <3> QED
      BY <3>1
  <2>4. IsFiniteSet(Units(Q \ {r}, claim))
    BY <1>2, <2>3
  <2>5. IsFiniteSet(Units((Q \ {r}) \union {r}, claim))
    BY <2>2, <2>4, UnitsAdd
  <2>6. (Q \ {r}) \union {r} = Q
    BY <2>2
  <2> QED
    BY <2>5, <2>6
<1>3. Cardinality(R) \in S
  <2>1. Cardinality(R) \in Nat
    BY FS_CardinalityType
  <2> HIDE DEF S
  <2> QED
    BY <1>1, <1>2, <2>1, Induction
<1>4. IsFiniteSet(Units(R, claim))
  BY <1>3
<1> QED
  BY <1>4, FS_CardinalityType DEF Total

\* Fewer requests with lower claims claim less together.
LEMMA TotalFalls ==
  ASSUME NEW R, IsFiniteSet(R), NEW Q \in SUBSET R, NEW claim, NEW lower,
         \A r \in R : claim[r] \in Nat,
         \A r \in Q : lower[r] \in Nat /\ lower[r] <= claim[r]
  PROVE  /\ Total(Q, lower) \in Nat /\ Total(R, claim) \in Nat
         /\ Total(Q, lower) <= Total(R, claim)
<1>1. IsFiniteSet(Q)
  BY FS_Subset
<1>2. Units(Q, lower) \subseteq Units(R, claim)
  BY DEF Units
<1>3. IsFiniteSet(Units(R, claim)) /\ Total(R, claim) \in Nat
  BY UnitsFinite
<1>4. Total(Q, lower) \in Nat
  BY <1>1, UnitsFinite
<1> QED
  BY <1>2, <1>3, <1>4, FS_Subset DEF Total

-----------------------------------------------------------------------------
(* The balance of a bucket *)

Claims(acts, from) == [r \in Request |-> Claim(acts[r], from)]

\* n requests have been let through, those in R hold reservations that could act at acts, the
\* bucket is dry until u and its lastEvent is e.  Seen from any moment that can still come,
\* what was let through and what is claimed is covered by what was there at the start,
\* what time has put in until u, and the excess.
Balanced(n, R, acts, u, e, time) ==
  /\ u <= Most(e, time - Full)
  /\ \A from \in Nat :
       from >= Least(time, Most(e, u)) =>
         Cost * n + Total(R, Claims(acts, from)) <= Full + u + Excess(u - from)

LEMMA FullType == Full \in Nat \ {0}
<1>1. \A a, b \in Nat \ {0} : a * b \in Nat \ {0}
  OBVIOUS
<1> QED
  BY <1>1, RateAssumption DEF Full

LEMMA TimesNext ==
  ASSUME NEW n \in Nat
  PROVE  Cost * n \in Nat /\ Cost * (n + 1) = Cost * n + Cost
BY RateAssumption

LEMMA ClaimsType ==
  ASSUME NEW acts \in [Request -> Nat], NEW from \in Nat
  PROVE  \A r \in Request : Claims(acts, from)[r] \in Nat
<1> TAKE r \in Request
<1>1. acts[r] \in Int /\ from \in Int
  OBVIOUS
<1>2. Claim(acts[r], from) \in Nat
  BY <1>1, ClaimType
<1> QED
  BY <1>2 DEF Claims

LEMMA TotalType ==
  ASSUME NEW acts \in [Request -> Nat], NEW from \in Nat, NEW R \in SUBSET Request, IsFiniteSet(R)
  PROVE  Total(R, Claims(acts, from)) \in Nat
BY ClaimsType, UnitsFinite

\* A reservation that may no longer give back anything is no claim.
LEMMA DropBalanced ==
  ASSUME NEW n \in Nat, NEW R \in SUBSET Request, IsFiniteSet(R), NEW acts \in [Request -> Nat],
         NEW u \in Int, NEW e \in Nat, NEW time \in Nat, Balanced(n, R, acts, u, e, time),
         NEW Q \in SUBSET R
  PROVE  Balanced(n, Q, acts, u, e, time)
<1> SUFFICES ASSUME NEW from \in Nat, from >= Least(time, Most(e, u))
             PROVE  Cost * n + Total(Q, Claims(acts, from)) <= Full + u + Excess(u - from)
  BY DEF Balanced
<1>1. Cost * n + Total(R, Claims(acts, from)) <= Full + u + Excess(u - from)
  BY DEF Balanced
<1>2. /\ Total(Q, Claims(acts, from)) <= Total(R, Claims(acts, from))
      /\ Total(Q, Claims(acts, from)) \in Nat /\ Total(R, Claims(acts, from)) \in Nat
  <2>1. \A r \in R : Claims(acts, from)[r] \in Nat
    BY ClaimsType
  <2>2. \A r \in Q : Claims(acts, from)[r] \in Nat /\ Claims(acts, from)[r] <= Claims(acts, from)[r]
    BY <2>1
  <2> QED
    BY <2>1, <2>2, TotalFalls
<1>3. Cost * n \in Nat /\ Full \in Nat /\ Excess(u - from) \in Nat
  <2>1. u - from \in Int
    OBVIOUS
  <2> QED
    BY <2>1, TimesNext, FullType, ExcessStep
<1> QED
  BY <1>1, <1>2, <1>3

\* Time puts tokens in and lets reservations expire.
LEMMA TickBalanced ==
  ASSUME NEW n \in Nat, NEW R \in SUBSET Request, IsFiniteSet(R), NEW acts \in [Request -> Nat],
         NEW u \in Int, NEW e \in Nat, NEW time \in Nat, Balanced(n, R, acts, u, e, time),
         NEW Q \in SUBSET R, NEW v \in Int, u <= v, v <= Most(e, (time + 1) - Full)
  PROVE  Balanced(n, Q, acts, v, e, time + 1)
<1> SUFFICES \A from \in Nat :
               from >= Least(time + 1, Most(e, v)) =>
                 Cost * n + Total(Q, Claims(acts, from)) <= Full + v + Excess(v - from)
  BY Zenon DEF Balanced
<1> SUFFICES ASSUME NEW from \in Nat, from >= Least(time + 1, Most(e, v))
             PROVE  Cost * n + Total(Q, Claims(acts, from)) <= Full + v + Excess(v - from)
  OBVIOUS
<1>1. from >= Least(time, Most(e, u))
  BY DEF Least, Most
<1>2. Cost * n + Total(Q, Claims(acts, from)) <= Full + u + Excess(u - from)
  BY <1>1, DropBalanced DEF Balanced
<1>3. Excess(u - from) <= Excess(v - from)
  <2>1. u - from \in Int /\ v - from \in Int /\ u - from <= v - from
    OBVIOUS
  <2> QED
    BY <2>1, ExcessGrows
<1>4. /\ Cost * n \in Nat /\ Full \in Nat
      /\ Excess(u - from) \in Nat /\ Excess(v - from) \in Nat
  <2>1. u - from \in Int /\ v - from \in Int
    OBVIOUS
  <2> QED
    BY <2>1, TimesNext, FullType, ExcessStep
<1>5. Total(Q, Claims(acts, from)) \in Nat
  BY FS_Subset, TotalType
<1> QED
  BY <1>2, <1>3, <1>4, <1>5

\* A request is let through when its token is there.
LEMMA AdmitBalanced ==
  ASSUME NEW n \in Nat, NEW R \in SUBSET Request, IsFiniteSet(R), NEW acts \in [Request -> Nat],
         NEW u \in Int, NEW e \in Nat, NEW time \in Nat, Balanced(n, R, acts, u, e, time),
         u + Cost <= time
  PROVE  /\ Balanced(n + 1, R, acts, u + Cost, time, time)
         /\ Cost * (n + 1) <= Full + time
<1> USE RateAssumption
<1>1. ASSUME NEW from \in Nat, from >= time
      PROVE  Cost * (n + 1) + Total(R, Claims(acts, from)) <= Full + u + Cost
  <2>1. from >= Least(time, Most(e, u))
    BY <1>1 DEF Least, Most
  <2>2. Cost * n + Total(R, Claims(acts, from)) <= Full + u + Excess(u - from)
    BY <2>1 DEF Balanced
  <2>3. Excess(u - from) = 0
    BY <1>1 DEF Excess
  <2> QED
    BY <2>2, <2>3, TimesNext, TotalType, FullType
<1>2. Balanced(n + 1, R, acts, u + Cost, time, time)
  <2>0. u + Cost <= Most(time, time - Full)
    BY FullType DEF Most
  <2> SUFFICES \A from \in Nat :
                 from >= Least(time, Most(time, u + Cost)) =>
                   Cost * (n + 1) + Total(R, Claims(acts, from))
                     <= Full + (u + Cost) + Excess((u + Cost) - from)
    BY <2>0, Zenon DEF Balanced
  <2> SUFFICES ASSUME NEW from \in Nat, from >= Least(time, Most(time, u + Cost))
               PROVE  Cost * (n + 1) + Total(R, Claims(acts, from))
                        <= Full + (u + Cost) + Excess((u + Cost) - from)
    OBVIOUS
  <2>1. from >= time
    BY DEF Least, Most
  <2>2. Cost * (n + 1) + Total(R, Claims(acts, from)) <= Full + u + Cost
    BY <1>1, <2>1
  <2>3. Excess((u + Cost) - from) \in Nat /\ Full \in Nat
    BY ExcessStep, FullType
  <2>4. Cost * (n + 1) \in Nat /\ Total(R, Claims(acts, from)) \in Nat
    BY TimesNext, TotalType
  <2> QED
    BY <2>2, <2>3, <2>4
<1>3. Cost * (n + 1) <= Full + time
  <2>1. Cost * (n + 1) + Total(R, Claims(acts, time)) <= Full + u + Cost
    BY <1>1
  <2>2. Cost * (n + 1) \in Nat /\ Total(R, Claims(acts, time)) \in Nat /\ Full \in Nat
    BY TimesNext, TotalType, FullType
  <2> QED
    BY <2>1, <2>2
<1> QED
  BY <1>2, <1>3

\* A reservation takes a token that is there or will be.
LEMMA ReserveBalanced ==
  ASSUME NEW n \in Nat, NEW R \in SUBSET Request, IsFiniteSet(R), NEW acts \in [Request -> Nat],
         NEW u \in Int, NEW e \in Nat, NEW time \in Nat, Balanced(n, R, acts, u, e, time),
         NEW r \in Request \ R
  PROVE  Balanced(n, R \union {r}, [acts EXCEPT ![r] = Most(time, u + Cost)],
                  u + Cost, Most(time, u + Cost), time)
<1> USE RateAssumption
<1> DEFINE a == Most(time, u + Cost)
           later == [acts EXCEPT ![r] = a]
<1>1. a \in Nat /\ a >= time /\ a >= u + Cost
  BY DEF Most
<1> HIDE DEF a
<1>2. later \in [Request -> Nat] /\ later[r] = a /\ \A q \in R : later[q] = acts[q]
  BY <1>1
<1> HIDE DEF later
<1> SUFFICES ASSUME NEW from \in Nat, from >= Least(time, Most(a, u + Cost))
             PROVE  Cost * n + Total(R \union {r}, Claims(later, from))
                      <= Full + (u + Cost) + Excess((u + Cost) - from)
  <2>1. u + Cost <= Most(a, time - Full)
    BY <1>1, FullType DEF Most
  <2>2. ASSUME \A from \in Nat :
                 from >= Least(time, Most(a, u + Cost)) =>
                   Cost * n + Total(R \union {r}, Claims(later, from))
                     <= Full + (u + Cost) + Excess((u + Cost) - from)
        PROVE  Balanced(n, R \union {r}, later, u + Cost, a, time)
    BY <2>1, <2>2, Zenon DEF Balanced
  <2> QED
    BY <2>2 DEF a, later
<1>3. from >= time
  BY <1>1 DEF Least, Most
<1>4. from >= Least(time, Most(e, u))
  BY <1>3 DEF Least, Most
<1>5. Cost * n + Total(R, Claims(acts, from)) <= Full + u + Excess(u - from)
  BY <1>4 DEF Balanced
<1>6. \A q \in Request : Claims(acts, from)[q] \in Nat /\ Claims(later, from)[q] \in Nat
  BY <1>2, ClaimsType
<1>7. /\ Total(R, Claims(later, from)) <= Total(R, Claims(acts, from))
      /\ Total(R, Claims(later, from)) \in Nat /\ Total(R, Claims(acts, from)) \in Nat
  <2>1. \A q \in R : Claims(later, from)[q] = Claims(acts, from)[q]
    BY <1>2 DEF Claims
  <2>2. \A q \in R : Claims(later, from)[q] \in Nat /\ Claims(later, from)[q] <= Claims(acts, from)[q]
    BY <1>6, <2>1
  <2>3. \A q \in R : Claims(acts, from)[q] \in Nat
    BY <1>6
  <2> QED
    BY <2>2, <2>3, TotalFalls
<1>8. /\ Total(R \union {r}, Claims(later, from)) = Total(R, Claims(later, from)) + Claim(a, from)
      /\ Claim(a, from) \in Nat
  <2>1. Claims(later, from)[r] = Claim(a, from)
    BY <1>2 DEF Claims
  <2>2. IsFiniteSet(Units(R, Claims(later, from)))
    BY <1>6, UnitsFinite
  <2>3. Claim(a, from) \in Nat
    BY <1>1, ClaimType
  <2> QED
    BY <2>1, <2>2, <2>3, UnitsAdd
<1>9. Claim(a, from) + Excess(u - from) <= Cost + Excess((u + Cost) - from)
  <2>1. Claim(Most(time, u + Cost), from) + Excess(u - from) <= Cost + Excess((u + Cost) - from)
    <3>1. time \in Int /\ from \in Int
      OBVIOUS
    <3> QED
      BY <1>3, <3>1, ReserveCovered
  <2> QED
    BY <2>1 DEF a
<1>10. /\ Cost * n \in Nat /\ Full \in Nat
       /\ Excess(u - from) \in Nat /\ Excess((u + Cost) - from) \in Nat
  <2>1. u - from \in Int /\ (u + Cost) - from \in Int
    OBVIOUS
  <2> QED
    BY <2>1, TimesNext, FullType, ExcessStep
<1> QED
  BY <1>5, <1>7, <1>8, <1>9, <1>10

\* A cancelled reservation gives back what its claim covers; lastEvent may move down.
LEMMA CancelBalanced ==
  ASSUME NEW n \in Nat, NEW R \in SUBSET Request, IsFiniteSet(R), NEW acts \in [Request -> Nat],
         NEW u \in Int, NEW e \in Nat, NEW time \in Nat, Balanced(n, R, acts, u, e, time),
         time - Full <= u,
         NEW r \in R, acts[r] >= time,
         NEW back \in Nat \ {0}, back = Cost - (e - acts[r]),
         NEW f \in Nat, f = e \/ (acts[r] = e /\ f = e - Cost /\ f >= time)
  PROVE  Balanced(n, R \ {r}, acts, Most(time - Full, u - back), f, time)
<1> USE RateAssumption, FullType
<1> DEFINE v == Most(time - Full, u - back)
           Q == R \ {r}
           a == acts[r]
<1>1. a \in Nat /\ IsFiniteSet(Q) /\ Q \in SUBSET Request /\ Q \in SUBSET R
  BY FS_Subset
<1>0. back = Cost - (e - a)
  OBVIOUS
<1>2. v \in Int /\ v <= u /\ v >= u - back /\ v >= time - Full
  BY DEF Most
<1>3. v <= Most(f, time - Full)
  <2>1. u <= Most(e, time - Full)
    BY DEF Balanced
  <2>2. CASE f = e
    BY <1>2, <2>1, <2>2 DEF Most
  <2>3. CASE a = e /\ f = e - Cost
    BY <2>1, <2>3 DEF Most
  <2> QED
    BY <2>2, <2>3
<1>4. \A from \in Nat : /\ Total(Q, Claims(acts, from)) \in Nat
                        /\ Total(R, Claims(acts, from)) = Total(Q, Claims(acts, from)) + Claim(a, from)
                        /\ Claim(a, from) \in Nat
  <2> SUFFICES ASSUME NEW from \in Nat
               PROVE  /\ Total(Q, Claims(acts, from)) \in Nat
                      /\ Total(R, Claims(acts, from)) = Total(Q, Claims(acts, from)) + Claim(a, from)
                      /\ Claim(a, from) \in Nat
    OBVIOUS
  <2>1. Claims(acts, from)[r] = Claim(a, from)
    BY DEF Claims
  <2>2. IsFiniteSet(Units(Q, Claims(acts, from))) /\ Total(Q, Claims(acts, from)) \in Nat
    BY <1>1, ClaimsType, UnitsFinite
  <2>4. Q \union {r} = R /\ r \notin Q
    OBVIOUS
  <2> HIDE DEF Q, a
  <2>3. Claim(a, from) \in Nat
    <3>1. a \in Int /\ from \in Int
      BY <1>1
    <3> QED
      BY <3>1, ClaimType
  <2>5. Total(Q \union {r}, Claims(acts, from)) = Total(Q, Claims(acts, from)) + Claim(a, from)
    BY <2>1, <2>2, <2>3, <2>4, UnitsAdd
  <2> QED
    BY <2>2, <2>3, <2>4, <2>5
<1>5. Cost * n \in Nat /\ Full \in Nat
  BY TimesNext
<1> HIDE DEF v, Q, a
<1>6. ASSUME NEW from \in Nat, from >= Least(time, Most(f, v))
      PROVE  Cost * n + Total(Q, Claims(acts, from)) <= Full + v + Excess(v - from)
  <2>0. \A x \in Int : Excess(x) \in Nat
    BY ExcessStep
  <2>1. CASE u <= e
    <3>1. ASSUME NEW t \in Nat, t >= Least(time, e), t <= e
          PROVE  Cost * n + Total(Q, Claims(acts, t)) <= Full + v + Excess(v - t)
      <4>1. t >= Least(time, Most(e, u))
        BY <2>1, <3>1 DEF Least, Most
      <4>2. Cost * n + Total(R, Claims(acts, t)) <= Full + u + Excess(u - t)
        BY <4>1 DEF Balanced
      <4>3. back + Excess(u - t) - Excess(u - back - t) <= Claim(a, t)
        <5>1. a \in Int /\ e \in Int /\ t \in Int /\ back \in Nat
          BY <1>1
        <5> QED
          BY <1>0, <5>1, <2>1, <3>1, CancelCovered
      <4>4. Excess(u - back - t) <= Excess(v - t)
        <5>1. u - back - t \in Int /\ v - t \in Int /\ u - back - t <= v - t
          BY <1>2
        <5> QED
          BY <5>1, ExcessGrows
      <4>5. /\ Excess(u - t) \in Nat /\ Excess(u - back - t) \in Nat /\ Excess(v - t) \in Nat
        BY <1>2, <2>0
      <4> QED
        BY <1>2, <1>4, <1>5, <4>2, <4>3, <4>4, <4>5
    <3>2. from >= Least(time, e)
      BY <1>2, <1>6, <2>1 DEF Least, Most
    <3>3. CASE from <= e
      BY <3>1, <3>2, <3>3
    <3>4. CASE from > e
      <4>1. Cost * n + Total(Q, Claims(acts, e)) <= Full + v + Excess(v - e)
        BY <3>1 DEF Least
      <4>2. Excess(v - e) = 0
        BY <1>2, <2>1 DEF Excess
      <4>3. Total(Q, Claims(acts, from)) <= Total(Q, Claims(acts, e))
        <5>1. \A q \in Q : Claims(acts, from)[q] <= Claims(acts, e)[q]
          BY <1>1, <3>4, ClaimFalls DEF Claims
        <5>2. \A q \in Q : Claims(acts, from)[q] \in Nat /\ Claims(acts, e)[q] \in Nat
          BY <1>1, ClaimsType
        <5> QED
          BY <1>1, <5>1, <5>2, TotalFalls
      <4>4. Excess(v - from) \in Nat
        BY <1>2, <2>0
      <4> QED
        BY <1>2, <1>4, <1>5, <4>1, <4>2, <4>3, <4>4
    <3> QED
      BY <3>3, <3>4
  <2>2. CASE u > e
    <3>1. u = time - Full
      BY <2>2 DEF Balanced, Most
    <3>2. v = u
      BY <1>2, <3>1
    <3>3. from >= Least(time, Most(e, u))
      BY <1>6, <2>2, <3>1, <3>2 DEF Least, Most
    <3>4. Cost * n + Total(R, Claims(acts, from)) <= Full + u + Excess(u - from)
      BY <3>3 DEF Balanced
    <3>5. Excess(u - from) \in Nat
      BY <2>0
    <3> QED
      BY <1>4, <1>5, <3>2, <3>4, <3>5
  <2> QED
    BY <2>1, <2>2
<1> QED
  BY <1>3, <1>6 DEF Balanced, v, Q

\* Only the reservations in R matter.
LEMMA ActsBalanced ==
  ASSUME NEW n, NEW R \in SUBSET Request, NEW acts \in [Request -> Nat],
         NEW later \in [Request -> Nat], \A r \in R : later[r] = acts[r],
         NEW u, NEW e, NEW time, Balanced(n, R, acts, u, e, time)
  PROVE  Balanced(n, R, later, u, e, time)
<1>1. ASSUME NEW from \in Nat
      PROVE  Total(R, Claims(later, from)) = Total(R, Claims(acts, from))
  <2>1. \A r \in R : Claims(later, from)[r] = Claims(acts, from)[r]
    BY DEF Claims
  <2>2. Units(R, Claims(later, from)) = Units(R, Claims(acts, from))
    BY <2>1 DEF Units
  <2> QED
    BY <2>2 DEF Total
<1> QED
  BY <1>1 DEF Balanced

-----------------------------------------------------------------------------
(* The invariant *)

Begun == {r \in Request : at[r] # "new"}

BucketOf(c) == IF c \in DOMAIN buckets THEN buckets[c] ELSE Fresh

\* The moment at which the bucket has been, or will be, empty.
Dry(c) == now - Level(BucketOf(c))

Outstanding(c) == {r \in Request : at[r] = "reserved" /\ Id(r) = c /\ act[r] >= now}

CallerBalanced(c) ==
  /\ Cost * Cardinality(Admitted(c)) <= Full + now
  /\ Balanced(Cardinality(Admitted(c)), Outstanding(c), act, Dry(c), BucketOf(c).event, now)

RateShape ==
  /\ now \in Nat /\ act \in [Request -> Nat] /\ IsFiniteSet(Begun)
  /\ \A c \in DOMAIN buckets : buckets[c] \in Bucket

Limited == command # None /\ settings # None /\ settings.limited

\* Without a limiter requests are let through that no bucket has paid for.
RateInv ==
  /\ RateShape
  /\ Limited \/ stage \in Early => \A c \in Caller : CallerBalanced(c)

LEMMA BucketType ==
  ASSUME RateShape, NEW c
  PROVE  /\ BucketOf(c) \in Bucket
         /\ Level(BucketOf(c)) \in Int /\ Level(BucketOf(c)) <= Full
         /\ Dry(c) \in Int /\ now - Full <= Dry(c)
         /\ Dry(c) = Most(now - Full, BucketOf(c).last - BucketOf(c).level)
<1>1. BucketOf(c) \in Bucket
  BY FullType DEF RateShape, BucketOf, Bucket, Fresh
<1> QED
  BY <1>1, FullType DEF RateShape, Bucket, Level, Dry, Least, Most

LEMMA SetsFinite ==
  ASSUME RateShape, NEW c
  PROVE  /\ Admitted(c) \in SUBSET Request /\ IsFiniteSet(Admitted(c)) /\ Cardinality(Admitted(c)) \in Nat
         /\ Outstanding(c) \in SUBSET Request /\ IsFiniteSet(Outstanding(c))
<1>1. Admitted(c) \in SUBSET Begun /\ Outstanding(c) \in SUBSET Begun
  BY DEF Admitted, Outstanding, Begun
<1>2. IsFiniteSet(Admitted(c)) /\ IsFiniteSet(Outstanding(c))
  BY <1>1, FS_Subset DEF RateShape
<1> QED
  BY <1>2, FS_CardinalityType DEF Admitted, Outstanding

\* A step that leaves a caller's bucket, admissions and reservations alone.
LEMMA SameBalanced ==
  ASSUME RateShape, RateShape', NEW c, CallerBalanced(c), now' = now,
         BucketOf(c)' = BucketOf(c), Admitted(c)' = Admitted(c), Outstanding(c)' = Outstanding(c),
         \A r \in Outstanding(c) : act'[r] = act[r]
  PROVE  CallerBalanced(c)'
<1>1. Dry(c)' = Dry(c)
  BY DEF Dry, Level
<1>2. act \in [Request -> Nat] /\ act' \in [Request -> Nat] /\ Outstanding(c) \in SUBSET Request
  BY SetsFinite DEF RateShape
<1>3. Balanced(Cardinality(Admitted(c)), Outstanding(c), act', Dry(c), BucketOf(c).event, now)
  BY <1>2, ActsBalanced DEF CallerBalanced
<1> QED
  BY <1>1, <1>3 DEF CallerBalanced

\* What a new process begins with.
Untold ==
  /\ now = 0 /\ buckets = [c \in {} |-> Fresh] /\ at = [r \in Request |-> "new"]
  /\ act = [r \in Request |-> 0]

LEMMA ForgetBalances == Untold => RateInv
<1> SUFFICES ASSUME Untold PROVE RateInv
  OBVIOUS
<1> USE DEF Untold
<1>1. Begun = {}
  BY DEF Begun
<1>2. RateShape
  BY <1>1, FS_EmptySet DEF RateShape
<1>3. ASSUME NEW c \in Caller PROVE CallerBalanced(c)
  <2>1. Admitted(c) = {} /\ Outstanding(c) = {} /\ BucketOf(c) = Fresh
    BY DEF Admitted, Outstanding, BucketOf
  <2>2. Dry(c) = 0 - Full
    BY <2>1, FullType DEF Dry, Level, Fresh, Least
  <2>3. Cardinality(Admitted(c)) = 0 /\ Cost * 0 = 0
    BY <2>1, FS_EmptySet, RateAssumption
  <2>4. \A from \in Nat : Total({}, Claims(act, from)) = 0
    <3> TAKE from \in Nat
    <3>1. Units({}, Claims(act, from)) = {}
      BY DEF Units
    <3> QED
      BY <3>1, FS_EmptySet DEF Total
  <2>5. Balanced(0, {}, act, 0 - Full, 0, 0)
    <3>1. 0 - Full <= Most(0, 0 - Full)
      BY FullType DEF Most
    <3>2. ASSUME NEW from \in Nat
          PROVE  Cost * 0 + Total({}, Claims(act, from)) <= Full + (0 - Full) + Excess((0 - Full) - from)
      <4>1. (0 - Full) - from \in Int
        BY FullType
      <4>2. Excess((0 - Full) - from) \in Nat
        BY <4>1, ExcessStep
      <4> QED
        BY <2>3, <2>4, <4>2, FullType
    <3> QED
      BY <3>1, <3>2 DEF Balanced
  <2> QED
    BY <2>1, <2>2, <2>3, <2>5, FullType DEF CallerBalanced, Fresh
<1> QED
  BY <1>2, <1>3 DEF RateInv

LEMMA NewProcessBalances == Untold' => RateInv'
BY ForgetBalances, PTL

LEMMA TickBalances ==
  ASSUME RateShape, Tick
  PROVE  RateShape' /\ \A c \in Caller : CallerBalanced(c) => CallerBalanced(c)'
<1>1. now' = now + 1 /\ UNCHANGED <<buckets, at, caller, act>>
  BY DEF Tick
<1>2. RateShape'
  BY <1>1 DEF RateShape, Begun
<1>3. ASSUME NEW c \in Caller, CallerBalanced(c) PROVE CallerBalanced(c)'
  <2> DEFINE n == Cardinality(Admitted(c))
             R == Outstanding(c)
             u == Dry(c)
             e == BucketOf(c).event
  <2>1. BucketOf(c)' = BucketOf(c) /\ Admitted(c)' = Admitted(c)
    BY <1>1 DEF BucketOf, Admitted, Id
  <2>2. Outstanding(c)' \in SUBSET R
    BY <1>1 DEF Outstanding, Id, RateShape
  <2>3. /\ u \in Int /\ e \in Nat /\ BucketOf(c).last \in Int /\ BucketOf(c).level \in Int
        /\ u = Most(now - Full, BucketOf(c).last - BucketOf(c).level)
    BY BucketType DEF Bucket
  <2>4. Dry(c)' = Most((now + 1) - Full, BucketOf(c).last - BucketOf(c).level)
    BY <1>1, <1>2, <2>1, <2>3, FullType DEF Dry, Level, Least, Most, RateShape
  <2>5. Balanced(n, R, act, u, e, now) /\ u <= Most(e, now - Full) /\ Cost * n <= Full + now
    <3>1. Balanced(n, R, act, u, e, now) /\ Cost * n <= Full + now
      BY <1>3 DEF CallerBalanced
    <3> HIDE DEF n, R, u, e
    <3>2. u <= Most(e, now - Full)
      BY <3>1 DEF Balanced
    <3> QED
      BY <3>1, <3>2
  <2>6. now \in Nat /\ act \in [Request -> Nat]
    BY DEF RateShape
  <2> DEFINE v == Dry(c)'
  <2>7. v \in Int /\ u <= v /\ v <= Most(e, (now + 1) - Full)
    BY <2>3, <2>4, <2>5, <2>6, FullType DEF Most
  <2>8. n \in Nat /\ R \in SUBSET Request /\ IsFiniteSet(R)
    BY SetsFinite
  <2> HIDE DEF n, R, u, e, v
  <2>9. Balanced(n, Outstanding(c)', act, v, e, now + 1)
    BY <2>2, <2>3, <2>5, <2>6, <2>7, <2>8, TickBalanced
  <2>10. Cost * n <= Full + (now + 1)
    BY <2>5, <2>6, <2>8, TimesNext, FullType
  <2> QED
    BY <1>1, <2>1, <2>9, <2>10 DEF CallerBalanced, n, e, v
<1> QED
  BY <1>2, <1>3

-----------------------------------------------------------------------------
(* The steps of the limiter *)

\* What a step of one request leaves to the others.
LEMMA StepType ==
  ASSUME IInv, RateShape, NEW r \in Request, RateStep(r)
  PROVE  /\ RateShape' /\ now' = now /\ caller' = caller
         /\ \A q \in Request : Id(q)' = Id(q)
         /\ \A q \in Request \ {r} : at'[q] = at[q] /\ act'[q] = act[q]
         /\ \A c \in Caller \ {Id(r)} : BucketOf(c)' = BucketOf(c)
         /\ at[r] \in {"limiter", "asking", "refused", "reserved"}
<1> USE RateAssumption
<1>0. DOMAIN at = Request /\ act \in [Request -> Nat] /\ now \in Nat
  BY DEF IInv, Shape, RateShape
<1>1. at[r] # "limiter" => Id(r) \in DOMAIN buckets /\ BucketOf(Id(r)) = Mine(r)
  <2>1. RequestMatches(r)
    BY DEF IInv, RequestsMatch
  <2>2. at[r] \in {"limiter", "asking", "refused", "reserved"}
    BY RateStepMoves
  <2> QED
    BY <2>1, <2>2 DEF RequestMatches, BucketOf, Mine
<1>2. at[r] # "limiter" => Mine(r) \in Bucket /\ Level(Mine(r)) \in Int
  BY <1>1, BucketType
<1>3. now' = now /\ caller' = caller
  BY DEF RateStep, LimiterFor, Admit, TurnAway, Reserve, Cancel
<1>4. \A q \in Request : Id(q)' = Id(q)
  BY <1>3 DEF Id
<1>5. /\ \A q \in Request \ {r} : at'[q] = at[q]
      /\ at[r] \in {"limiter", "asking", "refused", "reserved"}
  BY <1>0, RateStepMoves
<1>6. act' \in [Request -> Nat] /\ \A q \in Request \ {r} : act'[q] = act[q]
  <2>1. CASE Reserve(r)
    <3>1. now + Wait(Mine(r)) \in Nat
      BY <1>0, <1>2, <2>1 DEF Reserve, Wait, Left, Most
    <3> QED
      BY <1>0, <2>1, <3>1 DEF Reserve
  <2>2. CASE ~ Reserve(r)
    BY <1>0, <2>2 DEF RateStep, LimiterFor, Admit, TurnAway, Cancel
  <2> QED
    BY <2>1, <2>2
<1>7. IsFiniteSet(Begun')
  <2>1. Begun' \subseteq Begun
    BY <1>5 DEF Begun
  <2> QED
    BY <2>1, FS_Subset DEF RateShape
<1>8. /\ \A c \in Caller \ {Id(r)} : BucketOf(c)' = BucketOf(c)
      /\ \A c \in DOMAIN buckets' : buckets'[c] \in Bucket
  <2>1. CASE LimiterFor(r)
    <3>1. Fresh \in Bucket
      BY FullType DEF Fresh, Bucket
    <3> QED
      BY <2>1, <3>1 DEF LimiterFor, BucketOf, RateShape
  <2>2. CASE Admit(r) \/ Reserve(r)
    <3>1. Taken(Mine(r)) \in Bucket
      BY <1>0, <1>2, <2>2 DEF Admit, Reserve, Taken, Wait, Left, Most, Bucket
    <3>2. buckets' = [buckets EXCEPT ![Id(r)] = Taken(Mine(r))]
      BY <2>2 DEF Admit, Reserve, Store
    <3> QED
      BY <3>1, <3>2 DEF BucketOf, RateShape
  <2>3. CASE TurnAway(r)
    BY <2>3 DEF TurnAway, BucketOf, RateShape
  <2>4. CASE Cancel(r)
    <3> DEFINE before == act[r] - Cost
               new == IF act[r] < now \/ Restored(r) <= 0 THEN Mine(r)
                      ELSE [level |-> Least(Full, Level(Mine(r)) + Restored(r)),
                            last |-> now,
                            event |-> IF act[r] = Mine(r).event /\ before >= now
                                      THEN before ELSE Mine(r).event]
    <3>1. buckets' = [buckets EXCEPT ![Id(r)] = new]
      BY <2>4 DEF Cancel, Store
    <3>2. Mine(r) \in Bucket /\ Level(Mine(r)) \in Int /\ act[r] \in Nat
      BY <1>0, <1>2, <2>4 DEF Cancel
    <3>3. new \in Bucket
      <4>1. Restored(r) \in Int
        BY <3>2 DEF Restored, Bucket
      <4>2. Least(Full, Level(Mine(r)) + Restored(r)) \in Int
        BY <3>2, <4>1, FullType DEF Least
      <4> QED
        BY <1>0, <3>2, <4>2 DEF Bucket
    <3> HIDE DEF new
    <3> QED
      BY <3>1, <3>3 DEF BucketOf, RateShape
  <2> QED
    BY <2>1, <2>2, <2>3, <2>4 DEF RateStep
<1> QED
  BY <1>0, <1>3, <1>4, <1>5, <1>6, <1>7, <1>8 DEF RateShape

\* Other callers do not notice.
LEMMA OthersBalanced ==
  ASSUME IInv, RateShape, NEW r \in Request, RateStep(r),
         NEW c \in Caller \ {Id(r)}, CallerBalanced(c)
  PROVE  CallerBalanced(c)'
<1>1. Admitted(c)' = Admitted(c)
  BY StepType DEF Admitted
<1>2. Outstanding(c)' = Outstanding(c)
  BY StepType DEF Outstanding
<1>3. \A q \in Outstanding(c) : act'[q] = act[q]
  BY StepType DEF Outstanding
<1> QED
  BY <1>1, <1>2, <1>3, StepType, SameBalanced

LEMMA LimiterForBalances ==
  ASSUME IInv, RateShape, NEW r \in Request, LimiterFor(r) \/ TurnAway(r),
         NEW c \in Caller, c = Id(r), CallerBalanced(c)
  PROVE  CallerBalanced(c)'
<1>1. RateStep(r)
  BY DEF RateStep
<1>2. at[r] \in {"limiter", "asking"} /\ at'[r] \in {"asking", "refused"} /\ act' = act
  BY DEF LimiterFor, TurnAway, Go, IInv, Shape
<1>3. RateShape' /\ now' = now /\ \A q \in Request : Id(q)' = Id(q) /\ (q # r => at'[q] = at[q])
  BY <1>1, StepType
<1>4. BucketOf(c)' = BucketOf(c)
  BY DEF LimiterFor, TurnAway, BucketOf
<1>5. Admitted(c)' = Admitted(c)
  BY <1>2, <1>3 DEF Admitted
<1>6. Outstanding(c)' = Outstanding(c)
  BY <1>2, <1>3 DEF Outstanding
<1> QED
  BY <1>2, <1>3, <1>4, <1>5, <1>6, SameBalanced

\* What the steps on a bucket that is there have in common.
LEMMA BucketFacts ==
  ASSUME IInv, RateShape, NEW r \in Request, at[r] \in {"asking", "refused", "reserved"},
         NEW c \in Caller, c = Id(r), CallerBalanced(c)
  PROVE  /\ BucketOf(c) = Mine(r) /\ c \in DOMAIN buckets
         /\ now \in Nat /\ act \in [Request -> Nat] /\ DOMAIN at = Request
         /\ Dry(c) \in Int /\ now - Full <= Dry(c) /\ BucketOf(c).event \in Nat
         /\ Level(BucketOf(c)) \in Int /\ Level(BucketOf(c)) <= Full
         /\ Level(BucketOf(c)) = now - Dry(c)
         /\ Cardinality(Admitted(c)) \in Nat /\ IsFiniteSet(Admitted(c))
         /\ Outstanding(c) \in SUBSET Request /\ IsFiniteSet(Outstanding(c))
         /\ Cost * Cardinality(Admitted(c)) <= Full + now
         /\ Balanced(Cardinality(Admitted(c)), Outstanding(c), act, Dry(c), BucketOf(c).event, now)
<1>1. c \in DOMAIN buckets
  <2>1. RequestMatches(r)
    BY DEF IInv, RequestsMatch
  <2> QED
    BY <2>1 DEF RequestMatches
<1>2. BucketOf(c) = Mine(r)
  BY <1>1 DEF BucketOf, Mine
<1>3. BucketOf(c).event \in Nat
  BY BucketType DEF Bucket
<1>4. now \in Nat /\ act \in [Request -> Nat] /\ DOMAIN at = Request
  BY DEF IInv, Shape, RateShape
<1>5. Level(BucketOf(c)) = now - Dry(c)
  BY <1>4, BucketType DEF Dry
<1> QED
  BY <1>1, <1>2, <1>3, <1>4, <1>5, BucketType, SetsFinite DEF CallerBalanced

LEMMA AdmitBalances ==
  ASSUME IInv, RateShape, NEW r \in Request, Admit(r), NEW c \in Caller, c = Id(r), CallerBalanced(c)
  PROVE  CallerBalanced(c)'
<1> USE RateAssumption
<1> DEFINE n == Cardinality(Admitted(c))
           R == Outstanding(c)
           u == Dry(c)
           e == BucketOf(c).event
<1>1. RateStep(r) /\ at[r] = "asking"
  BY DEF RateStep, Admit
<1>2. /\ RateShape' /\ now' = now /\ act' = act
      /\ \A q \in Request : Id(q)' = Id(q) /\ (q # r => at'[q] = at[q])
  BY <1>1, StepType DEF Admit
<1>3. /\ BucketOf(c) = Mine(r) /\ c \in DOMAIN buckets /\ DOMAIN at = Request
      /\ now \in Nat /\ u \in Int /\ Level(BucketOf(c)) = now - u
      /\ Level(BucketOf(c)) \in Int /\ Level(BucketOf(c)) <= Full
  BY <1>1, BucketFacts
<1>4. at'[r] = "admitted" /\ Wait(Mine(r)) = 0
  BY <1>3 DEF Admit, Go
<1>5. u + Cost <= now
  BY <1>3, <1>4 DEF Wait, Left, Most
<1>6. BucketOf(c)' = Taken(Mine(r))
  BY <1>3 DEF Admit, Store, BucketOf
<1>7. BucketOf(c)'.event = now /\ Dry(c)' = u + Cost
  <2>1. BucketOf(c)'.event = now + 0
    BY <1>4, <1>6 DEF Taken
  <2>2. BucketOf(c)'.level = (now - u) - Cost /\ BucketOf(c)'.last = now
    BY <1>3, <1>6 DEF Taken, Left
  <2>3. Level(BucketOf(c))' = (now - u) - Cost
    BY <1>2, <1>3, <2>2, FullType DEF Level, Least
  <2> QED
    BY <1>2, <1>3, <2>1, <2>3 DEF Dry
<1>8. Cardinality(Admitted(c)') = n + 1
  <2>1. Admitted(c)' = Admitted(c) \union {r} /\ r \notin Admitted(c)
    BY <1>1, <1>2, <1>4 DEF Admitted
  <2> QED
    BY <1>1, <2>1, BucketFacts, FS_AddElement
<1>9. Outstanding(c)' = R
  BY <1>1, <1>2, <1>4 DEF Outstanding
<1>10. Balanced(n + 1, R, act, u + Cost, now, now) /\ Cost * (n + 1) <= Full + now
  <2>1. /\ n \in Nat /\ R \in SUBSET Request /\ IsFiniteSet(R) /\ act \in [Request -> Nat]
        /\ e \in Nat /\ Balanced(n, R, act, u, e, now)
    BY <1>1, BucketFacts
  <2> HIDE DEF n, R, u, e
  <2> QED
    BY <1>3, <1>5, <2>1, AdmitBalanced
<1> HIDE DEF n, R, u
<1> QED
  BY <1>2, <1>7, <1>8, <1>9, <1>10 DEF CallerBalanced

LEMMA ReserveBalances ==
  ASSUME IInv, RateShape, NEW r \in Request, Reserve(r), NEW c \in Caller, c = Id(r), CallerBalanced(c)
  PROVE  CallerBalanced(c)'
<1> USE RateAssumption
<1> DEFINE n == Cardinality(Admitted(c))
           R == Outstanding(c)
           u == Dry(c)
           e == BucketOf(c).event
           a == Most(now, u + Cost)
<1>1. RateStep(r) /\ at[r] = "refused"
  BY DEF RateStep, Reserve
<1>2. /\ RateShape' /\ now' = now
      /\ \A q \in Request : Id(q)' = Id(q) /\ (q # r => at'[q] = at[q] /\ act'[q] = act[q])
  BY <1>1, StepType
<1>3. /\ BucketOf(c) = Mine(r) /\ c \in DOMAIN buckets /\ DOMAIN at = Request
      /\ now \in Nat /\ u \in Int /\ Level(BucketOf(c)) = now - u
      /\ Level(BucketOf(c)) \in Int /\ Level(BucketOf(c)) <= Full
  BY <1>1, BucketFacts
<1>4. at'[r] = "reserved"
  BY <1>3 DEF Reserve, Go
<1>5. now + Wait(Mine(r)) = a /\ a \in Nat /\ a >= now
  BY <1>3 DEF Wait, Left, Most
<1>6. BucketOf(c)' = Taken(Mine(r)) /\ act' = [act EXCEPT ![r] = a]
  BY <1>3, <1>5 DEF Reserve, Store, BucketOf
<1>7. BucketOf(c)'.event = a /\ Dry(c)' = u + Cost
  <2>1. BucketOf(c)'.event = a
    BY <1>5, <1>6 DEF Taken
  <2>2. BucketOf(c)'.level = (now - u) - Cost /\ BucketOf(c)'.last = now
    BY <1>3, <1>6 DEF Taken, Left
  <2>3. Level(BucketOf(c))' = (now - u) - Cost
    BY <1>2, <1>3, <2>2, FullType DEF Level, Least
  <2> QED
    BY <1>2, <1>3, <2>1, <2>3 DEF Dry
<1>8. Admitted(c)' = Admitted(c)
  BY <1>1, <1>2, <1>4 DEF Admitted
<1>9. Outstanding(c)' = R \union {r} /\ r \notin R
  <2>1. act'[r] = a
    BY <1>6 DEF RateShape
  <2> HIDE DEF a
  <2> QED
    BY <1>1, <1>2, <1>4, <1>5, <2>1 DEF Outstanding
<1>10. Balanced(n, R \union {r}, act', u + Cost, a, now)
  <2>1. /\ n \in Nat /\ R \in SUBSET Request /\ IsFiniteSet(R) /\ act \in [Request -> Nat]
        /\ e \in Nat /\ Balanced(n, R, act, u, e, now)
    BY <1>1, BucketFacts
  <2>2. r \in Request \ R
    BY <1>9
  <2> HIDE DEF n, R, u, e
  <2>3. Balanced(n, R \union {r}, [act EXCEPT ![r] = Most(now, u + Cost)],
                 u + Cost, Most(now, u + Cost), now)
    BY <1>3, <2>1, <2>2, ReserveBalanced
  <2> QED
    BY <1>6, <2>3
<1>11. Cost * n <= Full + now
  BY <1>1, BucketFacts
<1> HIDE DEF n, R, u, a
<1> QED
  BY <1>2, <1>7, <1>8, <1>9, <1>10, <1>11 DEF CallerBalanced, n

LEMMA CancelBalances ==
  ASSUME IInv, RateShape, NEW r \in Request, Cancel(r), NEW c \in Caller, c = Id(r), CallerBalanced(c)
  PROVE  CallerBalanced(c)'
<1> USE RateAssumption
<1> DEFINE n == Cardinality(Admitted(c))
           R == Outstanding(c)
           u == Dry(c)
           e == BucketOf(c).event
           a == act[r]
           back == Cost - (e - a)
<1>1. RateStep(r) /\ at[r] = "reserved"
  BY DEF RateStep, Cancel
<1>2. /\ RateShape' /\ now' = now /\ act' = act
      /\ \A q \in Request : Id(q)' = Id(q) /\ (q # r => at'[q] = at[q])
  BY <1>1, StepType DEF Cancel
<1>3. /\ BucketOf(c) = Mine(r) /\ c \in DOMAIN buckets /\ DOMAIN at = Request
      /\ now \in Nat /\ u \in Int /\ Level(BucketOf(c)) = now - u /\ now - Full <= u
      /\ Level(BucketOf(c)) \in Int /\ Level(BucketOf(c)) <= Full /\ e \in Nat /\ a \in Nat
  BY <1>1, BucketFacts
<1>4. at'[r] = "limited" /\ Restored(r) = back
  BY <1>3 DEF Cancel, Go, Restored
<1>5. Admitted(c)' = Admitted(c)
  BY <1>1, <1>2, <1>4 DEF Admitted
<1>6. Outstanding(c)' = R \ {r}
  BY <1>1, <1>2, <1>4 DEF Outstanding
<1>7. /\ n \in Nat /\ R \in SUBSET Request /\ IsFiniteSet(R) /\ act \in [Request -> Nat]
      /\ Balanced(n, R, act, u, e, now) /\ Cost * n <= Full + now
  BY <1>1, BucketFacts
<1>8. CASE a < now \/ back <= 0
  <2>1. BucketOf(c)' = BucketOf(c)
    BY <1>3, <1>4, <1>8 DEF Cancel, Store, BucketOf
  <2>2. Dry(c)' = u
    BY <1>2, <2>1 DEF Dry, Level
  <2>3. Balanced(n, R \ {r}, act, u, e, now)
    <3>1. R \ {r} \in SUBSET R
      OBVIOUS
    <3> HIDE DEF n, R, u, e
    <3> QED
      BY <1>3, <1>7, <3>1, DropBalanced
  <2> HIDE DEF R, u
  <2> QED
    BY <1>2, <1>5, <1>6, <1>7, <2>1, <2>2, <2>3 DEF CallerBalanced
<1>9. CASE a >= now /\ back > 0
  <2> DEFINE f == IF a = e /\ a - Cost >= now THEN a - Cost ELSE e
             v == Most(now - Full, u - back)
  <2>1. BucketOf(c)' = [level |-> Least(Full, Level(BucketOf(c)) + back), last |-> now, event |-> f]
    BY <1>3, <1>4, <1>9 DEF Cancel, Store, BucketOf
  <2>2. Dry(c)' = v
    <3>1. Level(BucketOf(c))' = Least(Full, (now - u) + back)
      BY <1>2, <1>3, <1>9, <2>1, FullType DEF Level, Least
    <3> QED
      BY <1>2, <1>3, <1>9, <3>1, FullType DEF Dry, Least, Most
  <2>3. r \in R
    BY <1>1, <1>9 DEF Outstanding
  <2>4. f \in Nat /\ (f = e \/ (a = e /\ f = e - Cost /\ f >= now)) /\ back \in Nat \ {0}
    BY <1>3, <1>9
  <2>5. back = Cost - (e - act[r]) /\ act[r] >= now /\ a = act[r]
    BY <1>9
  <2> HIDE DEF n, R, u, e, f, back
  <2>6. Balanced(n, R \ {r}, act, v, f, now)
    BY <1>3, <1>7, <2>3, <2>4, <2>5, CancelBalanced
  <2>7. BucketOf(c)'.event = f
    BY <2>1
  <2> HIDE DEF v
  <2> QED
    BY <1>2, <1>5, <1>6, <1>7, <2>2, <2>6, <2>7 DEF CallerBalanced, n
<1> QED
  BY <1>3, <1>8, <1>9

\* Whatever the limiter does for one request, all stay balanced.
LEMMA RateStepBalances ==
  ASSUME IInv, RateShape, NEW r \in Request, RateStep(r)
  PROVE  RateShape' /\ \A c \in Caller : CallerBalanced(c) => CallerBalanced(c)'
<1>1. RateShape'
  BY StepType
<1>2. ASSUME NEW c \in Caller, c # Id(r), CallerBalanced(c) PROVE CallerBalanced(c)'
  BY <1>2, OthersBalanced
<1>3. ASSUME NEW c \in Caller, c = Id(r), CallerBalanced(c) PROVE CallerBalanced(c)'
  <2>1. CASE LimiterFor(r) \/ TurnAway(r)
    BY <1>3, <2>1, LimiterForBalances
  <2>2. CASE Admit(r)
    BY <1>3, <2>2, AdmitBalances
  <2>3. CASE Reserve(r)
    BY <1>3, <2>3, ReserveBalances
  <2>4. CASE Cancel(r)
    BY <1>3, <2>4, CancelBalances
  <2> QED
    BY <2>1, <2>2, <2>3, <2>4 DEF RateStep
<1> QED
  BY <1>1, <1>2, <1>3

-----------------------------------------------------------------------------
(* The steps of the server *)

LEMMA StartRate ==
  ASSUME Start
  PROVE  RateInv'
<1>1. Untold'
  BY DEF Start, Forget, Untold
<1> QED
  BY <1>1, NewProcessBalances

\* A process that goes on does not touch what the limiter knows, and once the listener is
\* up its settings stay.
LEMMA FrozenRate ==
  ASSUME RateInv, UNCHANGED rateVars,
         stage \in Early \/ (stage' \notin Early /\ UNCHANGED <<command, settings>>)
  PROVE  RateInv'
<1>1. RateShape'
  BY DEF RateInv, RateShape, Begun, rateVars
<1>2. ASSUME NEW c \in Caller, Limited' \/ stage' \in Early PROVE CallerBalanced(c)'
  <2>1. Limited \/ stage \in Early
    BY <1>2 DEF Limited
  <2>2. CallerBalanced(c)
    BY <2>1 DEF RateInv
  <2>3. BucketOf(c)' = BucketOf(c) /\ Admitted(c)' = Admitted(c) /\ Outstanding(c)' = Outstanding(c)
    BY DEF BucketOf, Admitted, Outstanding, Id, rateVars
  <2>4. RateShape /\ now' = now /\ act' = act
    BY DEF RateInv, rateVars
  <2> QED
    BY <1>1, <2>2, <2>3, <2>4, SameBalanced
<1> QED
  BY <1>1, <1>2 DEF RateInv

LEMMA ProcessRate ==
  ASSUME IInv, RateInv, Process
  PROVE  RateInv'
<1>1. CASE Start
  BY <1>1, StartRate
<1>2. CASE BuildBackends
  BY <1>2, FrozenRate DEF BuildBackends, Early
<1>3. CASE OpenAudit \/ NewDispatcher \/ NewProvider \/ Listen
  BY <1>3, FrozenRate DEF OpenAudit, NewDispatcher, NewProvider, Listen, Early
<1>4. CASE RunTool \/ RunFault \/ RunPs
  BY <1>4, FrozenRate DEF RunTool, RunFault, RunPs, Early
<1>5. CASE Signal \/ Close
  BY <1>5, FrozenRate DEF Signal, Close, Early
<1> QED
  BY <1>1, <1>2, <1>3, <1>4, <1>5 DEF Process

\* A step that leaves the process alone is judged by the callers it keeps balanced.
LEMMA BalancedRate ==
  ASSUME RateInv, UNCHANGED processVars, RateShape',
         \A c \in Caller : CallerBalanced(c) => CallerBalanced(c)'
  PROVE  RateInv'
BY DEF RateInv, Limited, processVars

\* Where there is a limiter no request gets past it on arrival.
LEMMA ArriveRate ==
  ASSUME IInv, RateInv, NEW r \in Request, NEW q \in Queries(command.config), Arrive(r, q)
  PROVE  RateInv'
<1>1. /\ stage = "serving" /\ at[r] = "new" /\ DOMAIN at = Request /\ DOMAIN caller = Request
      /\ UNCHANGED processVars
      /\ now' = now /\ buckets' = buckets /\ act' = act
  BY ArriveCases DEF IInv, Shape
<1>2. /\ \A s \in Request \ {r} : at'[s] = at[s] /\ caller'[s] = caller[s]
      /\ at'[r] \in {"done", "limiter", "admitted"}
      /\ at'[r] = "admitted" => ~ settings.limited
  <2>1. CASE at' = [at EXCEPT ![r] = "done"] /\ UNCHANGED caller
    BY <1>1, <2>1
  <2>2. CASE /\ \E who : caller' = [caller EXCEPT ![r] = who]
             /\ at' = [at EXCEPT ![r] = IF settings.limited THEN "limiter" ELSE "admitted"]
    BY <1>1, <2>2
  <2> QED
    BY <2>1, <2>2, ArriveCases
<1>3. RateShape'
  <2>1. Begun' \subseteq Begun \union {r}
    BY <1>2 DEF Begun
  <2>2. IsFiniteSet(Begun \union {r})
    BY FS_AddElement DEF RateInv, RateShape
  <2>3. IsFiniteSet(Begun')
    BY <2>1, <2>2, FS_Subset
  <2> QED
    BY <1>1, <2>3 DEF RateInv, RateShape
<1>4. ASSUME NEW c \in Caller, Limited' PROVE CallerBalanced(c)'
  <2>1. Limited /\ settings.limited
    BY <1>1, <1>4 DEF Limited, processVars
  <2>2. CallerBalanced(c) /\ RateShape
    BY <2>1 DEF RateInv
  <2>3. BucketOf(c)' = BucketOf(c)
    BY <1>1 DEF BucketOf
  <2>4. \A s \in Request \ {r} : Id(s)' = Id(s)
    BY <1>2 DEF Id
  <2>5. Admitted(c)' = Admitted(c)
    BY <1>1, <1>2, <2>1, <2>4 DEF Admitted
  <2>6. Outstanding(c)' = Outstanding(c)
    BY <1>1, <1>2, <2>4 DEF Outstanding
  <2> QED
    BY <1>1, <1>3, <2>2, <2>3, <2>5, <2>6, SameBalanced
<1>5. stage' \notin Early
  BY <1>1 DEF processVars, Early
<1> QED
  BY <1>3, <1>4, <1>5 DEF RateInv

LEMMA LimitRate ==
  ASSUME IInv, RateInv, NEW r \in Request, Limit(r)
  PROVE  RateInv'
<1>1. RateShape /\ RateStep(r) /\ UNCHANGED processVars
  BY DEF RateInv, Limit
<1> QED
  BY <1>1, RateStepBalances, BalancedRate

LEMMA ServeRate ==
  ASSUME IInv, RateInv, NEW r \in Request, Serve(r)
  PROVE  RateInv'
<1>1. /\ RateShape /\ DOMAIN at = Request /\ at[r] = "admitted" /\ at' = [at EXCEPT ![r] = "served"]
      /\ UNCHANGED <<processVars, now, buckets, caller, act>>
  BY DEF RateInv, IInv, Shape, Serve, Go
<1>2. RateShape'
  <2>1. Begun' \subseteq Begun
    BY <1>1 DEF Begun
  <2>2. IsFiniteSet(Begun')
    BY <1>1, <2>1, FS_Subset DEF RateShape
  <2> QED
    BY <1>1, <2>2 DEF RateShape
<1>3. ASSUME NEW c \in Caller, CallerBalanced(c) PROVE CallerBalanced(c)'
  <2>1. BucketOf(c)' = BucketOf(c)
    BY <1>1 DEF BucketOf
  <2>2. \A s \in Request : Id(s)' = Id(s)
    BY <1>1 DEF Id
  <2>3. Admitted(c)' = Admitted(c) /\ Outstanding(c)' = Outstanding(c)
    BY <1>1, <2>2 DEF Admitted, Outstanding
  <2> QED
    BY <1>1, <1>2, <1>3, <2>1, <2>3, SameBalanced
<1> QED
  BY <1>1, <1>2, <1>3, BalancedRate

LEMMA PassRate ==
  ASSUME RateInv, Pass
  PROVE  RateInv'
<1>1. RateShape /\ Tick /\ UNCHANGED processVars
  BY DEF RateInv, Pass
<1> QED
  BY <1>1, TickBalances, BalancedRate

-----------------------------------------------------------------------------
(* The theorem *)

\* However requests of a caller interleave with each other, with time, with the refusals
\* and with the reservations that retryAfterSeconds makes and cancels, the limiter lets no
\* more of them through than Burst and what the clock has put into the bucket.
THEOREM AdmissionsAreBounded == Spec => []AdmittedBounded
<1>1. Init => RateInv
  BY ForgetBalances DEF Init, RateInit, Untold
<1>2. IInv /\ RateInv /\ [Next]_vars => RateInv'
  <2> SUFFICES ASSUME IInv, RateInv, [Next]_vars PROVE RateInv'
    OBVIOUS
  <2>1. CASE Process
    BY <2>1, ProcessRate
  <2>2. CASE Pass
    BY <2>2, PassRate
  <2>3. ASSUME NEW r \in Request, NEW q \in Queries(command.config), Arrive(r, q) PROVE RateInv'
    BY <2>3, ArriveRate
  <2>4. ASSUME NEW r \in Request, Limit(r) \/ Serve(r) PROVE RateInv'
    BY <2>4, LimitRate, ServeRate
  <2>5. CASE UNCHANGED vars
    BY <2>5, FrozenRate DEF vars, processVars
  <2> QED
    BY <2>1, <2>2, <2>3, <2>4, <2>5 DEF Next
<1>3. RateInv => AdmittedBounded
  BY DEF RateInv, Limited, CallerBalanced, AdmittedBounded
<1> QED
  BY <1>1, <1>2, <1>3, Invariant, PTL DEF Spec
=============================================================================
