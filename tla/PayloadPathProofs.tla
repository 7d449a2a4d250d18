------------------------- MODULE PayloadPathProofs -------------------------
(***************************************************************************)
(* What holds of the names and the orders of PayloadPath, whatever the     *)
(* bytes: a set has its elements in order, a joined path its components    *)
(* apart, and host paths are strictly ordered.                             *)
(*                                                                         *)
(* Inductions over numbers go through the least number of a set, so that   *)
(* no theorem used here takes an operator as a parameter.                  *)
(***************************************************************************)
EXTENDS PayloadPath, SequenceTheorems, FiniteSetTheorems, WellFoundedInduction, TLAPS

-----------------------------------------------------------------------------
(* Numbers.                                                                *)

LEMMA LeastNumber ==
    ASSUME NEW T \in SUBSET Nat, T # {}
    PROVE  \E n \in T : \A k \in T : n <= k
<1>1. PICK n \in T : \A k \in T : ~ (<<k, n>> \in OpToRel(<, Nat))
  BY WFMin, NatLessThanWellFounded
<1>2. \A k \in T : ~ (k < n)
  BY <1>1 DEF OpToRel
<1> QED BY <1>2

\* A set that holds 0 and the successors of its numbers below n holds them all.
LEMMA UpTo ==
    ASSUME NEW n \in Nat, NEW T, 0 \in T, \A k \in 0 .. n - 1 : k \in T => k + 1 \in T
    PROVE  n \in T /\ 0 .. n \subseteq T
<1> SUFFICES ASSUME (0 .. n) \ T # {} PROVE FALSE
  <2>1. n \in 0 .. n
    OBVIOUS
  <2> QED BY <2>1
<1>1. PICK m \in (0 .. n) \ T : \A k \in (0 .. n) \ T : m <= k
  <2>1. (0 .. n) \ T \in SUBSET Nat
    OBVIOUS
  <2> QED BY <2>1, LeastNumber
<1>2. m # 0 /\ m - 1 \in 0 .. n - 1 /\ m - 1 \in T
  BY <1>1
<1> QED BY <1>1, <1>2

LEMMA GreatestNumber ==
    ASSUME NEW n \in Nat, NEW T \in SUBSET (0 .. n), T # {}
    PROVE  \E m \in T : \A k \in T : k <= m
<1>1. PICK u \in {u \in Nat : \A k \in T : k <= u} :
            \A v \in {v \in Nat : \A k \in T : k <= v} : u <= v
  <2>1. n \in {u \in Nat : \A k \in T : k <= u}
    OBVIOUS
  <2> QED BY <2>1, LeastNumber
<1>2. CASE u \in T
  BY <1>1, <1>2
<1>3. CASE u \notin T
  <2>1. \A k \in T : k <= u /\ k # u /\ k \in Nat
    BY <1>1, <1>3
  <2>2. u # 0
    <3>1. PICK k \in T : TRUE
      OBVIOUS
    <3> QED BY <2>1, <3>1
  <2>3. u - 1 \in {v \in Nat : \A k \in T : k <= v}
    BY <2>1, <2>2
  <2>4. u <= u - 1
    BY <1>1, <2>3
  <2> QED BY <2>2, <2>4
<1> QED BY <1>2, <1>3

-----------------------------------------------------------------------------
(* Ranks: a set in a strict order.                                         *)

StrictOrder(R, S) ==
    /\ \A x \in S : <<x, x>> \notin R
    /\ \A x, y, z \in S : <<x, y>> \in R /\ <<y, z>> \in R => <<x, z>> \in R
    /\ \A x, y \in S : x = y \/ <<x, y>> \in R \/ <<y, x>> \in R

Below(R, S, x) == {y \in S : <<y, x>> \in R}

LEMMA RanksGrow ==
    ASSUME NEW S, IsFiniteSet(S), NEW R, StrictOrder(R, S), NEW x \in S
    PROVE  /\ Cardinality(Below(R, S, x)) \in 0 .. Cardinality(S) - 1
           /\ \A z \in S : <<x, z>> \in R =>
                 Cardinality(Below(R, S, x)) < Cardinality(Below(R, S, z))
<1>1. ASSUME NEW A, NEW B, IsFiniteSet(B), A \subseteq B, NEW y \in B, y \notin A
      PROVE  Cardinality(A) \in Nat /\ Cardinality(B) \in Nat /\ Cardinality(A) < Cardinality(B)
  <2>1. /\ IsFiniteSet(A) /\ Cardinality(A) <= Cardinality(B)
        /\ Cardinality(A) = Cardinality(B) => A = B
    BY <1>1, FS_Subset
  <2>2. Cardinality(A) \in Nat /\ Cardinality(B) \in Nat
    BY <1>1, <2>1, FS_CardinalityType
  <2> QED BY <1>1, <2>1, <2>2
<1>2. Below(R, S, x) \subseteq S /\ x \notin Below(R, S, x)
  BY DEF Below, StrictOrder
<1>3. Cardinality(Below(R, S, x)) \in 0 .. Cardinality(S) - 1
  <2>1. /\ Cardinality(Below(R, S, x)) \in Nat /\ Cardinality(S) \in Nat
        /\ Cardinality(Below(R, S, x)) < Cardinality(S)
    BY <1>1, <1>2
  <2> QED BY <2>1
<1>4. ASSUME NEW z \in S, <<x, z>> \in R
      PROVE  Cardinality(Below(R, S, x)) < Cardinality(Below(R, S, z))
  <2>1. Below(R, S, x) \subseteq Below(R, S, z) /\ x \in Below(R, S, z)
    BY <1>4 DEF Below, StrictOrder
  <2>2. IsFiniteSet(Below(R, S, z))
    BY FS_Subset DEF Below
  <2> QED BY <1>1, <1>2, <2>1, <2>2
<1> QED BY <1>3, <1>4

\* Each place of a finite set in a strict order is that of one of its elements.
\* The ranks are 0, 1, ..., each that of one element.
Ranked(R, S) ==
    /\ Cardinality(S) \in Nat
    /\ \A x, z \in S : Cardinality(Below(R, S, x)) = Cardinality(Below(R, S, z)) => x = z
    /\ \A n \in 1 .. Cardinality(S) : \E x \in S : Cardinality(Below(R, S, x)) = n - 1

LEMMA RanksFill ==
    ASSUME NEW S, IsFiniteSet(S), NEW R, StrictOrder(R, S)
    PROVE  Ranked(R, S)
<1> DEFINE rank == [x \in S |-> Cardinality(Below(R, S, x))]
           places == {rank[x] : x \in S}
           N == Cardinality(S)
<1>1. N \in Nat
  BY FS_CardinalityType
<1>2. \A x \in S : rank[x] \in 0 .. N - 1
  BY RanksGrow
<1>3. ASSUME NEW x \in S, NEW z \in S, rank[x] = rank[z]
      PROVE  x = z
  <2>1. ~ (<<x, z>> \in R) /\ ~ (<<z, x>> \in R)
    BY <1>2, <1>3, RanksGrow
  <2> QED BY <2>1 DEF StrictOrder
<1>4. IsFiniteSet(0 .. N - 1) /\ Cardinality(0 .. N - 1) = N
  BY <1>1, FS_Interval
<1>5. IsFiniteSet(places) /\ Cardinality(places) = N
  <2>1. rank \in Bijection(S, places)
    BY <1>3 DEF Bijection, Injection, Surjection, IsInjective
  <2>2. ExistsBijection(S, places)
    BY <2>1 DEF ExistsBijection
  <2> QED BY <2>2, FS_Bijection
<1>6. places = 0 .. N - 1
  <2>1. places \in SUBSET (0 .. N - 1)
    BY <1>2
  <2> QED BY <1>4, <1>5, <2>1, FS_Subset
<1>7. ASSUME NEW n \in 1 .. N PROVE \E x \in S : rank[x] = n - 1
  <2>1. n - 1 \in 0 .. N - 1
    BY <1>1
  <2> QED BY <2>1, <1>6
<1> QED BY <1>1, <1>3, <1>7 DEF Ranked

-----------------------------------------------------------------------------
(* The numbers of a set in order: Nth and Picked.                          *)

Place(S, k) == Cardinality({j \in S : j < k})

LEMMA NthFacts ==
    ASSUME NEW S \in SUBSET Nat, IsFiniteSet(S)
    PROVE  /\ Cardinality(S) \in Nat
           /\ \A n \in 1 .. Cardinality(S) : Nth(S, n) \in S
           /\ \A m, n \in 1 .. Cardinality(S) : m < n => Nth(S, m) < Nth(S, n)
           /\ \A k \in S : \E n \in 1 .. Cardinality(S) : Nth(S, n) = k
           /\ \A k \in S, n \in 1 .. Cardinality(S) : Place(S, k) = n - 1 => Nth(S, n) = k
<1> DEFINE R == {r \in Nat \X Nat : r[1] < r[2]}
           N == Cardinality(S)
<1>1. \A x, y \in Nat : <<x, y>> \in R <=> x < y
  OBVIOUS
<1>2. StrictOrder(R, S)
  BY <1>1 DEF StrictOrder
<1>3. ASSUME NEW k \in S PROVE Cardinality(Below(R, S, k)) = Place(S, k)
  <2>1. Below(R, S, k) = {j \in S : j < k}
    BY <1>1 DEF Below
  <2> QED BY <2>1 DEF Place
<1> HIDE DEF R, N
<1>4. /\ N \in Nat
      /\ \A x, z \in S : Place(S, x) = Place(S, z) => x = z
      /\ \A n \in 1 .. N : \E x \in S : Place(S, x) = n - 1
  <2>1. Ranked(R, S)
    BY <1>2, RanksFill
  <2> QED BY <1>3, <2>1 DEF N, Ranked
<1>5. \A x \in S : /\ Place(S, x) \in 0 .. N - 1
                   /\ \A z \in S : x < z => Place(S, x) < Place(S, z)
  <2>1. \A x \in S :
           /\ Cardinality(Below(R, S, x)) \in 0 .. N - 1
           /\ \A z \in S : <<x, z>> \in R =>
                 Cardinality(Below(R, S, x)) < Cardinality(Below(R, S, z))
    BY <1>2, RanksGrow DEF N
  <2> QED BY <1>1, <1>3, <2>1
<1>6. ASSUME NEW n \in 1 .. N
      PROVE  Nth(S, n) \in S /\ Place(S, Nth(S, n)) = n - 1
  <2>1. Nth(S, n) = CHOOSE k \in S : Place(S, k) = n - 1
    BY DEF Nth, Place
  <2> QED BY <1>4, <2>1
<1>7. ASSUME NEW m \in 1 .. N, NEW n \in 1 .. N, m < n
      PROVE  Nth(S, m) < Nth(S, n)
  <2>1. ASSUME NEW x \in S, NEW z \in S, Place(S, x) = m - 1, Place(S, z) = n - 1
        PROVE  x < z
    <3>1. x # z
      BY <2>1, <1>4, <1>7
    <3>2. ~ (z < x)
      BY <2>1, <1>4, <1>5, <1>7
    <3> QED BY <3>1, <3>2
  <2> QED BY <1>6, <2>1
<1>8. ASSUME NEW k \in S
      PROVE  \A n \in 1 .. N : Place(S, k) = n - 1 => Nth(S, n) = k
  BY <1>4, <1>6
<1>9. ASSUME NEW k \in S
      PROVE  \E n \in 1 .. N : Nth(S, n) = k
  <2>1. Place(S, k) + 1 \in 1 .. N /\ Place(S, k) = (Place(S, k) + 1) - 1
    BY <1>4, <1>5
  <2> QED BY <1>8, <2>1
<1> QED BY <1>4, <1>6, <1>7, <1>8, <1>9 DEF N

\* An enumeration of a set upwards is the enumeration by Nth.
LEMMA NthIs ==
    ASSUME NEW S \in SUBSET Nat, NEW N \in Nat, NEW f \in [1 .. N -> S],
           \A m, n \in 1 .. N : m < n => f[m] < f[n],
           \A k \in S : \E n \in 1 .. N : f[n] = k
    PROVE  /\ IsFiniteSet(S) /\ Cardinality(S) = N
           /\ \A n \in 1 .. N : Nth(S, n) = f[n]
<1>1. ASSUME NEW m \in 1 .. N, NEW n \in 1 .. N, f[m] = f[n] PROVE m = n
  <2>1. f[m] \in Nat /\ f[n] \in Nat
    OBVIOUS
  <2>2. ~ (f[m] < f[n]) /\ ~ (f[n] < f[m])
    BY <1>1, <2>1
  <2>3. ~ (m < n) /\ ~ (n < m)
    BY <2>2
  <2> QED BY <2>3
<1>2. IsFiniteSet(S) /\ Cardinality(S) = N
  <2>1. f \in Bijection(1 .. N, S)
    BY <1>1 DEF Bijection, Injection, Surjection, IsInjective
  <2>2. ExistsBijection(1 .. N, S)
    BY <2>1 DEF ExistsBijection
  <2>3. IsFiniteSet(1 .. N) /\ Cardinality(1 .. N) = N
    BY FS_Interval
  <2> QED BY <2>2, <2>3, FS_Bijection
<1>3. ASSUME NEW n \in 1 .. N PROVE Nth(S, n) = f[n]
  <2> DEFINE T == {j \in S : j < f[n]}
             g == [m \in 1 .. n - 1 |-> f[m]]
  <2>1. ASSUME NEW m \in 1 .. n - 1 PROVE g[m] \in T
    BY <2>1
  <2>2. ASSUME NEW j \in T PROVE \E m \in 1 .. n - 1 : g[m] = j
    <3>1. PICK m \in 1 .. N : f[m] = j
      OBVIOUS
    <3>2. f[m] \in Nat /\ f[n] \in Nat /\ f[m] < f[n]
      BY <3>1, <2>2
    <3>3. m < n
      BY <3>2
    <3> QED BY <3>1, <3>3
  <2>3. g \in Bijection(1 .. n - 1, T)
    <3>1. g \in [1 .. n - 1 -> T]
      BY <2>1
    <3>2. \A m, k \in 1 .. n - 1 : g[m] = g[k] => m = k
      BY <1>1
    <3> HIDE DEF g, T
    <3> QED BY <2>2, <3>1, <3>2 DEF Bijection, Injection, Surjection, IsInjective
  <2>4. ExistsBijection(1 .. n - 1, T)
    BY <2>3 DEF ExistsBijection
  <2>5. IsFiniteSet(1 .. n - 1) /\ Cardinality(1 .. n - 1) = n - 1
    BY FS_Interval
  <2>6. Cardinality(T) = n - 1
    BY <2>4, <2>5, FS_Bijection
  <2>7. f[n] \in S /\ Place(S, f[n]) = n - 1
    BY <2>6 DEF Place
  <2> QED BY <1>2, <2>7, NthFacts
<1> QED BY <1>2, <1>3

LEMMA PickedFacts ==
    ASSUME NEW A, NEW s \in Seq(A), NEW S \in SUBSET DOMAIN s
    PROVE  /\ Picked(s, S) \in Seq(A)
           /\ \A n \in DOMAIN Picked(s, S) : \E k \in S : Picked(s, S)[n] = s[k]
           /\ \A k \in S : \E n \in DOMAIN Picked(s, S) : Picked(s, S)[n] = s[k]
           /\ IsFiniteSet(S) /\ Len(Picked(s, S)) = Cardinality(S) /\ S \in SUBSET Nat
<1>1. S \in SUBSET Nat /\ IsFiniteSet(S)
  BY FS_Interval, FS_Subset
<1> DEFINE N == Cardinality(S)
<1>2. /\ N \in Nat
      /\ \A n \in 1 .. N : Nth(S, n) \in S
      /\ \A k \in S : \E n \in 1 .. N : Nth(S, n) = k
  BY <1>1, NthFacts
<1>3. Picked(s, S) = [n \in 1 .. N |-> s[Nth(S, n)]]
  BY DEF Picked
<1>4. \A k \in S : s[k] \in A
  OBVIOUS
<1> HIDE DEF N
<1>5. /\ Picked(s, S) \in Seq(A)
      /\ DOMAIN Picked(s, S) = 1 .. N /\ Len(Picked(s, S)) = N
      /\ \A n \in 1 .. N : Picked(s, S)[n] = s[Nth(S, n)]
  BY <1>2, <1>3, <1>4
<1> QED BY <1>1, <1>2, <1>5 DEF N

LEMMA PickedAll ==
    ASSUME NEW A, NEW s \in Seq(A)
    PROVE  Picked(s, DOMAIN s) = s
<1> DEFINE f == [n \in 1 .. Len(s) |-> n]
<1>1. /\ DOMAIN s = 1 .. Len(s) /\ Len(s) \in Nat
      /\ f \in [1 .. Len(s) -> DOMAIN s]
  OBVIOUS
<1>2. /\ Cardinality(DOMAIN s) = Len(s)
      /\ \A n \in 1 .. Len(s) : Nth(DOMAIN s, n) = n
  <2>1. /\ DOMAIN s \in SUBSET Nat
        /\ \A m, n \in 1 .. Len(s) : m < n => f[m] < f[n]
        /\ \A k \in DOMAIN s : \E n \in 1 .. Len(s) : f[n] = k
    BY <1>1
  <2>2. \A n \in 1 .. Len(s) : f[n] = n
    OBVIOUS
  <2> HIDE DEF f
  <2>3. /\ Cardinality(DOMAIN s) = Len(s)
        /\ \A n \in 1 .. Len(s) : Nth(DOMAIN s, n) = f[n]
    BY <1>1, <2>1, NthIs
  <2> QED BY <2>2, <2>3
<1>3. Picked(s, DOMAIN s) = [n \in 1 .. Len(s) |-> s[n]]
  BY <1>2 DEF Picked
<1> QED BY <1>3

-----------------------------------------------------------------------------
(* Host paths are in a strict order, and Sorted is their enumeration.      *)

LexOn(R, s, t) ==
    \E n \in DOMAIN t :
        /\ \A k \in 1 .. n - 1 : k \in DOMAIN s /\ s[k] = t[k]
        /\ n \in DOMAIN s => <<s[n], t[n]>> \in R

LEMMA LexIsStrict ==
    ASSUME NEW A, NEW R, StrictOrder(R, A)
    PROVE  /\ \A s \in Seq(A) : ~ LexOn(R, s, s)
           /\ \A s, t, u \in Seq(A) : LexOn(R, s, t) /\ LexOn(R, t, u) => LexOn(R, s, u)
           /\ \A s, t \in Seq(A) : s = t \/ LexOn(R, s, t) \/ LexOn(R, t, s)
<1>1. ASSUME NEW s \in Seq(A) PROVE ~ LexOn(R, s, s)
  <2>1. \A n \in DOMAIN s : <<s[n], s[n]>> \notin R
    BY DEF StrictOrder
  <2> QED BY <2>1 DEF LexOn
<1>2. ASSUME NEW s \in Seq(A), NEW t \in Seq(A), NEW u \in Seq(A),
             LexOn(R, s, t), LexOn(R, t, u)
      PROVE  LexOn(R, s, u)
  <2>1. PICK n \in DOMAIN t :
          /\ \A k \in 1 .. n - 1 : k \in DOMAIN s /\ s[k] = t[k]
          /\ n \in DOMAIN s => <<s[n], t[n]>> \in R
    BY <1>2 DEF LexOn
  <2>2. PICK m \in DOMAIN u :
          /\ \A k \in 1 .. m - 1 : k \in DOMAIN t /\ t[k] = u[k]
          /\ m \in DOMAIN t => <<t[m], u[m]>> \in R
    BY <1>2 DEF LexOn
  <2>3. n \in Nat /\ m \in Nat /\ DOMAIN s = 1 .. Len(s) /\ Len(s) \in Nat
        /\ DOMAIN t = 1 .. Len(t) /\ Len(t) \in Nat
        /\ DOMAIN u = 1 .. Len(u) /\ Len(u) \in Nat
    BY <2>1, <2>2
  <2>4. CASE n < m
    <3>1. n \in DOMAIN u /\ t[n] = u[n]
      BY <2>1, <2>2, <2>3, <2>4
    <3>2. \A k \in 1 .. n - 1 : k \in DOMAIN s /\ s[k] = u[k]
      BY <2>1, <2>2, <2>3, <2>4
    <3> QED BY <2>1, <3>1, <3>2 DEF LexOn
  <2>5. CASE m < n
    <3>1. \A k \in 1 .. m - 1 : k \in DOMAIN s /\ s[k] = u[k]
      BY <2>1, <2>2, <2>3, <2>5
    <3>2. m \in DOMAIN s /\ s[m] = t[m] /\ m \in DOMAIN t
      BY <2>1, <2>2, <2>3, <2>5
    <3> QED BY <2>2, <3>1, <3>2 DEF LexOn
  <2>6. CASE m = n
    <3>1. \A k \in 1 .. m - 1 : k \in DOMAIN s /\ s[k] = u[k]
      BY <2>1, <2>2, <2>3, <2>6
    <3>2. m \in DOMAIN s => <<s[m], u[m]>> \in R
      <4> SUFFICES ASSUME m \in DOMAIN s PROVE <<s[m], u[m]>> \in R
        OBVIOUS
      <4>1. <<s[m], t[m]>> \in R /\ <<t[m], u[m]>> \in R
        BY <2>1, <2>2, <2>6
      <4>2. s[m] \in A /\ t[m] \in A /\ u[m] \in A
        BY <2>1, <2>2, <2>6
      <4> QED BY <4>1, <4>2 DEF StrictOrder
    <3> QED BY <3>1, <3>2 DEF LexOn
  <2> QED BY <2>3, <2>4, <2>5, <2>6
<1>3. ASSUME NEW s \in Seq(A), NEW t \in Seq(A), s # t
      PROVE  LexOn(R, s, t) \/ LexOn(R, t, s)
  <2> DEFINE T == {k \in Nat \ {0} : ~ (k \in DOMAIN s /\ k \in DOMAIN t /\ s[k] = t[k])}
  <2>1. DOMAIN s = 1 .. Len(s) /\ Len(s) \in Nat /\ DOMAIN t = 1 .. Len(t) /\ Len(t) \in Nat
    OBVIOUS
  <2>2. Len(s) + 1 \in T
    BY <2>1
  <2>3. PICK n \in T : \A k \in T : n <= k
    <3>1. T \in SUBSET Nat /\ T # {}
      BY <2>2
    <3> QED BY <3>1, LeastNumber
  <2>4. \A k \in 1 .. n - 1 : k \in DOMAIN s /\ k \in DOMAIN t /\ s[k] = t[k]
    BY <2>3
  <2>5. CASE n \in DOMAIN s /\ n \in DOMAIN t
    <3>1. s[n] # t[n] /\ s[n] \in A /\ t[n] \in A
      BY <2>3, <2>5
    <3>2. <<s[n], t[n]>> \in R \/ <<t[n], s[n]>> \in R
      BY <3>1 DEF StrictOrder
    <3> QED BY <2>4, <2>5, <3>2 DEF LexOn
  <2>6. CASE n \in DOMAIN s /\ n \notin DOMAIN t
    BY <2>4, <2>6 DEF LexOn
  <2>7. CASE n \notin DOMAIN s /\ n \in DOMAIN t
    BY <2>4, <2>7 DEF LexOn
  <2>T. CASE n \notin DOMAIN s /\ n \notin DOMAIN t
    <3>1. n = Len(s) + 1 /\ n = Len(t) + 1
      BY <2>1, <2>3, <2>4, <2>T
    <3>2. s = t
      BY <2>1, <2>4, <3>1
    <3> QED BY <3>2, <1>3
  <2> QED BY <2>5, <2>6, <2>7, <2>T
<1> QED BY <1>1, <1>2, <1>3

LEMMA HostLessIsStrict ==
    /\ \A p \in Path : ~ HostLess(p, p)
    /\ \A p, q, r \in Path : HostLess(p, q) /\ HostLess(q, r) => HostLess(p, r)
    /\ \A p, q \in Path : p = q \/ HostLess(p, q) \/ HostLess(q, p)
<1> DEFINE R == {r \in Byte \X Byte : r[1] < r[2]}
           Q == {r \in Bytes \X Bytes : BytesLess(r[1], r[2])}
<1>1. \A a, b \in Byte : <<a, b>> \in R <=> a < b
  OBVIOUS
<1>2. StrictOrder(R, Byte)
  <2>1. Byte \subseteq Int
    BY DEF Byte
  <2> HIDE DEF R
  <2> QED BY <1>1, <2>1 DEF StrictOrder
<1>3. \A s, t \in Bytes : <<s, t>> \in Q <=> BytesLess(s, t)
  OBVIOUS
<1>4. \A s, t \in Bytes : BytesLess(s, t) <=> LexOn(R, s, t)
  <2> SUFFICES ASSUME NEW s \in Bytes, NEW t \in Bytes
               PROVE  BytesLess(s, t) <=> LexOn(R, s, t)
    OBVIOUS
  <2>1. \A n \in DOMAIN t : n \in DOMAIN s => (<<s[n], t[n]>> \in R <=> s[n] < t[n])
    BY <1>1 DEF Bytes
  <2> HIDE DEF R
  <2> QED BY <2>1 DEF BytesLess, LexLess, LexOn
<1> HIDE DEF R, Q
<1>5. StrictOrder(Q, Bytes)
  BY <1>2, <1>3, <1>4, LexIsStrict DEF StrictOrder, Bytes
<1>6. \A p, q \in Path : HostLess(p, q) <=> LexOn(Q, p, q)
  <2> SUFFICES ASSUME NEW p \in Path, NEW q \in Path
               PROVE  HostLess(p, q) <=> LexOn(Q, p, q)
    OBVIOUS
  <2>1. \A n \in DOMAIN q : n \in DOMAIN p => (<<p[n], q[n]>> \in Q <=> BytesLess(p[n], q[n]))
    BY <1>3 DEF Path
  <2> QED BY <2>1 DEF HostLess, LexLess, LexOn
<1> QED BY <1>5, <1>6, LexIsStrict DEF Path

\* Sorted(paths) has every path once.
LEMMA SortedFacts ==
    ASSUME NEW S \in SUBSET Path, IsFiniteSet(S)
    PROVE  /\ Sorted(S) \in Seq(S)
           /\ \A p \in S : \E n \in DOMAIN Sorted(S) : Sorted(S)[n] = p
           /\ \A m, n \in DOMAIN Sorted(S) : Sorted(S)[m] = Sorted(S)[n] => m = n
           /\ Len(Sorted(S)) = Cardinality(S)
<1> DEFINE R == {r \in S \X S : HostLess(r[1], r[2])}
           N == Cardinality(S)
           rank == [p \in S |-> Cardinality({q \in S : HostLess(q, p)})]
<1>1. \A p, q \in S : <<p, q>> \in R <=> HostLess(p, q)
  OBVIOUS
<1>2. StrictOrder(R, S)
  BY <1>1, HostLessIsStrict DEF StrictOrder
<1>3. ASSUME NEW p \in S PROVE Cardinality(Below(R, S, p)) = rank[p]
  <2>1. Below(R, S, p) = {q \in S : HostLess(q, p)}
    BY <1>1 DEF Below
  <2> QED BY <2>1
<1>4. Sorted(S) = [n \in 1 .. N |-> CHOOSE p \in S : rank[p] = n - 1]
  BY DEF Sorted
<1> HIDE DEF R, rank
<1>5. /\ N \in Nat
      /\ \A p, q \in S : rank[p] = rank[q] => p = q
  BY <1>2, <1>3, RanksFill DEF Ranked
<1>6. \A n \in 1 .. N : \E p \in S : rank[p] = n - 1
  <2>1. Ranked(R, S)
    BY <1>2, RanksFill
  <2> QED BY <1>3, <2>1 DEF Ranked
<1>7. \A p \in S : rank[p] \in 0 .. N - 1
  BY <1>2, <1>3, RanksGrow
<1> HIDE DEF N
<1>8. /\ DOMAIN Sorted(S) = 1 .. N /\ Sorted(S) \in Seq(S) /\ Len(Sorted(S)) = N
      /\ \A n \in 1 .. N : Sorted(S)[n] \in S /\ rank[Sorted(S)[n]] = n - 1
  BY <1>4, <1>5, <1>6
<1>9. ASSUME NEW p \in S PROVE \E n \in 1 .. N : Sorted(S)[n] = p
  <2>1. rank[p] + 1 \in 1 .. N /\ (rank[p] + 1) - 1 = rank[p]
    BY <1>5, <1>7
  <2> QED BY <1>5, <1>8, <2>1
<1>10. ASSUME NEW m \in 1 .. N, NEW n \in 1 .. N, Sorted(S)[m] = Sorted(S)[n]
       PROVE  m = n
  <2>1. m - 1 = n - 1
    BY <1>8, <1>10
  <2> QED BY <2>1, <1>5
<1> QED BY <1>8, <1>9, <1>10 DEF N

-----------------------------------------------------------------------------
(* Sequences laid end to end: FlattenSeq.                                  *)

Appended(g, seqs, n) ==
    /\ g[1] = seqs[1]
    /\ \A i \in 2 .. n : g[i] = g[i - 1] \o seqs[i]

LEMMA FlattenIsAppended ==
    ASSUME NEW A, NEW seqs \in Seq(Seq(A)), Len(seqs) > 0
    PROVE  \E g \in [1 .. Len(seqs) -> Seq(A)] :
              Appended(g, seqs, Len(seqs)) /\ FlattenSeq(seqs) = g[Len(seqs)]
<1>1. PICK N \in Nat : N = Len(seqs)
  OBVIOUS
<1>2. /\ N - 1 \in Nat /\ (N - 1) + 1 = N /\ N \in 1 .. N
      /\ \A i \in 1 .. N : seqs[i] \in Seq(A)
  BY <1>1
<1> DEFINE Body(g) == [i \in 1 .. N |-> IF i = 1 THEN seqs[i] ELSE g[i - 1] \o seqs[i]]
           T == {k \in Nat : \E h \in [1 .. k + 1 -> Seq(A)] : Appended(h, seqs, k + 1)}
<1>3. 0 \in T
  <2>1. [i \in 1 .. 1 |-> seqs[1]] \in [1 .. 0 + 1 -> Seq(A)]
    BY <1>2
  <2>2. Appended([i \in 1 .. 1 |-> seqs[1]], seqs, 0 + 1)
    BY DEF Appended
  <2> QED BY <2>1, <2>2
<1>4. ASSUME NEW k \in 0 .. (N - 1) - 1, k \in T PROVE k + 1 \in T
  <2>1. PICK h \in [1 .. k + 1 -> Seq(A)] : Appended(h, seqs, k + 1)
    BY <1>4
  <2>2. PICK m \in Nat : m = k + 1
    BY <1>2
  <2>3. m \in 1 .. m /\ m + 1 \in 1 .. N /\ m > 0
    BY <1>2, <2>2
  <2> DEFINE e == [i \in 1 .. m + 1 |-> IF i = m + 1 THEN h[m] \o seqs[i] ELSE h[i]]
  <2>4. e \in [1 .. m + 1 -> Seq(A)]
    <3>1. h[m] \o seqs[m + 1] \in Seq(A)
      BY <1>2, <2>2, <2>3, ConcatProperties
    <3>2. \A i \in 1 .. m + 1 : i = m + 1 \/ i \in 1 .. m
      BY <2>3
    <3> QED BY <2>2, <3>1, <3>2
  <2>5. Appended(e, seqs, m + 1)
    <3>1. e[1] = seqs[1]
      BY <2>1, <2>2, <2>3 DEF Appended
    <3>2. ASSUME NEW i \in 2 .. m + 1 PROVE e[i] = e[i - 1] \o seqs[i]
      <4>1. i \in 1 .. m + 1 /\ i - 1 \in 1 .. m + 1 /\ i - 1 # m + 1
        BY <2>3
      <4>2. CASE i = m + 1
        <5>1. i - 1 = m /\ m # m + 1 /\ m \in 1 .. m + 1
          BY <2>3, <4>2
        <5>2. e[i] = h[m] \o seqs[i] /\ e[m] = h[m]
          BY <4>1, <4>2, <5>1
        <5> QED BY <5>1, <5>2
      <4>3. CASE i # m + 1
        <5>1. i \in 2 .. k + 1
          BY <2>2, <4>3
        <5>2. e[i] = h[i] /\ e[i - 1] = h[i - 1]
          BY <4>1, <4>3
        <5> QED BY <2>1, <5>1, <5>2 DEF Appended
      <4> QED BY <4>2, <4>3
    <3> QED BY <3>1, <3>2 DEF Appended
  <2> HIDE DEF e
  <2>6. m \in T
    BY <2>4, <2>5
  <2> QED BY <2>2, <2>6
<1>5. PICK g \in [1 .. N -> Seq(A)] : Appended(g, seqs, N)
  <2> HIDE DEF T
  <2>1. N - 1 \in T
    BY <1>2, <1>3, <1>4, UpTo
  <2> QED BY <1>2, <2>1 DEF T
<1>6. g = Body(g)
  <2>1. g[1] = seqs[1] /\ \A i \in 1 .. N : i # 1 => g[i] = g[i - 1] \o seqs[i]
    <3>1. \A i \in 1 .. N : i # 1 => i \in 2 .. N
      OBVIOUS
    <3> QED BY <1>5, <3>1 DEF Appended
  <2> QED BY <2>1
<1> DEFINE f == CHOOSE f : f = Body(f)
<1>7. f = Body(f)
  BY <1>6
<1>8. FlattenSeq(seqs) = f[N]
  BY <1>1 DEF FlattenSeq
<1> HIDE DEF f
<1>9. f[N] = g[N]
  <2> DEFINE U == {k \in Nat : f[k + 1] = g[k + 1]}
  <2>1. 0 \in U
    BY <1>2, <1>6, <1>7
  <2>2. ASSUME NEW k \in 0 .. (N - 1) - 1, k \in U PROVE k + 1 \in U
    <3>1. PICK m \in Nat : m = k + 1
      BY <1>2
    <3>2. m + 1 \in 1 .. N /\ m + 1 # 1 /\ (m + 1) - 1 = m
      BY <1>2, <3>1
    <3>3. f[m + 1] = f[m] \o seqs[m + 1] /\ g[m + 1] = g[m] \o seqs[m + 1]
      BY <1>6, <1>7, <3>2
    <3>4. f[m] = g[m]
      BY <2>2, <3>1
    <3>5. m \in U
      BY <3>3, <3>4
    <3> QED BY <3>1, <3>5
  <2> HIDE DEF U
  <2>3. N - 1 \in U
    BY <1>2, <2>1, <2>2, UpTo
  <2> QED BY <1>2, <2>3 DEF U
<1> QED BY <1>1, <1>5, <1>8, <1>9

\* Where the elements of the sequences are: seqs[n] after the first ends[n - 1].
Laid(s, seqs, ends) ==
    /\ ends[0] = 0 /\ Len(s) = ends[Len(seqs)]
    /\ \A n \in 1 .. Len(seqs) :
          /\ ends[n] = ends[n - 1] + Len(seqs[n])
          /\ \A j \in 1 .. Len(seqs[n]) :
                ends[n - 1] + j \in 1 .. Len(s) /\ s[ends[n - 1] + j] = seqs[n][j]
    /\ \A i \in 1 .. Len(s) : \E n \in 1 .. Len(seqs) : \E j \in 1 .. Len(seqs[n]) :
          i = ends[n - 1] + j

LEMMA FlattenIsLaid ==
    ASSUME NEW A, NEW seqs \in Seq(Seq(A)), Len(seqs) > 0
    PROVE  /\ FlattenSeq(seqs) \in Seq(A)
           /\ \E ends \in [0 .. Len(seqs) -> Nat] : Laid(FlattenSeq(seqs), seqs, ends)
<1>1. PICK N \in Nat : N = Len(seqs)
  OBVIOUS
<1>2. N \in 1 .. N /\ \A i \in 1 .. N : seqs[i] \in Seq(A) /\ Len(seqs[i]) \in Nat
  BY <1>1
<1>3. PICK g \in [1 .. N -> Seq(A)] : Appended(g, seqs, N) /\ FlattenSeq(seqs) = g[N]
  BY <1>1, FlattenIsAppended
<1> DEFINE ends == [n \in 0 .. N |-> IF n = 0 THEN 0 ELSE Len(g[n])]
<1>4. /\ ends \in [0 .. N -> Nat] /\ ends[0] = 0
      /\ \A n \in 1 .. N : ends[n] = Len(g[n]) /\ ends[n] \in Nat /\ ends[n - 1] \in Nat
  <2>1. \A n \in 1 .. N : n # 0 /\ n \in 0 .. N /\ n - 1 \in 0 .. N
    OBVIOUS
  <2>2. \A n \in 0 .. N : n = 0 \/ (n \in 1 .. N /\ Len(g[n]) \in Nat)
    OBVIOUS
  <2> QED BY <2>1, <2>2
<1>5. ASSUME NEW n \in 1 .. N
      PROVE  /\ ends[n] = ends[n - 1] + Len(seqs[n])
             /\ \A i \in 1 .. ends[n - 1] : n > 1 /\ g[n][i] = g[n - 1][i]
             /\ \A j \in 1 .. Len(seqs[n]) : g[n][ends[n - 1] + j] = seqs[n][j]
  <2>1. CASE n = 1
    BY <1>2, <1>3, <1>4, <2>1 DEF Appended
  <2>2. CASE n # 1
    <3>1. n \in 2 .. N /\ n - 1 \in 1 .. N
      BY <2>2
    <3>2. g[n - 1] \in Seq(A) /\ seqs[n] \in Seq(A)
      BY <1>2, <3>1
    <3>3. g[n] = g[n - 1] \o seqs[n]
      BY <1>3, <3>1 DEF Appended
    <3>4. ends[n - 1] = Len(g[n - 1]) /\ ends[n] = Len(g[n])
      BY <1>4, <3>1
    <3> HIDE DEF ends
    <3> QED BY <3>1, <3>2, <3>3, <3>4, ConcatProperties
  <2> QED BY <2>1, <2>2
<1> HIDE DEF ends
<1> DEFINE T == {n \in 0 .. N :
                   /\ \A m \in 1 .. n : \A j \in 1 .. Len(seqs[m]) :
                         ends[m - 1] + j \in 1 .. ends[n] /\ g[n][ends[m - 1] + j] = seqs[m][j]
                   /\ \A i \in 1 .. ends[n] : \E m \in 1 .. n : \E j \in 1 .. Len(seqs[m]) :
                         i = ends[m - 1] + j}
<1>6. 0 \in T
  BY <1>4
<1>7. ASSUME NEW n \in 0 .. N - 1, n \in T PROVE n + 1 \in T
  <2>1. PICK k \in 1 .. N : k = n + 1
    BY <1>2
  <2>2. n = k - 1 /\ k \in 1 .. k /\ k \in 0 .. N
    BY <2>1
  <2>3. /\ ends[k] = ends[n] + Len(seqs[k])
        /\ \A i \in 1 .. ends[n] : g[k][i] = g[n][i]
        /\ \A j \in 1 .. Len(seqs[k]) : g[k][ends[n] + j] = seqs[k][j]
    BY <1>5, <2>2
  <2>4. Len(seqs[k]) \in Nat /\ ends[n] \in Nat /\ ends[k] \in Nat
    BY <1>2, <1>4, <2>2
  <2>5. PICK a \in Nat, b \in Nat, c \in Nat :
          a = ends[n] /\ b = ends[k] /\ c = Len(seqs[k]) /\ b = a + c
    BY <2>3, <2>4
  <2>6. ASSUME NEW m \in 1 .. k, NEW j \in 1 .. Len(seqs[m])
        PROVE  ends[m - 1] + j \in 1 .. ends[k] /\ g[k][ends[m - 1] + j] = seqs[m][j]
    <3>1. CASE m = k
      <4>1. m - 1 = n /\ j \in 1 .. c
        BY <2>2, <2>5, <3>1
      <4>2. b = a + c
        BY <2>5
      <4>3. a + j \in 1 .. b
        BY <4>1, <4>2
      <4> QED BY <2>3, <2>5, <3>1, <4>1, <4>3
    <3>2. CASE m # k
      <4>1. m \in 1 .. n
        BY <2>1, <3>2
      <4>2. ends[m - 1] + j \in 1 .. ends[n] /\ g[n][ends[m - 1] + j] = seqs[m][j]
        BY <1>7, <4>1
      <4>3. ends[m - 1] + j \in 1 .. b
        <5>1. b = a + c /\ ends[m - 1] + j \in 1 .. a
          BY <2>5, <4>2
        <5> QED BY <5>1
      <4> QED BY <2>3, <2>5, <4>2, <4>3
    <3> QED BY <3>1, <3>2
  <2>7. ASSUME NEW i \in 1 .. ends[k]
        PROVE  \E m \in 1 .. k : \E j \in 1 .. Len(seqs[m]) : i = ends[m - 1] + j
    <3>1. CASE i <= ends[n]
      <4>1. i \in 1 .. ends[n]
        BY <2>4, <3>1
      <4>2. PICK m \in 1 .. n : \E j \in 1 .. Len(seqs[m]) : i = ends[m - 1] + j
        BY <1>7, <4>1
      <4>3. m \in 1 .. k
        BY <2>1
      <4> QED BY <4>2, <4>3
    <3>2. CASE i > ends[n]
      <4>1. b = a + c /\ i \in 1 .. b /\ i > a
        BY <2>5, <3>2
      <4>2. i - a \in 1 .. c /\ i = a + (i - a)
        BY <4>1
      <4> QED BY <2>2, <2>5, <4>2
    <3> QED BY <2>4, <3>1, <3>2
  <2>8. k \in T
    BY <2>2, <2>6, <2>7
  <2> HIDE DEF T
  <2> QED BY <2>1, <2>8
<1>8. N \in T
  <2> HIDE DEF T
  <2> QED BY <1>6, <1>7, UpTo
<1>9. Laid(FlattenSeq(seqs), seqs, ends)
  <2>1. /\ \A m \in 1 .. N : \A j \in 1 .. Len(seqs[m]) :
              ends[m - 1] + j \in 1 .. ends[N] /\ g[N][ends[m - 1] + j] = seqs[m][j]
        /\ \A i \in 1 .. ends[N] : \E m \in 1 .. N : \E j \in 1 .. Len(seqs[m]) :
              i = ends[m - 1] + j
    BY <1>8
  <2>2. FlattenSeq(seqs) = g[N] /\ Len(g[N]) = ends[N]
    BY <1>2, <1>3, <1>4
  <2> QED BY <1>1, <1>4, <1>5, <2>1, <2>2 DEF Laid
<1>10. FlattenSeq(seqs) \in Seq(A)
  BY <1>2, <1>3
<1> QED BY <1>1, <1>4, <1>9, <1>10

-----------------------------------------------------------------------------
(* Joined, and what Segments and Names make of it.                         *)

\* Component n of the path is in Joined(path) between ends[n - 1] and ends[n],
\* where there is a slash.
JoinedAt(s, p, ends) ==
    /\ ends[0] = 0 /\ ends[Len(p)] = Len(s) + 1
    /\ \A n \in 1 .. Len(p) :
          /\ ends[n] = ends[n - 1] + 1 + Len(p[n])
          /\ \A j \in 1 .. Len(p[n]) : s[ends[n - 1] + j] = p[n][j]
    /\ \A n \in 1 .. Len(p) - 1 : s[ends[n]] = Slash
    /\ \A i \in 1 .. Len(s) :
          \/ \E n \in 1 .. Len(p) - 1 : i = ends[n]
          \/ \E n \in 1 .. Len(p) : \E j \in 1 .. Len(p[n]) : i = ends[n - 1] + j

LEMMA JoinedFacts ==
    ASSUME NEW p \in Path, p # <<>>
    PROVE  /\ Joined(p) \in Bytes
           /\ \E ends \in [0 .. Len(p) -> Nat] : JoinedAt(Joined(p), p, ends)
<1>1. PICK N \in Nat : N = Len(p)
  BY DEF Path
<1>2. /\ N \in 1 .. N /\ DOMAIN p = 1 .. N
      /\ \A n \in 1 .. N : p[n] \in Seq(Byte) /\ Len(p[n]) \in Nat
  BY <1>1 DEF Path, Bytes
<1>3. Slash \in Byte
  BY DEF Slash, Byte
<1> DEFINE seqs == [k \in DOMAIN p |-> <<Slash>> \o p[k]]
<1>4. \A n \in 1 .. N :
         /\ seqs[n] \in Seq(Byte) /\ Len(seqs[n]) = Len(p[n]) + 1
         /\ seqs[n][1] = Slash /\ \A j \in 1 .. Len(p[n]) : seqs[n][j + 1] = p[n][j]
  <2> SUFFICES ASSUME NEW n \in 1 .. N
               PROVE  /\ seqs[n] \in Seq(Byte) /\ Len(seqs[n]) = Len(p[n]) + 1
                      /\ seqs[n][1] = Slash
                      /\ \A j \in 1 .. Len(p[n]) : seqs[n][j + 1] = p[n][j]
    OBVIOUS
  <2>1. seqs[n] = <<Slash>> \o p[n] /\ p[n] \in Seq(Byte) /\ <<Slash>> \in Seq(Byte)
        /\ Len(<<Slash>>) = 1 /\ <<Slash>>[1] = Slash
    BY <1>2, <1>3
  <2> HIDE DEF seqs
  <2> QED BY <2>1, ConcatProperties
<1>5. seqs \in Seq(Seq(Byte)) /\ Len(seqs) = N
  BY <1>2, <1>4
<1> HIDE DEF seqs
<1>6. PICK F \in Seq(Byte), ends \in [0 .. N -> Nat] :
        F = FlattenSeq(seqs) /\ Laid(F, seqs, ends)
  <2>1. Len(seqs) > 0
    BY <1>2, <1>5
  <2>2. /\ FlattenSeq(seqs) \in Seq(Byte)
        /\ \E ends \in [0 .. Len(seqs) -> Nat] : Laid(FlattenSeq(seqs), seqs, ends)
    BY <1>5, <2>1, FlattenIsLaid
  <2> QED BY <1>5, <2>2
<1>7. PICK M \in Nat : M = Len(F)
  OBVIOUS
<1>8. ends[0] = 0 /\ ends[N] = M
  BY <1>5, <1>6, <1>7 DEF Laid
<1> DEFINE Slot(n, a, b, l) ==
              /\ a = ends[n - 1] /\ b = ends[n] /\ l = Len(p[n])
              /\ b = a + l + 1 /\ b <= M /\ F[a + 1] = Slash
              /\ \A j \in 1 .. l : F[a + (j + 1)] = p[n][j]
<1>9. ASSUME NEW n \in 1 .. N
      PROVE  \E a, b, l \in Nat : Slot(n, a, b, l)
  <2>1. n \in 0 .. N /\ n - 1 \in 0 .. N
    OBVIOUS
  <2>2. PICK a \in Nat, b \in Nat, l \in Nat : a = ends[n - 1] /\ b = ends[n] /\ l = Len(p[n])
    BY <1>2, <2>1
  <2>3. PICK w \in Nat : w = Len(seqs[n]) /\ w = l + 1
    <3>1. Len(seqs[n]) = Len(p[n]) + 1
      BY <1>4
    <3>2. Len(seqs[n]) = l + 1
      BY <2>2, <3>1
    <3>3. l + 1 \in Nat
      OBVIOUS
    <3> QED BY <3>2, <3>3
  <2>4. b = a + w /\ \A j \in 1 .. w : a + j \in 1 .. M /\ F[a + j] = seqs[n][j]
    BY <1>5, <1>6, <1>7, <2>2, <2>3 DEF Laid
  <2>5. b = a + w /\ w = l + 1
    BY <2>3, <2>4
  <2>6. b = a + l + 1 /\ 1 \in 1 .. w /\ w \in 1 .. w /\ \A j \in 1 .. l : j + 1 \in 1 .. w
    BY <2>5
  <2>7. b <= M
    <3>1. a + w \in 1 .. M
      BY <2>4, <2>6
    <3> QED BY <2>5, <3>1
  <2>8. F[a + 1] = Slash /\ \A j \in 1 .. l : F[a + (j + 1)] = p[n][j]
    BY <1>4, <2>2, <2>4, <2>6
  <2> QED BY <2>2, <2>6, <2>7, <2>8
<1> HIDE DEF Slot
<1>10. M > 0
  <2>1. PICK a \in Nat, b \in Nat, l \in Nat : Slot(N, a, b, l)
    BY <1>2, <1>9
  <2>2. b = a + l + 1 /\ b <= M
    BY <2>1 DEF Slot
  <2> QED BY <2>2
<1>11. PICK s \in Seq(Byte) : /\ s = Joined(p) /\ Len(s) = M - 1
                              /\ \A i \in 1 .. M - 1 : s[i] = F[i + 1]
  <2>1. F # <<>>
    BY <1>7, <1>10
  <2>2. Joined(p) = Tail(F)
    BY <1>6 DEF Joined, seqs
  <2>3. /\ Tail(F) \in Seq(Byte) /\ Len(Tail(F)) = M - 1
        /\ \A i \in 1 .. M - 1 : Tail(F)[i] = F[i + 1]
    BY <1>7, <2>1
  <2> QED BY <2>2, <2>3
<1>12. ASSUME NEW n \in 1 .. N
       PROVE  /\ ends[n] = ends[n - 1] + 1 + Len(p[n])
              /\ \A j \in 1 .. Len(p[n]) : s[ends[n - 1] + j] = p[n][j]
  <2>1. PICK a \in Nat, b \in Nat, l \in Nat : Slot(n, a, b, l)
    BY <1>9
  <2>2. b = a + l + 1 /\ b <= M
    BY <2>1 DEF Slot
  <2>3. b = a + 1 + l
    BY <2>2
  <2>4. ASSUME NEW j \in 1 .. l PROVE s[a + j] = p[n][j]
    <3>1. a + j \in 1 .. M - 1 /\ (a + j) + 1 = a + (j + 1)
      BY <2>2
    <3> QED BY <1>11, <2>1, <3>1 DEF Slot
  <2>5. ends[n - 1] = a /\ ends[n] = b /\ Len(p[n]) = l
    BY <2>1 DEF Slot
  <2> QED BY <2>3, <2>4, <2>5
<1>13. ASSUME NEW n \in 1 .. N - 1 PROVE s[ends[n]] = Slash
  <2>1. PICK m \in 1 .. N : m = n + 1
    OBVIOUS
  <2>2. n \in 1 .. N /\ m - 1 = n
    BY <2>1
  <2>3. PICK a \in Nat, b \in Nat, l \in Nat : Slot(m, a, b, l)
    BY <1>9
  <2>4. PICK c \in Nat, d \in Nat, e \in Nat : Slot(n, c, d, e)
    BY <1>9, <2>2
  <2>5. /\ a = ends[n] /\ F[a + 1] = Slash
        /\ a = c + e + 1 /\ b = a + l + 1 /\ b <= M
    BY <2>2, <2>3, <2>4 DEF Slot
  <2>6. a \in 1 .. M - 1
    BY <2>5
  <2> QED BY <1>11, <2>5, <2>6
<1>14. ASSUME NEW i \in 1 .. M - 1
       PROVE  \/ \E n \in 1 .. N - 1 : i = ends[n]
              \/ \E n \in 1 .. N : \E j \in 1 .. Len(p[n]) : i = ends[n - 1] + j
  <2>1. i + 1 \in 1 .. M
    OBVIOUS
  <2>2. PICK n \in 1 .. N : \E j \in 1 .. Len(seqs[n]) : i + 1 = ends[n - 1] + j
    BY <1>5, <1>6, <1>7, <2>1 DEF Laid
  <2>3. PICK a \in Nat, l \in Nat : a = ends[n - 1] /\ l = Len(p[n])
    BY <1>9 DEF Slot
  <2>4. PICK j \in 1 .. l + 1 : i + 1 = a + j
    BY <1>4, <2>2, <2>3
  <2>5. CASE j = 1
    <3>1. i = a
      BY <2>4, <2>5
    <3>2. n # 1
      BY <1>8, <2>3, <3>1
    <3>3. n - 1 \in 1 .. N - 1
      BY <3>2
    <3> QED BY <2>3, <3>1, <3>3
  <2>6. CASE j # 1
    <3>1. j - 1 \in 1 .. l /\ i = a + (j - 1)
      BY <2>4, <2>6
    <3> QED BY <2>3, <3>1
  <2> QED BY <2>5, <2>6
<1>15. JoinedAt(s, p, ends)
  <2>1. Len(s) = M - 1 /\ M = Len(s) + 1
    BY <1>11
  <2> QED BY <1>1, <1>8, <1>12, <1>13, <1>14, <2>1 DEF JoinedAt
<1> QED BY <1>1, <1>11, <1>15 DEF Bytes

LEMMA Increasing ==
    ASSUME NEW N \in Nat, NEW f \in [1 .. N -> Nat], \A n \in 1 .. N - 1 : f[n] < f[n + 1]
    PROVE  \A m, n \in 1 .. N : m < n => f[m] < f[n]
<1> SUFFICES ASSUME NEW m \in 1 .. N, NEW n \in 1 .. N, m < n
             PROVE  f[m] < f[n]
  OBVIOUS
<1> DEFINE T == {k \in Nat : m + 1 + k \in 1 .. N => f[m] < f[m + 1 + k]}
<1>1. n - (m + 1) \in Nat /\ m \in 1 .. N - 1 /\ m + 1 + (n - (m + 1)) = n
  OBVIOUS
<1>2. 0 \in T
  BY <1>1
<1>3. ASSUME NEW k \in 0 .. (n - (m + 1)) - 1, k \in T PROVE k + 1 \in T
  <2>1. PICK j \in 1 .. N - 1 : j = m + 1 + k
    BY <1>1
  <2>2. j \in 1 .. N /\ j + 1 \in 1 .. N /\ m + 1 + (k + 1) = j + 1 /\ k + 1 \in Nat
    BY <2>1
  <2>3. f[m] < f[j] /\ f[j] < f[j + 1]
    BY <1>3, <2>1, <2>2
  <2>4. f[m] \in Nat /\ f[j] \in Nat /\ f[j + 1] \in Nat
    BY <2>2
  <2>5. f[m] < f[j + 1]
    BY <2>3, <2>4
  <2> QED BY <2>2, <2>5
<1> HIDE DEF T
<1>4. n - (m + 1) \in T
  BY <1>1, <1>2, <1>3, UpTo
<1> QED BY <1>1, <1>4 DEF T

\* Two sequences of one length that agree on every index.
LEMMA SameElements ==
    ASSUME NEW A, NEW s \in Seq(A), NEW t \in Seq(A), Len(s) = Len(t),
           \A j \in 1 .. Len(s) : s[j] = t[j]
    PROVE  s = t
<1>1. s = [j \in 1 .. Len(s) |-> s[j]] /\ t = [j \in 1 .. Len(t) |-> t[j]]
  OBVIOUS
<1> QED BY <1>1

\* The l elements of s after its first a.
Slice(s, a, l) == SubSeq(s, a + 1, a + l)

LEMMA SliceIs ==
    ASSUME NEW s, NEW a, NEW l, NEW m, NEW n, m = a + 1, n = a + l
    PROVE  SubSeq(s, m, n) = Slice(s, a, l)
BY DEF Slice

LEMMA SliceFacts ==
    ASSUME NEW A, NEW s \in Seq(A), NEW a \in Nat, NEW l \in Nat, a + l <= Len(s)
    PROVE  /\ Slice(s, a, l) \in Seq(A) /\ Len(Slice(s, a, l)) = l
           /\ \A j \in 1 .. l : Slice(s, a, l)[j] = s[a + j]
<1>1. PICK m \in Int, n \in Int : m = a + 1 /\ n = a + l
  OBVIOUS
<1>2. \A i \in m .. n : s[i] \in A
  BY <1>1
<1>3. /\ SubSeq(s, m, n) \in Seq(A)
      /\ Len(SubSeq(s, m, n)) = IF m <= n THEN n - m + 1 ELSE 0
      /\ \A i \in 1 .. n - m + 1 : SubSeq(s, m, n)[i] = s[m + i - 1]
  BY <1>2, SubSeqProperties
<1>4. /\ (IF m <= n THEN n - m + 1 ELSE 0) = l /\ n - m + 1 = l
      /\ \A j \in 1 .. l : m + j - 1 = a + j
  BY <1>1
<1>5. Slice(s, a, l) = SubSeq(s, m, n)
  BY <1>1, SliceIs
<1> QED BY <1>3, <1>4, <1>5

Cuts(s) == {0, Len(s) + 1} \cup {k \in DOMAIN s : s[k] = Slash}

LEMMA SegmentsFacts ==
    ASSUME NEW s \in Bytes
    PROVE  /\ Segments(s) \in Path /\ Segments(s) # <<>>
           /\ \A n \in DOMAIN Segments(s) :
                 /\ ~ Has(Segments(s)[n], Slash)
                 /\ \A j \in DOMAIN Segments(s)[n] :
                       \E k \in DOMAIN s : Segments(s)[n][j] = s[k]
<1>1. PICK L \in Nat : L = Len(s) /\ DOMAIN s = 1 .. L
  BY DEF Bytes
<1>2. /\ Cuts(s) \in SUBSET (0 .. L + 1) /\ Cuts(s) \in SUBSET Nat
      /\ 0 \in Cuts(s) /\ L + 1 \in Cuts(s)
  BY <1>1 DEF Cuts
<1>3. IsFiniteSet(Cuts(s))
  <2>1. IsFiniteSet(0 .. L + 1)
    BY FS_Interval
  <2> QED BY <1>2, <2>1, FS_Subset
<1>4. PICK C \in Nat : C = Cardinality(Cuts(s))
  BY <1>3, FS_CardinalityType
<1>5. /\ \A n \in 1 .. C : Nth(Cuts(s), n) \in Cuts(s)
      /\ \A m, n \in 1 .. C : m < n => Nth(Cuts(s), m) < Nth(Cuts(s), n)
      /\ \A k \in Cuts(s) : \E n \in 1 .. C : Nth(Cuts(s), n) = k
  BY <1>2, <1>3, <1>4, NthFacts
<1>6. C >= 2
  <2>1. PICK m \in 1 .. C : Nth(Cuts(s), m) = 0
    BY <1>2, <1>5
  <2>2. PICK n \in 1 .. C : Nth(Cuts(s), n) = L + 1
    BY <1>2, <1>5
  <2>3. m # n
    BY <2>1, <2>2
  <2> QED BY <2>3
<1>7. Segments(s) = [n \in 1 .. C - 1 |-> SubSeq(s, Nth(Cuts(s), n) + 1, Nth(Cuts(s), n + 1) - 1)]
  BY <1>4 DEF Segments, Cuts
<1>8. ASSUME NEW n \in 1 .. C - 1
      PROVE  /\ Segments(s)[n] \in Bytes /\ ~ Has(Segments(s)[n], Slash)
             /\ \A j \in DOMAIN Segments(s)[n] : \E k \in DOMAIN s : Segments(s)[n][j] = s[k]
  <2>1. n \in 1 .. C /\ n + 1 \in 1 .. C /\ n < n + 1
    OBVIOUS
  <2>2. PICK a \in 0 .. L + 1, b \in 0 .. L + 1 :
          a = Nth(Cuts(s), n) /\ b = Nth(Cuts(s), n + 1) /\ a < b
    BY <1>2, <1>5, <2>1
  <2>3. PICK l \in Nat : b = a + 1 + l /\ b - 1 = a + l /\ a \in Nat /\ a + l <= L
    <3>1. b - a - 1 \in Nat /\ b = a + 1 + (b - a - 1) /\ b - 1 = a + (b - a - 1)
          /\ a \in Nat /\ a + (b - a - 1) <= L
      BY <2>2
    <3> QED BY <3>1
  <2>4. Segments(s)[n] = Slice(s, a, l)
    BY <1>7, <2>2, <2>3 DEF Slice
  <2>5. /\ Segments(s)[n] \in Bytes /\ DOMAIN Segments(s)[n] = 1 .. l
        /\ \A j \in 1 .. l : Segments(s)[n][j] = s[a + j]
    <3>1. /\ Slice(s, a, l) \in Seq(Byte) /\ Len(Slice(s, a, l)) = l
          /\ \A j \in 1 .. l : Slice(s, a, l)[j] = s[a + j]
      BY <1>1, <2>3, SliceFacts DEF Bytes
    <3> QED BY <2>4, <3>1 DEF Bytes
  <2>6. ASSUME NEW j \in 1 .. l PROVE a + j \in DOMAIN s /\ s[a + j] # Slash
    <3>1. a + j \in 1 .. L /\ a < a + j /\ a + j < b
      BY <2>3
    <3>2. ASSUME s[a + j] = Slash PROVE FALSE
      <4>1. a + j \in Cuts(s)
        BY <1>1, <3>1, <3>2 DEF Cuts
      <4>2. PICK m \in 1 .. C : Nth(Cuts(s), m) = a + j
        BY <1>5, <4>1
      <4>3. ~ (m < n) /\ m # n /\ ~ (n + 1 < m) /\ m # n + 1
        BY <1>5, <2>1, <2>2, <3>1, <4>2
      <4> QED BY <4>3
    <3> QED BY <1>1, <3>1, <3>2
  <2> QED BY <2>5, <2>6 DEF Has
<1> QED
  <2>1. Segments(s) \in Seq(Bytes) /\ DOMAIN Segments(s) = 1 .. C - 1 /\ Len(Segments(s)) = C - 1
    BY <1>6, <1>7, <1>8
  <2> QED BY <1>6, <1>8, <2>1 DEF Path

\* A path is what its joined form is split into.
LEMMA SegmentsOfJoined ==
    ASSUME NEW p \in Path, p # <<>>, \A k \in DOMAIN p : ~ Has(p[k], Slash)
    PROVE  Segments(Joined(p)) = p
<1>1. PICK N \in Nat : N = Len(p) /\ DOMAIN p = 1 .. N /\ N > 0
  BY DEF Path
<1>2. PICK s \in Bytes, ends \in [0 .. N -> Nat] : s = Joined(p) /\ JoinedAt(s, p, ends)
  BY <1>1, JoinedFacts
<1>3. PICK L \in Nat : L = Len(s) /\ DOMAIN s = 1 .. L
  BY DEF Bytes
<1>4. /\ ends[0] = 0 /\ ends[N] = L + 1
      /\ \A n \in 1 .. N : /\ ends[n] = ends[n - 1] + 1 + Len(p[n])
                           /\ \A j \in 1 .. Len(p[n]) : s[ends[n - 1] + j] = p[n][j]
      /\ \A n \in 1 .. N - 1 : s[ends[n]] = Slash
      /\ \A i \in 1 .. L : \/ \E n \in 1 .. N - 1 : i = ends[n]
                           \/ \E n \in 1 .. N : \E j \in 1 .. Len(p[n]) : i = ends[n - 1] + j
  BY <1>1, <1>2, <1>3 DEF JoinedAt
<1>5. PICK M \in Nat : M = N + 1
  OBVIOUS
<1>6. /\ 1 \in 1 .. M /\ M \in 1 .. M /\ M - 1 = N /\ 1 # M
      /\ \A n \in 1 .. M : n - 1 \in 0 .. N
      /\ \A n \in 1 .. N : n \in 1 .. M /\ n + 1 \in 1 .. M /\ (n + 1) - 1 = n
      /\ \A n \in 1 .. M : n = 1 \/ n = M \/ (n - 1 \in 1 .. N - 1 /\ 1 < n /\ n < M)
  BY <1>1, <1>5
<1> DEFINE f == [n \in 1 .. M |-> ends[n - 1]]
<1>7. /\ f \in [1 .. M -> Nat] /\ f[1] = 0 /\ f[M] = L + 1
      /\ \A n \in 1 .. M : f[n] = ends[n - 1]
      /\ \A n \in 1 .. N : f[n + 1] = ends[n]
  BY <1>4, <1>6
<1> HIDE DEF f
<1> DEFINE Slot(n, a, b, l) ==
              a = f[n] /\ b = f[n + 1] /\ l = Len(p[n]) /\ b = a + 1 + l
<1>8. ASSUME NEW n \in 1 .. N PROVE \E a, b, l \in Nat : Slot(n, a, b, l)
  <2>1. f[n] \in Nat /\ f[n + 1] \in Nat
    BY <1>6, <1>7
  <2>2. Len(p[n]) \in Nat
    BY <1>1 DEF Path, Bytes
  <2>3. f[n + 1] = f[n] + 1 + Len(p[n])
    BY <1>4, <1>6, <1>7
  <2> QED BY <2>1, <2>2, <2>3
<1> HIDE DEF Slot
<1>9. \A m, n \in 1 .. M : m < n => f[m] < f[n]
  <2>1. \A n \in 1 .. M - 1 : f[n] < f[n + 1]
    <3> SUFFICES ASSUME NEW n \in 1 .. N PROVE f[n] < f[n + 1]
      BY <1>6
    <3>1. PICK a \in Nat, b \in Nat, l \in Nat : Slot(n, a, b, l)
      BY <1>8
    <3>2. a = f[n] /\ b = f[n + 1] /\ b = a + 1 + l
      BY <3>1 DEF Slot
    <3>3. a < b
      BY <3>2
    <3> QED BY <3>2, <3>3
  <2> QED BY <1>7, <2>1, Increasing
<1>10. ASSUME NEW n \in 1 .. M PROVE f[n] \in Cuts(s)
  <2>1. CASE n = 1 \/ n = M
    BY <1>3, <1>7, <2>1 DEF Cuts
  <2>2. CASE n - 1 \in 1 .. N - 1 /\ 1 < n /\ n < M
    <3>1. s[f[n]] = Slash
      <4>1. PICK m \in 1 .. N - 1 : m = n - 1
        BY <2>2
      <4>2. f[n] = ends[m]
        BY <1>7, <4>1
      <4>3. s[ends[m]] = Slash
        BY <1>4
      <4> QED BY <4>2, <4>3
    <3>2. f[n] \in Nat /\ f[1] < f[n] /\ f[n] < f[M]
      BY <1>6, <1>7, <1>9, <2>2
    <3>3. f[n] \in 1 .. L
      BY <1>7, <3>2
    <3> QED BY <1>3, <3>1, <3>3 DEF Cuts
  <2> QED BY <1>6, <2>1, <2>2
<1>11. ASSUME NEW k \in Cuts(s) PROVE \E n \in 1 .. M : f[n] = k
  <2>1. CASE k = 0 \/ k = L + 1
    BY <1>6, <1>7, <2>1
  <2>2. CASE k \in 1 .. L /\ s[k] = Slash
    <3>1. CASE \E n \in 1 .. N - 1 : k = ends[n]
      <4>1. PICK n \in 1 .. N - 1 : k = ends[n]
        BY <3>1
      <4>2. n \in 1 .. N
        OBVIOUS
      <4> QED BY <1>6, <1>7, <4>1, <4>2
    <3>2. CASE \E n \in 1 .. N : \E j \in 1 .. Len(p[n]) : k = ends[n - 1] + j
      <4>1. PICK n \in 1 .. N : \E j \in 1 .. Len(p[n]) : k = ends[n - 1] + j
        BY <3>2
      <4>2. PICK j \in 1 .. Len(p[n]) : k = ends[n - 1] + j
        BY <4>1
      <4>3. p[n][j] = Slash
        BY <1>4, <2>2, <4>2
      <4>4. j \in DOMAIN p[n]
        BY <1>1 DEF Path, Bytes
      <4> QED BY <1>1, <4>3, <4>4 DEF Has
    <3> QED BY <1>4, <2>2, <3>1, <3>2
  <2> QED BY <1>3, <2>1, <2>2 DEF Cuts
<1>12. /\ Cardinality(Cuts(s)) = M
       /\ \A n \in 1 .. M : Nth(Cuts(s), n) = f[n]
  <2>1. f \in [1 .. M -> Cuts(s)]
    BY <1>7, <1>10
  <2>2. Cuts(s) \in SUBSET Nat
    BY <1>3 DEF Cuts
  <2> QED BY <1>9, <1>11, <2>1, <2>2, NthIs
<1>13. Segments(s) = [n \in 1 .. N |-> SubSeq(s, f[n] + 1, f[n + 1] - 1)]
  <2>1. Segments(s) = [n \in 1 .. Cardinality(Cuts(s)) - 1 |->
                          SubSeq(s, Nth(Cuts(s), n) + 1, Nth(Cuts(s), n + 1) - 1)]
    BY DEF Segments, Cuts
  <2>2. \A n \in 1 .. N : Nth(Cuts(s), n) = f[n] /\ Nth(Cuts(s), n + 1) = f[n + 1]
    BY <1>6, <1>12
  <2>3. Cardinality(Cuts(s)) - 1 = N
    BY <1>6, <1>12
  <2> QED BY <2>1, <2>2, <2>3
<1>14. ASSUME NEW n \in 1 .. N PROVE SubSeq(s, f[n] + 1, f[n + 1] - 1) = p[n]
  <2>1. PICK a \in Nat, b \in Nat, l \in Nat : Slot(n, a, b, l)
    BY <1>8
  <2>2. a = f[n] /\ b = f[n + 1] /\ l = Len(p[n]) /\ b = a + 1 + l
    BY <2>1 DEF Slot
  <2>3. b <= L + 1
    <3>1. n + 1 < M \/ n + 1 = M
      BY <1>5
    <3>2. n + 1 \in 1 .. M /\ M \in 1 .. M
      BY <1>6
    <3>3. b < f[M] \/ b = f[M]
      BY <1>9, <2>2, <3>1, <3>2
    <3> QED BY <1>7, <3>3
  <2>4. a + l <= L /\ b - 1 = a + l
    <3>1. b = a + 1 + l
      BY <2>2
    <3> QED BY <2>3, <3>1
  <2>5. /\ Slice(s, a, l) \in Seq(Byte) /\ Len(Slice(s, a, l)) = l
        /\ \A j \in 1 .. l : Slice(s, a, l)[j] = s[a + j]
    <3>1. s \in Seq(Byte) /\ a + l <= Len(s) /\ a \in Nat /\ l \in Nat
      BY <1>3, <2>1, <2>4 DEF Bytes
    <3> QED BY <3>1, SliceFacts
  <2>6. \A j \in 1 .. l : s[a + j] = p[n][j]
    <3>1. a = ends[n - 1]
      BY <1>6, <1>7, <2>2
    <3>2. \A j \in 1 .. Len(p[n]) : s[ends[n - 1] + j] = p[n][j]
      BY <1>4
    <3> QED BY <2>2, <3>1, <3>2
  <2>7. p[n] \in Seq(Byte) /\ Len(p[n]) = l
    BY <1>1, <2>2 DEF Path, Bytes
  <2>8. Slice(s, a, l) = p[n]
    <3>1. PICK c, q : c = Slice(s, a, l) /\ q = p[n]
      OBVIOUS
    <3>2. c \in Seq(Byte) /\ q \in Seq(Byte) /\ Len(c) = l /\ Len(q) = l
      BY <2>5, <2>7, <3>1
    <3>3. \A j \in 1 .. Len(c) : c[j] = q[j]
      BY <2>5, <2>6, <3>1, <3>2
    <3>4. c = q
      BY <3>2, <3>3, SameElements
    <3> QED BY <3>1, <3>4
  <2>9. SubSeq(s, f[n] + 1, f[n + 1] - 1) = Slice(s, a, l)
    <3>1. PICK x, y : x = f[n] + 1 /\ y = f[n + 1] - 1
      OBVIOUS
    <3>2. x = a + 1 /\ y = a + l
      BY <2>2, <2>4, <3>1
    <3>3. SubSeq(s, x, y) = Slice(s, a, l)
      BY <3>2, SliceIs
    <3> QED BY <3>1, <3>3
  <2> QED BY <2>8, <2>9
<1>15. Segments(s) = [n \in 1 .. N |-> p[n]]
  BY <1>13, <1>14
<1> QED BY <1>1, <1>2, <1>15 DEF Path

LEMMA NamesFacts ==
    ASSUME NEW s \in Bytes
    PROVE  /\ Names(s) \in Path
           /\ CanBeFile(s) => Names(s) # <<>>
           /\ \A n \in DOMAIN Names(s) :
                 /\ Names(s)[n] \notin {<<>>, Dot} /\ ~ Has(Names(s)[n], Slash)
                 /\ ValidRelative(s) => Names(s)[n] # DotDot
                 /\ \A j \in DOMAIN Names(s)[n] : \E k \in DOMAIN s : Names(s)[n][j] = s[k]
<1> DEFINE t == Segments(s)
           K == {k \in DOMAIN t : t[k] \notin {<<>>, Dot}}
<1>1. /\ t \in Seq(Bytes) /\ t # <<>>
      /\ \A n \in DOMAIN t :
            /\ ~ Has(t[n], Slash)
            /\ \A j \in DOMAIN t[n] : \E k \in DOMAIN s : t[n][j] = s[k]
  BY SegmentsFacts DEF Path
<1>2. Names(s) = Picked(t, K)
  BY DEF Names
<1>3. ValidRelative(s) => \A n \in DOMAIN t : t[n] # DotDot
  BY DEF ValidRelative
<1>4. CanBeFile(s) => Len(t) \in K
  BY <1>1 DEF CanBeFile, Last
<1> HIDE DEF t
<1>5. /\ Names(s) \in Seq(Bytes)
      /\ \A n \in DOMAIN Names(s) : \E k \in K : Names(s)[n] = t[k]
      /\ \A k \in K : \E n \in DOMAIN Names(s) : Names(s)[n] = t[k]
  <2>1. K \in SUBSET DOMAIN t
    OBVIOUS
  <2> HIDE DEF K
  <2> QED BY <1>1, <1>2, <2>1, PickedFacts
<1>6. CanBeFile(s) => Names(s) # <<>>
  BY <1>4, <1>5
<1>7. ASSUME NEW n \in DOMAIN Names(s)
      PROVE  /\ Names(s)[n] \notin {<<>>, Dot} /\ ~ Has(Names(s)[n], Slash)
             /\ ValidRelative(s) => Names(s)[n] # DotDot
             /\ \A j \in DOMAIN Names(s)[n] : \E k \in DOMAIN s : Names(s)[n][j] = s[k]
  <2>1. PICK k \in K : Names(s)[n] = t[k]
    BY <1>5
  <2> QED BY <1>1, <1>3, <2>1
<1> QED BY <1>5, <1>6, <1>7 DEF Path

LEMMA JoinedBytes ==
    ASSUME NEW p \in Path, p # <<>>, NEW b, b # Slash, \A n \in DOMAIN p : ~ Has(p[n], b)
    PROVE  ~ Has(Joined(p), b)
<1> SUFFICES ASSUME NEW i \in DOMAIN Joined(p), Joined(p)[i] = b PROVE FALSE
  BY DEF Has
<1>1. PICK s \in Bytes, ends \in [0 .. Len(p) -> Nat] : s = Joined(p) /\ JoinedAt(s, p, ends)
  BY JoinedFacts
<1>2. DOMAIN s = 1 .. Len(s) /\ DOMAIN p = 1 .. Len(p)
      /\ \A n \in 1 .. Len(p) : DOMAIN p[n] = 1 .. Len(p[n])
  BY DEF Bytes, Path
<1>3. /\ i \in 1 .. Len(s) /\ s[i] = b
      /\ \A n \in 1 .. Len(p) : \A j \in 1 .. Len(p[n]) : s[ends[n - 1] + j] = p[n][j]
      /\ \A n \in 1 .. Len(p) - 1 : s[ends[n]] = Slash
      /\ \A k \in 1 .. Len(s) : \/ \E n \in 1 .. Len(p) - 1 : k = ends[n]
                                \/ \E n \in 1 .. Len(p) : \E j \in 1 .. Len(p[n]) : k = ends[n - 1] + j
  BY <1>1, <1>2 DEF JoinedAt
<1>4. CASE \E n \in 1 .. Len(p) - 1 : i = ends[n]
  <2>1. PICK n \in 1 .. Len(p) - 1 : i = ends[n]
    BY <1>4
  <2> QED BY <1>3, <2>1
<1>5. CASE \E n \in 1 .. Len(p) : \E j \in 1 .. Len(p[n]) : i = ends[n - 1] + j
  <2>1. PICK n \in 1 .. Len(p) : \E j \in 1 .. Len(p[n]) : i = ends[n - 1] + j
    BY <1>5
  <2>2. PICK j \in 1 .. Len(p[n]) : i = ends[n - 1] + j
    BY <2>1
  <2>3. p[n][j] = b
    BY <1>3, <2>2
  <2> QED BY <1>2, <2>3 DEF Has
<1> QED BY <1>3, <1>4, <1>5

\* The paths whose names mean the same to every part of the program.
CleanPath(p) ==
    /\ p \in Path /\ p # <<>>
    /\ \A k \in DOMAIN p :
          /\ p[k] \notin {<<>>, Dot, DotDot}
          /\ ~ Has(p[k], Slash) /\ ~ Has(p[k], Backslash) /\ ~ Has(p[k], Invalid)

LEMMA NormalizedFacts ==
    ASSUME NEW s \in Bytes
    PROVE  /\ Normalized(s) \in Bytes /\ ~ Has(Normalized(s), Backslash)
           /\ ~ Has(s, Backslash) => Normalized(s) = s
           /\ Utf8(s) => Utf8(Normalized(s))
<1>1. /\ DOMAIN s = 1 .. Len(s) /\ Len(s) \in Nat /\ \A k \in 1 .. Len(s) : s[k] \in Byte
      /\ Slash \in Byte /\ Slash # Backslash /\ Slash # Invalid
  <2>1. DOMAIN s = 1 .. Len(s) /\ Len(s) \in Nat /\ \A k \in 1 .. Len(s) : s[k] \in Byte
    BY DEF Bytes
  <2>2. Slash \in Byte /\ Slash # Backslash /\ Slash # Invalid
    BY DEF Slash, Backslash, Invalid, Byte
  <2> QED BY <2>1, <2>2
<1>2. Normalized(s) = [k \in 1 .. Len(s) |-> IF s[k] = Backslash THEN Slash ELSE s[k]]
  BY <1>1 DEF Normalized
<1>3. Normalized(s) \in Seq(Byte)
  BY <1>1, <1>2
<1>4. ~ Has(s, Backslash) => Normalized(s) = s
  <2> SUFFICES ASSUME ~ Has(s, Backslash) PROVE Normalized(s) = s
    OBVIOUS
  <2>1. Normalized(s) = [k \in 1 .. Len(s) |-> s[k]]
    BY <1>1, <1>2 DEF Has
  <2> QED BY <1>1, <2>1 DEF Bytes
<1> QED BY <1>1, <1>2, <1>3, <1>4 DEF Bytes, Has, Utf8

LEMMA LossyIsExact ==
    ASSUME NEW s \in Bytes, Utf8(s)
    PROVE  LossyUtf8(s) = s
<1> DEFINE seqs == [k \in DOMAIN s |-> <<s[k]>>]
<1>1. PICK L \in Nat : L = Len(s) /\ DOMAIN s = 1 .. L /\ s \in Seq(Byte)
  BY DEF Bytes
<1>2. LossyUtf8(s) = FlattenSeq(seqs)
  <2>1. [k \in DOMAIN s |-> IF s[k] = Invalid THEN Replacement ELSE <<s[k]>>] = seqs
    BY DEF Utf8, Has
  <2> QED BY <2>1 DEF LossyUtf8
<1>3. seqs \in Seq(Seq(Byte)) /\ Len(seqs) = L
  BY <1>1
<1>4. \A n \in 1 .. L : seqs[n] = <<s[n]>> /\ Len(seqs[n]) = 1 /\ seqs[n][1] = s[n]
  BY <1>1
<1> HIDE DEF seqs
<1>5. CASE L = 0
  <2>1. s = <<>> /\ seqs = <<>>
    BY <1>1, <1>3, <1>5
  <2> QED BY <1>2, <2>1 DEF FlattenSeq
<1>6. CASE L > 0
  <2>1. PICK F \in Seq(Byte), ends \in [0 .. L -> Nat] : F = FlattenSeq(seqs) /\ Laid(F, seqs, ends)
    BY <1>3, <1>6, FlattenIsLaid
  <2>2. /\ ends[0] = 0 /\ Len(F) = ends[L]
        /\ \A n \in 1 .. L : ends[n] = ends[n - 1] + 1 /\ F[ends[n - 1] + 1] = s[n]
    <3>1. \A n \in 1 .. L : 1 \in 1 .. Len(seqs[n])
      BY <1>4
    <3> QED BY <1>3, <1>4, <2>1, <3>1 DEF Laid
  <2>3. \A n \in 0 .. L : ends[n] = n
    <3> DEFINE T == {n \in Nat : n \in 0 .. L => ends[n] = n}
    <3>1. 0 \in T
      BY <2>2
    <3>2. ASSUME NEW n \in 0 .. L - 1, n \in T PROVE n + 1 \in T
      <4>1. n + 1 \in 1 .. L /\ (n + 1) - 1 = n /\ n \in 0 .. L
        BY <1>1
      <4> QED BY <2>2, <3>2, <4>1
    <3> HIDE DEF T
    <3>3. 0 .. L \subseteq T
      BY <3>1, <3>2, UpTo
    <3> QED BY <3>3 DEF T
  <2>4. Len(F) = L
    BY <1>6, <2>2, <2>3
  <2>5. ASSUME NEW n \in 1 .. L PROVE F[n] = s[n]
    <3>1. ends[n - 1] + 1 = n
      <4>1. n - 1 \in 0 .. L
        OBVIOUS
      <4> QED BY <2>3, <4>1
    <3> QED BY <2>2, <3>1
  <2>6. F = s
    BY <1>1, <2>4, <2>5
  <2> QED BY <1>2, <2>1, <2>6
<1> QED BY <1>5, <1>6

LEMMA EntryNameFacts ==
    ASSUME NEW p \in Path, p # <<>>
    PROVE  /\ Joined(p) \in Bytes /\ EntryName(p) \in Bytes /\ ~ Has(EntryName(p), Backslash)
           /\ Writable(p) => Utf8(EntryName(p)) /\ LeafName(p) = EntryName(p)
<1>1. Joined(p) \in Bytes
  BY JoinedFacts
<1>2. EntryName(p) \in Bytes /\ ~ Has(EntryName(p), Backslash)
      /\ (Utf8(Joined(p)) => Utf8(EntryName(p)))
  BY <1>1, NormalizedFacts DEF EntryName
<1>3. Utf8(Joined(p)) => LeafName(p) = EntryName(p)
  BY <1>1, LossyIsExact DEF LeafName, EntryName
<1> QED BY <1>1, <1>2, <1>3 DEF Writable

LEMMA NamesAreClean ==
    ASSUME NEW s \in Bytes, ~ Has(s, Backslash), Utf8(s), ValidRelative(s), CanBeFile(s)
    PROVE  CleanPath(Names(s))
<1>1. \A n \in DOMAIN Names(s) : ~ Has(Names(s)[n], Backslash) /\ ~ Has(Names(s)[n], Invalid)
  BY NamesFacts DEF Has, Utf8
<1> QED BY <1>1, NamesFacts DEF CleanPath

LEMMA CleanPathFacts ==
    ASSUME NEW p, CleanPath(p)
    PROVE  /\ Writable(p) /\ EntryName(p) = Joined(p) /\ LeafName(p) = Joined(p)
           /\ Segments(Joined(p)) = p /\ Names(Joined(p)) = p
           /\ ValidRelative(Joined(p)) /\ CanBeFile(Joined(p)) /\ ~ IsDirEntry(Joined(p))
<1>1. /\ p \in Path /\ p \in Seq(Bytes) /\ p # <<>> /\ Joined(p) \in Bytes
      /\ \A k \in DOMAIN p :
            /\ p[k] \notin {<<>>, Dot, DotDot}
            /\ ~ Has(p[k], Slash) /\ ~ Has(p[k], Backslash) /\ ~ Has(p[k], Invalid)
  BY JoinedFacts DEF CleanPath, Path
<1>2. ~ Has(Joined(p), Backslash) /\ Utf8(Joined(p))
  <2>1. Backslash # Slash /\ Invalid # Slash
    BY DEF Backslash, Slash, Invalid
  <2> QED BY <1>1, <2>1, JoinedBytes DEF Utf8
<1>3. Writable(p) /\ EntryName(p) = Joined(p) /\ LeafName(p) = Joined(p)
  BY <1>1, <1>2, EntryNameFacts, NormalizedFacts DEF Writable, EntryName
<1>4. Segments(Joined(p)) = p
  BY <1>1, SegmentsOfJoined
<1>5. Names(Joined(p)) = p
  <2>1. {k \in DOMAIN p : p[k] \notin {<<>>, Dot}} = DOMAIN p
    BY <1>1
  <2>2. Names(Joined(p)) = Picked(p, DOMAIN p)
    BY <1>4, <2>1 DEF Names
  <2> QED BY <1>1, <2>2, PickedAll
<1>6. CanBeFile(Joined(p))
  BY <1>1, <1>4 DEF CanBeFile, Last
<1>7. PICK N \in Nat : N = Len(p) /\ N > 0 /\ 1 \in 1 .. N /\ N \in 1 .. N /\ DOMAIN p = 1 .. N
  BY <1>1
<1>8. PICK s \in Bytes, ends \in [0 .. N -> Nat] : s = Joined(p) /\ JoinedAt(s, p, ends)
  BY <1>1, <1>7, JoinedFacts
<1>9. ASSUME NEW n \in 1 .. N PROVE Len(p[n]) \in Nat \ {0} /\ DOMAIN p[n] = 1 .. Len(p[n])
  <2>1. PICK t \in Seq(Byte) : t = p[n] /\ t # <<>>
    <3>1. n \in DOMAIN p
      BY <1>7
    <3>2. p[n] \in Bytes
      BY <1>1, <3>1
    <3>3. p[n] # <<>>
      BY <1>1, <3>1
    <3> QED BY <3>2, <3>3 DEF Bytes
  <2>2. Len(t) \in Nat /\ Len(t) # 0 /\ DOMAIN t = 1 .. Len(t)
    BY <2>1
  <2> QED BY <2>1, <2>2
<1>10. s # <<>> /\ s[1] # Slash /\ Last(s) # Slash
  <2>1. PICK l \in Nat \ {0} : l = Len(p[N])
    BY <1>7, <1>9
  <2>2. N - 1 \in 0 .. N /\ N \in 0 .. N
    BY <1>7
  <2>3. PICK a \in Nat, b \in Nat : a = ends[N - 1] /\ b = ends[N]
    BY <2>2
  <2>4. b = Len(s) + 1 /\ b = a + 1 + l /\ s[a + l] = p[N][l]
    <3>1. /\ ends[N] = Len(s) + 1 /\ ends[N] = ends[N - 1] + 1 + Len(p[N])
          /\ \A j \in 1 .. Len(p[N]) : s[ends[N - 1] + j] = p[N][j]
      BY <1>7, <1>8 DEF JoinedAt
    <3>2. l \in 1 .. Len(p[N])
      BY <2>1
    <3> QED BY <2>1, <2>3, <3>1, <3>2
  <2>5. Len(s) = a + l /\ Len(s) > 0
    <3>1. Len(s) \in Nat
      BY DEF Bytes
    <3> QED BY <2>4, <3>1
  <2>6. p[N][l] # Slash
    BY <1>1, <1>7, <1>9, <2>1 DEF Has
  <2>7. s[1] = p[1][1]
    <3>1. 1 \in 1 .. Len(p[1])
      BY <1>7, <1>9
    <3>2. ends[1 - 1] = 0 /\ s[ends[1 - 1] + 1] = p[1][1]
      BY <1>7, <1>8, <3>1 DEF JoinedAt
    <3> QED BY <3>2
  <2>8. p[1][1] # Slash
    BY <1>1, <1>7, <1>9 DEF Has
  <2>9. s # <<>>
    BY <2>5
  <2> QED BY <2>4, <2>5, <2>6, <2>7, <2>8, <2>9 DEF Last
<1>11. ValidRelative(Joined(p))
  BY <1>1, <1>4, <1>8, <1>10 DEF ValidRelative
<1>12. ~ IsDirEntry(Joined(p))
  BY <1>8, <1>10 DEF IsDirEntry
<1> QED BY <1>3, <1>4, <1>5, <1>6, <1>11, <1>12
=============================================================================
