--------------------------- MODULE PayloadProofs ---------------------------
(***************************************************************************)
(* What Payload promises, for all directories and patterns: the Merkle     *)
(* root binds the sequence of the leaves it is computed from, what seal    *)
(* writes verifies, what verifies is the whole directory, and what is      *)
(* exported is what the pattern stands for.                                *)
(***************************************************************************)
EXTENDS Payload, PayloadPathProofs

-----------------------------------------------------------------------------
(* Levels of the tree.                                                     *)

IsSeq(s) == \E D : s \in Seq(D)

LEMMA SeqFacts ==
    ASSUME NEW s, IsSeq(s)
    PROVE  Len(s) \in Nat /\ DOMAIN s = 1 .. Len(s) /\ (Len(s) = 0 <=> s = <<>>)
<1>1. PICK D : s \in Seq(D)
  BY DEF IsSeq
<1> QED BY <1>1

LEMMA SameSeq ==
    ASSUME NEW s, IsSeq(s), NEW t, IsSeq(t), Len(s) = Len(t),
           \A n \in 1 .. Len(s) : s[n] = t[n]
    PROVE  s = t
<1>1. PICK D, E : s \in Seq(D) /\ t \in Seq(E)
  BY DEF IsSeq
<1>2. s = [n \in 1 .. Len(s) |-> s[n]] /\ t = [n \in 1 .. Len(t) |-> t[n]]
  BY <1>1
<1> QED BY <1>2

LEMMA AppendFacts ==
    ASSUME NEW s, IsSeq(s), NEW x
    PROVE  /\ IsSeq(Append(s, x)) /\ Len(Append(s, x)) = Len(s) + 1
           /\ Append(s, x)[Len(s) + 1] = x
           /\ \A n \in 1 .. Len(s) : Append(s, x)[n] = s[n]
<1>1. PICK D : s \in Seq(D)
  BY DEF IsSeq
<1>2. PICK E : E = D \cup {x}
  OBVIOUS
<1>3. s \in Seq(E) /\ x \in E
  <2>1. \A n \in 1 .. Len(s) : s[n] \in E
    BY <1>1, <1>2
  <2>2. s = [n \in 1 .. Len(s) |-> s[n]] /\ Len(s) \in Nat
    BY <1>1
  <2> QED BY <1>2, <2>1, <2>2
<1>4. Append(s, x) \in Seq(E)
  BY <1>3
<1> QED BY <1>3, <1>4 DEF IsSeq

\* The level above a level that pairs neighbours and passes an odd node on,
\* less what is in it after its n-th node.
IsAbove(up, L, n) ==
    \A k \in 1 .. n : up[k] = IF 2 * k <= Len(L) THEN Node(L[2 * k - 1], L[2 * k]) ELSE L[2 * k - 1]

\* The levels H[0] .. H[d] of a tree.
Levels(H, d) ==
    /\ \A k \in 0 .. d : IsSeq(H[k]) /\ Len(H[k]) > 0
    /\ \A k \in 0 .. d - 1 :
          /\ Len(H[k]) > 1
          /\ Len(H[k + 1]) = (Len(H[k]) + 1) \div 2
          /\ IsAbove(H[k + 1], H[k], Len(H[k + 1]))

Climbs(L, M) == \E d \in Nat : \E H : Levels(H, d) /\ H[0] = L /\ H[d] = M

IsRoot(r, L) ==
    \/ L = <<>> /\ r = EmptyRoot
    \/ \E M : Climbs(L, M) /\ Len(M) = 1 /\ M[1] = r

LEMMA ClimbStart ==
    ASSUME NEW L, IsSeq(L), L # <<>>
    PROVE  Climbs(L, L)
<1> DEFINE H == [k \in {0} |-> L]
<1>1. H[0] = L /\ 0 \in Nat
  OBVIOUS
<1>2. Len(L) > 0
  BY SeqFacts
<1>3. Levels(H, 0)
  BY <1>1, <1>2 DEF Levels
<1> HIDE DEF H
<1> QED BY <1>1, <1>3 DEF Climbs

LEMMA ClimbStep ==
    ASSUME NEW L, NEW M, Climbs(L, M), NEW U, IsSeq(U), Len(M) > 1,
           Len(U) = (Len(M) + 1) \div 2, IsAbove(U, M, Len(U))
    PROVE  Climbs(L, U)
<1>1. PICK d \in Nat : \E H : Levels(H, d) /\ H[0] = L /\ H[d] = M
  BY DEF Climbs
<1>2. PICK H : Levels(H, d) /\ H[0] = L /\ H[d] = M
  BY <1>1
<1> DEFINE G == [k \in 0 .. d + 1 |-> IF k = d + 1 THEN U ELSE H[k]]
<1>3. /\ d + 1 \in Nat /\ G[d + 1] = U /\ G[0] = L /\ G[d] = M
      /\ \A k \in 0 .. d : G[k] = H[k]
      /\ \A k \in 0 .. d + 1 : k = d + 1 \/ k \in 0 .. d
      /\ \A k \in 0 .. (d + 1) - 1 : k = d \/ (k \in 0 .. d - 1 /\ k \in 0 .. d /\ k + 1 \in 0 .. d)
  BY <1>2
<1>4. Len(U) > 0
  <2>1. IsSeq(M)
    BY <1>2 DEF Levels
  <2>2. PICK m \in Nat : m = Len(M)
    BY <2>1, SeqFacts
  <2> QED BY <2>2
<1> HIDE DEF G
<1>5. Levels(G, d + 1)
  <2>1. ASSUME NEW k \in 0 .. d + 1 PROVE IsSeq(G[k]) /\ Len(G[k]) > 0
    BY <1>2, <1>3, <1>4 DEF Levels
  <2>2. ASSUME NEW k \in 0 .. (d + 1) - 1
        PROVE  /\ Len(G[k]) > 1
               /\ Len(G[k + 1]) = (Len(G[k]) + 1) \div 2
               /\ IsAbove(G[k + 1], G[k], Len(G[k + 1]))
    <3>1. CASE k = d
      BY <1>3, <3>1
    <3>2. CASE k \in 0 .. d - 1 /\ k \in 0 .. d /\ k + 1 \in 0 .. d
      <4>1. G[k] = H[k] /\ G[k + 1] = H[k + 1]
        BY <1>3, <3>2
      <4> QED BY <1>2, <3>2, <4>1 DEF Levels
    <3> QED BY <1>3, <3>1, <3>2
  <2> QED BY <2>1, <2>2 DEF Levels
<1> QED BY <1>3, <1>5 DEF Climbs

\* A level determines the one above it, so the leaves determine the root.
LEMMA SameAbove ==
    ASSUME NEW U, IsSeq(U), NEW V, IsSeq(V), NEW L, Len(U) = Len(V),
           IsAbove(U, L, Len(U)), IsAbove(V, L, Len(V))
    PROVE  U = V
<1>1. \A n \in 1 .. Len(U) : U[n] = V[n]
  BY DEF IsAbove
<1> QED BY <1>1, SameSeq

LEMMA SameLevels ==
    ASSUME NEW d \in Nat, NEW H, Levels(H, d), NEW e \in Nat, NEW G, Levels(G, e),
           H[0] = G[0], NEW k \in 0 .. d, k \in 0 .. e
    PROVE  H[k] = G[k]
<1> DEFINE T == {n \in Nat : n \in 0 .. k => H[n] = G[n]}
<1>1. 0 \in T
  OBVIOUS
<1>2. ASSUME NEW n \in 0 .. k - 1, n \in T PROVE n + 1 \in T
  <2>1. /\ n \in 0 .. d - 1 /\ n \in 0 .. e - 1 /\ n \in 0 .. k
        /\ n + 1 \in 0 .. d /\ n + 1 \in 0 .. e /\ n + 1 \in Nat
    OBVIOUS
  <2>2. H[n] = G[n]
    BY <1>2, <2>1
  <2>3. /\ IsSeq(H[n + 1]) /\ Len(H[n + 1]) = (Len(H[n]) + 1) \div 2
        /\ IsAbove(H[n + 1], H[n], Len(H[n + 1]))
    BY <2>1 DEF Levels
  <2>4. /\ IsSeq(G[n + 1]) /\ Len(G[n + 1]) = (Len(G[n]) + 1) \div 2
        /\ IsAbove(G[n + 1], G[n], Len(G[n + 1]))
    BY <2>1 DEF Levels
  <2>5. H[n + 1] = G[n + 1]
    BY <2>2, <2>3, <2>4, SameAbove
  <2> QED BY <2>1, <2>5
<1> HIDE DEF T
<1>3. k \in T
  BY <1>1, <1>2, UpTo
<1> QED BY <1>3 DEF T

LEMMA ClimbsFromLeaves ==
    ASSUME NEW L, NEW M, Climbs(L, M)
    PROVE  IsSeq(L) /\ L # <<>> /\ IsSeq(M) /\ Len(M) > 0
<1>1. PICK d \in Nat : \E H : Levels(H, d) /\ H[0] = L /\ H[d] = M
  BY DEF Climbs
<1>2. PICK H : Levels(H, d) /\ H[0] = L /\ H[d] = M
  BY <1>1
<1>3. IsSeq(L) /\ Len(L) > 0 /\ IsSeq(M) /\ Len(M) > 0
  BY <1>2 DEF Levels
<1> QED BY <1>3, SeqFacts

LEMMA RootIsOne ==
    ASSUME NEW L, NEW r, IsRoot(r, L), NEW s, IsRoot(s, L)
    PROVE  r = s
<1>1. CASE L = <<>>
  <2>1. \A M : ~ Climbs(L, M)
    BY <1>1, ClimbsFromLeaves
  <2> QED BY <2>1 DEF IsRoot
<1>2. CASE L # <<>>
  <2>1. PICK M : Climbs(L, M) /\ Len(M) = 1 /\ M[1] = r
    BY <1>2 DEF IsRoot
  <2>2. PICK N : Climbs(L, N) /\ Len(N) = 1 /\ N[1] = s
    BY <1>2 DEF IsRoot
  <2>3. PICK d \in Nat : \E H : Levels(H, d) /\ H[0] = L /\ H[d] = M
    BY <2>1 DEF Climbs
  <2>4. PICK H : Levels(H, d) /\ H[0] = L /\ H[d] = M
    BY <2>3
  <2>5. PICK e \in Nat : \E G : Levels(G, e) /\ G[0] = L /\ G[e] = N
    BY <2>2 DEF Climbs
  <2>6. PICK G : Levels(G, e) /\ G[0] = L /\ G[e] = N
    BY <2>5
  <2>7. ~ d < e
    <3> SUFFICES ASSUME d < e PROVE FALSE
      OBVIOUS
    <3>1. d \in 0 .. d /\ d \in 0 .. e /\ d \in 0 .. e - 1
      OBVIOUS
    <3>2. G[d] = M
      BY <2>4, <2>6, <3>1, SameLevels
    <3>3. Len(G[d]) > 1
      BY <2>6, <3>1 DEF Levels
    <3>4. ~ (1 > 1)
      OBVIOUS
    <3> QED BY <2>1, <3>2, <3>3, <3>4
  <2>8. ~ e < d
    <3> SUFFICES ASSUME e < d PROVE FALSE
      OBVIOUS
    <3>1. e \in 0 .. e /\ e \in 0 .. d /\ e \in 0 .. d - 1
      OBVIOUS
    <3>2. H[e] = N
      BY <2>4, <2>6, <3>1, SameLevels
    <3>3. Len(H[e]) > 1
      BY <2>4, <3>1 DEF Levels
    <3>4. ~ (1 > 1)
      OBVIOUS
    <3> QED BY <2>2, <3>2, <3>3, <3>4
  <2>9. d = e /\ d \in 0 .. d
    BY <2>7, <2>8
  <2>10. M = N
    BY <2>4, <2>6, <2>9, SameLevels
  <2> QED BY <2>1, <2>2, <2>10
<1> QED BY <1>1, <1>2

-----------------------------------------------------------------------------
(* Digests, and the strings they are digests of.                           *)

IsDigest(d) == IsSeq(d) /\ Len(d) = DigestLength

LEMMA ConcatFacts ==
    ASSUME NEW s, IsSeq(s), NEW t, IsSeq(t)
    PROVE  /\ IsSeq(s \o t) /\ Len(s \o t) = Len(s) + Len(t)
           /\ \A n \in 1 .. Len(s) : (s \o t)[n] = s[n]
           /\ \A n \in 1 .. Len(t) : (s \o t)[Len(s) + n] = t[n]
<1>1. PICK D : s \in Seq(D)
  BY DEF IsSeq
<1>2. PICK E : t \in Seq(E)
  BY DEF IsSeq
<1>3. PICK S : S = D \cup E
  OBVIOUS
<1>4. s \in Seq(S)
  <2>1. \A n \in 1 .. Len(s) : s[n] \in S
    BY <1>1, <1>3
  <2>2. s = [n \in 1 .. Len(s) |-> s[n]] /\ Len(s) \in Nat
    BY <1>1
  <2> QED BY <2>1, <2>2
<1>5. t \in Seq(S)
  <2>1. \A n \in 1 .. Len(t) : t[n] \in S
    BY <1>2, <1>3
  <2>2. t = [n \in 1 .. Len(t) |-> t[n]] /\ Len(t) \in Nat
    BY <1>2
  <2> QED BY <2>1, <2>2
<1>6. s \o t \in Seq(S) /\ Len(s \o t) = Len(s) + Len(t)
  BY <1>4, <1>5
<1>7. ASSUME NEW n \in 1 .. Len(s) PROVE (s \o t)[n] = s[n]
  BY <1>4, <1>5
<1>8. ASSUME NEW n \in 1 .. Len(t) PROVE (s \o t)[Len(s) + n] = t[n]
  BY <1>4, <1>5
<1> QED BY <1>6, <1>7, <1>8 DEF IsSeq

LEMMA Blake3Facts ==
    ASSUME NEW string
    PROVE  IsDigest(Blake3(string))
<1>1. PICK D : D = {Blake3Byte(string, n) : n \in 1 .. DigestLength}
  OBVIOUS
<1>2. Blake3(string) \in Seq(D) /\ Len(Blake3(string)) = DigestLength
  BY <1>1, DigestAssumption DEF Blake3
<1> QED BY <1>2 DEF IsDigest, IsSeq

LEMMA LeafStringFacts ==
    ASSUME NEW name \in Bytes, NEW content \in Bytes
    PROVE  LeafString(name, content) \in Bytes /\ Len(LeafString(name, content)) = Len(name) + 1 + Len(content)
<1>1. <<0>> \in Bytes /\ Len(<<0>>) = 1
  BY DEF Bytes, Byte
<1>2. name \o <<0>> \in Bytes /\ Len(name \o <<0>>) = Len(name) + 1
  BY <1>1 DEF Bytes
<1> QED BY <1>2 DEF LeafString, Bytes

LEMMA NodeIsOne ==
    ASSUME NoCollisions, NEW a, IsDigest(a), NEW b, IsDigest(b), NEW c, IsDigest(c), NEW e, IsDigest(e),
           Node(a, b) = Node(c, e)
    PROVE  a = c /\ b = e
<1>1. a \o b = c \o e
  BY DEF Node, NoCollisions
<1>2. PICK n \in Nat : n = DigestLength
  BY DigestAssumption
<1>3. Len(a) = n /\ Len(b) = n /\ Len(c) = n /\ Len(e) = n
  BY <1>2 DEF IsDigest
<1>4. /\ IsSeq(a) /\ IsSeq(b) /\ IsSeq(c) /\ IsSeq(e)
  BY DEF IsDigest
<1>5. /\ \A k \in 1 .. n : (a \o b)[k] = a[k]
      /\ \A k \in 1 .. n : (a \o b)[n + k] = b[k]
  <2>1. /\ \A k \in 1 .. Len(a) : (a \o b)[k] = a[k]
        /\ \A k \in 1 .. Len(b) : (a \o b)[Len(a) + k] = b[k]
    BY <1>4, ConcatFacts
  <2> QED BY <1>3, <2>1
<1>6. /\ \A k \in 1 .. n : (c \o e)[k] = c[k]
      /\ \A k \in 1 .. n : (c \o e)[n + k] = e[k]
  <2>1. /\ \A k \in 1 .. Len(c) : (c \o e)[k] = c[k]
        /\ \A k \in 1 .. Len(e) : (c \o e)[Len(c) + k] = e[k]
    BY <1>4, ConcatFacts
  <2> QED BY <1>3, <2>1
<1>7. \A k \in 1 .. n : a[k] = c[k] /\ b[k] = e[k]
  BY <1>1, <1>5, <1>6
<1> QED BY <1>3, <1>4, <1>7, SameSeq

\* The leaf of a file, and a leaf whose string is not as long as a node's.
IsLeaf(t) == \E name, content : t = Leaf(name, content)
IsPlainLeaf(t) ==
    \E name \in Bytes, content \in Bytes :
        t = Leaf(name, content) /\ Len(LeafString(name, content)) # 2 * DigestLength

LEMMA LeafIsDigest ==
    ASSUME NEW t, IsLeaf(t) \/ IsPlainLeaf(t)
    PROVE  IsDigest(t)
BY Blake3Facts DEF IsLeaf, IsPlainLeaf, Leaf

LEMMA NodeIsDigest == \A l, r : IsDigest(Node(l, r))
BY Blake3Facts DEF Node

LEMMA PlainLeafIsNoNode ==
    ASSUME NoCollisions, NEW l, IsDigest(l), NEW r, IsDigest(r)
    PROVE  ~ IsPlainLeaf(Node(l, r))
<1> SUFFICES ASSUME NEW name \in Bytes, NEW content \in Bytes, Node(l, r) = Leaf(name, content),
                    Len(LeafString(name, content)) # 2 * DigestLength
             PROVE  FALSE
  BY DEF IsPlainLeaf
<1>1. LeafString(name, content) = l \o r
  BY DEF Node, Leaf, NoCollisions
<1>2. Len(l \o r) = Len(l) + Len(r) /\ Len(l) = DigestLength /\ Len(r) = DigestLength
  BY ConcatFacts DEF IsDigest
<1> QED BY <1>1, <1>2, DigestAssumption

LEMMA EmptyIsNoOther ==
    ASSUME NoCollisions
    PROVE  /\ ~ IsPlainLeaf(EmptyRoot)
           /\ \A l, r : IsDigest(l) /\ IsDigest(r) => EmptyRoot # Node(l, r)
<1>1. ASSUME IsPlainLeaf(EmptyRoot) PROVE FALSE
  <2>1. PICK name \in Bytes, content \in Bytes : EmptyRoot = Leaf(name, content)
    BY <1>1 DEF IsPlainLeaf
  <2>2. LeafString(name, content) = <<>>
    BY <2>1 DEF EmptyRoot, Leaf, NoCollisions
  <2>3. Len(name) \in Nat /\ Len(content) \in Nat /\ Len(LeafString(name, content)) = Len(name) + 1 + Len(content)
    <3>1. Len(name) \in Nat /\ Len(content) \in Nat
      BY DEF Bytes
    <3> QED BY <2>1, <3>1, LeafStringFacts
  <2>4. Len(<<>>) = 0
    OBVIOUS
  <2> QED BY <2>2, <2>3, <2>4
<1>2. ASSUME NEW l, NEW r, IsDigest(l), IsDigest(r), EmptyRoot = Node(l, r) PROVE FALSE
  <2>1. l \o r = <<>>
    BY <1>2 DEF EmptyRoot, Node, NoCollisions
  <2>2. Len(l \o r) = Len(l) + Len(r) /\ Len(l) = DigestLength /\ Len(r) = DigestLength
    BY <1>2, ConcatFacts DEF IsDigest
  <2>3. Len(<<>>) = 0
    OBVIOUS
  <2> QED BY <2>1, <2>2, <2>3, DigestAssumption
<1> QED BY <1>1, <1>2

\* A level of digests.
AllDigests(L) == \A n \in 1 .. Len(L) : IsDigest(L[n])

LEMMA DigestsOfLevels ==
    ASSUME NEW d \in Nat, NEW H, Levels(H, d), AllDigests(H[0]), NEW k \in 0 .. d
    PROVE  AllDigests(H[k])
<1>1. CASE k = 0
  BY <1>1
<1>2. CASE k # 0
  <2> DEFINE T == {m \in Nat : m \in 0 .. d => AllDigests(H[m])}
  <2>1. 0 \in T
    OBVIOUS
  <2>2. ASSUME NEW m \in 0 .. k - 1, m \in T PROVE m + 1 \in T
    <3>1. m \in 0 .. d - 1 /\ m \in 0 .. d /\ m + 1 \in 0 .. d /\ m + 1 \in Nat
      OBVIOUS
    <3>2. AllDigests(H[m])
      BY <2>2, <3>1
    <3>3. /\ IsSeq(H[m]) /\ IsSeq(H[m + 1]) /\ Len(H[m + 1]) = (Len(H[m]) + 1) \div 2
          /\ IsAbove(H[m + 1], H[m], Len(H[m + 1]))
      BY <3>1 DEF Levels
    <3>4. PICK l \in Nat, u \in Nat : l = Len(H[m]) /\ u = Len(H[m + 1]) /\ u = (l + 1) \div 2
      BY <3>3, SeqFacts
    <3>5. ASSUME NEW n \in 1 .. u PROVE IsDigest(H[m + 1][n])
      <4>1. CASE 2 * n <= l
        <5>1. H[m + 1][n] = Node(H[m][2 * n - 1], H[m][2 * n])
          BY <3>3, <3>4, <4>1 DEF IsAbove
        <5> QED BY <5>1, NodeIsDigest
      <4>2. CASE ~ 2 * n <= l
        <5>1. H[m + 1][n] = H[m][2 * n - 1]
          BY <3>3, <3>4, <4>2 DEF IsAbove
        <5>2. 2 * n - 1 \in 1 .. l
          <6>1. u = (l + 1) \div 2 /\ n \in 1 .. u /\ ~ 2 * n <= l
            BY <3>4, <4>2
          <6>2. 2 * n - 1 = l /\ l >= 1
            BY <6>1
          <6> QED BY <6>2
        <5>3. PICK x \in 1 .. l : x = 2 * n - 1
          BY <5>2
        <5>4. IsDigest(H[m][x])
          BY <3>2, <3>4 DEF AllDigests
        <5> QED BY <5>1, <5>3, <5>4
      <4> QED BY <4>1, <4>2
    <3>6. AllDigests(H[m + 1])
      BY <3>4, <3>5 DEF AllDigests
    <3> QED BY <3>1, <3>6
  <2> HIDE DEF T
  <2>3. k \in T
    BY <2>1, <2>2, UpTo
  <2> QED BY <2>3 DEF T
<1> QED BY <1>1, <1>2

-----------------------------------------------------------------------------
(* The root binds the leaves.  If no leaf may be taken for a node, it says *)
(* how many they are: going left from a node one comes to a leaf; from a   *)
(* node of level d, after d steps, unless it was passed on.                *)

Spine(t, d) ==
    \E g : /\ g[0] = t /\ IsPlainLeaf(g[d])
           /\ \A k \in 0 .. d - 1 :
                 \E right : IsDigest(right) /\ IsDigest(g[k + 1]) /\ g[k] = Node(g[k + 1], right)

LEMMA SpineLeaf ==
    ASSUME NEW t, IsPlainLeaf(t)
    PROVE  Spine(t, 0)
<1> DEFINE g == [k \in {0} |-> t]
<1>1. g[0] = t
  OBVIOUS
<1> HIDE DEF g
<1> QED BY <1>1 DEF Spine

LEMMA SpineIsDigest ==
    ASSUME NEW d \in Nat, NEW t, Spine(t, d)
    PROVE  IsDigest(t)
<1>1. PICK g : /\ g[0] = t /\ IsPlainLeaf(g[d])
               /\ \A k \in 0 .. d - 1 :
                     \E r : IsDigest(r) /\ IsDigest(g[k + 1]) /\ g[k] = Node(g[k + 1], r)
  BY DEF Spine
<1>2. CASE d = 0
  BY <1>1, <1>2, LeafIsDigest
<1>3. CASE d # 0
  <2>1. 0 \in 0 .. d - 1
    BY <1>3
  <2>2. PICK r : g[0] = Node(g[0 + 1], r)
    BY <1>1, <2>1
  <2> QED BY <1>1, <2>2, NodeIsDigest
<1> QED BY <1>2, <1>3

LEMMA SpineNode ==
    ASSUME NEW d \in Nat, NEW t, Spine(t, d), NEW right, IsDigest(right)
    PROVE  Spine(Node(t, right), d + 1)
<1>1. PICK g : /\ g[0] = t /\ IsPlainLeaf(g[d])
               /\ \A k \in 0 .. d - 1 :
                     \E r : IsDigest(r) /\ IsDigest(g[k + 1]) /\ g[k] = Node(g[k + 1], r)
  BY DEF Spine
<1> DEFINE h == [k \in 0 .. d + 1 |-> IF k = 0 THEN Node(t, right) ELSE g[k - 1]]
<1>2. /\ h[0] = Node(t, right) /\ h[1] = t /\ h[d + 1] = g[d]
      /\ \A k \in 0 .. (d + 1) - 1 : k = 0 \/ (k - 1 \in 0 .. d - 1 /\ h[k] = g[k - 1] /\ h[k + 1] = g[(k - 1) + 1])
  <2>1. 0 \in 0 .. d + 1 /\ 1 \in 0 .. d + 1 /\ d + 1 \in 0 .. d + 1 /\ (d + 1) - 1 = d /\ d + 1 # 0
    OBVIOUS
  <2>2. h[0] = Node(t, right) /\ h[1] = g[0] /\ h[d + 1] = g[d]
    BY <2>1
  <2>3. ASSUME NEW k \in 0 .. (d + 1) - 1, k # 0
        PROVE  k - 1 \in 0 .. d - 1 /\ h[k] = g[k - 1] /\ h[k + 1] = g[(k - 1) + 1]
    <3>1. /\ k \in 0 .. d + 1 /\ k + 1 \in 0 .. d + 1 /\ k + 1 # 0
          /\ (k + 1) - 1 = (k - 1) + 1 /\ k - 1 \in 0 .. d - 1
      BY <2>3
    <3> QED BY <2>3, <3>1
  <2> QED BY <1>1, <2>2, <2>3
<1> HIDE DEF h
<1>3. ASSUME NEW k \in 0 .. (d + 1) - 1
      PROVE  \E r : IsDigest(r) /\ IsDigest(h[k + 1]) /\ h[k] = Node(h[k + 1], r)
  <2>1. CASE k = 0
    <3>1. h[k] = Node(h[k + 1], right) /\ IsDigest(h[k + 1])
      BY <1>2, <2>1, SpineIsDigest
    <3> QED BY <3>1
  <2>2. CASE k # 0
    <3>1. k - 1 \in 0 .. d - 1 /\ h[k] = g[k - 1] /\ h[k + 1] = g[(k - 1) + 1]
      BY <1>2, <2>2
    <3> QED BY <1>1, <3>1
  <2> QED BY <2>1, <2>2
<1> QED BY <1>1, <1>2, <1>3 DEF Spine

LEMMA SpineIsOne ==
    ASSUME NoCollisions, NEW d \in Nat, NEW e \in Nat, NEW t, Spine(t, d), Spine(t, e)
    PROVE  d = e
<1>1. ASSUME NEW m \in Nat, NEW n \in Nat, m < n, Spine(t, m), Spine(t, n) PROVE FALSE
  <2>1. PICK g : /\ g[0] = t /\ IsPlainLeaf(g[m])
                 /\ \A k \in 0 .. m - 1 :
                       \E r : IsDigest(r) /\ IsDigest(g[k + 1]) /\ g[k] = Node(g[k + 1], r)
    BY <1>1 DEF Spine
  <2>2. PICK h : /\ h[0] = t /\ IsPlainLeaf(h[n])
                 /\ \A k \in 0 .. n - 1 :
                       \E r : IsDigest(r) /\ IsDigest(h[k + 1]) /\ h[k] = Node(h[k + 1], r)
    BY <1>1 DEF Spine
  <2> DEFINE T == {k \in Nat : k \in 0 .. m => g[k] = h[k]}
  <2>3. 0 \in T
    BY <2>1, <2>2
  <2>4. ASSUME NEW k \in 0 .. m - 1, k \in T PROVE k + 1 \in T
    <3>1. k \in 0 .. n - 1 /\ k \in 0 .. m /\ k + 1 \in Nat
      BY <1>1
    <3>2. PICK r : IsDigest(r) /\ IsDigest(g[k + 1]) /\ g[k] = Node(g[k + 1], r)
      BY <2>1
    <3>3. PICK s : IsDigest(s) /\ IsDigest(h[k + 1]) /\ h[k] = Node(h[k + 1], s)
      BY <2>2, <3>1
    <3>4. g[k] = h[k]
      BY <2>4, <3>1
    <3>5. Node(g[k + 1], r) = Node(h[k + 1], s)
      BY <3>2, <3>3, <3>4
    <3>6. g[k + 1] = h[k + 1]
      BY <3>2, <3>3, <3>5, NodeIsOne
    <3> QED BY <3>1, <3>6
  <2> HIDE DEF T
  <2>5. m \in T
    BY <2>3, <2>4, UpTo
  <2>6. g[m] = h[m]
    <3>1. m \in 0 .. m
      OBVIOUS
    <3> QED BY <2>5, <3>1 DEF T
  <2>7. m \in 0 .. n - 1
    BY <1>1
  <2>8. PICK r : IsDigest(r) /\ IsDigest(h[m + 1]) /\ h[m] = Node(h[m + 1], r)
    BY <2>2, <2>7
  <2> QED BY <2>1, <2>6, <2>8, PlainLeafIsNoNode
<1>2. ~ d < e /\ ~ e < d
  BY <1>1
<1> QED BY <1>2

\* A level holds the nodes of its height, and at its end perhaps a lower one.
Height(L, d) ==
    \A n \in 1 .. Len(L) : \E k \in 0 .. d : Spine(L[n], k) /\ (n < Len(L) => k = d)

LEMMA HeightAbove ==
    ASSUME NEW L, IsSeq(L), NEW U, IsSeq(U), NEW d \in Nat, Height(L, d),
           Len(U) = (Len(L) + 1) \div 2, IsAbove(U, L, Len(U))
    PROVE  Height(U, d + 1)
<1>1. PICK l \in Nat, u \in Nat : l = Len(L) /\ u = Len(U) /\ u = (l + 1) \div 2
  BY SeqFacts
<1> SUFFICES ASSUME NEW n \in 1 .. u
             PROVE  \E k \in 0 .. d + 1 : Spine(U[n], k) /\ (n < u => k = d + 1)
  BY <1>1 DEF Height
<1>2. CASE 2 * n <= l
  <2>1. U[n] = Node(L[2 * n - 1], L[2 * n])
    BY <1>1, <1>2 DEF IsAbove
  <2>2. 2 * n - 1 \in 1 .. l /\ 2 * n - 1 < l /\ 2 * n \in 1 .. l
    BY <1>2
  <2>3. Spine(L[2 * n - 1], d)
    BY <1>1, <2>2 DEF Height
  <2>4. PICK k \in 0 .. d : Spine(L[2 * n], k)
    BY <1>1, <2>2 DEF Height
  <2>5. IsDigest(L[2 * n])
    BY <2>4, SpineIsDigest
  <2>6. Spine(U[n], d + 1)
    BY <2>1, <2>3, <2>5, SpineNode
  <2> QED BY <2>6
<1>3. CASE ~ 2 * n <= l
  <2>1. U[n] = L[2 * n - 1]
    BY <1>1, <1>3 DEF IsAbove
  <2>2. 2 * n - 1 = l /\ n = u /\ l \in 1 .. l
    BY <1>1, <1>3
  <2>3. PICK k \in 0 .. d : Spine(L[l], k)
    BY <1>1, <2>2 DEF Height
  <2>4. k \in 0 .. d + 1 /\ ~ n < u
    BY <2>2
  <2> QED BY <2>1, <2>2, <2>3, <2>4
<1> QED BY <1>2, <1>3

LEMMA HeightOfLevels ==
    ASSUME NEW d \in Nat, NEW H, Levels(H, d), \A n \in 1 .. Len(H[0]) : IsPlainLeaf(H[0][n]),
           NEW k \in 0 .. d
    PROVE  Height(H[k], k)
<1> DEFINE T == {m \in Nat : m \in 0 .. k => Height(H[m], m)}
<1>1. 0 \in T
  <2>1. ASSUME NEW n \in 1 .. Len(H[0])
        PROVE  \E j \in 0 .. 0 : Spine(H[0][n], j) /\ (n < Len(H[0]) => j = 0)
    <3>1. Spine(H[0][n], 0) /\ 0 \in 0 .. 0
      BY SpineLeaf
    <3> QED BY <3>1
  <2> QED BY <2>1 DEF Height
<1>2. ASSUME NEW m \in 0 .. k - 1, m \in T PROVE m + 1 \in T
  <2>1. m \in 0 .. d - 1 /\ m \in 0 .. d /\ m + 1 \in 0 .. d /\ m \in 0 .. k /\ m + 1 \in Nat /\ m \in Nat
    OBVIOUS
  <2>2. Height(H[m], m)
    BY <1>2, <2>1
  <2>3. /\ IsSeq(H[m]) /\ IsSeq(H[m + 1]) /\ Len(H[m + 1]) = (Len(H[m]) + 1) \div 2
        /\ IsAbove(H[m + 1], H[m], Len(H[m + 1]))
    BY <2>1 DEF Levels
  <2>4. Height(H[m + 1], m + 1)
    BY <2>1, <2>2, <2>3, HeightAbove
  <2> QED BY <2>1, <2>4
<1> HIDE DEF T
<1>3. k \in T
  BY <1>1, <1>2, UpTo
<1> QED BY <1>3 DEF T

\* Two levels of one height have as many nodes if they are below one level:
\* a node of them that was passed on is lower than one that pairs two.
LEMMA SameLength ==
    ASSUME NoCollisions, NEW L, IsSeq(L), NEW M, IsSeq(M), NEW U, NEW d \in Nat,
           Height(L, d), Height(M, d), IsAbove(U, L, Len(U)), IsAbove(U, M, Len(U)),
           Len(U) = (Len(L) + 1) \div 2, Len(U) = (Len(M) + 1) \div 2
    PROVE  ~ Len(L) < Len(M)
<1> SUFFICES ASSUME Len(L) < Len(M) PROVE FALSE
  OBVIOUS
<1>1. PICK l \in Nat, m \in Nat, u \in Nat :
          /\ l = Len(L) /\ m = Len(M) /\ u = Len(U)
          /\ u = (l + 1) \div 2 /\ u = (m + 1) \div 2 /\ l < m
  BY SeqFacts
<1>2. l = 2 * u - 1 /\ m = 2 * u /\ u \in 1 .. u /\ l \in 1 .. l /\ l \in 1 .. m /\ m \in 1 .. m /\ l < m
  BY <1>1
<1>3. U[u] = L[l]
  <2>1. ~ 2 * u <= l
    BY <1>2
  <2> QED BY <1>1, <1>2, <2>1 DEF IsAbove
<1>4. U[u] = Node(M[l], M[m])
  <2>1. 2 * u <= m
    BY <1>2
  <2> QED BY <1>1, <1>2, <2>1 DEF IsAbove
<1>5. PICK k \in 0 .. d : Spine(L[l], k)
  BY <1>1, <1>2 DEF Height
<1>6. Spine(M[l], d)
  BY <1>1, <1>2 DEF Height
<1>7. PICK j \in 0 .. d : Spine(M[m], j)
  BY <1>1, <1>2 DEF Height
<1>8. IsDigest(M[m])
  BY <1>7, SpineIsDigest
<1>9. Spine(U[u], d + 1) /\ Spine(U[u], k)
  BY <1>3, <1>4, <1>5, <1>6, <1>8, SpineNode
<1>10. d + 1 \in Nat /\ k \in Nat /\ d + 1 # k
  OBVIOUS
<1> QED BY <1>9, <1>10, SpineIsOne

\* Levels of as many digests below one level are one level.
LEMMA SameBelow ==
    ASSUME NoCollisions, NEW L, IsSeq(L), NEW M, IsSeq(M), NEW U, Len(L) = Len(M),
           AllDigests(L), AllDigests(M), IsAbove(U, L, Len(U)), IsAbove(U, M, Len(U)),
           Len(U) = (Len(L) + 1) \div 2
    PROVE  L = M
<1>1. PICK l \in Nat, u \in Nat : l = Len(L) /\ l = Len(M) /\ u = Len(U) /\ u = (l + 1) \div 2
  BY SeqFacts
<1>2. ASSUME NEW n \in 1 .. l PROVE L[n] = M[n]
  <2>1. PICK k \in 1 .. u : n = 2 * k \/ n = 2 * k - 1
    <3>1. (n + 1) \div 2 \in 1 .. u /\ (n = 2 * ((n + 1) \div 2) \/ n = 2 * ((n + 1) \div 2) - 1)
      BY <1>1
    <3> QED BY <3>1
  <2>2. CASE 2 * k <= l
    <3>1. /\ U[k] = Node(L[2 * k - 1], L[2 * k])
          /\ U[k] = Node(M[2 * k - 1], M[2 * k])
      BY <1>1, <2>2 DEF IsAbove
    <3>2. PICK x \in 1 .. l, y \in 1 .. l : x = 2 * k - 1 /\ y = 2 * k
      BY <2>2
    <3>3. Node(L[x], L[y]) = Node(M[x], M[y])
      BY <3>1, <3>2
    <3>4. IsDigest(L[x]) /\ IsDigest(L[y]) /\ IsDigest(M[x]) /\ IsDigest(M[y])
      BY <1>1 DEF AllDigests
    <3>5. L[x] = M[x] /\ L[y] = M[y]
      BY <3>3, <3>4, NodeIsOne
    <3> QED BY <2>1, <3>2, <3>5
  <2>3. CASE ~ 2 * k <= l
    <3>1. U[k] = L[2 * k - 1] /\ U[k] = M[2 * k - 1]
      BY <1>1, <2>3 DEF IsAbove
    <3>2. n = 2 * k - 1
      BY <2>1, <2>3
    <3> QED BY <3>1, <3>2
  <2> QED BY <2>2, <2>3
<1> QED BY <1>1, <1>2, SameSeq

\* Trees of one height with one level at the top, and levels as long as each
\* other wherever the levels above them are one, have the same leaves.
LEMMA SameLeaves ==
    ASSUME NoCollisions, NEW d \in Nat, NEW H, Levels(H, d), NEW G, Levels(G, d), H[d] = G[d],
           AllDigests(H[0]), AllDigests(G[0]),
           \A k \in 0 .. d - 1 : H[k + 1] = G[k + 1] => Len(H[k]) = Len(G[k])
    PROVE  H[0] = G[0]
<1> DEFINE T == {m \in Nat : m \in 0 .. d => H[d - m] = G[d - m]}
<1>1. 0 \in T
  OBVIOUS
<1>2. ASSUME NEW m \in 0 .. d - 1, m \in T PROVE m + 1 \in T
  <2>1. PICK k \in Nat : /\ k = d - (m + 1) /\ k + 1 = d - m /\ k \in 0 .. d - 1 /\ k \in 0 .. d
                         /\ m \in 0 .. d /\ m + 1 \in Nat
    OBVIOUS
  <2>2. H[k + 1] = G[k + 1]
    BY <1>2, <2>1
  <2>3. Len(H[k]) = Len(G[k])
    BY <2>1, <2>2
  <2>4. AllDigests(H[k]) /\ AllDigests(G[k])
    BY <2>1, DigestsOfLevels
  <2>5. /\ IsSeq(H[k]) /\ Len(H[k + 1]) = (Len(H[k]) + 1) \div 2
        /\ IsAbove(H[k + 1], H[k], Len(H[k + 1]))
    BY <2>1 DEF Levels
  <2>6. /\ IsSeq(G[k]) /\ IsAbove(G[k + 1], G[k], Len(G[k + 1]))
    BY <2>1 DEF Levels
  <2>7. H[k] = G[k]
    BY <2>2, <2>3, <2>4, <2>5, <2>6, SameBelow
  <2> QED BY <2>1, <2>7
<1> HIDE DEF T
<1>3. d \in T
  BY <1>1, <1>2, UpTo
<1>4. d \in 0 .. d /\ d - d = 0
  OBVIOUS
<1> QED BY <1>3, <1>4 DEF T

\* Trees of as many leaves have levels of the same lengths, and as many levels.
LEMMA SameSizes ==
    ASSUME NEW d \in Nat, NEW H, Levels(H, d), NEW e \in Nat, NEW G, Levels(G, e),
           Len(H[0]) = Len(G[0]), NEW k \in 0 .. d, k \in 0 .. e
    PROVE  Len(H[k]) = Len(G[k])
<1> DEFINE T == {n \in Nat : n \in 0 .. k => Len(H[n]) = Len(G[n])}
<1>1. 0 \in T
  OBVIOUS
<1>2. ASSUME NEW n \in 0 .. k - 1, n \in T PROVE n + 1 \in T
  <2>1. /\ n \in 0 .. d - 1 /\ n \in 0 .. e - 1 /\ n \in 0 .. k /\ n + 1 \in Nat
    OBVIOUS
  <2>2. Len(H[n + 1]) = (Len(H[n]) + 1) \div 2 /\ Len(G[n + 1]) = (Len(G[n]) + 1) \div 2
    BY <2>1 DEF Levels
  <2> QED BY <1>2, <2>1, <2>2
<1> HIDE DEF T
<1>3. k \in T
  BY <1>1, <1>2, UpTo
<1> QED BY <1>3 DEF T

LEMMA SameHeight ==
    ASSUME NEW d \in Nat, NEW H, Levels(H, d), NEW e \in Nat, NEW G, Levels(G, e),
           Len(H[0]) = Len(G[0]), Len(H[d]) = 1, Len(G[e]) = 1
    PROVE  d = e
<1>1. ASSUME d < e PROVE FALSE
  <2>1. d \in 0 .. d /\ d \in 0 .. e /\ d \in 0 .. e - 1
    BY <1>1
  <2>2. Len(G[d]) > 1
    BY <2>1 DEF Levels
  <2>3. Len(G[d]) = 1
    BY <2>1, SameSizes
  <2> QED BY <2>2, <2>3
<1>2. ASSUME e < d PROVE FALSE
  <2>1. e \in 0 .. e /\ e \in 0 .. d /\ e \in 0 .. d - 1
    BY <1>2
  <2>2. Len(H[e]) > 1
    BY <2>1 DEF Levels
  <2>3. Len(H[e]) = 1
    BY <2>1, SameSizes
  <2> QED BY <2>2, <2>3
<1> QED BY <1>1, <1>2

LEMMA RootSpine ==
    ASSUME NEW d \in Nat, NEW H, Levels(H, d), \A n \in 1 .. Len(H[0]) : IsPlainLeaf(H[0][n]),
           Len(H[d]) = 1
    PROVE  Spine(H[d][1], d)
<1>1. CASE d = 0
  <2>1. 1 \in 1 .. Len(H[0])
    BY <1>1
  <2> QED BY <1>1, <2>1, SpineLeaf
<1>2. CASE d # 0
  <2>1. PICK e \in Nat : e + 1 = d /\ e \in 0 .. d - 1 /\ e \in 0 .. d
    <3>1. (d - 1) + 1 = d /\ d - 1 \in 0 .. d - 1 /\ d - 1 \in 0 .. d /\ d - 1 \in Nat
      BY <1>2
    <3> QED BY <3>1
  <2>2. /\ IsSeq(H[e]) /\ Len(H[e]) > 1
        /\ Len(H[d]) = (Len(H[e]) + 1) \div 2 /\ IsAbove(H[d], H[e], Len(H[d]))
    BY <2>1 DEF Levels
  <2>3. PICK m \in Nat : m = Len(H[e]) /\ m > 1 /\ 1 = (m + 1) \div 2
    BY <2>2, SeqFacts
  <2>4. m = 2
    <3>1. ASSUME NEW n \in Nat, n > 1, 1 = (n + 1) \div 2 PROVE n = 2
      BY <3>1
    <3> QED BY <2>3, <3>1
  <2>5. Height(H[e], e)
    BY <2>1, HeightOfLevels
  <2>6. Spine(H[e][1], e)
    <3>1. 1 \in 1 .. Len(H[e]) /\ 1 < Len(H[e])
      BY <2>3, <2>4
    <3> QED BY <2>5, <3>1 DEF Height
  <2>7. IsDigest(H[e][2])
    <3>1. 2 \in 1 .. Len(H[e])
      BY <2>3, <2>4
    <3>2. PICK k \in 0 .. e : Spine(H[e][2], k)
      BY <2>5, <3>1 DEF Height
    <3> QED BY <3>2, SpineIsDigest
  <2>8. H[d][1] = Node(H[e][1], H[e][2])
    <3>1. 1 \in 1 .. Len(H[d]) /\ 2 * 1 <= Len(H[e]) /\ 2 * 1 - 1 = 1 /\ 2 * 1 = 2
      BY <2>3, <2>4
    <3> QED BY <2>2, <3>1 DEF IsAbove
  <2> QED BY <2>1, <2>6, <2>7, <2>8, SpineNode
<1> QED BY <1>1, <1>2

AllLeaves(L) == IsSeq(L) /\ \A n \in 1 .. Len(L) : IsLeaf(L[n])
AllPlain(L) == \A n \in 1 .. Len(L) : IsPlainLeaf(L[n])

\* The root of a sequence of leaves is the root of no other sequence of as many,
\* in another order or with other leaves.  It may be that of a shorter one: of
\* the one leaf whose string is two digests, and of the two files they are of.
\* It is the root of no sequence of another length if no leaf of the two has a
\* string as long as two digests.
THEOREM RootBinds ==
    ASSUME NoCollisions, NEW L, AllLeaves(L), NEW M, AllLeaves(M), NEW r, IsRoot(r, L), IsRoot(r, M),
           Len(L) = Len(M) \/ (AllPlain(L) /\ AllPlain(M))
    PROVE  L = M
<1>1. ASSUME NEW K, AllLeaves(K), K # <<>>, IsRoot(r, K)
      PROVE  \E d \in Nat : \E H : Levels(H, d) /\ H[0] = K /\ Len(H[d]) = 1 /\ H[d][1] = r
  <2>1. PICK N : Climbs(K, N) /\ Len(N) = 1 /\ N[1] = r
    BY <1>1 DEF IsRoot
  <2>2. PICK d \in Nat : \E H : Levels(H, d) /\ H[0] = K /\ H[d] = N
    BY <2>1 DEF Climbs
  <2> QED BY <2>1, <2>2
<1>2. ASSUME NEW K, AllLeaves(K), K # <<>>, AllPlain(K), IsRoot(r, K), IsRoot(r, <<>>) PROVE FALSE
  <2>1. r = EmptyRoot
    <3>1. \A N : ~ Climbs(<<>>, N)
      BY ClimbsFromLeaves
    <3> QED BY <1>2, <3>1 DEF IsRoot
  <2>2. PICK d \in Nat : \E H : Levels(H, d) /\ H[0] = K /\ Len(H[d]) = 1 /\ H[d][1] = r
    BY <1>1, <1>2
  <2>3. Spine(EmptyRoot, d)
    BY <1>2, <2>1, <2>2, RootSpine DEF AllPlain
  <2>4. PICK g : /\ g[0] = EmptyRoot /\ IsPlainLeaf(g[d])
                 /\ \A k \in 0 .. d - 1 :
                       \E right : IsDigest(right) /\ IsDigest(g[k + 1]) /\ g[k] = Node(g[k + 1], right)
    BY <2>3 DEF Spine
  <2>5. CASE d = 0
    BY <2>4, <2>5, EmptyIsNoOther
  <2>6. CASE d # 0
    <3>1. 0 \in 0 .. d - 1
      BY <2>6
    <3>2. PICK right : IsDigest(right) /\ IsDigest(g[0 + 1]) /\ g[0] = Node(g[0 + 1], right)
      BY <2>4, <3>1
    <3> QED BY <2>4, <3>2, EmptyIsNoOther
  <2> QED BY <2>5, <2>6
<1>3. L = <<>> <=> M = <<>>
  <2>1. CASE Len(L) = Len(M)
    BY <2>1, SeqFacts DEF AllLeaves
  <2>2. CASE AllPlain(L) /\ AllPlain(M)
    BY <1>2, <2>2
  <2> QED BY <2>1, <2>2
<1>4. CASE L # <<>> /\ M # <<>>
  <2>1. PICK d \in Nat : \E H : Levels(H, d) /\ H[0] = L /\ Len(H[d]) = 1 /\ H[d][1] = r
    BY <1>1, <1>4
  <2>2. PICK H : Levels(H, d) /\ H[0] = L /\ Len(H[d]) = 1 /\ H[d][1] = r
    BY <2>1
  <2>3. PICK e \in Nat : \E G : Levels(G, e) /\ G[0] = M /\ Len(G[e]) = 1 /\ G[e][1] = r
    BY <1>1, <1>4
  <2>4. PICK G : Levels(G, e) /\ G[0] = M /\ Len(G[e]) = 1 /\ G[e][1] = r
    BY <2>3
  <2>5. d = e
    <3>1. CASE Len(L) = Len(M)
      BY <2>2, <2>4, <3>1, SameHeight
    <3>2. CASE AllPlain(L) /\ AllPlain(M)
      <4>1. Spine(r, d)
        BY <2>2, <3>2, RootSpine DEF AllPlain
      <4>2. Spine(r, e)
        BY <2>4, <3>2, RootSpine DEF AllPlain
      <4> QED BY <4>1, <4>2, SpineIsOne
    <3> QED BY <3>1, <3>2
  <2>6. Levels(H, d) /\ Levels(G, d) /\ H[d] = G[d]
    <3>1. IsSeq(H[d]) /\ IsSeq(G[d])
      <4>1. d \in 0 .. d
        OBVIOUS
      <4> QED BY <2>2, <2>4, <2>5, <4>1 DEF Levels
    <3>2. \A n \in 1 .. Len(H[d]) : H[d][n] = G[d][n]
      BY <2>2, <2>4, <2>5
    <3> QED BY <2>2, <2>4, <2>5, <3>1, <3>2, SameSeq
  <2>7. AllDigests(H[0]) /\ AllDigests(G[0])
    BY <2>2, <2>4, LeafIsDigest DEF AllLeaves, AllDigests
  <2>8. ASSUME NEW k \in 0 .. d - 1, H[k + 1] = G[k + 1] PROVE Len(H[k]) = Len(G[k])
    <3>1. k \in 0 .. d
      OBVIOUS
    <3>2. CASE Len(L) = Len(M)
      BY <2>2, <2>4, <2>6, <3>1, <3>2, SameSizes
    <3>3. CASE AllPlain(L) /\ AllPlain(M)
      <4>1. Height(H[k], k) /\ Height(G[k], k)
        BY <2>2, <2>4, <2>6, <3>1, <3>3, HeightOfLevels DEF AllPlain
      <4>2. PICK U : U = H[k + 1] /\ U = G[k + 1]
        BY <2>8
      <4>3. Len(U) = (Len(H[k]) + 1) \div 2 /\ IsAbove(U, H[k], Len(U))
        BY <2>6, <4>2 DEF Levels
      <4>4. Len(U) = (Len(G[k]) + 1) \div 2 /\ IsAbove(U, G[k], Len(U))
        BY <2>6, <4>2 DEF Levels
      <4>5. IsSeq(H[k]) /\ IsSeq(G[k]) /\ k \in Nat
        BY <2>6, <3>1 DEF Levels
      <4>6. ~ Len(H[k]) < Len(G[k]) /\ ~ Len(G[k]) < Len(H[k])
        BY <4>1, <4>3, <4>4, <4>5, SameLength
      <4>7. Len(H[k]) \in Nat /\ Len(G[k]) \in Nat
        BY <4>5, SeqFacts
      <4> QED BY <4>6, <4>7
    <3> QED BY <3>2, <3>3
  <2>9. H[0] = G[0]
    BY <2>6, <2>7, <2>8, SameLeaves
  <2> QED BY <2>2, <2>4, <2>9
<1> QED BY <1>3, <1>4

-----------------------------------------------------------------------------
(* The loop over the levels computes the tree of the recursion.            *)

\* The first powers of two.
Doubles(h, n) == h \in [0 .. n -> Nat] /\ h[0] = 1 /\ \A e \in 0 .. n - 1 : h[e + 1] = 2 * h[e]

LEMMA DoublesAreOne ==
    ASSUME NEW m \in Nat, NEW h, Doubles(h, m), NEW n \in Nat, NEW g, Doubles(g, n),
           NEW k \in 0 .. m, k \in 0 .. n
    PROVE  h[k] = g[k]
<1> DEFINE T == {e \in Nat : h[e] = g[e]}
<1>1. 0 \in T
  BY DEF Doubles
<1>2. ASSUME NEW e \in 0 .. k - 1, e \in T PROVE e + 1 \in T
  <2>1. e \in 0 .. m - 1 /\ e \in 0 .. n - 1 /\ e + 1 \in Nat
    OBVIOUS
  <2>2. h[e + 1] = 2 * h[e] /\ g[e + 1] = 2 * g[e]
    BY <2>1 DEF Doubles
  <2> QED BY <1>2, <2>1, <2>2
<1> HIDE DEF T
<1>3. k \in T
  BY <1>1, <1>2, UpTo
<1> QED BY <1>3 DEF T

LEMMA DoublesExist ==
    ASSUME NEW n \in Nat
    PROVE  \E h : Doubles(h, n)
<1> DEFINE T == {k \in Nat : \E h : Doubles(h, k)}
<1>1. 0 \in T
  <2>1. [e \in 0 .. 0 |-> 1] \in [0 .. 0 -> Nat] /\ [e \in 0 .. 0 |-> 1][0] = 1
    OBVIOUS
  <2>2. Doubles([e \in 0 .. 0 |-> 1], 0)
    BY <2>1 DEF Doubles
  <2> QED BY <2>2
<1>2. ASSUME NEW k \in 0 .. n - 1, k \in T PROVE k + 1 \in T
  <2>1. PICK h : Doubles(h, k)
    BY <1>2
  <2> DEFINE g == [e \in 0 .. k + 1 |-> IF e = k + 1 THEN 2 * h[k] ELSE h[e]]
  <2>2. /\ k \in 0 .. k /\ h[k] \in Nat /\ h[0] = 1 /\ \A e \in 0 .. k : h[e] \in Nat
        /\ \A e \in 0 .. k - 1 : h[e + 1] = 2 * h[e]
    BY <2>1 DEF Doubles
  <2>3. \A e \in 0 .. k + 1 : e = k + 1 \/ e \in 0 .. k
    OBVIOUS
  <2>4. g \in [0 .. k + 1 -> Nat] /\ g[0] = 1
    BY <2>2, <2>3
  <2>5. ASSUME NEW e \in 0 .. (k + 1) - 1 PROVE g[e + 1] = 2 * g[e]
    <3>1. e \in 0 .. k + 1 /\ e + 1 \in 0 .. k + 1 /\ e # k + 1 /\ g[e] = h[e]
      OBVIOUS
    <3>2. CASE e = k
      BY <3>1, <3>2
    <3>3. CASE e # k
      <4>1. e \in 0 .. k - 1 /\ e + 1 # k + 1
        BY <3>3
      <4>2. g[e + 1] = h[e + 1]
        BY <3>1, <4>1
      <4> QED BY <2>2, <3>1, <4>1, <4>2
    <3> QED BY <3>2, <3>3
  <2> HIDE DEF g
  <2>6. Doubles(g, k + 1)
    BY <2>4, <2>5 DEF Doubles
  <2> QED BY <2>6
<1> HIDE DEF T
<1>3. n \in T
  BY <1>1, <1>2, UpTo
<1> QED BY <1>3 DEF T

LEMMA PowerFacts ==
    /\ Power[0] = 1
    /\ \A e \in Nat : Power[e + 1] = 2 * Power[e] /\ Power[e] \in Nat /\ Power[e] > e
<1> DEFINE Body(g) == [e \in Nat |-> IF e = 0 THEN 1 ELSE 2 * g[e - 1]]
           First(e) == CHOOSE h : Doubles(h, e)
           p == [e \in Nat |-> First(e)[e]]
<1>1. \A e \in Nat : Doubles(First(e), e)
  BY DoublesExist
<1> HIDE DEF First
<1>2. ASSUME NEW e \in Nat PROVE p[e + 1] = 2 * p[e] /\ p[e] \in Nat
  <2>1. /\ Doubles(First(e), e) /\ Doubles(First(e + 1), e + 1) /\ e + 1 \in Nat
        /\ e \in 0 .. e /\ e \in 0 .. e + 1 /\ e \in 0 .. (e + 1) - 1
    BY <1>1
  <2>2. First(e + 1)[e] = First(e)[e]
    BY <2>1, DoublesAreOne
  <2>3. First(e + 1)[e + 1] = 2 * First(e + 1)[e]
    BY <2>1 DEF Doubles
  <2>4. First(e)[e] \in Nat
    BY <2>1 DEF Doubles
  <2> QED BY <2>1, <2>2, <2>3, <2>4
<1>3. p[0] = 1
  BY <1>1 DEF Doubles
<1>4. p = [e \in Nat |-> p[e]]
  OBVIOUS
<1> HIDE DEF p
<1>5. p = Body(p)
  <2>1. ASSUME NEW e \in Nat PROVE p[e] = IF e = 0 THEN 1 ELSE 2 * p[e - 1]
    <3>1. CASE e = 0
      BY <1>3, <3>1
    <3>2. CASE e # 0
      <4>1. PICK m \in Nat : m = e - 1 /\ m + 1 = e
        BY <3>2
      <4> QED BY <1>2, <3>2, <4>1
    <3> QED BY <3>1, <3>2
  <2> QED BY <1>4, <2>1
<1>6. Power = Body(Power)
  BY <1>5 DEF Power
<1>7. Power[0] = 1
  BY <1>6
<1>8. ASSUME NEW e \in Nat PROVE Power[e + 1] = 2 * Power[e]
  <2>1. e + 1 \in Nat /\ e + 1 # 0 /\ (e + 1) - 1 = e
    OBVIOUS
  <2> QED BY <1>6, <2>1
<1>9. ASSUME NEW n \in Nat PROVE Power[n] \in Nat /\ Power[n] > n
  <2> DEFINE T == {e \in Nat : Power[e] \in Nat /\ Power[e] > e}
  <2>1. 0 \in T
    BY <1>7
  <2>2. ASSUME NEW e \in 0 .. n - 1, e \in T PROVE e + 1 \in T
    BY <1>8, <2>2
  <2> HIDE DEF T
  <2>3. n \in T
    BY <2>1, <2>2, UpTo
  <2> QED BY <2>3 DEF T
<1> QED BY <1>7, <1>8, <1>9

LEMMA PowerGrows ==
    ASSUME NEW j \in Nat, NEW e \in Nat, j < e
    PROVE  2 * Power[j] <= Power[e]
<1> DEFINE T == {m \in Nat : 2 * Power[j] <= Power[j + 1 + m]}
<1>1. 0 \in T
  <2>1. (j + 1) + 0 = j + 1
    OBVIOUS
  <2>2. Power[j + 1] = 2 * Power[j] /\ Power[j] \in Nat
    BY PowerFacts
  <2> QED BY <2>1, <2>2
<1>2. ASSUME NEW m \in 0 .. (e - (j + 1)) - 1, m \in T PROVE m + 1 \in T
  <2>1. PICK k \in Nat : k = j + 1 + m /\ j + 1 + (m + 1) = k + 1 /\ m + 1 \in Nat
    OBVIOUS
  <2>2. Power[k + 1] = 2 * Power[k] /\ Power[k] \in Nat
    BY PowerFacts
  <2>3. 2 * Power[j] <= Power[k] /\ Power[j] \in Nat
    BY <1>2, <2>1, PowerFacts
  <2> QED BY <2>1, <2>2, <2>3
<1> HIDE DEF T
<1>3. e - (j + 1) \in Nat
  OBVIOUS
<1>4. e - (j + 1) \in T
  BY <1>1, <1>2, <1>3, UpTo
<1>5. j + 1 + (e - (j + 1)) = e
  OBVIOUS
<1> QED BY <1>4, <1>5 DEF T

\* The power of two below n that is no less than its half.
LEMMA LeftHalfIs ==
    ASSUME NEW n \in Nat, NEW e \in Nat, Power[e] < n, n <= 2 * Power[e]
    PROVE  LeftHalf(n) = Power[e]
<1>1. e \in 0 .. n
  BY PowerFacts
<1>2. Power[e] \in {Power[j] : j \in 0 .. n}
  BY <1>1
<1>3. ASSUME NEW k \in {Power[j] : j \in 0 .. n}, k < n, n <= 2 * k
      PROVE  k = Power[e]
  <2>1. PICK j \in Nat : k = Power[j]
    BY <1>3
  <2>2. k \in Nat /\ Power[e] \in Nat
    BY <2>1, PowerFacts
  <2>3. ~ j < e
    <3>1. ASSUME j < e PROVE FALSE
      <4>1. 2 * k <= Power[e]
        BY <2>1, <3>1, PowerGrows
      <4> QED BY <1>3, <2>2, <4>1
    <3> QED BY <3>1
  <2>4. ~ e < j
    <3>1. ASSUME e < j PROVE FALSE
      <4>1. 2 * Power[e] <= k
        BY <2>1, <3>1, PowerGrows
      <4> QED BY <1>3, <2>2, <4>1
    <3> QED BY <3>1
  <2>5. j = e
    BY <2>3, <2>4
  <2> QED BY <2>1, <2>5
<1> QED BY <1>2, <1>3 DEF LeftHalf

LEMMA LeftHalfFacts ==
    ASSUME NEW n \in Nat, n > 1
    PROVE  LeftHalf(n) \in 1 .. n - 1 /\ n - LeftHalf(n) \in 1 .. n - 1
<1>1. PICK e \in {m \in Nat : n <= Power[m + 1]} :
            \A m \in {m \in Nat : n <= Power[m + 1]} : e <= m
  <2>1. n \in {m \in Nat : n <= Power[m + 1]}
    <3>1. Power[n + 1] \in Nat /\ Power[n + 1] > n + 1
      BY PowerFacts
    <3> QED BY <3>1
  <2> QED BY <2>1, LeastNumber
<1>2. Power[e] \in Nat /\ Power[e] > e /\ n <= 2 * Power[e]
  BY <1>1, PowerFacts
<1>3. Power[e] < n
  <2>1. CASE e = 0
    BY <2>1, PowerFacts
  <2>2. CASE e # 0
    <3>1. PICK m \in Nat : e = m + 1
      <4>1. e - 1 \in Nat /\ e = (e - 1) + 1
        BY <2>2
      <4> QED BY <4>1
    <3>2. ~ e <= m
      BY <3>1
    <3>3. ~ n <= Power[m + 1]
      BY <1>1, <3>2
    <3> QED BY <1>2, <3>1, <3>3
  <2> QED BY <2>1, <2>2
<1>4. LeftHalf(n) = Power[e]
  BY <1>2, <1>3, LeftHalfIs
<1> QED BY <1>2, <1>3, <1>4

\* The roots of n leaves from those of a leaves and of the n - a after them.
Row(L, a, b, n) ==
    [lo \in 1 .. Len(L) - n + 1 |-> IF n = 1 THEN L[lo] ELSE Node(a[lo], b[lo + LeftHalf(n)])]

\* t[n][lo] is the root of the n leaves of L from L[lo] on, for n up to m.
Rows(t, L, m) ==
    \A n \in 1 .. m : t[n] = Row(L, t[LeftHalf(n)], t[n - LeftHalf(n)], n)

LEMMA RowsExist ==
    ASSUME NEW L, NEW m \in Nat
    PROVE  \E t : Rows(t, L, m)
<1> DEFINE T == {k \in Nat : \E t : Rows(t, L, k)}
<1>1. 0 \in T
  <2>1. Rows(<<>>, L, 0)
    BY DEF Rows
  <2> QED BY <2>1
<1>2. ASSUME NEW k \in 0 .. m - 1, k \in T PROVE k + 1 \in T
  <2>1. PICK t : Rows(t, L, k)
    BY <1>2
  <2>2. PICK u : /\ u[k + 1] = Row(L, t[LeftHalf(k + 1)], t[(k + 1) - LeftHalf(k + 1)], k + 1)
                 /\ \A n \in 1 .. k : u[n] = t[n]
    <3> DEFINE new == Row(L, t[LeftHalf(k + 1)], t[(k + 1) - LeftHalf(k + 1)], k + 1)
               u == [n \in 1 .. k + 1 |-> IF n = k + 1 THEN new ELSE t[n]]
    <3> HIDE DEF new
    <3>1. u[k + 1] = new /\ \A n \in 1 .. k : u[n] = t[n]
      OBVIOUS
    <3> QED BY <3>1 DEF new
  <2>3. ASSUME NEW n \in 1 .. k + 1, n > 1
        PROVE  u[LeftHalf(n)] = t[LeftHalf(n)] /\ u[n - LeftHalf(n)] = t[n - LeftHalf(n)]
    <3>1. LeftHalf(n) \in 1 .. n - 1 /\ n - LeftHalf(n) \in 1 .. n - 1
      BY <2>3, LeftHalfFacts
    <3>2. LeftHalf(n) \in 1 .. k /\ n - LeftHalf(n) \in 1 .. k
      BY <3>1
    <3> QED BY <2>2, <3>2
  <2>4. ASSUME NEW n \in 1 .. k + 1, NEW a, NEW b
        PROVE  n = 1 => Row(L, a, b, n) = [lo \in 1 .. Len(L) - n + 1 |-> L[lo]]
    BY DEF Row
  <2>5. ASSUME NEW n \in 1 .. k + 1
        PROVE  Row(L, u[LeftHalf(n)], u[n - LeftHalf(n)], n) = Row(L, t[LeftHalf(n)], t[n - LeftHalf(n)], n)
    <3>1. CASE n = 1
      BY <2>4, <3>1
    <3>2. CASE n # 1
      <4>1. n > 1
        BY <3>2
      <4> QED BY <2>3, <4>1
    <3> QED BY <3>1, <3>2
  <2>6. ASSUME NEW n \in 1 .. k + 1
        PROVE  u[n] = Row(L, t[LeftHalf(n)], t[n - LeftHalf(n)], n)
    <3>1. CASE n = k + 1
      BY <2>2, <3>1, Zenon
    <3>2. CASE n # k + 1
      <4>1. n \in 1 .. k
        BY <3>2
      <4> QED BY <2>1, <2>2, <4>1 DEF Rows
    <3> QED BY <3>1, <3>2
  <2>7. Rows(u, L, k + 1)
    BY <2>5, <2>6 DEF Rows
  <2> QED BY <2>7
<1> HIDE DEF T
<1>3. m \in T
  BY <1>1, <1>2, UpTo
<1> QED BY <1>3 DEF T

LEMMA TreeIsRows ==
    ASSUME NEW L, IsSeq(L), L # <<>>
    PROVE  \E t : Rows(t, L, Len(L)) /\ TreeOf(L) = t[Len(L)][1]
<1>1. PICK N \in Nat : N = Len(L)
  BY DEF IsSeq
<1> DEFINE Body(t) ==
        [n \in 1 .. N |->
            [lo \in 1 .. N - n + 1 |->
                IF n = 1 THEN L[lo]
                ELSE Node(t[LeftHalf(n)][lo], t[n - LeftHalf(n)][lo + LeftHalf(n)])]]
           tree == CHOOSE t : t = Body(t)
<1>2. ASSUME NEW t
      PROVE  Body(t) = [n \in 1 .. N |-> Row(L, t[LeftHalf(n)], t[n - LeftHalf(n)], n)]
  BY <1>1 DEF Row
<1>3. \E t : t = Body(t)
  <2>1. PICK r : Rows(r, L, N)
    BY RowsExist
  <2> DEFINE t == [n \in 1 .. N |-> r[n]]
  <2>2. ASSUME NEW n \in 1 .. N
        PROVE  t[n] = Row(L, t[LeftHalf(n)], t[n - LeftHalf(n)], n)
    <3>1. t[n] = Row(L, r[LeftHalf(n)], r[n - LeftHalf(n)], n)
      BY <2>1 DEF Rows
    <3>2. CASE n = 1
      BY <3>1, <3>2 DEF Row
    <3>3. CASE n # 1
      <4>1. LeftHalf(n) \in 1 .. N /\ n - LeftHalf(n) \in 1 .. N
        <5>1. n \in Nat /\ n > 1
          BY <3>3
        <5>2. LeftHalf(n) \in 1 .. n - 1 /\ n - LeftHalf(n) \in 1 .. n - 1
          BY <5>1, LeftHalfFacts
        <5> QED BY <5>2
      <4>2. t[LeftHalf(n)] = r[LeftHalf(n)] /\ t[n - LeftHalf(n)] = r[n - LeftHalf(n)]
        BY <4>1
      <4> QED BY <3>1, <4>2
    <3> QED BY <3>2, <3>3
  <2>3. t = [n \in 1 .. N |-> t[n]]
    OBVIOUS
  <2> HIDE DEF t
  <2>4. t = [n \in 1 .. N |-> Row(L, t[LeftHalf(n)], t[n - LeftHalf(n)], n)]
    BY <2>2, <2>3
  <2>5. t = Body(t)
    BY <1>2, <2>4
  <2> QED BY <2>5
<1>4. tree = Body(tree)
  BY <1>3
<1>5. TreeOf(L) = tree[N][1]
  BY <1>1 DEF TreeOf
<1> HIDE DEF tree
<1>6. tree = [n \in 1 .. N |-> Row(L, tree[LeftHalf(n)], tree[n - LeftHalf(n)], n)]
  BY <1>2, <1>4
<1>7. Rows(tree, L, N)
  BY <1>6 DEF Rows
<1> QED BY <1>1, <1>5, <1>7

LEMMA RowFacts ==
    ASSUME NEW L, IsSeq(L), NEW t, Rows(t, L, Len(L))
    PROVE  /\ \A lo \in 1 .. Len(L) : t[1][lo] = L[lo]
           /\ \A n \in 2 .. Len(L) : \A lo \in 1 .. Len(L) - n + 1 :
                 t[n][lo] = Node(t[LeftHalf(n)][lo], t[n - LeftHalf(n)][lo + LeftHalf(n)])
<1>1. PICK N \in Nat : N = Len(L)
  BY DEF IsSeq
<1>2. ASSUME NEW lo \in 1 .. N PROVE t[1][lo] = L[lo]
  <2>1. 1 \in 1 .. N /\ lo \in 1 .. N - 1 + 1
    OBVIOUS
  <2>2. t[1] = Row(L, t[LeftHalf(1)], t[1 - LeftHalf(1)], 1)
    BY <1>1, <2>1 DEF Rows
  <2> QED BY <1>1, <2>1, <2>2 DEF Row
<1>3. ASSUME NEW n \in 2 .. N, NEW lo \in 1 .. N - n + 1
      PROVE  t[n][lo] = Node(t[LeftHalf(n)][lo], t[n - LeftHalf(n)][lo + LeftHalf(n)])
  <2>1. n \in 1 .. N /\ n # 1
    OBVIOUS
  <2>2. t[n] = Row(L, t[LeftHalf(n)], t[n - LeftHalf(n)], n)
    BY <1>1, <2>1 DEF Rows
  <2> QED BY <1>1, <2>1, <2>2 DEF Row
<1> QED BY <1>1, <1>2, <1>3

\* M lists the roots of the stretches the leaves of L fall into: stretches of
\* w leaves, and a last one of at most w.
Covers(t, L, M, w) ==
    \E st \in [1 .. Len(M) -> Nat] :
        /\ st[1] = 0
        /\ \A k \in 1 .. Len(M) - 1 : st[k + 1] = st[k] + w /\ M[k] = t[w][st[k] + 1]
        /\ \A k \in 1 .. Len(M) : st[k] < Len(L)
        /\ Len(L) - st[Len(M)] \in 1 .. w
        /\ M[Len(M)] = t[Len(L) - st[Len(M)]][st[Len(M)] + 1]

\* The root of two neighbouring stretches of a level.
PairsAt(t, w, N) ==
    \A s \in Nat, r \in 1 .. w :
        s + w + r <= N => t[w + r][s + 1] = Node(t[w][s + 1], t[r][s + w + 1])

LEMMA PairedStretch ==
    ASSUME NEW L, IsSeq(L), NEW t, Rows(t, L, Len(L)), NEW e \in Nat,
           NEW N \in Nat, N = Len(L), NEW w \in Nat, w = Power[e]
    PROVE  PairsAt(t, w, N)
<1> SUFFICES ASSUME NEW s \in Nat, NEW r \in 1 .. w, s + w + r <= N
             PROVE  t[w + r][s + 1] = Node(t[w][s + 1], t[r][s + w + 1])
  BY DEF PairsAt
<1>1. PICK n \in Nat : n = w + r
  OBVIOUS
<1>2. n \in 2 .. N /\ s + 1 \in 1 .. N - n + 1 /\ w < n /\ n <= 2 * w
  <2>1. n \in 2 .. N /\ w < n /\ n <= 2 * w
    <3>1. r \in Nat /\ 1 <= r /\ r <= w
      OBVIOUS
    <3>2. w < n /\ n <= 2 * w /\ 2 <= n
      BY <1>1, <3>1
    <3>3. n <= N
      BY <1>1, <3>1
    <3> QED BY <3>2, <3>3
  <2>2. s + 1 \in 1 .. N - n + 1
    <3>1. s + n <= N
      BY <1>1
    <3> QED BY <3>1
  <2> QED BY <2>1, <2>2
<1>3. LeftHalf(n) = w
  BY <1>1, <1>2, LeftHalfIs
<1>4. n - w = r /\ (s + 1) + w = s + w + 1
  BY <1>1
<1>5. t[n][s + 1] = Node(t[LeftHalf(n)][s + 1], t[n - LeftHalf(n)][(s + 1) + LeftHalf(n)])
  <2>1. \A m \in 2 .. N : \A lo \in 1 .. N - m + 1 :
           t[m][lo] = Node(t[LeftHalf(m)][lo], t[m - LeftHalf(m)][lo + LeftHalf(m)])
    BY RowFacts
  <2> QED BY <1>2, <2>1
<1>6. t[n][s + 1] = Node(t[w][s + 1], t[r][s + w + 1])
  BY <1>3, <1>4, <1>5
<1> QED BY <1>1, <1>6

LEMMA LeavesCovered ==
    ASSUME NEW L, IsSeq(L), L # <<>>, NEW t, Rows(t, L, Len(L))
    PROVE  Covers(t, L, L, Power[0])
<1>1. PICK N \in Nat : N = Len(L) /\ N > 0
  BY DEF IsSeq
<1> DEFINE st == [k \in 1 .. N |-> k - 1]
<1>2. st \in [1 .. N -> Nat] /\ st[1] = 0 /\ \A k \in 1 .. N : st[k] < N /\ st[k] + 1 = k
  BY <1>1
<1>3. \A k \in 1 .. N - 1 : st[k + 1] = st[k] + 1
  BY <1>1
<1>4. N - st[N] = 1 /\ st[N] + 1 = N /\ N \in 1 .. N
  BY <1>1
<1> HIDE DEF st
<1>5. \A k \in 1 .. N : L[k] = t[1][k]
  BY <1>1, RowFacts
<1>6. \A k \in 1 .. N - 1 : L[k] = t[1][st[k] + 1]
  <2>1. \A k \in 1 .. N - 1 : k \in 1 .. N
    OBVIOUS
  <2> QED BY <1>2, <1>5, <2>1
<1>7. N - st[N] \in 1 .. 1 /\ L[N] = t[N - st[N]][st[N] + 1]
  BY <1>4, <1>5
<1>8. Covers(t, L, L, 1)
  BY <1>1, <1>2, <1>3, <1>6, <1>7 DEF Covers
<1> QED BY <1>8, PowerFacts

LEMMA EvenOrOdd ==
    ASSUME NEW l \in Nat, l > 1
    PROVE  /\ (l + 1) \div 2 > 0
           /\ l = 2 * ((l + 1) \div 2) \/ l = 2 * ((l + 1) \div 2) - 1
OBVIOUS

LEMMA LevelCovered ==
    ASSUME NEW L, IsSeq(L), NEW t, Rows(t, L, Len(L)), NEW e \in Nat,
           NEW M, IsSeq(M), Len(M) > 1, Covers(t, L, M, Power[e]),
           NEW U, IsSeq(U), Len(U) = (Len(M) + 1) \div 2, IsAbove(U, M, Len(U))
    PROVE  Covers(t, L, U, Power[e + 1])
<1>1. PICK N \in Nat, l \in Nat, u \in Nat, w \in Nat :
          /\ N = Len(L) /\ l = Len(M) /\ u = Len(U) /\ w = Power[e]
          /\ l > 1 /\ u = (l + 1) \div 2 /\ w > 0
  <2>1. Len(L) \in Nat /\ Len(M) \in Nat /\ Len(U) \in Nat
    BY DEF IsSeq
  <2>2. Power[e] \in Nat /\ Power[e] > e
    BY PowerFacts
  <2> QED BY <2>1, <2>2
<1>2. PICK st \in [1 .. l -> Nat] :
          /\ st[1] = 0
          /\ \A k \in 1 .. l - 1 : st[k + 1] = st[k] + w /\ M[k] = t[w][st[k] + 1]
          /\ \A k \in 1 .. l : st[k] < N
          /\ N - st[l] \in 1 .. w
          /\ M[l] = t[N - st[l]][st[l] + 1]
  BY <1>1 DEF Covers
<1>3. Power[e + 1] = 2 * w
  BY <1>1, PowerFacts
<1>4. ASSUME NEW s \in Nat, NEW r \in Nat, r > 0, r <= w, s + w + r <= N
      PROVE  t[w + r][s + 1] = Node(t[w][s + 1], t[r][s + w + 1])
  <2>1. PairsAt(t, w, N)
    BY <1>1, PairedStretch
  <2>2. r \in 1 .. w
    BY <1>4
  <2> QED BY <1>4, <2>1, <2>2 DEF PairsAt
<1>5. u > 0 /\ (l = 2 * u \/ l = 2 * u - 1)
  BY <1>1, EvenOrOdd
<1> DEFINE g == [k \in 1 .. u |-> st[2 * k - 1]]
<1>6. \A k \in 1 .. u : 2 * k - 1 \in 1 .. l
  BY <1>5
<1>7. g \in [1 .. u -> Nat] /\ \A k \in 1 .. u : g[k] = st[2 * k - 1] /\ g[k] < N
  BY <1>2, <1>6
<1>8. g[1] = 0
  BY <1>2, <1>5
<1> HIDE DEF g
<1>9. ASSUME NEW k \in 1 .. u - 1
      PROVE  g[k + 1] = g[k] + 2 * w /\ U[k] = t[2 * w][g[k] + 1]
  <2>1. PICK a \in 1 .. l, b \in 1 .. l, c \in 1 .. l :
            /\ a = 2 * k - 1 /\ b = 2 * k /\ c = 2 * (k + 1) - 1
            /\ b = a + 1 /\ c = b + 1 /\ a \in 1 .. l - 1 /\ b \in 1 .. l - 1
    <3>1. 2 * k - 1 \in 1 .. l /\ 2 * k \in 1 .. l /\ 2 * (k + 1) - 1 \in 1 .. l
      BY <1>5
    <3>2. /\ 2 * k = (2 * k - 1) + 1 /\ 2 * (k + 1) - 1 = 2 * k + 1
          /\ 2 * k - 1 \in 1 .. l - 1 /\ 2 * k \in 1 .. l - 1
      BY <1>5
    <3> QED BY <3>1, <3>2
  <2>2. k \in 1 .. u /\ k + 1 \in 1 .. u
    BY <1>5
  <2>3. g[k] = st[a] /\ g[k + 1] = st[c]
    BY <1>7, <2>1, <2>2
  <2>4. PICK p \in Nat, q \in Nat, r \in Nat : p = st[a] /\ q = st[b] /\ r = st[c]
    OBVIOUS
  <2>5. q = p + w /\ r = q + w /\ r < N /\ M[a] = t[w][p + 1] /\ M[b] = t[w][q + 1]
    BY <1>2, <2>1, <2>4
  <2>6. U[k] = Node(M[a], M[b])
    BY <1>1, <2>1, <2>2 DEF IsAbove
  <2>7. p + w + w <= N
    BY <2>5
  <2>8. t[w + w][p + 1] = Node(t[w][p + 1], t[w][p + w + 1])
    <3>1. w > 0 /\ w <= w
      BY <1>1
    <3> QED BY <1>4, <2>7, <3>1
  <2>9. w + w = 2 * w /\ r = p + 2 * w
    BY <2>5
  <2> QED BY <2>3, <2>4, <2>5, <2>6, <2>8, <2>9
<1>10. N - g[u] \in 1 .. 2 * w /\ U[u] = t[N - g[u]][g[u] + 1]
  <2>1. u \in 1 .. u /\ l \in 1 .. l
    BY <1>1, <1>5
  <2>2. CASE l = 2 * u
    <3>1. PICK a \in 1 .. l : a = 2 * u - 1 /\ l = a + 1 /\ a \in 1 .. l - 1
      <4>1. 2 * u - 1 \in 1 .. l /\ l = (2 * u - 1) + 1 /\ 2 * u - 1 \in 1 .. l - 1
        BY <1>5, <2>2
      <4> QED BY <4>1
    <3>2. PICK p \in Nat, q \in Nat, r \in Nat : p = st[a] /\ q = st[l] /\ r = N - q
      <4>1. N - st[l] \in 1 .. w /\ st[a] \in Nat /\ st[l] \in Nat
        BY <1>2, <2>1
      <4>2. N - st[l] \in Nat
        BY <4>1
      <4> QED BY <4>1, <4>2
    <3>3. q = p + w /\ r \in 1 .. w /\ M[a] = t[w][p + 1] /\ M[l] = t[r][q + 1]
      BY <1>2, <3>1, <3>2
    <3>4. U[u] = Node(M[a], M[l])
      <4>1. 2 * u <= l
        BY <2>2
      <4>2. U[u] = Node(M[2 * u - 1], M[2 * u])
        BY <1>1, <2>1, <4>1 DEF IsAbove
      <4> QED BY <2>2, <3>1, <4>2
    <3>5. p + w + r <= N /\ N - p = w + r /\ N - p \in 1 .. 2 * w /\ r > 0 /\ r <= w
      <4>1. q = p + w /\ r \in 1 .. w /\ r = N - q
        BY <3>2, <3>3
      <4> QED BY <4>1
    <3>6. t[w + r][p + 1] = Node(t[w][p + 1], t[r][p + w + 1])
      BY <1>4, <3>5
    <3>7. g[u] = p
      BY <1>7, <2>1, <3>1, <3>2
    <3> QED BY <3>3, <3>4, <3>5, <3>6, <3>7
  <2>3. CASE l = 2 * u - 1
    <3>1. ~ 2 * u <= l
      BY <1>5, <2>3
    <3>2. U[u] = M[l]
      BY <1>1, <2>1, <2>3, <3>1 DEF IsAbove
    <3>3. g[u] = st[l]
      BY <1>7, <2>1, <2>3
    <3>4. 1 .. w \subseteq 1 .. 2 * w
      OBVIOUS
    <3> QED BY <1>2, <3>2, <3>3, <3>4
  <2> QED BY <1>5, <2>2, <2>3
<1>11. Covers(t, L, U, 2 * w)
  BY <1>1, <1>7, <1>8, <1>9, <1>10 DEF Covers
<1> QED BY <1>3, <1>11

\* What the loop over the levels of a sequence of leaves ends with is the
\* tree of the recursion.
LEMMA LevelsMakeTheTree ==
    ASSUME NEW L, IsSeq(L), NEW r, IsRoot(r, L)
    PROVE  r = TreeOf(L)
<1>1. CASE L = <<>>
  <2>1. TreeOf(L) = EmptyRoot
    BY <1>1 DEF TreeOf
  <2>2. \A M : ~ Climbs(L, M)
    BY <1>1, ClimbsFromLeaves
  <2> QED BY <2>1, <2>2 DEF IsRoot
<1>2. CASE L # <<>>
  <2>1. PICK M : Climbs(L, M) /\ Len(M) = 1 /\ M[1] = r
    BY <1>2 DEF IsRoot
  <2>2. PICK d \in Nat : \E H : Levels(H, d) /\ H[0] = L /\ H[d] = M
    BY <2>1 DEF Climbs
  <2>3. PICK H : Levels(H, d) /\ H[0] = L /\ H[d] = M
    BY <2>2
  <2>4. PICK t : Rows(t, L, Len(L)) /\ TreeOf(L) = t[Len(L)][1]
    BY <1>2, TreeIsRows
  <2> DEFINE T == {k \in Nat : Covers(t, L, H[k], Power[k])}
  <2>5. 0 \in T
    BY <1>2, <2>3, <2>4, LeavesCovered
  <2>6. ASSUME NEW k \in 0 .. d - 1, k \in T PROVE k + 1 \in T
    <3>1. /\ k \in 0 .. d /\ k + 1 \in 0 .. d /\ k \in Nat /\ k + 1 \in Nat
      OBVIOUS
    <3>2. /\ IsSeq(H[k]) /\ IsSeq(H[k + 1]) /\ Len(H[k]) > 1
          /\ Len(H[k + 1]) = (Len(H[k]) + 1) \div 2
          /\ IsAbove(H[k + 1], H[k], Len(H[k + 1]))
      BY <2>3, <3>1 DEF Levels
    <3>3. Covers(t, L, H[k + 1], Power[k + 1])
      BY <2>4, <2>6, <3>1, <3>2, LevelCovered
    <3> QED BY <3>1, <3>3
  <2> HIDE DEF T
  <2>7. d \in T
    BY <2>5, <2>6, UpTo
  <2>8. Covers(t, L, M, Power[d])
    BY <2>3, <2>7 DEF T
  <2>9. PICK st \in [1 .. Len(M) -> Nat] : st[1] = 0 /\ M[Len(M)] = t[Len(L) - st[Len(M)]][st[Len(M)] + 1]
    BY <2>8 DEF Covers
  <2>10. M[1] = t[Len(L) - st[1]][st[1] + 1]
    BY <2>1, <2>9
  <2>11. Len(L) \in Nat
    BY DEF IsSeq
  <2>12. Len(L) - 0 = Len(L) /\ 0 + 1 = 1
    BY <2>11
  <2>13. M[1] = t[Len(L)][1]
    BY <2>9, <2>10, <2>12
  <2> QED BY <2>1, <2>4, <2>13
<1> QED BY <1>1, <1>2

-----------------------------------------------------------------------------
(* Directories and the sequences of files they are written from.           *)

Entry == [name : Bytes, content : Contents]

\* A directory: what is in finitely many files.
IsMap(P) ==
    /\ IsFiniteSet(DOMAIN P) /\ P = [p \in DOMAIN P |-> P[p]]
    /\ \A p \in DOMAIN P : p \in Path /\ p # <<>> /\ P[p] \in Contents

LeavesOf(P) ==
    LET paths == Sorted(DOMAIN P)
    IN  [k \in DOMAIN paths |-> Leaf(LeafName(paths[k]), P[paths[k]])]

LEMMA OrderFacts ==
    ASSUME NEW P, IsMap(P)
    PROVE  /\ InOrder(P) \in Seq(Entry) /\ DOMAIN InOrder(P) = DOMAIN Sorted(DOMAIN P)
           /\ AllLeaves(LeavesOf(P)) /\ DOMAIN LeavesOf(P) = DOMAIN Sorted(DOMAIN P)
           /\ \A k \in DOMAIN Sorted(DOMAIN P) :
                 LET p == Sorted(DOMAIN P)[k]
                 IN  /\ p \in DOMAIN P
                     /\ InOrder(P)[k].name = EntryName(p) /\ InOrder(P)[k].content = P[p]
                     /\ LeavesOf(P)[k] = Leaf(LeafName(p), P[p])
           /\ \A p \in DOMAIN P : \E k \in DOMAIN Sorted(DOMAIN P) : Sorted(DOMAIN P)[k] = p
           /\ \A j, k \in DOMAIN Sorted(DOMAIN P) :
                 Sorted(DOMAIN P)[j] = Sorted(DOMAIN P)[k] => j = k
           /\ LeavesOf(P) = <<>> <=> DOMAIN P = {}
<1>1. DOMAIN P \in SUBSET Path /\ IsFiniteSet(DOMAIN P)
  BY DEF IsMap
<1> DEFINE paths == Sorted(DOMAIN P)
<1>2. /\ paths \in Seq(DOMAIN P)
      /\ \A p \in DOMAIN P : \E k \in DOMAIN paths : paths[k] = p
      /\ \A j, k \in DOMAIN paths : paths[j] = paths[k] => j = k
  BY <1>1, SortedFacts
<1>3. /\ InOrder(P) = [k \in DOMAIN paths |-> File(EntryName(paths[k]), P[paths[k]])]
      /\ LeavesOf(P) = [k \in DOMAIN paths |-> Leaf(LeafName(paths[k]), P[paths[k]])]
  BY DEF InOrder, LeavesOf
<1> HIDE DEF paths
<1>4. PICK N \in Nat : N = Len(paths) /\ DOMAIN paths = 1 .. N
  BY <1>2
<1>5. ASSUME NEW k \in DOMAIN paths
      PROVE  /\ paths[k] \in DOMAIN P
             /\ File(EntryName(paths[k]), P[paths[k]]) \in Entry
             /\ IsLeaf(Leaf(LeafName(paths[k]), P[paths[k]]))
  <2>1. paths[k] \in DOMAIN P
    BY <1>2
  <2>2. EntryName(paths[k]) \in Bytes /\ P[paths[k]] \in Contents
    BY <2>1, EntryNameFacts DEF IsMap
  <2> QED BY <2>1, <2>2 DEF File, Entry, IsLeaf
<1>6. InOrder(P) \in Seq(Entry)
  BY <1>3, <1>4, <1>5
<1>7. AllLeaves(LeavesOf(P)) /\ Len(LeavesOf(P)) = N
  <2>1. PICK D : D = {LeavesOf(P)[k] : k \in 1 .. N}
    OBVIOUS
  <2>2. LeavesOf(P) \in Seq(D) /\ Len(LeavesOf(P)) = N
    BY <1>3, <1>4, <2>1
  <2>3. \A n \in 1 .. N : IsLeaf(LeavesOf(P)[n])
    BY <1>3, <1>4, <1>5
  <2> QED BY <2>2, <2>3 DEF AllLeaves, IsSeq
<1>8. ASSUME NEW k \in DOMAIN paths
      PROVE  /\ InOrder(P)[k].name = EntryName(paths[k]) /\ InOrder(P)[k].content = P[paths[k]]
             /\ LeavesOf(P)[k] = Leaf(LeafName(paths[k]), P[paths[k]])
  BY <1>3 DEF File
<1>9. LeavesOf(P) = <<>> <=> DOMAIN P = {}
  <2>1. LeavesOf(P) = <<>> <=> N = 0
    BY <1>7, SeqFacts DEF AllLeaves
  <2>2. N = 0 <=> DOMAIN P = {}
    <3>1. N = 0 <=> DOMAIN paths = {}
      BY <1>4
    <3>2. DOMAIN paths = {} <=> DOMAIN P = {}
      <4>1. \A k \in DOMAIN paths : paths[k] \in DOMAIN P
        BY <1>2
      <4> QED BY <1>2, <4>1
    <3> QED BY <3>1, <3>2
  <2> QED BY <2>1, <2>2
<1>10. DOMAIN InOrder(P) = DOMAIN paths /\ DOMAIN LeavesOf(P) = DOMAIN paths
  BY <1>3
<1> QED BY <1>2, <1>5, <1>6, <1>7, <1>8, <1>9, <1>10 DEF paths

PrefixFree(S) == \A p, q \in S : ~ IsStrictPrefix(p, q)

LEMMA WrittenFacts ==
    ASSUME NEW files \in Seq(Entry), AllWritten(files)
    PROVE  /\ IsMap(Written(files)) /\ PrefixFree(DOMAIN Written(files))
           /\ DOMAIN Written(files) = {Names(files[k].name) : k \in DOMAIN files}
           /\ \A p \in DOMAIN Written(files) :
                 \E k \in DOMAIN files : p = Names(files[k].name) /\ Written(files)[p] = files[k].content
<1> DEFINE named == {Names(files[k].name) : k \in DOMAIN files}
           same(p) == {k \in DOMAIN files : Names(files[k].name) = p}
           last(p) == CHOOSE k \in same(p) : \A j \in same(p) : j <= k
<1>1. Written(files) = [p \in named |-> files[last(p)].content]
  BY DEF Written
<1>2. PICK N \in Nat : N = Len(files) /\ DOMAIN files = 1 .. N
  OBVIOUS
<1>3. ASSUME NEW p \in named PROVE last(p) \in DOMAIN files /\ Names(files[last(p)].name) = p
  <2>1. same(p) \in SUBSET (0 .. N) /\ same(p) # {}
    BY <1>2
  <2>2. \E k \in same(p) : \A j \in same(p) : j <= k
    <3> HIDE DEF same
    <3> QED BY <2>1, GreatestNumber
  <2>3. last(p) \in same(p)
    <3> HIDE DEF same
    <3> QED BY <2>2
  <2> QED BY <2>3
<1>4. IsFiniteSet(named)
  <2>1. IsFiniteSet(1 .. N)
    BY FS_Interval
  <2> DEFINE f == [k \in 1 .. N |-> Names(files[k].name)]
  <2>2. f \in Surjection(1 .. N, named)
    BY <1>2 DEF Surjection
  <2> HIDE DEF f, named
  <2> QED BY <2>1, <2>2, FS_Surjection
<1>5. ASSUME NEW k \in DOMAIN files
      PROVE  files[k].name \in Bytes /\ files[k].content \in Contents
             /\ Names(files[k].name) \in Path /\ Names(files[k].name) # <<>>
  <2>1. files[k] \in Entry
    OBVIOUS
  <2>2. files[k].name \in Bytes /\ files[k].content \in Contents
    BY <2>1 DEF Entry
  <2>3. CanBeFile(files[k].name)
    BY DEF AllWritten
  <2> QED BY <2>2, <2>3, NamesFacts
<1>6. PrefixFree(named)
  BY DEF PrefixFree, AllWritten
<1> HIDE DEF last
<1>7. /\ DOMAIN Written(files) = named
      /\ \A p \in named : Written(files)[p] = files[last(p)].content
      /\ Written(files) = [p \in named |-> Written(files)[p]]
  BY <1>1
<1>8. \A p \in named : p \in Path /\ p # <<>> /\ Written(files)[p] \in Contents
  BY <1>3, <1>5, <1>7
<1> HIDE DEF named
<1>9. IsMap(Written(files))
  BY <1>4, <1>7, <1>8 DEF IsMap
<1> QED BY <1>3, <1>6, <1>7, <1>9 DEF named

\* What is written under names that are UTF-8 and have no backslash has, all
\* along its path, the names it was written from.
LEMMA WrittenAreClean ==
    ASSUME NEW files \in Seq(Entry), AllWritten(files),
           \A k \in DOMAIN files : Utf8(files[k].name) /\ ~ Has(files[k].name, Backslash)
    PROVE  \A p \in DOMAIN Written(files) : CleanPath(p)
<1> SUFFICES ASSUME NEW k \in DOMAIN files PROVE CleanPath(Names(files[k].name))
  BY WrittenFacts
<1>1. files[k] \in Entry
  OBVIOUS
<1>2. files[k].name \in Bytes
  BY <1>1 DEF Entry
<1>3. ValidRelative(files[k].name) /\ CanBeFile(files[k].name)
  BY DEF AllWritten
<1> QED BY <1>2, <1>3, NamesAreClean

FilesOf(e) == Picked(e, {k \in DOMAIN e : ~ IsDirEntry(e[k].name)})

LEMMA FilesFacts ==
    ASSUME NEW e \in Seq(Entry)
    PROVE  /\ FilesOf(e) \in Seq(Entry)
           /\ \A n \in DOMAIN FilesOf(e) :
                 \E k \in DOMAIN e : FilesOf(e)[n] = e[k] /\ ~ IsDirEntry(e[k].name)
           /\ \A k \in DOMAIN e :
                 IsDirEntry(e[k].name) \/ \E n \in DOMAIN FilesOf(e) : FilesOf(e)[n] = e[k]
<1> DEFINE S == {k \in DOMAIN e : ~ IsDirEntry(e[k].name)}
<1>1. S \in SUBSET DOMAIN e /\ FilesOf(e) = Picked(e, S)
  BY DEF FilesOf
<1>2. \A k \in DOMAIN e : k \in S <=> ~ IsDirEntry(e[k].name)
  OBVIOUS
<1> HIDE DEF S
<1>3. /\ Picked(e, S) \in Seq(Entry)
      /\ \A n \in DOMAIN Picked(e, S) : \E k \in S : Picked(e, S)[n] = e[k]
      /\ \A k \in S : \E n \in DOMAIN Picked(e, S) : Picked(e, S)[n] = e[k]
  BY <1>1, PickedFacts
<1> QED BY <1>1, <1>2, <1>3

\* A directory of such names is archived and written again without a loss.
CleanDir(P) ==
    IsMap(P) /\ PrefixFree(DOMAIN P) /\ \A p \in DOMAIN P : CleanPath(p)

LEMMA CleanRoundTrip ==
    ASSUME NEW P, CleanDir(P)
    PROVE  /\ \A p \in DOMAIN P : Writable(p)
           /\ FilesOf(InOrder(P)) = InOrder(P)
           /\ AllWritten(InOrder(P)) /\ Written(InOrder(P)) = P
<1>1. IsMap(P) /\ PrefixFree(DOMAIN P) /\ \A p \in DOMAIN P : CleanPath(p)
  BY DEF CleanDir
<1> DEFINE paths == Sorted(DOMAIN P)
           e == InOrder(P)
<1>2. /\ e \in Seq(Entry) /\ DOMAIN e = DOMAIN paths
      /\ \A k \in DOMAIN paths :
            paths[k] \in DOMAIN P /\ e[k].name = EntryName(paths[k]) /\ e[k].content = P[paths[k]]
      /\ \A p \in DOMAIN P : \E k \in DOMAIN paths : paths[k] = p
      /\ \A j, k \in DOMAIN paths : paths[j] = paths[k] => j = k
  BY <1>1, OrderFacts
<1> HIDE DEF paths, e
<1>3. ASSUME NEW k \in DOMAIN e
      PROVE  /\ k \in DOMAIN paths /\ paths[k] \in DOMAIN P /\ e[k].content = P[paths[k]]
             /\ Names(e[k].name) = paths[k]
             /\ ValidRelative(e[k].name) /\ CanBeFile(e[k].name) /\ ~ IsDirEntry(e[k].name)
  <2>1. CleanPath(paths[k]) /\ e[k].name = EntryName(paths[k])
    BY <1>1, <1>2
  <2> QED BY <1>2, <2>1, CleanPathFacts
<1>4. FilesOf(e) = e
  <2>1. {k \in DOMAIN e : ~ IsDirEntry(e[k].name)} = DOMAIN e
    BY <1>3
  <2> QED BY <1>2, <2>1, PickedAll DEF FilesOf
<1>5. AllWritten(e)
  BY <1>1, <1>3 DEF AllWritten, PrefixFree
<1>6. Written(e) = P
  <2>1. DOMAIN Written(e) = DOMAIN P
    <3>1. DOMAIN Written(e) = {Names(e[k].name) : k \in DOMAIN e}
      BY <1>2, <1>5, WrittenFacts
    <3>2. \A p \in DOMAIN P : \E k \in DOMAIN e : Names(e[k].name) = p
      BY <1>2, <1>3
    <3> QED BY <1>3, <3>1, <3>2
  <2>2. ASSUME NEW p \in DOMAIN P PROVE Written(e)[p] = P[p]
    <3>1. PICK k \in DOMAIN e : p = Names(e[k].name) /\ Written(e)[p] = e[k].content
      <4>1. \A q \in DOMAIN Written(e) :
               \E k \in DOMAIN e : q = Names(e[k].name) /\ Written(e)[q] = e[k].content
        BY <1>2, <1>5, WrittenFacts
      <4> QED BY <2>1, <4>1
    <3> QED BY <1>3, <3>1
  <2>3. Written(e) = [p \in DOMAIN Written(e) |-> Written(e)[p]]
    BY <1>2, <1>5, WrittenFacts DEF IsMap
  <2>4. P = [p \in DOMAIN P |-> P[p]]
    BY <1>1 DEF IsMap
  <2> QED BY <2>1, <2>2, <2>3, <2>4
<1> QED BY <1>1, <1>4, <1>5, <1>6, CleanPathFacts DEF e

-----------------------------------------------------------------------------
(* Patterns.                                                               *)

LEMMA PrefixOf ==
    ASSUME NEW s \in Bytes, NEW t \in Bytes
    PROVE  IsPrefix(s, t) <=> \E k \in 0 .. Len(t) : s = SubSeq(t, 1, k)
<1>1. Len(s) \in Nat /\ Len(t) \in Nat /\ s \in Seq(Byte) /\ t \in Seq(Byte)
  BY DEF Bytes
<1>2. SubSeq(s, 1, Len(s)) = s
  BY <1>1
<1>3. ASSUME NEW k \in 0 .. Len(t) PROVE Len(SubSeq(t, 1, k)) = k
  BY <1>1
<1>4. IsPrefix(s, t) <=> Len(s) <= Len(t) /\ s = SubSeq(t, 1, Len(s))
  BY <1>2 DEF IsPrefix
<1>5. ASSUME NEW k \in 0 .. Len(t), s = SubSeq(t, 1, k) PROVE Len(s) <= Len(t) /\ s = SubSeq(t, 1, Len(s))
  <2>1. Len(s) = k
    BY <1>3, <1>5
  <2> QED BY <1>1, <1>5, <2>1
<1>6. ASSUME Len(s) <= Len(t) PROVE Len(s) \in 0 .. Len(t)
  BY <1>1, <1>6
<1> QED BY <1>4, <1>5, <1>6

LEMMA SuffixOf ==
    ASSUME NEW s \in Bytes, NEW t \in Bytes
    PROVE  IsSuffix(s, t) <=> \E k \in 0 .. Len(t) : s = SubSeq(t, k + 1, Len(t))
<1>1. PICK m \in Nat, n \in Nat : m = Len(s) /\ n = Len(t) /\ s \in Seq(Byte) /\ t \in Seq(Byte)
  BY DEF Bytes
<1>2. /\ Reverse(s) = [j \in 1 .. m |-> s[(m - j) + 1]]
      /\ Reverse(t) = [j \in 1 .. n |-> t[(n - j) + 1]]
  BY <1>1 DEF Reverse
<1>3. Reverse(s) \in Bytes /\ Reverse(t) \in Bytes /\ Len(Reverse(s)) = m /\ Len(Reverse(t)) = n
  <2>1. ASSUME NEW j \in 1 .. m PROVE s[(m - j) + 1] \in Byte
    <3>1. (m - j) + 1 \in 1 .. m
      OBVIOUS
    <3> QED BY <1>1, <3>1
  <2>2. ASSUME NEW j \in 1 .. n PROVE t[(n - j) + 1] \in Byte
    <3>1. (n - j) + 1 \in 1 .. n
      OBVIOUS
    <3> QED BY <1>1, <3>1
  <2>3. Reverse(s) \in Seq(Byte) /\ Len(Reverse(s)) = m
    BY <1>2, <2>1
  <2>4. Reverse(t) \in Seq(Byte) /\ Len(Reverse(t)) = n
    BY <1>2, <2>2
  <2> QED BY <2>3, <2>4 DEF Bytes
<1>4. IsSuffix(s, t) <=> m <= n /\ \A j \in 1 .. m : s[(m - j) + 1] = t[(n - j) + 1]
  <2>1. IsSuffix(s, t) <=> m <= n /\ SubSeq(Reverse(s), 1, m) = SubSeq(Reverse(t), 1, m)
    BY <1>3 DEF IsSuffix, IsPrefix
  <2>2. SubSeq(Reverse(s), 1, m) = [j \in 1 .. m |-> s[(m - j) + 1]]
    <3>1. SubSeq(Reverse(s), 1, m) = Reverse(s)
      BY <1>3 DEF Bytes
    <3> QED BY <1>2, <3>1
  <2>3. ASSUME m <= n PROVE SubSeq(Reverse(t), 1, m) = [j \in 1 .. m |-> t[(n - j) + 1]]
    <3>1. /\ Slice(Reverse(t), 0, m) \in Seq(Byte) /\ Len(Slice(Reverse(t), 0, m)) = m
          /\ \A j \in 1 .. m : Slice(Reverse(t), 0, m)[j] = Reverse(t)[0 + j]
      <4>1. 0 + m <= Len(Reverse(t)) /\ 0 \in Nat
        BY <1>3, <2>3
      <4>2. Reverse(t) \in Seq(Byte)
        BY <1>3 DEF Bytes
      <4> HIDE DEF Reverse
      <4> QED BY <4>1, <4>2, SliceFacts
    <3>2. Slice(Reverse(t), 0, m) = SubSeq(Reverse(t), 1, m)
      <4>1. 0 + 1 = 1 /\ 0 + m = m
        OBVIOUS
      <4> QED BY <4>1 DEF Slice
    <3>3. ASSUME NEW j \in 1 .. m PROVE Slice(Reverse(t), 0, m)[j] = t[(n - j) + 1]
      <4>1. j \in 1 .. n /\ 0 + j = j
        BY <2>3
      <4>2. Reverse(t)[j] = t[(n - j) + 1]
        BY <1>2, <4>1
      <4> QED BY <3>1, <4>1, <4>2
    <3>4. Slice(Reverse(t), 0, m) = [j \in 1 .. m |-> Slice(Reverse(t), 0, m)[j]]
      BY <3>1
    <3> QED BY <3>2, <3>3, <3>4
  <2>4. ASSUME m <= n
        PROVE  [j \in 1 .. m |-> s[(m - j) + 1]] = [j \in 1 .. m |-> t[(n - j) + 1]]
               <=> \A j \in 1 .. m : s[(m - j) + 1] = t[(n - j) + 1]
    OBVIOUS
  <2> QED BY <2>1, <2>2, <2>3, <2>4
<1>5. ASSUME NEW k \in 0 .. n
      PROVE  /\ Len(SubSeq(t, k + 1, n)) = n - k /\ SubSeq(t, k + 1, n) \in Seq(Byte)
             /\ \A j \in 1 .. n - k : SubSeq(t, k + 1, n)[j] = t[k + j]
  <2>1. PICK l \in Nat : l = n - k /\ k + l = n /\ k \in Nat
    OBVIOUS
  <2>2. /\ Slice(t, k, l) \in Seq(Byte) /\ Len(Slice(t, k, l)) = l
        /\ \A j \in 1 .. l : Slice(t, k, l)[j] = t[k + j]
    <3>1. t \in Seq(Byte) /\ k + l <= Len(t)
      BY <1>1, <2>1
    <3>2. k \in Nat /\ l \in Nat
      BY <2>1
    <3> QED BY <3>1, <3>2, SliceFacts
  <2>3. SubSeq(t, k + 1, n) = Slice(t, k, l)
    <3>1. PICK x, y : x = k + 1 /\ y = k + l /\ y = n
      BY <2>1
    <3>2. SubSeq(t, x, y) = Slice(t, k, l)
      BY <3>1, SliceIs
    <3> QED BY <3>1, <3>2
  <2> QED BY <2>1, <2>2, <2>3
<1>6. ASSUME NEW k \in 0 .. n, s = SubSeq(t, k + 1, n)
      PROVE  m <= n /\ \A j \in 1 .. m : s[(m - j) + 1] = t[(n - j) + 1]
  <2>1. m = n - k
    BY <1>1, <1>5, <1>6
  <2>2. ASSUME NEW j \in 1 .. m PROVE s[(m - j) + 1] = t[(n - j) + 1]
    <3>1. (m - j) + 1 \in 1 .. n - k /\ k + ((m - j) + 1) = (n - j) + 1
      BY <2>1
    <3>2. s[(m - j) + 1] = t[k + ((m - j) + 1)]
      BY <1>5, <1>6, <3>1
    <3> QED BY <3>1, <3>2
  <2> QED BY <2>1, <2>2
<1>7. ASSUME m <= n, \A j \in 1 .. m : s[(m - j) + 1] = t[(n - j) + 1]
      PROVE  \E k \in 0 .. n : s = SubSeq(t, k + 1, n)
  <2>1. PICK k \in 0 .. n : k = n - m /\ n - k = m
    <3>1. n - m \in 0 .. n /\ n - (n - m) = m
      BY <1>7
    <3> QED BY <3>1
  <2>2. ASSUME NEW j \in 1 .. m PROVE s[j] = t[k + j]
    <3>1. PICK g \in 1 .. m : g = (m - j) + 1 /\ (m - g) + 1 = j /\ (n - g) + 1 = k + j
      <4>1. /\ (m - j) + 1 \in 1 .. m /\ (m - ((m - j) + 1)) + 1 = j
            /\ (n - ((m - j) + 1)) + 1 = k + j
        BY <2>1
      <4> QED BY <4>1
    <3>2. s[(m - g) + 1] = t[(n - g) + 1]
      BY <1>7
    <3> QED BY <3>1, <3>2
  <2>3. s = SubSeq(t, k + 1, n)
    <3>1. PICK q \in Seq(Byte) : q = SubSeq(t, k + 1, n) /\ Len(q) = m /\ \A j \in 1 .. m : q[j] = t[k + j]
      BY <1>5, <2>1
    <3>2. s = q
      <4>1. Len(s) = Len(q) /\ \A j \in 1 .. Len(s) : s[j] = q[j]
        BY <1>1, <2>2, <3>1
      <4>2. IsSeq(s) /\ IsSeq(q)
        BY <1>1 DEF IsSeq
      <4> QED BY <4>1, <4>2, SameSeq
    <3> QED BY <3>1, <3>2
  <2> QED BY <2>3
<1> QED BY <1>1, <1>4, <1>6, <1>7

\* glob_match takes a pattern for what its definition says.
LEMMA GlobIsMatches ==
    ASSUME NEW p \in Bytes, NEW name \in Bytes
    PROVE  GlobMatch(p, name) <=> Matches(p, name)
<1>1. p \in Seq(Byte) /\ name \in Seq(Byte) /\ Star \in Byte
  BY DEF Bytes, Star, Byte
<1>2. PICK n \in Nat : n = Len(name)
  BY <1>1
<1>3. ASSUME NEW k \in 0 .. n
      PROVE  /\ SubSeq(name, 1, k) \in Seq(Byte) /\ SubSeq(name, k + 1, n) \in Seq(Byte)
             /\ Len(SubSeq(name, 1, k)) = k
  BY <1>1, <1>2
<1>4. ASSUME NEW s \in Seq(Byte)
      PROVE  /\ s \o <<Star>> # <<>> /\ Last(s \o <<Star>>) = Star /\ Front(s \o <<Star>>) = s
             /\ <<Star>> \o s # <<>> /\ Head(<<Star>> \o s) = Star /\ Tail(<<Star>> \o s) = s
             /\ s # <<>> => Last(<<Star>> \o s) = Last(s)
  <2>1. <<Star>> \in Seq(Byte) /\ Len(<<Star>>) = 1
    BY <1>1
  <2>2. PICK l \in Nat : l = Len(s)
    OBVIOUS
  <2>3. /\ s \o <<Star>> \in Seq(Byte) /\ Len(s \o <<Star>>) = l + 1
        /\ (s \o <<Star>>)[l + 1] = Star /\ \A j \in 1 .. l : (s \o <<Star>>)[j] = s[j]
    BY <1>1, <2>1, <2>2
  <2>4. /\ <<Star>> \o s \in Seq(Byte) /\ Len(<<Star>> \o s) = l + 1
        /\ (<<Star>> \o s)[1] = Star /\ \A j \in 1 .. l : (<<Star>> \o s)[j + 1] = s[j]
    BY <1>1, <2>1, <2>2
  <2>5. s \o <<Star>> # <<>> /\ Last(s \o <<Star>>) = Star
    BY <2>3 DEF Last
  <2>6. Front(s \o <<Star>>) = s
    <3>1. (l + 1) - 1 = l
      OBVIOUS
    <3>2. Front(s \o <<Star>>) = SubSeq(s \o <<Star>>, 1, l)
      BY <2>3, <3>1 DEF Front
    <3>3. /\ SubSeq(s \o <<Star>>, 1, l) \in Seq(Byte) /\ Len(SubSeq(s \o <<Star>>, 1, l)) = l
          /\ \A j \in 1 .. l : SubSeq(s \o <<Star>>, 1, l)[j] = (s \o <<Star>>)[j]
      BY <2>3
    <3> QED BY <2>2, <2>3, <3>2, <3>3
  <2>7. <<Star>> \o s # <<>> /\ Head(<<Star>> \o s) = Star
    BY <2>4
  <2>8. Tail(<<Star>> \o s) = s
    <3>1. PICK t \in Seq(Byte) : t = <<Star>> \o s
      BY <2>4
    <3>2. t # <<>> /\ Len(t) = l + 1 /\ \A j \in 1 .. l : t[j + 1] = s[j]
      BY <2>4, <3>1
    <3>3. Tail(t) \in Seq(Byte) /\ Len(Tail(t)) = l /\ \A j \in 1 .. l : Tail(t)[j] = t[j + 1]
      BY <3>2
    <3> QED BY <2>2, <3>1, <3>2, <3>3
  <2>9. s # <<>> => Last(<<Star>> \o s) = Last(s)
    <3> SUFFICES ASSUME s # <<>> PROVE (<<Star>> \o s)[l + 1] = s[l]
      BY <2>2, <2>4 DEF Last
    <3>1. l \in 1 .. l
      BY <2>2
    <3> QED BY <2>4, <3>1
  <2> QED BY <2>5, <2>6, <2>7, <2>8, <2>9
<1>5. ASSUME p # <<>>, Last(p) = Star
      PROVE  Front(p) \in Bytes /\ p = Front(p) \o <<Star>>
  <2>1. PICK l \in Nat : l + 1 = Len(p)
    <3>1. Len(p) - 1 \in Nat /\ (Len(p) - 1) + 1 = Len(p)
      BY <1>1, <1>5
    <3> QED BY <3>1
  <2>2. Front(p) = SubSeq(p, 1, l) /\ p[l + 1] = Star
    BY <1>5, <2>1 DEF Front, Last
  <2>3. SubSeq(p, 1, l) \in Seq(Byte) /\ Len(SubSeq(p, 1, l)) = l
        /\ \A j \in 1 .. l : SubSeq(p, 1, l)[j] = p[j]
    BY <1>1, <2>1
  <2>4. PICK q \in Seq(Byte) : q = Front(p) /\ Len(q) = l /\ \A j \in 1 .. l : q[j] = p[j]
    BY <2>2, <2>3
  <2>5. p = q \o <<Star>>
    <3>1. /\ q \o <<Star>> \in Seq(Byte) /\ Len(q \o <<Star>>) = l + 1
          /\ (q \o <<Star>>)[l + 1] = Star /\ \A j \in 1 .. l : (q \o <<Star>>)[j] = q[j]
      <4>1. Star \in Byte /\ q \in Seq(Byte) /\ l \in Nat /\ Len(q) = l
        BY <1>1, <2>4
      <4> QED BY <4>1
    <3>2. PICK r \in Seq(Byte) : r = q \o <<Star>> /\ Len(r) = l + 1 /\ r[l + 1] = Star
                                 /\ \A j \in 1 .. l : r[j] = q[j]
      BY <3>1
    <3>3. \A j \in 1 .. l + 1 : j = l + 1 \/ j \in 1 .. l
      OBVIOUS
    <3>4. \A j \in 1 .. Len(p) : p[j] = r[j]
      BY <2>1, <2>2, <2>4, <3>2, <3>3
    <3>5. p = r
      BY <1>1, <2>1, <3>2, <3>4, SameElements
    <3> QED BY <3>2, <3>5
  <2> QED BY <2>4, <2>5 DEF Bytes
<1>6. ASSUME p # <<>>, Head(p) = Star
      PROVE  Tail(p) \in Bytes /\ p = <<Star>> \o Tail(p)
  <2>1. PICK l \in Nat : l + 1 = Len(p)
    <3>1. Len(p) - 1 \in Nat /\ (Len(p) - 1) + 1 = Len(p)
      BY <1>1, <1>6
    <3> QED BY <3>1
  <2>2. PICK q \in Seq(Byte) : q = Tail(p) /\ Len(q) = l /\ \A j \in 1 .. l : q[j] = p[j + 1]
    <3>1. PICK t \in Seq(Byte) : t = p /\ t # <<>> /\ Len(t) = l + 1
      BY <1>1, <1>6, <2>1
    <3>2. Tail(t) \in Seq(Byte) /\ Len(Tail(t)) = l /\ \A j \in 1 .. l : Tail(t)[j] = t[j + 1]
      BY <3>1
    <3> QED BY <3>1, <3>2
  <2>3. p = <<Star>> \o q
    <3>1. /\ <<Star>> \o q \in Seq(Byte) /\ Len(<<Star>> \o q) = l + 1
          /\ (<<Star>> \o q)[1] = Star /\ \A j \in 1 .. l : (<<Star>> \o q)[j + 1] = q[j]
      BY <1>1, <2>2
    <3>2. \A j \in 1 .. l + 1 : j = 1 \/ (j - 1 \in 1 .. l /\ (j - 1) + 1 = j)
      OBVIOUS
    <3> QED BY <1>1, <1>6, <2>1, <2>2, <3>1, <3>2
  <2> QED BY <2>2, <2>3 DEF Bytes
<1>7. ASSUME GlobMatch(p, name) PROVE Matches(p, name)
  <2>1. CASE p = name
    BY <2>1 DEF Matches
  <2>2. CASE p # <<>> /\ Last(p) = Star /\ IsPrefix(Front(p), name)
    <3>1. p # <<>> /\ Last(p) = Star
      BY <2>2
    <3>2. Front(p) \in Bytes /\ p = Front(p) \o <<Star>>
      BY <1>5, <3>1
    <3>3. PICK k \in 0 .. n : Front(p) = SubSeq(name, 1, k)
      BY <1>2, <2>2, <3>2, PrefixOf
    <3>4. p = SubSeq(name, 1, k) \o <<Star>>
      <4>1. PICK q : q = Front(p)
        OBVIOUS
      <4>2. p = q \o <<Star>>
        BY <3>2, <4>1, Zenon
      <4> QED BY <3>3, <4>1, <4>2
    <3> QED BY <1>2, <3>4 DEF Matches
  <2>3. CASE p # <<>> /\ Head(p) = Star /\ Last(p) # Star /\ IsSuffix(Tail(p), name)
    <3>1. PICK k \in 0 .. n : Tail(p) = SubSeq(name, k + 1, n)
      BY <1>2, <1>6, <2>3, SuffixOf
    <3>2. p = <<Star>> \o Tail(p) /\ Tail(p) \in Seq(Byte)
      BY <1>6, <2>3 DEF Bytes
    <3>3. Tail(p) # <<>>
      <4>1. ASSUME Tail(p) = <<>> PROVE FALSE
        <5>1. p = <<Star>>
          BY <1>1, <3>2, <4>1
        <5>2. Last(p) = Star
          BY <5>1 DEF Last
        <5> QED BY <2>3, <5>2
      <4> QED BY <4>1
    <3>4. Last(Tail(p)) # Star
      BY <1>4, <2>3, <3>2, <3>3
    <3> QED BY <1>2, <3>1, <3>2, <3>3, <3>4 DEF Matches
  <2>4. CASE p = <<Star>>
    <3>1. <<Star>> # <<>> /\ Last(<<Star>>) = Star /\ Front(<<Star>>) = <<>>
      BY <1>1 DEF Last, Front
    <3>2. 0 \in 0 .. n /\ SubSeq(name, 1, 0) = <<>>
      BY <1>1
    <3>3. p = SubSeq(name, 1, 0) \o <<Star>>
      BY <1>1, <2>4, <3>2
    <3> QED BY <1>2, <3>2, <3>3 DEF Matches
  <2> QED BY <1>7, <2>1, <2>2, <2>3, <2>4 DEF GlobMatch
<1>8. ASSUME Matches(p, name) PROVE GlobMatch(p, name)
  <2>1. CASE p = name
    BY <2>1 DEF GlobMatch
  <2>2. ASSUME NEW k \in 0 .. n, p = SubSeq(name, 1, k) \o <<Star>> PROVE GlobMatch(p, name)
    <3>1. p # <<>> /\ Last(p) = Star /\ Front(p) = SubSeq(name, 1, k)
      BY <1>3, <1>4, <2>2
    <3>2. IsPrefix(Front(p), name)
      BY <1>2, <1>5, <3>1, PrefixOf
    <3> QED BY <3>1, <3>2 DEF GlobMatch
  <2>3. ASSUME NEW k \in 0 .. n, p = <<Star>> \o SubSeq(name, k + 1, n),
               SubSeq(name, k + 1, n) # <<>>, Last(SubSeq(name, k + 1, n)) # Star
        PROVE  GlobMatch(p, name)
    <3>1. p # <<>> /\ Head(p) = Star /\ Tail(p) = SubSeq(name, k + 1, n) /\ Last(p) # Star
      BY <1>3, <1>4, <2>3
    <3>2. IsSuffix(Tail(p), name)
      BY <1>2, <1>6, <3>1, SuffixOf
    <3> QED BY <3>1, <3>2 DEF GlobMatch
  <2> QED BY <1>2, <1>8, <2>1, <2>2, <2>3 DEF Matches
<1> QED BY <1>7, <1>8

-----------------------------------------------------------------------------
(* Types.                                                                  *)

\* The next level is as far as its nodes are built.
TreeShape ==
    /\ IsSeq(level) /\ IsSeq(next)
    /\ 2 * Len(next) <= Len(level) + 1
    /\ i = IF 2 * Len(next) <= Len(level) THEN 2 * Len(next) + 1 ELSE Len(level) + 1
    /\ IsAbove(next, level, Len(next))

TypeInv ==
    /\ command \in {"pack", "seal"} /\ dir \in Directories /\ pattern \in Patterns \cup {NoPattern}
    /\ phase \in {"write", "verify"}
    /\ pc \in {"stage", "hash", "tree", "rooted", "register", "extract", "verified",
               "opened", "refused", "failed"}
    /\ accepted \in BOOLEAN
    /\ IsMap(payload) /\ IsMap(exported)
    /\ listed \in Seq(Entry) /\ entries \in Seq(Entry)
    /\ TreeShape

Start(d) == [p \in d |-> Content(p)]

LEMMA StartFacts ==
    ASSUME NEW d \in Directories
    PROVE  IsMap(Start(d)) /\ PrefixFree(DOMAIN Start(d)) /\ DOMAIN Start(d) = d
<1>1. IsFiniteSet(d) /\ PrefixFree(d) /\ \A p \in d : p \in Path /\ p # <<>> /\ Content(p) \in Contents
  BY DirectoriesAssumption DEF PrefixFree, Contents, Files
<1>2. DOMAIN Start(d) = d /\ \A p \in d : Start(d)[p] = Content(p)
  BY DEF Start
<1>3. Start(d) = [p \in DOMAIN Start(d) |-> Start(d)[p]]
  BY DEF Start
<1> QED BY <1>1, <1>2, <1>3 DEF IsMap

LEMMA NothingFacts ==
    /\ IsMap(NoFiles) /\ <<>> \in Seq(Entry) /\ IsSeq(<<>>) /\ Len(<<>>) = 0
    /\ \A P : IsMap(P) => (P = NoFiles <=> DOMAIN P = {})
<1>1. IsFiniteSet({})
  BY FS_EmptySet
<1>2. DOMAIN NoFiles = {} /\ NoFiles = [p \in {} |-> NoFiles[p]]
  BY DEF NoFiles
<1>3. IsMap(NoFiles)
  BY <1>1, <1>2 DEF IsMap
<1>4. ASSUME NEW P, IsMap(P), DOMAIN P = {} PROVE P = NoFiles
  <2>1. P = [p \in {} |-> P[p]]
    BY <1>4 DEF IsMap
  <2> QED BY <1>2, <2>1
<1>5. IsSeq(<<>>)
  BY DEF IsSeq
<1> QED BY <1>2, <1>3, <1>4, <1>5

LEMMA TypeInvImpliesTypeOK ==
    ASSUME TypeInv
    PROVE  TypeOK
<1>1. \A P : IsMap(P) => \A p \in DOMAIN P : P[p] \in Contents /\ Len(p) > 0
  <2>1. ASSUME NEW p \in Path, p # <<>> PROVE Len(p) > 0
    <3>1. IsSeq(p)
      BY DEF Path, IsSeq
    <3>2. Len(p) \in Nat /\ Len(p) # 0
      BY <2>1, <3>1, SeqFacts
    <3> QED BY <3>2
  <2> QED BY <2>1 DEF IsMap
<1>2. \A s \in Seq(Entry) : \A k \in DOMAIN s : s[k].content \in Contents
  <2>1. \A f \in Entry : f.content \in Contents
    BY DEF Entry
  <2> QED BY <2>1
<1>3. i \in 1 .. Len(level) + 1 /\ 2 * Len(next) <= Len(level) + 1
  <2>1. PICK l \in Nat, n \in Nat :
            /\ l = Len(level) /\ n = Len(next) /\ 2 * n <= l + 1
            /\ i = IF 2 * n <= l THEN 2 * n + 1 ELSE l + 1
    BY SeqFacts DEF TypeInv, TreeShape
  <2> QED BY <2>1
<1> QED BY <1>1, <1>2, <1>3 DEF TypeInv, TypeOK

\* A node of the next level is added to those built.
LEMMA TreeGrows ==
    ASSUME TreeShape, i <= Len(level), Len(level) > 1, NEW x,
           x = IF i < Len(level) THEN Node(level[i], level[i + 1]) ELSE level[i],
           next' = Append(next, x), level' = level,
           i' = IF i < Len(level) THEN i + 2 ELSE i + 1
    PROVE  TreeShape'
<1>1. PICK l \in Nat, n \in Nat :
          /\ l = Len(level) /\ n = Len(next) /\ 2 * n <= l + 1
          /\ i = IF 2 * n <= l THEN 2 * n + 1 ELSE l + 1
  BY SeqFacts DEF TreeShape
<1>2. i = 2 * n + 1 /\ 2 * n < l /\ i <= l
  BY <1>1
<1>3. PICK m \in Nat : m = n + 1 /\ 2 * m - 1 = i /\ 2 * m = i + 1 /\ 2 * m <= l + 1
                       /\ (2 * m <= l <=> i < l)
  BY <1>2
<1>4. /\ IsSeq(next') /\ Len(next') = m /\ next'[m] = x
      /\ \A k \in 1 .. n : next'[k] = next[k]
  BY <1>1, <1>3, AppendFacts DEF TreeShape
<1>5. i' = IF 2 * m <= l THEN 2 * m + 1 ELSE l + 1
  <2>1. CASE i < l
    <3>1. i' = i + 2
      BY <1>1, <2>1
    <3> QED BY <1>3, <2>1, <3>1
  <2>2. CASE ~ i < l
    <3>1. i' = i + 1
      BY <1>1, <2>2
    <3> QED BY <1>2, <1>3, <2>2, <3>1
  <2> QED BY <2>1, <2>2
<1>6. ASSUME NEW k \in 1 .. m
      PROVE  next'[k] = IF 2 * k <= l THEN Node(level[2 * k - 1], level[2 * k]) ELSE level[2 * k - 1]
  <2>1. CASE k \in 1 .. n
    BY <1>1, <1>4, <2>1 DEF TreeShape, IsAbove
  <2>2. CASE k = m
    <3>1. 2 * k - 1 = i /\ 2 * k = i + 1 /\ (2 * k <= l <=> i < l)
      BY <1>3, <2>2
    <3>2. next'[k] = IF i < l THEN Node(level[i], level[i + 1]) ELSE level[i]
      BY <1>1, <1>4, <2>2
    <3> QED BY <3>1, <3>2
  <2>3. k \in 1 .. n \/ k = m
    <3>1. m = n + 1
      BY <1>3
    <3> QED BY <3>1
  <2> QED BY <2>1, <2>2, <2>3
<1>7. IsAbove(next', level', Len(next'))
  BY <1>1, <1>4, <1>6 DEF IsAbove
<1> QED BY <1>1, <1>3, <1>4, <1>5, <1>7 DEF TreeShape

AllowedOf(p, s) == Picked(s, {k \in DOMAIN s : GlobMatch(p, s[k].name)})

LEMMA AllowedFacts ==
    ASSUME NEW p, NEW s \in Seq(Entry)
    PROVE  /\ AllowedOf(p, s) \in Seq(Entry)
           /\ \A n \in DOMAIN AllowedOf(p, s) :
                 \E k \in DOMAIN s : AllowedOf(p, s)[n] = s[k] /\ GlobMatch(p, s[k].name)
           /\ \A k \in DOMAIN s :
                 GlobMatch(p, s[k].name) =>
                     \E n \in DOMAIN AllowedOf(p, s) : AllowedOf(p, s)[n] = s[k]
<1> DEFINE S == {k \in DOMAIN s : GlobMatch(p, s[k].name)}
<1>1. S \in SUBSET DOMAIN s /\ AllowedOf(p, s) = Picked(s, S)
  BY DEF AllowedOf
<1>2. \A k \in DOMAIN s : k \in S <=> GlobMatch(p, s[k].name)
  OBVIOUS
<1> HIDE DEF S
<1>3. /\ Picked(s, S) \in Seq(Entry)
      /\ \A n \in DOMAIN Picked(s, S) : \E k \in S : Picked(s, S)[n] = s[k]
      /\ \A k \in S : \E n \in DOMAIN Picked(s, S) : Picked(s, S)[n] = s[k]
  BY <1>1, PickedFacts
<1> QED BY <1>1, <1>2, <1>3

SourceOf(c, l, e) == IF c = "seal" THEN l ELSE FilesOf(e)

LEMMA SameNames ==
    /\ FileEntries = FilesOf(entries) /\ Leaves = LeavesOf(payload)
    /\ \A p : Allowed(p) = AllowedOf(p, SourceOf(command, listed, entries))
BY DEF FileEntries, FilesOf, Leaves, LeavesOf, Allowed, AllowedOf, Source, SourceOf

LEMMA TypeInvInit == Init => TypeInv
<1> SUFFICES ASSUME Init PROVE TypeInv
  OBVIOUS
<1>1. TreeShape
  BY NothingFacts DEF Init, TreeShape, IsAbove
<1>2. payload = Start(dir) /\ dir \in Directories
  BY DEF Init, Start
<1>3. IsMap(payload)
  BY <1>2, StartFacts
<1> QED BY <1>1, <1>3, NothingFacts DEF Init, TypeInv

LEMMA TypeInvStep == TypeInv /\ [Next]_vars => TypeInv'
<1> SUFFICES ASSUME TypeInv, [Next]_vars PROVE TypeInv'
  OBVIOUS
<1>1. CASE Stage
  <2>1. listed' \in Seq(Entry)
    BY <1>1, OrderFacts DEF Stage, TypeInv
  <2>2. IsMap(payload')
    BY <1>1, <2>1, WrittenFacts DEF Stage, TypeInv
  <2>3. TreeShape'
    BY <1>1 DEF Stage, treeVars, TypeInv, TreeShape
  <2> QED BY <1>1, <2>1, <2>2, <2>3 DEF Stage, TypeInv
<1>2. CASE Hash
  <2>1. level' = LeavesOf(payload) /\ next' = <<>> /\ i' = 1
    BY <1>2, SameNames DEF Hash
  <2>2. IsSeq(level') /\ Len(level') \in Nat
    BY <2>1, OrderFacts, SeqFacts DEF TypeInv, AllLeaves
  <2>3. TreeShape'
    BY <2>1, <2>2, NothingFacts DEF TreeShape, IsAbove
  <2> QED BY <1>2, <2>3 DEF Hash, archiveVars, TypeInv
<1>3. CASE Pair
  <2>1. TreeShape'
    <3>1. PICK l \in Nat, n \in Nat : l = Len(level) /\ n = Len(next)
      BY SeqFacts DEF TypeInv, TreeShape
    <3>2. i \in Nat
      BY <3>1 DEF TypeInv, TreeShape
    <3>3. i < l /\ i <= l
      BY <1>3, <3>1, <3>2 DEF Pair
    <3> QED BY <1>3, <3>1, <3>3, TreeGrows DEF Pair, TypeInv
  <2> QED BY <1>3, <2>1 DEF Pair, treeRest, archiveVars, TypeInv
<1>4. CASE Promote
  <2>1. TreeShape'
    <3>1. PICK l \in Nat, n \in Nat : l = Len(level) /\ n = Len(next)
      BY SeqFacts DEF TypeInv, TreeShape
    <3>2. i = l /\ ~ i < l /\ i <= l
      BY <1>4, <3>1 DEF Promote
    <3> QED BY <1>4, <3>1, <3>2, TreeGrows DEF Promote, TypeInv
  <2> QED BY <1>4, <2>1 DEF Promote, treeRest, archiveVars, TypeInv
<1>5. CASE NextLevel
  <2>1. level' = next /\ next' = <<>> /\ i' = 1
    BY <1>5 DEF NextLevel
  <2>2. IsSeq(level') /\ Len(level') \in Nat
    BY <2>1, SeqFacts DEF TypeInv, TreeShape
  <2>3. TreeShape'
    BY <2>1, <2>2, NothingFacts DEF TreeShape, IsAbove
  <2> QED BY <1>5, <2>3 DEF NextLevel, treeRest, archiveVars, TypeInv
<1>6. CASE Root
  <2>1. TreeShape'
    BY <1>6 DEF Root, TypeInv, TreeShape
  <2> QED BY <1>6, <2>1 DEF Root, treeRest, archiveVars, TypeInv
<1>7. CASE Archive
  <2>1. entries' \in Seq(Entry)
    BY <1>7, OrderFacts DEF Archive, TypeInv
  <2>2. TreeShape'
    BY <1>7 DEF Archive, treeVars, TypeInv, TreeShape
  <2> QED BY <1>7, <2>1, <2>2 DEF Archive, TypeInv
<1>8. CASE Register
  <2>1. accepted' \in BOOLEAN
    BY <1>8 DEF Register
  <2>2. TreeShape'
    BY <1>8 DEF Register, treeVars, TypeInv, TreeShape
  <2> QED BY <1>8, <2>1, <2>2 DEF Register, TypeInv
<1>9. CASE Extract
  <2>1. FileEntries \in Seq(Entry)
    BY SameNames, FilesFacts DEF TypeInv
  <2>2. IsMap(payload')
    BY <1>9, <2>1, WrittenFacts DEF Extract, TypeInv
  <2>3. TreeShape'
    BY <1>9 DEF Extract, treeVars, TypeInv, TreeShape
  <2> QED BY <1>9, <2>2, <2>3 DEF Extract, archiveVars, TypeInv
<1>10. CASE Compare
  <2>1. TreeShape'
    BY <1>10 DEF Compare, treeVars, TypeInv, TreeShape
  <2> QED BY <1>10, <2>1 DEF Compare, archiveVars, TypeInv
<1>11. CASE Export
  <2>1. PICK p \in Patterns :
            /\ pattern' = p
            /\ IF Allowed(p) # <<>> /\ AllWritten(Allowed(p))
                    /\ \A k \in DOMAIN Allowed(p) : Intact(Allowed(p)[k])
               THEN exported' = Written(Allowed(p)) /\ pc' = "opened"
               ELSE pc' = "refused" /\ UNCHANGED exported
    BY <1>11 DEF Export
  <2>2. SourceOf(command, listed, entries) \in Seq(Entry)
    BY FilesFacts DEF SourceOf, TypeInv
  <2>3. Allowed(p) \in Seq(Entry)
    BY <2>2, SameNames, AllowedFacts
  <2>4. IsMap(exported')
    BY <2>1, <2>3, WrittenFacts DEF TypeInv
  <2>5. TreeShape'
    BY <1>11 DEF Export, treeVars, TypeInv, TreeShape
  <2> QED BY <1>11, <2>1, <2>4, <2>5 DEF Export, archiveVars, TypeInv
<1>12. CASE UNCHANGED vars
  <2>1. TreeShape'
    BY <1>12 DEF vars, treeVars, TypeInv, TreeShape
  <2> QED BY <1>12, <2>1 DEF vars, archiveVars, TypeInv
<1> QED BY <1>1, <1>2, <1>3, <1>4, <1>5, <1>6, <1>7, <1>8, <1>9, <1>10, <1>11, <1>12 DEF Next

\* The variables have their types, whatever is packed or sealed.
THEOREM TypeInvariance == Spec => []TypeOK
<1>1. Init => TypeInv
  BY TypeInvInit
<1>2. TypeInv /\ [Next]_vars => TypeInv'
  BY TypeInvStep
<1>3. TypeInv => TypeOK
  BY TypeInvImpliesTypeOK
<1> QED BY <1>1, <1>2, <1>3, PTL DEF Spec

-----------------------------------------------------------------------------
(* The tree that is built is that of the payload.                          *)

HashInv ==
    /\ pc = "tree" => Climbs(LeavesOf(payload), level)
    /\ pc = "rooted" => IsRoot(root, LeavesOf(payload))

LEMMA HashInvInit == Init => HashInv
BY DEF Init, HashInv

LEMMA HashInvStep == TypeInv /\ HashInv /\ [Next]_vars => HashInv'
<1> SUFFICES ASSUME TypeInv, HashInv, [Next]_vars PROVE HashInv'
  OBVIOUS
<1>1. CASE Stage
  BY <1>1 DEF Stage, HashInv
<1>2. CASE Hash
  <2>1. /\ level' = LeavesOf(payload) /\ payload' = payload
        /\ IF payload = NoFiles THEN pc' = "rooted" /\ root' = EmptyRoot ELSE pc' = "tree"
    BY <1>2, SameNames DEF Hash
  <2>2. IsSeq(LeavesOf(payload)) /\ (LeavesOf(payload) = <<>> <=> payload = NoFiles)
    BY OrderFacts, NothingFacts DEF TypeInv, AllLeaves
  <2>3. CASE payload = NoFiles
    BY <2>1, <2>2, <2>3 DEF HashInv, IsRoot
  <2>4. CASE payload # NoFiles
    BY <2>1, <2>2, <2>4, ClimbStart DEF HashInv
  <2> QED BY <2>3, <2>4
<1>3. CASE Pair
  BY <1>3 DEF Pair, treeRest, HashInv
<1>4. CASE Promote
  BY <1>4 DEF Promote, treeRest, HashInv
<1>5. CASE NextLevel
  <2>1. level' = next /\ payload' = payload /\ pc = "tree" /\ pc' = pc /\ Len(level) > 1 /\ i > Len(level)
    BY <1>5 DEF NextLevel, treeRest
  <2>2. PICK l \in Nat, n \in Nat :
            /\ l = Len(level) /\ n = Len(next) /\ 2 * n <= l + 1
            /\ i = IF 2 * n <= l THEN 2 * n + 1 ELSE l + 1
    BY SeqFacts DEF TypeInv, TreeShape
  <2>3. n = (l + 1) \div 2
    <3>1. i > l /\ l > 1
      BY <2>1, <2>2
    <3> QED BY <2>2, <3>1
  <2>4. IsSeq(next) /\ IsAbove(next, level, Len(next)) /\ Len(next) = (Len(level) + 1) \div 2
    BY <2>2, <2>3 DEF TypeInv, TreeShape
  <2>5. Climbs(LeavesOf(payload), next)
    BY <2>1, <2>4, ClimbStep DEF HashInv
  <2> QED BY <2>1, <2>5 DEF HashInv
<1>6. CASE Root
  <2>1. /\ pc = "tree" /\ Len(level) = 1 /\ root' = level[1] /\ pc' = "rooted" /\ payload' = payload
    BY <1>6 DEF Root, treeRest
  <2> QED BY <2>1 DEF HashInv, IsRoot
<1>7. CASE Archive
  BY <1>7 DEF Archive, HashInv
<1>8. CASE Register
  BY <1>8 DEF Register, HashInv
<1>9. CASE Extract
  BY <1>9 DEF Extract, HashInv
<1>10. CASE Compare
  BY <1>10 DEF Compare, HashInv
<1>11. CASE Export
  BY <1>11 DEF Export, HashInv
<1>12. CASE UNCHANGED vars
  BY <1>12 DEF vars, treeVars, HashInv
<1> QED BY <1>1, <1>2, <1>3, <1>4, <1>5, <1>6, <1>7, <1>8, <1>9, <1>10, <1>11, <1>12 DEF Next

-----------------------------------------------------------------------------
(* What is hashed, archived and verified, as functions of the directory.   *)

Staged(d) == Written(InOrder(Start(d)))
CanStage(d) == (\A p \in d : Writable(p)) /\ AllWritten(InOrder(Start(d)))
Packed(c, d) == IF c = "seal" THEN Staged(d) ELSE Start(d)

\* The command writes an archive.
CanArchive(c, d) ==
    /\ c = "seal" => CanStage(d)
    /\ \A p \in DOMAIN Packed(c, d) : Writable(p)

\* The registry takes the archive; it verifies.
Acceptable(e) ==
    /\ \A k \in DOMAIN e : SafeEntry(e[k].name)
    /\ \A j, k \in DOMAIN e : CleanName(e[j].name) = CleanName(e[k].name) => j = k
Verifies(e, r) == AllWritten(FilesOf(e)) /\ IsRoot(r, LeavesOf(Written(FilesOf(e))))

IntactIn(files, e) == \A k \in DOMAIN files : \E j \in DOMAIN e : e[j] = files[k]

ArchiveInv ==
    /\ phase = "write" => pc \notin {"verified", "opened", "refused"}
    /\ phase = "verify" => pc \notin {"stage", "register", "extract"}
    /\ pc = "stage" => phase = "write" /\ command = "seal" /\ payload = Start(dir)
    /\ command = "seal" /\ pc # "stage" => listed = InOrder(Start(dir))
    /\ phase = "write" /\ pc \notin {"stage", "failed"} =>
          payload = Packed(command, dir) /\ (command = "seal" => CanStage(dir))
    /\ phase = "write" /\ pc = "failed" => ~ CanArchive(command, dir)
    /\ pc \in {"register", "extract"} \/ phase = "verify" =>
          /\ CanArchive(command, dir)
          /\ entries = InOrder(Packed(command, dir))
          /\ IsRoot(signed, LeavesOf(Packed(command, dir)))
    /\ pc = "extract" \/ phase = "verify" => (accepted <=> Acceptable(entries))
    /\ phase = "verify" /\ pc # "failed" =>
          AllWritten(FilesOf(entries)) /\ payload = Written(FilesOf(entries))
    /\ pc \in {"verified", "opened", "refused"} => IsRoot(signed, LeavesOf(payload))
    /\ phase = "verify" /\ pc = "failed" => ~ Verifies(entries, signed)
    /\ pc = "opened" =>
          LET files == AllowedOf(pattern, SourceOf(command, listed, entries))
          IN  /\ pattern \in Patterns /\ AllWritten(files) /\ IntactIn(files, entries)
              /\ exported = Written(files)

LEMMA ArchiveInvInit == Init => ArchiveInv
<1> SUFFICES ASSUME Init PROVE ArchiveInv
  OBVIOUS
<1>1. payload = Start(dir)
  BY DEF Init, Start
<1>2. command = "pack" => payload = Packed(command, dir)
  BY <1>1 DEF Packed
<1> QED BY <1>1, <1>2 DEF Init, ArchiveInv

LEMMA ArchiveInvStep == TypeInv /\ HashInv /\ ArchiveInv /\ [Next]_vars => ArchiveInv'
<1> SUFFICES ASSUME TypeInv, HashInv, ArchiveInv, [Next]_vars PROVE ArchiveInv'
  OBVIOUS
<1> USE DEF ArchiveInv
<1>1. CASE Stage
  <2>1. /\ pc = "stage" /\ phase = "write" /\ command = "seal" /\ payload = Start(dir)
        /\ command' = command /\ dir' = dir /\ phase' = phase /\ listed' = InOrder(Start(dir))
    BY <1>1 DEF Stage
  <2>2. CASE CanStage(dir)
    <3>1. payload' = Written(listed') /\ pc' = "hash"
      BY <1>1, <2>1, <2>2 DEF Stage, CanStage
    <3>2. payload' = Packed(command, dir)
      BY <2>1, <3>1 DEF Packed, Staged
    <3> QED BY <2>1, <2>2, <3>1, <3>2
  <2>3. CASE ~ CanStage(dir)
    <3>1. pc' = "failed"
      BY <1>1, <2>1, <2>3 DEF Stage, CanStage
    <3>2. ~ CanArchive(command, dir)
      BY <2>1, <2>3 DEF CanArchive
    <3> QED BY <2>1, <3>1, <3>2
  <2> QED BY <2>2, <2>3
<1>2. CASE Hash
  <2>1. pc = "hash" /\ pc' \in {"rooted", "tree"}
    BY <1>2 DEF Hash
  <2> QED BY <1>2, <2>1 DEF Hash, archiveVars
<1>3. CASE Pair
  BY <1>3 DEF Pair, treeRest, archiveVars
<1>4. CASE Promote
  BY <1>4 DEF Promote, treeRest, archiveVars
<1>5. CASE NextLevel
  BY <1>5 DEF NextLevel, treeRest, archiveVars
<1>6. CASE Root
  BY <1>6 DEF Root, treeRest, archiveVars
<1>7. CASE Archive
  <2>1. /\ pc = "rooted" /\ phase = "write" /\ phase' = phase /\ command' = command /\ dir' = dir
        /\ payload' = payload /\ listed' = listed /\ signed' = root
        /\ payload = Packed(command, dir) /\ (command = "seal" => CanStage(dir))
    BY <1>7 DEF Archive
  <2>2. IsRoot(signed', LeavesOf(Packed(command, dir)))
    BY <2>1 DEF HashInv
  <2>3. CASE \A p \in DOMAIN payload : Writable(p)
    <3>1. entries' = InOrder(payload) /\ pc' = "register"
      BY <1>7, <2>3 DEF Archive
    <3>2. CanArchive(command, dir)
      BY <2>1, <2>3 DEF CanArchive
    <3> QED BY <2>1, <2>2, <3>1, <3>2
  <2>4. CASE ~ \A p \in DOMAIN payload : Writable(p)
    <3>1. pc' = "failed"
      BY <1>7, <2>4 DEF Archive
    <3>2. ~ CanArchive(command, dir)
      BY <2>1, <2>4 DEF CanArchive
    <3> QED BY <2>1, <3>1, <3>2
  <2> QED BY <2>3, <2>4
<1>8. CASE Register
  <2>1. accepted' <=> Acceptable(entries)
    BY <1>8 DEF Register, Acceptable
  <2>2. /\ pc = "register" /\ pc' = "extract"
        /\ UNCHANGED <<command, dir, pattern, phase, payload, signed, listed, entries, exported>>
    BY <1>8 DEF Register
  <2> QED BY <2>1, <2>2
<1>9. CASE Extract
  <2>1. /\ pc = "extract" /\ phase' = "verify"
        /\ UNCHANGED <<command, dir, pattern, signed, listed, entries, accepted, exported>>
        /\ IF AllWritten(FilesOf(entries))
           THEN payload' = Written(FilesOf(entries)) /\ pc' = "hash"
           ELSE pc' = "failed" /\ UNCHANGED payload
    BY <1>9, SameNames DEF Extract, archiveVars
  <2>2. CASE AllWritten(FilesOf(entries))
    BY <2>1, <2>2
  <2>3. CASE ~ AllWritten(FilesOf(entries))
    BY <2>1, <2>3 DEF Verifies
  <2> QED BY <2>2, <2>3
<1>10. CASE Compare
  <2>1. /\ pc = "rooted" /\ phase = "verify" /\ payload = Written(FilesOf(entries))
        /\ UNCHANGED <<command, dir, pattern, phase, payload, root, signed, listed, entries, accepted, exported>>
        /\ pc' = IF root = signed THEN "verified" ELSE "failed"
    BY <1>10 DEF Compare, archiveVars, treeVars
  <2>2. IsRoot(root, LeavesOf(payload))
    BY <2>1 DEF HashInv
  <2>3. CASE root = signed
    BY <2>1, <2>2, <2>3
  <2>4. CASE root # signed
    <3>1. ~ Verifies(entries, signed)
      BY <2>1, <2>2, <2>4, RootIsOne DEF Verifies
    <3> QED BY <2>1, <2>4, <3>1
  <2> QED BY <2>3, <2>4
<1>11. CASE Export
  <2>1. /\ pc = "verified" /\ phase = "verify"
        /\ UNCHANGED <<command, dir, phase, payload, signed, listed, entries, accepted>>
    BY <1>11 DEF Export, archiveVars, TypeInv
  <2>2. PICK p \in Patterns :
            /\ pattern' = p
            /\ LET files == AllowedOf(p, SourceOf(command, listed, entries))
               IN  IF files # <<>> /\ AllWritten(files) /\ IntactIn(files, entries)
                   THEN exported' = Written(files) /\ pc' = "opened"
                   ELSE pc' = "refused" /\ UNCHANGED exported
    BY <1>11, SameNames DEF Export, Intact, IntactIn
  <2> DEFINE files == AllowedOf(p, SourceOf(command, listed, entries))
  <2>3. CASE files # <<>> /\ AllWritten(files) /\ IntactIn(files, entries)
    <3>1. exported' = Written(files) /\ pc' = "opened"
      BY <2>2, <2>3
    <3> QED BY <2>1, <2>2, <2>3, <3>1
  <2>4. CASE ~ (files # <<>> /\ AllWritten(files) /\ IntactIn(files, entries))
    <3>1. pc' = "refused"
      BY <2>2, <2>4
    <3> QED BY <2>1, <2>2, <3>1
  <2> QED BY <2>3, <2>4
<1>12. CASE UNCHANGED vars
  BY <1>12 DEF vars, archiveVars
<1> QED BY <1>1, <1>2, <1>3, <1>4, <1>5, <1>6, <1>7, <1>8, <1>9, <1>10, <1>11, <1>12 DEF Next

IInv == TypeInv /\ HashInv /\ ArchiveInv

LEMMA Invariance == Spec => []IInv
<1>1. Init => IInv
  BY TypeInvInit, HashInvInit, ArchiveInvInit DEF IInv
<1>2. IInv /\ [Next]_vars => IInv'
  BY TypeInvStep, HashInvStep, ArchiveInvStep DEF IInv
<1> QED BY <1>1, <1>2, PTL DEF Spec

-----------------------------------------------------------------------------
(* Consequences.                                                           *)

\* The root that is signed or compared is the tree of the recursion: what the
\* loop of compute_payload_merkle_root makes of any number of leaves, with its
\* odd nodes promoted, splits them at the largest power of two below it.
THEOREM RootIsTheTree == Spec => []RootIsTree
<1>1. IInv => RootIsTree
  <2> SUFFICES ASSUME IInv, pc = "rooted" PROVE root = TreeOf(Leaves)
    BY DEF RootIsTree
  <2>1. Leaves = LeavesOf(payload) /\ IsRoot(root, LeavesOf(payload))
    BY SameNames DEF IInv, HashInv
  <2>2. IsSeq(LeavesOf(payload))
    BY OrderFacts DEF IInv, TypeInv, AllLeaves
  <2> QED BY <2>1, <2>2, LevelsMakeTheTree
<1> QED BY <1>1, Invariance, PTL

LEMMA PackedFacts ==
    ASSUME NEW c \in {"pack", "seal"}, NEW d \in Directories, c = "seal" => CanStage(d)
    PROVE  IsMap(Packed(c, d)) /\ (c = "seal" => CleanDir(Packed(c, d)))
<1>1. IsMap(Start(d)) /\ DOMAIN Start(d) = d
  BY StartFacts
<1>2. CASE c = "pack"
  BY <1>1, <1>2 DEF Packed
<1>3. CASE c = "seal"
  <2> DEFINE e == InOrder(Start(d))
  <2>1. /\ e \in Seq(Entry) /\ AllWritten(e) /\ \A p \in d : Writable(p)
        /\ Packed(c, d) = Written(e)
    BY <1>1, <1>3, OrderFacts DEF CanStage, Packed, Staged
  <2>2. ASSUME NEW k \in DOMAIN e PROVE Utf8(e[k].name) /\ ~ Has(e[k].name, Backslash)
    <3>1. PICK p \in d : e[k].name = EntryName(p)
      BY <1>1, OrderFacts
    <3>2. p \in Path /\ p # <<>> /\ Writable(p)
      BY <1>1, <2>1 DEF IsMap
    <3> QED BY <3>1, <3>2, EntryNameFacts
  <2> HIDE DEF e
  <2>3. \A p \in DOMAIN Written(e) : CleanPath(p)
    BY <2>1, <2>2, WrittenAreClean
  <2>4. IsMap(Written(e)) /\ PrefixFree(DOMAIN Written(e))
    BY <2>1, WrittenFacts
  <2> QED BY <2>1, <2>3, <2>4 DEF CleanDir
<1> QED BY <1>2, <1>3

\* A clean directory is archived and verified.
LEMMA CleanVerifies ==
    ASSUME IInv, CleanDir(Packed(command, dir)), command = "seal" => CanStage(dir)
    PROVE  pc # "failed"
<1>1. CanArchive(command, dir)
  BY CleanRoundTrip DEF CanArchive
<1>2. CASE phase = "write"
  BY <1>1, <1>2 DEF IInv, ArchiveInv
<1>3. CASE phase = "verify"
  <2> DEFINE P == Packed(command, dir)
  <2>1. entries = InOrder(P) /\ IsRoot(signed, LeavesOf(P))
    BY <1>3 DEF IInv, ArchiveInv
  <2>2. FilesOf(entries) = entries /\ AllWritten(entries) /\ Written(entries) = P
    BY <2>1, CleanRoundTrip
  <2>3. Verifies(entries, signed)
    BY <2>1, <2>2 DEF Verifies
  <2> QED BY <1>3, <2>3 DEF IInv, ArchiveInv
<1> QED BY <1>2, <1>3 DEF IInv, TypeInv

\* What seal writes verifies, whatever the names of the files.
THEOREM SealedVerifies == Spec => []SealVerifies
<1>1. IInv => SealVerifies
  <2> SUFFICES ASSUME IInv, command = "seal", phase = "verify" PROVE pc # "failed"
    BY DEF SealVerifies
  <2>1. CanStage(dir) /\ dir \in Directories
    BY DEF IInv, TypeInv, ArchiveInv, CanArchive
  <2>2. CleanDir(Packed(command, dir))
    BY <2>1, PackedFacts
  <2> QED BY <2>1, <2>2, CleanVerifies
<1> QED BY <1>1, Invariance, PTL

\* What is extracted from a sealed archive is what its manifest lists, however the
\* names of the directory collide.
THEOREM ListsWhatItSeals == Spec => []SealedIsListed
<1>1. IInv => SealedIsListed
  <2> SUFFICES ASSUME IInv, command = "seal", phase = "verify"
               PROVE  /\ DOMAIN payload = {Names(listed[k].name) : k \in DOMAIN listed}
                      /\ \A path \in DOMAIN payload : \E k \in DOMAIN listed :
                            Names(listed[k].name) = path /\ listed[k].content = payload[path]
    BY DEF SealedIsListed
  <2>1. /\ CanStage(dir) /\ dir \in Directories /\ pc \notin {"stage", "failed"}
        /\ listed = InOrder(Start(dir)) /\ Packed(command, dir) = Written(listed)
        /\ entries = InOrder(Packed(command, dir)) /\ payload = Written(FilesOf(entries))
    <3>1. CanStage(dir) /\ dir \in Directories /\ pc # "stage" /\ listed = InOrder(Start(dir))
      BY DEF IInv, TypeInv, ArchiveInv, CanArchive
    <3>2. Packed(command, dir) = Written(listed)
      BY <3>1 DEF Packed, Staged
    <3>3. pc # "failed"
      BY <3>1, PackedFacts, CleanVerifies
    <3> QED BY <3>1, <3>2, <3>3 DEF IInv, ArchiveInv
  <2>2. CleanDir(Packed(command, dir))
    BY <2>1, PackedFacts
  <2>3. payload = Written(listed)
    BY <2>1, <2>2, CleanRoundTrip
  <2>4. listed \in Seq(Entry) /\ AllWritten(listed)
    BY <2>1, StartFacts, OrderFacts DEF CanStage
  <2> QED BY <2>3, <2>4, WrittenFacts
<1> QED BY <1>1, Invariance, PTL

LEMMA PortableIsClean ==
    ASSUME NEW p \in Path, p # <<>>, Portable(p)
    PROVE  CleanPath(p) /\ \A k \in DOMAIN p : ~ Has(p[k], Colon)
<1>1. /\ Slash \notin SegmentChar /\ Backslash \notin SegmentChar /\ Colon \notin SegmentChar
      /\ Invalid \notin SegmentChar
  BY DEF SegmentChar, Slash, Backslash, Colon, Invalid
<1>2. \A k \in DOMAIN p : /\ p[k] \notin {<<>>, Dot, DotDot}
                          /\ \A n \in DOMAIN p[k] : p[k][n] \in SegmentChar
  BY DEF Portable
<1> QED BY <1>1, <1>2 DEF CleanPath, Has

LEMMA PortableDirectory ==
    ASSUME NEW d \in Directories, \A p \in d : Portable(p), NEW c \in {"pack", "seal"}
    PROVE  /\ CleanDir(Start(d)) /\ CanStage(d) /\ Packed(c, d) = Start(d)
<1>1. IsMap(Start(d)) /\ PrefixFree(DOMAIN Start(d)) /\ DOMAIN Start(d) = d
  BY StartFacts
<1>2. CleanDir(Start(d))
  BY <1>1, PortableIsClean DEF CleanDir, IsMap
<1>3. /\ \A p \in d : Writable(p)
      /\ AllWritten(InOrder(Start(d))) /\ Written(InOrder(Start(d))) = Start(d)
  BY <1>1, <1>2, CleanRoundTrip
<1> QED BY <1>2, <1>3 DEF CanStage, Packed, Staged

LEMMA PortableIsAcceptable ==
    ASSUME NEW P, CleanDir(P), \A p \in DOMAIN P : Portable(p)
    PROVE  Acceptable(InOrder(P))
<1> DEFINE e == InOrder(P)
           paths == Sorted(DOMAIN P)
<1>1. IsMap(P) /\ \A p \in DOMAIN P : p \in Path /\ p # <<>> /\ CleanPath(p)
  BY DEF CleanDir, IsMap
<1>2. /\ DOMAIN e = DOMAIN paths
      /\ \A k \in DOMAIN paths : paths[k] \in DOMAIN P /\ e[k].name = EntryName(paths[k])
      /\ \A j, k \in DOMAIN paths : paths[j] = paths[k] => j = k
  BY <1>1, OrderFacts
<1> HIDE DEF e, paths
<1>3. ASSUME NEW k \in DOMAIN e
      PROVE  /\ paths[k] \in DOMAIN P /\ e[k].name = Joined(paths[k])
             /\ CleanName(e[k].name) = e[k].name /\ Names(e[k].name) = paths[k]
             /\ SafeEntry(e[k].name)
  <2>1. PICK p \in DOMAIN P : p = paths[k] /\ e[k].name = EntryName(p)
    BY <1>2
  <2>2. /\ p \in Path /\ p # <<>> /\ CleanPath(p) /\ Portable(p)
        /\ \A n \in DOMAIN p : ~ Has(p[n], Colon)
    BY <1>1, PortableIsClean
  <2>3. /\ EntryName(p) = Joined(p) /\ Names(Joined(p)) = p /\ Segments(Joined(p)) = p
        /\ ~ IsDirEntry(Joined(p))
    BY <2>2, CleanPathFacts
  <2>4. ~ Has(Joined(p), Backslash) /\ ~ Has(Joined(p), Colon)
    <3>1. Colon # Slash
      BY DEF Colon, Slash
    <3>2. ~ Has(Joined(p), Colon)
      BY <2>2, <3>1, JoinedBytes
    <3> QED BY <2>2, <2>3, <3>2, EntryNameFacts
  <2>5. CleanName(Joined(p)) = Joined(p)
    BY <2>3 DEF CleanName
  <2>6. SafeEntry(Joined(p))
    BY <2>2, <2>3, <2>4, <2>5 DEF SafeEntry, Portable
  <2> QED BY <2>1, <2>3, <2>5, <2>6
<1>4. ASSUME NEW j \in DOMAIN e, NEW k \in DOMAIN e, CleanName(e[j].name) = CleanName(e[k].name)
      PROVE  j = k
  <2>1. paths[j] = paths[k]
    BY <1>3, <1>4
  <2> QED BY <1>2, <2>1
<1> QED BY <1>3, <1>4 DEF Acceptable, e

\* A directory of portable names is packed and sealed, accepted and verified.
THEOREM PortableIsAccepted == Spec => []PortableAccepted
<1>1. IInv => PortableAccepted
  <2> SUFFICES ASSUME IInv, \A p \in dir : Portable(p)
               PROVE  pc # "failed" /\ (phase = "verify" => accepted)
    BY DEF PortableAccepted
  <2>1. dir \in Directories /\ command \in {"pack", "seal"}
    BY DEF IInv, TypeInv
  <2>2. CleanDir(Start(dir)) /\ CanStage(dir) /\ Packed(command, dir) = Start(dir)
    BY <2>1, PortableDirectory
  <2>3. pc # "failed"
    BY <2>2, CleanVerifies
  <2>4. Acceptable(InOrder(Start(dir)))
    BY <2>1, <2>2, StartFacts, PortableIsAcceptable
  <2>5. phase = "verify" => accepted
    BY <2>2, <2>4 DEF IInv, ArchiveInv
  <2> QED BY <2>3, <2>5
<1> QED BY <1>1, Invariance, PTL

\* The zero byte tells where the name in the string of a leaf ends.
IsLeafName(name) == name \in Bytes /\ ~ Has(name, 0)

LEMMA LeafStringAt ==
    ASSUME NEW name \in Bytes, NEW content \in Bytes
    PROVE  /\ \A n \in 1 .. Len(name) : LeafString(name, content)[n] = name[n]
           /\ LeafString(name, content)[Len(name) + 1] = 0
           /\ \A n \in 1 .. Len(content) :
                 LeafString(name, content)[(Len(name) + 1) + n] = content[n]
<1> DEFINE head == name \o <<0>>
<1>1. IsSeq(name) /\ IsSeq(<<0>>) /\ IsSeq(content) /\ Len(<<0>>) = 1 /\ <<0>>[1] = 0
  <2>1. name \in Seq(Byte) /\ content \in Seq(Byte) /\ <<0>> \in Seq({0})
    BY DEF Bytes
  <2> QED BY <2>1 DEF IsSeq
<1>2. /\ IsSeq(head) /\ Len(head) = Len(name) + Len(<<0>>)
      /\ \A n \in 1 .. Len(name) : head[n] = name[n]
      /\ \A n \in 1 .. Len(<<0>>) : head[Len(name) + n] = <<0>>[n]
  BY <1>1, ConcatFacts
<1> HIDE DEF head
<1>3. /\ \A n \in 1 .. Len(head) : (head \o content)[n] = head[n]
      /\ \A n \in 1 .. Len(content) : (head \o content)[Len(head) + n] = content[n]
  BY <1>1, <1>2, ConcatFacts
<1>4. PICK l \in Nat : l = Len(name) /\ l + 1 = Len(head)
  BY <1>1, <1>2, SeqFacts
<1>5. LeafString(name, content) = head \o content
  BY DEF LeafString, head
<1>6. head[l + 1] = 0
  <2>1. 1 \in 1 .. Len(<<0>>)
    BY <1>1
  <2>2. head[Len(name) + 1] = <<0>>[1]
    BY <1>2, <2>1
  <2> QED BY <1>1, <1>4, <2>2
<1>7. l + 1 \in 1 .. l + 1 /\ \A n \in 1 .. l : n \in 1 .. l + 1
  BY <1>4
<1>8. /\ \A n \in 1 .. l : LeafString(name, content)[n] = name[n]
      /\ LeafString(name, content)[l + 1] = 0
  BY <1>2, <1>3, <1>4, <1>5, <1>6, <1>7
<1>9. \A n \in 1 .. Len(content) : LeafString(name, content)[(l + 1) + n] = content[n]
  BY <1>3, <1>4, <1>5
<1> QED BY <1>4, <1>8, <1>9

LEMMA LeafStringIsOne ==
    ASSUME NEW m, IsLeafName(m), NEW n, IsLeafName(n), NEW x \in Bytes, NEW y \in Bytes,
           LeafString(m, x) = LeafString(n, y)
    PROVE  m = n /\ x = y
<1>1. ASSUME NEW s, IsLeafName(s), NEW t, IsLeafName(t), NEW v \in Bytes, NEW w \in Bytes,
             LeafString(s, v) = LeafString(t, w)
      PROVE  ~ Len(s) < Len(t)
  <2> SUFFICES ASSUME Len(s) < Len(t) PROVE FALSE
    OBVIOUS
  <2>1. s \in Bytes /\ t \in Bytes /\ Len(s) \in Nat /\ Len(t) \in Nat /\ DOMAIN t = 1 .. Len(t)
    BY <1>1 DEF IsLeafName, Bytes
  <2>2. PICK k \in Nat : k = Len(s) + 1 /\ k \in 1 .. Len(t)
    BY <2>1
  <2>3. LeafString(s, v)[k] = 0 /\ LeafString(t, w)[k] = t[k]
    BY <1>1, <2>1, <2>2, LeafStringAt
  <2>4. t[k] = 0
    BY <1>1, <2>3
  <2> QED BY <1>1, <2>1, <2>2, <2>4 DEF IsLeafName, Has
<1>2. m \in Bytes /\ n \in Bytes /\ Len(m) \in Nat /\ Len(n) \in Nat /\ Len(x) \in Nat /\ Len(y) \in Nat
  BY DEF IsLeafName, Bytes
<1>3. ~ Len(m) < Len(n) /\ ~ Len(n) < Len(m)
  BY <1>1
<1>4. PICK l \in Nat : l = Len(m) /\ l = Len(n)
  BY <1>2, <1>3
<1>5. Len(x) = Len(y)
  <2>1. Len(LeafString(m, x)) = Len(m) + 1 + Len(x)
    BY <1>2, LeafStringFacts
  <2>2. Len(LeafString(n, y)) = Len(n) + 1 + Len(y)
    BY <1>2, LeafStringFacts
  <2>3. l + 1 + Len(x) = l + 1 + Len(y)
    BY <1>4, <2>1, <2>2
  <2> QED BY <1>2, <1>4, <2>3
<1>6. \A k \in 1 .. l : m[k] = n[k]
  <2>1. \A k \in 1 .. Len(m) : LeafString(m, x)[k] = m[k]
    BY <1>2, LeafStringAt
  <2>2. \A k \in 1 .. Len(n) : LeafString(n, y)[k] = n[k]
    BY <1>2, LeafStringAt
  <2> QED BY <1>4, <2>1, <2>2
<1>7. \A k \in 1 .. Len(x) : x[k] = y[k]
  <2>1. \A k \in 1 .. Len(x) : LeafString(m, x)[(Len(m) + 1) + k] = x[k]
    BY <1>2, LeafStringAt
  <2>2. \A k \in 1 .. Len(y) : LeafString(n, y)[(Len(n) + 1) + k] = y[k]
    BY <1>2, LeafStringAt
  <2> QED BY <1>4, <1>5, <2>1, <2>2
<1>8. IsSeq(m) /\ IsSeq(n) /\ IsSeq(x) /\ IsSeq(y)
  BY <1>2 DEF Bytes, IsSeq
<1> QED BY <1>4, <1>5, <1>6, <1>7, <1>8, SameSeq

LEMMA LeavesBind ==
    ASSUME NoCollisions, NEW P, IsMap(P), NEW Q, IsMap(Q), LeavesOf(P) = LeavesOf(Q),
           \A p \in DOMAIN P : IsLeafName(LeafName(p)), \A q \in DOMAIN Q : IsLeafName(LeafName(q)),
           NEW p \in DOMAIN P
    PROVE  \E q \in DOMAIN Q : LeafName(q) = LeafName(p) /\ Q[q] = P[p]
<1>1. PICK k \in DOMAIN Sorted(DOMAIN P) : Sorted(DOMAIN P)[k] = p
  BY OrderFacts
<1>2. LeavesOf(P)[k] = Leaf(LeafName(p), P[p]) /\ k \in DOMAIN LeavesOf(P)
  BY <1>1, OrderFacts
<1>3. k \in DOMAIN Sorted(DOMAIN Q)
  BY <1>2, OrderFacts
<1>4. PICK q \in DOMAIN Q : q = Sorted(DOMAIN Q)[k] /\ LeavesOf(Q)[k] = Leaf(LeafName(q), Q[q])
  BY <1>3, OrderFacts
<1>5. LeafString(LeafName(p), P[p]) = LeafString(LeafName(q), Q[q])
  <2>1. Leaf(LeafName(p), P[p]) = Leaf(LeafName(q), Q[q])
    BY <1>2, <1>4
  <2> QED BY <2>1 DEF Leaf, NoCollisions
<1>6. P[p] \in Bytes /\ Q[q] \in Bytes
  BY ContentAssumption DEF IsMap, Contents
<1>7. LeafName(p) = LeafName(q) /\ P[p] = Q[q]
  BY <1>5, <1>6, LeafStringIsOne
<1> QED BY <1>7

LEMMA AllPlainLeaves ==
    ASSUME NEW P, IsMap(P), \A p \in DOMAIN P : IsLeafName(LeafName(p)),
           \A p \in DOMAIN P : Len(LeafString(LeafName(p), P[p])) # 2 * DigestLength
    PROVE  AllPlain(LeavesOf(P))
<1> SUFFICES ASSUME NEW n \in 1 .. Len(LeavesOf(P)) PROVE IsPlainLeaf(LeavesOf(P)[n])
  BY DEF AllPlain
<1>1. n \in DOMAIN LeavesOf(P)
  BY OrderFacts, SeqFacts DEF AllLeaves
<1>2. PICK p \in DOMAIN P : LeavesOf(P)[n] = Leaf(LeafName(p), P[p])
  BY <1>1, OrderFacts
<1>3. LeafName(p) \in Bytes /\ P[p] \in Bytes
  BY ContentAssumption DEF IsMap, Contents, IsLeafName
<1> QED BY <1>2, <1>3 DEF IsPlainLeaf

\* Its leaves are as many as its files.
LEMMA LeavesNumber ==
    ASSUME NEW P, IsMap(P)
    PROVE  Len(LeavesOf(P)) = Cardinality(DOMAIN P)
<1>1. DOMAIN P \in SUBSET Path /\ IsFiniteSet(DOMAIN P)
  BY DEF IsMap
<1>2. Cardinality(DOMAIN P) \in Nat
  BY <1>1, FS_CardinalityType
<1>3. DOMAIN LeavesOf(P) = 1 .. Cardinality(DOMAIN P)
  BY <1>2 DEF LeavesOf, Sorted
<1>4. DOMAIN LeavesOf(P) = 1 .. Len(LeavesOf(P)) /\ Len(LeavesOf(P)) \in Nat
  BY OrderFacts, SeqFacts DEF AllLeaves
<1> QED BY <1>2, <1>3, <1>4

\* What verifies is what was packed, under names every part of the program
\* takes alike.
LEMMA VerifiedFacts ==
    ASSUME NoCollisions, IInv, command = "pack", IsRoot(signed, LeavesOf(payload)),
           phase = "verify", pc # "failed", RootTells
    PROVE  /\ \A p \in DOMAIN payload :
                 CleanPath(p) /\ \E q \in dir : EntryName(q) = Joined(p) /\ payload[p] = Content(q)
           /\ \A q \in dir : \E p \in DOMAIN payload : EntryName(q) = Joined(p) /\ payload[p] = Content(q)
<1> DEFINE P == Start(dir)
<1>1. IsMap(P) /\ DOMAIN P = dir /\ IsMap(payload) /\ \A q \in dir : P[q] = Content(q)
  BY StartFacts DEF IInv, TypeInv, Start
<1>2. /\ entries = InOrder(P) /\ IsRoot(signed, LeavesOf(P)) /\ \A q \in dir : Writable(q)
      /\ AllWritten(FilesOf(entries)) /\ payload = Written(FilesOf(entries))
  BY <1>1 DEF IInv, ArchiveInv, CanArchive, Packed
<1> HIDE DEF P
<1>3. FilesOf(entries) \in Seq(Entry)
  BY FilesFacts DEF IInv, TypeInv
<1>4. ASSUME NEW q \in dir
      PROVE  LeafName(q) = EntryName(q) /\ EntryName(q) \in Bytes /\ ~ Has(EntryName(q), 0)
  <2>1. q \in Path /\ q # <<>> /\ \A n \in DOMAIN q : ~ Has(q[n], 0)
    BY DirectoriesAssumption DEF IInv, TypeInv
  <2>2. ~ Has(Joined(q), 0) /\ Joined(q) \in Bytes
    BY <2>1, JoinedBytes, JoinedFacts DEF Slash
  <2>3. ~ Has(EntryName(q), 0)
    BY <2>2 DEF EntryName, Normalized, Has, Slash
  <2> QED BY <1>2, <2>1, <2>3, EntryNameFacts
<1>5. ASSUME NEW n \in DOMAIN FilesOf(entries)
      PROVE  /\ Utf8(FilesOf(entries)[n].name) /\ ~ Has(FilesOf(entries)[n].name, Backslash)
             /\ ~ Has(FilesOf(entries)[n].name, 0) /\ FilesOf(entries)[n].name \in Bytes
  <2>1. PICK k \in DOMAIN entries : FilesOf(entries)[n] = entries[k]
    BY FilesFacts DEF IInv, TypeInv
  <2>2. PICK q \in dir : entries[k].name = EntryName(q)
    BY <1>1, <1>2, OrderFacts
  <2>3. q \in Path /\ q # <<>> /\ Writable(q)
    BY <1>1, <1>2 DEF IsMap
  <2> QED BY <1>4, <2>1, <2>2, <2>3, EntryNameFacts
<1>6. ASSUME NEW p \in DOMAIN payload
      PROVE  CleanPath(p) /\ LeafName(p) = Joined(p) /\ IsLeafName(LeafName(p))
  <2>1. CleanPath(p)
    BY <1>2, <1>3, <1>5, WrittenAreClean
  <2>2. PICK n \in DOMAIN FilesOf(entries) : p = Names(FilesOf(entries)[n].name)
    BY <1>2, <1>3, WrittenFacts
  <2>3. \A j \in DOMAIN p : ~ Has(p[j], 0)
    BY <1>5, <2>2, NamesFacts DEF Has
  <2>4. ~ Has(Joined(p), 0) /\ Joined(p) \in Bytes
    BY <2>1, <2>3, JoinedBytes, JoinedFacts DEF CleanPath, Slash
  <2> QED BY <2>1, <2>4, CleanPathFacts DEF IsLeafName
<1>7. \A q \in DOMAIN P : IsLeafName(LeafName(q))
  BY <1>1, <1>4 DEF IsLeafName
<1>8. LeavesOf(P) = LeavesOf(payload)
  <2>1. AllLeaves(LeavesOf(P)) /\ AllLeaves(LeavesOf(payload))
    BY <1>1, OrderFacts
  <2>2. CASE Cardinality(DOMAIN payload) = Cardinality(dir)
    BY <1>1, <1>2, <2>1, <2>2, LeavesNumber, RootBinds
  <2>3. CASE /\ \A p \in dir : Len(LeafString(LeafName(p), Content(p))) # 2 * DigestLength
             /\ \A p \in DOMAIN payload : Len(LeafString(LeafName(p), payload[p])) # 2 * DigestLength
    <3>1. AllPlain(LeavesOf(P)) /\ AllPlain(LeavesOf(payload))
      BY <1>1, <1>6, <1>7, <2>3, AllPlainLeaves
    <3> QED BY <1>2, <2>1, <3>1, RootBinds
  <2> QED BY <2>2, <2>3 DEF RootTells
<1>9. ASSUME NEW p \in DOMAIN payload
      PROVE  \E q \in dir : EntryName(q) = Joined(p) /\ payload[p] = Content(q)
  <2>1. PICK q \in DOMAIN P : LeafName(q) = LeafName(p) /\ P[q] = payload[p]
    BY <1>1, <1>6, <1>7, <1>8, LeavesBind
  <2> QED BY <1>1, <1>4, <1>6, <2>1
<1>10. ASSUME NEW q \in dir
       PROVE  \E p \in DOMAIN payload : EntryName(q) = Joined(p) /\ payload[p] = Content(q)
  <2>1. PICK p \in DOMAIN payload : LeafName(p) = LeafName(q) /\ payload[p] = P[q]
    BY <1>1, <1>6, <1>7, <1>8, LeavesBind
  <2> QED BY <1>1, <1>4, <1>6, <2>1
<1> QED BY <1>6, <1>9, <1>10

\* A packed archive that verifies is the whole directory, if no two strings
\* have one digest and the root tells the payloads apart.
THEOREM VerifiedWhole ==
    ASSUME NoCollisions
    PROVE  Spec => []VerifiedIsWhole
<1>1. IInv => VerifiedIsWhole
  <2> SUFFICES ASSUME IInv, command = "pack", pc = "verified", RootTells
               PROVE  {<<Joined(p), payload[p]>> : p \in DOMAIN payload}
                          = {<<EntryName(p), Content(p)>> : p \in dir}
    BY DEF VerifiedIsWhole
  <2>1. phase = "verify" /\ IsRoot(signed, LeavesOf(payload))
    BY DEF IInv, TypeInv, ArchiveInv
  <2>2. /\ \A p \in DOMAIN payload : \E q \in dir : EntryName(q) = Joined(p) /\ payload[p] = Content(q)
        /\ \A q \in dir : \E p \in DOMAIN payload : EntryName(q) = Joined(p) /\ payload[p] = Content(q)
    BY <2>1, VerifiedFacts
  <2> QED BY <2>2
<1> QED BY <1>1, Invariance, PTL

LEMMA ExportIsSelection ==
    ASSUME NEW Q, IsMap(Q), \A p \in DOMAIN Q : CleanPath(p),
           NEW s \in Seq(Entry), NEW pat \in Bytes, NEW files, files = AllowedOf(pat, s),
           AllWritten(files),
           \A n \in DOMAIN files :
              \E p \in DOMAIN Q : files[n].name = Joined(p) /\ files[n].content = Q[p],
           NEW S \in SUBSET DOMAIN Q,
           \A p \in DOMAIN Q :
              p \in S <=> Joined(p) \in {s[k].name : k \in DOMAIN s} /\ Matches(pat, Joined(p))
    PROVE  Written(files) = [path \in S |-> Q[path]]
<1>1. /\ files \in Seq(Entry)
      /\ \A n \in DOMAIN files : \E k \in DOMAIN s : files[n] = s[k] /\ GlobMatch(pat, s[k].name)
      /\ \A k \in DOMAIN s : GlobMatch(pat, s[k].name) => \E n \in DOMAIN files : files[n] = s[k]
  BY AllowedFacts
<1>2. /\ DOMAIN Written(files) = {Names(files[n].name) : n \in DOMAIN files}
      /\ \A p \in DOMAIN Written(files) :
            \E n \in DOMAIN files : p = Names(files[n].name) /\ Written(files)[p] = files[n].content
      /\ Written(files) = [p \in DOMAIN Written(files) |-> Written(files)[p]]
  BY <1>1, WrittenFacts DEF IsMap
<1>3. ASSUME NEW n \in DOMAIN files
      PROVE  /\ Names(files[n].name) \in S
             /\ files[n].content = Q[Names(files[n].name)]
  <2>1. PICK p \in DOMAIN Q : files[n].name = Joined(p) /\ files[n].content = Q[p]
    OBVIOUS
  <2>2. Names(Joined(p)) = p /\ Joined(p) \in Bytes
    BY CleanPathFacts, JoinedFacts DEF CleanPath
  <2>3. PICK k \in DOMAIN s : files[n] = s[k] /\ GlobMatch(pat, s[k].name)
    BY <1>1
  <2>4. Matches(pat, Joined(p))
    BY <2>1, <2>2, <2>3, GlobIsMatches
  <2> QED BY <2>1, <2>2, <2>3, <2>4
<1>4. ASSUME NEW p \in S PROVE \E n \in DOMAIN files : Names(files[n].name) = p
  <2>1. PICK k \in DOMAIN s : Joined(p) = s[k].name
    OBVIOUS
  <2>2. Names(Joined(p)) = p /\ Joined(p) \in Bytes /\ Matches(pat, Joined(p))
    BY CleanPathFacts, JoinedFacts DEF CleanPath
  <2>3. GlobMatch(pat, s[k].name)
    BY <2>1, <2>2, GlobIsMatches
  <2>4. PICK n \in DOMAIN files : files[n] = s[k]
    BY <1>1, <2>3
  <2> QED BY <2>1, <2>2, <2>4
<1>5. DOMAIN Written(files) = S
  BY <1>2, <1>3, <1>4
<1>6. ASSUME NEW p \in S PROVE Written(files)[p] = Q[p]
  <2>1. PICK n \in DOMAIN files : p = Names(files[n].name) /\ Written(files)[p] = files[n].content
    BY <1>2, <1>5
  <2> QED BY <1>3, <2>1
<1>7. Written(files) = [p \in S |-> Written(files)[p]]
  BY <1>2, <1>5
<1> QED BY <1>6, <1>7

\* What is exported is what the pattern stands for, if no two strings have one
\* digest and, of a packed archive, the root tells the payloads apart.
THEOREM ExportedMatched ==
    ASSUME NoCollisions
    PROVE  Spec => []ExportsMatched
<1>1. IInv => ExportsMatched
  <2> SUFFICES ASSUME IInv, pc = "opened", command = "pack" => RootTells
               PROVE  exported = [path \in {p \in DOMAIN payload :
                                              /\ Joined(p) \in {Source[k].name : k \in DOMAIN Source}
                                              /\ Matches(pattern, Joined(p))}
                                     |-> payload[path]]
    BY DEF ExportsMatched
  <2> DEFINE s == SourceOf(command, listed, entries)
             files == AllowedOf(pattern, s)
  <2>1. /\ phase = "verify" /\ IsRoot(signed, LeavesOf(payload)) /\ IsMap(payload)
        /\ command \in {"pack", "seal"} /\ dir \in Directories
        /\ pattern \in Bytes /\ AllWritten(files) /\ IntactIn(files, entries)
        /\ exported = Written(files)
    BY PatternsAssumption DEF IInv, TypeInv, ArchiveInv
  <2>2. Source = s /\ s \in Seq(Entry) /\ entries \in Seq(Entry)
    BY FilesFacts DEF Source, SourceOf, FileEntries, FilesOf, IInv, TypeInv
  <2>3. \A p \in DOMAIN payload : CleanPath(p)
    <3>1. CASE command = "pack"
      BY <2>1, <3>1, VerifiedFacts
    <3>2. CASE command = "seal"
      <4>1. CleanDir(Packed(command, dir)) /\ entries = InOrder(Packed(command, dir))
            /\ payload = Written(FilesOf(entries))
        BY <2>1, <3>2, PackedFacts DEF IInv, ArchiveInv, CanArchive
      <4> QED BY <4>1, CleanRoundTrip DEF CleanDir
    <3> QED BY <2>1, <3>1, <3>2
  <2>4. ASSUME NEW n \in DOMAIN files
        PROVE  \E p \in DOMAIN payload : files[n].name = Joined(p) /\ files[n].content = payload[p]
    <3>1. PICK j \in DOMAIN entries : entries[j] = files[n]
      BY <2>1 DEF IntactIn
    <3>2. CASE command = "pack"
      <4>1. entries = InOrder(Start(dir)) /\ IsMap(Start(dir)) /\ DOMAIN Start(dir) = dir
            /\ \A q \in dir : Start(dir)[q] = Content(q)
        BY <2>1, <3>2, StartFacts DEF IInv, ArchiveInv, Packed, Start
      <4>2. PICK q \in dir : entries[j].name = EntryName(q) /\ entries[j].content = Start(dir)[q]
        BY <4>1, OrderFacts
      <4>3. PICK p \in DOMAIN payload : EntryName(q) = Joined(p) /\ payload[p] = Content(q)
        BY <2>1, <3>2, VerifiedFacts
      <4> QED BY <3>1, <4>1, <4>2, <4>3
    <3>3. CASE command = "seal"
      <4>1. CleanDir(Packed(command, dir)) /\ entries = InOrder(Packed(command, dir))
            /\ payload = Written(FilesOf(entries))
        BY <2>1, <3>3, PackedFacts DEF IInv, ArchiveInv, CanArchive
      <4>2. payload = Packed(command, dir)
        BY <4>1, CleanRoundTrip
      <4>3. PICK p \in DOMAIN payload : entries[j].name = EntryName(p) /\ entries[j].content = payload[p]
        BY <2>1, <4>1, <4>2, OrderFacts
      <4> QED BY <2>3, <3>1, <4>3, CleanPathFacts
    <3> QED BY <2>1, <3>2, <3>3
  <2>5. files = AllowedOf(pattern, s)
    OBVIOUS
  <2>6. PICK S : S = {p \in DOMAIN payload : /\ Joined(p) \in {s[k].name : k \in DOMAIN s}
                                            /\ Matches(pattern, Joined(p))}
    OBVIOUS
  <2> HIDE DEF s, files
  <2>7. Written(files) = [path \in S |-> payload[path]]
    <3>1. S \in SUBSET DOMAIN payload
      BY <2>6
    <3>2. \A p \in DOMAIN payload :
             p \in S <=> Joined(p) \in {s[k].name : k \in DOMAIN s} /\ Matches(pattern, Joined(p))
      BY <2>6
    <3> QED BY <2>1, <2>2, <2>3, <2>4, <2>5, <3>1, <3>2, ExportIsSelection
  <2> QED BY <2>1, <2>2, <2>6, <2>7
<1> QED BY <1>1, Invariance, PTL

\* The level above has at most half the nodes, and one more if they are odd.
LEMMA HalfLevel ==
    ASSUME NEW l \in Nat, NEW n \in Nat, NEW m \in Nat, l > 1, 2 * n <= l + 1,
           m = (IF 2 * n <= l THEN 2 * n + 1 ELSE l + 1), m > l
    PROVE  4 * n - 1 \in Nat /\ 4 * n - 1 < 4 * l - m
<1>1. CASE 2 * n <= l
  BY <1>1
<1>2. CASE ~ 2 * n <= l
  <2>1. 2 * n = l + 1 /\ l # 2 /\ m = l + 1
    BY <1>2
  <2> QED BY <2>1
<1> QED BY <1>1, <1>2

\* The nodes of a level and those of the levels above it are fewer at each step.
LEMMA FewerNodes ==
    ASSUME TypeInv, Pair \/ Promote \/ NextLevel
    PROVE  Nearer
<1>1. PICK l \in Nat, n \in Nat, m \in Nat :
          /\ l = Len(level) /\ n = Len(next) /\ m = i /\ 2 * n <= l + 1
          /\ m = IF 2 * n <= l THEN 2 * n + 1 ELSE l + 1
  BY SeqFacts DEF TypeInv, TreeShape
<1>2. pc = "tree" /\ pc' = "tree" /\ phase' = phase /\ l > 1
  BY <1>1 DEF Pair, Promote, NextLevel, treeRest
<1>3. StepsLeft' = StepsLeft
  BY <1>2 DEF StepsLeft
<1>4. NodesLeft = 4 * l - m
  BY <1>1, <1>2 DEF NodesLeft
<1>5. CASE Pair \/ Promote
  <2>1. PICK k \in {m + 1, m + 2} : i' = k /\ level' = level /\ k <= l + 1
    BY <1>1, <1>5 DEF Pair, Promote
  <2>2. NodesLeft' = 4 * l - k
    BY <1>1, <1>2, <2>1 DEF NodesLeft
  <2>3. 4 * l - k \in Nat /\ 4 * l - k < 4 * l - m
    BY <1>2, <2>1
  <2> QED BY <1>3, <1>4, <2>2, <2>3 DEF Nearer
<1>6. CASE NextLevel
  <2>1. level' = next /\ i' = 1 /\ m > l
    BY <1>1, <1>6 DEF NextLevel
  <2>2. NodesLeft' = 4 * n - 1
    BY <1>1, <1>2, <2>1 DEF NodesLeft
  <2>3. 4 * n - 1 \in Nat /\ 4 * n - 1 < 4 * l - m
    BY <1>1, <1>2, <2>1, HalfLevel
  <2> QED BY <1>3, <1>4, <2>2, <2>3 DEF Nearer
<1> QED BY <1>5, <1>6

\* Computing a root and verifying it ends after finitely many steps, since each
\* one lowers StepsLeft or, within one tree, NodesLeft, for payloads of any size.
THEOREM EveryStepAdvances == Spec => Advances
<1>1. IInv /\ [Next]_vars => [Nearer]_vars
  <2> SUFFICES ASSUME IInv, Next PROVE Nearer
    OBVIOUS
  <2>1. /\ phase \in {"write", "verify"} /\ TypeInv
        /\ phase = "write" => pc # "verified"
        /\ phase = "verify" => pc \notin {"stage", "register", "extract"}
    BY DEF IInv, TypeInv, ArchiveInv
  <2>2. CASE Stage
    BY <2>1, <2>2 DEF Stage, StepsLeft, Nearer
  <2>3. CASE Hash
    BY <2>1, <2>3 DEF Hash, StepsLeft, Nearer
  <2>4. CASE Root
    BY <2>1, <2>4 DEF Root, treeRest, StepsLeft, Nearer
  <2>5. CASE Archive
    BY <2>1, <2>5 DEF Archive, StepsLeft, Nearer
  <2>6. CASE Register
    BY <2>1, <2>6 DEF Register, StepsLeft, Nearer
  <2>7. CASE Extract
    BY <2>1, <2>7 DEF Extract, StepsLeft, Nearer
  <2>8. CASE Compare
    BY <2>1, <2>8 DEF Compare, StepsLeft, Nearer
  <2>9. CASE Export
    BY <2>1, <2>9 DEF Export, StepsLeft, Nearer
  <2>10. CASE Pair \/ Promote \/ NextLevel
    BY <2>1, <2>10, FewerNodes
  <2> QED BY <2>2, <2>3, <2>4, <2>5, <2>6, <2>7, <2>8, <2>9, <2>10 DEF Next
<1> QED BY <1>1, Invariance, PTL DEF Spec, Advances
=============================================================================
