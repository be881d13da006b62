---------------------------- MODULE TimeSyncProofs ----------------------------
(***************************************************************************)
(* Proofs about TimeSync, for any number of interfaces, any clocks and any *)
(* frames: the parents always form a forest, interfaces of one tree agree  *)
(* on the time, every frame is parsed once, and the forest implements the  *)
(* division of the interfaces into time bases.                             *)
(***************************************************************************)
EXTENDS TimeSync, TLAPS, FiniteSetTheorems, SequenceTheorems, WellFoundedInduction

USE SkewAssumption, BoundsAssumption, NoneAssumption

-----------------------------------------------------------------------------
(* Recursion along parents that do not go round in a circle.                   *)

Acyclic(p, A) == \A S \in SUBSET A : S # {} => \E x \in S : p[x] \notin S

Solves(g, A, p, z, b, st) == \A x \in A : g[x] = IF p[x] = z THEN b[x] ELSE st[x][g[p[x]]]

\* There is a function that has the value b[x] where x has no parent, and st[x] of its
\* value at the parent elsewhere.
LEMMA RecursionExists ==
  ASSUME NEW A, NEW p, NEW z, NEW V, NEW b \in [A -> V], NEW st \in [A -> [V -> V]],
         z \notin A, \A x \in A : p[x] = z \/ p[x] \in A, Acyclic(p, A)
  PROVE  \E g \in [A -> V] : Solves(g, A, p, z, b, st)
<1> DEFINE Val(f, x) == IF p[x] = z THEN b[x] ELSE st[x][f[p[x]]]
           Partial(f) == /\ DOMAIN f \subseteq A /\ f \in [DOMAIN f -> V]
                         /\ \A x \in DOMAIN f : (p[x] = z \/ p[x] \in DOMAIN f) /\ f[x] = Val(f, x)
           All == {f \in UNION {[D -> V] : D \in SUBSET A} : Partial(f)}
           U == UNION {DOMAIN f : f \in All}
           Of(x) == CHOOSE f \in All : x \in DOMAIN f
           F == [x \in U |-> Of(x)[x]]
<1>1. \A f : f \in All <=> Partial(f)
  <2>1. ASSUME NEW f, Partial(f) PROVE f \in UNION {[D -> V] : D \in SUBSET A}
    BY <2>1
  <2> QED BY <2>1
<1> HIDE DEF All
<1>2. ASSUME NEW f \in All, NEW g \in All, NEW x \in DOMAIN f, x \in DOMAIN g PROVE f[x] = g[x]
  <2> DEFINE Bad == {y \in A : y \in DOMAIN f /\ y \in DOMAIN g /\ f[y] # g[y]}
  <2>1. Partial(f) /\ Partial(g)
    BY <1>1
  <2>2. ASSUME f[x] # g[x] PROVE FALSE
    <3>1. x \in Bad
      BY <1>2, <2>1, <2>2
    <3>2. PICK y \in Bad : p[y] \notin Bad
      BY <3>1 DEF Acyclic
    <3>3. f[y] = Val(f, y) /\ g[y] = Val(g, y)
      BY <2>1, <3>2
    <3>4. CASE p[y] = z
      BY <3>2, <3>3, <3>4
    <3>5. CASE p[y] # z
      <4>1. p[y] \in DOMAIN f /\ p[y] \in DOMAIN g /\ p[y] \in A
        BY <2>1, <3>2, <3>5
      <4>2. f[p[y]] = g[p[y]]
        BY <3>2, <4>1
      <4> QED BY <3>2, <3>3, <4>2
    <3> QED BY <3>4, <3>5
  <2> QED BY <2>2
<1>3. ASSUME NEW x \in U PROVE Of(x) \in All /\ x \in DOMAIN Of(x)
  BY <1>3
<1>4. U \subseteq A
  BY <1>1
<1>5. ASSUME NEW f \in All, NEW x \in DOMAIN f PROVE x \in U /\ F[x] = f[x]
  <2>1. x \in U
    BY <1>5
  <2>2. F[x] = Of(x)[x]
    BY <2>1
  <2> HIDE DEF F, U, Of
  <2> QED BY <1>2, <1>3, <2>1, <2>2
<1>6. Partial(F)
  <2>1. ASSUME NEW x \in U PROVE /\ F[x] \in V /\ (p[x] = z \/ p[x] \in U) /\ F[x] = Val(F, x)
    <3> DEFINE f == Of(x)
    <3>1. f \in All /\ x \in DOMAIN f
      BY <1>3, <2>1
    <3> HIDE DEF f, U, F
    <3>2. Partial(f)
      BY <1>1, <3>1
    <3>3. F[x] = f[x] /\ f[x] \in V /\ f[x] = Val(f, x)
      BY <1>5, <3>1, <3>2
    <3>4. CASE p[x] = z
      BY <3>3, <3>4
    <3>5. CASE p[x] # z
      <4>1. p[x] \in DOMAIN f
        BY <3>1, <3>2, <3>5
      <4>2. p[x] \in U /\ F[p[x]] = f[p[x]]
        BY <1>5, <3>1, <4>1
      <4> QED BY <3>3, <3>5, <4>2
    <3> QED BY <3>4, <3>5
  <2> HIDE DEF U, Of
  <2> QED BY <1>4, <2>1
<1>7. U = A
  <2>1. SUFFICES ASSUME A \ U # {} PROVE FALSE
    BY <1>4
  <2>2. PICK x \in A \ U : p[x] \notin A \ U
    BY <2>1 DEF Acyclic
  <2>3. p[x] = z \/ p[x] \in U
    BY <2>2
  <2> DEFINE G == [y \in U \cup {x} |-> IF y = x THEN Val(F, x) ELSE F[y]]
  <2>4. DOMAIN F = U /\ F \in [U -> V] /\ \A y \in U : (p[y] = z \/ p[y] \in U) /\ F[y] = Val(F, y)
    <3>1. DOMAIN F = U
      OBVIOUS
    <3> HIDE DEF U, F
    <3> QED BY <1>6, <3>1
  <2> HIDE DEF U, F
  <2>5. Val(F, x) \in V
    BY <2>2, <2>3, <2>4
  <2>6. ASSUME NEW y \in U \cup {x}
        PROVE  /\ G[y] \in V /\ (p[y] = z \/ p[y] \in U \cup {x}) /\ G[y] = Val(G, y)
    <3>1. p[y] # z => p[y] \in U /\ p[y] # x
      BY <2>2, <2>3, <2>4
    <3>2. p[y] # z => G[p[y]] = F[p[y]]
      BY <3>1
    <3> QED BY <2>3, <2>4, <2>5, <3>1, <3>2
  <2>7. Partial(G)
    <3>1. DOMAIN G = U \cup {x}
      OBVIOUS
    <3>2. G \in [U \cup {x} -> V]
      BY <2>6
    <3> HIDE DEF G
    <3> QED BY <1>4, <2>2, <2>6, <3>1, <3>2
  <2>8. G \in All /\ x \in DOMAIN G
    BY <1>1, <2>7
  <2> HIDE DEF G
  <2>9. x \in U
    BY <1>5, <2>8
  <2> QED BY <2>2, <2>9
<1>8. F \in [A -> V] /\ \A x \in A : F[x] = Val(F, x)
  <2>1. DOMAIN F = U
    OBVIOUS
  <2> HIDE DEF F, U
  <2> QED BY <1>6, <1>7, <2>1
<1> HIDE DEF F
<1> QED BY <1>8 DEF Solves
-----------------------------------------------------------------------------
(* The trees.                                                                  *)

Tree == [parent : [Ifaces -> Ifaces \cup {None}], delta : [Ifaces -> Int], timebases : Int]
Sound(s) == s \in Tree /\ Acyclic(s.parent, Ifaces)
IsRoot(s, i) == s.parent[i] = None

LEMMA TreeFields ==
  ASSUME NEW s \in Tree
  PROVE  /\ s.parent \in [Ifaces -> Ifaces \cup {None}] /\ s.delta \in [Ifaces -> Int]
         /\ s.timebases \in Int
BY DEF Tree

\* A set that holds an interface holds one whose parent is outside.
LEMMA Topmost ==
  ASSUME NEW s, Sound(s), NEW S \in SUBSET Ifaces, S # {}
  PROVE  \E x \in S : s.parent[x] \notin S
BY DEF Sound, Acyclic

LEMMA RootsEquation ==
  ASSUME NEW s, Sound(s)
  PROVE  Roots(s) = [x \in Ifaces |-> IF s.parent[x] = None THEN x ELSE Roots(s)[s.parent[x]]]
<1> DEFINE Sol(f) == f = [x \in Ifaces |-> IF s.parent[x] = None THEN x ELSE f[s.parent[x]]]
<1>1. \E f : Sol(f)
  <2> DEFINE b == [x \in Ifaces |-> x]
             st == [x \in Ifaces |-> [v \in Ifaces |-> v]]
             p == s.parent
  <2>1. /\ b \in [Ifaces -> Ifaces] /\ st \in [Ifaces -> [Ifaces -> Ifaces]]
        /\ None \notin Ifaces /\ \A x \in Ifaces : p[x] = None \/ p[x] \in Ifaces
        /\ Acyclic(p, Ifaces)
    BY TreeFields DEF Sound
  <2>2. PICK g \in [Ifaces -> Ifaces] : Solves(g, Ifaces, p, None, b, st)
    <3> HIDE DEF b, st, p
    <3> QED BY <2>1, RecursionExists, Zenon
  <2>3. \A x \in Ifaces : g[x] = IF p[x] = None THEN x ELSE g[p[x]]
    BY <2>1, <2>2 DEF Solves
  <2>4. g = [x \in Ifaces |-> IF p[x] = None THEN x ELSE g[p[x]]]
    BY <2>3
  <2> QED BY <2>4
<1>2. Sol(CHOOSE f : Sol(f))
  BY <1>1, Zenon
<1> QED BY <1>2 DEF Roots

\* What interfacemgr_get_root returns.
LEMMA RootIs ==
  ASSUME NEW s, Sound(s), NEW x \in Ifaces
  PROVE  /\ Root(s, x) \in Ifaces /\ s.parent[Root(s, x)] = None
         /\ s.parent[x] = None => Root(s, x) = x
         /\ s.parent[x] # None => s.parent[x] \in Ifaces /\ Root(s, x) = Root(s, s.parent[x])
<1>1. \A y \in Ifaces : Root(s, y) = IF s.parent[y] = None THEN y ELSE Root(s, s.parent[y])
  <2>1. Roots(s) = [y \in Ifaces |-> IF s.parent[y] = None THEN y ELSE Roots(s)[s.parent[y]]]
    BY RootsEquation
  <2> DEFINE R == Roots(s)
  <2> HIDE DEF R
  <2>2. \A y \in Ifaces : R[y] = IF s.parent[y] = None THEN y ELSE R[s.parent[y]]
    BY <2>1 DEF R
  <2> QED BY <2>2 DEF Root, R
<1>2. \A y \in Ifaces : s.parent[y] = None \/ s.parent[y] \in Ifaces
  BY TreeFields DEF Sound
<1> DEFINE Bad == {y \in Ifaces : ~(Root(s, y) \in Ifaces /\ s.parent[Root(s, y)] = None)}
<1>3. ASSUME x \in Bad PROVE FALSE
  <2>1. PICK y \in Bad : s.parent[y] \notin Bad
    BY <1>3, Topmost
  <2> QED BY <1>1, <1>2, <2>1
<1> QED BY <1>1, <1>2, <1>3

LEMMA RootUp ==
  ASSUME NEW s, Sound(s), NEW x \in Ifaces, s.parent[x] # None
  PROVE  Root(s, x) = Root(s, s.parent[x])
BY RootIs

LEMMA SumsEquation ==
  ASSUME NEW s, Sound(s)
  PROVE  Sums(s) = [x \in Ifaces |-> IF s.parent[x] = None THEN 0 ELSE s.delta[x] + Sums(s)[s.parent[x]]]
<1> DEFINE Sol(f) == f = [x \in Ifaces |-> IF s.parent[x] = None THEN 0 ELSE s.delta[x] + f[s.parent[x]]]
<1>1. \E f : Sol(f)
  <2> DEFINE b == [x \in Ifaces |-> 0]
             st == [x \in Ifaces |-> [v \in Int |-> s.delta[x] + v]]
             p == s.parent
  <2>1. /\ b \in [Ifaces -> Int] /\ st \in [Ifaces -> [Int -> Int]]
        /\ None \notin Ifaces /\ \A x \in Ifaces : p[x] = None \/ p[x] \in Ifaces
        /\ Acyclic(p, Ifaces)
    BY TreeFields DEF Sound
  <2>2. PICK g \in [Ifaces -> Int] : Solves(g, Ifaces, p, None, b, st)
    <3> HIDE DEF b, st, p
    <3> QED BY <2>1, RecursionExists, Zenon
  <2>3. \A x \in Ifaces : g[x] = IF p[x] = None THEN 0 ELSE s.delta[x] + g[p[x]]
    BY <2>1, <2>2 DEF Solves
  <2>4. g = [x \in Ifaces |-> IF p[x] = None THEN 0 ELSE s.delta[x] + g[p[x]]]
    BY <2>3
  <2> QED BY <2>4
<1>2. Sol(CHOOSE f : Sol(f))
  BY <1>1, Zenon
<1> QED BY <1>2 DEF Sums

\* Every link of a tree is the difference of the two clocks.
Clocked(s) == \A x \in Ifaces : s.parent[x] # None => s.delta[x] + Skew[x] = Skew[s.parent[x]]

\* So is the sum of the links to the root.
LEMMA SumIsSkew ==
  ASSUME NEW s, Sound(s), Clocked(s), NEW x \in Ifaces
  PROVE  ToRoot(s, x) = Skew[Root(s, x)] - Skew[x]
<1>1. \A y \in Ifaces : ToRoot(s, y) = IF s.parent[y] = None THEN 0 ELSE s.delta[y] + ToRoot(s, s.parent[y])
  <2>1. Sums(s) = [y \in Ifaces |-> IF s.parent[y] = None THEN 0 ELSE s.delta[y] + Sums(s)[s.parent[y]]]
    BY SumsEquation
  <2> DEFINE R == Sums(s)
  <2> HIDE DEF R
  <2>2. \A y \in Ifaces : R[y] = IF s.parent[y] = None THEN 0 ELSE s.delta[y] + R[s.parent[y]]
    BY <2>1 DEF R
  <2> QED BY <2>2 DEF ToRoot, R
<1> DEFINE Bad == {y \in Ifaces : ToRoot(s, y) # Skew[Root(s, y)] - Skew[y]}
<1>2. ASSUME x \in Bad PROVE FALSE
  <2>1. PICK y \in Bad : s.parent[y] \notin Bad
    BY <1>2, Topmost
  <2>2. /\ Skew[y] \in Int /\ Root(s, y) \in Ifaces /\ Skew[Root(s, y)] \in Int
        /\ s.delta[y] \in Int
    BY RootIs, TreeFields DEF Sound
  <2>3. CASE s.parent[y] = None
    BY <1>1, <2>1, <2>2, <2>3, RootIs
  <2>4. CASE s.parent[y] # None
    <3>1. s.parent[y] \in Ifaces /\ Root(s, y) = Root(s, s.parent[y])
      BY <2>4, RootIs
    <3>2. ToRoot(s, s.parent[y]) = Skew[Root(s, y)] - Skew[s.parent[y]] /\ Skew[s.parent[y]] \in Int
      BY <2>1, <3>1
    <3>3. s.delta[y] + Skew[y] = Skew[s.parent[y]]
      BY <2>4 DEF Clocked
    <3> QED BY <1>1, <2>1, <2>2, <2>4, <3>2, <3>3
  <2> QED BY <2>3, <2>4
<1> QED BY <1>2
\* What the trees over the open interfaces H keep.
RootSet(s, H) == {x \in H : s.parent[x] = None}
Good(s, H) ==
  /\ Sound(s) /\ Clocked(s)
  /\ \A x \in Ifaces : s.parent[x] # None => x \in H /\ s.parent[x] \in H
  /\ s.timebases = Cardinality(RootSet(s, H))

\* Interfaces of one tree of s are in one tree of r.
Coarser(s, r) == \A x, y \in Ifaces : Root(s, x) = Root(s, y) => Root(r, x) = Root(r, y)

LEMMA CoarserTransitive ==
  ASSUME NEW s, NEW r, NEW q, Coarser(s, r), Coarser(r, q)
  PROVE  Coarser(s, q)
BY DEF Coarser

LEMMA FiniteHandles ==
  ASSUME NEW H \in SUBSET Ifaces, NEW s
  PROVE  IsFiniteSet(H) /\ IsFiniteSet(RootSet(s, H)) /\ Cardinality(RootSet(s, H)) \in Nat
<1>1. IsFiniteSet(Ifaces)
  BY FS_Interval DEF Ifaces
<1>2. IsFiniteSet(H) /\ IsFiniteSet(RootSet(s, H))
  BY <1>1, FS_Subset DEF RootSet
<1> QED BY <1>2, FS_CardinalityType

\* An interface is at most one step from its root.
Flat(s, i) == s.parent[i] = None \/ s.parent[s.parent[i]] = None

\* A root joins the tree of j.
LEMMA JoinUnder ==
  ASSUME NEW H \in SUBSET Ifaces, NEW s, Good(s, H), NEW i \in H, NEW j \in H,
         s.parent[i] = None, Flat(s, j), Root(s, i) # Root(s, j),
         NEW r \in Tree, r.parent = [s.parent EXCEPT ![i] = j],
         r.delta = [s.delta EXCEPT ![i] = Skew[j] - Skew[i]], r.timebases = s.timebases - 1
  PROVE  Good(r, H) /\ Coarser(s, r)
<1>1. /\ Sound(s) /\ s \in Tree /\ i \in Ifaces /\ j \in Ifaces
      /\ s.parent \in [Ifaces -> Ifaces \cup {None}] /\ s.delta \in [Ifaces -> Int]
  BY TreeFields DEF Good, Sound
<1>2. /\ r.parent[i] = j /\ \A x \in Ifaces : x # i => r.parent[x] = s.parent[x]
      /\ r.delta[i] = Skew[j] - Skew[i] /\ \A x \in Ifaces : x # i => r.delta[x] = s.delta[x]
  BY <1>1
<1>3. Root(s, i) = i /\ i # j
  BY <1>1, RootIs
<1>4. Sound(r)
  <2> SUFFICES ASSUME NEW S \in SUBSET Ifaces, S # {} PROVE \E x \in S : r.parent[x] \notin S
    BY DEF Sound, Acyclic
  <2>1. CASE i \notin S
    <3>1. PICK x \in S : s.parent[x] \notin S
      BY <1>1, Topmost
    <3> QED BY <1>2, <2>1, <3>1
  <2>2. CASE i \in S /\ j \notin S
    BY <1>2, <2>2
  <2>3. CASE i \in S /\ j \in S /\ s.parent[j] = None
    BY <1>2, <1>3, <2>3
  <2>4. CASE i \in S /\ j \in S /\ s.parent[j] # None
    <3>1. s.parent[j] # i /\ s.parent[j] \in Ifaces
      BY <1>1, <1>3, <2>4, RootIs
    <3>2. r.parent[j] = s.parent[j] /\ r.parent[s.parent[j]] = None
      BY <1>2, <1>3, <2>4, <3>1 DEF Flat
    <3>3. CASE s.parent[j] \in S
      BY <3>2, <3>3
    <3>4. CASE s.parent[j] \notin S
      BY <2>4, <3>2, <3>4
    <3> QED BY <3>3, <3>4
  <2> QED BY <2>1, <2>2, <2>3, <2>4
<1>5. Clocked(r)
  <2>1. Clocked(s) /\ Skew[i] \in Int /\ Skew[j] \in Int
    BY <1>1 DEF Good
  <2>2. ASSUME NEW x \in Ifaces, r.parent[x] # None PROVE r.delta[x] + Skew[x] = Skew[r.parent[x]]
    <3>1. CASE x = i
      BY <1>2, <2>1, <3>1
    <3>2. CASE x # i
      BY <1>2, <2>1, <2>2, <3>2 DEF Clocked
    <3> QED BY <3>1, <3>2
  <2> QED BY <2>2 DEF Clocked
<1>6. \A x \in Ifaces : r.parent[x] # None => x \in H /\ r.parent[x] \in H
  BY <1>2 DEF Good
<1>7. r.timebases = Cardinality(RootSet(r, H))
  <2>1. RootSet(r, H) = RootSet(s, H) \ {i} /\ i \in RootSet(s, H)
    BY <1>1, <1>2 DEF RootSet
  <2>2. Cardinality(RootSet(s, H) \ {i}) = Cardinality(RootSet(s, H)) - 1
    BY <2>1, FiniteHandles, FS_RemoveElement
  <2> QED BY <2>1, <2>2 DEF Good
<1>8. ASSUME NEW x \in Ifaces
      PROVE  Root(r, x) = IF Root(s, x) = i THEN Root(s, j) ELSE Root(s, x)
  <2> DEFINE Bad == {y \in Ifaces : Root(r, y) # IF Root(s, y) = i THEN Root(s, j) ELSE Root(s, y)}
  <2>1. ASSUME x \in Bad PROVE FALSE
    <3>1. PICK y \in Bad : r.parent[y] \notin Bad
      BY <1>4, <2>1, Topmost
    <3>2. CASE y = i
      <4>1. Root(r, i) = Root(r, j)
        BY <1>1, <1>2, <1>4, RootIs
      <4>2. Root(r, j) = Root(s, j)
        BY <1>1, <1>2, <1>3, <3>1, <3>2
      <4> QED BY <1>3, <3>1, <3>2, <4>1, <4>2
    <3>3. CASE y # i /\ s.parent[y] = None
      BY <1>1, <1>2, <1>4, <3>1, <3>3, RootIs
    <3>4. CASE y # i /\ s.parent[y] # None
      <4>1. s.parent[y] \in Ifaces /\ Root(s, y) = Root(s, s.parent[y])
        BY <1>1, <3>1, <3>4, RootIs
      <4>2. Root(r, y) = Root(r, s.parent[y])
        <5>1. r.parent[y] = s.parent[y] /\ r.parent[y] # None /\ y \in Ifaces
          BY <1>2, <3>1, <3>4
        <5>2. Root(r, y) = Root(r, r.parent[y])
          BY <1>4, <5>1, RootUp, Zenon
        <5> QED BY <5>1, <5>2
      <4> QED BY <1>2, <3>1, <3>4, <4>1, <4>2
    <3> QED BY <3>2, <3>3, <3>4
  <2> QED BY <2>1
<1>9. Coarser(s, r)
  BY <1>8 DEF Coarser
<1> QED BY <1>4, <1>5, <1>6, <1>7, <1>9 DEF Good

\* The tree of j, turned over, joins the tree of i.
Turned(s, i, j, R, r) ==
  /\ s.parent[i] # None /\ s.parent[j] # None /\ Flat(s, i) /\ Flat(s, j)
  /\ R = Root(s, j) /\ Root(s, i) # Root(s, j)
  /\ r \in Tree /\ r.parent = [[s.parent EXCEPT ![R] = j] EXCEPT ![j] = i]
  /\ r.delta = [[s.delta EXCEPT ![R] = -s.delta[j]] EXCEPT ![j] = Skew[i] - Skew[j]]
  /\ r.timebases = s.timebases - 1

LEMMA JoinTurned ==
  ASSUME NEW H \in SUBSET Ifaces, NEW s, Good(s, H), NEW i \in H, NEW j \in H,
         NEW R, NEW r, Turned(s, i, j, R, r)
  PROVE  Good(r, H) /\ Coarser(s, r)
<1> USE DEF Turned
<1>1. /\ Sound(s) /\ s \in Tree /\ i \in Ifaces /\ j \in Ifaces
      /\ s.parent \in [Ifaces -> Ifaces \cup {None}] /\ s.delta \in [Ifaces -> Int]
  BY TreeFields DEF Good, Sound
<1> DEFINE A == s.parent[i]
<1>2. /\ A \in Ifaces /\ s.parent[A] = None /\ Root(s, i) = A
      /\ R \in H /\ R \in Ifaces /\ s.parent[R] = None /\ s.parent[j] = R
  <2>1. A \in Ifaces /\ s.parent[A] = None /\ Root(s, i) = Root(s, A) /\ Root(s, A) = A
    BY <1>1, RootIs DEF Flat
  <2>2. /\ s.parent[j] \in Ifaces /\ s.parent[s.parent[j]] = None
        /\ Root(s, j) = Root(s, s.parent[j]) /\ Root(s, s.parent[j]) = s.parent[j]
    BY <1>1, RootIs DEF Flat
  <2>3. s.parent[j] \in H
    BY <1>1 DEF Good
  <2> QED BY <2>1, <2>2, <2>3
<1>3. R # j /\ R # i /\ A # R /\ A # j /\ A # i /\ i # j
  BY <1>2
<1> HIDE DEF A
<1>4. /\ r.parent[R] = j /\ r.parent[j] = i
      /\ \A x \in Ifaces : x # R /\ x # j => r.parent[x] = s.parent[x]
      /\ \A x \in Ifaces : x # R /\ x # j => r.delta[x] = s.delta[x]
      /\ r.delta[R] = -s.delta[j] /\ r.delta[j] = Skew[i] - Skew[j]
  BY <1>1, <1>2, <1>3
<1>5. r.parent[A] = None /\ r.parent[i] = A
  BY <1>1, <1>2, <1>3, <1>4 DEF A
<1>6. Sound(r)
  <2> SUFFICES ASSUME NEW S \in SUBSET Ifaces, S # {} PROVE \E x \in S : r.parent[x] \notin S
    BY DEF Sound, Acyclic
  <2>1. CASE A \in S
    BY <1>5, <2>1
  <2>2. CASE A \notin S /\ i \in S
    BY <1>5, <2>2
  <2>3. CASE i \notin S /\ j \in S
    BY <1>4, <2>3
  <2>4. CASE j \notin S /\ R \in S
    BY <1>4, <2>4
  <2>5. CASE j \notin S /\ R \notin S
    <3>1. PICK x \in S : s.parent[x] \notin S
      BY <1>1, Topmost
    <3> QED BY <1>4, <2>5, <3>1
  <2> QED BY <2>1, <2>2, <2>3, <2>4, <2>5
<1>7. Clocked(r)
  <2>1. Clocked(s) /\ Skew[i] \in Int /\ Skew[j] \in Int /\ Skew[R] \in Int /\ s.delta[j] \in Int
    BY <1>1, <1>2 DEF Good
  <2>2. s.delta[j] + Skew[j] = Skew[R]
    BY <1>1, <1>2, <2>1 DEF Clocked
  <2>3. ASSUME NEW x \in Ifaces, r.parent[x] # None PROVE r.delta[x] + Skew[x] = Skew[r.parent[x]]
    <3>1. CASE x = R
      <4>1. r.delta[x] = -s.delta[j] /\ r.parent[x] = j
        BY <1>4, <3>1
      <4>2. -s.delta[j] + Skew[R] = Skew[j]
        BY <2>1, <2>2
      <4> QED BY <3>1, <4>1, <4>2
    <3>2. CASE x = j
      BY <1>4, <2>1, <3>2
    <3>3. CASE x # R /\ x # j
      BY <1>4, <2>1, <2>3, <3>3 DEF Clocked
    <3> QED BY <3>1, <3>2, <3>3
  <2> QED BY <2>3 DEF Clocked
<1>8. \A x \in Ifaces : r.parent[x] # None => x \in H /\ r.parent[x] \in H
  BY <1>2, <1>4 DEF Good
<1>9. r.timebases = Cardinality(RootSet(r, H))
  <2>1. RootSet(r, H) = RootSet(s, H) \ {R} /\ R \in RootSet(s, H)
    BY <1>1, <1>2, <1>4 DEF RootSet
  <2>2. Cardinality(RootSet(s, H) \ {R}) = Cardinality(RootSet(s, H)) - 1
    BY <2>1, FiniteHandles, FS_RemoveElement
  <2> QED BY <2>1, <2>2 DEF Good
<1>10. ASSUME NEW x \in Ifaces
       PROVE  Root(r, x) = IF Root(s, x) = R THEN Root(s, i) ELSE Root(s, x)
  <2> DEFINE Bad == {y \in Ifaces : Root(r, y) # IF Root(s, y) = R THEN Root(s, i) ELSE Root(s, y)}
  <2>1. ASSUME x \in Bad PROVE FALSE
    <3>1. PICK y \in Bad : r.parent[y] \notin Bad
      BY <1>6, <2>1, Topmost
    <3>2. CASE y = R
      <4>1. Root(r, R) = Root(r, j) /\ Root(s, R) = R
        BY <1>1, <1>2, <1>4, <1>6, RootIs
      <4>2. Root(r, j) = Root(s, i)
        BY <1>1, <1>4, <3>1, <3>2
      <4> QED BY <3>1, <3>2, <4>1, <4>2
    <3>3. CASE y = j
      <4>1. Root(r, j) = Root(r, i)
        BY <1>1, <1>4, <1>6, RootIs
      <4>2. Root(r, i) = Root(s, i)
        BY <1>1, <1>2, <1>3, <1>4, <3>1, <3>3
      <4> QED BY <3>1, <3>3, <4>1, <4>2
    <3>4. CASE y # R /\ y # j /\ s.parent[y] = None
      <4>1. Root(s, y) = y /\ Root(r, y) = y
        BY <1>1, <1>4, <1>6, <3>1, <3>4, RootIs
      <4> QED BY <3>1, <3>4, <4>1
    <3>5. CASE y # R /\ y # j /\ s.parent[y] # None
      <4>1. s.parent[y] \in Ifaces /\ Root(s, y) = Root(s, s.parent[y])
        BY <1>1, <3>1, <3>5, RootIs
      <4>2. Root(r, y) = Root(r, s.parent[y])
        <5>1. y \in Ifaces /\ r.parent[y] = s.parent[y] /\ r.parent[y] # None
          BY <1>4, <3>1, <3>5
        <5>2. Root(r, y) = Root(r, r.parent[y])
          BY <1>6, <5>1, RootUp, Zenon
        <5> QED BY <5>1, <5>2
      <4> QED BY <1>4, <3>1, <3>5, <4>1, <4>2
    <3> QED BY <3>2, <3>3, <3>4, <3>5
  <2> QED BY <2>1
<1>11. Coarser(s, r)
  BY <1>10 DEF Coarser
<1> QED BY <1>6, <1>7, <1>8, <1>9, <1>11 DEF Good
-----------------------------------------------------------------------------
(* interfacemgr_sync_time.                                                     *)

LEMMA AttachFields ==
  ASSUME NEW s \in Tree, NEW i \in Ifaces, NEW p \in Ifaces \cup {None}, NEW d \in Int
  PROVE  /\ Attach(s, i, p, d) \in Tree
         /\ Attach(s, i, p, d).parent = [s.parent EXCEPT ![i] = p]
         /\ Attach(s, i, p, d).delta = [s.delta EXCEPT ![i] = d]
         /\ Attach(s, i, p, d).timebases = s.timebases
<1>1. /\ s.parent \in [Ifaces -> Ifaces \cup {None}] /\ s.delta \in [Ifaces -> Int]
      /\ s.timebases \in Int
  BY TreeFields
<1>2. /\ [s.parent EXCEPT ![i] = p] \in [Ifaces -> Ifaces \cup {None}]
      /\ [s.delta EXCEPT ![i] = d] \in [Ifaces -> Int]
  BY <1>1
<1> QED BY <1>1, <1>2 DEF Attach, Tree

LEMMA CountedFields ==
  ASSUME NEW s \in Tree, NEW n \in Int
  PROVE  /\ [s EXCEPT !.timebases = n] \in Tree
         /\ [s EXCEPT !.timebases = n].parent = s.parent
         /\ [s EXCEPT !.timebases = n].delta = s.delta
         /\ [s EXCEPT !.timebases = n].timebases = n
BY DEF Tree

\* Rebasing an interface moves it up in its own tree.
LEMMA RebaseGood ==
  ASSUME NEW H \in SUBSET Ifaces, NEW s, Good(s, H), NEW i \in H
  PROVE  /\ Good(Rebase(s, i), H) /\ Coarser(s, Rebase(s, i))
         /\ Flat(Rebase(s, i), i)
         /\ \A j \in H : Flat(s, j) => Flat(Rebase(s, i), j)
<1> DEFINE r == Rebase(s, i)
           B == Root(s, i)
<1>1. /\ Sound(s) /\ Clocked(s) /\ s \in Tree /\ i \in Ifaces
      /\ s.parent \in [Ifaces -> Ifaces \cup {None}] /\ s.delta \in [Ifaces -> Int]
  BY TreeFields DEF Good, Sound
<1>2. /\ B \in Ifaces /\ s.parent[B] = None /\ Root(s, B) = B
      /\ ToRoot(s, i) = Skew[B] - Skew[i] /\ Skew[B] \in Int /\ Skew[i] \in Int
  BY <1>1, RootIs, SumIsSkew
<1>3. CASE B = i
  <2>1. r = s
    BY <1>3 DEF Rebase
  <2>2. Flat(s, i) /\ Coarser(s, s)
    BY <1>2, <1>3 DEF Flat, Coarser
  <2> QED BY <2>1, <2>2
<1>4. CASE B # i
  <2>1. r = Attach(s, i, B, Skew[B] - Skew[i])
    BY <1>2, <1>4 DEF Rebase
  <2>2. /\ r \in Tree /\ r.parent = [s.parent EXCEPT ![i] = B] /\ r.timebases = s.timebases
        /\ r.delta = [s.delta EXCEPT ![i] = Skew[B] - Skew[i]]
    BY <1>1, <1>2, <2>1, AttachFields
  <2> HIDE DEF r, B
  <2>3. /\ r.parent[i] = B /\ \A x \in Ifaces : x # i => r.parent[x] = s.parent[x]
        /\ r.delta[i] = Skew[B] - Skew[i] /\ \A x \in Ifaces : x # i => r.delta[x] = s.delta[x]
        /\ r.parent[B] = None /\ s.parent[i] # None
    BY <1>1, <1>2, <1>4, <2>2, RootIs DEF B
  <2>4. B \in H
    <3>1. \A S \in SUBSET Ifaces : S # {} => \E x \in S : s.parent[x] \notin S
      BY <1>1, Topmost
    <3> DEFINE Bad == {x \in H : Root(s, x) \notin H}
    <3>2. ASSUME Bad # {} PROVE FALSE
      <4>1. PICK x \in Bad : s.parent[x] \notin Bad
        BY <3>1, <3>2
      <4>2. s.parent[x] = None \/ (s.parent[x] \in H /\ Root(s, x) = Root(s, s.parent[x]))
        BY <1>1, <4>1, RootIs DEF Good
      <4> QED BY <1>1, <4>1, <4>2, RootIs
    <3> QED BY <3>2 DEF B
  <2>5. Sound(r)
    <3> SUFFICES ASSUME NEW S \in SUBSET Ifaces, S # {} PROVE \E x \in S : r.parent[x] \notin S
      BY <2>2 DEF Sound, Acyclic
    <3>1. CASE B \in S
      BY <2>3, <3>1
    <3>2. CASE B \notin S /\ i \in S
      BY <2>3, <3>2
    <3>3. CASE i \notin S
      <4>1. PICK x \in S : s.parent[x] \notin S
        BY <1>1, Topmost
      <4> QED BY <2>3, <3>3, <4>1
    <3> QED BY <3>1, <3>2, <3>3
  <2>6. Clocked(r)
    <3>1. ASSUME NEW x \in Ifaces, r.parent[x] # None PROVE r.delta[x] + Skew[x] = Skew[r.parent[x]]
      <4>1. CASE x = i
        BY <1>2, <2>3, <4>1
      <4>2. CASE x # i
        BY <1>1, <2>3, <3>1, <4>2 DEF Clocked
      <4> QED BY <4>1, <4>2
    <3> QED BY <3>1 DEF Clocked
  <2>7. \A x \in Ifaces : r.parent[x] # None => x \in H /\ r.parent[x] \in H
    BY <2>3, <2>4 DEF Good
  <2>8. r.timebases = Cardinality(RootSet(r, H))
    <3>1. RootSet(r, H) = RootSet(s, H)
      BY <1>2, <2>3 DEF RootSet
    <3> QED BY <2>2, <3>1 DEF Good
  <2>9. ASSUME NEW x \in Ifaces PROVE Root(r, x) = Root(s, x)
    <3> DEFINE Bad == {y \in Ifaces : Root(r, y) # Root(s, y)}
    <3>1. ASSUME x \in Bad PROVE FALSE
      <4>1. PICK y \in Bad : r.parent[y] \notin Bad
        BY <2>5, <3>1, Topmost
      <4>2. CASE y = i
        <5>1. Root(r, i) = Root(r, B) /\ Root(s, i) = B
          BY <1>1, <1>2, <2>3, <2>5, RootIs DEF B
        <5>2. Root(r, B) = B
          BY <1>2, <2>3, <2>5, RootIs
        <5> QED BY <4>1, <4>2, <5>1, <5>2
      <4>3. CASE y # i /\ s.parent[y] = None
        <5>1. Root(s, y) = y /\ Root(r, y) = y
          BY <1>1, <2>3, <2>5, <4>1, <4>3, RootIs
        <5> QED BY <4>1, <5>1
      <4>4. CASE y # i /\ s.parent[y] # None
        <5>1. s.parent[y] \in Ifaces /\ Root(s, y) = Root(s, s.parent[y])
          BY <1>1, <4>1, <4>4, RootIs
        <5>2. Root(r, y) = Root(r, s.parent[y])
          BY <2>3, <2>5, <4>1, <4>4, RootIs
        <5> QED BY <2>3, <4>1, <4>4, <5>1, <5>2
      <4> QED BY <4>2, <4>3, <4>4
    <3> QED BY <3>1
  <2>10. Coarser(s, r)
    BY <2>9 DEF Coarser
  <2>11. ASSUME NEW j \in H, Flat(s, j) \/ j = i PROVE Flat(r, j)
    <3>1. CASE j = i
      BY <2>3, <3>1 DEF Flat
    <3>2. CASE j # i /\ s.parent[j] = None
      BY <2>3, <3>2 DEF Flat
    <3>3. CASE j # i /\ s.parent[j] # None /\ Flat(s, j)
      <4>1. s.parent[j] \in Ifaces /\ s.parent[s.parent[j]] = None /\ s.parent[j] # i
        BY <1>1, <2>3, <3>3, RootIs DEF Flat
      <4> QED BY <2>3, <3>3, <4>1 DEF Flat
    <3> QED BY <2>11, <3>1, <3>2, <3>3
  <2>12. Good(r, H)
    BY <2>5, <2>6, <2>7, <2>8 DEF Good
  <2>13. Flat(r, i) /\ \A j \in H : Flat(s, j) => Flat(r, j)
    BY <2>11
  <2> QED BY <2>10, <2>12, <2>13 DEF r
<1> QED BY <1>3, <1>4
\* Two interfaces have heard frame k, each by its own clock.
LEMMA SyncGood ==
  ASSUME NEW H \in SUBSET Ifaces, NEW s, Good(s, H), NEW i \in H, NEW j \in H, NEW k \in Int
  PROVE  /\ Good(SyncTime(s, i, Clock(i, k), j, Clock(j, k)), H)
         /\ Coarser(s, SyncTime(s, i, Clock(i, k), j, Clock(j, k)))
<1> DEFINE r == Rebase(Rebase(s, i), j)
           c == [r EXCEPT !.timebases = r.timebases - 1]
           q == SyncTime(s, i, Clock(i, k), j, Clock(j, k))
           u == Clock(j, k) - Clock(i, k)
           v == Clock(i, k) - Clock(j, k)
           d == -r.delta[j]
           R == Root(r, j)
<1>1. Good(r, H) /\ Coarser(s, r) /\ Flat(r, i) /\ Flat(r, j)
  <2> DEFINE m == Rebase(s, i)
  <2>1. Good(m, H) /\ Coarser(s, m) /\ Flat(m, i)
    BY RebaseGood
  <2> HIDE DEF m
  <2>2. Good(Rebase(m, j), H) /\ Coarser(m, Rebase(m, j)) /\ Flat(Rebase(m, j), j) /\ Flat(Rebase(m, j), i)
    BY <2>1, RebaseGood
  <2>3. Coarser(s, Rebase(m, j))
    BY <2>1, <2>2, CoarserTransitive, Zenon
  <2> QED BY <2>2, <2>3 DEF m
<1>2. /\ i \in Ifaces /\ j \in Ifaces /\ Skew[i] \in Int /\ Skew[j] \in Int
      /\ u = Skew[j] - Skew[i] /\ v = Skew[i] - Skew[j]
  BY DEF Clock
<1>3. q = IF Root(r, i) = R THEN r
          ELSE IF r.parent[i] = None THEN Attach(c, i, j, u)
          ELSE IF r.parent[j] = None THEN Attach(c, j, i, v)
          ELSE Attach(Attach(c, R, j, d), j, i, v)
  BY DEF SyncTime
<1>4. /\ r \in Tree /\ r.parent \in [Ifaces -> Ifaces \cup {None}] /\ r.delta \in [Ifaces -> Int]
      /\ r.timebases - 1 \in Int /\ R \in Ifaces /\ d \in Int
  <2> HIDE DEF r
  <2>1. r \in Tree /\ r.parent \in [Ifaces -> Ifaces \cup {None}] /\ r.delta \in [Ifaces -> Int]
        /\ r.timebases \in Int /\ R \in Ifaces
    BY <1>1, <1>2, RootIs, TreeFields DEF Good, Sound
  <2>2. r.delta[j] \in Int
    BY <1>2, <2>1
  <2> QED BY <2>1, <2>2
<1> HIDE DEF r
<1>5. c \in Tree /\ c.parent = r.parent /\ c.delta = r.delta /\ c.timebases = r.timebases - 1
  BY <1>4, CountedFields
<1> HIDE DEF c, u, v, d, R, q
<1>6. CASE Root(r, i) = R
  BY <1>1, <1>3, <1>6 DEF q
<1>7. CASE Root(r, i) # R /\ r.parent[i] = None
  <2>1. q = Attach(c, i, j, u) /\ u \in Int
    BY <1>2, <1>3, <1>7
  <2>2. /\ q \in Tree /\ q.parent = [r.parent EXCEPT ![i] = j] /\ q.timebases = r.timebases - 1
        /\ q.delta = [r.delta EXCEPT ![i] = Skew[j] - Skew[i]]
    BY <1>2, <1>5, <2>1, AttachFields
  <2>3. Good(q, H) /\ Coarser(r, q)
    BY <1>1, <1>7, <2>2, JoinUnder DEF R
  <2> QED BY <1>1, <2>3, CoarserTransitive, Zenon DEF q
<1>8. CASE Root(r, i) # R /\ r.parent[i] # None /\ r.parent[j] = None
  <2>1. q = Attach(c, j, i, v) /\ v \in Int
    BY <1>2, <1>3, <1>8
  <2>2. /\ q \in Tree /\ q.parent = [r.parent EXCEPT ![j] = i] /\ q.timebases = r.timebases - 1
        /\ q.delta = [r.delta EXCEPT ![j] = Skew[i] - Skew[j]]
    BY <1>2, <1>5, <2>1, AttachFields
  <2>3. Good(q, H) /\ Coarser(r, q)
    BY <1>1, <1>8, <2>2, JoinUnder DEF R
  <2> QED BY <1>1, <2>3, CoarserTransitive, Zenon DEF q
<1>9. CASE Root(r, i) # R /\ r.parent[i] # None /\ r.parent[j] # None
  <2> DEFINE m == Attach(c, R, j, d)
  <2>1. q = Attach(m, j, i, v) /\ v \in Int
    BY <1>2, <1>3, <1>9
  <2>2. /\ m \in Tree /\ m.parent = [r.parent EXCEPT ![R] = j] /\ m.timebases = r.timebases - 1
        /\ m.delta = [r.delta EXCEPT ![R] = d]
    <3>1. /\ m.parent = [c.parent EXCEPT ![R] = j] /\ m.delta = [c.delta EXCEPT ![R] = d]
          /\ m \in Tree /\ m.timebases = c.timebases
      <4>1. c \in Tree /\ R \in Ifaces /\ j \in Ifaces \cup {None} /\ d \in Int
        BY <1>2, <1>4, <1>5
      <4> QED BY ONLY <4>1, AttachFields
    <3> QED BY <1>5, <3>1
  <2> HIDE DEF m
  <2>3. /\ q \in Tree /\ q.parent = [m.parent EXCEPT ![j] = i] /\ q.timebases = m.timebases
        /\ q.delta = [m.delta EXCEPT ![j] = Skew[i] - Skew[j]]
    <3>1. m \in Tree /\ j \in Ifaces /\ i \in Ifaces \cup {None} /\ v \in Int
      BY <1>2, <2>1, <2>2
    <3>2. /\ Attach(m, j, i, v) \in Tree /\ Attach(m, j, i, v).parent = [m.parent EXCEPT ![j] = i]
          /\ Attach(m, j, i, v).delta = [m.delta EXCEPT ![j] = v]
          /\ Attach(m, j, i, v).timebases = m.timebases
      BY ONLY <3>1, AttachFields
    <3> QED BY <1>2, <2>1, <3>2
  <2>4. /\ q.parent = [[r.parent EXCEPT ![R] = j] EXCEPT ![j] = i] /\ q.timebases = r.timebases - 1
        /\ q.delta = [[r.delta EXCEPT ![R] = -r.delta[j]] EXCEPT ![j] = Skew[i] - Skew[j]]
    BY <2>2, <2>3 DEF d
  <2>5. Good(q, H) /\ Coarser(r, q)
    <3>1. R = Root(r, j) /\ Root(r, i) # Root(r, j) /\ r.parent[i] # None /\ r.parent[j] # None
      BY <1>9 DEF R
    <3>2. Good(r, H) /\ Flat(r, i) /\ Flat(r, j) /\ q \in Tree
      BY <1>1, <2>3
    <3>3. Turned(r, i, j, R, q)
      BY <2>4, <3>1, <3>2 DEF Turned
    <3> QED BY <3>2, <3>3, JoinTurned, Zenon
  <2> QED BY <1>1, <2>5, CoarserTransitive, Zenon DEF q
<1> QED BY <1>6, <1>7, <1>8, <1>9

-----------------------------------------------------------------------------
(* The walk over the handles.                                                  *)

\* Counting up to a bound ends.
LEMMA UpwardsAcyclic ==
  ASSUME NEW n \in Nat
  PROVE  Acyclic([j \in 1..n |-> j + 1], 1..n)
<1> SUFFICES ASSUME NEW S \in SUBSET (1..n), S # {} PROVE \E x \in S : x + 1 \notin S
  BY DEF Acyclic
<1> DEFINE T == {m \in Nat : \E x \in S : m = n - x}
           R == OpToRel(<, Nat)
<1>1. IsWellFoundedOn(R, Nat)
  BY NatLessThanWellFounded
<1>2. \A e, f \in Nat : f < e => <<f, e>> \in R
  BY DEF OpToRel
<1> HIDE DEF R
<1>3. T \subseteq Nat /\ T # {}
  <2>1. PICK x \in S : x \in 1..n
    OBVIOUS
  <2>2. n - x \in Nat
    BY <2>1
  <2> QED BY <2>1, <2>2
<1>4. PICK m \in T : \A e \in T : <<e, m>> \notin R
  <2> HIDE DEF T
  <2> QED BY <1>1, <1>3, WFMin
<1>5. PICK x \in S : m = n - x
  BY <1>4
<1>6. ASSUME x + 1 \in S PROVE FALSE
  <2>1. n - (x + 1) \in T /\ n - (x + 1) < m
    BY <1>5, <1>6
  <2> QED BY <1>2, <1>4, <1>3, <2>1
<1> QED BY <1>5, <1>6

\* Whichever handles the new packet synchronises, the result is good and no tree is split.
LEMMA WalkGood ==
  ASSUME NEW H \in SUBSET Ifaces, NEW s, Good(s, H), NEW i \in H, NEW k \in Int,
         NEW others \in SUBSET H, \A j \in others : TimeOf(j, k) = Clock(j, k)
  PROVE  Good(Walk(s, i, k, others)[1], H) /\ Coarser(s, Walk(s, i, k, others)[1])
<1> DEFINE n == MaxIfaces + 1
           A == 1..n
           V == {r \in Tree : Good(r, H) /\ Coarser(s, r)}
           Step(r, j) == IF j \in others THEN SyncTime(r, i, Clock(i, k), j, Clock(j, k)) ELSE r
           p == [j \in A |-> j + 1]
           b == [j \in A |-> s]
           st == [j \in A |-> [r \in V |-> Step(r, j)]]
           Sol(f) == f = [j \in 1..MaxIfaces + 1 |->
                       IF j = MaxIfaces + 1 THEN s
                       ELSE IF j \in others THEN SyncTime(f[j + 1], i, Clock(i, k), j, TimeOf(j, k))
                       ELSE f[j + 1]]
           W == Walk(s, i, k, others)
<1>1. n \in Nat /\ 1 \in A /\ n \in A
  OBVIOUS
<1>2. s \in V
  BY DEF Good, Sound, Coarser
<1>3. ASSUME NEW r \in V, NEW j \in A PROVE Step(r, j) \in V
  <2>1. CASE j \notin others
    BY <2>1
  <2>2. CASE j \in others
    <3> DEFINE q == SyncTime(r, i, Clock(i, k), j, Clock(j, k))
    <3>1. Good(q, H) /\ Coarser(r, q)
      BY <2>2, SyncGood
    <3> HIDE DEF q
    <3>2. q \in Tree
      BY <3>1 DEF Good, Sound
    <3>3. Coarser(s, q)
      BY <3>1, CoarserTransitive, Zenon
    <3>4. q \in V
      BY <3>1, <3>2, <3>3
    <3> QED BY <2>2, <3>4 DEF q
  <2> QED BY <2>1, <2>2
<1> HIDE DEF V, Step
<1>4. PICK f \in [A -> V] : Solves(f, A, p, n + 1, b, st)
  <2>1. /\ b \in [A -> V] /\ st \in [A -> [V -> V]] /\ n + 1 \notin A
        /\ \A x \in A : p[x] = n + 1 \/ p[x] \in A
    BY <1>1, <1>2, <1>3
  <2>2. Acyclic(p, A)
    BY <1>1, UpwardsAcyclic
  <2> HIDE DEF p, b, st, A, n
  <2> QED BY <2>1, <2>2, RecursionExists, Zenon
<1>5. \A j \in A : f[j] = IF j = n THEN s ELSE Step(f[j + 1], j)
  <2>1. ASSUME NEW j \in A PROVE f[j] = IF j = n THEN s ELSE Step(f[j + 1], j)
    <3>1. f[j] = IF p[j] = n + 1 THEN b[j] ELSE st[j][f[p[j]]]
      BY <1>4 DEF Solves
    <3>2. j # n => j + 1 \in A
      BY <1>1
    <3> QED BY <1>1, <3>1, <3>2
  <2> QED BY <2>1
<1>6. \A r : \A j \in A : Step(r, j) = IF j \in others THEN SyncTime(r, i, Clock(i, k), j, TimeOf(j, k)) ELSE r
  BY DEF Step
<1>7. Sol(f)
  <2>1. f = [j \in A |-> f[j]]
    BY <1>4
  <2>2. \A j \in A : f[j] = IF j = n THEN s
                            ELSE IF j \in others THEN SyncTime(f[j + 1], i, Clock(i, k), j, TimeOf(j, k))
                            ELSE f[j + 1]
    BY <1>5, <1>6
  <2> QED BY <2>1, <2>2
<1>8. Sol(W)
  <2>1. \E g : Sol(g)
    BY <1>7
  <2>2. Sol(CHOOSE g : Sol(g))
    BY <2>1, Zenon
  <2> QED BY <2>2 DEF Walk
<1> HIDE DEF W
<1>9. \A j \in A : W[j] = IF j = n THEN s ELSE Step(W[j + 1], j)
  <2>1. \A j \in A : W[j] = IF j = n THEN s
                            ELSE IF j \in others THEN SyncTime(W[j + 1], i, Clock(i, k), j, TimeOf(j, k))
                            ELSE W[j + 1]
    BY <1>8
  <2> QED BY <1>6, <2>1
<1>10. W[1] \in V
  <2> DEFINE Bad == {j \in A : W[j] \notin V}
  <2>1. ASSUME Bad # {} PROVE FALSE
    <3>1. PICK j \in Bad : p[j] \notin Bad
      <4>1. Acyclic(p, A)
        BY <1>1, UpwardsAcyclic
      <4> HIDE DEF p
      <4> QED BY <2>1, <4>1 DEF Acyclic
    <3>2. j # n
      BY <1>2, <1>9, <3>1
    <3>3. j + 1 \in A /\ W[j + 1] \in V
      BY <1>1, <3>1, <3>2
    <3>4. W[j] = Step(W[j + 1], j)
      BY <1>9, <3>1, <3>2
    <3> QED BY <1>3, <3>1, <3>3, <3>4
  <2> QED BY <1>1, <2>1
<1> QED BY <1>10 DEF V, W
-----------------------------------------------------------------------------
(* The inductive invariant.                                                    *)

Packets == [frame : Frames, timestamp : Int]
Held(l) == {l[n] : n \in DOMAIN l}

Typed ==
  /\ interface_handles \in SUBSET Ifaces /\ closed \in SUBSET Ifaces
  /\ last_packets \in [Ifaces -> Seq(Packets)]
  /\ first_packet \in [Ifaces -> BOOLEAN] /\ heard \in [Ifaces -> Nat]
  /\ parsed \in [Frames -> Nat] /\ evicted \in SUBSET Frames

\* Interfaces are numbered in the order in which they were created.
Numbered ==
  /\ interface_handles \cap closed = {}
  /\ interface_handles \cup closed = 1..Cardinality(interface_handles \cup closed)

\* An interface remembers a packet with the time its own clock showed.
Stamped == \A i \in Ifaces : \A e \in Held(last_packets[i]) : e.timestamp = Clock(i, e.frame)

\* What is remembered has been parsed; what has been parsed is remembered or was evicted;
\* only what was evicted is parsed twice.
Accounted ==
  /\ \A i \in Ifaces : \A e \in Held(last_packets[i]) : parsed[e.frame] > 0
  /\ \A k \in Frames : parsed[k] > 0 =>
       k \in evicted \/ \E i \in interface_handles : \E e \in Held(last_packets[i]) : e.frame = k
  /\ \A k \in Frames : parsed[k] > 1 => k \in evicted

Inv == Typed /\ Numbered /\ Good(sync, interface_handles) /\ Stamped /\ Accounted
-----------------------------------------------------------------------------
(* What an interface remembers.                                                *)

LEMMA HeldIn ==
  ASSUME NEW S, NEW l \in Seq(S)
  PROVE  Held(l) \in SUBSET S /\ DOMAIN l = 1..Len(l) /\ Len(l) \in Nat
BY LenProperties DEF Held

LEMMA HeldEmpty == Held(<<>>) = {}
BY EmptySeq DEF Held

LEMMA HeldAppend ==
  ASSUME NEW S, NEW l \in Seq(S), NEW e \in S
  PROVE  Append(l, e) \in Seq(S) /\ Held(Append(l, e)) = Held(l) \cup {e}
<1> DEFINE h == Append(l, e)
<1>1. /\ h \in Seq(S) /\ Len(h) = Len(l) + 1 /\ \A n \in 1..Len(l) : h[n] = l[n]
      /\ h[Len(l) + 1] = e
  BY AppendProperties
<1>2. DOMAIN l = 1..Len(l) /\ Len(l) \in Nat /\ DOMAIN h = 1..Len(h)
  BY <1>1, LenProperties
<1> HIDE DEF h
<1>3. ASSUME NEW x PROVE x \in Held(h) <=> x \in Held(l) \cup {e}
  <2>1. ASSUME NEW n \in DOMAIN h PROVE h[n] \in Held(l) \cup {e}
    <3>1. n \in 1..Len(l) \/ n = Len(l) + 1
      BY <1>1, <1>2
    <3> QED BY <1>1, <1>2, <3>1 DEF Held
  <2>2. ASSUME NEW n \in DOMAIN l PROVE l[n] \in Held(h)
    <3>1. n \in DOMAIN h /\ h[n] = l[n]
      BY <1>1, <1>2
    <3> QED BY <3>1 DEF Held
  <2>3. e \in Held(h)
    <3>1. Len(l) + 1 \in DOMAIN h
      BY <1>1, <1>2
    <3> QED BY <1>1, <3>1 DEF Held
  <2> QED BY <2>1, <2>2, <2>3 DEF Held
<1> QED BY <1>1, <1>3 DEF h

LEMMA HeldTail ==
  ASSUME NEW S, NEW l \in Seq(S), Len(l) > 0
  PROVE  Tail(l) \in Seq(S) /\ Head(l) \in Held(l) /\ Held(l) = Held(Tail(l)) \cup {Head(l)}
<1> DEFINE h == Tail(l)
<1>1. l # <<>>
  BY EmptySeq
<1>2. /\ h \in Seq(S) /\ Len(h) = Len(l) - 1 /\ \A n \in 1..Len(h) : h[n] = l[n + 1]
      /\ Head(l) = l[1]
  BY <1>1, HeadTailProperties
<1>3. DOMAIN l = 1..Len(l) /\ Len(l) \in Nat /\ DOMAIN h = 1..Len(h)
  BY <1>2, LenProperties
<1> HIDE DEF h
<1>4. ASSUME NEW x PROVE x \in Held(l) <=> x \in Held(h) \cup {l[1]}
  <2>1. ASSUME NEW n \in DOMAIN l PROVE l[n] \in Held(h) \cup {l[1]}
    <3>1. CASE n = 1
      BY <3>1
    <3>2. CASE n # 1
      <4>1. n - 1 \in DOMAIN h /\ h[n - 1] = l[n]
        <5>1. n - 1 \in 1..Len(h) /\ (n - 1) + 1 = n
          BY <1>2, <1>3, <3>2
        <5> QED BY <1>2, <1>3, <5>1
      <4> QED BY <4>1 DEF Held
    <3> QED BY <3>1, <3>2
  <2>2. ASSUME NEW n \in DOMAIN h PROVE h[n] \in Held(l)
    <3>1. n + 1 \in DOMAIN l /\ h[n] = l[n + 1]
      BY <1>2, <1>3
    <3> QED BY <3>1 DEF Held
  <2>3. l[1] \in Held(l)
    BY <1>3 DEF Held
  <2> QED BY <2>1, <2>2, <2>3 DEF Held
<1>5. l[1] \in Held(l)
  BY <1>3 DEF Held
<1> QED BY <1>2, <1>4, <1>5 DEF h

LEMMA HeldRemoveAt ==
  ASSUME NEW S, NEW l \in Seq(S), NEW c \in DOMAIN l
  PROVE  RemoveAt(l, c) \in Seq(S) /\ Held(l) = Held(RemoveAt(l, c)) \cup {l[c]}
<1> DEFINE h == RemoveAt(l, c)
           a == SubSeq(l, 1, c - 1)
           b == SubSeq(l, c + 1, Len(l))
<1>1. Len(l) \in Nat /\ DOMAIN l = 1..Len(l) /\ \A n \in 1..Len(l) : l[n] \in S
  BY LenProperties
<1>2. c \in Nat /\ 1 <= c /\ c <= Len(l)
  BY <1>1
<1>3. \A n \in 1..c - 1 : l[n] \in S
  BY <1>1, <1>2
<1>4. \A n \in c + 1..Len(l) : l[n] \in S
  BY <1>1, <1>2
<1>5. /\ a \in Seq(S) /\ Len(a) = IF 1 <= c - 1 THEN c - 1 - 1 + 1 ELSE 0
      /\ \A n \in 1..c - 1 - 1 + 1 : a[n] = l[1 + n - 1]
  BY <1>2, <1>3, SubSeqProperties
<1>6. /\ b \in Seq(S) /\ Len(b) = IF c + 1 <= Len(l) THEN Len(l) - (c + 1) + 1 ELSE 0
      /\ \A n \in 1..Len(l) - (c + 1) + 1 : b[n] = l[c + 1 + n - 1]
  BY <1>1, <1>2, <1>4, SubSeqProperties
<1>7. h = a \o b
  BY DEF RemoveAt
<1> HIDE DEF a, b, h
<1>8. /\ h \in Seq(S) /\ Len(h) = Len(a) + Len(b)
      /\ \A n \in 1..Len(a) + Len(b) : h[n] = IF n <= Len(a) THEN a[n] ELSE b[n - Len(a)]
  <2>1. a \in Seq(S) /\ b \in Seq(S)
    BY <1>5, <1>6
  <2> QED BY ONLY <1>7, <2>1, ConcatProperties
<1>9. /\ Len(a) = c - 1 /\ Len(b) = Len(l) - c /\ DOMAIN h = 1..Len(l) - 1
  <2>1. Len(a) = c - 1 /\ Len(b) = Len(l) - c
    BY <1>1, <1>2, <1>5, <1>6
  <2>2. DOMAIN h = 1..Len(h)
    BY <1>8, LenProperties
  <2>3. Len(h) = Len(l) - 1
    BY <1>1, <1>2, <1>8, <2>1
  <2> QED BY <2>1, <2>2, <2>3
<1>10. ASSUME NEW n \in DOMAIN h PROVE h[n] = IF n < c THEN l[n] ELSE l[n + 1]
  <2>1. n \in 1..Len(a) + Len(b)
    BY <1>1, <1>2, <1>9
  <2>2. CASE n < c
    <3>1. n <= Len(a) /\ n \in 1..c - 1 - 1 + 1 /\ 1 + n - 1 = n
      BY <1>1, <1>2, <1>9, <2>2
    <3> QED BY <1>5, <1>8, <2>1, <2>2, <3>1
  <2>3. CASE ~(n < c)
    <3>1. /\ ~(n <= Len(a)) /\ n - Len(a) \in 1..Len(l) - (c + 1) + 1
          /\ c + 1 + (n - Len(a)) - 1 = n + 1
      BY <1>1, <1>2, <1>9, <2>3
    <3> QED BY <1>6, <1>8, <2>1, <2>3, <3>1
  <2> QED BY <2>2, <2>3
<1>11. ASSUME NEW n \in DOMAIN h PROVE h[n] \in Held(l)
  <2>1. n \in DOMAIN l /\ n + 1 \in DOMAIN l
    BY <1>1, <1>9
  <2> QED BY <1>10, <2>1 DEF Held
<1>12. ASSUME NEW n \in DOMAIN l PROVE l[n] \in Held(h) \cup {l[c]}
  <2>1. CASE n = c
    BY <2>1
  <2>2. CASE n < c
    <3>1. n \in DOMAIN h
      BY <1>1, <1>2, <1>9, <2>2
    <3> QED BY <1>10, <2>2, <3>1 DEF Held
  <2>3. CASE n > c
    <3>1. n - 1 \in DOMAIN h /\ ~(n - 1 < c) /\ (n - 1) + 1 = n
      BY <1>1, <1>2, <1>9, <2>3
    <3>2. h[n - 1] = l[n]
      BY <1>10, <3>1
    <3> QED BY <3>1, <3>2 DEF Held
  <2> QED BY <1>1, <1>2, <2>1, <2>2, <2>3
<1>13. Held(l) = Held(h) \cup {l[c]}
  BY <1>11, <1>12 DEF Held
<1> QED BY <1>8, <1>13 DEF h
\* interfacemgr_check_duplicate_packet: the packet is remembered, what else it remembers
\* it remembered before, and what it forgets is evicted.
LEMMA RememberHeld ==
  ASSUME Typed, NEW i \in Ifaces, NEW k \in Frames, Remember(i, k)
  PROVE  /\ last_packets' \in [Ifaces -> Seq(Packets)] /\ evicted' \in SUBSET Frames
         /\ \A j \in Ifaces : j # i => last_packets'[j] = last_packets[j]
         /\ \A e \in Held(last_packets'[i]) :
              e \in Held(last_packets[i]) \/ e = [frame |-> k, timestamp |-> Clock(i, k)]
         /\ \E e \in Held(last_packets'[i]) : e.frame = k
         /\ \A e \in Held(last_packets[i]) :
              e.frame \in evicted' \/ \E f \in Held(last_packets'[i]) : f.frame = e.frame
         /\ evicted \in SUBSET evicted'
<1> DEFINE l == last_packets[i]
           e0 == [frame |-> k, timestamp |-> Clock(i, k)]
           c == CHOOSE n \in Remembered(i, k) : TRUE
           kept == IF Remembers(i, k) THEN RemoveAt(l, c)
                   ELSE IF Len(l) >= LastPackets THEN Tail(l) ELSE l
<1>1. l \in Seq(Packets) /\ e0 \in Packets /\ e0.frame = k
  <2>1. Clock(i, k) \in Int
    <3>1. k \in Int /\ Skew[i] \in Int
      BY DEF Frames
    <3> QED BY <3>1 DEF Clock
  <2>2. l \in Seq(Packets)
    BY DEF Typed
  <2> QED BY <2>1, <2>2 DEF Packets
<1>2. /\ last_packets' = [last_packets EXCEPT ![i] = Append(kept, e0)]
      /\ evicted' = IF ~Remembers(i, k) /\ Len(l) >= LastPackets THEN evicted \cup {Head(l).frame} ELSE evicted
  BY DEF Remember
<1>3. Remembers(i, k) => c \in DOMAIN l /\ l[c].frame = k
  BY DEF Remembers, Remembered
<1> HIDE DEF l, e0, c
<1>4. /\ kept \in Seq(Packets) /\ \A e \in Held(kept) : e \in Held(l)
      /\ \A e \in Held(l) : e \in Held(kept) \/ e.frame = k \/ e.frame \in evicted'
      /\ evicted' \in SUBSET Frames /\ evicted \in SUBSET evicted'
  <2>1. evicted \in SUBSET Frames
    BY DEF Typed
  <2>2. CASE Remembers(i, k)
    <3>1. kept = RemoveAt(l, c) /\ evicted' = evicted
      BY <1>2, <2>2
    <3>2. kept \in Seq(Packets) /\ Held(l) = Held(kept) \cup {l[c]}
      BY <1>1, <1>3, <2>2, <3>1, HeldRemoveAt
    <3> QED BY <1>3, <2>1, <2>2, <3>1, <3>2
  <2>3. CASE ~Remembers(i, k) /\ Len(l) >= LastPackets
    <3>1. kept = Tail(l) /\ evicted' = evicted \cup {Head(l).frame}
      BY <1>2, <2>3
    <3>2. Len(l) > 0
      BY <1>1, <2>3, HeldIn
    <3>3. kept \in Seq(Packets) /\ Head(l) \in Held(l) /\ Held(l) = Held(kept) \cup {Head(l)}
      <4>1. Tail(l) \in Seq(Packets) /\ Head(l) \in Held(l) /\ Held(l) = Held(Tail(l)) \cup {Head(l)}
        BY <1>1, <3>2, HeldTail, Zenon
      <4> HIDE DEF kept
      <4> QED BY <3>1, <4>1
    <3>4. Head(l).frame \in Frames
      <4>1. Head(l) \in Packets
        BY <1>1, <3>3, HeldIn
      <4> QED BY <4>1 DEF Packets
    <3> QED BY <2>1, <3>1, <3>3, <3>4
  <2>4. CASE ~Remembers(i, k) /\ ~(Len(l) >= LastPackets)
    BY <1>1, <1>2, <2>1, <2>4
  <2> QED BY <2>2, <2>3, <2>4
<1> HIDE DEF kept
<1>5. Append(kept, e0) \in Seq(Packets) /\ Held(Append(kept, e0)) = Held(kept) \cup {e0}
  BY <1>1, <1>4, HeldAppend
<1>6. last_packets \in [Ifaces -> Seq(Packets)]
  BY DEF Typed
<1>7. /\ last_packets' \in [Ifaces -> Seq(Packets)] /\ last_packets'[i] = Append(kept, e0)
      /\ \A j \in Ifaces : j # i => last_packets'[j] = last_packets[j]
  BY <1>2, <1>5, <1>6
<1>8. \A e \in Held(last_packets'[i]) : e \in Held(l) \/ e = e0
  BY <1>4, <1>5, <1>7
<1>9. e0 \in Held(last_packets'[i])
  BY <1>5, <1>7
<1>10. ASSUME NEW e \in Held(l)
       PROVE  e.frame \in evicted' \/ \E f \in Held(last_packets'[i]) : f.frame = e.frame
  <2>1. CASE e \in Held(kept)
    BY <1>5, <1>7, <2>1
  <2>2. CASE e.frame = k
    BY <1>1, <1>9, <2>2
  <2> QED BY <1>4, <1>10, <2>1, <2>2
<1> QED BY <1>1, <1>4, <1>7, <1>8, <1>9, <1>10 DEF l, e0

LEMMA RemembersHeld ==
  ASSUME NEW i, NEW k
  PROVE  Remembers(i, k) <=> \E e \in Held(last_packets[i]) : e.frame = k
BY DEF Remembers, Remembered, Held

LEMMA TimeOfStamped ==
  ASSUME Stamped, NEW i \in Ifaces, NEW k, Remembers(i, k)
  PROVE  TimeOf(i, k) = Clock(i, k)
<1> DEFINE c == CHOOSE n \in Remembered(i, k) : TRUE
<1>1. c \in Remembered(i, k)
  BY DEF Remembers
<1>2. c \in DOMAIN last_packets[i] /\ last_packets[i][c].frame = k
  BY <1>1 DEF Remembered
<1> HIDE DEF c
<1>3. last_packets[i][c] \in Held(last_packets[i])
  BY <1>2 DEF Held
<1>4. last_packets[i][c].timestamp = Clock(i, k)
  BY <1>2, <1>3 DEF Stamped
<1> QED BY <1>4 DEF TimeOf, c
-----------------------------------------------------------------------------
(* The steps of the trees.                                                     *)

LEMMA SameRoots ==
  ASSUME NEW s, NEW r, r.parent = s.parent
  PROVE  Roots(r) = Roots(s) /\ Coarser(s, r)
<1>1. Roots(r) = Roots(s)
  BY DEF Roots
<1> QED BY <1>1 DEF Coarser, Root

\* The links alone make a tree good: what a root stores as its delta does not matter.
LEMMA SameParents ==
  ASSUME NEW H \in SUBSET Ifaces, NEW s, Good(s, H), NEW r \in Tree, r.parent = s.parent,
         r.timebases = s.timebases, \A x \in Ifaces : s.parent[x] # None => r.delta[x] = s.delta[x]
  PROVE  Good(r, H) /\ Coarser(s, r)
<1>1. Coarser(s, r)
  BY SameRoots
<1> QED BY <1>1 DEF Good, Sound, Clocked, RootSet

\* interfacemgr_create_handle: a root of its own.
LEMMA CreateTrees ==
  ASSUME NEW H \in SUBSET Ifaces, NEW s, Good(s, H), NEW i \in Ifaces \ H
  PROVE  Good([s EXCEPT !.timebases = @ + 1], H \cup {i})
<1> DEFINE r == [s EXCEPT !.timebases = s.timebases + 1]
           K == H \cup {i}
<1>1. s \in Tree /\ s.timebases \in Int /\ s.timebases = Cardinality(RootSet(s, H))
  BY TreeFields DEF Good, Sound
<1>2. r \in Tree /\ r.parent = s.parent /\ r.delta = s.delta /\ r.timebases = s.timebases + 1
  BY <1>1, CountedFields
<1> HIDE DEF r
<1>3. RootSet(r, K) = RootSet(s, H) \cup {i} /\ i \notin RootSet(s, H)
  BY <1>2 DEF RootSet, Good
<1>4. Cardinality(RootSet(s, H) \cup {i}) = Cardinality(RootSet(s, H)) + 1
  BY <1>3, FiniteHandles, FS_AddElement
<1>5. Good(r, K)
  BY <1>1, <1>2, <1>3, <1>4 DEF Good, Sound, Clocked
<1> QED BY <1>5 DEF r

Detached(s, H, i, r) ==
  /\ \A j \in H : s.parent[j] # i
  /\ r = [Attach(s, i, None, 0) EXCEPT !.timebases = IF s.parent[i] = None THEN @ - 1 ELSE @]

\* interfacemgr_destroy_handle: no other walk passes through the interface.
LEMMA DestroyTrees ==
  ASSUME NEW H \in SUBSET Ifaces, NEW s, Good(s, H), NEW i \in H,
         NEW r, Detached(s, H, i, r)
  PROVE  /\ Good(r, H \ {i})
         /\ \A x \in Ifaces : x # i => Root(r, x) = Root(s, x)
         /\ \A x \in Ifaces : x # i => Root(s, x) # i
         /\ \A x \in Ifaces : x # i => r.parent[x] = s.parent[x]
<1> DEFINE m == Attach(s, i, None, 0)
           n == IF s.parent[i] = None THEN m.timebases - 1 ELSE m.timebases
           K == H \ {i}
<1>1. /\ Sound(s) /\ s \in Tree /\ s.timebases \in Int /\ i \in Ifaces
      /\ s.parent \in [Ifaces -> Ifaces \cup {None}] /\ s.delta \in [Ifaces -> Int]
  BY TreeFields DEF Good, Sound
<1>2. /\ m \in Tree /\ m.parent = [s.parent EXCEPT ![i] = None] /\ m.timebases = s.timebases
      /\ m.delta = [s.delta EXCEPT ![i] = 0]
  <2>1. ASSUME NEW p, p = None, NEW d, d = 0
        PROVE  /\ Attach(s, i, p, d) \in Tree
               /\ Attach(s, i, p, d).parent = [s.parent EXCEPT ![i] = p]
               /\ Attach(s, i, p, d).delta = [s.delta EXCEPT ![i] = d]
               /\ Attach(s, i, p, d).timebases = s.timebases
    <3>1. p \in Ifaces \cup {None} /\ d \in Int
      BY <2>1
    <3>2. s \in Tree /\ i \in Ifaces
      BY <1>1
    <3> QED BY ONLY <3>1, <3>2, AttachFields
  <2> QED BY <2>1
<1>3. r = [m EXCEPT !.timebases = n]
  BY DEF Detached
<1> HIDE DEF m
<1>3b. n \in Int
  BY <1>1, <1>2
<1> HIDE DEF n
<1>4. r \in Tree /\ r.parent = m.parent /\ r.delta = m.delta /\ r.timebases = n
  <2> DEFINE q == [m EXCEPT !.timebases = n]
  <2>1. q \in Tree /\ q.parent = m.parent /\ q.delta = m.delta /\ q.timebases = n
    BY <1>2, <1>3b, CountedFields
  <2>2. r = q
    BY <1>3
  <2> HIDE DEF q
  <2> QED BY ONLY <2>1, <2>2
<1> USE DEF n
<1>5. /\ r.parent[i] = None
      /\ \A x \in Ifaces : x # i => r.parent[x] = s.parent[x] /\ r.delta[x] = s.delta[x]
  BY <1>1, <1>2, <1>4
<1>6. Sound(r)
  <2> SUFFICES ASSUME NEW S \in SUBSET Ifaces, S # {} PROVE \E x \in S : r.parent[x] \notin S
    BY <1>4 DEF Sound, Acyclic
  <2>1. CASE i \in S
    BY <1>5, <2>1
  <2>2. CASE i \notin S
    <3>1. PICK x \in S : s.parent[x] \notin S
      BY <1>1, Topmost
    <3> QED BY <1>5, <2>2, <3>1
  <2> QED BY <2>1, <2>2
<1>7. \A x \in Ifaces : s.parent[x] # i
  BY DEF Good, Detached
<1>8. Clocked(r) /\ \A x \in Ifaces : r.parent[x] # None => x \in K /\ r.parent[x] \in K
  BY <1>5, <1>7 DEF Good, Clocked
<1>9. r.timebases = Cardinality(RootSet(r, K))
  <2>1. CASE s.parent[i] = None
    <3>1. RootSet(r, K) = RootSet(s, H) \ {i} /\ i \in RootSet(s, H)
      BY <1>1, <1>5, <2>1 DEF RootSet
    <3>2. Cardinality(RootSet(s, H) \ {i}) = Cardinality(RootSet(s, H)) - 1
      BY <3>1, FiniteHandles, FS_RemoveElement
    <3> QED BY <1>2, <1>4, <2>1, <3>1, <3>2 DEF Good
  <2>2. CASE s.parent[i] # None
    <3>1. RootSet(r, K) = RootSet(s, H)
      BY <1>1, <1>5, <2>2 DEF RootSet
    <3> QED BY <1>2, <1>4, <2>2, <3>1 DEF Good
  <2> QED BY <2>1, <2>2
<1>10. ASSUME NEW x \in Ifaces, x # i PROVE Root(r, x) = Root(s, x) /\ Root(s, x) # i
  <2> DEFINE Bad == {y \in Ifaces : y # i /\ ~(Root(r, y) = Root(s, y) /\ Root(s, y) # i)}
  <2>1. ASSUME x \in Bad PROVE FALSE
    <3>1. PICK y \in Bad : s.parent[y] \notin Bad
      BY <1>1, <2>1, Topmost
    <3>2. CASE s.parent[y] = None
      <4>1. Root(s, y) = y /\ Root(r, y) = y
        BY <1>1, <1>5, <1>6, <3>1, <3>2, RootIs
      <4> QED BY <3>1, <4>1
    <3>3. CASE s.parent[y] # None
      <4>1. s.parent[y] \in Ifaces /\ Root(s, y) = Root(s, s.parent[y])
        BY <1>1, <3>1, <3>3, RootIs
      <4>2. Root(r, y) = Root(r, s.parent[y])
        <5>1. r.parent[y] = s.parent[y] /\ r.parent[y] # None /\ y \in Ifaces
          BY <1>5, <3>1, <3>3
        <5>2. Root(r, y) = Root(r, r.parent[y])
          BY <1>6, <5>1, RootUp, Zenon
        <5> QED BY <5>1, <5>2
      <4>3. Root(r, s.parent[y]) = Root(s, s.parent[y]) /\ Root(s, s.parent[y]) # i
        BY <1>7, <3>1, <4>1
      <4> QED BY <3>1, <4>1, <4>2, <4>3
    <3> QED BY <3>2, <3>3
  <2> QED BY <1>10, <2>1
<1>11. Good(r, K)
  BY <1>6, <1>8, <1>9 DEF Good
<1> QED BY <1>5, <1>10, <1>11
\* The trees after a new packet: good, and no tree is split.
LEMMA FreshTrees ==
  ASSUME Inv, NEW i \in interface_handles, NEW k \in Frames, Fresh(i, k)
  PROVE  Good(sync', interface_handles) /\ Coarser(sync, sync')
<1> DEFINE H == interface_handles
           others == {j \in H : j # i /\ Remembers(j, k)}
           starts == first_packet[i] /\ sync.parent[i] = None
           m == Attach(sync, i, None, -Clock(i, k))
           started == IF starts THEN m ELSE sync
<1>1. /\ H \in SUBSET Ifaces /\ i \in Ifaces /\ Good(sync, H) /\ sync \in Tree /\ k \in Int
      /\ Clock(i, k) \in Int
  <2>1. H \in SUBSET Ifaces /\ i \in Ifaces /\ Good(sync, H) /\ sync \in Tree /\ k \in Int
    BY DEF Inv, Typed, Good, Sound, Frames
  <2>2. Skew[i] \in Int
    BY <2>1
  <2> QED BY <2>1, <2>2 DEF Clock
<1>2. sync' = Walk(started, i, k, others)[1]
  BY DEF Fresh
<1>3. others \in SUBSET H
  OBVIOUS
<1>4. \A j \in others : TimeOf(j, k) = Clock(j, k)
  BY <1>1, TimeOfStamped DEF Inv
<1> HIDE DEF H, others, started
<1>5. Good(started, H) /\ Coarser(sync, started)
  <2>1. CASE ~starts
    BY <1>1, <2>1 DEF started, Coarser
  <2>2. CASE starts
    <3>1. ASSUME NEW p, p = None, NEW d, d = -Clock(i, k)
          PROVE  /\ Attach(sync, i, p, d) \in Tree
                 /\ Attach(sync, i, p, d).parent = [sync.parent EXCEPT ![i] = p]
                 /\ Attach(sync, i, p, d).delta = [sync.delta EXCEPT ![i] = d]
                 /\ Attach(sync, i, p, d).timebases = sync.timebases
      <4>1. p \in Ifaces \cup {None} /\ d \in Int
        BY <1>1, <3>1
      <4> QED BY ONLY <1>1, <4>1, AttachFields
    <3>2. /\ m \in Tree /\ m.parent = [sync.parent EXCEPT ![i] = None]
          /\ m.delta = [sync.delta EXCEPT ![i] = -Clock(i, k)] /\ m.timebases = sync.timebases
      BY <3>1
    <3> HIDE DEF m
    <3>3. sync.parent \in [Ifaces -> Ifaces \cup {None}] /\ sync.delta \in [Ifaces -> Int]
      BY <1>1, TreeFields
    <3>4. m.parent = sync.parent /\ \A x \in Ifaces : sync.parent[x] # None => m.delta[x] = sync.delta[x]
      BY <1>1, <2>2, <3>2, <3>3
    <3>5. Good(m, H) /\ Coarser(sync, m)
      BY <1>1, <3>2, <3>4, SameParents
    <3> QED BY <2>2, <3>5 DEF started
  <2> QED BY <2>1, <2>2
<1>6. i \in H
  BY DEF H
<1>7. Good(Walk(started, i, k, others)[1], H) /\ Coarser(started, Walk(started, i, k, others)[1])
  BY <1>1, <1>3, <1>4, <1>5, <1>6, WalkGood
<1>8. Coarser(sync, sync')
  BY <1>2, <1>5, <1>7, CoarserTransitive
<1> QED BY <1>2, <1>7, <1>8 DEF H

-----------------------------------------------------------------------------
(* Every step keeps the invariant.                                             *)

LEMMA InitInv == Init => Inv
<1> SUFFICES ASSUME Init PROVE Inv
  OBVIOUS
<1>1. Typed
  <2>1. <<>> \in Seq(Packets)
    BY EmptySeq
  <2> QED BY <2>1 DEF Init, Typed
<1>2. Numbered
  <2>1. Cardinality({}) = 0
    BY FS_EmptySet
  <2> QED BY <2>1 DEF Init, Numbered
<1>3. Good(sync, interface_handles)
  <2>1. /\ sync \in Tree /\ sync.timebases = 0 /\ \A x \in Ifaces : sync.parent[x] = None
    BY DEF Init, Tree
  <2>2. RootSet(sync, interface_handles) = {} /\ Cardinality({}) = 0
    BY FS_EmptySet DEF Init, RootSet
  <2>3. Sound(sync)
    <3> SUFFICES ASSUME NEW S \in SUBSET Ifaces, S # {} PROVE \E x \in S : sync.parent[x] \notin S
      BY <2>1 DEF Sound, Acyclic
    <3> QED BY <2>1
  <2> QED BY <2>1, <2>2, <2>3 DEF Good, Clocked
<1>4. Stamped /\ Accounted
  <2>1. \A i \in Ifaces : Held(last_packets[i]) = {}
    BY HeldEmpty DEF Init
  <2> QED BY <2>1 DEF Init, Stamped, Accounted
<1> QED BY <1>1, <1>2, <1>3, <1>4 DEF Inv

LEMMA CreateInv ==
  ASSUME Inv, NEW i \in Ifaces, Create(i)
  PROVE  Inv' /\ i \notin interface_handles
<1> DEFINE H == interface_handles
           U == interface_handles \cup closed
           c == Cardinality(U)
<1>1. /\ H \in SUBSET Ifaces /\ U = 1..c /\ U \in SUBSET Ifaces /\ H \cap closed = {}
  BY DEF Inv, Typed, Numbered
<1>2. c \in Nat /\ i = c + 1
  <2>1. IsFiniteSet(U)
    BY <1>1, FiniteHandles
  <2> QED BY <2>1, FS_CardinalityType DEF Create
<1>3. i \notin U /\ U \cup {i} = 1..c + 1
  <2> HIDE DEF c, U
  <2> QED BY <1>1, <1>2
<1>4. interface_handles' = H \cup {i} /\ closed' = closed /\ interface_handles' \cup closed' = U \cup {i}
  BY DEF Create
<1>5. Typed'
  BY <1>1, <1>4 DEF Inv, Typed, Create
<1>6. Numbered'
  <2>1. Cardinality(1..c + 1) = c + 1
    <3> HIDE DEF c
    <3>1. Cardinality(1..c + 1) = IF c + 1 < 1 THEN 0 ELSE (c + 1) - 1 + 1
      BY <1>2, FS_Interval
    <3> QED BY <1>2, <3>1
  <2> HIDE DEF c, U
  <2>2. interface_handles' \cup closed' = 1..Cardinality(interface_handles' \cup closed')
    BY <1>3, <1>4, <2>1
  <2>3. interface_handles' \cap closed' = {}
    BY <1>1, <1>3, <1>4 DEF U
  <2> QED BY <2>2, <2>3 DEF Numbered
<1>7. Good(sync', interface_handles')
  <2>1. sync' = [sync EXCEPT !.timebases = @ + 1] /\ Good(sync, H) /\ i \in Ifaces \ H
    BY <1>3 DEF Create, Inv
  <2>2. Good([sync EXCEPT !.timebases = @ + 1], H \cup {i})
    BY <1>1, <2>1, CreateTrees
  <2> QED BY <1>4, <2>1, <2>2
<1>8. Stamped' /\ Accounted'
  <2>1. last_packets' = last_packets /\ parsed' = parsed /\ evicted' = evicted
    BY DEF Create
  <2> QED BY <1>4, <2>1 DEF Inv, Stamped, Accounted, Clock
<1> QED BY <1>3, <1>5, <1>6, <1>7, <1>8 DEF Inv

LEMMA DestroyInv ==
  ASSUME Inv, NEW i \in Ifaces, Destroy(i)
  PROVE  Inv'
<1> DEFINE H == interface_handles
<1>1. H \in SUBSET Ifaces /\ i \in H /\ Good(sync, H)
  BY DEF Inv, Typed, Destroy
<1>2. interface_handles' = H \ {i} /\ closed' = closed \cup {i}
  BY DEF Destroy
<1>3. /\ last_packets' = [last_packets EXCEPT ![i] = <<>>]
      /\ evicted' = evicted \cup {e.frame : e \in Held(last_packets[i])}
      /\ last_packets \in [Ifaces -> Seq(Packets)]
  <2>1. last_packets' = [last_packets EXCEPT ![i] = <<>>] /\ last_packets \in [Ifaces -> Seq(Packets)]
    BY DEF Destroy, Inv, Typed
  <2>2. evicted' = evicted \cup {last_packets[i][n].frame : n \in DOMAIN last_packets[i]}
    BY DEF Destroy
  <2> QED BY <2>1, <2>2 DEF Held
<1>4. /\ last_packets' \in [Ifaces -> Seq(Packets)] /\ Held(last_packets'[i]) = {}
      /\ \A j \in Ifaces : j # i => last_packets'[j] = last_packets[j]
  BY <1>3, EmptySeq, HeldEmpty
<1>5. Typed'
  <2>1. {e.frame : e \in Held(last_packets[i])} \in SUBSET Frames
    <3>1. Held(last_packets[i]) \in SUBSET Packets
      BY <1>3, HeldIn
    <3> QED BY <3>1 DEF Packets
  <2> QED BY <1>2, <1>3, <1>4, <2>1 DEF Inv, Typed, Destroy
<1>6. Numbered'
  <2>1. interface_handles' \cup closed' = interface_handles \cup closed
    BY <1>1, <1>2
  <2> QED BY <1>2, <2>1 DEF Inv, Numbered
<1>7. Good(sync', interface_handles')
  <2>1. Detached(sync, interface_handles, i, sync')
    BY DEF Destroy, Detached
  <2>2. Good(sync', H \ {i})
    BY <1>1, <2>1, DestroyTrees
  <2> QED BY <1>2, <2>2
<1>8. Stamped'
  BY <1>4 DEF Inv, Stamped, Clock
<1>9. Accounted'
  <2>1. parsed' = parsed /\ Accounted
    BY DEF Destroy, Inv
  <2>2. \A j \in Ifaces : \A e \in Held(last_packets'[j]) : parsed'[e.frame] > 0
    BY <1>4, <2>1 DEF Accounted
  <2>3. ASSUME NEW k \in Frames, parsed'[k] > 0
        PROVE  k \in evicted' \/ \E j \in interface_handles' : \E e \in Held(last_packets'[j]) : e.frame = k
    <3>1. CASE k \in evicted
      BY <1>3, <3>1
    <3>2. CASE \E j \in H : \E e \in Held(last_packets[j]) : e.frame = k
      <4>1. PICK j \in H : \E e \in Held(last_packets[j]) : e.frame = k
        BY <3>2
      <4>2. CASE j = i
        BY <1>3, <4>1, <4>2
      <4>3. CASE j # i
        <5>1. j \in interface_handles' /\ last_packets'[j] = last_packets[j]
          BY <1>1, <1>2, <1>4, <4>1, <4>3
        <5> QED BY <4>1, <5>1
      <4> QED BY <4>2, <4>3
    <3> QED BY <2>1, <2>3, <3>1, <3>2 DEF Accounted
  <2>4. \A k \in Frames : parsed'[k] > 1 => k \in evicted'
    BY <1>3, <2>1 DEF Accounted
  <2> QED BY <2>2, <2>3, <2>4 DEF Accounted
<1> QED BY <1>5, <1>6, <1>7, <1>8, <1>9 DEF Inv
\* Either way a packet is received, it is remembered and accounted for.
LEMMA ProcessInv ==
  ASSUME Inv, NEW i \in Ifaces, NEW k \in Frames, ProcessPacket(i, k)
  PROVE  Inv' /\ interface_handles' = interface_handles /\ Coarser(sync, sync')
<1> DEFINE H == interface_handles
           e0 == [frame |-> k, timestamp |-> Clock(i, k)]
           others == {j \in H : j # i /\ Remembers(j, k)}
<1>1. /\ H \in SUBSET Ifaces /\ i \in H /\ k \in Nat /\ Good(sync, H)
      /\ Typed /\ Stamped /\ Accounted /\ parsed \in [Frames -> Nat]
  BY DEF Inv, ProcessPacket, Typed, Frames
<1>2. /\ interface_handles' = H /\ closed' = closed /\ heard' = [heard EXCEPT ![i] = k]
      /\ Remember(i, k) /\ (Duplicate(i, k) \/ Fresh(i, k))
  BY DEF ProcessPacket, Duplicate, Fresh
<1>3. /\ last_packets' \in [Ifaces -> Seq(Packets)] /\ evicted' \in SUBSET Frames
      /\ \A j \in Ifaces : j # i => last_packets'[j] = last_packets[j]
      /\ \A e \in Held(last_packets'[i]) : e \in Held(last_packets[i]) \/ e = e0
      /\ \E e \in Held(last_packets'[i]) : e.frame = k
      /\ \A e \in Held(last_packets[i]) :
           e.frame \in evicted' \/ \E f \in Held(last_packets'[i]) : f.frame = e.frame
      /\ evicted \in SUBSET evicted'
  BY <1>1, <1>2, RememberHeld
<1>4. e0.frame = k /\ e0.timestamp = Clock(i, k)
  OBVIOUS
<1> HIDE DEF e0
<1>5. /\ Good(sync', H) /\ Coarser(sync, sync')
      /\ first_packet' \in [Ifaces -> BOOLEAN]
      /\ parsed' = IF Fresh(i, k) /\ others = {} THEN [parsed EXCEPT ![k] = @ + 1] ELSE parsed
  <2>1. CASE Duplicate(i, k)
    <3>1. sync' = sync /\ first_packet' = first_packet /\ parsed' = parsed /\ ~Fresh(i, k)
      BY <2>1 DEF Duplicate, Fresh
    <3>2. Coarser(sync, sync)
      BY DEF Coarser
    <3> QED BY <1>1, <3>1, <3>2 DEF Typed
  <2>2. CASE Fresh(i, k)
    <3>1. Good(sync', H) /\ Coarser(sync, sync')
      BY <1>1, <2>2, FreshTrees
    <3>2. parsed' = IF others = {} THEN [parsed EXCEPT ![k] = @ + 1] ELSE parsed
      BY <2>2 DEF Fresh
    <3>3. first_packet' \in [Ifaces -> BOOLEAN]
      BY <1>1, <2>2 DEF Fresh, Typed
    <3> QED BY <2>2, <3>1, <3>2, <3>3
  <2> QED BY <1>2, <2>1, <2>2
<1>6. /\ parsed' \in [Frames -> Nat] /\ \A m \in Frames : parsed'[m] >= parsed[m]
      /\ \A m \in Frames : m # k => parsed'[m] = parsed[m]
  <2> HIDE DEF others
  <2> QED BY <1>1, <1>5
<1>7. Typed'
  <2>1. heard' \in [Ifaces -> Nat]
    BY <1>1, <1>2 DEF Typed
  <2> QED BY <1>1, <1>2, <1>3, <1>5, <1>6, <2>1 DEF Typed
<1>8. Numbered'
  BY <1>2 DEF Inv, Numbered
<1>9. Stamped'
  <2>1. ASSUME NEW j \in Ifaces, NEW e \in Held(last_packets'[j]) PROVE e.timestamp = Clock(j, e.frame)
    BY <1>1, <1>3, <1>4, <2>1 DEF Stamped
  <2> QED BY <2>1 DEF Stamped, Clock
<1>10. \A j \in Ifaces : \A e \in Held(last_packets'[j]) : parsed'[e.frame] > 0
  <2>1. ASSUME NEW j \in Ifaces, NEW e \in Held(last_packets[j]) PROVE parsed'[e.frame] > 0
    <3>1. parsed[e.frame] > 0 /\ e.frame \in Frames
      <4>1. e \in Packets
        <5>1. last_packets[j] \in Seq(Packets)
          BY <1>1 DEF Typed
        <5> QED BY <5>1, HeldIn
      <4> QED BY <1>1, <4>1 DEF Accounted, Packets
    <3>2. \A m \in Frames : parsed[m] > 0 => parsed'[m] > 0
      <4> SUFFICES ASSUME NEW m \in Frames, parsed[m] > 0 PROVE parsed'[m] > 0
        OBVIOUS
      <4>1. parsed[m] \in Nat /\ parsed'[m] \in Nat /\ parsed'[m] >= parsed[m]
        BY <1>1, <1>6
      <4> QED BY <4>1
    <3> QED BY <3>1, <3>2
  <2>2. parsed'[k] > 0
    <3>1. CASE Fresh(i, k) /\ others = {}
      BY <1>1, <1>5, <3>1
    <3>2. CASE Fresh(i, k) /\ others # {}
      <4>1. PICK j \in H : Remembers(j, k)
        BY <3>2
      <4>2. PICK e \in Held(last_packets[j]) : e.frame = k
        BY <4>1, RemembersHeld
      <4> QED BY <1>1, <2>1, <4>2
    <3>3. CASE ~Fresh(i, k)
      <4>1. Remembers(i, k)
        BY <1>2, <3>3 DEF Duplicate
      <4>2. PICK e \in Held(last_packets[i]) : e.frame = k
        BY <4>1, RemembersHeld
      <4> QED BY <1>1, <2>1, <4>2
    <3> QED BY <3>1, <3>2, <3>3
  <2>3. ASSUME NEW j \in Ifaces, NEW e \in Held(last_packets'[j]) PROVE parsed'[e.frame] > 0
    BY <1>3, <1>4, <2>1, <2>2, <2>3
  <2> QED BY <2>3
<1>11. ASSUME NEW m \in Frames, parsed'[m] > 0
       PROVE  m \in evicted' \/ \E j \in H : \E e \in Held(last_packets'[j]) : e.frame = m
  <2>1. CASE m = k
    BY <1>1, <1>3, <2>1
  <2>2. CASE m # k
    <3>1. m \in evicted \/ \E j \in H : \E e \in Held(last_packets[j]) : e.frame = m
      BY <1>1, <1>6, <1>11, <2>2 DEF Accounted
    <3>2. CASE m \in evicted
      BY <1>3, <3>2
    <3>3. CASE \E j \in H : \E e \in Held(last_packets[j]) : e.frame = m
      <4>1. PICK j \in H : \E e \in Held(last_packets[j]) : e.frame = m
        BY <3>3
      <4>2. CASE j = i
        BY <1>3, <4>1, <4>2
      <4>3. CASE j # i
        BY <1>1, <1>3, <4>1, <4>3
      <4> QED BY <4>2, <4>3
    <3> QED BY <3>1, <3>2, <3>3
  <2> QED BY <2>1, <2>2
<1>12. ASSUME NEW m \in Frames, parsed'[m] > 1 PROVE m \in evicted'
  <2>1. CASE parsed[m] > 1
    BY <1>1, <1>3, <2>1 DEF Accounted
  <2>2. CASE ~(parsed[m] > 1)
    <3>1. m = k /\ Fresh(i, k) /\ others = {}
      <4> HIDE DEF others
      <4> QED BY <1>1, <1>5, <1>12, <2>2
    <3>2. parsed[k] > 0
      <4> HIDE DEF others
      <4> QED BY <1>1, <1>5, <1>12, <3>1
    <3>3. ASSUME NEW j \in H, NEW e \in Held(last_packets[j]), e.frame = k PROVE FALSE
      <4>1. Remembers(j, k)
        BY <3>3, RemembersHeld
      <4>2. ~Remembers(i, k)
        BY <3>1 DEF Fresh
      <4> QED BY <3>1, <4>1, <4>2
    <3>4. k \in evicted
      BY <1>1, <3>2, <3>3 DEF Accounted
    <3> QED BY <1>3, <3>1, <3>4
  <2> QED BY <2>1, <2>2
<1>13. Accounted'
  BY <1>2, <1>10, <1>11, <1>12 DEF Accounted
<1> QED BY <1>2, <1>5, <1>7, <1>8, <1>9, <1>13 DEF Inv

LEMMA InvStep == Inv /\ [Next]_vars => Inv'
<1> SUFFICES ASSUME Inv, [Next]_vars PROVE Inv'
  OBVIOUS
<1>1. ASSUME NEW i \in Ifaces, Create(i) PROVE Inv'
  BY <1>1, CreateInv
<1>2. ASSUME NEW i \in Ifaces, Destroy(i) PROVE Inv'
  BY <1>2, DestroyInv
<1>3. ASSUME NEW i \in Ifaces, NEW k \in Frames, ProcessPacket(i, k) PROVE Inv'
  BY <1>3, ProcessInv
<1>4. CASE UNCHANGED vars
  BY <1>4 DEF vars, Inv, Typed, Numbered, Stamped, Accounted, Clock
<1> QED BY <1>1, <1>2, <1>3, <1>4 DEF Next

\* The state of the synchronisation is always well formed: interfaces are numbered as they
\* are opened, the trees are acyclic over the open ones and their links are differences of
\* clocks, and every packet that was parsed is remembered somewhere or was evicted.
THEOREM SyncInvariant == Spec => []Inv
<1>1. Init => Inv
  BY InitInv
<1>2. Inv /\ [Next]_vars => Inv'
  BY InvStep
<1> QED BY <1>1, <1>2, PTL DEF Spec

\* interfacemgr_get_root and the sums over parents end, parents are open interfaces, and
\* number_of_timebase is the number of trees.
THEOREM ParentsFormForest == Spec => []Forest
<1>1. Inv => Forest
  <2> SUFFICES ASSUME Inv PROVE Forest
    OBVIOUS
  <2>1. interface_handles \in SUBSET Ifaces /\ Good(sync, interface_handles)
    BY DEF Inv, Typed
  <2>2. \A S \in SUBSET interface_handles : S # {} => \E i \in S : sync.parent[i] \notin S
    BY <2>1, Topmost DEF Good
  <2> QED BY <2>1, <2>2 DEF Forest, Good, RootSet
<1> QED BY <1>1, SyncInvariant, PTL

\* Whatever packets synchronise them, interfaces of one time base agree on the time.
THEOREM TimesAgreeAlways == Spec => []TimesAgree
<1>1. Inv => TimesAgree
  <2> SUFFICES ASSUME Inv, NEW i \in interface_handles, NEW j \in interface_handles,
                      Root(sync, i) = Root(sync, j)
               PROVE  ToRoot(sync, i) + Skew[i] = ToRoot(sync, j) + Skew[j]
    BY DEF TimesAgree
  <2>1. i \in Ifaces /\ j \in Ifaces /\ Sound(sync) /\ Clocked(sync)
    BY DEF Inv, Typed, Good
  <2>2. /\ ToRoot(sync, i) = Skew[Root(sync, i)] - Skew[i]
        /\ ToRoot(sync, j) = Skew[Root(sync, i)] - Skew[j]
    BY <2>1, SumIsSkew
  <2>3. Skew[Root(sync, i)] \in Int /\ Skew[i] \in Int /\ Skew[j] \in Int
    BY <2>1, RootIs
  <2> QED BY <2>2, <2>3
<1> QED BY <1>1, SyncInvariant, PTL

\* In whatever order the readers deliver a frame that several sniffers heard, it is parsed,
\* and once unless some interface has evicted it.
THEOREM ParsedOnceAlways == Spec => []ParsedOnce
<1>1. Inv => ParsedOnce
  <2> SUFFICES ASSUME Inv PROVE ParsedOnce
    OBVIOUS
  <2>1. ASSUME NEW i \in interface_handles, NEW n \in DOMAIN last_packets[i]
        PROVE  parsed[last_packets[i][n].frame] > 0
    <3>1. i \in Ifaces /\ last_packets[i][n] \in Held(last_packets[i])
      BY DEF Inv, Typed, Held
    <3> QED BY <3>1 DEF Inv, Accounted
  <2> QED BY <2>1 DEF ParsedOnce, Inv, Accounted
<1> QED BY <1>1, SyncInvariant, PTL
-----------------------------------------------------------------------------
(* The trees implement the division into time bases.                           *)

Group(s, H, r) == {j \in H : Root(s, j) = r}
GroupsOf(s, H) == {Group(s, H, r) : r \in RootSet(s, H)}

LEMMA RootIn ==
  ASSUME NEW H \in SUBSET Ifaces, NEW s, Good(s, H), NEW x \in H
  PROVE  Root(s, x) \in RootSet(s, H)
<1> DEFINE Bad == {y \in H : Root(s, y) \notin H}
<1>1. Sound(s)
  BY DEF Good
<1>2. ASSUME Bad # {} PROVE FALSE
  <2>1. PICK y \in Bad : s.parent[y] \notin Bad
    BY <1>1, <1>2, Topmost
  <2>2. s.parent[y] = None \/ (s.parent[y] \in H /\ Root(s, y) = Root(s, s.parent[y]))
    BY <1>1, <2>1, RootIs DEF Good
  <2> QED BY <1>1, <2>1, <2>2, RootIs
<1> QED BY <1>1, <1>2, RootIs DEF RootSet

\* Every open interface is in one group, that of its root.
LEMMA GroupsDivide ==
  ASSUME NEW H \in SUBSET Ifaces, NEW s, Good(s, H)
  PROVE  /\ UNION GroupsOf(s, H) = H /\ {} \notin GroupsOf(s, H)
         /\ \A g, h \in GroupsOf(s, H) : g # h => g \cap h = {}
         /\ \A r \in RootSet(s, H) : r \in Group(s, H, r)
<1>1. \A r \in RootSet(s, H) : r \in Group(s, H, r)
  BY RootIs DEF Good, RootSet, Group
<1>2. \A x \in H : x \in Group(s, H, Root(s, x)) /\ Root(s, x) \in RootSet(s, H)
  BY RootIn DEF Group
<1>3. UNION GroupsOf(s, H) = H
  <2>1. \A x \in H : x \in UNION GroupsOf(s, H)
    BY <1>2 DEF GroupsOf
  <2>2. \A g \in GroupsOf(s, H) : g \in SUBSET H
    BY DEF GroupsOf, Group
  <2> QED BY <2>1, <2>2
<1>4. {} \notin GroupsOf(s, H)
  BY <1>1 DEF GroupsOf
<1>5. \A g, h \in GroupsOf(s, H) : g # h => g \cap h = {}
  <2> SUFFICES ASSUME NEW q \in RootSet(s, H), NEW r \in RootSet(s, H), Group(s, H, q) # Group(s, H, r)
               PROVE  Group(s, H, q) \cap Group(s, H, r) = {}
    BY DEF GroupsOf
  <2> QED BY DEF Group
<1> QED BY <1>1, <1>3, <1>4, <1>5

LEMMA OpensGroup ==
  ASSUME NEW H \in SUBSET Ifaces, NEW s, Good(s, H), NEW i \in Ifaces \ H,
         NEW r, r.parent = s.parent
  PROVE  /\ i \notin UNION GroupsOf(s, H)
         /\ GroupsOf(r, H \cup {i}) = GroupsOf(s, H) \cup {{i}}
<1> DEFINE K == H \cup {i}
<1>1. \A x \in Ifaces : Root(r, x) = Root(s, x)
  BY SameRoots DEF Root
<1>2. Sound(s) /\ s.parent[i] = None
  BY DEF Good
<1>3. RootSet(r, K) = RootSet(s, H) \cup {i}
  BY <1>2 DEF RootSet
<1>4. Root(s, i) = i /\ \A x \in H : Root(s, x) \in H
  BY <1>2, RootIs, RootIn DEF RootSet
<1>5. Group(r, K, i) = {i} /\ \A q \in RootSet(s, H) : Group(r, K, q) = Group(s, H, q)
  <2>1. \A q \in RootSet(s, H) : q \in H
    BY DEF RootSet
  <2> QED BY <1>1, <1>4, <2>1 DEF Group
<1>6. i \notin UNION GroupsOf(s, H)
  BY GroupsDivide
<1>7. GroupsOf(r, K) = GroupsOf(s, H) \cup {{i}}
  <2> HIDE DEF K
  <2> QED BY <1>3, <1>5 DEF GroupsOf
<1> QED BY <1>6, <1>7

LEMMA ClosesGroup ==
  ASSUME NEW H \in SUBSET Ifaces, NEW s, Good(s, H), NEW i \in H,
         NEW r, Detached(s, H, i, r)
  PROVE  GroupsOf(r, H \ {i}) = {g \ {i} : g \in GroupsOf(s, H)} \ {{}}
<1> DEFINE K == H \ {i}
<1>1. /\ Good(r, K)
      /\ \A x \in Ifaces : x # i => Root(r, x) = Root(s, x)
      /\ \A x \in Ifaces : x # i => Root(s, x) # i
      /\ \A x \in Ifaces : x # i => r.parent[x] = s.parent[x]
  BY DestroyTrees
<1>2. RootSet(r, K) = RootSet(s, H) \ {i}
  BY <1>1 DEF RootSet
<1>3. \A q \in RootSet(s, H) : Group(r, K, q) = Group(s, H, q) \ {i}
  BY <1>1 DEF Group
<1>4. i \in RootSet(s, H) => Group(s, H, i) \ {i} = {}
  BY <1>1 DEF Group
<1>5. \A q \in RootSet(r, K) : Group(r, K, q) # {}
  <2>1. K \in SUBSET Ifaces
    OBVIOUS
  <2> HIDE DEF K
  <2> QED BY <1>1, <2>1, GroupsDivide
<1> HIDE DEF K
<1>6. ASSUME NEW g \in GroupsOf(r, K) PROVE g \in {h \ {i} : h \in GroupsOf(s, H)} \ {{}}
  <2>1. PICK q \in RootSet(r, K) : g = Group(r, K, q)
    BY DEF GroupsOf
  <2>2. q \in RootSet(s, H) /\ g = Group(s, H, q) \ {i} /\ g # {}
    BY <1>2, <1>3, <1>5, <2>1
  <2> QED BY <2>2 DEF GroupsOf
<1>7. ASSUME NEW g \in {h \ {i} : h \in GroupsOf(s, H)} \ {{}} PROVE g \in GroupsOf(r, K)
  <2>1. PICK q \in RootSet(s, H) : g = Group(s, H, q) \ {i}
    BY DEF GroupsOf
  <2>2. q # i
    BY <1>4, <2>1
  <2> QED BY <1>2, <1>3, <2>1, <2>2 DEF GroupsOf
<1>8. GroupsOf(r, K) = {h \ {i} : h \in GroupsOf(s, H)} \ {{}}
  BY <1>6, <1>7
<1> QED BY <1>8 DEF K

LEMMA JoinsGroups ==
  ASSUME NEW H \in SUBSET Ifaces, NEW s, Good(s, H), NEW r, Good(r, H), Coarser(s, r)
  PROVE  \A g \in GroupsOf(s, H) : \E h \in GroupsOf(r, H) : g \subseteq h
<1> SUFFICES ASSUME NEW q \in RootSet(s, H)
             PROVE  \E h \in GroupsOf(r, H) : Group(s, H, q) \subseteq h
  BY DEF GroupsOf
<1>1. q \in H /\ q \in Ifaces /\ Root(s, q) = q
  BY RootIs DEF Good, RootSet
<1>2. Root(r, q) \in RootSet(r, H)
  BY <1>1, RootIn
<1>3. \A x \in H : Root(s, x) = q => Root(r, x) = Root(r, q)
  BY <1>1 DEF Coarser
<1>4. Group(s, H, q) \subseteq Group(r, H, Root(r, q))
  BY <1>3 DEF Group
<1> QED BY <1>2, <1>4 DEF GroupsOf

\* The forest implements the abstract division into groups that share a time base:
\* opening an interface adds a group, closing one takes it out of its own, and a packet
\* joins whole groups.
THEOREM ForestImplementsTimebases == Spec => ImplementsTimebases
<1> DEFINE g == GroupsOf(sync, interface_handles)
           bar == {{j \in interface_handles : Root(sync, j) = r} : r \in {i \in interface_handles : sync.parent[i] = None}}
<1>1. bar = g
  BY DEF GroupsOf, Group, RootSet
<1>2. bar' = g'
  BY DEF GroupsOf, Group, RootSet
<1>3. Init => Groups!Init
  <2> SUFFICES ASSUME Init PROVE bar = {}
    BY DEF Groups!Init
  <2> QED BY DEF Init
<1>4. Inv /\ [Next]_vars => [Groups!Next]_bar
  <2> SUFFICES ASSUME Inv, [Next]_vars PROVE Groups!Next \/ bar' = bar
    OBVIOUS
  <2>1. interface_handles \in SUBSET Ifaces /\ Good(sync, interface_handles)
    BY DEF Inv, Typed
  <2>2. ASSUME NEW i \in Ifaces, Create(i) PROVE Groups!Open(i)
    <3>1. /\ i \notin interface_handles /\ interface_handles' = interface_handles \cup {i}
          /\ sync' = [sync EXCEPT !.timebases = @ + 1]
      BY <2>2, CreateInv DEF Create
    <3>2. sync'.parent = sync.parent
      BY <2>1, <3>1 DEF Good, Sound, Tree
    <3>3. i \notin UNION g /\ GroupsOf(sync', interface_handles \cup {i}) = g \cup {{i}}
      <4>1. i \in Ifaces \ interface_handles
        BY <3>1
      <4> HIDE DEF g
      <4>2. i \notin UNION GroupsOf(sync, interface_handles) /\
            GroupsOf(sync', interface_handles \cup {i}) = GroupsOf(sync, interface_handles) \cup {{i}}
        BY ONLY <2>1, <3>2, <4>1, OpensGroup
      <4> QED BY <4>2 DEF g
    <3>4. i \notin UNION g /\ g' = g \cup {{i}}
      BY <3>1, <3>3
    <3> HIDE DEF g, bar
    <3>5. i \notin UNION bar /\ bar' = bar \cup {{i}}
      BY <1>1, <1>2, <3>4
    <3> QED BY <3>5 DEF Groups!Open, bar
  <2>3. ASSUME NEW i \in Ifaces, Destroy(i) PROVE Groups!Close(i)
    <3>1. /\ i \in interface_handles /\ interface_handles' = interface_handles \ {i}
          /\ Detached(sync, interface_handles, i, sync')
      BY <2>3 DEF Destroy, Detached
    <3>2. GroupsOf(sync', interface_handles \ {i}) = {h \ {i} : h \in g} \ {{}}
      BY <2>1, <3>1, ClosesGroup
    <3>3. g' = {h \ {i} : h \in g} \ {{}}
      BY <3>1, <3>2
    <3> HIDE DEF g, bar
    <3>4. bar' = {h \ {i} : h \in bar} \ {{}}
      BY <1>1, <1>2, <3>3
    <3> QED BY <3>4 DEF Groups!Close, bar
  <2>4. ASSUME NEW i \in Ifaces, NEW k \in Frames, ProcessPacket(i, k) PROVE Groups!Join
    <3>1. Inv' /\ interface_handles' = interface_handles /\ Coarser(sync, sync')
      BY <2>4, ProcessInv
    <3>2. Good(sync', interface_handles)
      BY <3>1 DEF Inv
    <3>3. \A a \in g : \E h \in GroupsOf(sync', interface_handles) : a \subseteq h
      BY ONLY <2>1, <3>1, <3>2, JoinsGroups
    <3>6. UNION g = interface_handles
      BY <2>1, GroupsDivide
    <3>7. /\ UNION GroupsOf(sync', interface_handles) = interface_handles
          /\ {} \notin GroupsOf(sync', interface_handles)
          /\ \A a, h \in GroupsOf(sync', interface_handles) : a # h => a \cap h = {}
      BY <2>1, <3>2, GroupsDivide, Zenon
    <3>4. /\ \A a \in g : \E h \in g' : a \subseteq h
          /\ UNION g' = UNION g /\ {} \notin g'
          /\ \A a, h \in g' : a # h => a \cap h = {}
      BY <3>1, <3>3, <3>6, <3>7
    <3> HIDE DEF g, bar
    <3>5. /\ \A a \in bar : \E h \in bar' : a \subseteq h
          /\ UNION bar' = UNION bar /\ {} \notin bar'
          /\ \A a, h \in bar' : a # h => a \cap h = {}
      BY <1>1, <1>2, <3>4
    <3> QED BY <3>5 DEF Groups!Join, bar
  <2>5. CASE UNCHANGED vars
    <3>1. sync' = sync /\ interface_handles' = interface_handles
      BY <2>5 DEF vars
    <3>2. g' = g
      BY <3>1
    <3> QED BY <1>1, <1>2, <3>2
  <2> QED BY <2>2, <2>3, <2>4, <2>5 DEF Next, Groups!Next
<1> HIDE DEF bar, g
<1> QED BY <1>3, <1>4, SyncInvariant, PTL DEF Spec, ImplementsTimebases, Groups!Spec, bar
=============================================================================
