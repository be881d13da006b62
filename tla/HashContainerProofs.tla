-------------------------- MODULE HashContainerProofs --------------------------
(***************************************************************************)
(* Theorems about HashContainer for every number of keys, elements and     *)
(* threads: what iterators see while the container changes under them, and *)
(* that the container is an ordered map.                                   *)
(***************************************************************************)
EXTENDS HashContainer, TLAPS, FiniteSetTheorems, SequenceTheorems, WellFoundedInduction

----------------------------------------------------------------------------
(* The neighbours of an element.                                           *)

\* e is the first of the elements of S.
IsLeast(e, S) == e \in S /\ \A f \in S : e <= f

LEMMA LeastIs ==
  ASSUME NEW S \in SUBSET (Nat \ {0})
  PROVE  /\ S = {} => Least(S) = 0
         /\ S # {} => IsLeast(Least(S), S)
<1>1. S = {} => Least(S) = 0 BY DEF Least
<1>2. ASSUME S # {} PROVE IsLeast(Least(S), S)
  <2>1. PICK e \in S : \A f \in S : e <= f
    <3> DEFINE R == OpToRel(<, Nat)
    <3>1. S \subseteq Nat /\ S # {} /\ IsWellFoundedOn(R, Nat) BY <1>2, NatLessThanWellFounded
    <3> HIDE DEF R
    <3>2. \E e \in S : \A f \in S : <<f, e>> \notin R BY <3>1, WFMin
    <3>3. \A e, f \in Nat : f < e => <<f, e>> \in R BY DEF R, OpToRel
    <3>4. PICK e \in S : \A f \in S : <<f, e>> \notin R BY <3>2
    <3>5. \A f \in S : ~(f < e) BY <3>1, <3>3, <3>4
    <3> QED BY <3>1, <3>5
  <2>2. IsLeast(Min(S), S) BY <2>1, Zenon DEF Min, IsLeast
  <2> QED BY <1>2, <2>2 DEF Least
<1> QED BY <1>1, <1>2

\* What is ahead of an element is its successor and what is ahead of that.
LEMMA AfterIs ==
  ASSUME NEW e \in Nat, linked \in SUBSET (Nat \ {0}), e # 0
  PROVE  /\ After(e) \in linked \cup {0}
         /\ After(e) # 0 => e < After(e)
         /\ {f \in linked : f > e} = IF After(e) = 0 THEN {} ELSE {f \in linked : f >= After(e)}
<1> DEFINE S == {f \in linked : f > e}
<1>1. S \in SUBSET (Nat \ {0}) /\ After(e) = Least(S) BY DEF After
<1>2. S = {} => After(e) = 0 BY <1>1, LeastIs
<1>3. S # {} => After(e) \in S /\ \A f \in S : After(e) <= f BY <1>1, LeastIs DEF IsLeast
<1>4. CASE S = {} BY <1>2, <1>4
<1>5. CASE S # {}
  <2>1. After(e) \in linked /\ e < After(e) /\ After(e) # 0 BY <1>3, <1>5
  <2>2. S = {f \in linked : f >= After(e)}
    <3>1. \A f \in S : f \in linked /\ f >= After(e) BY <1>3, <1>5
    <3>2. ASSUME NEW f \in linked, f >= After(e) PROVE f > e
      <4>1. f \in Nat /\ After(e) \in Nat BY <2>1
      <4> QED BY <2>1, <3>2, <4>1
    <3> QED BY <3>1, <3>2
  <2> QED BY <2>1, <2>2
<1> QED BY <1>4, <1>5

----------------------------------------------------------------------------
(* The invariant.                                                          *)

Pointers == [current : Nat, next : Nat]
Findings == [el : Nat, loop : BOOLEAN]
Histories == [loop : BOOLEAN, seen : Seq(Nat), due : SUBSET Nat, hit : BOOLEAN]

Elements == [key : Keys \cup {NoKey}, data : Data]

\* The elements of L in the order of the list.
Enumerates(g, L) ==
  /\ g \in Seq(L) /\ \A e \in L : \E n \in DOMAIN g : g[n] = e
  /\ \A m, n \in DOMAIN g : m < n => g[m] < g[n]

Typed ==
  /\ element \in Seq(Elements) /\ linked \in SUBSET (1..Len(element))
  /\ \A e \in linked : element[e].key \in Keys
  /\ \A i \in Iterators : finding[i].el <= Len(element)
  /\ \E g : Enumerates(g, linked)
  /\ it \in [Iterators -> Pointers] /\ finding \in [Iterators -> Findings]
  /\ past \in [Iterators -> Histories] /\ fault \in SUBSET Iterators

\* What is still ahead of an iterator.
Ahead(t, L) == IF t.next = 0 THEN {} ELSE {e \in L : e >= t.next}

\* An iterator nobody has hit points into the list, and to its front while it has begun
\* a loop; the element found first is the head of the list until it is taken.
PointsOk(L, t, f, p) ==
  ~p.hit =>
    /\ t.current \in L \cup {0} /\ t.next \in L \cup {0} /\ f.el \in L \cup {0}
    /\ t.next # 0 => t.current # 0 /\ t.current < t.next
    /\ f.loop => \A e \in L : f.el <= e

\* What a loop has seen is behind it, in order, and the rest of what is due is ahead.
LoopOk(L, t, p) ==
  p.loop /\ ~p.hit =>
    /\ Range(p.seen) \cup Ahead(t, L) = p.due
    /\ \A m, n \in DOMAIN p.seen : m < n => p.seen[m] < p.seen[n]
    /\ t.current # 0 => \A m \in DOMAIN p.seen : p.seen[m] <= t.current

\* Who has found an element points at nothing; it is hit once that element is freed.
FoundOk(L, t, f, p) == f.el # 0 => t.current = 0 /\ t.next = 0 /\ (p.hit => f.el \notin L)

IteratorOk(L, t, f, p) == PointsOk(L, t, f, p) /\ LoopOk(L, t, p) /\ FoundOk(L, t, f, p)

HashInv ==
  /\ Typed
  /\ \A i \in fault : past[i].hit
  /\ \A i \in Iterators : IteratorOk(linked, it[i], finding[i], past[i])

----------------------------------------------------------------------------
(* Enumerations: the list determines its order, and how changes show in it. *)

LEMMA EnumBasics ==
  ASSUME NEW L \in SUBSET Nat, NEW g, Enumerates(g, L)
  PROVE  /\ Len(g) \in Nat /\ g \in [1..Len(g) -> L] /\ DOMAIN g = 1..Len(g)
         /\ \A n \in 1..Len(g) : g[n] \in L /\ g[n] \in Nat
         /\ \A m, n \in 1..Len(g) : m < n => g[m] < g[n]
         /\ \A m, n \in 1..Len(g) : g[m] <= g[n] => m <= n
         /\ \A m, n \in 1..Len(g) : g[m] = g[n] => m = n
         /\ \A e \in L : \E n \in 1..Len(g) : g[n] = e
<1>1. g \in Seq(L) BY DEF Enumerates
<1>2. Len(g) \in Nat /\ g \in [1..Len(g) -> L] /\ DOMAIN g = 1..Len(g) BY <1>1, LenProperties
<1>3. \A n \in 1..Len(g) : g[n] \in L /\ g[n] \in Nat BY <1>2
<1>4. /\ \A m, n \in 1..Len(g) : m < n => g[m] < g[n]
      /\ \A e \in L : \E n \in 1..Len(g) : g[n] = e
  BY <1>2 DEF Enumerates
<1>5. ASSUME NEW m \in 1..Len(g), NEW n \in 1..Len(g), g[m] <= g[n] PROVE m <= n
  <2>1. m \in Nat /\ n \in Nat BY <1>2
  <2> QED BY <1>3, <1>4, <1>5, <2>1
<1>6. ASSUME NEW m \in 1..Len(g), NEW n \in 1..Len(g), g[m] = g[n] PROVE m = n
  <2>1. m \in Nat /\ n \in Nat BY <1>2
  <2> QED BY <1>3, <1>4, <1>6, <2>1
<1> QED BY <1>2, <1>3, <1>4, <1>5, <1>6

LEMMA OrderIs ==
  ASSUME NEW L \in SUBSET Nat, NEW g, Enumerates(g, L)
  PROVE  Order(L) = g
<1> DEFINE N == Len(g)
           Upto(e) == {f \in L : f <= e}
<1>1. /\ N \in Nat /\ g \in [1..N -> L]
      /\ \A n \in 1..N : g[n] \in L /\ g[n] \in Nat
      /\ \A m, n \in 1..N : m < n => g[m] < g[n]
      /\ \A m, n \in 1..N : g[m] <= g[n] => m <= n
      /\ \A m, n \in 1..N : g[m] = g[n] => m = n
      /\ \A e \in L : \E n \in 1..N : g[n] = e
  BY EnumBasics
<1>2. Cardinality(L) = N
  <2>1. IsInjective(g) BY <1>1 DEF IsInjective
  <2>2. g \in Bijection(1..N, L) BY <1>1, <2>1 DEF Bijection, Injection, Surjection
  <2>3. ExistsBijection(1..N, L) BY <2>2 DEF ExistsBijection
  <2> QED BY <1>1, <2>3, FS_CountingElements
<1>3. ASSUME NEW n \in 1..N PROVE Cardinality(Upto(g[n])) = n
  <2> DEFINE h == [m \in 1..n |-> g[m]]
  <2>1. n \in Nat /\ \A m \in 1..n : m \in 1..N BY <1>1
  <2>2. ASSUME NEW m \in 1..n PROVE g[m] \in Upto(g[n])
    <3>1. m = n \/ m < n BY <2>1
    <3> QED BY <1>1, <2>1, <3>1
  <2>3. ASSUME NEW e \in Upto(g[n]) PROVE \E m \in 1..n : g[m] = e
    <3>1. PICK m \in 1..N : g[m] = e BY <1>1
    <3>2. m <= n BY <1>1, <3>1
    <3> QED BY <1>1, <3>1, <3>2
  <2>4. h \in [1..n -> Upto(g[n])] BY <2>2
  <2>5. IsInjective(h) BY <1>1, <2>1 DEF IsInjective
  <2>6. \A e \in Upto(g[n]) : \E m \in 1..n : h[m] = e BY <2>3
  <2>7. h \in Bijection(1..n, Upto(g[n])) BY <2>4, <2>5, <2>6 DEF Bijection, Injection, Surjection
  <2>8. ExistsBijection(1..n, Upto(g[n])) BY <2>7 DEF ExistsBijection
  <2> QED BY <2>1, <2>8, FS_CountingElements
<1>4. ASSUME NEW n \in 1..N
      PROVE  (CHOOSE e \in L : Cardinality(Upto(e)) = n) = g[n]
  <2>1. g[n] \in L /\ Cardinality(Upto(g[n])) = n BY <1>1, <1>3
  <2>2. ASSUME NEW e \in L, Cardinality(Upto(e)) = n PROVE e = g[n]
    <3>1. PICK m \in 1..N : g[m] = e BY <1>1
    <3>2. m = n BY <1>3, <2>2, <3>1
    <3> QED BY <3>1, <3>2
  <2> HIDE DEF Upto
  <2> QED BY <2>1, <2>2
<1>5. Order(L) = [n \in 1..N |-> g[n]] BY <1>2, <1>4 DEF Order
<1> QED BY <1>1, <1>5

LEMMA EnumAppend ==
  ASSUME NEW L \in SUBSET Nat, NEW g, Enumerates(g, L), NEW new \in Nat, \A e \in L : e < new
  PROVE  Enumerates(Append(g, new), L \cup {new})
<1> DEFINE h == Append(g, new)
           M == L \cup {new}
<1>1. /\ Len(g) \in Nat /\ DOMAIN g = 1..Len(g)
      /\ \A n \in 1..Len(g) : g[n] \in L
      /\ \A m, n \in 1..Len(g) : m < n => g[m] < g[n]
      /\ \A e \in L : \E n \in 1..Len(g) : g[n] = e
  BY EnumBasics
<1>2. g \in Seq(M) BY SeqMonotonic DEF Enumerates
<1>3. /\ h \in Seq(M) /\ Len(h) = Len(g) + 1 /\ h[Len(g) + 1] = new
      /\ \A i \in 1..Len(g) : h[i] = g[i]
  BY <1>2, AppendProperties
<1>4. DOMAIN h = 1..Len(g) + 1 BY <1>3, LenProperties
<1> HIDE DEF h
<1>5. ASSUME NEW e \in M PROVE \E n \in DOMAIN h : h[n] = e
  <2>1. CASE e = new BY <1>1, <1>3, <1>4, <2>1
  <2>2. CASE e \in L
    <3>1. PICK n \in 1..Len(g) : g[n] = e BY <1>1, <2>2
    <3>2. n \in DOMAIN h BY <1>1, <1>4
    <3> QED BY <1>3, <3>1, <3>2
  <2> QED BY <2>1, <2>2
<1>6. ASSUME NEW m \in DOMAIN h, NEW n \in DOMAIN h, m < n PROVE h[m] < h[n]
  <2>1. m \in 1..Len(g) /\ (n \in 1..Len(g) \/ n = Len(g) + 1) BY <1>1, <1>4, <1>6
  <2> QED BY <1>1, <1>3, <1>6, <2>1
<1>7. Enumerates(h, M) BY <1>3, <1>5, <1>6 DEF Enumerates
<1> QED BY <1>7 DEF h

LEMMA RemoveAtIs ==
  ASSUME NEW S, NEW s \in Seq(S), NEW i \in 1..Len(s)
  PROVE  /\ RemoveAt(s, i) \in Seq(S) /\ Len(RemoveAt(s, i)) = Len(s) - 1
         /\ DOMAIN RemoveAt(s, i) = 1..Len(s) - 1
         /\ \A n \in 1..Len(s) - 1 : RemoveAt(s, i)[n] = IF n < i THEN s[n] ELSE s[n + 1]
<1> DEFINE h == RemoveAt(s, i)
           a == SubSeq(s, 1, i - 1)
           b == SubSeq(s, i + 1, Len(s))
<1>1. Len(s) \in Nat /\ \A n \in 1..Len(s) : s[n] \in S BY LenProperties
<1>2. i \in Nat /\ 1 <= i /\ i <= Len(s) BY <1>1
<1>3. \A n \in 1..i - 1 : s[n] \in S BY <1>1, <1>2
<1>4. \A n \in i + 1..Len(s) : s[n] \in S BY <1>1, <1>2
<1>5. /\ a \in Seq(S) /\ Len(a) = IF 1 <= i - 1 THEN i - 1 - 1 + 1 ELSE 0
      /\ \A n \in 1..i - 1 - 1 + 1 : a[n] = s[1 + n - 1]
  BY <1>2, <1>3, SubSeqProperties
<1>6. /\ b \in Seq(S) /\ Len(b) = IF i + 1 <= Len(s) THEN Len(s) - (i + 1) + 1 ELSE 0
      /\ \A n \in 1..Len(s) - (i + 1) + 1 : b[n] = s[i + 1 + n - 1]
  BY <1>1, <1>2, <1>4, SubSeqProperties
<1>7. h = a \o b BY DEF RemoveAt
<1> HIDE DEF a, b, h
<1>8. /\ h \in Seq(S) /\ Len(h) = Len(a) + Len(b)
      /\ \A n \in 1..Len(a) + Len(b) : h[n] = IF n <= Len(a) THEN a[n] ELSE b[n - Len(a)]
  BY <1>5, <1>6, <1>7, ConcatProperties
<1>9. Len(a) = i - 1 /\ Len(b) = Len(s) - i BY <1>1, <1>2, <1>5, <1>6
<1>10. Len(h) = Len(s) - 1 BY <1>1, <1>2, <1>8, <1>9
<1>11. DOMAIN h = 1..Len(s) - 1
  <2>1. DOMAIN h = 1..Len(h) BY <1>8, LenProperties
  <2> QED BY <1>10, <2>1
<1>12. ASSUME NEW n \in 1..Len(s) - 1 PROVE h[n] = IF n < i THEN s[n] ELSE s[n + 1]
  <2>1. n \in 1..Len(a) + Len(b) BY <1>1, <1>2, <1>9
  <2>2. CASE n < i
    <3>1. n <= Len(a) /\ n \in 1..i - 1 - 1 + 1 /\ 1 + n - 1 = n BY <1>1, <1>2, <1>9, <2>2
    <3> QED BY <1>5, <1>8, <2>1, <2>2, <3>1
  <2>3. CASE ~(n < i)
    <3>1. /\ ~(n <= Len(a)) /\ n - Len(a) \in 1..Len(s) - (i + 1) + 1
          /\ i + 1 + (n - Len(a)) - 1 = n + 1
      BY <1>1, <1>2, <1>9, <2>3
    <3> QED BY <1>6, <1>8, <2>1, <2>3, <3>1
  <2> QED BY <2>2, <2>3
<1> QED BY <1>8, <1>10, <1>11, <1>12 DEF h

LEMMA EnumRemove ==
  ASSUME NEW L \in SUBSET Nat, NEW g, Enumerates(g, L), NEW i \in DOMAIN g
  PROVE  Enumerates(RemoveAt(g, i), L \ {g[i]})
<1> DEFINE h == RemoveAt(g, i)
           M == L \ {g[i]}
<1>1. /\ Len(g) \in Nat /\ DOMAIN g = 1..Len(g)
      /\ \A n \in 1..Len(g) : g[n] \in L
      /\ \A m, n \in 1..Len(g) : m < n => g[m] < g[n]
      /\ \A m, n \in 1..Len(g) : g[m] = g[n] => m = n
      /\ \A e \in L : \E n \in 1..Len(g) : g[n] = e
  BY EnumBasics
<1>2. i \in Nat /\ 1 <= i /\ i <= Len(g) /\ i \in 1..Len(g) BY <1>1
<1>3. \A n \in 1..Len(g) : n # i => g[n] \in M BY <1>1
<1>4. g \in Seq(L) BY DEF Enumerates
<1>5. /\ h \in Seq(L) /\ DOMAIN h = 1..Len(g) - 1
      /\ \A n \in 1..Len(g) - 1 : h[n] = IF n < i THEN g[n] ELSE g[n + 1]
  BY <1>2, <1>4, RemoveAtIs
<1> HIDE DEF h
<1>6. h \in Seq(M)
  <2>1. ASSUME NEW n \in 1..Len(g) - 1 PROVE h[n] \in M
    <3>2. CASE n < i BY <1>1, <1>2, <1>3, <1>5, <3>2
    <3>3. CASE ~(n < i)
      <4>1. n + 1 # i /\ n + 1 \in 1..Len(g) BY <1>1, <1>2, <3>3
      <4> QED BY <1>3, <1>5, <3>3, <4>1
    <3> QED BY <3>2, <3>3
  <2>2. h = [n \in 1..Len(g) - 1 |-> h[n]] BY <1>5, LenProperties
  <2>3. h \in [1..Len(g) - 1 -> M] BY <2>1, <2>2
  <2>4. Len(g) - 1 \in Nat BY <1>1, <1>2
  <2> HIDE DEF M
  <2> QED BY <2>3, <2>4, SeqDef
<1>7. ASSUME NEW e \in M PROVE \E n \in DOMAIN h : h[n] = e
  <2>1. PICK n \in 1..Len(g) : g[n] = e BY <1>1
  <2>2. n # i BY <2>1
  <2>3. CASE n < i
    <3>1. n \in 1..Len(g) - 1 BY <1>1, <1>2, <2>3
    <3> QED BY <1>5, <2>1, <2>3, <3>1
  <2>4. CASE n > i
    <3>1. n - 1 \in 1..Len(g) - 1 /\ ~(n - 1 < i) /\ n - 1 + 1 = n BY <1>1, <1>2, <2>4
    <3>2. h[n - 1] = g[n] BY <1>5, <3>1
    <3> QED BY <1>5, <2>1, <3>1, <3>2
  <2> QED BY <1>1, <1>2, <2>2, <2>3, <2>4
<1>8. ASSUME NEW m \in 1..Len(g) - 1, NEW n \in 1..Len(g) - 1, m < n PROVE h[m] < h[n]
  <2> DEFINE mm == IF m < i THEN m ELSE m + 1
             nn == IF n < i THEN n ELSE n + 1
  <2>1. mm \in 1..Len(g) /\ nn \in 1..Len(g) /\ mm < nn BY <1>1, <1>2, <1>8
  <2>2. h[m] = g[mm] /\ h[n] = g[nn] BY <1>5
  <2> HIDE DEF mm, nn
  <2> QED BY <1>1, <2>1, <2>2
<1>9. Enumerates(h, M) BY <1>5, <1>6, <1>7, <1>8 DEF Enumerates
<1> QED BY <1>9 DEF h

LEMMA EnumEmpty == Enumerates(<<>>, {})
BY EmptySeq DEF Enumerates

----------------------------------------------------------------------------
(* Steps of one iterator.                                                  *)

\* A new element at the tail of the list is ahead of whoever has something ahead.
LEMMA LinkedOk ==
  ASSUME NEW L \in SUBSET (Nat \ {0}), NEW new \in Nat \ {0}, \A e \in L : e < new,
         NEW t \in Pointers, NEW f \in Findings, NEW p \in Histories, IteratorOk(L, t, f, p), f.el < new
  PROVE  LET q == [p EXCEPT !.due = IF t.next = 0 THEN @ ELSE @ \cup {new}]
         IN q \in Histories /\ IteratorOk(L \cup {new}, t, f, q) /\ q.hit = p.hit
<1> DEFINE due == IF t.next = 0 THEN p.due ELSE p.due \cup {new}
           q == [p EXCEPT !.due = due]
<1>1. due \in SUBSET Nat BY DEF Histories
<1> HIDE DEF due
<1>2. q \in Histories BY <1>1 DEF Histories
<1>3. q.loop = p.loop /\ q.seen = p.seen /\ q.hit = p.hit /\ q.due = due BY DEF Histories
<1> HIDE DEF q
<1>4. t.current \in Nat /\ t.next \in Nat /\ f.el \in Nat BY DEF Pointers, Findings
<1>5. PointsOk(L \cup {new}, t, f, q)
  BY <1>3, <1>4 DEF IteratorOk, PointsOk
<1>6. LoopOk(L \cup {new}, t, q)
  <2> SUFFICES ASSUME p.loop, ~p.hit
               PROVE  Range(p.seen) \cup Ahead(t, L \cup {new}) = due
    BY <1>3 DEF LoopOk, IteratorOk
  <2>1. Range(p.seen) \cup Ahead(t, L) = p.due BY DEF LoopOk, IteratorOk
  <2>2. t.next # 0 => Ahead(t, L \cup {new}) = Ahead(t, L) \cup {new}
    <3>1. t.next # 0 => t.next \in L BY DEF IteratorOk, PointsOk
    <3> QED BY <1>4, <3>1 DEF Ahead
  <2>3. t.next = 0 => Ahead(t, L \cup {new}) = Ahead(t, L) BY DEF Ahead
  <2> QED BY <2>1, <2>2, <2>3 DEF due
<1>7. FoundOk(L \cup {new}, t, f, q) BY <1>3, <1>4 DEF IteratorOk, FoundOk
<1> QED BY <1>2, <1>3, <1>5, <1>6, <1>7 DEF IteratorOk, q, due

\* What others free is behind the iterator or no longer due.
LEMMA BereftOk ==
  ASSUME NEW L \in SUBSET (Nat \ {0}), NEW S \in SUBSET L,
         NEW t \in Pointers, NEW f \in Findings, NEW p \in Histories, IteratorOk(L, t, f, p),
         {t.current, t.next, f.el} \cap S = {}
  PROVE  LET q == [p EXCEPT !.due = @ \ (S \ Range(p.seen))]
         IN q \in Histories /\ IteratorOk(L \ S, t, f, q) /\ q.hit = p.hit
<1> DEFINE due == p.due \ (S \ Range(p.seen))
           q == [p EXCEPT !.due = due]
<1>1. due \in SUBSET Nat BY DEF Histories
<1>2. q \in Histories BY <1>1 DEF Histories
<1>3. q.loop = p.loop /\ q.seen = p.seen /\ q.hit = p.hit /\ q.due = due BY DEF Histories
<1> HIDE DEF q, due
<1>4. t.current \in Nat /\ t.next \in Nat /\ f.el \in Nat BY DEF Pointers, Findings
<1>5. PointsOk(L \ S, t, f, q)
  BY <1>3, <1>4 DEF IteratorOk, PointsOk
<1>6. LoopOk(L \ S, t, q)
  <2> SUFFICES ASSUME p.loop, ~p.hit
               PROVE  Range(p.seen) \cup Ahead(t, L \ S) = due
    BY <1>3 DEF LoopOk, IteratorOk
  <2>1. Range(p.seen) \cup Ahead(t, L) = p.due BY DEF LoopOk, IteratorOk
  <2>2. Ahead(t, L \ S) = Ahead(t, L) \ S BY DEF Ahead
  <2> QED BY <2>1, <2>2 DEF due
<1>7. FoundOk(L \ S, t, f, q) BY <1>3 DEF IteratorOk, FoundOk
<1> QED BY <1>2, <1>3, <1>5, <1>6, <1>7 DEF IteratorOk, q, due

\* An iterator that moves to the next element sees it; the element it leaves may go.
LEMMA RangeAppend ==
  ASSUME NEW s \in Seq(Nat), NEW e \in Nat
  PROVE  /\ Append(s, e) \in Seq(Nat) /\ Range(Append(s, e)) = Range(s) \cup {e}
         /\ DOMAIN Append(s, e) = 1..Len(s) + 1 /\ DOMAIN s = 1..Len(s) /\ Len(s) \in Nat
         /\ \A m \in DOMAIN s : Append(s, e)[m] = s[m]
         /\ Append(s, e)[Len(s) + 1] = e
<1> DEFINE t == Append(s, e)
<1>1. /\ t \in Seq(Nat) /\ DOMAIN t = 1..Len(s) + 1 /\ DOMAIN s = 1..Len(s) /\ Len(s) \in Nat
      /\ \A m \in DOMAIN s : t[m] = s[m]
      /\ t[Len(s) + 1] = e
  BY AppendProperties
<1> HIDE DEF t
<1>2. Range(t) = Range(s) \cup {e}
  <2>1. \A m \in DOMAIN t : m \in DOMAIN s \/ m = Len(s) + 1 BY <1>1
  <2>2. \A m \in DOMAIN s : m \in DOMAIN t BY <1>1
  <2>3. Len(s) + 1 \in DOMAIN t BY <1>1
  <2> QED BY <1>1, <2>1, <2>2, <2>3 DEF Range
<1> QED BY <1>1, <1>2 DEF t

LEMMA PointingIs ==
  ASSUME NEW e \in linked \cup {0}, linked \in SUBSET (Nat \ {0})
  PROVE  /\ Pointing(e) \in Pointers /\ Pointing(e).current = e
         /\ Pointing(e).next \in linked \cup {0}
         /\ e = 0 => Pointing(e).next = 0
         /\ Pointing(e).next # 0 => e < Pointing(e).next
         /\ e # 0 => Ahead(Pointing(e), linked) = {f \in linked : f > e}
<1>1. CASE e = 0 BY <1>1 DEF Pointing, After, Pointers
<1>2. CASE e # 0
  <2>1. /\ After(e) \in linked \cup {0} /\ (After(e) # 0 => e < After(e))
        /\ {f \in linked : f > e} = IF After(e) = 0 THEN {} ELSE {f \in linked : f >= After(e)}
    BY <1>2, AfterIs
  <2>2. Pointing(e) = [current |-> e, next |-> After(e)] BY DEF Pointing
  <2>3. \A f \in linked \cup {0} : f \in Nat OBVIOUS
  <2>4. After(e) \in Nat /\ e \in Nat BY <2>1, <2>3
  <2> QED BY <1>2, <2>1, <2>2, <2>4 DEF Pointers, Ahead
<1> QED BY <1>1, <1>2

LEMMA AdvancedOk ==
  ASSUME linked \in SUBSET (Nat \ {0}), NEW t \in Pointers, NEW f \in Findings, NEW p \in Histories,
         IteratorOk(linked, t, f, p), t.current # 0, t.next \in linked \cup {0}, f.el = 0,
         NEW L \in {linked, linked \ {t.current}}
  PROVE  /\ Pointing(t.next) \in Pointers /\ Arrived(p, t.next) \in Histories
         /\ IteratorOk(L, Pointing(t.next), f, Arrived(p, t.next))
         /\ Arrived(p, t.next).hit = p.hit
<1> DEFINE n == t.next
           u == Pointing(n)
           q == Arrived(p, n)
           seen == IF n = 0 THEN p.seen ELSE Append(p.seen, n)
<1>1. n \in Nat /\ t.current \in Nat BY DEF Pointers
<1>2. /\ u \in Pointers /\ u.current = n /\ u.next \in linked \cup {0}
      /\ (n = 0 => u.next = 0) /\ (u.next # 0 => n < u.next)
      /\ (n # 0 => Ahead(u, linked) = {e \in linked : e > n})
  BY PointingIs
<1>3. p.seen \in Seq(Nat) BY DEF Histories
<1>4. /\ n # 0 => /\ seen \in Seq(Nat) /\ Range(seen) = Range(p.seen) \cup {n}
                  /\ DOMAIN seen = 1..Len(p.seen) + 1 /\ DOMAIN p.seen = 1..Len(p.seen) /\ Len(p.seen) \in Nat
                  /\ \A m \in DOMAIN p.seen : seen[m] = p.seen[m]
                  /\ seen[Len(p.seen) + 1] = n
      /\ n = 0 => seen = p.seen
  BY <1>1, <1>3, RangeAppend
<1>5. q = [p EXCEPT !.seen = seen] BY DEF Arrived
<1> HIDE DEF seen, q, u
<1>6. seen \in Seq(Nat) BY <1>3, <1>4
<1>7. /\ q \in Histories /\ q.seen = seen /\ q.loop = p.loop /\ q.due = p.due /\ q.hit = p.hit
  BY <1>5, <1>6 DEF Histories
<1>8. ASSUME ~p.hit
      PROVE  /\ n # 0 => t.current < n
             /\ u.current \in L \cup {0} /\ u.next \in L \cup {0}
             /\ Ahead(u, L) = IF n = 0 THEN {} ELSE {e \in linked : e > n}
  <2>1. n # 0 => t.current < n BY <1>8 DEF IteratorOk, PointsOk
  <2>2. CASE n = 0 BY <1>2, <2>1, <2>2 DEF Ahead
  <2>3. CASE n # 0
    <3>1. u.current \in L \cup {0} BY <1>1, <1>2, <2>1, <2>3
    <3>2. u.next \in L \cup {0} BY <1>1, <1>2, <2>1, <2>3
    <3>3. Ahead(u, L) = {e \in linked : e > n}
      <4>1. t.current \notin Ahead(u, linked) BY <1>1, <1>2, <2>1, <2>3
      <4>2. Ahead(u, L) = Ahead(u, linked) BY <4>1 DEF Ahead
      <4> QED BY <1>2, <2>3, <4>2
    <3> QED BY <2>1, <2>3, <3>1, <3>2, <3>3
  <2> QED BY <2>2, <2>3
<1>9. PointsOk(L, u, f, q)
  <2> SUFFICES ASSUME ~p.hit
               PROVE  /\ u.current \in L \cup {0} /\ u.next \in L \cup {0} /\ f.el \in L \cup {0}
                      /\ u.next # 0 => u.current # 0 /\ u.current < u.next
                      /\ f.loop => \A e \in L : f.el <= e
    BY <1>7 DEF PointsOk
  <2>1. u.next # 0 => u.current # 0 /\ u.current < u.next BY <1>2
  <2>2. f.loop => \A e \in L : f.el <= e BY DEF IteratorOk, PointsOk
  <2> QED BY <1>8, <2>1, <2>2
<1>10. LoopOk(L, u, q)
  <2> SUFFICES ASSUME p.loop, ~p.hit
               PROVE  /\ Range(seen) \cup Ahead(u, L) = p.due
                      /\ \A k, m \in DOMAIN seen : k < m => seen[k] < seen[m]
                      /\ u.current # 0 => \A m \in DOMAIN seen : seen[m] <= u.current
    BY <1>7 DEF LoopOk
  <2>1. /\ Range(p.seen) \cup Ahead(t, linked) = p.due
        /\ \A k, m \in DOMAIN p.seen : k < m => p.seen[k] < p.seen[m]
        /\ \A m \in DOMAIN p.seen : p.seen[m] <= t.current
    BY DEF IteratorOk, LoopOk
  <2>2. CASE n = 0
    <3>1. Ahead(u, L) = {} /\ Ahead(t, linked) = {} BY <1>8, <2>2 DEF Ahead
    <3> QED BY <1>2, <1>4, <2>1, <2>2, <3>1
  <2>3. CASE n # 0
    <3>1. n \in linked BY <2>3
    <3>2. Ahead(t, linked) = {n} \cup {e \in linked : e > n}
      <4>1. \A e \in linked : e >= n <=> e = n \/ e > n BY <1>1
      <4>2. Ahead(t, linked) = {e \in linked : e >= n} BY <2>3 DEF Ahead
      <4> QED BY <3>1, <4>1, <4>2
    <3>3. Range(seen) \cup Ahead(u, L) = p.due BY <1>4, <1>8, <2>1, <2>3, <3>2
    <3>4. \A m \in DOMAIN p.seen : p.seen[m] \in Nat BY <1>3, <1>4, <2>3
    <3>5. \A m \in DOMAIN p.seen : p.seen[m] < n BY <1>1, <1>8, <2>1, <2>3, <3>4
    <3>6. \A m \in DOMAIN seen : m \in DOMAIN p.seen \/ m = Len(p.seen) + 1 BY <1>4, <2>3
    <3>7. \A k, m \in DOMAIN seen : k < m => seen[k] < seen[m]
      <4> SUFFICES ASSUME NEW k \in DOMAIN seen, NEW m \in DOMAIN seen, k < m PROVE seen[k] < seen[m]
        OBVIOUS
      <4>1. k \in DOMAIN p.seen BY <1>4, <2>3
      <4>2. CASE m \in DOMAIN p.seen BY <1>4, <2>1, <2>3, <4>1, <4>2
      <4>3. CASE m = Len(p.seen) + 1 BY <1>4, <2>3, <3>5, <4>1, <4>3
      <4> QED BY <3>6, <4>2, <4>3
    <3>8. \A m \in DOMAIN seen : seen[m] <= n BY <1>1, <1>4, <2>3, <3>4, <3>5, <3>6
    <3> QED BY <1>2, <3>3, <3>7, <3>8
  <2> QED BY <2>2, <2>3
<1>11. FoundOk(L, u, f, q) BY DEF FoundOk
<1> QED BY <1>2, <1>7, <1>9, <1>10, <1>11 DEF IteratorOk, q, u

\* The element that has been found is taken; a loop begins at the head of the list.
LEMMA TakenOk ==
  ASSUME linked \in SUBSET (Nat \ {0}), NEW t \in Pointers, NEW f \in Findings, NEW p \in Histories,
         IteratorOk(linked, t, f, p), f.el \in linked
  PROVE  LET q == IF f.loop THEN Started(f.el) ELSE NoLoop
         IN q \in Histories /\ IteratorOk(linked, Pointing(f.el), Nothing, q)
<1> DEFINE e == f.el
           u == Pointing(e)
           q == IF f.loop THEN Started(e) ELSE NoLoop
<1>1. /\ e \in Nat /\ e # 0 /\ u.current = e /\ u.next \in linked \cup {0} /\ (u.next # 0 => e < u.next)
      /\ Ahead(u, linked) = {g \in linked : g > e}
  BY PointingIs
<1>2. PointsOk(linked, u, Nothing, q) /\ FoundOk(linked, u, Nothing, q)
  BY <1>1 DEF PointsOk, Nothing, FoundOk
<1>3. CASE ~f.loop
  <2>1. q = NoLoop BY <1>3
  <2> HIDE DEF q
  <2>2. q \in Histories /\ LoopOk(linked, u, q) BY <2>1, EmptySeq DEF NoLoop, Histories, LoopOk
  <2> QED BY <1>2, <2>2 DEF IteratorOk, q
<1>4. CASE f.loop
  <2>1. q = [loop |-> TRUE, seen |-> <<e>>, due |-> linked, hit |-> FALSE]
    BY <1>4 DEF Started
  <2> HIDE DEF q
  <2>2. \A g \in linked : e <= g BY <1>1, <1>4 DEF IteratorOk, PointsOk, FoundOk
  <2>3. linked = {e} \cup {g \in linked : g > e}
    <3>1. \A g \in linked : g = e \/ g > e BY <1>1, <2>2
    <3> QED BY <3>1
  <2>4. <<e>> \in Seq(Nat) /\ DOMAIN <<e>> = {1} /\ <<e>>[1] = e BY <1>1
  <2>5. Range(<<e>>) = {e} BY <2>4 DEF Range
  <2>6. q \in Histories /\ LoopOk(linked, u, q)
    BY <1>1, <2>1, <2>3, <2>4, <2>5 DEF Histories, LoopOk
  <2> QED BY <1>2, <2>6 DEF IteratorOk, q
<1> QED BY <1>3, <1>4

----------------------------------------------------------------------------
(* The invariant holds.                                                    *)

LEMMA Facts ==
  ASSUME HashInv
  PROVE  /\ Len(element) \in Nat /\ DOMAIN element = 1..Len(element)
         /\ element \in [1..Len(element) -> Elements]
         /\ linked \in SUBSET (Nat \ {0}) /\ linked \in SUBSET Nat
         /\ \A e \in linked : e \in 1..Len(element) /\ e < Len(element) + 1
         /\ \A i \in Iterators : finding[i].el < Len(element) + 1
         /\ \A i \in Iterators : /\ it[i] \in Pointers /\ finding[i] \in Findings /\ past[i] \in Histories
                                 /\ IteratorOk(linked, it[i], finding[i], past[i])
<1>1. Len(element) \in Nat /\ DOMAIN element = 1..Len(element) /\ element \in [1..Len(element) -> Elements]
  BY LenProperties DEF HashInv, Typed
<1>2. linked \in SUBSET (1..Len(element)) BY DEF HashInv, Typed
<1>3. \A i \in Iterators : /\ it[i] \in Pointers /\ finding[i] \in Findings /\ past[i] \in Histories
                           /\ IteratorOk(linked, it[i], finding[i], past[i])
  BY DEF HashInv, Typed
<1>4. \A e \in linked : e \in 1..Len(element) /\ e < Len(element) + 1 /\ e \in Nat \ {0} BY <1>1, <1>2
<1>5. \A i \in Iterators : finding[i].el < Len(element) + 1
  BY <1>1, <1>3 DEF HashInv, Typed, Findings
<1> QED BY <1>1, <1>3, <1>4, <1>5

LEMMA FoundIs ==
  ASSUME HashInv, NEW k
  PROVE  /\ Found(k) = 0 => \A e \in linked : element[e].key # k
         /\ Found(k) # 0 => Found(k) \in linked /\ element[Found(k)].key = k
<1> DEFINE S == {e \in linked : element[e].key = k}
<1>1. S \in SUBSET (Nat \ {0}) BY Facts
<1>2. S = {} => Least(S) = 0 BY <1>1, LeastIs
<1>3. S # {} => Least(S) \in S BY <1>1, LeastIs DEF IsLeast
<1>4. Found(k) = Least(S) BY DEF Found
<1>5. S # {} => Least(S) # 0 BY <1>1, <1>3
<1> QED BY <1>2, <1>3, <1>4, <1>5

\* hash_add and hash_value.
LEMMA LinkStep ==
  ASSUME HashInv, fault = {}, NEW k \in Keys, NEW d \in Data, Link(k, d)
  PROVE  /\ HashInv'
         /\ element' = Append(element, [key |-> k, data |-> d])
         /\ \A g : Enumerates(g, linked) => Enumerates(Append(g, Len(element) + 1), linked')
<1> DEFINE new == Len(element) + 1
           e == [key |-> k, data |-> d]
<1>1. /\ Len(element) \in Nat /\ DOMAIN element = 1..Len(element)
      /\ linked \in SUBSET (Nat \ {0}) /\ linked \in SUBSET Nat
      /\ \A f \in linked : f \in 1..Len(element) /\ f < new
      /\ \A i \in Iterators : finding[i].el < new
      /\ \A i \in Iterators : /\ it[i] \in Pointers /\ finding[i] \in Findings /\ past[i] \in Histories
                              /\ IteratorOk(linked, it[i], finding[i], past[i])
  BY Facts
<1>2. new \in Nat \ {0} BY <1>1
<1>3. /\ element' = Append(element, e) /\ linked' = linked \cup {new}
      /\ past' = [i \in Iterators |-> [past[i] EXCEPT !.due = IF it[i].next = 0 THEN @ ELSE @ \cup {new}]]
      /\ it' = it /\ finding' = finding /\ fault' = fault
  BY DEF Link
<1>4. e \in Elements BY DEF Elements
<1>5. /\ element' \in Seq(Elements) /\ Len(element') = new
      /\ element'[new] = e /\ \A i \in 1..Len(element) : element'[i] = element[i]
  BY <1>3, <1>4, AppendProperties DEF HashInv, Typed
<1>6. \A g : Enumerates(g, linked) => Enumerates(Append(g, new), linked')
  BY <1>1, <1>2, <1>3, EnumAppend
<1>7. \A f \in linked' : element'[f].key \in Keys BY <1>1, <1>3, <1>5 DEF HashInv, Typed
<1>8. linked' \in SUBSET (1..Len(element')) BY <1>1, <1>2, <1>3, <1>5
<1>9. ASSUME NEW i \in Iterators
      PROVE  past'[i] \in Histories /\ IteratorOk(linked', it[i], finding[i], past'[i])
  <2> HIDE DEF new
  <2>1. past'[i] = [past[i] EXCEPT !.due = IF it[i].next = 0 THEN @ ELSE @ \cup {new}] BY <1>3
  <2> QED BY <1>1, <1>2, <1>3, <2>1, LinkedOk
<1>10. past' \in [Iterators -> Histories] BY <1>3, <1>9
<1>11. \A i \in Iterators : finding'[i].el <= Len(element')
  BY <1>1, <1>3, <1>5 DEF Findings
<1>12. Typed' BY <1>3, <1>5, <1>6, <1>7, <1>8, <1>10, <1>11 DEF HashInv, Typed
<1> QED BY <1>3, <1>6, <1>9, <1>12 DEF HashInv

\* hash_add of a key that exists.
LEMMA OverwriteStep ==
  ASSUME HashInv, fault = {}, NEW k \in Keys, NEW d \in Data, Found(k) # 0,
         element' = [element EXCEPT ![Found(k)].data = d],
         UNCHANGED <<linked, it, finding, fault, past>>
  PROVE  /\ HashInv'
         /\ element' = [element EXCEPT ![Found(k)] = [key |-> k, data |-> d]]
<1> DEFINE e == [key |-> k, data |-> d]
<1>1. /\ Len(element) \in Nat /\ DOMAIN element = 1..Len(element)
      /\ element \in [1..Len(element) -> Elements]
      /\ \A f \in linked : f \in 1..Len(element)
  BY Facts
<1>2. Found(k) \in linked /\ element[Found(k)].key = k BY FoundIs
<1>3. element[Found(k)] \in Elements BY <1>1, <1>2
<1>4. [element[Found(k)] EXCEPT !.data = d] = e BY <1>2, <1>3 DEF Elements
<1>5. element' = [element EXCEPT ![Found(k)] = [element[Found(k)] EXCEPT !.data = d]]
  BY <1>1, <1>2
<1>6. element' = [element EXCEPT ![Found(k)] = e] BY <1>4, <1>5
<1>7. e \in Elements BY DEF Elements
<1>8. element' \in Seq(Elements) /\ Len(element') = Len(element)
  BY <1>1, <1>2, <1>6, <1>7, ExceptSeq DEF HashInv, Typed
<1>9. \A f \in linked : element'[f].key \in Keys BY <1>1, <1>2, <1>6 DEF HashInv, Typed
<1>10. Typed' BY <1>8, <1>9 DEF HashInv, Typed
<1> QED BY <1>6, <1>10 DEF HashInv
\* The elements of S are freed: by anyone, the iterators as they are said to be.
LEMMA UnlinkStep ==
  ASSUME HashInv, fault = {}, NEW S \in SUBSET linked, Unlink(S), fault' = fault, finding' = finding,
         it' \in [Iterators -> Pointers], past' \in [Iterators -> Histories],
         \A i \in Iterators : IteratorOk(linked \ S, it'[i], finding[i], past'[i]),
         \E g : Enumerates(g, linked \ S)
  PROVE  /\ HashInv'
         /\ \A e \in linked \ S : element'[e] = element[e]
<1>1. /\ Len(element) \in Nat /\ DOMAIN element = 1..Len(element)
      /\ element \in [1..Len(element) -> Elements]
      /\ \A f \in linked : f \in 1..Len(element)
  BY Facts
<1>2. /\ linked' = linked \ S
      /\ element' = [e \in 1..Len(element) |-> IF e \in S THEN Freed ELSE element[e]]
  BY <1>1 DEF Unlink
<1>3. Freed \in Elements BY ContainerAssumption DEF Freed, Elements
<1>4. element' \in [1..Len(element) -> Elements] BY <1>1, <1>2, <1>3
<1>5. element' \in Seq(Elements)
  <2> HIDE DEF Unlink
  <2> QED BY <1>1, <1>4, SeqDef
<1>6. Len(element') = Len(element) BY <1>1, <1>2, <1>5, LenProperties
<1>7. \A e \in linked \ S : element'[e] = element[e] BY <1>1, <1>2
<1>8. \A e \in linked' : element'[e].key \in Keys BY <1>2, <1>7 DEF HashInv, Typed
<1>9. Typed' BY <1>2, <1>5, <1>6, <1>8 DEF HashInv, Typed
<1> QED BY <1>2, <1>7, <1>9 DEF HashInv

LEMMA BereftStep ==
  ASSUME HashInv, NEW S \in SUBSET linked, NEW i \in Iterators
  PROVE  Bereft(i, S) \in Histories /\ IteratorOk(linked \ S, it[i], finding[i], Bereft(i, S))
<1>1. /\ linked \in SUBSET (Nat \ {0})
      /\ it[i] \in Pointers /\ finding[i] \in Findings /\ past[i] \in Histories
      /\ IteratorOk(linked, it[i], finding[i], past[i])
  BY Facts
<1>2. CASE {it[i].current, it[i].next, finding[i].el} \cap S # {}
  <2> DEFINE q == [NoLoop EXCEPT !.hit = TRUE]
  <2>1. Bereft(i, S) = q BY <1>2 DEF Bereft
  <2>2. NoLoop \in Histories BY EmptySeq DEF NoLoop, Histories
  <2>3. q \in Histories /\ q.hit BY <2>2 DEF Histories
  <2> HIDE DEF q
  <2>4. FoundOk(linked \ S, it[i], finding[i], q) BY <1>1, <1>2 DEF IteratorOk, FoundOk
  <2> QED BY <2>1, <2>3, <2>4 DEF IteratorOk, PointsOk, LoopOk
<1>3. CASE {it[i].current, it[i].next, finding[i].el} \cap S = {}
  <2>1. Bereft(i, S) = [past[i] EXCEPT !.due = @ \ (S \ Range(past[i].seen))] BY <1>3 DEF Bereft
  <2> DEFINE q == [past[i] EXCEPT !.due = @ \ (S \ Range(past[i].seen))]
  <2>2. q \in Histories /\ IteratorOk(linked \ S, it[i], finding[i], q)
    BY <1>1, <1>3, BereftOk, Zenon
  <2> QED BY <2>1, <2>2
<1> QED BY <1>2, <1>3

LEMMA FreeStep ==
  ASSUME HashInv, fault = {}, NEW S \in SUBSET linked, Free(S), \E g : Enumerates(g, linked \ S)
  PROVE  HashInv' /\ \A e \in linked \ S : element'[e] = element[e]
<1>1. /\ Unlink(S) /\ fault' = fault /\ it' = it /\ finding' = finding
      /\ past' = [i \in Iterators |-> Bereft(i, S)]
  BY DEF Free
<1>2. \A i \in Iterators : past'[i] \in Histories /\ IteratorOk(linked \ S, it'[i], finding[i], past'[i])
  BY <1>1, BereftStep
<1>3. past' \in [Iterators -> Histories] BY <1>1, <1>2
<1>4. it' \in [Iterators -> Pointers] BY <1>1 DEF HashInv, Typed
<1> QED BY <1>1, <1>2, <1>3, <1>4, UnlinkStep

\* hash_delete.
LEMMA DeleteStep ==
  ASSUME HashInv, fault = {}, NEW k \in Keys, Delete(k)
  PROVE  /\ HashInv' /\ Found(k) \in linked /\ linked' = linked \ {Found(k)}
         /\ \A e \in linked' : element'[e] = element[e]
<1>1. Found(k) \in linked BY FoundIs DEF Delete
<1>2. linked \in SUBSET Nat BY Facts
<1>3. PICK g : Enumerates(g, linked) BY DEF HashInv, Typed
<1>4. PICK n \in DOMAIN g : g[n] = Found(k) BY <1>1, <1>3 DEF Enumerates
<1>5. Enumerates(RemoveAt(g, n), linked \ {g[n]}) BY <1>2, <1>3, EnumRemove
<1>6. Free({Found(k)}) BY DEF Delete
<1>7. linked' = linked \ {Found(k)} BY <1>6 DEF Free, Unlink
<1>8. HashInv' /\ \A e \in linked \ {Found(k)} : element'[e] = element[e]
  <2> HIDE DEF Found
  <2>1. {Found(k)} \in SUBSET linked BY <1>1
  <2> QED BY <1>4, <1>5, <1>6, <2>1, FreeStep
<1> QED BY <1>1, <1>7, <1>8

\* hash_clear.
LEMMA ClearStep ==
  ASSUME HashInv, fault = {}, Clear
  PROVE  HashInv' /\ linked' = {}
<1>1. Free(linked) BY DEF Clear
<1>2. linked \ linked = {} OBVIOUS
<1>3. linked' = {} BY <1>1, <1>2 DEF Free, Unlink
<1>4. \E g : Enumerates(g, linked \ linked) BY <1>2, EnumEmpty
<1> QED BY <1>1, <1>3, <1>4, FreeStep

\* Iterators that point at nothing.
LEMMA Idle ==
  /\ Pointing(0) \in Pointers /\ Nothing \in Findings /\ NoLoop \in Histories
  /\ \A L : IteratorOk(L, Pointing(0), Nothing, NoLoop)
<1>1. Pointing(0) = [current |-> 0, next |-> 0] BY DEF Pointing, After
<1>2. NoLoop \in Histories BY EmptySeq DEF NoLoop, Histories
<1> QED BY <1>1, <1>2 DEF Pointers, Nothing, Findings, NoLoop, IteratorOk, PointsOk, LoopOk, FoundOk

\* An iterator fails only where it has been hit.
LEMMA FailsStep ==
  ASSUME HashInv, NEW i \in Iterators, past[i].hit, Fails(i)
  PROVE  HashInv'
BY DEF HashInv, Typed, Fails, IteratorOk, PointsOk, LoopOk, FoundOk, Ahead, Enumerates

\* One iterator changes and nothing else.
LEMMA OneMoves ==
  ASSUME HashInv, fault = {}, NEW i \in Iterators,
         NEW t \in Pointers, NEW f \in Findings, NEW p \in Histories, IteratorOk(linked, t, f, p),
         f.el <= Len(element), Moves(i, t, p), finding' = [finding EXCEPT ![i] = f], UNCHANGED <<element, linked, fault>>
  PROVE  HashInv'
<1>1. /\ it' = [it EXCEPT ![i] = t] /\ past' = [past EXCEPT ![i] = p]
      /\ element' = element /\ linked' = linked /\ fault' = fault
  BY DEF Moves
<1>2. /\ it \in [Iterators -> Pointers] /\ finding \in [Iterators -> Findings]
      /\ past \in [Iterators -> Histories]
  BY DEF HashInv, Typed
<1>3. /\ it' \in [Iterators -> Pointers] /\ finding' \in [Iterators -> Findings]
      /\ past' \in [Iterators -> Histories]
  BY <1>1, <1>2
<1>4. ASSUME NEW j \in Iterators PROVE IteratorOk(linked, it'[j], finding'[j], past'[j])
  <2>1. CASE j = i BY <1>1, <1>2, <2>1
  <2>2. CASE j # i
    <3>1. it'[j] = it[j] /\ finding'[j] = finding[j] /\ past'[j] = past[j] BY <1>1, <1>2, <2>2
    <3> QED BY <3>1, Facts
  <2> QED BY <2>1, <2>2
<1>5. \A j \in Iterators : finding'[j].el <= Len(element') BY <1>1, <1>2 DEF HashInv, Typed
<1>6. Typed' BY <1>1, <1>3, <1>5 DEF HashInv, Typed, Enumerates
<1> QED BY <1>1, <1>4, <1>6 DEF HashInv

\* hash_find and hash_begin: what they find.
LEMMA LookStep ==
  ASSUME HashInv, fault = {}, NEW i \in Iterators, NEW e \in linked \cup {0}, NEW loop \in BOOLEAN,
         loop => \A f \in linked : e <= f, Look(i, e, loop)
  PROVE  HashInv'
<1> DEFINE f == [el |-> e, loop |-> loop /\ e # 0]
<1>1. e \in Nat /\ linked \in SUBSET (Nat \ {0}) BY Facts
<1>2. f \in Findings /\ f.el = e /\ (f.loop => loop) BY <1>1 DEF Findings
<1>3. Pointing(0).current = 0 /\ Pointing(0).next = 0 BY DEF Pointing, After
<1>4. IteratorOk(linked, Pointing(0), f, NoLoop)
  <2> HIDE DEF f
  <2>1. \A L : LoopOk(L, Pointing(0), NoLoop) BY DEF LoopOk, NoLoop
  <2>2. ~NoLoop.hit BY DEF NoLoop
  <2> QED BY <1>2, <1>3, <2>1, <2>2 DEF IteratorOk, PointsOk, FoundOk
<1>5. /\ Moves(i, Pointing(0), NoLoop) /\ finding' = [finding EXCEPT ![i] = f]
      /\ UNCHANGED <<element, linked, fault>>
  BY DEF Look
<1>6. f.el <= Len(element) BY <1>2, Facts
<1> QED BY <1>2, <1>4, <1>5, <1>6, Idle, OneMoves, Zenon

\* The second half of hash_find and hash_begin.
LEMMA TakeStep ==
  ASSUME HashInv, fault = {}, NEW i \in Iterators, Take(i)
  PROVE  HashInv'
<1> DEFINE e == finding[i].el
           q == IF finding[i].loop THEN Started(e) ELSE NoLoop
<1>1. /\ linked \in SUBSET (Nat \ {0})
      /\ it[i] \in Pointers /\ finding[i] \in Findings /\ past[i] \in Histories
      /\ IteratorOk(linked, it[i], finding[i], past[i])
  BY Facts
<1>2. CASE e \notin linked
  <2>1. past[i].hit BY <1>1, <1>2 DEF Take, IteratorOk, PointsOk
  <2>2. Fails(i) BY <1>2 DEF Take
  <2> QED BY <2>1, <2>2, FailsStep
<1>3. CASE e \in linked
  <2>1. /\ Moves(i, Pointing(e), q) /\ finding' = [finding EXCEPT ![i] = Nothing]
        /\ UNCHANGED <<element, linked, fault>>
    BY <1>3 DEF Take
  <2>2. Pointing(e) \in Pointers BY <1>1, <1>3, PointingIs
  <2>3. q \in Histories /\ IteratorOk(linked, Pointing(e), Nothing, q) BY <1>1, <1>3, TakenOk
  <2>4. Nothing.el <= Len(element) BY Facts DEF Nothing
  <2> QED BY <2>1, <2>2, <2>3, <2>4, Idle, OneMoves, Zenon
<1> QED BY <1>2, <1>3

\* hash_it_inc.
LEMMA ItIncStep ==
  ASSUME HashInv, fault = {}, NEW i \in Iterators, ItInc(i)
  PROVE  HashInv'
<1> DEFINE n == it[i].next
<1>1. /\ linked \in SUBSET (Nat \ {0})
      /\ it[i] \in Pointers /\ finding[i] \in Findings /\ past[i] \in Histories
      /\ IteratorOk(linked, it[i], finding[i], past[i])
  BY Facts
<1>2. finding[i].el = 0 /\ it[i].current # 0 BY DEF ItInc
<1>3. CASE n \notin linked \cup {0}
  <2>1. past[i].hit BY <1>1, <1>3 DEF IteratorOk, PointsOk
  <2>2. Fails(i) BY <1>3 DEF ItInc
  <2> QED BY <2>1, <2>2, FailsStep
<1>4. CASE n \in linked \cup {0}
  <2>1. /\ Moves(i, Pointing(n), Arrived(past[i], n)) /\ finding' = finding
        /\ UNCHANGED <<element, linked, fault>>
    BY <1>4 DEF ItInc
  <2>2. finding' = [finding EXCEPT ![i] = finding[i]] BY <2>1 DEF HashInv, Typed
  <2>3. /\ Pointing(n) \in Pointers /\ Arrived(past[i], n) \in Histories
        /\ IteratorOk(linked, Pointing(n), finding[i], Arrived(past[i], n))
    BY <1>1, <1>2, <1>4, AdvancedOk
  <2>4. finding[i].el <= Len(element) BY DEF HashInv, Typed
  <2> QED BY <1>1, <2>1, <2>2, <2>3, <2>4, OneMoves, Zenon
<1> QED BY <1>3, <1>4

\* hash_it_delete_value and hash_it_remove_ref.
LEMMA ItDeleteStep ==
  ASSUME HashInv, fault = {}, NEW i \in Iterators, ItDelete(i)
  PROVE  /\ HashInv'
         /\ \/ UNCHANGED <<element, linked>>
            \/ /\ it[i].current \in linked /\ linked' = linked \ {it[i].current}
               /\ \A e \in linked' : element'[e] = element[e]
<1> DEFINE c == it[i].current
           n == it[i].next
<1>1. /\ linked \in SUBSET (Nat \ {0}) /\ linked \in SUBSET Nat
      /\ it[i] \in Pointers /\ finding[i] \in Findings /\ past[i] \in Histories
      /\ IteratorOk(linked, it[i], finding[i], past[i])
  BY Facts
<1>2. finding[i].el = 0 /\ c # 0 BY DEF ItDelete, Unlinked
<1>3. CASE c \notin linked \/ n \notin linked \cup {0}
  <2>1. past[i].hit BY <1>1, <1>2, <1>3 DEF IteratorOk, PointsOk
  <2>2. Fails(i) BY <1>3 DEF ItDelete, Unlinked
  <2>3. UNCHANGED <<element, linked>> BY <2>2 DEF Fails
  <2> QED BY <2>1, <2>2, <2>3, FailsStep
<1>4. CASE c \in linked /\ n \in linked \cup {0}
  <2> DEFINE q == Arrived(past[i], n)
             S == {c}
  <2>1. /\ Unlink(S) /\ it' = [it EXCEPT ![i] = Pointing(n)]
        /\ past' = [j \in Iterators |-> IF j # i THEN Bereft(j, S) ELSE q]
        /\ finding' = finding /\ fault' = fault
    BY <1>4 DEF ItDelete, Unlinked
  <2>2. S \in SUBSET linked BY <1>4
  <2>3. /\ Pointing(n) \in Pointers /\ q \in Histories
        /\ IteratorOk(linked \ S, Pointing(n), finding[i], q)
    BY <1>1, <1>2, <1>4, AdvancedOk
  <2> HIDE DEF q
  <2>4. ASSUME NEW j \in Iterators
        PROVE  past'[j] \in Histories /\ IteratorOk(linked \ S, it'[j], finding[j], past'[j])
    <3>1. CASE j = i BY <2>1, <2>3, <3>1 DEF HashInv, Typed
    <3>2. CASE j # i
      <4>1. it'[j] = it[j] /\ past'[j] = Bereft(j, S) BY <2>1, <3>2 DEF HashInv, Typed
      <4> QED BY <2>2, <4>1, BereftStep
    <3> QED BY <3>1, <3>2
  <2>5. past' \in [Iterators -> Histories] BY <2>1, <2>4
  <2>6. it' \in [Iterators -> Pointers] BY <2>1, <2>3 DEF HashInv, Typed
  <2>7. \E g : Enumerates(g, linked \ S)
    <3>1. PICK g : Enumerates(g, linked) BY DEF HashInv, Typed
    <3>2. PICK m \in DOMAIN g : g[m] = c BY <1>4, <3>1 DEF Enumerates
    <3>3. Enumerates(RemoveAt(g, m), linked \ {g[m]}) BY <1>1, <3>1, EnumRemove
    <3> QED BY <3>2, <3>3
  <2> HIDE DEF S
  <2>8. HashInv' /\ \A e \in linked \ S : element'[e] = element[e]
    BY <2>1, <2>2, <2>4, <2>5, <2>6, <2>7, UnlinkStep
  <2>9. linked' = linked \ S BY <2>1 DEF Unlink
  <2> QED BY <1>4, <2>8, <2>9 DEF S
<1> QED BY <1>3, <1>4

\* A key that is to be added is not in the list.
MissInv ==
  /\ adding \in Keys \cup {NoKey}
  /\ adding # NoKey => \A e \in linked : element[e].key # adding

LEMMA HashInvInit == HashInit => HashInv
<1> SUFFICES ASSUME HashInit PROVE HashInv OBVIOUS
<1>1. element = <<>> /\ linked = {} /\ fault = {} BY DEF HashInit
<1>2. /\ it \in [Iterators -> Pointers] /\ finding \in [Iterators -> Findings]
      /\ past \in [Iterators -> Histories]
      /\ \A i \in Iterators : IteratorOk(linked, it[i], finding[i], past[i])
  BY Idle DEF HashInit
<1>3. Enumerates(<<>>, linked) BY <1>1, EnumEmpty
<1>4. element \in Seq(Elements) BY <1>1, EmptySeq
<1>5. \A i \in Iterators : finding[i].el <= Len(element)
  BY <1>1, EmptySeq DEF HashInit, Nothing
<1>6. Typed BY <1>1, <1>2, <1>3, <1>4, <1>5 DEF Typed
<1> QED BY <1>1, <1>2, <1>6 DEF HashInv

LEMMA HashInvStep == HashInv /\ MissInv /\ [HashNext]_hashVars => HashInv'
<1> SUFFICES ASSUME HashInv, MissInv, [HashNext]_hashVars PROVE HashInv' OBVIOUS
<1>1. CASE UNCHANGED hashVars BY <1>1 DEF hashVars, HashInv, Typed, Enumerates, IteratorOk, PointsOk, LoopOk, FoundOk, Ahead
<1>2. CASE HashNext
  <2>1. fault = {} BY <1>2 DEF HashNext
  <2>2. ASSUME NEW k \in Keys, Miss(k) PROVE HashInv'
    BY <2>2 DEF Miss, HashInv, Typed, Enumerates, IteratorOk, PointsOk, LoopOk, FoundOk, Ahead
  <2>3. ASSUME NEW k \in Keys, Delete(k) PROVE HashInv' BY <2>1, <2>3, DeleteStep
  <2>4. ASSUME NEW k \in Keys, NEW d \in Data, Add(k, d) PROVE HashInv'
    BY <2>1, <2>4, LinkStep DEF Add
  <2>5. ASSUME NEW k \in Keys, NEW d \in Data, Overwrite(k, d) PROVE HashInv'
    BY <2>1, <2>5, LinkStep, OverwriteStep DEF Overwrite
  <2>6. CASE Clear BY <2>1, <2>6, ClearStep
  <2>7. ASSUME NEW d \in Data, AddMissed(d) PROVE HashInv'
    BY <2>1, <2>7, LinkStep DEF AddMissed, MissInv
  <2>8. ASSUME NEW i \in Iterators, Begin(i) PROVE HashInv'
    <3>1. linked \in SUBSET (Nat \ {0}) BY Facts
    <3>2. /\ Least(linked) \in linked \cup {0}
          /\ \A f \in linked : Least(linked) <= f
      BY <3>1, LeastIs DEF IsLeast
    <3> QED BY <2>1, <2>8, <3>2, LookStep DEF Begin
  <2>9. ASSUME NEW i \in Iterators, Take(i) PROVE HashInv' BY <2>1, <2>9, TakeStep
  <2>10. ASSUME NEW i \in Iterators, Deref(i) PROVE HashInv'
    <3>1. past[i].hit BY <2>10, Facts DEF Deref, IteratorOk, PointsOk
    <3> QED BY <2>10, <3>1, FailsStep DEF Deref
  <2>11. ASSUME NEW i \in Iterators, ItInc(i) PROVE HashInv' BY <2>1, <2>11, ItIncStep
  <2>12. ASSUME NEW i \in Iterators, ItDelete(i) PROVE HashInv' BY <2>1, <2>12, ItDeleteStep
  <2>13. ASSUME NEW i \in Iterators, NEW k \in Keys, Find(i, k) PROVE HashInv'
    <3>1. Found(k) \in linked \cup {0} BY FoundIs
    <3> QED BY <2>1, <2>13, <3>1, LookStep DEF Find
  <2> QED BY <1>2, <2>2, <2>3, <2>4, <2>5, <2>6, <2>7, <2>8, <2>9, <2>10, <2>11, <2>12, <2>13 DEF HashNext
<1> QED BY <1>1, <1>2

\* The key looked up in vain is still missing: nobody else adds.
LEMMA MissInvStep == HashInv /\ MissInv /\ [HashNext]_hashVars => MissInv'
<1> SUFFICES ASSUME HashInv, MissInv, [HashNext]_hashVars PROVE MissInv' OBVIOUS
<1>1. ASSUME adding' = NoKey PROVE MissInv' BY <1>1 DEF MissInv
<1>2. ASSUME adding' = adding, linked' \subseteq linked, \A e \in linked' : element'[e] = element[e]
      PROVE  MissInv'
  BY <1>2 DEF MissInv
<1>3. CASE UNCHANGED hashVars BY <1>2, <1>3 DEF hashVars
<1>4. CASE HashNext
  <2>1. fault = {} BY <1>4 DEF HashNext
  <2>2. ASSUME NEW k \in Keys, Miss(k) PROVE MissInv'
    <3>1. adding' = k /\ element' = element /\ linked' = linked /\ Found(k) = 0 BY <2>2 DEF Miss
    <3> QED BY <3>1, FoundIs DEF MissInv
  <2>3. ASSUME NEW k \in Keys, Delete(k) PROVE MissInv'
    BY <1>2, <2>1, <2>3, DeleteStep DEF Delete, Free
  <2>4. ASSUME NEW k \in Keys, NEW d \in Data, Add(k, d) \/ Overwrite(k, d) PROVE MissInv'
    BY <1>1, <2>4 DEF Add, Overwrite
  <2>5. ASSUME NEW d \in Data, AddMissed(d) PROVE MissInv' BY <1>1, <2>5 DEF AddMissed
  <2>6. CASE Clear BY <1>2, <2>1, <2>6, ClearStep DEF Clear, Free
  <2>7. ASSUME NEW i \in Iterators, Begin(i) \/ Take(i) \/ Deref(i) \/ ItInc(i) \/ \E k \in Keys : Find(i, k)
        PROVE  UNCHANGED <<element, linked, adding>>
    BY <2>7 DEF Begin, Take, Deref, ItInc, Find, Look, Fails
  <2>8. ASSUME NEW i \in Iterators, ItDelete(i) PROVE MissInv'
    <3>1. adding' = adding BY <2>8 DEF ItDelete, Unlinked, Fails
    <3> QED BY <1>2, <2>1, <2>8, <3>1, ItDeleteStep
  <2> QED BY <1>2, <1>4, <2>2, <2>3, <2>4, <2>5, <2>6, <2>7, <2>8 DEF HashNext
<1> QED BY <1>3, <1>4

\* The list and its iterators are well formed in every state.
THEOREM HashInvariant == HashSpec => [](HashInv /\ MissInv)
<1>1. HashInit => MissInv BY DEF HashInit, MissInv
<1> QED BY <1>1, HashInvInit, HashInvStep, MissInvStep, PTL DEF HashSpec

LEMMA IterationHolds == HashInv => IterationExact
<1> SUFFICES ASSUME HashInv, NEW i \in Iterators, past[i].loop, ~past[i].hit
             PROVE  LET ahead == IF it[i].next = 0 THEN {} ELSE {e \in linked : e >= it[i].next} IN
                    /\ Range(past[i].seen) \cup ahead = past[i].due
                    /\ \A m, n \in DOMAIN past[i].seen : m < n => past[i].seen[m] < past[i].seen[n]
  BY DEF HashInv, IterationExact
<1> QED BY DEF HashInv, IteratorOk, LoopOk, Ahead

\* For every number of elements and threads: an iterator fails only where another thread has
\* freed what it stands on or was going to (hash_it_inc reads its cached neighbour, and
\* hash_it_delete_value moves on before it frees), and a loop that nobody has hit sees each
\* element that was due, once, in the order of the list.
THEOREM IterationIsExact == HashSpec => []IterationExact
BY HashInvariant, IterationHolds, PTL

----------------------------------------------------------------------------
(* The container is an ordered map.                                        *)

ListingOf(L, elements) == [n \in DOMAIN Order(L) |-> elements[Order(L)[n]]]
Listing == ListingOf(linked, element)

MapEntries == [key : Keys, data : Data]

LEMMA ListingIs ==
  ASSUME NEW L \in SUBSET Nat, NEW g, Enumerates(g, L), NEW elements,
         \A e \in L : elements[e] \in MapEntries
  PROVE  /\ ListingOf(L, elements) \in Seq(MapEntries)
         /\ Len(ListingOf(L, elements)) = Len(g) /\ DOMAIN ListingOf(L, elements) = 1..Len(g)
         /\ ListingOf(L, elements) = [n \in 1..Len(g) |-> elements[g[n]]]
<1> DEFINE s == ListingOf(L, elements)
<1>1. Order(L) = g BY OrderIs
<1>2. Len(g) \in Nat /\ DOMAIN g = 1..Len(g) /\ \A n \in 1..Len(g) : g[n] \in L BY EnumBasics
<1>3. s = [n \in 1..Len(g) |-> elements[g[n]]] BY <1>1, <1>2 DEF ListingOf
<1> HIDE DEF s
<1>4. s \in [1..Len(g) -> MapEntries] BY <1>2, <1>3
<1>5. s \in Seq(MapEntries) BY <1>2, <1>4, SeqDef
<1>6. DOMAIN s = 1..Len(s) /\ DOMAIN s = 1..Len(g) /\ Len(s) \in Nat BY <1>3, <1>5, LenProperties
<1>7. Len(s) = Len(g)
  <2>1. ASSUME NEW m \in Nat, NEW n \in Nat, 1..m = 1..n PROVE m = n
    <3>1. (m # 0 => m \in 1..m) /\ (n # 0 => n \in 1..n) OBVIOUS
    <3> QED BY <2>1, <3>1
  <2>2. 1..Len(s) = 1..Len(g) BY <1>6
  <2> QED BY <1>2, <1>6, <2>1, <2>2, Zenon
<1> QED BY <1>3, <1>5, <1>6, <1>7 DEF s

LEMMA Entries ==
  ASSUME HashInv
  PROVE  \A e \in linked : element[e] \in MapEntries
<1>1. /\ element \in [1..Len(element) -> Elements] /\ \A e \in linked : e \in 1..Len(element)
  BY Facts
<1>2. \A e \in linked : element[e].key \in Keys BY DEF HashInv, Typed
<1> QED BY <1>1, <1>2 DEF Elements, MapEntries

LEMMA ListingNow ==
  ASSUME HashInv, NEW g, Enumerates(g, linked)
  PROVE  /\ Listing \in Seq(MapEntries) /\ Len(Listing) = Len(g) /\ DOMAIN Listing = 1..Len(g)
         /\ Listing = [n \in 1..Len(g) |-> element[g[n]]]
<1>1. linked \in SUBSET Nat /\ \A e \in linked : element[e] \in MapEntries BY Facts, Entries
<1> QED BY <1>1, ListingIs DEF Listing

LEMMA ListingNext ==
  ASSUME linked' \in SUBSET Nat, \A e \in linked' : element'[e] \in MapEntries,
         NEW g, Enumerates(g, linked')
  PROVE  /\ Listing' \in Seq(MapEntries) /\ Len(Listing') = Len(g) /\ DOMAIN Listing' = 1..Len(g)
         /\ Listing' = [n \in 1..Len(g) |-> element'[g[n]]]
<1> QED BY ListingIs DEF Listing

LEMMA EntriesNext ==
  ASSUME HashInv'
  PROVE  linked' \in SUBSET Nat /\ \A e \in linked' : element'[e] \in MapEntries
<1>1. element' \in Seq(Elements) /\ linked' \in SUBSET (1..Len(element')) BY DEF HashInv, Typed
<1>2. Len(element') \in Nat /\ element' \in [1..Len(element') -> Elements] BY <1>1, LenProperties
<1>3. \A e \in linked' : element'[e].key \in Keys BY DEF HashInv, Typed
<1> QED BY <1>1, <1>2, <1>3 DEF Elements, MapEntries

LEMMA LinkMaps ==
  ASSUME HashInv, fault = {}, NEW k \in Keys, NEW d \in Data, Found(k) = 0, Link(k, d)
  PROVE  /\ \A i \in DOMAIN Listing : Listing[i].key # k
         /\ Listing' = Append(Listing, [key |-> k, data |-> d])
<1> DEFINE N == Len(element)
           e == [key |-> k, data |-> d]
<1>1. PICK g : Enumerates(g, linked) BY DEF HashInv, Typed
<1> DEFINE h == Append(g, N + 1)
<1>2. /\ N \in Nat /\ linked \in SUBSET Nat /\ \A f \in linked : f \in 1..N
      /\ element \in Seq(Elements)
  BY Facts DEF HashInv, Typed
<1>3. Len(g) \in Nat /\ \A n \in 1..Len(g) : g[n] \in linked BY <1>1, <1>2, EnumBasics
<1>4. /\ Listing \in Seq(MapEntries) /\ Len(Listing) = Len(g) /\ DOMAIN Listing = 1..Len(g)
      /\ Listing = [n \in 1..Len(g) |-> element[g[n]]]
  BY <1>1, ListingNow
<1>5. HashInv' /\ element' = Append(element, e) /\ Enumerates(h, linked') BY <1>1, LinkStep
<1>6. e \in Elements /\ e \in MapEntries BY DEF Elements, MapEntries
<1>7. element'[N + 1] = e /\ \A n \in 1..N : element'[n] = element[n]
  BY <1>2, <1>5, <1>6, AppendProperties
<1>8. /\ Len(h) = Len(g) + 1 /\ h[Len(g) + 1] = N + 1
      /\ \A n \in 1..Len(g) : h[n] = g[n]
  <2>1. g \in Seq(Nat) BY <1>1, <1>2, SeqMonotonic DEF Enumerates
  <2> QED BY <1>2, <2>1, AppendProperties
<1>9. /\ Listing' \in Seq(MapEntries) /\ Len(Listing') = Len(h)
      /\ Listing' = [n \in 1..Len(h) |-> element'[h[n]]]
  BY <1>5, EntriesNext, ListingNext
<1> HIDE DEF e, h, N
<1>10. /\ Append(Listing, e) \in Seq(MapEntries) /\ Len(Append(Listing, e)) = Len(g) + 1
       /\ Append(Listing, e)[Len(g) + 1] = e
       /\ \A n \in 1..Len(g) : Append(Listing, e)[n] = Listing[n]
  BY <1>4, <1>6, AppendProperties
<1>11. ASSUME NEW n \in 1..Len(h) PROVE Listing'[n] = Append(Listing, e)[n]
  <2>1. CASE n = Len(g) + 1 BY <1>7, <1>8, <1>9, <1>10, <2>1
  <2>2. CASE n # Len(g) + 1
    <3>1. n \in 1..Len(g) BY <1>3, <1>8, <2>2
    <3>2. Listing'[n] = element'[g[n]] BY <1>8, <1>9, <3>1
    <3>3. element'[g[n]] = element[g[n]] BY <1>2, <1>3, <1>7, <3>1
    <3> QED BY <1>4, <1>10, <3>1, <3>2, <3>3
  <2> QED BY <2>1, <2>2
<1>12. Listing' = Append(Listing, e) BY <1>8, <1>9, <1>10, <1>11, SeqEqual
<1>13. \A i \in DOMAIN Listing : Listing[i].key # k BY <1>3, <1>4, FoundIs
<1> QED BY <1>12, <1>13 DEF e

LEMMA OverwriteMaps ==
  ASSUME HashInv, NEW k \in Keys, NEW d \in Data, Found(k) # 0, linked' = linked, HashInv',
         element' = [element EXCEPT ![Found(k)] = [key |-> k, data |-> d]]
  PROVE  \E i \in DOMAIN Listing :
           Listing[i].key = k /\ Listing' = [Listing EXCEPT ![i] = [key |-> k, data |-> d]]
<1> DEFINE e == [key |-> k, data |-> d]
           c == Found(k)
<1>1. PICK g : Enumerates(g, linked) BY DEF HashInv, Typed
<1>2. /\ linked \in SUBSET Nat /\ DOMAIN element = 1..Len(element)
      /\ \A f \in linked : f \in 1..Len(element)
  BY Facts
<1>3. /\ Len(g) \in Nat /\ \A n \in 1..Len(g) : g[n] \in linked
      /\ \A m, n \in 1..Len(g) : g[m] = g[n] => m = n
      /\ \A f \in linked : \E n \in 1..Len(g) : g[n] = f
  BY <1>1, <1>2, EnumBasics
<1>4. /\ DOMAIN Listing = 1..Len(g) /\ Listing = [n \in 1..Len(g) |-> element[g[n]]]
  BY <1>1, ListingNow
<1>5. Listing' = [n \in 1..Len(g) |-> element'[g[n]]]
  BY <1>1, EntriesNext, ListingNext
<1>6. c \in linked /\ element[c].key = k BY FoundIs
<1>7. PICK i \in 1..Len(g) : g[i] = c BY <1>3, <1>6
<1> HIDE DEF e, c
<1>8. element' = [element EXCEPT ![c] = e] BY DEF c, e
<1>9. ASSUME NEW n \in 1..Len(g) PROVE element'[g[n]] = IF n = i THEN e ELSE Listing[n]
  <2>1. n = i <=> g[n] = c BY <1>3, <1>7
  <2> QED BY <1>2, <1>3, <1>4, <1>8, <2>1
<1>10. Listing' = [Listing EXCEPT ![i] = e] BY <1>4, <1>5, <1>9
<1>11. Listing[i].key = k BY <1>4, <1>6, <1>7
<1> QED BY <1>4, <1>10, <1>11 DEF e

LEMMA DropMaps ==
  ASSUME HashInv, HashInv', NEW c \in linked, linked' = linked \ {c},
         \A e \in linked' : element'[e] = element[e]
  PROVE  \E i \in DOMAIN Listing : Listing' = RemoveAt(Listing, i)
<1>1. PICK g : Enumerates(g, linked) BY DEF HashInv, Typed
<1>2. linked \in SUBSET Nat BY Facts
<1>3. /\ Len(g) \in Nat /\ DOMAIN g = 1..Len(g) /\ \A n \in 1..Len(g) : g[n] \in linked
      /\ \A f \in linked : \E n \in 1..Len(g) : g[n] = f
  BY <1>1, <1>2, EnumBasics
<1>4. PICK i \in 1..Len(g) : g[i] = c BY <1>3
<1> DEFINE h == RemoveAt(g, i)
<1>5. Enumerates(h, linked') BY <1>1, <1>2, <1>3, <1>4, EnumRemove
<1>6. Len(h) = Len(g) - 1 /\ \A n \in 1..Len(g) - 1 : h[n] = IF n < i THEN g[n] ELSE g[n + 1]
  BY <1>1, RemoveAtIs DEF Enumerates
<1>7. /\ Listing \in Seq(MapEntries) /\ Len(Listing) = Len(g) /\ DOMAIN Listing = 1..Len(g)
      /\ Listing = [n \in 1..Len(g) |-> element[g[n]]]
  BY <1>1, ListingNow
<1>8. /\ Listing' \in Seq(MapEntries) /\ Len(Listing') = Len(h)
      /\ Listing' = [n \in 1..Len(h) |-> element'[h[n]]]
  BY <1>5, EntriesNext, ListingNext
<1>9. /\ RemoveAt(Listing, i) \in Seq(MapEntries) /\ Len(RemoveAt(Listing, i)) = Len(g) - 1
      /\ \A n \in 1..Len(g) - 1 :
           RemoveAt(Listing, i)[n] = IF n < i THEN Listing[n] ELSE Listing[n + 1]
  <2>1. i \in 1..Len(Listing) BY <1>7
  <2>2. /\ RemoveAt(Listing, i) \in Seq(MapEntries) /\ Len(RemoveAt(Listing, i)) = Len(Listing) - 1
        /\ \A n \in 1..Len(Listing) - 1 :
             RemoveAt(Listing, i)[n] = IF n < i THEN Listing[n] ELSE Listing[n + 1]
    BY <1>7, <2>1, RemoveAtIs, Zenon
  <2> QED BY <1>7, <2>2
<1>10. \A n \in 1..Len(h) : h[n] \in linked'
  <2>1. linked' \in SUBSET Nat BY EntriesNext
  <2> QED BY <1>5, <2>1, EnumBasics
<1> HIDE DEF h
<1>11. ASSUME NEW n \in 1..Len(h) PROVE Listing'[n] = RemoveAt(Listing, i)[n]
  <2>1. n \in 1..Len(g) - 1 /\ n \in 1..Len(g) /\ n + 1 \in 1..Len(g) BY <1>3, <1>6
  <2>2. Listing'[n] = element[h[n]] BY <1>8, <1>10
  <2>3. CASE n < i BY <1>6, <1>7, <1>9, <2>1, <2>2, <2>3
  <2>4. CASE ~(n < i) BY <1>6, <1>7, <1>9, <2>1, <2>2, <2>4
  <2> QED BY <2>3, <2>4
<1>12. Listing' = RemoveAt(Listing, i) BY <1>6, <1>8, <1>9, <1>11, SeqEqual
<1> QED BY <1>7, <1>12

LEMMA EmptyMaps ==
  /\ linked = {} => Listing = <<>>
  /\ linked' = {} => Listing' = <<>>
<1>1. Order({}) = <<>> BY EnumEmpty, OrderIs
<1>2. \A elements : ListingOf({}, elements) = <<>> BY <1>1 DEF ListingOf
<1> QED BY <1>2 DEF Listing

LEMMA MapInit == HashInit => Map!Init
<1> SUFFICES ASSUME HashInit PROVE Map!Init OBVIOUS
<1>1. Listing = <<>> BY EmptyMaps DEF HashInit
<1> QED BY <1>1 DEF Map!Init, Listing, ListingOf, InOrder

LEMMA LinkIsInsert ==
  ASSUME HashInv, fault = {}, NEW k \in Keys, NEW d \in Data, Found(k) = 0, Link(k, d)
  PROVE  Map!Next
<1> DEFINE e == [key |-> k, data |-> d]
<1>1. /\ \A i \in DOMAIN Listing : Listing[i].key # k
      /\ Listing' = Append(Listing, e)
  BY LinkMaps
<1>2. e \in Map!Entry /\ e.key = k BY DEF Map!Entry
<1> HIDE DEF e
<1>3. Map!Insert(e) BY <1>1, <1>2 DEF Map!Insert, Map!Has, Listing, ListingOf, InOrder
<1> QED BY <1>2, <1>3 DEF Map!Next

LEMMA OverwriteIsReplace ==
  ASSUME HashInv, fault = {}, NEW k \in Keys, NEW d \in Data, Overwrite(k, d)
  PROVE  Map!Next
<1>1. CASE Found(k) = 0 BY <1>1, LinkIsInsert DEF Overwrite
<1>2. CASE Found(k) # 0
  <2> DEFINE e == [key |-> k, data |-> d]
  <2>1. /\ element' = [element EXCEPT ![Found(k)].data = d]
        /\ UNCHANGED <<linked, it, finding, fault, past>>
    BY <1>2 DEF Overwrite
  <2>2. HashInv' /\ element' = [element EXCEPT ![Found(k)] = e] BY <1>2, <2>1, OverwriteStep
  <2>3. \E i \in DOMAIN Listing : Listing[i].key = k /\ Listing' = [Listing EXCEPT ![i] = e]
    BY <1>2, <2>1, <2>2, OverwriteMaps
  <2>4. e \in Map!Entry /\ e.key = k BY DEF Map!Entry
  <2> HIDE DEF e
  <2>5. Map!Replace(e) BY <2>3, <2>4 DEF Map!Replace, Listing, ListingOf, InOrder
  <2> QED BY <2>4, <2>5 DEF Map!Next
<1> QED BY <1>1, <1>2

LEMMA DropIsDrop ==
  ASSUME HashInv, HashInv', NEW c \in linked, linked' = linked \ {c},
         \A e \in linked' : element'[e] = element[e]
  PROVE  Map!Next
<1>1. \E i \in DOMAIN Listing : Listing' = RemoveAt(Listing, i) BY DropMaps
<1>2. Map!Drop BY <1>1 DEF Map!Drop, Map!RemoveAt, RemoveAt, Listing, ListingOf, InOrder
<1> QED BY <1>2 DEF Map!Next

LEMMA MapStep == HashInv /\ MissInv /\ [HashNext]_hashVars => Map!Next \/ Listing' = Listing
<1> SUFFICES ASSUME HashInv, MissInv, [HashNext]_hashVars
             PROVE  Map!Next \/ Listing' = Listing
  OBVIOUS
<1>1. HashInv' BY HashInvStep
<1>2. ASSUME UNCHANGED <<element, linked>> PROVE Listing' = Listing BY <1>2 DEF Listing
<1>3. CASE UNCHANGED hashVars BY <1>2, <1>3 DEF hashVars
<1>4. CASE HashNext
  <2>1. fault = {} BY <1>4 DEF HashNext
  <2>2. ASSUME NEW k \in Keys, Miss(k) PROVE UNCHANGED <<element, linked>> BY <2>2 DEF Miss
  <2>3. ASSUME NEW k \in Keys, Delete(k) PROVE Map!Next
    BY <1>1, <2>1, <2>3, DeleteStep, DropIsDrop
  <2>4. ASSUME NEW k \in Keys, NEW d \in Data, Add(k, d) PROVE Map!Next
    BY <2>1, <2>4, LinkIsInsert DEF Add
  <2>5. ASSUME NEW k \in Keys, NEW d \in Data, Overwrite(k, d) PROVE Map!Next
    BY <2>1, <2>5, OverwriteIsReplace
  <2>6. ASSUME Clear PROVE Map!Next
    <3>1. Listing' = <<>> BY <2>1, <2>6, ClearStep, EmptyMaps
    <3>2. Map!Clear BY <3>1 DEF Map!Clear, Listing, ListingOf, InOrder
    <3> QED BY <3>2 DEF Map!Next
  <2>7. ASSUME NEW d \in Data, AddMissed(d) PROVE Map!Next
    <3>1. adding \in Keys /\ Link(adding, d) BY <2>7 DEF AddMissed, MissInv
    <3>2. {e \in linked : element[e].key = adding} = {} BY <2>7 DEF AddMissed, MissInv
    <3>3. Found(adding) = 0 BY <3>2 DEF Found, Least
    <3> QED BY <2>1, <3>1, <3>3, LinkIsInsert
  <2>8. ASSUME NEW i \in Iterators, Begin(i) \/ Take(i) \/ Deref(i) \/ ItInc(i) \/ \E k \in Keys : Find(i, k)
        PROVE  UNCHANGED <<element, linked>>
    BY <2>8 DEF Begin, Take, Deref, ItInc, Find, Look, Fails
  <2>9. ASSUME NEW i \in Iterators, ItDelete(i) PROVE Map!Next \/ Listing' = Listing
    BY <1>1, <1>2, <2>1, <2>9, ItDeleteStep, DropIsDrop
  <2> QED BY <1>2, <1>4, <2>2, <2>3, <2>4, <2>5, <2>6, <2>7, <2>8, <2>9 DEF HashNext
<1> QED BY <1>3, <1>4

\* For every number of keys, elements and threads: whatever iterators delete, and
\* whoever deletes between the lookup and the addition of a key, hash_add, hash_value,
\* hash_delete and hash_clear change the container as they would change a map that keeps its keys in the order of their insertion.
THEOREM ContainerImplementsMap == HashSpec => ImplementsMap
<1>1. HashInv /\ MissInv /\ [HashNext]_hashVars
        => [Map!Next]_([n \in DOMAIN InOrder |-> element[InOrder[n]]])
  BY MapStep DEF Listing, ListingOf, InOrder
<1> QED BY MapInit, HashInvariant, <1>1, PTL DEF HashSpec, ImplementsMap, Map!Spec
=============================================================================
