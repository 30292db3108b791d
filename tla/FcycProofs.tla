----------------------------- MODULE FcycProofs -----------------------------
(***************************************************************************)
(* Proofs about module Fcyc, for any parameters, any epsilon, any costs    *)
(* and any times of the samples.                                           *)
(*                                                                         *)
(* InsertFrom is a recursive function over the positions.  The first       *)
(* lemmas give its value in closed form (Moved): that there is such a      *)
(* function is shown by writing it down, that it is the only one by the    *)
(* position closest to the end at which another one would differ.          *)
(***************************************************************************)
EXTENDS Fcyc, FiniteSetTheorems, WellFoundedInduction, TLAPS

(* A set of naturals that is not empty has a least element. *)
LEMMA LeastNatural ==
  ASSUME NEW T \in SUBSET Nat, T # {}
  PROVE  \E n \in T : \A m \in T : n <= m
<1>1. PICK n \in T : \A m \in T : ~ (<<m, n>> \in OpToRel(<, Nat))
  BY NatLessThanWellFounded, WFMin
<1>2. ASSUME NEW m \in T
      PROVE  n <= m
  <2>1. ASSUME m < n PROVE FALSE
    <3>1. <<m, n>> \in Nat \X Nat /\ <<m, n>>[1] < <<m, n>>[2]
      BY <2>1
    <3>2. <<m, n>> \in OpToRel(<, Nat)
      BY <3>1, Zenon DEF OpToRel
    <3> QED
      BY <1>1, <3>2
  <2> QED
    BY <2>1
<1> QED
  BY <1>2


-----------------------------------------------------------------------------
(* Insertion into a sorted array *)

(* v with its element at pos moved down to j, and those between moved up *)
Moved(v, j, pos) ==
  [k \in DOMAIN v |-> IF k < j \/ k > pos THEN v[k] ELSE IF k = j THEN v[pos] ELSE v[k - 1]]

(* g[p] is the array after the moves down to p. *)
IsSteps(v, pos, g) ==
  g = [p \in 1 .. pos |->
        IF p = pos THEN v
        ELSE IF g[p + 1][p] > g[p + 1][p + 1]
             THEN [g[p + 1] EXCEPT ![p] = g[p + 1][p + 1], ![p + 1] = g[p + 1][p]]
             ELSE g[p + 1]]

(* If there is such a function, InsertFrom is its last value. *)
LEMMA InsertIsSteps ==
  ASSUME NEW v, NEW pos, \E g : IsSteps(v, pos, g)
  PROVE  \E g : IsSteps(v, pos, g) /\ InsertFrom(v, pos) = g[1]
BY DEF IsSteps, InsertFrom

(* The place of the element at pos among those before it *)
Place(v, j, pos) ==
  /\ j \in 1 .. pos
  /\ \A k \in 1 .. pos : k < j => v[k] <= v[pos]
  /\ \A k \in 1 .. pos : j <= k /\ k < pos => v[pos] < v[k]

Sorted(v, n) == \A k, l \in 1 .. n : k < l => v[k] <= v[l]

(* In an array sorted before pos there is such a place. *)
LEMMA PlaceExists ==
  ASSUME NEW K \in Nat, NEW v \in [1 .. K -> Nat], NEW pos \in 1 .. K, Sorted(v, pos - 1)
  PROVE  \E j : Place(v, j, pos)
<1> DEFINE Above == {k \in 1 .. pos : k = pos \/ v[k] > v[pos]}
<1>1. PICK j \in Above : \A k \in Above : j <= k
  <2>1. Above \in SUBSET Nat /\ pos \in Above
    OBVIOUS
  <2> QED
    BY <2>1, LeastNatural
<1>2. \A k \in 1 .. pos : k < j => v[k] <= v[pos]
  BY <1>1
<1>3. ASSUME NEW k \in 1 .. pos, j <= k, k < pos
      PROVE  v[pos] < v[k]
  <2>1. j \in 1 .. pos - 1 /\ k \in 1 .. pos - 1 /\ v[j] > v[pos]
    BY <1>1, <1>3
  <2>2. v[j] <= v[k]
    BY <1>3, <2>1 DEF Sorted
  <2> QED
    BY <2>1, <2>2
<1> QED
  BY <1>1, <1>2, <1>3 DEF Place

(* One move: the element on its way down is swapped with the one before    *)
(* it as long as that one is larger.                                       *)
LEMMA OneMove ==
  ASSUME NEW K \in Nat, NEW v \in [1 .. K -> Nat], NEW pos \in 1 .. K,
         NEW j, Place(v, j, pos), Sorted(v, pos - 1), NEW p \in 1 .. pos, p # pos,
         NEW u, u = Moved(v, IF p + 1 > j THEN p + 1 ELSE j, pos)
  PROVE  Moved(v, IF p > j THEN p ELSE j, pos) =
           IF u[p] > u[p + 1] THEN [u EXCEPT ![p] = u[p + 1], ![p + 1] = u[p]] ELSE u
<1>1. j \in Nat /\ p \in 1 .. K /\ p + 1 \in 1 .. K /\ pos \in Nat
  BY DEF Place
<1>2. CASE p >= j
  <2>1. u = Moved(v, p + 1, pos)
    BY <1>1, <1>2
  <2>2. u[p] = v[p] /\ u[p + 1] = v[pos]
    BY <1>1, <2>1 DEF Moved
  <2>3. v[pos] < v[p]
    BY <1>1, <1>2 DEF Place
  <2>4. Moved(v, p, pos) = [u EXCEPT ![p] = u[p + 1], ![p + 1] = u[p]]
    <3> DEFINE w == [u EXCEPT ![p] = u[p + 1], ![p + 1] = u[p]]
               E(k) == IF k = p + 1 THEN u[p] ELSE IF k = p THEN u[p + 1] ELSE u[k]
    <3>1. DOMAIN u = 1 .. K
      BY <2>1 DEF Moved
    <3>2. w = [k \in 1 .. K |-> E(k)]
      BY <1>1, <3>1
    <3>3. ASSUME NEW k \in 1 .. K
          PROVE  Moved(v, p, pos)[k] = E(k)
      <4>1. Moved(v, p, pos)[k] =
              IF k < p \/ k > pos THEN v[k] ELSE IF k = p THEN v[pos] ELSE v[k - 1]
        BY DEF Moved
      <4>2. u[k] = IF k < p + 1 \/ k > pos THEN v[k]
                   ELSE IF k = p + 1 THEN v[pos] ELSE v[k - 1]
        BY <2>1 DEF Moved
      <4>3. CASE k = p + 1
        <5>1. k - 1 = p /\ k > p /\ ~ (k > pos)
          BY <1>1, <4>3
        <5> QED
          BY <2>2, <4>1, <4>3, <5>1
      <4>4. CASE k = p
        BY <1>1, <2>2, <4>1, <4>4
      <4>5. CASE k # p /\ k # p + 1
        BY <1>1, <4>1, <4>2, <4>5
      <4> QED
        BY <4>3, <4>4, <4>5
    <3>4. Moved(v, p, pos) = [k \in 1 .. K |-> Moved(v, p, pos)[k]]
      BY DEF Moved
    <3> HIDE DEF w, E
    <3>5. Moved(v, p, pos) = [k \in 1 .. K |-> E(k)]
      BY <3>3, <3>4, Zenon
    <3>6. Moved(v, p, pos) = w
      BY <3>2, <3>5
    <3> QED
      BY <3>6 DEF w
  <2>5. (IF p > j THEN p ELSE j) = p
    BY <1>1, <1>2
  <2> QED
    BY <1>1, <2>2, <2>3, <2>4, <2>5
<1>3. CASE p < j
  <2>1. u = Moved(v, j, pos) /\ (IF p > j THEN p ELSE j) = j
    BY <1>1, <1>3
  <2>2. u[p] = v[p]
    BY <1>1, <1>3, <2>1 DEF Moved
  <2>3. u[p + 1] = IF p + 1 < j THEN v[p + 1] ELSE v[pos]
    BY <1>1, <1>3, <2>1 DEF Moved
  <2>4. p + 1 < j => v[p] <= v[p + 1]
    BY <1>1, <1>3 DEF Place, Sorted
  <2>5. p + 1 >= j => v[p] <= v[pos]
    BY <1>1, <1>3 DEF Place
  <2>6. v[p] \in Nat /\ v[pos] \in Nat /\ v[p + 1] \in Nat
    BY <1>1
  <2>7. ~ (u[p] > u[p + 1])
    BY <1>1, <1>3, <2>2, <2>3, <2>4, <2>5, <2>6
  <2> QED
    BY <2>1, <2>7
<1> QED
  BY <1>1, <1>2, <1>3

(* InsertFrom moves the element at pos to its place. *)
LEMMA InsertIsMove ==
  ASSUME NEW K \in Nat, NEW v \in [1 .. K -> Nat], NEW pos \in 1 .. K,
         Sorted(v, pos - 1), NEW j, Place(v, j, pos)
  PROVE  InsertFrom(v, pos) = Moved(v, j, pos)
<1> DEFINE At(p) == Moved(v, IF p > j THEN p ELSE j, pos)
           h == [p \in 1 .. pos |-> At(p)]
           Swap(u, p) == IF u[p] > u[p + 1]
                         THEN [u EXCEPT ![p] = u[p + 1], ![p + 1] = u[p]] ELSE u
<1>1. At(pos) = v
  <2>1. (IF pos > j THEN pos ELSE j) = pos
    BY DEF Place
  <2>2. Moved(v, pos, pos) = [k \in 1 .. K |-> v[k]]
    BY DEF Moved
  <2> QED
    BY <2>1, <2>2
<1>2. ASSUME NEW p \in 1 .. pos, p # pos
      PROVE  At(p) = Swap(At(p + 1), p)
  BY <1>2, OneMove
<1> HIDE DEF At
<1>3. IsSteps(v, pos, h)
  <2>1. ASSUME NEW p \in 1 .. pos
        PROVE  h[p] = IF p = pos THEN v ELSE Swap(h[p + 1], p)
    <3>1. CASE p = pos
      BY <1>1, <3>1
    <3>2. CASE p # pos
      <4>1. p + 1 \in 1 .. pos
        BY <3>2
      <4>2. h[p] = At(p) /\ h[p + 1] = At(p + 1)
        BY <4>1
      <4> HIDE DEF h, Swap
      <4> QED
        BY <1>2, <3>2, <4>2
    <3> QED
      BY <3>1, <3>2
  <2> HIDE DEF Swap
  <2>2. h = [p \in 1 .. pos |-> h[p]]
    OBVIOUS
  <2> HIDE DEF h
  <2>3. h = [p \in 1 .. pos |-> IF p = pos THEN v ELSE Swap(h[p + 1], p)]
    BY <2>1, <2>2, Zenon
  <2> USE DEF Swap
  <2> QED
    BY <2>3 DEF IsSteps
<1>4. PICK g : IsSteps(v, pos, g) /\ InsertFrom(v, pos) = g[1]
  BY <1>3, InsertIsSteps
<1>5. ASSUME NEW p \in 1 .. pos
      PROVE  g[p] = IF p = pos THEN v ELSE Swap(g[p + 1], p)
  BY <1>4 DEF IsSteps
<1> HIDE DEF Swap
<1> DEFINE Differs == {n \in Nat : n < pos /\ g[pos - n] # At(pos - n)}
<1>6. ASSUME Differs # {} PROVE FALSE
  <2>1. PICK n \in Differs : \A m \in Differs : n <= m
    <3>1. Differs \in SUBSET Nat
      OBVIOUS
    <3> QED
      BY <1>6, <3>1, LeastNatural
  <2> DEFINE p == pos - n
  <2>2. p \in 1 .. pos /\ g[p] # At(p)
    BY <2>1
  <2>3. p # pos
    BY <1>1, <1>5, <2>2
  <2>4. n - 1 \in Nat /\ n - 1 < pos /\ pos - (n - 1) = p + 1 /\ ~ (n <= n - 1)
    BY <2>1, <2>3
  <2>5. g[p + 1] = At(p + 1)
    BY <2>1, <2>4
  <2> HIDE DEF p, Differs
  <2> QED
    BY <1>2, <1>5, <2>2, <2>3, <2>5
<1>7. g[1] = At(1)
  <2>1. pos - 1 \in Nat /\ pos - 1 < pos /\ pos - (pos - 1) = 1
    OBVIOUS
  <2> QED
    BY <1>6, <2>1
<1>8. At(1) = Moved(v, j, pos)
  <2>1. (IF 1 > j THEN 1 ELSE j) = j
    BY DEF Place
  <2> QED
    BY <2>1 DEF At
<1> QED
  BY <1>4, <1>7, <1>8

-----------------------------------------------------------------------------
(* add_sample keeps the smallest *)

(* from shows where the n elements come from, and the elements it leaves   *)
(* out are at least as large.                                              *)
Witness(from, v, n, seq) ==
  /\ from \in Injection(1 .. n, DOMAIN seq)
  /\ \A k \in 1 .. n : v[k] = seq[from[k]]
  /\ \A k, l \in 1 .. n : k < l => v[k] <= v[l]
  /\ \A m \in DOMAIN seq : (\A k \in 1 .. n : from[k] # m) => \A k \in 1 .. n : v[k] <= seq[m]

(* A sample goes to the end of the sequence and to pos in the array, in    *)
(* the place of the largest there or after all of them: once it is moved,  *)
(* the array up to pos holds the smallest again.                           *)
LEMMA PlacedAmongSmallest ==
  ASSUME NEW K \in Nat, NEW v \in [1 .. K -> Nat], NEW pos \in 1 .. K,
         NEW seq \in Seq(Nat), NEW from, Witness(from, v, pos - 1, seq),
         \A m \in DOMAIN seq : (\A k \in 1 .. pos - 1 : from[k] # m) =>
           v[pos] <= seq[m]
  PROVE  /\ InsertFrom(v, pos) \in [1 .. K -> Nat]
         /\ AreSmallest(InsertFrom(v, pos), pos, Append(seq, v[pos]))
<1> DEFINE n == Len(seq)
           more == Append(seq, v[pos])
<1>1. /\ n \in Nat /\ DOMAIN seq = 1 .. n /\ DOMAIN more = 1 .. n + 1
      /\ more[n + 1] = v[pos] /\ \A m \in 1 .. n : more[m] = seq[m]
  BY DEF more
<1>2. Sorted(v, pos - 1)
  BY DEF Sorted, Witness
<1>3. PICK j : Place(v, j, pos)
  BY <1>2, PlaceExists
<1>4. InsertFrom(v, pos) = Moved(v, j, pos)
  BY <1>2, <1>3, InsertIsMove
<1> DEFINE w == Moved(v, j, pos)
           to == [k \in 1 .. pos |-> IF k < j THEN from[k] ELSE IF k = j THEN n + 1 ELSE from[k - 1]]
<1>5. j \in 1 .. pos /\ pos \in Nat
  BY <1>3 DEF Place
<1>6. w \in [1 .. K -> Nat]
  <2>1. ASSUME NEW k \in 1 .. K
        PROVE  (IF k < j \/ k > pos THEN v[k] ELSE IF k = j THEN v[pos] ELSE v[k - 1]) \in Nat
    BY <1>5
  <2> QED
    BY <2>1 DEF Moved
<1>7. \A k \in 1 .. pos : w[k] = IF k < j THEN v[k] ELSE IF k = j THEN v[pos] ELSE v[k - 1]
  BY <1>5 DEF Moved
<1>8. /\ from \in [1 .. pos - 1 -> 1 .. n]
      /\ \A a, b \in 1 .. pos - 1 : from[a] = from[b] => a = b
      /\ \A k \in 1 .. pos - 1 : v[k] = seq[from[k]]
  BY <1>1 DEF Witness, Injection, IsInjective
<1> HIDE DEF w, n, more
<1>9. ASSUME NEW k \in 1 .. pos, k # j
      PROVE  \E x \in 1 .. pos - 1 :
               /\ w[k] = v[x] /\ to[k] = from[x]
               /\ (k < j /\ x = k) \/ (k > j /\ x = k - 1)
  <2>1. CASE k < j
    <3>1. k \in 1 .. pos - 1
      BY <1>5, <2>1
    <3> QED
      BY <1>7, <2>1, <3>1
  <2>2. CASE k > j
    <3>1. k - 1 \in 1 .. pos - 1 /\ ~ (k < j)
      BY <1>5, <2>2
    <3> QED
      BY <1>7, <1>9, <2>2, <3>1
  <2> QED
    BY <1>5, <1>9, <2>1, <2>2
<1>10. w[j] = v[pos] /\ to[j] = n + 1
  BY <1>5, <1>7
<1>11. to \in Injection(1 .. pos, DOMAIN more)
  <2>1. to \in [1 .. pos -> 1 .. n + 1]
    <3>1. ASSUME NEW k \in 1 .. pos
          PROVE  to[k] \in 1 .. n + 1
      <4> HIDE DEF to
      <4>1. CASE k = j
        BY <1>1, <1>10, <4>1
      <4>2. CASE k # j
        <5>1. PICK x \in 1 .. pos - 1 : to[k] = from[x]
          BY <1>9, <4>2
        <5> QED
          BY <1>1, <1>8, <5>1
      <4> QED
        BY <4>1, <4>2
    <3>2. to = [k \in 1 .. pos |-> to[k]]
      OBVIOUS
    <3> HIDE DEF to
    <3> QED
      BY <3>1, <3>2
  <2> HIDE DEF to
  <2>2. ASSUME NEW k \in 1 .. pos, k # j
        PROVE  to[k] # n + 1
    <3>1. PICK x \in 1 .. pos - 1 : to[k] = from[x]
      BY <1>9, <2>2
    <3> QED
      BY <1>1, <1>8, <3>1
  <2>3. ASSUME NEW a \in 1 .. pos, NEW b \in 1 .. pos, to[a] = to[b]
        PROVE  a = b
    <3>1. CASE a = j \/ b = j
      BY <1>10, <2>2, <2>3, <3>1
    <3>2. CASE a # j /\ b # j
      <4>1. PICK x \in 1 .. pos - 1 :
              /\ to[a] = from[x]
              /\ (a < j /\ x = a) \/ (a > j /\ x = a - 1)
        BY <1>9, <3>2
      <4>2. PICK y \in 1 .. pos - 1 :
              /\ to[b] = from[y]
              /\ (b < j /\ y = b) \/ (b > j /\ y = b - 1)
        BY <1>9, <3>2
      <4>3. x = y
        BY <1>8, <2>3, <4>1, <4>2
      <4> QED
        BY <1>5, <4>1, <4>2, <4>3
    <3> QED
      BY <3>1, <3>2
  <2> QED
    BY <1>1, <2>1, <2>3 DEF Injection, IsInjective
<1> HIDE DEF to
<1>12. ASSUME NEW k \in 1 .. pos
       PROVE  w[k] = more[to[k]]
  <2>1. CASE k = j
    BY <1>1, <1>10, <2>1
  <2>2. CASE k # j
    <3>1. PICK x \in 1 .. pos - 1 : w[k] = v[x] /\ to[k] = from[x]
      BY <1>9, <2>2
    <3> QED
      BY <1>1, <1>8, <3>1
  <2> QED
    BY <2>1, <2>2
<1>13. ASSUME NEW k \in 1 .. pos, NEW l \in 1 .. pos, k < l
       PROVE  w[k] <= w[l]
  <2>1. ASSUME NEW a \in 1 .. pos - 1, NEW b \in 1 .. pos - 1, a <= b
        PROVE  v[a] <= v[b]
    <3>1. CASE a < b
      BY <3>1 DEF Witness
    <3>2. CASE a = b
      BY <3>2
    <3> QED
      BY <2>1, <3>1, <3>2
  <2>2. ASSUME NEW a \in 1 .. pos - 1
        PROVE  /\ a \in 1 .. pos /\ a < pos
               /\ a < j => v[a] <= v[pos]
               /\ j <= a => v[pos] <= v[a]
    <3>1. a \in 1 .. pos /\ a < pos
      OBVIOUS
    <3>2. j <= a => v[pos] < v[a]
      BY <1>3, <3>1 DEF Place
    <3>3. v[pos] \in Nat /\ v[a] \in Nat
      OBVIOUS
    <3> QED
      BY <1>3, <3>1, <3>2, <3>3 DEF Place
  <2>3. CASE k = j
    <3>1. PICK y \in 1 .. pos - 1 : w[l] = v[y] /\ j <= y
      BY <1>5, <1>9, <1>13, <2>3
    <3> QED
      BY <1>10, <2>2, <2>3, <3>1
  <2>4. CASE l = j
    <3>1. PICK x \in 1 .. pos - 1 : w[k] = v[x] /\ x < j
      BY <1>5, <1>9, <1>13, <2>4
    <3> QED
      BY <1>10, <2>2, <2>4, <3>1
  <2>5. CASE k # j /\ l # j
    <3>1. PICK x \in 1 .. pos - 1 :
            /\ w[k] = v[x]
            /\ (k < j /\ x = k) \/ (k > j /\ x = k - 1)
      BY <1>9, <2>5
    <3>2. PICK y \in 1 .. pos - 1 :
            /\ w[l] = v[y]
            /\ (l < j /\ y = l) \/ (l > j /\ y = l - 1)
      BY <1>9, <2>5
    <3>3. x <= y
      BY <1>5, <1>13, <3>1, <3>2
    <3> QED
      BY <2>1, <3>1, <3>2, <3>3
  <2> QED
    BY <2>3, <2>4, <2>5
<1>14. ASSUME NEW m \in DOMAIN more, \A k \in 1 .. pos : to[k] # m, NEW k \in 1 .. pos
       PROVE  w[k] <= more[m]
  <2>1. m # n + 1
    BY <1>5, <1>10, <1>14
  <2>2. m \in DOMAIN seq /\ more[m] = seq[m]
    BY <1>1, <2>1
  <2>3. ASSUME NEW a \in 1 .. pos - 1
        PROVE  from[a] # m
    <3> DEFINE b == IF a < j THEN a ELSE a + 1
    <3>1. b \in 1 .. pos /\ b # j
      BY <1>5
    <3>2. PICK x \in 1 .. pos - 1 :
            /\ to[b] = from[x]
            /\ (b < j /\ x = b) \/ (b > j /\ x = b - 1)
      BY <1>9, <3>1
    <3>3. x = a
      BY <1>5, <3>2
    <3> QED
      BY <1>14, <3>1, <3>2, <3>3
  <2>4. v[pos] <= seq[m] /\ \A a \in 1 .. pos - 1 : v[a] <= seq[m]
    BY <2>2, <2>3 DEF Witness
  <2>5. CASE k = j
    BY <1>10, <2>2, <2>4, <2>5
  <2>6. CASE k # j
    <3>1. PICK x \in 1 .. pos - 1 : w[k] = v[x]
      BY <1>9, <2>6
    <3> QED
      BY <2>2, <2>4, <3>1
  <2> QED
    BY <2>5, <2>6
<1>15. Witness(to, w, pos, more)
  BY <1>11, <1>12, <1>13, <1>14 DEF Witness
<1>16. AreSmallest(w, pos, more)
  BY <1>15, Zenon DEF Witness, AreSmallest
<1>17. w = InsertFrom(v, pos) /\ more = Append(seq, v[pos])
  BY <1>4 DEF w, more
<1> QED
  BY <1>6, <1>16, <1>17

(* An injection from 1 .. n to itself reaches everything. *)
LEMMA AllReached ==
  ASSUME NEW n \in Nat, NEW from \in Injection(1 .. n, 1 .. n), NEW m \in 1 .. n
  PROVE  \E k \in 1 .. n : from[k] = m
<1> SUFFICES ASSUME \A k \in 1 .. n : from[k] # m PROVE FALSE
  OBVIOUS
<1>1. /\ IsFiniteSet(1 .. n) /\ Cardinality(1 .. n) = n
      /\ IsFiniteSet((1 .. n) \ {m}) /\ Cardinality((1 .. n) \ {m}) = n - 1
  <2>1. IsFiniteSet(1 .. n) /\ Cardinality(1 .. n) = n
    <3>1. IsFiniteSet(1 .. n) /\ Cardinality(1 .. n) = IF 1 > n THEN 0 ELSE n - 1 + 1
      BY FS_Interval
    <3> QED
      BY <3>1
  <2> QED
    BY <2>1, FS_RemoveElement
<1>2. from \in [1 .. n -> (1 .. n) \ {m}]
  BY DEF Injection
<1>3. PICK a \in 1 .. n, b \in 1 .. n : a # b /\ from[a] = from[b]
  <2> DEFINE S == 1 .. n
             T == S \ {m}
  <2> HIDE DEF T, S
  <2>1. IsFiniteSet(S) /\ IsFiniteSet(T) /\ Cardinality(T) < Cardinality(S) /\ from \in [S -> T]
    BY <1>1, <1>2 DEF S, T
  <2>2. \E a, b \in S : a # b /\ from[a] = from[b]
    BY <2>1, FS_PigeonHole
  <2> QED
    BY <2>2 DEF S
<1> QED
  BY <1>3 DEF Injection, IsInjective

(* How many of count samples an array of K holds, and what add_sample      *)
(* makes of the array                                                      *)
Kept(count, K) == IF count < K THEN count ELSE K

Added(v, K, count, val) ==
  IF count < K THEN InsertFrom([v EXCEPT ![count + 1] = val], count + 1)
  ELSE IF val < v[K] THEN InsertFrom([v EXCEPT ![K] = val], K)
  ELSE v

LEMMA AddSampleKeepsSmallest ==
  ASSUME NEW K \in Nat \ {0}, NEW v \in [1 .. K -> Nat],
         NEW seq \in Seq(Nat), NEW val \in Nat,
         AreSmallest(v, Kept(Len(seq), K), seq)
  PROVE  /\ Added(v, K, Len(seq), val) \in [1 .. K -> Nat]
         /\ AreSmallest(Added(v, K, Len(seq), val), Kept(Len(seq) + 1, K), Append(seq, val))
<1> DEFINE count == Len(seq)
           Put(pos) == [v EXCEPT ![pos] = val]
<1>1. K \in Nat /\ K > 0 /\ count \in Nat /\ DOMAIN seq = 1 .. count
  OBVIOUS
<1>2. PICK from : Witness(from, v, Kept(count, K), seq)
  BY Zenon DEF AreSmallest, Witness
<1>3. ASSUME NEW pos \in 1 .. K
      PROVE  Put(pos) \in [1 .. K -> Nat] /\ Put(pos)[pos] = val
             /\ \A k \in 1 .. pos - 1 : Put(pos)[k] = v[k]
  <2>1. pos \in DOMAIN v /\ \A k \in 1 .. pos - 1 : k \in DOMAIN v /\ k # pos
    BY <1>1
  <2> QED
    BY <2>1
<1> HIDE DEF count
<1>4. CASE count < K
  <2> DEFINE pos == count + 1
             u == Put(pos)
  <2>1. pos \in 1 .. K /\ pos - 1 = count /\ Kept(count, K) = count /\ Kept(count + 1, K) = pos
    BY <1>1, <1>4 DEF Kept
  <2>2. from \in Injection(1 .. count, 1 .. count)
    BY <1>1, <1>2, <2>1 DEF Witness
  <2>3. \A m \in DOMAIN seq : \E k \in 1 .. pos - 1 : from[k] = m
    <3>1. ASSUME NEW m \in 1 .. count
          PROVE  \E k \in 1 .. count : from[k] = m
      <4>1. count \in Nat
        BY <1>1
      <4> QED
        BY <2>2, <4>1, AllReached
    <3> HIDE DEF pos
    <3> QED
      BY <1>1, <2>1, <3>1
  <2>4. u \in [1 .. K -> Nat] /\ u[pos] = val /\ \A k \in 1 .. pos - 1 : u[k] = v[k]
    BY <1>3, <2>1
  <2>5. Witness(from, v, pos - 1, seq)
    BY <1>2, <2>1
  <2>6. Added(v, K, count, val) = InsertFrom(u, pos)
    BY <1>4 DEF Added
  <2> HIDE DEF u, pos
  <2>7. Witness(from, u, pos - 1, seq)
    BY <2>4, <2>5, Zenon DEF Witness
  <2>8. /\ InsertFrom(u, pos) \in [1 .. K -> Nat]
        /\ AreSmallest(InsertFrom(u, pos), pos, Append(seq, u[pos]))
    <3>1. \A m \in DOMAIN seq : (\A k \in 1 .. pos - 1 : from[k] # m) => u[pos] <= seq[m]
      BY <2>3
    <3>2. K \in Nat /\ pos \in 1 .. K
      BY <1>1, <2>1
    <3>3. u \in [1 .. K -> Nat]
      BY <2>4
    <3> QED
      BY <2>7, <3>1, <3>2, <3>3, PlacedAmongSmallest
  <2> QED
    BY <2>1, <2>4, <2>6, <2>8 DEF count
<1>5. CASE count >= K
  <2>1. Kept(count, K) = K /\ Kept(count + 1, K) = K /\ K \in 1 .. K
    BY <1>1, <1>5 DEF Kept
  <2>2. Witness(from, v, K, seq)
    BY <1>2, <2>1
  <2>3. CASE val < v[K]
    <3> DEFINE u == Put(K)
               rest == [k \in 1 .. K - 1 |-> from[k]]
    <3>1. u \in [1 .. K -> Nat] /\ u[K] = val /\ \A k \in 1 .. K - 1 : u[k] = v[k]
      BY <1>3, <2>1
    <3>2. Added(v, K, count, val) = InsertFrom(u, K)
      BY <1>1, <1>5, <2>3 DEF Added
    <3>3. \A k \in 1 .. K - 1 : k \in 1 .. K /\ k < K /\ v[k] \in Nat
      BY <1>1, <2>1
    <3>4. v[K] \in Nat
      BY <2>1
    <3> HIDE DEF u
    <3>5. rest \in Injection(1 .. K - 1, DOMAIN seq)
      BY <2>2, <3>3 DEF Witness, Injection, IsInjective
    <3>6. \A k \in 1 .. K - 1 : u[k] = seq[rest[k]]
      BY <2>2, <3>1, <3>3 DEF Witness
    <3>7. \A k, l \in 1 .. K - 1 : k < l => u[k] <= u[l]
      BY <2>2, <3>1, <3>3 DEF Witness
    <3>8. ASSUME NEW m \in DOMAIN seq, \A k \in 1 .. K - 1 : rest[k] # m
          PROVE  val <= seq[m] /\ \A k \in 1 .. K - 1 : u[k] <= seq[m]
      <4>1. seq[m] \in Nat
        BY <3>8
      <4>2. CASE from[K] = m
        <5>1. seq[m] = v[K]
          BY <2>1, <2>2, <4>2 DEF Witness
        <5>2. \A k \in 1 .. K - 1 : v[k] <= v[K]
          BY <2>1, <2>2, <3>3 DEF Witness
        <5> QED
          BY <2>3, <3>1, <3>4, <5>1, <5>2
      <4>3. CASE from[K] # m
        <5>1. ASSUME NEW k \in 1 .. K PROVE from[k] # m
          <6>1. k = K \/ k \in 1 .. K - 1
            BY <1>1
          <6> QED
            BY <3>8, <4>3, <6>1
        <5>2. \A k \in 1 .. K : v[k] <= seq[m]
          BY <2>2, <5>1 DEF Witness
        <5> QED
          BY <2>1, <2>3, <3>1, <3>3, <3>4, <4>1, <5>2
      <4> QED
        BY <4>2, <4>3
    <3> HIDE DEF rest
    <3>9. Witness(rest, u, K - 1, seq)
      BY <3>5, <3>6, <3>7, <3>8 DEF Witness
    <3>10. /\ InsertFrom(u, K) \in [1 .. K -> Nat]
           /\ AreSmallest(InsertFrom(u, K), K, Append(seq, u[K]))
      <4>1. \A m \in DOMAIN seq : (\A k \in 1 .. K - 1 : rest[k] # m) => u[K] <= seq[m]
        BY <3>1, <3>8
      <4>2. K \in Nat /\ K \in 1 .. K
        BY <2>1
      <4>3. u \in [1 .. K -> Nat]
        BY <3>1
      <4> QED
        BY <3>9, <4>1, <4>2, <4>3, PlacedAmongSmallest
    <3> QED
      BY <2>1, <3>1, <3>2, <3>10 DEF count
  <2>4. CASE ~ (val < v[K])
    <3> DEFINE more == Append(seq, val)
    <3>1. Added(v, K, count, val) = v
      BY <1>1, <1>5, <2>4 DEF Added
    <3>2. /\ DOMAIN more = 1 .. count + 1 /\ more[count + 1] = val
          /\ \A m \in 1 .. count : more[m] = seq[m]
      BY <1>1 DEF count
    <3> HIDE DEF more
    <3>3. from \in Injection(1 .. K, DOMAIN more)
      BY <1>1, <2>2, <3>2 DEF Witness, Injection, IsInjective
    <3>4. \A k \in 1 .. K : v[k] = more[from[k]]
      BY <1>1, <2>2, <3>2 DEF Witness, Injection
    <3>5. ASSUME NEW m \in DOMAIN more, \A k \in 1 .. K : from[k] # m, NEW k \in 1 .. K
          PROVE  v[k] <= more[m]
      <4>1. CASE m \in DOMAIN seq
        BY <1>1, <2>2, <3>2, <3>5, <4>1 DEF Witness
      <4>2. CASE m = count + 1
        <5>1. v[k] \in Nat /\ v[K] \in Nat
          BY <2>1
        <5>2. k = K \/ (k \in 1 .. K /\ k < K)
          BY <1>1
        <5>3. v[k] <= v[K]
          BY <2>1, <2>2, <5>1, <5>2 DEF Witness
        <5> QED
          BY <2>4, <3>2, <4>2, <5>1, <5>3
      <4> QED
        BY <1>1, <3>2, <4>1, <4>2
    <3>6. Witness(from, v, K, more)
      BY <2>2, <3>3, <3>4, <3>5 DEF Witness
    <3>7. AreSmallest(v, K, more)
      BY <3>6, Zenon DEF Witness, AreSmallest
    <3> QED
      BY <2>1, <3>1, <3>7 DEF count, more
  <2> QED
    BY <2>3, <2>4
<1> QED
  BY <1>1, <1>4, <1>5

-----------------------------------------------------------------------------
(* The inductive invariant *)

(* Where the flags can be: a fault stops init_sampler between its free and *)
(* its malloc; outside of that free and of the one at the end, the static  *)
(* pointer dangles only if a call was cut off.                             *)
Flags ==
  /\ phase \in {"idle", "calibrate", "renew", "sample", "release", "forget", "done"}
  /\ dangling \in BOOLEAN /\ cut \in BOOLEAN /\ fault \in BOOLEAN
  /\ fault => phase = "renew"
  /\ dangling /\ phase \in {"idle", "done", "calibrate"} => cut

(* What the second loop has done when it goes on, and why it has ended *)
Progress ==
  /\ taken \in Seq(Nat)
  /\ phase \in {"calibrate", "renew"} => taken = << >>
  /\ phase = "sample" => samplecount < param.maxsamples
  /\ phase = "release" =>
       /\ samplecount > 0
       /\ has_converged(values, samplecount) \/ samplecount = param.maxsamples

IInv == BuffersOwned /\ Flags /\ Progress /\ BestAreSmallest /\ ResultJustified

USE FcycAssumption

LEMMA InitOK ==
  ASSUME Init
  PROVE  IInv
<1>1. param \in Parameters /\ << >> \in Seq(Nat)
  BY DEF Init, FcycAssumption
<1>2. BuffersOwned
  BY <1>1 DEF Init, BuffersOwned
<1>3. Flags /\ Progress
  BY <1>1 DEF Init, Flags, Progress
<1>4. BestAreSmallest /\ ResultJustified
  BY DEF Init, BestAreSmallest, ResultJustified
<1> QED
  BY <1>2, <1>3, <1>4 DEF IInv

(* What the setters may set is a parameter. *)
LEMMA SetIsTyped ==
  ASSUME param \in Parameters, NEW s \in Settings, Set(s[1], s[2])
  PROVE  param' \in Parameters
<1>1. param' = [param EXCEPT ![s[1]] = s[2]]
  BY DEF Set
<1>2. CASE s \in {"kbest", "maxsamples", "min_reps"} \X (Nat \ {0})
  <2>1. s[2] \in Nat \ {0} /\ (s[1] = "kbest" \/ s[1] = "maxsamples" \/ s[1] = "min_reps")
    BY <1>2
  <2>2. CASE s[1] = "kbest"
    BY <1>1, <2>1, <2>2 DEF Parameters
  <2>3. CASE s[1] = "maxsamples"
    BY <1>1, <2>1, <2>3 DEF Parameters
  <2>4. CASE s[1] = "min_reps"
    BY <1>1, <2>1, <2>4 DEF Parameters
  <2> QED
    BY <2>1, <2>2, <2>3, <2>4
<1>3. CASE s \in {"min_ticks", "cache_bytes", "cache_block"} \X Nat
  <2>1. s[2] \in Nat /\ (s[1] = "min_ticks" \/ s[1] = "cache_bytes" \/ s[1] = "cache_block")
    BY <1>3
  <2>2. CASE s[1] = "min_ticks"
    BY <1>1, <2>1, <2>2 DEF Parameters
  <2>3. CASE s[1] = "cache_bytes"
    BY <1>1, <2>1, <2>3 DEF Parameters
  <2>4. CASE s[1] = "cache_block"
    BY <1>1, <2>1, <2>4 DEF Parameters
  <2> QED
    BY <2>1, <2>2, <2>3, <2>4
<1>4. CASE s \in {"clear_cache"} \X BOOLEAN
  <2>1. s[1] = "clear_cache" /\ s[2] \in BOOLEAN
    BY <1>4
  <2> QED
    BY <1>1, <2>1 DEF Parameters
<1> QED
  BY <1>2, <1>3, <1>4 DEF FcycAssumption

LEMMA SetKeeps ==
  ASSUME IInv, NEW s \in Settings, Set(s[1], s[2])
  PROVE  IInv'
<1>1. param' \in Parameters
  BY SetIsTyped DEF IInv, BuffersOwned
<1>2. cache_buf' \in {0, param'.cache_bytes}
  BY DEF Set, IInv, BuffersOwned
<1>3. /\ phase \in {"idle", "done"} /\ phase' = phase /\ taken' = taken
      /\ values' = values /\ dangling' = dangling /\ samplecount' = samplecount
      /\ cut' = cut /\ fault' = fault
  BY DEF Set, Outside, array
<1>4. BuffersOwned'
  BY <1>1, <1>2, <1>3 DEF IInv, BuffersOwned, Outside
<1>5. Flags' /\ Progress'
  BY <1>3 DEF IInv, Flags, Progress
<1>6. BestAreSmallest' /\ ResultJustified'
  BY <1>3 DEF BestAreSmallest, ResultJustified
<1> QED
  BY <1>4, <1>5, <1>6 DEF IInv

LEMMA CallKeeps ==
  ASSUME IInv, Call
  PROVE  IInv'
<1>1. /\ phase \in {"idle", "done"} /\ phase' = "calibrate" /\ taken' = << >>
      /\ param' = param /\ cache_buf' = cache_buf
      /\ values' = values /\ dangling' = dangling /\ samplecount' = samplecount
      /\ cut' = cut /\ fault' = fault
  BY DEF Call, Outside, array
<1>2. BuffersOwned'
  BY <1>1 DEF IInv, BuffersOwned, Outside
<1>3. Flags' /\ Progress'
  BY <1>1 DEF IInv, Flags, Progress
<1>4. BestAreSmallest' /\ ResultJustified'
  BY <1>1 DEF BestAreSmallest, ResultJustified
<1> QED
  BY <1>2, <1>3, <1>4 DEF IInv

LEMMA CalibrateKeeps ==
  ASSUME IInv, Calibrate
  PROVE  IInv'
<1>1. /\ phase = "calibrate" /\ phase' = "calibrate" /\ taken' = taken
      /\ param' = param /\ values' = values /\ dangling' = dangling
      /\ samplecount' = samplecount /\ cut' = cut /\ fault' = fault
  BY DEF Calibrate, settings, array
<1>2. cache_buf' \in {0, param'.cache_bytes}
  BY <1>1 DEF Calibrate, ClearCache, IInv, BuffersOwned
<1>3. BuffersOwned'
  BY <1>1, <1>2 DEF IInv, BuffersOwned, Outside
<1>4. Flags' /\ Progress'
  BY <1>1 DEF IInv, Flags, Progress
<1>5. BestAreSmallest' /\ ResultJustified'
  BY <1>1 DEF BestAreSmallest, ResultJustified
<1> QED
  BY <1>3, <1>4, <1>5 DEF IInv

(* The array that is freed may be dangling already: only if a call was cut *)
(* off, and then this free is the fault.                                   *)
LEMMA FreeOldValuesKeeps ==
  ASSUME IInv, FreeOldValues
  PROVE  IInv'
<1>1. /\ phase = "calibrate" /\ phase' = "renew" /\ taken' = taken
      /\ param' = param /\ cache_buf' = cache_buf /\ values' = values
      /\ samplecount' = samplecount /\ cut' = cut
      /\ dangling' \in BOOLEAN /\ fault' = dangling
  BY DEF FreeOldValues, settings
<1>2. BuffersOwned'
  BY <1>1 DEF IInv, BuffersOwned, Flags, Outside
<1>3. Flags' /\ Progress'
  BY <1>1 DEF IInv, Flags, Progress
<1>4. BestAreSmallest' /\ ResultJustified'
  BY <1>1 DEF BestAreSmallest, ResultJustified
<1> QED
  BY <1>2, <1>3, <1>4 DEF IInv

(* Of no samples the first none are the smallest. *)
LEMMA NoneAreSmallest ==
  ASSUME NEW v
  PROVE  AreSmallest(v, 0, << >>)
<1> DEFINE from == [k \in 1 .. 0 |-> 0]
<1>1. DOMAIN << >> = {} /\ 1 .. 0 = {}
  OBVIOUS
<1>2. from \in Injection(1 .. 0, DOMAIN << >>)
  BY <1>1 DEF Injection, IsInjective
<1> HIDE DEF from
<1> QED
  BY <1>1, <1>2 DEF AreSmallest

LEMMA StartSamplingKeeps ==
  ASSUME IInv, StartSampling
  PROVE  IInv'
<1>1. /\ phase = "renew" /\ phase' = "sample" /\ taken = << >> /\ taken' = << >>
      /\ param' = param /\ cache_buf' = cache_buf
      /\ values' = [k \in 1 .. param.kbest |-> 0] /\ dangling' = FALSE
      /\ samplecount' = 0 /\ cut' = cut /\ fault' = fault /\ fault = FALSE
  BY DEF StartSampling, settings, IInv, Progress, Flags
<1>2. param \in Parameters /\ param.kbest \in Nat \ {0} /\ param.maxsamples \in Nat \ {0}
  BY DEF IInv, BuffersOwned, Parameters
<1>3. values' \in Seq(Nat) /\ Len(values') = param.kbest
  BY <1>1, <1>2
<1>4. BuffersOwned'
  BY <1>1, <1>2, <1>3 DEF IInv, BuffersOwned, Outside
<1>5. Flags'
  BY <1>1 DEF IInv, Flags
<1>6. Progress'
  BY <1>1, <1>2 DEF IInv, Progress
<1>7. BestAreSmallest'
  <2>1. Len(taken') = 0
    BY <1>1
  <2>2. (IF samplecount' < param'.kbest THEN samplecount' ELSE param'.kbest) = 0
    BY <1>1, <1>2
  <2>3. AreSmallest(values', 0, taken')
    BY <1>1, NoneAreSmallest
  <2> QED
    BY <1>1, <2>1, <2>2, <2>3 DEF BestAreSmallest
<1>8. ResultJustified'
  BY <1>1 DEF ResultJustified
<1> QED
  BY <1>4, <1>5, <1>6, <1>7, <1>8 DEF IInv

(* One sample more, and the array holds the smallest again. *)
LEMMA SampleAdds ==
  ASSUME IInv, phase = "sample", NEW t \in Nat
  PROVE  LET v == add_sample(values, samplecount, t)
             n == samplecount + 1
         IN  /\ v \in Seq(Nat) /\ Len(v) = param.kbest
             /\ AreSmallest(v, IF n < param.kbest THEN n ELSE param.kbest, Append(taken, t))
<1>1. PICK K : K = param.kbest
  OBVIOUS
<1>2. K \in Nat \ {0}
  BY <1>1 DEF IInv, BuffersOwned, Parameters
<1>3. values \in [1 .. K -> Nat]
  <2>1. values \in Seq(Nat) /\ Len(values) = K
    BY <1>1 DEF IInv, BuffersOwned
  <2> QED
    BY <2>1
<1>4. taken \in Seq(Nat) /\ samplecount = Len(taken)
  BY DEF IInv, Progress, BestAreSmallest
<1>5. AreSmallest(values, Kept(Len(taken), K), taken)
  BY <1>1, <1>4 DEF IInv, BestAreSmallest, Kept
<1>6. PICK v, seq : v = values /\ seq = taken
  OBVIOUS
<1>7. v \in [1 .. K -> Nat] /\ seq \in Seq(Nat) /\ AreSmallest(v, Kept(Len(seq), K), seq)
  BY <1>3, <1>4, <1>5, <1>6
<1>8. /\ Added(v, K, Len(seq), t) \in [1 .. K -> Nat]
      /\ AreSmallest(Added(v, K, Len(seq), t), Kept(Len(seq) + 1, K), Append(seq, t))
  <2>1. v \in [1 .. K -> Nat]
    BY <1>7
  <2>2. seq \in Seq(Nat)
    BY <1>7
  <2>3. AreSmallest(v, Kept(Len(seq), K), seq)
    BY <1>7
  <2> QED
    BY <1>2, <2>1, <2>2, <2>3, AddSampleKeepsSmallest
<1>9. add_sample(values, samplecount, t) = Added(v, K, Len(seq), t)
  BY <1>1, <1>4, <1>6 DEF add_sample, Added
<1>10. Added(v, K, Len(seq), t) \in Seq(Nat) /\ Len(Added(v, K, Len(seq), t)) = K
  BY <1>2, <1>8
<1> QED
  BY <1>1, <1>4, <1>6, <1>8, <1>9, <1>10 DEF Kept

LEMMA SampleKeeps ==
  ASSUME IInv, NEW t \in Times, Sample(t)
  PROVE  IInv'
<1>1. /\ phase = "sample" /\ t \in Nat
      /\ param' = param /\ dangling' = dangling /\ cut' = cut /\ fault' = fault
  BY DEF Sample, settings, FcycAssumption
<1>2. /\ values' = IF t > 0 THEN add_sample(values, samplecount, t) ELSE values
      /\ samplecount' = IF t > 0 THEN samplecount + 1 ELSE samplecount
      /\ taken' = IF t > 0 THEN Append(taken, t) ELSE taken
      /\ phase' = IF ~ has_converged(values', samplecount') /\ samplecount' < param.maxsamples
                  THEN "sample" ELSE "release"
  BY DEF Sample
<1>3. /\ param \in Parameters /\ param.kbest \in Nat \ {0} /\ param.maxsamples \in Nat \ {0}
      /\ samplecount \in Nat /\ samplecount = Len(taken) /\ taken \in Seq(Nat)
      /\ samplecount < param.maxsamples /\ ~ dangling /\ ~ fault
  BY <1>1 DEF IInv, BuffersOwned, Parameters, Progress, BestAreSmallest, Flags
<1>4. phase' \in {"sample", "release"}
  BY <1>2
<1>5. samplecount' \in Nat /\ samplecount' = Len(taken') /\ taken' \in Seq(Nat)
  BY <1>1, <1>2, <1>3
<1>6. /\ values' \in Seq(Nat) /\ Len(values') = param.kbest
      /\ AreSmallest(values', IF samplecount' < param.kbest THEN samplecount' ELSE param.kbest, taken')
  <2>1. CASE t > 0
    BY <1>1, <1>2, <2>1, SampleAdds
  <2>2. CASE ~ (t > 0)
    BY <1>1, <1>2, <2>2 DEF IInv, BuffersOwned, BestAreSmallest
  <2> QED
    BY <2>1, <2>2
<1>7. BuffersOwned'
  <2>1. cache_buf' \in {0, param'.cache_bytes}
    BY <1>1 DEF Sample, ClearCache, IInv, BuffersOwned
  <2> QED
    BY <1>1, <1>3, <1>4, <1>5, <1>6, <2>1 DEF BuffersOwned, Outside
<1>8. Flags'
  BY <1>1, <1>3, <1>4 DEF IInv, Flags
<1>9. Progress'
  <2>1. samplecount' <= param.maxsamples
    BY <1>2, <1>3
  <2>2. has_converged(values', samplecount') => samplecount' > 0
    BY <1>3, <1>5 DEF has_converged
  <2>3. has_converged(values, samplecount)' <=> has_converged(values', samplecount')
    BY <1>1 DEF has_converged
  <2>4. phase' = "sample" => samplecount' < param'.maxsamples
    BY <1>1, <1>2
  <2>5. ASSUME phase' = "release"
        PROVE  /\ samplecount' > 0
               /\ has_converged(values, samplecount)' \/ samplecount' = param'.maxsamples
    <3>1. has_converged(values', samplecount') \/ ~ (samplecount' < param.maxsamples)
      BY <1>2, <2>5
    <3> QED
      BY <1>1, <1>3, <1>5, <2>1, <2>2, <2>3, <3>1
  <2> QED
    BY <1>4, <1>5, <2>4, <2>5 DEF Progress
<1>10. BestAreSmallest'
  BY <1>1, <1>5, <1>6 DEF BestAreSmallest
<1>11. ResultJustified'
  BY <1>4 DEF ResultJustified
<1> QED
  BY <1>7, <1>8, <1>9, <1>10, <1>11 DEF IInv

(* As many different indices as there are elements in the array *)
LEMMA ImageIsAsLarge ==
  ASSUME NEW K \in Nat, NEW D, NEW from \in Injection(1 .. K, D)
  PROVE  Cardinality({from[k] : k \in 1 .. K}) = K
<1> DEFINE S == {from[k] : k \in 1 .. K}
<1>1. from \in [1 .. K -> S] /\ \A x \in S : \E k \in 1 .. K : from[k] = x
  BY DEF Injection
<1>2. from \in Bijection(1 .. K, S)
  BY <1>1 DEF Injection, Surjection, Bijection, IsInjective
<1> HIDE DEF S
<1>3. ExistsBijection(1 .. K, S)
  BY <1>2 DEF ExistsBijection
<1>4. Cardinality(S) = K
  BY <1>3, FS_CountingElements
<1> QED
  BY <1>4 DEF S

(* The loop has ended because the K smallest agree, or because there are   *)
(* enough samples; what is returned is the first of the array.             *)
LEMMA ReleaseJustifies ==
  ASSUME IInv, phase = "release", result' = values[1], taken' = taken, param' = param
  PROVE  ResultJustified'
<1> DEFINE K == param.kbest
           n == IF samplecount < K THEN samplecount ELSE K
<1>1. /\ K \in Nat /\ K > 0 /\ samplecount \in Nat /\ samplecount > 0
      /\ samplecount = Len(taken) /\ taken \in Seq(Nat) /\ DOMAIN taken = 1 .. Len(taken)
  BY DEF IInv, BuffersOwned, Parameters, Progress, BestAreSmallest
<1>2. values \in [1 .. K -> Nat]
  BY <1>1 DEF IInv, BuffersOwned
<1>3. n \in 1 .. K /\ 1 \in 1 .. n
  BY <1>1
<1>4. PICK from : Witness(from, values, n, taken)
  <2>1. AreSmallest(values, n, taken)
    BY DEF IInv, BestAreSmallest
  <2> HIDE DEF n
  <2> QED
    BY <2>1, Zenon DEF AreSmallest, Witness
<1> HIDE DEF n
<1>5. \A k \in 1 .. n : values[1] <= values[k] /\ values[k] \in Nat
  <2>1. ASSUME NEW k \in 1 .. n
        PROVE  values[1] <= values[k] /\ values[k] \in Nat
    <3>1. k \in 1 .. K /\ 1 \in 1 .. K
      BY <1>1, <1>3
    <3>2. values[k] \in Nat /\ values[1] \in Nat
      BY <1>2, <3>1
    <3>3. CASE k = 1
      BY <3>2, <3>3
    <3>4. CASE k # 1
      <4>1. 1 < k
        BY <1>3, <3>4
      <4>2. values[1] <= values[k]
        BY <1>3, <1>4, <4>1 DEF Witness
      <4> QED
        BY <3>2, <4>2
    <3> QED
      BY <3>3, <3>4
  <2> QED
    BY <2>1
<1>6. \E k \in DOMAIN taken : taken[k] = values[1]
  <2>1. from[1] \in DOMAIN taken /\ taken[from[1]] = values[1]
    BY <1>3, <1>4 DEF Witness, Injection
  <2> QED
    BY <2>1
<1>7. ASSUME NEW m \in DOMAIN taken
      PROVE  values[1] <= taken[m]
  <2>1. CASE \E k \in 1 .. n : from[k] = m
    <3>1. PICK k \in 1 .. n : from[k] = m
      BY <2>1
    <3>2. taken[m] = values[k]
      BY <1>4, <3>1 DEF Witness
    <3> QED
      BY <1>5, <3>2
  <2>2. CASE \A k \in 1 .. n : from[k] # m
    BY <1>3, <1>4, <2>2 DEF Witness
  <2> QED
    BY <2>1, <2>2
<1>8. CASE samplecount = param.maxsamples
  BY <1>1, <1>6, <1>7, <1>8 DEF ResultJustified
<1>9. CASE has_converged(values, samplecount)
  <2>1. samplecount >= K /\ (EpsDen + EpsNum) * values[1] >= EpsDen * values[K]
    BY <1>9 DEF has_converged
  <2>2. n = K
    BY <1>1, <2>1 DEF n
  <2> DEFINE S == {from[k] : k \in 1 .. n}
  <2>3. S \in SUBSET DOMAIN taken
    BY <1>4 DEF Witness, Injection
  <2>4. Cardinality(S) = n
    <3>1. n \in Nat /\ from \in Injection(1 .. n, DOMAIN taken)
      BY <1>3, <1>4 DEF Witness
    <3>2. PICK c : c = n
      OBVIOUS
    <3>3. c \in Nat /\ from \in Injection(1 .. c, DOMAIN taken)
      BY <3>1, <3>2
    <3>4. Cardinality({from[k] : k \in 1 .. c}) = c
      BY <3>3, ImageIsAsLarge
    <3> QED
      BY <3>2, <3>4
  <2>5. ASSUME NEW m \in S
        PROVE  EpsDen * taken[m] <= (EpsDen + EpsNum) * values[1]
    <3>1. PICK k \in 1 .. n : m = from[k]
      OBVIOUS
    <3>2. taken[m] = values[k]
      BY <1>4, <3>1 DEF Witness
    <3>3. values[k] \in Nat /\ values[K] \in Nat /\ values[1] \in Nat
      BY <1>3, <1>5, <2>2
    <3>4. values[k] <= values[K]
      <4>1. k = K \/ k < K
        BY <1>1, <2>2
      <4>2. K \in 1 .. n
        BY <1>1, <2>2
      <4> QED
        BY <1>4, <3>3, <4>1, <4>2 DEF Witness
    <3>5. EpsDen \in Nat /\ EpsNum \in Nat
      BY DEF FcycAssumption
    <3>6. EpsDen * values[k] <= EpsDen * values[K]
      <4>1. \A d, a, b \in Nat : a <= b => d * a <= d * b
        OBVIOUS
      <4> QED
        BY <3>3, <3>4, <3>5, <4>1
    <3>7. /\ EpsDen * values[k] \in Nat /\ EpsDen * values[K] \in Nat
          /\ (EpsDen + EpsNum) * values[1] \in Nat
      BY <3>3, <3>5
    <3> QED
      BY <2>1, <3>2, <3>6, <3>7
  <2> HIDE DEF S
  <2>6. \E T \in SUBSET DOMAIN taken' :
          Cardinality(T) = param'.kbest /\ \A m \in T : EpsDen * taken'[m] <= (EpsDen + EpsNum) * result'
    BY <2>2, <2>3, <2>4, <2>5
  <2> QED
    BY <1>6, <1>7, <2>6 DEF ResultJustified, WithinEpsilon
<1> QED
  BY <1>8, <1>9 DEF IInv, Progress

LEMMA ReleaseKeeps ==
  ASSUME IInv, Release
  PROVE  IInv'
<1>1. /\ phase = "release" /\ phase' = "forget" /\ result' = values[1] /\ taken' = taken
      /\ param' = param /\ cache_buf' = cache_buf /\ values' = values /\ dangling' = TRUE
      /\ samplecount' = samplecount /\ cut' = cut /\ fault' = fault
  BY DEF Release, settings
<1>2. BuffersOwned'
  BY <1>1 DEF IInv, BuffersOwned, Outside
<1>3. Flags' /\ Progress'
  BY <1>1 DEF IInv, Flags, Progress
<1>4. BestAreSmallest'
  BY <1>1 DEF BestAreSmallest
<1>5. ResultJustified'
  BY <1>1, ReleaseJustifies
<1> QED
  BY <1>2, <1>3, <1>4, <1>5 DEF IInv

LEMMA ForgetKeeps ==
  ASSUME IInv, Forget
  PROVE  IInv'
<1>1. /\ phase = "forget" /\ phase' = "done" /\ taken' = taken
      /\ param' = param /\ cache_buf' = cache_buf /\ values' = << >> /\ dangling' = FALSE
      /\ samplecount' = samplecount /\ cut' = cut /\ fault' = fault
  BY DEF Forget, settings
<1>2. << >> \in Seq(Nat)
  OBVIOUS
<1>3. BuffersOwned'
  BY <1>1, <1>2 DEF IInv, BuffersOwned, Outside
<1>4. Flags' /\ Progress'
  BY <1>1 DEF IInv, Flags, Progress
<1>5. BestAreSmallest' /\ ResultJustified'
  BY <1>1 DEF BestAreSmallest, ResultJustified
<1> QED
  BY <1>3, <1>4, <1>5 DEF IInv

LEMMA AbandonKeeps ==
  ASSUME IInv, Abandon
  PROVE  IInv'
<1>1. /\ phase' = "idle" /\ taken' = << >> /\ fault = FALSE
      /\ param' = param /\ cache_buf' = cache_buf /\ values' = values
      /\ dangling' = dangling /\ samplecount' = samplecount
      /\ cut' = (cut \/ dangling) /\ fault' = fault
  BY DEF Abandon, settings, array, IInv, Flags
<1>2. << >> \in Seq(Nat)
  OBVIOUS
<1>3. BuffersOwned'
  BY <1>1 DEF IInv, BuffersOwned, Flags, Outside
<1>4. Flags' /\ Progress'
  BY <1>1, <1>2 DEF IInv, Flags, Progress
<1>5. BestAreSmallest' /\ ResultJustified'
  BY <1>1 DEF BestAreSmallest, ResultJustified
<1> QED
  BY <1>3, <1>4, <1>5 DEF IInv

LEMMA StutterKeeps ==
  ASSUME IInv, UNCHANGED vars
  PROVE  IInv'
BY DEF vars, settings, array, IInv, BuffersOwned, Flags, Progress, BestAreSmallest,
       ResultJustified, WithinEpsilon, Outside, has_converged, AreSmallest

-----------------------------------------------------------------------------
(***************************************************************************)
(* Every state of fsec and of its setters satisfies the invariant,         *)
(* wherever calls are abandoned.                                           *)
(***************************************************************************)
THEOREM Invariant == Spec => []IInv
<1>1. Init => IInv
  BY InitOK
<1>2. IInv /\ [Next]_vars => IInv'
  <2> SUFFICES ASSUME IInv, [Next]_vars PROVE IInv'
    OBVIOUS
  <2>1. CASE Call
    BY <2>1, CallKeeps
  <2>2. CASE \E s \in Settings : Set(s[1], s[2])
    BY <2>2, SetKeeps
  <2>3. CASE Calibrate
    BY <2>3, CalibrateKeeps
  <2>4. CASE FreeOldValues
    BY <2>4, FreeOldValuesKeeps
  <2>5. CASE StartSampling
    BY <2>5, StartSamplingKeeps
  <2>6. CASE \E t \in Times : Sample(t)
    BY <2>6, SampleKeeps
  <2>7. CASE Release
    BY <2>7, ReleaseKeeps
  <2>8. CASE Forget
    BY <2>8, ForgetKeeps
  <2>9. CASE Abandon
    BY <2>9, AbandonKeeps
  <2>10. CASE UNCHANGED vars
    BY <2>10, StutterKeeps
  <2> QED
    BY <2>1, <2>2, <2>3, <2>4, <2>5, <2>6, <2>7, <2>8, <2>9, <2>10 DEF Next, Run
<1> QED
  BY <1>1, <1>2, PTL DEF Spec

(***************************************************************************)
(* The static pointers of fcyc.c stay sound from call to call: an array is *)
(* freed twice only after a call was cut off between a free and the        *)
(* assignment after it, and the buffer that clears the cache has the size  *)
(* its loop believes it has.                                               *)
(***************************************************************************)
THEOREM BuffersStayOwned == Spec => []BuffersOwned
<1>1. IInv => BuffersOwned
  BY DEF IInv
<1> QED
  BY <1>1, Invariant, PTL

(***************************************************************************)
(* add_sample keeps the K smallest samples of the running call in          *)
(* ascending order, for any K and any samples.                             *)
(***************************************************************************)
THEOREM ArrayHoldsTheSmallest == Spec => []BestAreSmallest
<1>1. IInv => BestAreSmallest
  BY DEF IInv
<1> QED
  BY <1>1, Invariant, PTL

(***************************************************************************)
(* What fsec returns is the smallest sample it took, and either K of them  *)
(* lie within epsilon above it or there were maxsamples.                   *)
(***************************************************************************)
THEOREM ResultsAreJustified == Spec => []ResultJustified
<1>1. IInv => ResultJustified
  BY DEF IInv
<1> QED
  BY <1>1, Invariant, PTL
=============================================================================
