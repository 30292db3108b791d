-------------------------- MODULE ReplayLineProofs --------------------------
(***************************************************************************)
(* What the proofs about the replays of a trace file, in ReplayProofs, use *)
(* of a single line of it.                                                 *)
(*                                                                         *)
(* That the ids of the file are used as a program uses its pointers is     *)
(* assumed of the file (AsAProgram) and carried over to the operations     *)
(* that read_trace stores (AcceptedLinesFit).                              *)
(*                                                                         *)
(* Every line is a call of this repository's allocator.  The words of the  *)
(* memory that serve the ids before the line serve them after it as        *)
(* BlockHeap says (LineAnswered), by the lemmas of WordHeapProofs; the     *)
(* range set goes on having what is held on record (AllocRecorded,         *)
(* ReallocRecorded, FreeRecorded), by those of RangeSetProofs; and every   *)
(* payload in use goes on holding its pattern (FilledLine, FreedLine).     *)
(***************************************************************************)
EXTENDS Replay, SequenceTheorems, FiniteSetTheorems, WellFoundedInduction, TLAPS

(* A set of naturals that is not empty has a least element. *)
LEMMA LeastNatural ==
  ASSUME NEW T \in SUBSET Nat, T # {}
  PROVE  \E n \in T : \A m \in T : n <= m
<1>1. PICK n \in T : \A m \in T : ~ (<<m, n>> \in OpToRel(<, Nat))
  BY NatLessThanWellFounded, WFMin
<1>2. ASSUME NEW m \in T
      PROVE  n <= m
  <2>1. ASSUME m < n PROVE FALSE
    <3>1. <<m, n>> \in Nat \X Nat /\ <<m, n>>[1] < <<m, n>>[2]
      BY <2>1
    <3>2. <<m, n>> \in OpToRel(<, Nat)
      BY <3>1, Zenon DEF OpToRel
    <3> QED
      BY <1>1, <3>2
  <2> QED
    BY <2>1
<1> QED
  BY <1>2

-----------------------------------------------------------------------------
(* The fold that computes a sum *)

Some(s) == CHOOSE x \in s : TRUE

(* What the fold computes for s, if g is what it computes for smaller sets *)
Add(f, g, s) == IF s = {} THEN 0 ELSE f[Some(s)] + g[s \ {Some(s)}]

IsSum(f, g, D) == g = [s \in SUBSET D |-> Add(f, g, s)]

(* For all sets of at most n elements there is such a function. *)
LEMMA SumUpTo ==
  ASSUME NEW f, NEW D, IsFiniteSet(D), NEW n \in Nat
  PROVE  \E g : \A s \in SUBSET D : Cardinality(s) <= n => g[s] = Add(f, g, s)
<1> DEFINE Upto(m, g) == \A s \in SUBSET D : Cardinality(s) <= m => g[s] = Add(f, g, s)
           Bad == {m \in Nat : ~ \E g : Upto(m, g)}
<1>1. ASSUME NEW s \in SUBSET D
      PROVE  /\ IsFiniteSet(s) /\ Cardinality(s) \in Nat /\ (Cardinality(s) = 0 <=> s = {})
             /\ s # {} => s \ {Some(s)} \in SUBSET D
                          /\ Cardinality(s \ {Some(s)}) = Cardinality(s) - 1
  <2>1. IsFiniteSet(s)
    BY FS_Subset
  <2>2. s # {} => Some(s) \in s
    BY DEF Some
  <2>3. Cardinality(s) \in Nat /\ (Cardinality(s) = 0 <=> s = {})
    BY <2>1, FS_CardinalityType, FS_EmptySet
  <2>4. Some(s) \in s => Cardinality(s \ {Some(s)}) = Cardinality(s) - 1
    BY <2>1, FS_RemoveElement
  <2> QED
    BY <2>1, <2>2, <2>3, <2>4
<1>2. 0 \notin Bad
  <2> DEFINE z == [s \in SUBSET D |-> 0]
  <2>1. ASSUME NEW s \in SUBSET D, Cardinality(s) <= 0
        PROVE  z[s] = Add(f, z, s)
    <3>1. s = {}
      <4>1. Cardinality(s) \in Nat /\ (Cardinality(s) = 0 => s = {})
        BY <1>1
      <4> QED
        BY <2>1, <4>1
    <3> QED
      BY <3>1 DEF Add
  <2>2. Upto(0, z)
    BY <2>1
  <2> QED
    BY <2>2
<1>3. ASSUME NEW m \in Nat, m \notin Bad
      PROVE  m + 1 \notin Bad
  <2>1. PICK g : Upto(m, g)
    BY <1>3
  <2> DEFINE h == [s \in SUBSET D |-> IF Cardinality(s) <= m THEN g[s] ELSE Add(f, g, s)]
  <2>2. ASSUME NEW s \in SUBSET D, Cardinality(s) <= m + 1
        PROVE  h[s] = Add(f, h, s)
    <3>1. h[s] = Add(f, g, s)
      BY <2>1
    <3>2. s # {} => h[s \ {Some(s)}] = g[s \ {Some(s)}]
      BY <1>1, <2>2
    <3> QED
      BY <3>1, <3>2 DEF Add
  <2>3. Upto(m + 1, h)
    BY <2>2
  <2> QED
    BY <2>3
<1>4. Bad = {}
  <2> SUFFICES ASSUME Bad # {} PROVE FALSE
    OBVIOUS
  <2>1. PICK k \in Bad : \A m \in Bad : k <= m
    BY LeastNatural
  <2> HIDE DEF Bad
  <2>2. k \in Nat /\ k # 0
    BY <1>2, <2>1 DEF Bad
  <2>3. k - 1 \in Nat /\ k - 1 \notin Bad
    BY <2>1, <2>2
  <2> QED
    BY <1>3, <2>1, <2>2, <2>3
<1> QED
  <2>1. n \notin Bad
    BY <1>4
  <2> QED
    BY <2>1

(* And one for all subsets of the set. *)
LEMMA SumExists ==
  ASSUME NEW f, NEW D, IsFiniteSet(D)
  PROVE  \E g : IsSum(f, g, D)
<1>1. PICK g : \A s \in SUBSET D : Cardinality(s) <= Cardinality(D) => g[s] = Add(f, g, s)
  <2>1. Cardinality(D) \in Nat
    BY FS_CardinalityType
  <2> QED
    BY <2>1, SumUpTo
<1>2. \A s \in SUBSET D : Cardinality(s) <= Cardinality(D)
  BY FS_Subset
<1> DEFINE h == [s \in SUBSET D |-> g[s]]
<1>3. ASSUME NEW s \in SUBSET D
      PROVE  h[s] = Add(f, h, s)
  <2>1. s # {} => s \ {Some(s)} \in SUBSET D
    OBVIOUS
  <2> QED
    BY <1>1, <1>2, <2>1 DEF Add
<1>4. IsSum(f, h, D)
  BY <1>3 DEF IsSum
<1> QED
  BY <1>4

(* The set without one of its elements *)
LEMMA Without ==
  ASSUME NEW D, IsFiniteSet(D), NEW s \in SUBSET D, NEW x \in s
  PROVE  /\ s \ {x} \in SUBSET D /\ Cardinality(s) \in Nat
         /\ Cardinality(s \ {x}) \in Nat /\ Cardinality(s \ {x}) = Cardinality(s) - 1
<1>1. IsFiniteSet(s) /\ IsFiniteSet(s \ {x})
  BY FS_Subset
<1> QED
  BY <1>1, FS_CardinalityType, FS_RemoveElement

(* Any element may be the last one added. *)
LEMMA SumOne ==
  ASSUME NEW f, NEW D, IsFiniteSet(D), NEW g, IsSum(f, g, D), \A k \in D : f[k] \in Int,
         NEW s \in SUBSET D
  PROVE  g[s] \in Int /\ \A x \in s : g[s] = f[x] + g[s \ {x}]
<1> DEFINE Good(t) == g[t] \in Int /\ \A x \in t : g[t] = f[x] + g[t \ {x}]
           Bad == {n \in Nat : \E t \in SUBSET D : Cardinality(t) = n /\ ~ Good(t)}
<1>1. ASSUME NEW t \in SUBSET D, \A u \in SUBSET D : Cardinality(u) < Cardinality(t) => Good(u)
      PROVE  Good(t)
  <2>1. g[t] = Add(f, g, t)
    BY DEF IsSum
  <2>2. CASE t = {}
    BY <2>1, <2>2 DEF Add
  <2>3. CASE t # {}
    <3>1. PICK y : y = Some(t) /\ y \in t
      BY <2>3 DEF Some
    <3>2. g[t] = f[y] + g[t \ {y}] /\ f[y] \in Int
      BY <2>1, <2>3, <3>1 DEF Add
    <3>3. Good(t \ {y})
      <4>1. t \ {y} \in SUBSET D
        OBVIOUS
      <4>2. Cardinality(t \ {y}) = Cardinality(t) - 1 /\ Cardinality(t) \in Nat
        BY <3>1, Without
      <4>3. Cardinality(t \ {y}) < Cardinality(t)
        BY <4>2
      <4> HIDE DEF Good
      <4> QED
        BY <1>1, <4>1, <4>3
    <3>4. ASSUME NEW x \in t, x # y
          PROVE  g[t] = f[x] + g[t \ {x}]
      <4>1. Good(t \ {x})
        BY <1>1, Without
      <4>2. x \in t \ {y} /\ y \in t \ {x}
        BY <3>1, <3>4
      <4>3. g[t \ {y}] = f[x] + g[(t \ {y}) \ {x}]
        BY <3>3, <4>2
      <4>4. g[t \ {x}] = f[y] + g[(t \ {x}) \ {y}]
        BY <4>1, <4>2
      <4>5. (t \ {y}) \ {x} = (t \ {x}) \ {y}
        OBVIOUS
      <4>6. g[(t \ {x}) \ {y}] \in Int
        <5>1. t \ {x} \in SUBSET D
          OBVIOUS
        <5>2. Cardinality((t \ {x}) \ {y}) < Cardinality(t)
          <6>1. Cardinality((t \ {x}) \ {y}) = Cardinality(t \ {x}) - 1
            BY <4>2, <5>1, Without
          <6>2. Cardinality(t \ {x}) = Cardinality(t) - 1 /\ Cardinality(t) \in Nat
            BY Without
          <6> QED
            BY <6>1, <6>2
        <5> QED
          BY <1>1, <5>2
      <4>7. f[x] \in Int /\ f[y] \in Int
        BY <3>1
      <4> HIDE DEF Good
      <4>8. \A a, b, c, d, e \in Int : (a = b + c /\ c = d + e) => a = d + (b + e)
        OBVIOUS
      <4>9. g[t] \in Int /\ g[t \ {y}] \in Int /\ g[t \ {x}] \in Int
        BY <3>2, <3>3, <4>1 DEF Good
      <4>10. g[t] = f[y] + g[t \ {y}] /\ g[t \ {y}] = f[x] + g[(t \ {x}) \ {y}]
        BY <3>2, <4>3, <4>5
      <4> QED
        BY ONLY <4>4, <4>6, <4>7, <4>8, <4>9, <4>10
    <3>5. g[t \ {y}] \in Int
      BY <3>3
    <3>6. g[t] \in Int
      BY ONLY <3>2, <3>5
    <3>7. \A x \in t : g[t] = f[x] + g[t \ {x}]
      BY <3>2, <3>4
    <3> QED
      BY <3>6, <3>7
  <2> QED
    BY <2>2, <2>3
<1>2. Bad = {}
  <2> SUFFICES ASSUME Bad # {} PROVE FALSE
    OBVIOUS
  <2>1. PICK n \in Bad : \A m \in Bad : n <= m
    BY LeastNatural
  <2>2. PICK t \in SUBSET D : Cardinality(t) = n /\ ~ Good(t)
    BY <2>1
  <2>3. ASSUME NEW u \in SUBSET D, Cardinality(u) < Cardinality(t)
        PROVE  Good(u)
    <3>1. Cardinality(u) \in Nat
      BY FS_Subset, FS_CardinalityType
    <3> QED
      BY <2>1, <2>2, <2>3, <3>1
  <2> HIDE DEF Good
  <2> QED
    BY <1>1, <2>2, <2>3
<1>3. Cardinality(s) \in Nat
  BY FS_Subset, FS_CardinalityType
<1> HIDE DEF Good
<1>4. Good(s)
  BY <1>2, <1>3
<1> QED
  BY <1>4 DEF Good

(* What is added of a subset does not depend on the whole set. *)
LEMMA SumOfSubset ==
  ASSUME NEW f, NEW D, NEW g, IsSum(f, g, D), IsFiniteSet(D),
         NEW s \in SUBSET D, NEW h, IsSum(f, h, s)
  PROVE  h[s] = g[s]
<1> DEFINE Bad == {n \in Nat : \E t \in SUBSET s : Cardinality(t) = n /\ h[t] # g[t]}
<1>1. IsFiniteSet(s)
  BY FS_Subset
<1>2. Bad = {}
  <2> SUFFICES ASSUME Bad # {} PROVE FALSE
    OBVIOUS
  <2>1. PICK n \in Bad : \A m \in Bad : n <= m
    BY LeastNatural
  <2>2. PICK t \in SUBSET s : Cardinality(t) = n /\ h[t] # g[t]
    BY <2>1
  <2>3. h[t] = Add(f, h, t) /\ g[t] = Add(f, g, t)
    BY DEF IsSum
  <2>4. t # {}
    BY <2>2, <2>3 DEF Add
  <2>5. Some(t) \in t
    BY <2>4 DEF Some
  <2>6. /\ t \ {Some(t)} \in SUBSET s /\ Cardinality(t \ {Some(t)}) \in Nat
        /\ Cardinality(t \ {Some(t)}) = n - 1
    BY <1>1, <2>2, <2>5, Without
  <2>7. h[t \ {Some(t)}] = g[t \ {Some(t)}]
    BY <2>1, <2>6
  <2> QED
    BY <2>2, <2>3, <2>7 DEF Add
<1>3. s \in SUBSET s /\ Cardinality(s) \in Nat
  BY <1>1, FS_CardinalityType
<1> QED
  BY <1>2, <1>3

(* Spans of natural length that lie apart below m have no more than m      *)
(* together.                                                               *)
LEMMA SumOfSpans ==
  ASSUME NEW f, NEW D, IsFiniteSet(D), NEW g, IsSum(f, g, D), NEW lo,
         \A k \in D : f[k] \in Nat /\ lo[k] \in Nat,
         \A k, l \in D : (k # l /\ f[k] # 0 /\ f[l] # 0) =>
           lo[k] + f[k] <= lo[l] \/ lo[l] + f[l] <= lo[k],
         NEW m \in Nat, \A k \in D : f[k] # 0 => lo[k] + f[k] <= m
  PROVE  g[D] \in 0 .. m
<1> DEFINE Below(s, b) == \A k \in s : f[k] # 0 => lo[k] + f[k] <= b
           Bad == {n \in Nat : \E s \in SUBSET D : \E b \in Nat :
                     Cardinality(s) = n /\ Below(s, b) /\ g[s] \notin 0 .. b}
<1>1. Bad = {}
  <2> SUFFICES ASSUME Bad # {} PROVE FALSE
    OBVIOUS
  <2>1. PICK n \in Bad : \A l \in Bad : n <= l
    BY LeastNatural
  <2>2. PICK s \in SUBSET D, b \in Nat : Cardinality(s) = n /\ Below(s, b) /\ g[s] \notin 0 .. b
    BY <2>1
  <2>3. s # {}
    <3>1. s = {} => g[s] = 0
      BY DEF IsSum, Add
    <3> QED
      BY <2>2, <3>1
  <2>4. ASSUME NEW x \in s, NEW c \in Nat, Below(s \ {x}, c)
        PROVE  g[s \ {x}] \in 0 .. c /\ g[s] = f[x] + g[s \ {x}] /\ f[x] \in Nat
    <3>1. s \ {x} \in SUBSET D /\ Cardinality(s \ {x}) \in Nat /\ Cardinality(s \ {x}) = n - 1
      BY <2>2, Without
    <3>2. \A k \in D : f[k] \in Int
      OBVIOUS
    <3>3. g[s] = f[x] + g[s \ {x}]
      BY <3>1, <3>2, SumOne
    <3>4. n - 1 \notin Bad
      BY <2>1, <3>1
    <3>5. g[s \ {x}] \in 0 .. c
      BY <2>4, <3>1, <3>4
    <3> QED
      BY <3>3, <3>5
  <2>5. CASE \E x \in s : f[x] = 0
    <3>1. PICK x \in s : f[x] = 0
      BY <2>5
    <3>2. Below(s \ {x}, b)
      BY <2>2
    <3>3. g[s \ {x}] \in 0 .. b /\ g[s] = f[x] + g[s \ {x}]
      BY <2>4, <3>2
    <3>4. g[s] = g[s \ {x}]
      BY ONLY <3>1, <3>3
    <3> QED
      BY <2>2, <3>3, <3>4
  <2>6. CASE \A x \in s : f[x] # 0
    <3>1. \A k \in s : lo[k] + f[k] <= b /\ f[k] \in Nat /\ lo[k] \in Nat /\ b - lo[k] \in Nat
      BY <2>2, <2>6
    <3> DEFINE T == {b - lo[k] : k \in s}
    <3>2. T \in SUBSET Nat /\ T # {}
      BY <2>3, <3>1
    <3>3. PICK d \in T : \A e \in T : d <= e
      BY <3>2, LeastNatural
    <3>4. PICK x \in s : d = b - lo[x]
      BY <3>3
    <3>5. \A k \in s : lo[k] <= lo[x]
      <4> TAKE k \in s
      <4>1. b - lo[x] <= b - lo[k]
        BY <3>3, <3>4
      <4> QED
        BY <3>1, <4>1
    <3>6. Below(s \ {x}, lo[x])
      <4> SUFFICES ASSUME NEW k \in s \ {x} PROVE lo[k] + f[k] <= lo[x]
        OBVIOUS
      <4>1. lo[k] + f[k] <= lo[x] \/ lo[x] + f[x] <= lo[k]
        BY <2>6
      <4>2. lo[k] <= lo[x] /\ f[x] # 0 /\ lo[k] \in Nat /\ lo[x] \in Nat /\ f[x] \in Nat
        BY <2>6, <3>1, <3>5
      <4> QED
        BY <4>1, <4>2
    <3>7. lo[x] \in Nat /\ lo[x] + f[x] <= b
      BY <3>1
    <3> HIDE DEF Below, T
    <3>8. g[s \ {x}] \in 0 .. lo[x] /\ g[s] = f[x] + g[s \ {x}] /\ f[x] \in Nat
      BY <2>4, <3>6, <3>7
    <3> QED
      BY <2>2, <3>7, <3>8
  <2> QED
    BY <2>5, <2>6
<1>2. Cardinality(D) \in Nat /\ Below(D, m)
  BY FS_CardinalityType
<1> HIDE DEF Below
<1> QED
  BY <1>1, <1>2


-----------------------------------------------------------------------------
(* The lines of a trace *)

Line == [type : STRING, index : Int, size : Nat]

(* What replays rely on: the lines of a file that read_trace has accepted. *)
LinesFit(lines) ==
  /\ lines \in Seq(Line) /\ AsAProgram(lines)
  /\ \A k \in DOMAIN lines : /\ IsLine(lines[k]) /\ lines[k].index \in Ids \cup {-1}
                              /\ lines[k].type \in {"a", "r", "f"}

(* One more line puts its id in use or out of use, and leaves the others.  *)
LEMMA InUseStep ==
  ASSUME NEW lines \in Seq(Line), NEW n \in 1 .. Len(lines), NEW id
  PROVE  InUseAfter(lines, n, id) <=>
           IF lines[n].index = id THEN lines[n].type # "f" ELSE InUseAfter(lines, n - 1, id)
<1>1. CASE lines[n].index = id
  <2>1. \A j \in 1 .. n : j # n => n \in j + 1 .. n
    OBVIOUS
  <2>2. n + 1 .. n = {}
    OBVIOUS
  <2> QED
    BY <1>1, <2>1, <2>2 DEF InUseAfter
<1>2. CASE lines[n].index # id
  <2>1. 1 .. n = (1 .. n - 1) \cup {n}
    OBVIOUS
  <2>2. \A j \in 1 .. n - 1 : j + 1 .. n = (j + 1 .. n - 1) \cup {n}
    OBVIOUS
  <2> QED
    BY <1>2, <2>1, <2>2 DEF InUseAfter
<1> QED
  BY <1>1, <1>2

(* At the start of a replay nothing is in use. *)
LEMMA NothingInUse == \A lines, id : ~ InUseAfter(lines, 0, id)
BY DEF InUseAfter

(* Of finitely many numbers one bounds the others. *)
LEMMA Bounded ==
  ASSUME NEW n \in Nat, NEW f, \A k \in 1 .. n : f[k] \in Int
  PROVE  \E b \in Nat : \A k \in 1 .. n : f[k] <= b
<1> DEFINE Has(m) == \E b \in Nat : \A k \in 1 .. m : f[k] <= b
           T == {m \in 0 .. n : ~ Has(m)}
<1> SUFFICES T = {}
  OBVIOUS
<1>1. ASSUME T # {} PROVE FALSE
  <2>1. T \in SUBSET Nat
    OBVIOUS
  <2>2. PICK m \in T : \A l \in T : m <= l
    BY <1>1, <2>1, LeastNatural, Zenon
  <2>3. m # 0
    <3>1. Has(0)
      OBVIOUS
    <3> QED
      BY <2>2, <3>1
  <2>4. Has(m - 1)
    <3>1. m - 1 \in 0 .. n /\ ~ (m <= m - 1)
      BY <2>2, <2>3
    <3> HIDE DEF Has
    <3> QED
      BY <2>2, <3>1
  <2>5. PICK b \in Nat : \A k \in 1 .. m - 1 : f[k] <= b
    BY <2>4
  <2>6. PICK c \in Nat : b <= c /\ f[m] <= c
    <3>1. f[m] \in Int
      BY <2>2, <2>3
    <3>2. f[m] <= b \/ (f[m] \in Nat /\ b <= f[m])
      BY <3>1
    <3> QED
      BY <3>2
  <2>7. \A k \in 1 .. m : f[k] <= c
    <3> TAKE k \in 1 .. m
    <3>1. CASE k = m
      BY <2>6, <3>1
    <3>2. CASE k # m
      <4>1. k \in 1 .. m - 1
        BY <2>2, <3>2
      <4>2. f[k] \in Int /\ f[k] <= b
        BY <2>2, <2>5, <4>1
      <4> QED
        BY <2>6, <4>2
    <3> QED
      BY <3>1, <3>2
  <2> QED
    BY <2>2, <2>7
<1> QED
  BY <1>1

(* The largest of a set of numbers that has a bound. *)
LEMMA MaxIsLargest ==
  ASSUME NEW S \in SUBSET Nat, NEW x0 \in S, NEW b \in Nat, \A x \in S : x <= b
  PROVE  Max(S) \in S /\ \A x \in S : x <= Max(S)
<1> DEFINE Bounds == {n \in Nat : \A x \in S : x <= n}
<1>1. Bounds \in SUBSET Nat /\ Bounds # {}
  OBVIOUS
<1> HIDE DEF Bounds
<1>2. PICK n \in Bounds : \A m \in Bounds : n <= m
  BY <1>1, LeastNatural, Zenon
<1> USE DEF Bounds
<1>3. n \in S
  <2>1. CASE n = 0
    BY <2>1
  <2>2. CASE n # 0 /\ n \notin S
    <3>1. \A x \in S : x <= n - 1
      BY <1>2, <2>2
    <3>2. n - 1 \in Bounds
      BY <2>2, <3>1
    <3> QED
      BY <3>2, <1>2
  <2> QED
    BY <2>1, <2>2
<1>4. n \in S /\ \A y \in S : n >= y
  BY <1>2, <1>3
<1>5. Max(S) \in S /\ \A y \in S : Max(S) >= y
  BY <1>4, Zenon DEF Max
<1> QED
  BY <1>5

(* What read_trace accepts is a trace whose ids fit its arrays. *)
LEMMA AcceptedLinesFit ==
  ASSUME file \in Files, ReadError = "none"
  PROVE  LinesFit(Read)
<1> DEFINE n == MinOf(file.num_ops, Len(file.lines))
<1>1. /\ file.num_ops \in Nat /\ file.num_ids \in Nat \ {0} /\ file.lines \in Seq(Line)
      /\ \A k \in DOMAIN file.lines : IsLine(file.lines[k])
      /\ AsAProgram(file.lines)
  BY ReplayAssumption DEF Line
<1>2. n \in 0 .. Len(file.lines)
  BY <1>1 DEF MinOf
<1> HIDE DEF n
<1>3. /\ Read \in Seq(Line) /\ Len(Read) = n
      /\ \A k \in 1 .. n : Read[k] = file.lines[k]
  BY <1>1, <1>2 DEF Read, n
<1>4. DOMAIN Read = 1 .. n /\ DOMAIN file.lines = 1 .. Len(file.lines)
  BY <1>1, <1>3
<1> HIDE DEF Read
<1>5. \A k \in 1 .. n : \A id : InUseAfter(Read, k - 1, id) <=> InUseAfter(file.lines, k - 1, id)
  <2> TAKE k \in 1 .. n
  <2> TAKE id
  <2>1. \A j \in 1 .. k - 1 : Read[j] = file.lines[j]
    BY <1>2, <1>3
  <2>2. \A j \in 1 .. k - 1 : \A l \in j + 1 .. k - 1 : l \in 1 .. k - 1
    OBVIOUS
  <2> QED
    BY <2>1, <2>2 DEF InUseAfter
<1>6. AsAProgram(Read)
  <2> SUFFICES ASSUME NEW k \in 1 .. n
               PROVE  LET used == InUseAfter(Read, k - 1, Read[k].index)
                      IN  /\ Read[k].type = "a" => ~ used
                          /\ Read[k].type = "r" => used
                          /\ Read[k].type = "f" => used \/ Read[k].index = -1
    BY <1>4 DEF AsAProgram
  <2>1. k \in DOMAIN file.lines /\ Read[k] = file.lines[k]
    BY <1>2, <1>3, <1>4
  <2> QED
    BY <1>1, <1>5, <2>1, Zenon DEF AsAProgram
<1>7. \A k \in 1 .. n : IsLine(Read[k]) /\ Read[k] \in Line
  BY <1>1, <1>2, <1>3, <1>4
<1>8. \A k \in 1 .. n : Read[k].type \in {"a", "r", "f"} /\ max_index = file.num_ids - 1
  BY <1>4, Zenon DEF ReadError
<1>9. \A k \in 1 .. n : Read[k].type # "f" => Read[k].index \in Ids
  <2> SUFFICES ASSUME NEW k0 \in 1 .. n, Read[k0].type # "f" PROVE Read[k0].index \in Ids
    OBVIOUS
  <2> DEFINE S == {0} \cup {Read[k].index : k \in {j \in DOMAIN Read : Read[j].type # "f"}}
  <2>1. S \in SUBSET Nat /\ 0 \in S
    BY <1>4, <1>7 DEF IsLine
  <2>2. PICK b \in Nat : \A k \in 1 .. n : Read[k].index <= b
    <3> DEFINE g == [k \in 1 .. n |-> Read[k].index]
    <3>1. \A k \in 1 .. n : g[k] \in Int /\ g[k] = Read[k].index
      BY <1>7 DEF Line
    <3>2. n \in Nat
      BY <1>2
    <3> HIDE DEF g
    <3>3. \E b \in Nat : \A k \in 1 .. n : g[k] <= b
      BY <3>1, <3>2, Bounded, Zenon
    <3> QED
      BY <3>1, <3>3
  <2>3. \A x \in S : x <= b
    BY <1>4, <2>2
  <2>4. Read[k0].index \in S
    BY <1>4
  <2>5. max_index = Max(S)
    BY DEF max_index
  <2> HIDE DEF S
  <2>6. \A x \in S : x <= Max(S)
    BY <2>1, <2>3, MaxIsLargest
  <2>7. Read[k0].index \in Nat /\ Read[k0].index <= file.num_ids - 1
    BY <1>8, <2>1, <2>4, <2>5, <2>6
  <2> QED
    BY <1>1, <2>7 DEF Ids
<1>10. \A k \in 1 .. n : Read[k].type = "f" => Read[k].index \in Ids \cup {-1}
  <2> SUFFICES ASSUME NEW k \in 1 .. n, Read[k].type = "f", Read[k].index # -1
               PROVE  Read[k].index \in Ids
    OBVIOUS
  <2>1. InUseAfter(Read, k - 1, Read[k].index)
    BY <1>4, <1>6 DEF AsAProgram
  <2>2. PICK j \in 1 .. k - 1 : Read[j].index = Read[k].index /\ Read[j].type # "f"
    BY <2>1 DEF InUseAfter
  <2>3. j \in 1 .. n
    BY <1>2
  <2> QED
    BY <1>9, <2>2, <2>3
<1> QED
  BY <1>3, <1>4, <1>6, <1>7, <1>8, <1>9, <1>10 DEF LinesFit

-----------------------------------------------------------------------------
(* The payload bytes in use *)

(* The last lines, of the first j, about the ids. *)
LastLines(lines, ids, j) ==
  {k \in 1 .. j : /\ lines[k].index \in ids
                  /\ \A l \in k + 1 .. j : lines[l].index # lines[k].index}

Weights(lines) == [k \in DOMAIN lines |-> IF lines[k].type = "f" THEN 0 ELSE lines[k].size]

(* g adds up the sizes that the lines ask for. *)
IsPayload(g, lines) == IsSum(Weights(lines), g, DOMAIN lines)

(* The ids in use have the sizes that their last lines asked for. *)
SizesAt(r, lines, ids, j) ==
  \A k \in LastLines(lines, ids, j) : lines[k].type # "f" => r[lines[k].index] = lines[k].size

(* The weights are those of finitely many lines. *)
LEMMA WeightsType ==
  ASSUME NEW lines, LinesFit(lines)
  PROVE  /\ IsFiniteSet(DOMAIN lines) /\ DOMAIN lines = 1 .. Len(lines) /\ Len(lines) \in Nat
         /\ \A k \in DOMAIN lines : Weights(lines)[k] \in Nat
         /\ -1 \notin Ids
<1>1. lines \in Seq(Line) /\ DOMAIN lines = 1 .. Len(lines) /\ Len(lines) \in Nat
  BY DEF LinesFit
<1>2. IsFiniteSet(1 .. Len(lines))
  BY <1>1, FS_Interval
<1>3. ASSUME NEW k \in DOMAIN lines
      PROVE  Weights(lines)[k] \in Nat
  <2>1. lines[k] \in Line
    BY <1>1
  <2>2. lines[k].size \in Nat
    BY <2>1 DEF Line
  <2> QED
    BY <2>2 DEF Weights
<1>4. -1 \notin Ids
  BY DEF Ids
<1> QED
  BY <1>1, <1>2, <1>3, <1>4

(* There is a function that adds them up. *)
LEMMA PayloadExists ==
  ASSUME NEW lines, LinesFit(lines)
  PROVE  \E g : IsPayload(g, lines)
BY WeightsType, SumExists DEF IsPayload

(* PayloadAfter adds up the last lines about the ids. *)
LEMMA PayloadIsSum ==
  ASSUME LinesFit(ops), NEW g, IsPayload(g, ops), NEW j \in 0 .. Len(ops)
  PROVE  PayloadAfter(j) = g[LastLines(ops, Ids, j)]
<1> DEFINE used == LastLines(ops, Ids, j)
           w == Weights(ops)
           weight(k) == IF ops[k].type = "f" THEN 0 ELSE ops[k].size
           LastOf(id) == {k \in 1 .. j : ops[k].index = id /\ \A l \in k + 1 .. j : ops[l].index # id}
<1>1. used = UNION {LastOf(id) : id \in Ids}
  BY DEF LastLines
<1>2. used \in SUBSET DOMAIN ops /\ IsFiniteSet(DOMAIN ops)
  <2>1. DOMAIN ops = 1 .. Len(ops) /\ Len(ops) \in Nat /\ IsFiniteSet(DOMAIN ops)
    BY WeightsType
  <2> QED
    BY <2>1 DEF LastLines
<1>3. \A k \in used : w[k] = weight(k)
  BY <1>2 DEF Weights
<1> HIDE DEF used, w, weight
<1>4. PICK h : IsSum(w, h, used)
  <2>1. IsFiniteSet(used)
    BY <1>2, FS_Subset
  <2> QED
    BY <2>1, SumExists
<1> DEFINE Folded(f) == f = [s \in SUBSET used |-> IF s = {} THEN 0
                             ELSE weight(CHOOSE x \in s : TRUE) + f[s \ {CHOOSE x \in s : TRUE}]]
<1>5. \A f : Folded(f) <=> IsSum(w, f, used)
  <2> TAKE f
  <2>1. ASSUME NEW s \in SUBSET used, s # {}
        PROVE  (CHOOSE x \in s : TRUE) \in s /\ w[CHOOSE x \in s : TRUE] = weight(CHOOSE x \in s : TRUE)
    <3>1. (CHOOSE x \in s : TRUE) \in s
      BY <2>1
    <3> QED
      BY <1>3, <3>1
  <2>2. ASSUME NEW s \in SUBSET used
        PROVE  Add(w, f, s) = IF s = {} THEN 0
                              ELSE weight(CHOOSE x \in s : TRUE) + f[s \ {CHOOSE x \in s : TRUE}]
    BY <2>1 DEF Add, Some
  <2>3. [s \in SUBSET used |-> Add(w, f, s)] =
          [s \in SUBSET used |-> IF s = {} THEN 0
             ELSE weight(CHOOSE x \in s : TRUE) + f[s \ {CHOOSE x \in s : TRUE}]]
    BY <2>2
  <2> QED
    BY <2>3 DEF IsSum
<1>6. PayloadAfter(j) = (CHOOSE f : Folded(f))[used]
  BY <1>1 DEF PayloadAfter, MapThenSumSet, MapThenFoldSet, weight
<1> DEFINE iter == CHOOSE f : Folded(f)
<1>7. IsSum(w, iter, used)
  <2> HIDE DEF Folded
  <2>1. \E f : Folded(f)
    BY <1>4, <1>5
  <2>2. Folded(iter)
    BY <2>1
  <2> QED
    BY <1>5, <2>2
<1> HIDE DEF iter
<1>8. IsSum(w, g, DOMAIN ops)
  BY DEF IsPayload, w
<1>9. iter[used] = g[used]
  BY <1>2, <1>7, <1>8, SumOfSubset
<1> QED
  BY <1>6, <1>9 DEF iter, used

(* A line takes the place of the last one about its id. *)
LEMMA LastLinesStep ==
  ASSUME NEW lines, LinesFit(lines), NEW j \in 1 .. Len(lines)
  PROVE  LastLines(lines, Ids, j) =
           IF lines[j].index = -1 THEN LastLines(lines, Ids, j - 1)
           ELSE {k \in LastLines(lines, Ids, j - 1) : lines[k].index # lines[j].index} \cup {j}
<1>1. 1 .. j = (1 .. j - 1) \cup {j} /\ j \notin 1 .. j - 1 /\ j + 1 .. j = {}
  BY WeightsType
<1>2. \A k \in 1 .. j - 1 : k + 1 .. j = (k + 1 .. j - 1) \cup {j}
  BY WeightsType
<1>3. lines[j].index \in Ids \cup {-1} /\ -1 \notin Ids
  BY WeightsType DEF LinesFit
<1>4. \A k \in 1 .. j - 1 : (\A l \in k + 1 .. j : lines[l].index # lines[k].index)
        <=> (\A l \in k + 1 .. j - 1 : lines[l].index # lines[k].index) /\ lines[j].index # lines[k].index
  BY <1>2
<1>5. \A l \in j + 1 .. j : lines[l].index # lines[j].index
  BY <1>1
<1> QED
  BY <1>1, <1>3, <1>4, <1>5 DEF LastLines

(* An id is in use if its last line is not a free. *)
LEMMA InUseLast ==
  ASSUME NEW lines, NEW j, NEW id \in Ids
  PROVE  InUseAfter(lines, j, id) <=>
           \E k \in LastLines(lines, Ids, j) : lines[k].index = id /\ lines[k].type # "f"
BY DEF InUseAfter, LastLines

(* An id has one last line. *)
LEMMA OneLastLine ==
  ASSUME NEW lines, NEW j \in Nat, NEW k \in LastLines(lines, Ids, j), NEW l \in LastLines(lines, Ids, j),
         lines[k].index = lines[l].index
  PROVE  k = l
<1>1. k \in 1 .. j /\ l \in 1 .. j
  BY DEF LastLines
<1>2. l \notin k + 1 .. j /\ k \notin l + 1 .. j
  BY DEF LastLines
<1> QED
  BY <1>1, <1>2

(* What one line adds to the bytes in use and takes off them. *)
LEMMA PayloadStep ==
  ASSUME NEW lines, LinesFit(lines), NEW j \in 1 .. Len(lines), NEW g, IsPayload(g, lines),
         NEW r, SizesAt(r, lines, Ids, j - 1)
  PROVE  LET l == lines[j]
             before == g[LastLines(lines, Ids, j - 1)]
             after  == g[LastLines(lines, Ids, j)]
         IN  /\ before \in Int /\ after \in Int
             /\ l.index = -1 => after = before
             /\ l.index # -1 =>
                  after = before + (IF l.type = "f" THEN 0 ELSE l.size)
                                 - (IF InUseAfter(lines, j - 1, l.index) THEN r[l.index] ELSE 0)
<1> DEFINE l == lines[j]
           w == Weights(lines)
           old == LastLines(lines, Ids, j - 1)
           new == LastLines(lines, Ids, j)
           rest == {k \in old : lines[k].index # l.index}
<1>1. /\ DOMAIN lines = 1 .. Len(lines) /\ Len(lines) \in Nat /\ IsFiniteSet(DOMAIN lines)
      /\ \A k \in DOMAIN lines : w[k] \in Nat
  BY WeightsType
<1>2. /\ old \in SUBSET DOMAIN lines /\ new \in SUBSET DOMAIN lines /\ rest \in SUBSET DOMAIN lines
      /\ j \in DOMAIN lines /\ j \notin old
  BY <1>1 DEF LastLines
<1>3. \A k \in DOMAIN lines : w[k] \in Int
  BY <1>1
<1>4. new = IF l.index = -1 THEN old ELSE rest \cup {j}
  BY LastLinesStep
<1>5. w[j] = IF l.type = "f" THEN 0 ELSE l.size
  BY <1>2 DEF Weights
<1>6. \A s \in SUBSET DOMAIN lines : g[s] \in Int /\ \A x \in s : g[s] = w[x] + g[s \ {x}]
  <2> TAKE s \in SUBSET DOMAIN lines
  <2>1. IsSum(w, g, DOMAIN lines)
    BY DEF IsPayload
  <2>2. IsFiniteSet(DOMAIN lines) /\ \A k \in DOMAIN lines : w[k] \in Int
    BY <1>1, <1>3
  <2> HIDE DEF w
  <2> QED
    BY ONLY <2>1, <2>2, s \in SUBSET DOMAIN lines, SumOne
<1>7. ASSUME l.index # -1
      PROVE  g[old] = g[rest] + (IF InUseAfter(lines, j - 1, l.index) THEN r[l.index] ELSE 0)
  <2>1. l.index \in Ids
    BY <1>2, <1>7 DEF LinesFit
  <2>2. CASE \E k \in old : lines[k].index = l.index
    <3>1. PICK k \in old : lines[k].index = l.index
      BY <2>2
    <3>2. \A x \in old : lines[x].index = l.index => x = k
      <4>1. j - 1 \in Nat
        BY <1>1
      <4> QED
        BY <3>1, <4>1, OneLastLine
    <3>3. rest = old \ {k}
      BY <3>1, <3>2
    <3>4. g[old] = w[k] + g[old \ {k}] /\ g[rest] \in Int /\ w[k] \in Int
      BY <1>2, <1>3, <1>6
    <3>5. w[k] = IF lines[k].type = "f" THEN 0 ELSE lines[k].size
      BY <1>2 DEF Weights
    <3>6. InUseAfter(lines, j - 1, l.index) <=> lines[k].type # "f"
      BY <2>1, <3>1, <3>2, InUseLast
    <3>7. lines[k].type # "f" => r[l.index] = lines[k].size
      BY <3>1 DEF SizesAt
    <3>8. w[k] = IF InUseAfter(lines, j - 1, l.index) THEN r[l.index] ELSE 0
      BY <3>5, <3>6, <3>7
    <3> HIDE DEF rest, old, w
    <3>9. g[old] = w[k] + g[rest]
      BY <3>3, <3>4
    <3>10. \A a, b \in Int : a + b = b + a
      OBVIOUS
    <3>11. g[old] = g[rest] + w[k]
      BY ONLY <3>4, <3>9, <3>10
    <3> QED
      BY <3>8, <3>11
  <2>3. CASE ~ \E k \in old : lines[k].index = l.index
    <3>1. rest = old
      BY <2>3
    <3>2. ~ InUseAfter(lines, j - 1, l.index)
      BY <2>1, <2>3, InUseLast
    <3>3. g[old] \in Int
      BY <1>2, <1>6
    <3> HIDE DEF rest, old
    <3> QED
      BY <3>1, <3>2, <3>3
  <2> QED
    BY <2>2, <2>3
<1>8. ASSUME l.index # -1
      PROVE  g[new] = w[j] + g[rest] /\ w[j] \in Int /\ g[rest] \in Int
  <2>1. new \ {j} = rest /\ j \in new
    BY <1>2, <1>4, <1>8
  <2> QED
    BY <1>2, <1>3, <1>6, <2>1
<1>9. g[old] \in Int /\ g[new] \in Int
  BY <1>2, <1>6
<1>10. l.index = -1 => g[new] = g[old]
  BY <1>4
<1>11. ASSUME l.index # -1
       PROVE  g[new] = g[old] + w[j] - (IF InUseAfter(lines, j - 1, l.index) THEN r[l.index] ELSE 0)
  <2> DEFINE d == IF InUseAfter(lines, j - 1, l.index) THEN r[l.index] ELSE 0
  <2>1. g[old] = g[rest] + d /\ g[new] = w[j] + g[rest]
    BY <1>7, <1>8, <1>11
  <2>2. d \in Int
    <3>1. CASE InUseAfter(lines, j - 1, l.index)
      <4>1. l.index \in Ids
        BY <1>2, <1>11 DEF LinesFit
      <4>2. PICK k \in old : lines[k].index = l.index /\ lines[k].type # "f"
        BY <3>1, <4>1, InUseLast
      <4>3. r[l.index] = lines[k].size
        BY <4>2 DEF SizesAt
      <4>4. w[k] = lines[k].size /\ w[k] \in Nat
        BY <1>1, <1>2, <4>2 DEF Weights
      <4> QED
        BY <3>1, <4>3, <4>4
    <3>2. CASE ~ InUseAfter(lines, j - 1, l.index)
      BY <3>2
    <3> QED
      BY <3>1, <3>2
  <2> HIDE DEF d, old, new, rest, w
  <2>3. w[j] \in Int /\ g[rest] \in Int
    BY <1>8, <1>11
  <2>4. \A a, b, c \in Int : a + b = (b + c) + a - c
    OBVIOUS
  <2>5. g[new] = (g[rest] + d) + w[j] - d
    BY <2>1, <2>2, <2>3, <2>4
  <2>6. g[new] = g[old] + w[j] - d
    BY <2>1, <2>5
  <2> QED
    BY <2>6 DEF d
<1> HIDE DEF old, new, rest, w
<1> QED
  BY <1>5, <1>9, <1>10, <1>11 DEF old, new, w

(* The sizes of the ids in use stay those that were asked for. *)
LEMMA SizesStep ==
  ASSUME NEW lines, LinesFit(lines), NEW j \in 1 .. Len(lines), NEW r, NEW q,
         SizesAt(r, lines, Ids, j - 1),
         \A id \in Ids : q[id] = IF id = lines[j].index /\ lines[j].type # "f" THEN lines[j].size ELSE r[id]
  PROVE  SizesAt(q, lines, Ids, j)
<1> SUFFICES ASSUME NEW k \in LastLines(lines, Ids, j), lines[k].type # "f"
             PROVE  q[lines[k].index] = lines[k].size
  BY DEF SizesAt
<1>1. lines[k].index \in Ids
  BY DEF LastLines
<1>2. CASE k = j
  BY <1>1, <1>2
<1>3. CASE k # j
  <2>1. k \in LastLines(lines, Ids, j - 1) /\ lines[k].index # lines[j].index
    <3>1. -1 \notin Ids
      BY WeightsType
    <3>2. lines[j].index = -1 => LastLines(lines, Ids, j) = LastLines(lines, Ids, j - 1)
      BY LastLinesStep
    <3>3. lines[j].index # -1 => LastLines(lines, Ids, j) =
            {x \in LastLines(lines, Ids, j - 1) : lines[x].index # lines[j].index} \cup {j}
      BY LastLinesStep
    <3> QED
      BY <1>1, <1>3, <3>1, <3>2, <3>3
  <2>2. r[lines[k].index] = lines[k].size
    BY <2>1 DEF SizesAt
  <2> QED
    BY <1>1, <2>1, <2>2
<1> QED
  BY <1>2, <1>3

-----------------------------------------------------------------------------
(* The allocator of the replays is that of WordHeapProofs, its client one  *)
(* that may use any number as an id.                                       *)
W == INSTANCE WordHeapProofs
       WITH Ids <- Nat, Sizes <- {}, Counts <- {}, ptr <- << >>, req <- << >>, data <- << >>

LEMMA WordAssumptions == W!SizeClassAssumption /\ W!MmWordsAssumption /\ W!WordHeapAssumption
BY SizeClassAssumption, MmWordsAssumption
   DEF W!SizeClassAssumption, W!MmWordsAssumption, W!WordHeapAssumption, W!WSIZE, WSIZE

USE DEF NULL, ALIGNMENT, WSIZE, W!NULL, W!ALIGNMENT, W!WSIZE

(* It does the same arithmetic, *)
LEMMA SameArithmetic ==
  /\ \A n : W!get_list_index(n) = get_list_index(n)
  /\ \A n : W!asize(n) = asize(n)
  /\ \A n : W!Representable(n) <=> Representable(n)
  /\ W!Lists = Lists /\ W!Words = Words /\ W!SPLIT_MIN = SPLIT_MIN
  /\ \A a, b : W!MinOf(a, b) = MinOf(a, b)
<1>1. \A n : W!get_list_index(n) = get_list_index(n)
  BY DEF W!get_list_index, get_list_index, W!Cardinality, Cardinality, W!IsFiniteSet, IsFiniteSet
<1>2. \A n : W!asize(n) = asize(n)
  BY DEF W!asize, asize, W!align, align
<1>3. \A n : W!Representable(n) <=> Representable(n)
  BY DEF W!Representable, Representable
<1>4. W!Lists = Lists /\ W!Words = Words /\ W!SPLIT_MIN = SPLIT_MIN
  BY DEF W!Lists, Lists, W!Words, Words, W!SPLIT_MIN, SPLIT_MIN
<1>5. \A a, b : W!MinOf(a, b) = MinOf(a, b)
  BY DEF W!MinOf, MinOf
<1> QED
  BY <1>1, <1>2, <1>3, <1>4, <1>5

(* reads and writes the same words, *)
LEMMA SameAccesses ==
  /\ \A m, a : W!GET(m, a) = GET(m, a) /\ W!GET_SIZE(m, a) = GET_SIZE(m, a)
  /\ \A m, a : W!GET_ALLOC(m, a) = GET_ALLOC(m, a) /\ W!NextFree(m, a) = NextFree(m, a)
  /\ \A m, a, w : W!PUT(m, a, w) = PUT(m, a, w)
  /\ \A s, a : W!PACK(s, a) = PACK(s, a) /\ W!HDRP(s) = HDRP(s)
  /\ \A m, d, s, n : W!memcpy(m, d, s, n) = memcpy(m, d, s, n)
<1>1. \A m, a : W!GET(m, a) = GET(m, a)
  BY DEF W!GET, GET
<1>2. \A m, a, n, f : W!WriteBytes(m, a, n, f) = WriteBytes(m, a, n, f)
  BY SameArithmetic DEF W!WriteBytes, WriteBytes, W!PARTIAL, PARTIAL
<1>3. \A m, a, n : W!WordsFrom(m, a, n) = WordsFrom(m, a, n)
  BY <1>1 DEF W!WordsFrom, WordsFrom
<1>4. \A m, d, s, n : W!memcpy(m, d, s, n) = memcpy(m, d, s, n)
  BY <1>2, <1>3 DEF W!memcpy, memcpy
<1>5. \A m, a : /\ W!GET_SIZE(m, a) = GET_SIZE(m, a) /\ W!GET_ALLOC(m, a) = GET_ALLOC(m, a)
                /\ W!NextFree(m, a) = NextFree(m, a)
  BY <1>1 DEF W!GET_SIZE, GET_SIZE, W!GET_ALLOC, GET_ALLOC, W!NextFree, NextFree
<1>6. \A m, a, w : W!PUT(m, a, w) = PUT(m, a, w)
  BY DEF W!PUT, PUT
<1>7. \A s, a : W!PACK(s, a) = PACK(s, a) /\ W!HDRP(s) = HDRP(s)
  BY DEF W!PACK, PACK, W!HDRP, HDRP
<1> QED
  BY <1>1, <1>4, <1>5, <1>6, <1>7

(* walks the lists and the blocks in the same way, *)
LEMMA SameWalks ==
  /\ \A m, j : W!Walk(m, j) = Walk(m, j)
  /\ \A m : W!BlocksOf(m) = BlocksOf(m)
  /\ \A m, n : W!SearchLists(m, n) = SearchLists(m, n)
<1>1. \A m, j : W!Walk(m, j) = Walk(m, j)
  BY DEF W!Walk, Walk, W!MaxBlocks, MaxBlocks, W!NextFree, NextFree, W!GET, GET, W!Last, Last
<1>2. \A m : W!BlocksOf(m) = BlocksOf(m)
  BY DEF W!BlocksOf, BlocksOf, W!Spots, Spots, W!MaxBlocks, MaxBlocks,
         W!GET_SIZE, GET_SIZE, W!GET, GET
<1>3. \A m, n, j : W!FirstFit(m, n, j) = FirstFit(m, n, j)
  <2>1. ASSUME NEW m, NEW n, NEW met
        PROVE  W!FitOn(m, n, met) = FitOn(m, n, met)
    <3> DEFINE Stops(k) == k = Len(met) \/ GET_SIZE(m, met[k]) >= n
               l1 == CHOOSE k \in DOMAIN met : Stops(k) /\ \A l \in 1 .. k - 1 : ~ Stops(l)
    <3>1. FitOn(m, n, met) = [prev |-> IF l1 = 1 THEN NULL ELSE met[l1 - 1], block |-> met[l1]]
      BY DEF FitOn
    <3> DEFINE Halts(k) == k = Len(met) \/ W!GET_SIZE(m, met[k]) >= n
               l2 == CHOOSE k \in DOMAIN met : Halts(k) /\ \A l \in 1 .. k - 1 : ~ Halts(l)
    <3>2. W!FitOn(m, n, met) = [prev |-> IF l2 = 1 THEN NULL ELSE met[l2 - 1], block |-> met[l2]]
      BY DEF W!FitOn
    <3>3. \A k : Stops(k) <=> Halts(k)
      BY SameAccesses
    <3> HIDE DEF Stops, Halts
    <3>4. l1 = l2
      BY <3>3, Zenon
    <3> HIDE DEF l1, l2
    <3> QED
      BY <3>1, <3>2, <3>4
  <2> QED
    BY <1>1, <2>1 DEF W!FirstFit, FirstFit
<1>4. \A m, n : W!SearchLists(m, n) = SearchLists(m, n)
  <2> TAKE m, n
  <2> DEFINE F1 == {j \in get_list_index(n) .. SearchedLists - 1 : FirstFit(m, n, j).block # NULL}
             F2 == {j \in W!get_list_index(n) .. SearchedLists - 1 : W!FirstFit(m, n, j).block # NULL}
             Least(F) == CHOOSE j \in F : \A k \in F : j <= k
  <2>1. SearchLists(m, n) = IF F1 = {} THEN [prev |-> NULL, block |-> NULL]
                            ELSE FirstFit(m, n, Least(F1))
    BY DEF SearchLists
  <2>2. W!SearchLists(m, n) = IF F2 = {} THEN [prev |-> NULL, block |-> NULL]
                              ELSE W!FirstFit(m, n, Least(F2))
    BY DEF W!SearchLists
  <2>3. F1 = F2
    BY <1>3, SameArithmetic
  <2> HIDE DEF F1, F2, Least
  <2> QED
    BY <1>3, <2>1, <2>2, <2>3
<1> QED
  BY <1>1, <1>2, <1>4

(* and so makes the same calls. *)
LEMMA SameCalls ==
  /\ \A m : W!mm_init(m) = mm_init(m)
  /\ \A m, n : W!malloc(m, n) = malloc(m, n)
  /\ \A m, p : W!free(m, p) = free(m, p)
  /\ \A m, p, n : W!realloc(m, p, n) = realloc(m, p, n)
<1>1. \A m : W!mm_init(m) = mm_init(m)
  BY SameArithmetic DEF W!mm_init, mm_init
<1>2. \A m, b, j : W!PushFree(m, b, j) = PushFree(m, b, j)
  BY SameAccesses DEF W!PushFree, PushFree
<1>3. \A m, prev, b : W!Unlink(m, prev, b) = Unlink(m, prev, b)
  BY SameAccesses, SameArithmetic DEF W!Unlink, Unlink
<1>4. \A m, n, b : W!split(m, n, b) = split(m, n, b)
  BY <1>2, SameAccesses, SameArithmetic DEF W!split, split
<1>5. \A m, n : W!SbrkOK(m, n) <=> SbrkOK(m, n)
  BY DEF W!SbrkOK, SbrkOK
<1>6. \A m, n : W!malloc(m, n) = malloc(m, n)
  BY <1>3, <1>4, <1>5, SameWalks, SameAccesses, SameArithmetic DEF W!malloc, malloc
<1>7. \A m, p : W!free(m, p) = free(m, p)
  BY <1>2, SameAccesses, SameArithmetic DEF W!free, free
<1>8. \A m, p, n : W!realloc(m, p, n) = realloc(m, p, n)
  BY <1>6, <1>7, SameAccesses, SameArithmetic DEF W!realloc, realloc
<1> QED
  BY <1>1, <1>6, <1>7, <1>8

-----------------------------------------------------------------------------
(* Payload data *)

(* Only words of the payload are filled, and those at its front in order. *)
LEMMA FilledShape ==
  ASSUME NEW n \in Nat
  PROVE  /\ DOMAIN FilledWords(n, TRUE) \subseteq 0 .. n - 1
         /\ \A k \in DOMAIN FilledWords(n, TRUE) : FilledWords(n, TRUE)[k] \in Int
         /\ DOMAIN FilledWords(n, FALSE) = 0 .. MinOf(n, maxfill) - 1
         /\ \A k \in 0 .. MinOf(n, maxfill) - 1 :
              /\ FilledWords(n, FALSE)[k] = k
              /\ k \in DOMAIN FilledWords(n, TRUE) /\ FilledWords(n, TRUE)[k] = k
<1> DEFINE front == MinOf(n, maxfill)
           back == IF n <= maxfill THEN 0 ELSE MinOf(n - maxfill, maxfill)
<1>1. maxfill \in Nat
  BY ReplayAssumption
<1>2. front \in 0 .. n /\ back \in 0 .. n
  BY <1>1 DEF MinOf
<1>3. FilledWords(n, TRUE) = [k \in (0 .. front - 1) \cup (n - back .. n - 1) |->
                                IF k < front THEN k ELSE k - (n - back)]
  BY DEF FilledWords
<1>4. FilledWords(n, FALSE) = [k \in (0 .. front - 1) \cup (n - 0 .. n - 1) |->
                                IF k < front THEN k ELSE k - (n - 0)]
  BY DEF FilledWords
<1> HIDE DEF front, back
<1>5. (0 .. front - 1) \cup (n - 0 .. n - 1) = 0 .. front - 1
  OBVIOUS
<1>6. \A k \in 0 .. front - 1 : k < front
  BY <1>2
<1>7. (0 .. front - 1) \cup (n - back .. n - 1) \subseteq 0 .. n - 1
  BY <1>2
<1>8. \A k \in (0 .. front - 1) \cup (n - back .. n - 1) : k \in Int /\ k - (n - back) \in Int
  BY <1>2
<1> DEFINE T == FilledWords(n, TRUE)
           G == FilledWords(n, FALSE)
<1>9. DOMAIN T \subseteq 0 .. n - 1 /\ \A k \in DOMAIN T : T[k] \in Int
  BY <1>3, <1>7, <1>8
<1>10. DOMAIN G = 0 .. front - 1 /\ \A k \in 0 .. front - 1 : G[k] = k
  BY <1>4, <1>5, <1>6
<1>11. \A k \in 0 .. front - 1 : k \in DOMAIN T /\ T[k] = k
  BY <1>3, <1>6
<1> QED
  BY <1>9, <1>10, <1>11 DEF front

(* The pattern of a payload stays where its words stay, *)
LEMMA CheckKept ==
  ASSUME NEW m, NEW q, NEW p, NEW n \in Nat, NEW base, W!SameWords(m, q, p, n),
         check_index(m, p, n, base, FALSE)
  PROVE  check_index(q, p, n, base, FALSE)
<1>1. n \div 8 \in Nat
  OBVIOUS
<1>2. \A k \in 0 .. n \div 8 - 1 : GET(q, p + 8 * k) = GET(m, p + 8 * k)
  BY SameAccesses DEF W!SameWords
<1>3. DOMAIN FilledWords(n \div 8, TRUE) \subseteq 0 .. n \div 8 - 1
  BY <1>1, FilledShape
<1> QED
  BY <1>2, <1>3 DEF check_index

(* its front moves with them, *)
LEMMA CheckFront ==
  ASSUME NEW m, NEW q, NEW p, NEW a, NEW n \in Nat, NEW old \in Nat, NEW base,
         \A k \in 0 .. MinOf(n, old) \div 8 - 1 : GET(q, a + 8 * k) = GET(m, p + 8 * k),
         check_index(m, p, old, base, FALSE)
  PROVE  check_index(q, a, MinOf(n, old), base, TRUE)
<1> DEFINE l == MinOf(n, old) \div 8
           o == old \div 8
<1>1. l \in Nat /\ o \in Nat /\ l <= o
  BY DEF MinOf
<1>2. maxfill \in Nat
  BY ReplayAssumption
<1>3. \A k \in 0 .. MinOf(l, maxfill) - 1 : k \in 0 .. l - 1 /\ k \in 0 .. MinOf(o, maxfill) - 1
  BY <1>1, <1>2 DEF MinOf
<1>4. \A k \in DOMAIN FilledWords(o, TRUE) : GET(m, p + 8 * k) = Pattern(base, FilledWords(o, TRUE)[k])
  BY DEF check_index
<1>5. \A k \in 0 .. l - 1 : GET(q, a + 8 * k) = GET(m, p + 8 * k)
  OBVIOUS
<1> HIDE DEF l, o
<1>6. /\ DOMAIN FilledWords(l, FALSE) = 0 .. MinOf(l, maxfill) - 1
      /\ \A k \in 0 .. MinOf(l, maxfill) - 1 : FilledWords(l, FALSE)[k] = k
      /\ \A k \in 0 .. MinOf(o, maxfill) - 1 :
           k \in DOMAIN FilledWords(o, TRUE) /\ FilledWords(o, TRUE)[k] = k
  BY <1>1, FilledShape
<1>7. \A k \in DOMAIN FilledWords(l, FALSE) : GET(q, a + 8 * k) = Pattern(base, FilledWords(l, FALSE)[k])
  BY <1>3, <1>4, <1>5, <1>6
<1> QED
  BY <1>7 DEF check_index, l

(* and in a payload of no words there is nothing to check. *)
LEMMA CheckNothing ==
  ASSUME NEW m, NEW p, NEW base, NEW realloced \in BOOLEAN
  PROVE  check_index(m, p, 0, base, realloced)
<1>1. 0 \div 8 = 0
  OBVIOUS
<1>2. MinOf(0, maxfill) = 0
  BY ReplayAssumption DEF MinOf
<1>3. DOMAIN FilledWords(0, TRUE) = {} /\ DOMAIN FilledWords(0, FALSE) = {}
  <2>1. 0 \in Nat /\ 0 .. 0 - 1 = {}
    OBVIOUS
  <2>2. DOMAIN FilledWords(0, TRUE) \subseteq 0 .. 0 - 1
    BY ONLY <2>1, FilledShape, ReplayAssumption
  <2>3. DOMAIN FilledWords(0, FALSE) = 0 .. MinOf(0, maxfill) - 1
    BY ONLY <2>1, FilledShape, ReplayAssumption
  <2> QED
    BY <1>2, <2>1, <2>2, <2>3
<1> QED
  BY <1>1, <1>3 DEF check_index

(* randomize_block writes a pattern that passes the check, and changes     *)
(* nothing that is held under another id.                                  *)
LEMMA Randomized ==
  ASSUME NEW m, NEW h, NEW p, NEW r, W!Serves(m, h, p, r), NEW id \in Nat, p[id] # NULL,
         r[id] % 8 = 0, NEW base \in Nat
  PROVE  LET q == randomize_block(m, p[id], r[id], base)
         IN  /\ W!Serves(q, h, p, r)
             /\ check_index(q, p[id], r[id], base, FALSE)
             /\ \A x \in Nat \ {id} : p[x] # NULL => W!SameWords(m, q, p[x], r[x])
<1> DEFINE n == r[id] \div 8
           F == FilledWords(n, TRUE)
           D == DOMAIN F
           e == [k \in D |-> Pattern(base, F[k])]
           q == randomize_block(m, p[id], r[id], base)
<1>1. p[id] \in Nat /\ r[id] \in Nat
  BY WordAssumptions, W!HeldBlock
<1>2. n \in Nat
  BY <1>1
<1> HIDE DEF n
<1>3. D \in SUBSET (0 .. n - 1) /\ \A k \in D : F[k] \in Int
  BY <1>2, FilledShape
<1>4. \A k \in D : e[k] \in Int
  <2>1. RANDOM_DATA_LEN \in Nat \ {0}
    BY ReplayAssumption
  <2>2. \A x \in Int : Pattern(base, x) \in Int
    <3> TAKE x \in Int
    <3>1. base + x \in Int
      OBVIOUS
    <3>2. (base + x) % RANDOM_DATA_LEN \in Int
      BY ONLY <2>1, <3>1
    <3> QED
      BY <3>2 DEF Pattern
  <2> QED
    BY <1>3, <2>2
<1>5. W!Patched(m, q, p[id], D, e)
  BY SameArithmetic DEF randomize_block, n, W!Patched
<1> HIDE DEF F, e, q
<1> HIDE DEF D
<1>6. /\ W!Serves(q, h, p, r)
      /\ \A k \in D : W!GET(q, p[id] + 8 * k) = e[k]
      /\ \A x \in Nat \ {id} : p[x] # NULL => W!SameWords(m, q, p[x], r[x])
  <2>1. D \in SUBSET (0 .. r[id] \div 8 - 1)
    BY <1>3 DEF n
  <2> QED
    BY <1>4, <1>5, <2>1, WordAssumptions, W!PatchWords
<1>7. check_index(q, p[id], r[id], base, FALSE)
  BY <1>6, SameAccesses DEF check_index, D, F, e, n
<1> QED
  BY <1>6, <1>7 DEF q

-----------------------------------------------------------------------------
(* The records of the payloads in use *)

RS == INSTANCE RangeSetProofs
        WITH HeapLo <- 0, HeapHi <- 0, Addrs <- Nat \ {0}, Sizes <- Nat \ {0},
             ranges <- ranges, live <- {}, verdict <- "ok"

LEMMA RangeAssumptions == RS!RangeListAssumption /\ RS!RangeSetAssumption
BY DEF RS!RangeListAssumption, RS!RangeSetAssumption, RS!NULL

(* The functions of RangeSetProofs are those of the replay. *)
LEMMA SameRanges ==
  /\ R!new_range_set = RS!new_range_set
  /\ \A g, lo, hi, top : R!JudgeExtent(lo, hi, top) = RS!JudgeExtent(lo, hi, top)
  /\ \A g, lo, hi, top : R!Judge(g, lo, hi, top) = RS!Judge(g, lo, hi, top)
  /\ \A g, lo, hi, top : R!add_range(g, lo, hi, top) = RS!add_range(g, lo, hi, top)
  /\ \A g, lo : R!remove_range(g, lo) = RS!remove_range(g, lo)
<1> USE DEF R!NULL, RS!NULL
<1>1. R!new_range_set = RS!new_range_set
  BY DEF R!new_range_set, RS!new_range_set
<1>2. \A lo, hi, top : R!JudgeExtent(lo, hi, top) = RS!JudgeExtent(lo, hi, top)
  BY DEF R!JudgeExtent, RS!JudgeExtent, R!InHeap, RS!InHeap
<1>3. \A keys, lo : R!tree_find_nearest(keys, lo) = RS!tree_find_nearest(keys, lo)
  BY DEF R!tree_find_nearest, RS!tree_find_nearest
<1>4. \A g, prev : R!NextOf(g, prev) = RS!NextOf(g, prev)
  BY DEF R!NextOf, RS!NextOf
<1>5. \A g, lo, hi, top : R!Judge(g, lo, hi, top) = RS!Judge(g, lo, hi, top)
  BY <1>2, <1>3, <1>4 DEF R!Judge, RS!Judge, R!HitsPrev, RS!HitsPrev, R!HitsNext, RS!HitsNext
<1>6. \A g, lo, hi, prev, next : R!Insert(g, lo, hi, prev, next) = RS!Insert(g, lo, hi, prev, next)
  BY DEF R!Insert, RS!Insert
<1>7. \A g, lo, hi, top : R!add_range(g, lo, hi, top) = RS!add_range(g, lo, hi, top)
  BY <1>3, <1>4, <1>5, <1>6 DEF R!add_range, RS!add_range
<1>8. \A g, lo : R!remove_range(g, lo) = RS!remove_range(g, lo)
  BY DEF R!remove_range, RS!remove_range
<1> QED
  BY <1>1, <1>2, <1>5, <1>7, <1>8

(* What an array becomes when v is stored under x. *)
With(f, x, v) == [f EXCEPT ![x] = v]

(* What is held under p, and r bytes each of it, is what g has on record.  *)
Holding(p, r) ==
  /\ p \in [Nat -> Nat] /\ r \in [Nat -> Nat]
  /\ \A x \in Nat : p[x] # NULL => r[x] > 0
  /\ \A x, y \in Nat : (p[x] # NULL /\ p[x] = p[y]) => x = y

RecordsOf(p, r) == {[lo |-> p[x], hi |-> p[x] + r[x] - 1] : x \in {y \in Nat : p[y] # NULL}}

OnRecord(g, p, r) == RS!RangesOK(g) /\ RS!Recorded(g) = RecordsOf(p, r)

(* What a memory serves is held so. *)
LEMMA ServesHolding ==
  ASSUME NEW m, NEW h, NEW p, NEW r, W!Serves(m, h, p, r)
  PROVE  Holding(p, r)
BY DEF W!Serves, W!B!Owned, W!B!NULL, Holding

(* Each record is that of a payload held. *)
LEMMA RecordHeld ==
  ASSUME NEW g, NEW p, NEW r, Holding(p, r), OnRecord(g, p, r)
  PROVE  /\ \A k \in DOMAIN g.node : \E x \in Nat :
              p[x] # NULL /\ k = p[x] /\ g.node[k].hi = p[x] + r[x] - 1
         /\ \A x \in Nat : p[x] # NULL =>
              p[x] \in DOMAIN g.node /\ g.node[p[x]].hi = p[x] + r[x] - 1
<1>1. RS!Recorded(g) = RecordsOf(p, r)
  BY DEF OnRecord
<1>2. ASSUME NEW k \in DOMAIN g.node
      PROVE  \E x \in Nat : p[x] # NULL /\ k = p[x] /\ g.node[k].hi = p[x] + r[x] - 1
  <2>1. [lo |-> k, hi |-> g.node[k].hi] \in RecordsOf(p, r)
    BY <1>1 DEF RS!Recorded
  <2> QED
    BY <2>1 DEF RecordsOf
<1>3. ASSUME NEW x \in Nat, p[x] # NULL
      PROVE  p[x] \in DOMAIN g.node /\ g.node[p[x]].hi = p[x] + r[x] - 1
  <2>1. [lo |-> p[x], hi |-> p[x] + r[x] - 1] \in RS!Recorded(g)
    BY <1>1, <1>3 DEF RecordsOf
  <2> QED
    BY <2>1 DEF RS!Recorded
<1> QED
  BY <1>2, <1>3

(* A payload that is clear of all others is accepted, and put on record. *)
LEMMA ClearAccepted ==
  ASSUME NEW g, NEW p, NEW r, Holding(p, r), OnRecord(g, p, r),
         NEW id \in Nat, p[id] = NULL, NEW a, NEW n \in Nat \ {0}, NEW m, W!Clear(m, p, r, id, a, n),
         m.brk \in Nat
  PROVE  /\ R!Judge(g, a, a + n - 1, m.brk - 1) = "ok"
         /\ OnRecord(R!add_range(g, a, a + n - 1, m.brk - 1),
                     With(p, id, a), With(r, id, n))
<1> DEFINE hi == a + n - 1
           prev == RS!tree_find_nearest(DOMAIN g.node, a)
           next == RS!NextOf(g, prev)
<1>1. /\ a \in Nat /\ a # 0 /\ hi \in Nat /\ a <= hi /\ a % 16 = 0 /\ hi <= m.brk - 1
      /\ \A x \in Nat : p[x] # NULL => a + n <= p[x] \/ p[x] + r[x] <= a
  BY DEF W!Clear
<1>2. RS!RangesOK(g) /\ DOMAIN g.node \subseteq Nat \ {0}
  BY DEF OnRecord, RS!RangesOK
<1>3. ASSUME NEW k \in DOMAIN g.node
      PROVE  /\ ~ (k <= a /\ a <= g.node[k].hi)
             /\ ~ (a < k /\ k <= hi)
  <2>1. PICK x \in Nat : p[x] # NULL /\ k = p[x] /\ g.node[k].hi = p[x] + r[x] - 1
    BY RecordHeld
  <2>2. p[x] \in Nat /\ r[x] \in Nat /\ r[x] > 0
    BY <2>1 DEF Holding
  <2> QED
    BY <1>1, <2>1, <2>2
<1>4. /\ prev = 0 => \A k \in DOMAIN g.node : a < k
      /\ prev # 0 => prev \in DOMAIN g.node /\ prev <= a
  <2> DEFINE keys == DOMAIN g.node
  <2>1. keys \in SUBSET (Nat \ {RS!NULL}) /\ RS!NULL = 0 /\ a \in Nat
    BY <1>1, <1>2 DEF RS!NULL
  <2>2. prev = RS!tree_find_nearest(keys, a)
    OBVIOUS
  <2> HIDE DEF prev, keys
  <2>3. /\ prev = RS!NULL => \A k \in keys : a < k
        /\ prev # RS!NULL => prev \in keys /\ prev <= a
    BY <2>1, <2>2, RangeAssumptions, RS!NearestIsLargest
  <2> QED
    BY <2>1, <2>3 DEF keys
<1> HIDE DEF prev, hi
<1>5. ~ RS!HitsPrev(g, prev, a)
  BY <1>3, <1>4 DEF RS!HitsPrev, RS!NULL
<1> HIDE DEF next
<1>6. next # 0 => next \in DOMAIN g.node /\ a < next
  BY <1>1, <1>2, <1>5, RangeAssumptions, RS!PlaceFound DEF next, prev, RS!NULL
<1>7. ~ RS!HitsNext(next, hi)
  BY <1>1, <1>2, <1>3, <1>6 DEF RS!HitsNext, RS!NULL
<1>8. RS!JudgeExtent(a, hi, m.brk - 1) = "ok"
  BY <1>1 DEF RS!JudgeExtent, RS!InHeap
<1>9. RS!Judge(g, a, hi, m.brk - 1) = "ok"
  BY <1>5, <1>7, <1>8 DEF RS!Judge, prev, next
<1>10. /\ RS!RangesOK(RS!add_range(g, a, hi, m.brk - 1))
       /\ RS!Recorded(RS!add_range(g, a, hi, m.brk - 1)) = RS!Recorded(g) \cup {[lo |-> a, hi |-> hi]}
  BY <1>1, <1>2, <1>9, RangeAssumptions, RS!AddRangeOK
<1>11. RecordsOf([p EXCEPT ![id] = a], [r EXCEPT ![id] = n])
       = RecordsOf(p, r) \cup {[lo |-> a, hi |-> hi]}
  <2> DEFINE p1 == [p EXCEPT ![id] = a]
             r1 == [r EXCEPT ![id] = n]
  <2>1. /\ p1[id] = a /\ r1[id] = n
        /\ \A x \in Nat : x # id => p1[x] = p[x] /\ r1[x] = r[x]
    BY DEF Holding
  <2> HIDE DEF p1, r1
  <2>2. {y \in Nat : p1[y] # NULL} = {y \in Nat : p[y] # NULL} \cup {id}
    BY <1>1, <2>1
  <2>3. RecordsOf(p1, r1) = RecordsOf(p, r) \cup {[lo |-> a, hi |-> hi]}
    BY <2>1, <2>2 DEF RecordsOf, hi
  <2> QED
    BY <2>3 DEF p1, r1
<1>12. OnRecord(RS!add_range(g, a, hi, m.brk - 1), [p EXCEPT ![id] = a], [r EXCEPT ![id] = n])
  BY <1>10, <1>11 DEF OnRecord
<1> QED
  BY <1>9, <1>12, SameRanges DEF hi, With

(* What is given back is taken off the record, and a null pointer is not   *)
(* on it.                                                                  *)
LEMMA ReturnedForgotten ==
  ASSUME NEW g, NEW p, NEW r, Holding(p, r), OnRecord(g, p, r), NEW id \in Nat
  PROVE  OnRecord(R!remove_range(g, p[id]), With(p, id, NULL), With(r, id, 0))
<1> DEFINE p1 == [p EXCEPT ![id] = NULL]
           r1 == [r EXCEPT ![id] = 0]
           q == RS!remove_range(g, p[id])
<1>1. /\ p1[id] = NULL /\ r1[id] = 0
      /\ \A x \in Nat : x # id => p1[x] = p[x] /\ r1[x] = r[x]
  BY DEF Holding
<1> HIDE DEF p1, r1
<1>2. RS!RangesOK(g) /\ DOMAIN g.node \subseteq Nat \ {0}
  BY DEF OnRecord, RS!RangesOK
<1>3. CASE p[id] = NULL
  <2>1. q = g
    BY <1>2, <1>3 DEF RS!remove_range
  <2>2. {y \in Nat : p1[y] # NULL} = {y \in Nat : p[y] # NULL}
    BY <1>1, <1>3
  <2>3. \A x \in {y \in Nat : p[y] # NULL} : p1[x] = p[x] /\ r1[x] = r[x]
    BY <1>1, <1>3
  <2>4. RecordsOf(p1, r1) = RecordsOf(p, r)
    BY <2>2, <2>3 DEF RecordsOf
  <2> QED
    BY <2>1, <2>4, SameRanges DEF OnRecord, p1, r1, With
<1>4. CASE p[id] # NULL
  <2>1. p[id] \in DOMAIN g.node /\ g.node[p[id]].hi = p[id] + r[id] - 1
    BY <1>4, RecordHeld
  <2>2. /\ RS!RangesOK(q)
        /\ RS!Recorded(q) = RS!Recorded(g) \ {[lo |-> p[id], hi |-> p[id] + r[id] - 1]}
    BY <1>2, <2>1, RangeAssumptions, RS!RemoveRangeOK
  <2>3. {y \in Nat : p1[y] # NULL} = {y \in Nat : p[y] # NULL} \ {id}
    BY <1>1
  <2>4. \A x \in {y \in Nat : p[y] # NULL} \ {id} : p1[x] = p[x] /\ r1[x] = r[x] /\ p[x] # p[id]
    BY <1>1, <1>4 DEF Holding
  <2>5. RecordsOf(p1, r1) = RecordsOf(p, r) \ {[lo |-> p[id], hi |-> p[id] + r[id] - 1]}
    BY <1>4, <2>3, <2>4 DEF RecordsOf
  <2> HIDE DEF q
  <2>6. OnRecord(q, p1, r1)
    BY <2>2, <2>5 DEF OnRecord
  <2> QED
    BY <2>6, SameRanges DEF p1, r1, q, With
<1> QED
  BY <1>3, <1>4

(* At the start of a replay nothing is on record. *)
LEMMA NothingOnRecord ==
  OnRecord(R!new_range_set, [id \in Nat |-> NULL], [id \in Nat |-> 0])
<1>1. RecordsOf([id \in Nat |-> NULL], [id \in Nat |-> 0]) = {}
  BY DEF RecordsOf
<1> QED
  BY <1>1, SameRanges, RangeAssumptions, RS!NewRangeSetOK DEF OnRecord

-----------------------------------------------------------------------------
(* The lines of a trace as calls *)

(* A replay as BlockHeap sees it: the heap, and the arrays of the trace.   *)
StartOf(ids) ==
  [heap |-> W!B!mm_init_heap, blocks |-> [id \in ids |-> NULL], sizes |-> [id \in ids |-> 0]]

PointerOf(s, l) == IF l.index = -1 THEN NULL ELSE s.blocks[l.index]

BlockCall(h, p, l) ==
  CASE l.type = "a" -> W!B!malloc(h, l.size)
    [] l.type = "r" -> W!B!realloc(h, p, l.size)
    [] l.type = "f" -> [heap |-> W!B!free(h, p), ptr |-> p]

After(s, l) ==
  LET u == BlockCall(s.heap, PointerOf(s, l), l)
  IN  [heap   |-> u.heap,
       blocks |-> IF l.type = "f" THEN s.blocks ELSE [s.blocks EXCEPT ![l.index] = u.ptr],
       sizes  |-> IF l.type = "f" THEN s.sizes ELSE [s.sizes EXCEPT ![l.index] = l.size]]

MayFail(l) == l.type = "a" \/ (l.type = "r" /\ l.size # 0)

Fails(s, l) == MayFail(l) /\ BlockCall(s.heap, PointerOf(s, l), l).ptr = NULL

(* S[k] is what there is after the first k lines, up to n, none of which   *)
(* fails.                                                                  *)
IsRun(S, lines, ids, n) ==
  /\ S[0] = StartOf(ids)
  /\ \A k \in 1 .. n : S[k] = After(S[k - 1], lines[k]) /\ ~ Fails(S[k - 1], lines[k])

(* The same call on the words. *)
WordCall(m, p, l) ==
  CASE l.type = "a" -> malloc(m, l.size)
    [] l.type = "r" -> realloc(m, p, l.size)
    [] l.type = "f" -> [mm |-> free(m, p), ptr |-> p]

(* What the ids in use hold; the entries of the others are of no meaning.  *)
HeldBlocks(s, lines, k) == [id \in Nat |-> IF InUseAfter(lines, k, id) THEN s.blocks[id] ELSE NULL]
HeldSizes(s, lines, k)  == [id \in Nat |-> IF InUseAfter(lines, k, id) THEN s.sizes[id] ELSE 0]

(* The words m serve the ids what s says they hold after k lines.          *)
ServedAt(m, s, lines, ids, k) ==
  /\ s.blocks \in [ids -> 0 .. MaxHeap] /\ s.sizes \in [ids -> 0 .. MaxHeap]
  /\ \A id \in ids : s.sizes[id] % 8 = 0
  /\ \A id \in ids : InUseAfter(lines, k, id) /\ s.blocks[id] = NULL => s.sizes[id] = 0
  /\ W!Serves(m, s.heap, HeldBlocks(s, lines, k), HeldSizes(s, lines, k))

(* Line k is served: the answer is that of BlockHeap, a failure is due to  *)
(* exhaustion or a request of no bytes, and otherwise m goes on serving,   *)
(* other payloads keep their words, and a new one is clear of them and has *)
(* what was carried over.                                                  *)
Answered(m, s, lines, ids, k) ==
  LET l == lines[k]
      p == HeldBlocks(s, lines, k - 1)
      r == HeldSizes(s, lines, k - 1)
      u == WordCall(m, PointerOf(s, l), l)
  IN  /\ u.ptr = BlockCall(s.heap, PointerOf(s, l), l).ptr
      /\ l.type = "r" /\ l.size = 0 => u.ptr = NULL
      /\ Fails(s, l) => l.size = 0 \/ m.brk + asize(l.size) > MaxHeap
      /\ ~ Fails(s, l) =>
           /\ ServedAt(u.mm, After(s, l), lines, ids, k)
           /\ \A x \in Nat \ {l.index} : p[x] # NULL => W!SameWords(m, u.mm, p[x], r[x])
           /\ l.type # "f" /\ u.ptr # NULL => W!Clear(u.mm, p, r, l.index, u.ptr, l.size)
           /\ l.type = "r" /\ u.ptr # NULL /\ p[l.index] # NULL =>
                \A j \in 0 .. MinOf(l.size, r[l.index]) \div 8 - 1 :
                  GET(u.mm, u.ptr + 8 * j) = GET(m, p[l.index] + 8 * j)

(* What line k may rely on. *)
LEMMA BeforeLine ==
  ASSUME NEW lines, LinesFit(lines), NEW k \in 1 .. Len(lines)
  PROVE  LET l == lines[k]
         IN  /\ lines \in Seq(Line) /\ Len(lines) \in Nat
             /\ l.type \in {"a", "r", "f"}
             /\ l.index \in Ids \cup {-1} /\ -1 \notin Nat /\ Ids \subseteq Nat
             /\ l.size \in Nat /\ l.size % 8 = 0 /\ Representable(l.size)
             /\ l.type # "f" => l.index \in Ids
             /\ l.type = "a" => ~ InUseAfter(lines, k - 1, l.index)
             /\ l.type = "r" => InUseAfter(lines, k - 1, l.index)
             /\ l.type = "f" /\ l.index # -1 => InUseAfter(lines, k - 1, l.index)
<1>1. lines \in Seq(Line) /\ Len(lines) \in Nat /\ k \in DOMAIN lines
  BY DEF LinesFit
<1>2. lines[k] \in Line
  BY <1>1
<1>3. IsLine(lines[k]) /\ lines[k].index \in Ids \cup {-1} /\ lines[k].type \in {"a", "r", "f"}
  BY <1>1 DEF LinesFit
<1>4. Ids \subseteq Nat
  BY DEF Ids
<1>5. /\ lines[k].type = "a" => ~ InUseAfter(lines, k - 1, lines[k].index)
      /\ lines[k].type = "r" => InUseAfter(lines, k - 1, lines[k].index)
      /\ lines[k].type = "f" /\ lines[k].index # -1 => InUseAfter(lines, k - 1, lines[k].index)
  BY <1>1, Zenon DEF LinesFit, AsAProgram
<1> QED
  BY <1>1, <1>2, <1>3, <1>4, <1>5 DEF IsLine, Line

(* Only ids are in use. *)
LEMMA OnlyIdsInUse ==
  ASSUME NEW lines, LinesFit(lines), NEW k \in 0 .. Len(lines), NEW x \in Nat,
         InUseAfter(lines, k, x)
  PROVE  x \in Ids
<1>1. PICK j \in 1 .. k : lines[j].index = x
  BY DEF InUseAfter
<1>2. j \in DOMAIN lines
  BY <1>1 DEF LinesFit
<1> QED
  BY <1>1, <1>2 DEF LinesFit

(* What t has for id, and for no other, is n bytes at a. *)
StoredAs(s, t, id, a, n) ==
  /\ s.blocks \in [Ids -> 0 .. MaxHeap] /\ s.sizes \in [Ids -> 0 .. MaxHeap]
  /\ t.blocks = [s.blocks EXCEPT ![id] = a] /\ t.sizes = [s.sizes EXCEPT ![id] = n]

(* Line k turns what s says is held into what t says is held. *)
Turns(s, t, lines, k, id, a, n) ==
  /\ HeldBlocks(t, lines, k) = With(HeldBlocks(s, lines, k - 1), id, a)
  /\ HeldSizes(t, lines, k) = With(HeldSizes(s, lines, k - 1), id, n)

(* A call that stores its answer changes what its id holds, *)
LEMMA HeldStored ==
  ASSUME NEW lines, LinesFit(lines), NEW k \in 1 .. Len(lines), NEW s, NEW t, NEW a, NEW n,
         NEW id, id = lines[k].index, lines[k].type # "f", StoredAs(s, t, id, a, n)
  PROVE  Turns(s, t, lines, k, id, a, n)
<1> DEFINE U(x) == InUseAfter(lines, k - 1, x)
           V(x) == InUseAfter(lines, k, x)
<1>1. lines \in Seq(Line) /\ id \in Ids /\ id \in Nat
  BY BeforeLine
<1>2. \A x : V(x) <=> IF id = x THEN lines[k].type # "f" ELSE U(x)
  BY <1>1, InUseStep
<1>3. \A x \in Nat : V(x) => x \in Ids
  BY <1>1, OnlyIdsInUse
<1> HIDE DEF U, V
<1>4. /\ t.blocks[id] = a /\ t.sizes[id] = n
      /\ \A x \in Ids : x # id => t.blocks[x] = s.blocks[x] /\ t.sizes[x] = s.sizes[x]
  BY <1>1 DEF StoredAs
<1>5. HeldBlocks(t, lines, k) = [x \in Nat |-> IF V(x) THEN t.blocks[x] ELSE NULL]
  BY DEF HeldBlocks, V
<1>6. HeldSizes(t, lines, k) = [x \in Nat |-> IF V(x) THEN t.sizes[x] ELSE 0]
  BY DEF HeldSizes, V
<1>7. HeldBlocks(s, lines, k - 1) = [x \in Nat |-> IF U(x) THEN s.blocks[x] ELSE NULL]
  BY DEF HeldBlocks, U
<1>8. HeldSizes(s, lines, k - 1) = [x \in Nat |-> IF U(x) THEN s.sizes[x] ELSE 0]
  BY DEF HeldSizes, U
<1>9. V(id) /\ \A x \in Nat : x # id => (V(x) <=> U(x))
  BY <1>2
<1>10. HeldBlocks(t, lines, k) = [HeldBlocks(s, lines, k - 1) EXCEPT ![id] = a]
  BY ONLY <1>1, <1>3, <1>4, <1>5, <1>7, <1>9
<1>11. HeldSizes(t, lines, k) = [HeldSizes(s, lines, k - 1) EXCEPT ![id] = n]
  BY ONLY <1>1, <1>3, <1>4, <1>6, <1>8, <1>9
<1> QED
  BY <1>10, <1>11 DEF With, Turns

(* a free takes its id out of use, *)
LEMMA HeldFreed ==
  ASSUME NEW lines, LinesFit(lines), NEW k \in 1 .. Len(lines), NEW s, NEW t,
         lines[k].type = "f", t.blocks = s.blocks, t.sizes = s.sizes
  PROVE  Turns(s, t, lines, k, lines[k].index, NULL, 0)
<1> DEFINE id == lines[k].index
           U(x) == InUseAfter(lines, k - 1, x)
           V(x) == InUseAfter(lines, k, x)
<1>1. lines \in Seq(Line)
  BY BeforeLine
<1>2. \A x : V(x) <=> IF id = x THEN lines[k].type # "f" ELSE U(x)
  BY <1>1, InUseStep
<1>3. \A x \in Nat : IF x = id THEN ~ V(x) ELSE V(x) <=> U(x)
  BY <1>2
<1> HIDE DEF U, V, id
<1>4. [x \in Nat |-> IF V(x) THEN t.blocks[x] ELSE NULL]
      = [[x \in Nat |-> IF U(x) THEN s.blocks[x] ELSE NULL] EXCEPT ![id] = NULL]
  BY <1>3
<1>5. [x \in Nat |-> IF V(x) THEN t.sizes[x] ELSE 0]
      = [[x \in Nat |-> IF U(x) THEN s.sizes[x] ELSE 0] EXCEPT ![id] = 0]
  BY <1>3
<1> QED
  BY <1>4, <1>5 DEF HeldBlocks, HeldSizes, U, V, id, With, Turns

(* and before a call the ids of the trace hold what the arrays say. *)
LEMMA HeldBefore ==
  ASSUME NEW lines, NEW k, NEW s, NEW x \in Nat
  PROVE  /\ InUseAfter(lines, k, x) => /\ HeldBlocks(s, lines, k)[x] = s.blocks[x]
                                       /\ HeldSizes(s, lines, k)[x] = s.sizes[x]
         /\ ~ InUseAfter(lines, k, x) => /\ HeldBlocks(s, lines, k)[x] = NULL
                                         /\ HeldSizes(s, lines, k)[x] = 0
BY DEF HeldBlocks, HeldSizes

(* The shape of a memory that serves. *)
LEMMA ServesShape ==
  ASSUME NEW m, NEW h, NEW p, NEW r, W!Serves(m, h, p, r)
  PROVE  /\ m.brk = h.brk /\ m.brk \in WSIZE .. MaxHeap
         /\ m = [mem |-> m.mem, brk |-> m.brk, lists |-> m.lists]
         /\ m.mem \in [Words -> Int]
BY SameArithmetic
   DEF W!Serves, W!Represents, W!MemShape, W!B!HeapOK, W!B!HeapShape, W!B!WSIZE

(* Payloads held lie apart, below the break. *)
LEMMA HeldApart ==
  ASSUME NEW m, NEW h, NEW p, NEW r, W!Serves(m, h, p, r), NEW x \in Nat, p[x] # NULL
  PROVE  /\ p[x] \in Nat /\ r[x] \in Nat /\ p[x] + r[x] <= m.brk
         /\ \A y \in Nat : (y # x /\ p[y] # NULL) => p[x] + r[x] <= p[y] \/ p[y] + r[y] <= p[x]
<1> DEFINE Held(y) == /\ p[y] \in Nat /\ r[y] \in Nat /\ p[y] - 8 \in DOMAIN h.hdr
                      /\ r[y] + 8 <= h.hdr[p[y] - 8].size
<1>1. ASSUME NEW y \in Nat, p[y] # NULL
      PROVE  Held(y)
  <2>1. W!Serves(m, h, p, r) /\ p[y] # W!NULL
    BY <1>1
  <2>2. /\ p[y] \in Nat /\ r[y] \in Nat /\ p[y] - 8 \in DOMAIN h.hdr
        /\ r[y] + 8 <= h.hdr[p[y] - 8].size
    BY ONLY <2>1, WordAssumptions, W!HeldBlock, y \in Nat
  <2> QED
    BY <2>2
<1>2. \A y \in Nat : (y # x /\ p[y] # NULL) => p[y] - 8 # p[x] - 8
  <2>1. W!Serves(m, h, p, r) /\ p[x] # W!NULL
    OBVIOUS
  <2>2. \A y \in Nat : (y # x /\ p[y] # W!NULL) => p[y] - 8 # p[x] - 8
    BY ONLY <2>1, WordAssumptions, W!HeldBlock, x \in Nat
  <2> QED
    BY <2>2
<1>3. /\ \A b \in DOMAIN h.hdr : b + h.hdr[b].size <= h.brk
      /\ \A b, c \in DOMAIN h.hdr : b < c => b + h.hdr[b].size <= c
      /\ \A b \in DOMAIN h.hdr : b \in Nat /\ h.hdr[b].size \in Nat
      /\ h.brk \in Nat
  BY MmWordsAssumption DEF W!Serves, W!B!HeapOK, W!B!Tiled, W!B!HeapShape, W!B!WSIZE
<1>4. m.brk = h.brk
  BY ServesShape
<1>5. \A y \in Nat : p[y] # NULL => p[y] + r[y] <= h.brk
  <2> TAKE y \in Nat
  <2> HAVE p[y] # NULL
  <2>1. Held(y)
    BY <1>1
  <2>2. h.hdr[p[y] - 8].size \in Nat /\ (p[y] - 8) + h.hdr[p[y] - 8].size <= h.brk
    BY <1>3, <2>1
  <2> QED
    BY <1>3, <2>1, <2>2
<1>6. ASSUME NEW a \in Nat, NEW b \in Nat, p[a] # NULL, p[b] # NULL, p[a] < p[b]
      PROVE  p[a] + r[a] <= p[b]
  <2>1. Held(a) /\ Held(b)
    BY <1>1, <1>6
  <2>2. /\ h.hdr[p[a] - 8].size \in Nat
        /\ p[a] - 8 < p[b] - 8 => (p[a] - 8) + h.hdr[p[a] - 8].size <= p[b] - 8
    BY <1>3, <2>1
  <2> QED
    BY <1>6, <2>1, <2>2
<1>7. ASSUME NEW y \in Nat, y # x, p[y] # NULL
      PROVE  p[x] + r[x] <= p[y] \/ p[y] + r[y] <= p[x]
  <2>1. p[x] \in Nat /\ p[y] \in Nat /\ p[y] - 8 # p[x] - 8
    BY <1>1, <1>2, <1>7
  <2>2. p[x] < p[y] \/ p[y] < p[x]
    BY <2>1
  <2> QED
    BY <1>6, <1>7, <2>2
<1> QED
  BY <1>1, <1>4, <1>5, <1>7

(* The payloads in use fit into the heap. *)
LEMMA PayloadFits ==
  ASSUME NEW lines, LinesFit(lines), NEW k \in 0 .. Len(lines), NEW m, NEW s,
         ServedAt(m, s, lines, Ids, k), SizesAt(s.sizes, lines, Ids, k),
         NEW g, IsPayload(g, lines)
  PROVE  g[LastLines(lines, Ids, k)] \in 0 .. m.brk
<1> DEFINE D == LastLines(lines, Ids, k)
           w == Weights(lines)
           p == HeldBlocks(s, lines, k)
           r == HeldSizes(s, lines, k)
           lo == [x \in D |-> IF w[x] = 0 THEN 0 ELSE p[lines[x].index]]
<1>1. /\ IsFiniteSet(DOMAIN lines) /\ D \in SUBSET DOMAIN lines
      /\ \A x \in DOMAIN lines : w[x] \in Nat
  BY WeightsType DEF LastLines
<1>2. W!Serves(m, s.heap, p, r) /\ m.brk \in Nat
  <2>1. W!Serves(m, s.heap, p, r)
    BY DEF ServedAt
  <2>2. m.brk \in WSIZE .. MaxHeap
    BY <2>1, ServesShape
  <2> QED
    BY <2>1, <2>2, MmWordsAssumption
<1>3. ASSUME NEW x \in D, w[x] # 0
      PROVE  /\ lines[x].index \in Nat /\ p[lines[x].index] # NULL
             /\ r[lines[x].index] = w[x] /\ lo[x] = p[lines[x].index]
  <2>1. lines[x].index \in Ids /\ lines[x].index \in Nat
    BY DEF LastLines, Ids
  <2>2. lines[x].type # "f" /\ w[x] = lines[x].size
    BY <1>1, <1>3 DEF Weights
  <2>3. InUseAfter(lines, k, lines[x].index)
    BY <2>1, <2>2, InUseLast
  <2>4. s.sizes[lines[x].index] = w[x]
    BY <2>2 DEF SizesAt
  <2>5. s.blocks[lines[x].index] # NULL
    BY <1>3, <2>1, <2>3, <2>4 DEF ServedAt
  <2> QED
    BY <1>3, <2>1, <2>3, <2>4, <2>5 DEF HeldBlocks, HeldSizes
<1> HIDE DEF p, r, w, D
<1>4. \A x \in D : w[x] \in Nat /\ lo[x] \in Nat
  <2> TAKE x \in D
  <2>1. w[x] \in Nat
    BY <1>1
  <2>2. CASE w[x] = 0
    BY <2>1, <2>2
  <2>3. CASE w[x] # 0
    <3>1. p[lines[x].index] \in Nat
      BY <1>2, <1>3, <2>3, HeldApart
    <3> QED
      BY <1>3, <2>1, <2>3, <3>1
  <2> QED
    BY <2>2, <2>3
<1> HIDE DEF lo
<1>5. ASSUME NEW x \in D, NEW y \in D, x # y, w[x] # 0, w[y] # 0
      PROVE  lo[x] + w[x] <= lo[y] \/ lo[y] + w[y] <= lo[x]
  <2>1. lines[x].index # lines[y].index
    <3>1. k \in Nat
      BY WeightsType
    <3> QED
      BY <1>5, <3>1, OneLastLine DEF D
  <2>2. /\ lines[x].index \in Nat /\ p[lines[x].index] # NULL
        /\ r[lines[x].index] = w[x] /\ lo[x] = p[lines[x].index]
    BY <1>3, <1>5
  <2>3. /\ lines[y].index \in Nat /\ p[lines[y].index] # NULL
        /\ r[lines[y].index] = w[y] /\ lo[y] = p[lines[y].index]
    BY <1>3, <1>5
  <2>4. \/ p[lines[x].index] + r[lines[x].index] <= p[lines[y].index]
        \/ p[lines[y].index] + r[lines[y].index] <= p[lines[x].index]
    BY <1>2, <2>1, <2>2, <2>3, HeldApart
  <2> QED
    BY <2>2, <2>3, <2>4
<1>6. ASSUME NEW x \in D, w[x] # 0
      PROVE  lo[x] + w[x] <= m.brk
  <2>1. /\ lines[x].index \in Nat /\ p[lines[x].index] # NULL
        /\ r[lines[x].index] = w[x] /\ lo[x] = p[lines[x].index]
    BY <1>3, <1>6
  <2>2. p[lines[x].index] + r[lines[x].index] <= m.brk
    BY <1>2, <2>1, HeldApart
  <2> QED
    BY <2>1, <2>2
<1>7. IsFiniteSet(D)
  BY <1>1, FS_Subset
<1>8. PICK h : IsSum(w, h, D)
  BY <1>7, SumExists
<1>9. h[D] \in 0 .. m.brk
  BY <1>2, <1>4, <1>5, <1>6, <1>7, <1>8, SumOfSpans
<1>10. h[D] = g[D]
  <2>1. IsSum(w, g, DOMAIN lines)
    BY DEF IsPayload, w
  <2> QED
    BY <1>1, <1>8, <2>1, SumOfSubset
<1> QED
  BY <1>9, <1>10 DEF D

(* A new payload lies in the heap. *)
LEMMA ClearFits ==
  ASSUME NEW m, NEW p, NEW r, NEW id, NEW a, NEW n \in Nat, W!Clear(m, p, r, id, a, n),
         m.brk \in WSIZE .. MaxHeap
  PROVE  a \in 0 .. MaxHeap /\ n \in 0 .. MaxHeap
BY MmWordsAssumption DEF W!Clear

(* A new payload of n bytes at a, under an id that held nothing. *)
LEMMA StoredServes ==
  ASSUME NEW lines, LinesFit(lines), NEW k \in 1 .. Len(lines), NEW m, NEW s, NEW u, NEW t,
         lines[k].type # "f",
         \A id \in Ids : s.sizes[id] % 8 = 0,
         \A id \in Ids : InUseAfter(lines, k - 1, id) /\ s.blocks[id] = NULL => s.sizes[id] = 0,
         StoredAs(s, t, lines[k].index, u.ptr, lines[k].size),
         u.ptr \in 0 .. MaxHeap, lines[k].size \in 0 .. MaxHeap,
         u.ptr = NULL => lines[k].size = 0,
         W!Serves(u.mm, t.heap, With(HeldBlocks(s, lines, k - 1), lines[k].index, u.ptr),
                  With(HeldSizes(s, lines, k - 1), lines[k].index, lines[k].size))
  PROVE  ServedAt(u.mm, t, lines, Ids, k)
<1> DEFINE id == lines[k].index
           n == lines[k].size
<1>1. /\ lines \in Seq(Line) /\ id \in Ids /\ n % 8 = 0
  BY BeforeLine
<1>2. /\ s.blocks \in [Ids -> 0 .. MaxHeap] /\ s.sizes \in [Ids -> 0 .. MaxHeap]
      /\ t.blocks = [s.blocks EXCEPT ![id] = u.ptr] /\ t.sizes = [s.sizes EXCEPT ![id] = n]
  BY DEF StoredAs
<1>3. \A x : InUseAfter(lines, k, x) <=> IF id = x THEN lines[k].type # "f" ELSE InUseAfter(lines, k - 1, x)
  BY <1>1, InUseStep
<1>4. W!Serves(u.mm, t.heap, HeldBlocks(t, lines, k), HeldSizes(t, lines, k))
  <2>1. id = lines[k].index /\ StoredAs(s, t, id, u.ptr, n)
    OBVIOUS
  <2> HIDE DEF id, n
  <2>2. Turns(s, t, lines, k, id, u.ptr, n)
    BY <2>1, HeldStored
  <2> QED
    BY <2>1, <2>2 DEF n, Turns
<1> HIDE DEF id, n
<1>5. t.blocks \in [Ids -> 0 .. MaxHeap] /\ t.sizes \in [Ids -> 0 .. MaxHeap]
  BY <1>1, <1>2 DEF n
<1>6. \A x \in Ids : /\ t.blocks[x] = IF x = id THEN u.ptr ELSE s.blocks[x]
                     /\ t.sizes[x] = IF x = id THEN n ELSE s.sizes[x]
  BY <1>1, <1>2
<1>7. \A x \in Ids : t.sizes[x] % 8 = 0
  BY <1>1, <1>6
<1>8. \A x \in Ids : InUseAfter(lines, k, x) /\ t.blocks[x] = NULL => t.sizes[x] = 0
  BY <1>3, <1>6 DEF n
<1> QED
  BY <1>4, <1>5, <1>7, <1>8 DEF ServedAt

(* malloc *)
LEMMA AllocAnswered ==
  ASSUME NEW lines, LinesFit(lines), NEW k \in 1 .. Len(lines), NEW m, NEW s,
         ServedAt(m, s, lines, Ids, k - 1), lines[k].type = "a"
  PROVE  Answered(m, s, lines, Ids, k)
<1> DEFINE l == lines[k]
           id == l.index
           n == l.size
           p == HeldBlocks(s, lines, k - 1)
           r == HeldSizes(s, lines, k - 1)
           u == malloc(m, n)
           v == W!B!malloc(s.heap, n)
           t == After(s, l)
<1>1. /\ id \in Ids /\ id \in Nat /\ n \in Nat /\ Representable(n) /\ ~ InUseAfter(lines, k - 1, id)
  BY BeforeLine
<1>2. WordCall(m, PointerOf(s, l), l) = u /\ BlockCall(s.heap, PointerOf(s, l), l) = v
  BY DEF WordCall, BlockCall
<1>3. t = [heap |-> v.heap, blocks |-> [s.blocks EXCEPT ![id] = v.ptr],
           sizes |-> [s.sizes EXCEPT ![id] = n]]
  BY <1>2 DEF After
<1>4. p[id] = NULL
  BY <1>1, HeldBefore
<1>5. W!Serves(m, s.heap, p, r)
  BY DEF ServedAt
<1> HIDE DEF p, r
<1>6. W!Granting(m, s.heap, p, r, id, n)
  <2> HIDE DEF id, n
  <2> QED
    BY <1>1, <1>4, <1>5, WordAssumptions, SameArithmetic, W!GrantWords
<1>7. /\ u.ptr = v.ptr
      /\ u.ptr = NULL => n = 0 \/ m.brk + asize(n) > MaxHeap
      /\ u.ptr # NULL =>
           /\ W!Serves(u.mm, v.heap, [p EXCEPT ![id] = u.ptr], [r EXCEPT ![id] = n])
           /\ W!Clear(u.mm, p, r, id, u.ptr, n)
           /\ \A x \in Nat : p[x] # NULL => W!SameWords(m, u.mm, p[x], r[x])
  BY <1>6, SameCalls, SameArithmetic DEF W!Granting
<1>8. Fails(s, l) <=> u.ptr = NULL
  BY <1>2, <1>7 DEF Fails, MayFail
<1> HIDE DEF u, v, t
<1>9. ASSUME u.ptr # NULL
      PROVE  ServedAt(u.mm, t, lines, Ids, k)
  <2>1. u.ptr \in 0 .. MaxHeap /\ n \in 0 .. MaxHeap
    <3>1. u.mm.brk \in WSIZE .. MaxHeap
      BY <1>7, <1>9, ServesShape
    <3>2. W!Clear(u.mm, p, r, id, u.ptr, n) /\ n \in Nat
      BY <1>1, <1>7, <1>9
    <3> HIDE DEF id, n
    <3> QED
      BY <3>1, <3>2, ClearFits
  <2>2. /\ \A x \in Ids : s.sizes[x] % 8 = 0
        /\ \A x \in Ids : InUseAfter(lines, k - 1, x) /\ s.blocks[x] = NULL => s.sizes[x] = 0
    BY DEF ServedAt
  <2>3. W!Serves(u.mm, t.heap, With(p, id, u.ptr), With(r, id, n))
    BY <1>3, <1>7, <1>9 DEF With
  <2>4. StoredAs(s, t, id, u.ptr, n)
    BY <1>3, <1>7 DEF StoredAs, ServedAt
  <2> QED
    BY <1>9, <2>1, <2>2, <2>3, <2>4, StoredServes DEF p, r
<1> QED
  BY <1>2, <1>7, <1>8, <1>9 DEF Answered, p, r, t

(* realloc, also of a block of no bytes and to no bytes *)
LEMMA ReallocAnswered ==
  ASSUME NEW lines, LinesFit(lines), NEW k \in 1 .. Len(lines), NEW m, NEW s,
         ServedAt(m, s, lines, Ids, k - 1), lines[k].type = "r"
  PROVE  Answered(m, s, lines, Ids, k)
<1> DEFINE l == lines[k]
           id == l.index
           n == l.size
           p == HeldBlocks(s, lines, k - 1)
           r == HeldSizes(s, lines, k - 1)
           u == realloc(m, s.blocks[id], n)
           v == W!B!realloc(s.heap, s.blocks[id], n)
           t == After(s, l)
<1>1. /\ id \in Ids /\ id \in Nat /\ id # -1 /\ n \in Nat /\ Representable(n)
      /\ InUseAfter(lines, k - 1, id)
  BY BeforeLine
<1>2. PointerOf(s, l) = s.blocks[id]
  BY <1>1 DEF PointerOf
<1>3. WordCall(m, PointerOf(s, l), l) = u /\ BlockCall(s.heap, PointerOf(s, l), l) = v
  BY <1>2 DEF WordCall, BlockCall
<1>4. t = [heap |-> v.heap, blocks |-> [s.blocks EXCEPT ![id] = v.ptr],
           sizes |-> [s.sizes EXCEPT ![id] = n]]
  BY <1>3 DEF After
<1>5. p[id] = s.blocks[id]
  BY <1>1, HeldBefore
<1>6. /\ \A x \in Ids : s.sizes[x] % 8 = 0
      /\ \A x \in Ids : InUseAfter(lines, k - 1, x) /\ s.blocks[x] = NULL => s.sizes[x] = 0
  BY DEF ServedAt
<1>7. W!Serves(m, s.heap, p, r)
  BY DEF ServedAt
<1> HIDE DEF p, r
<1>8. CASE n # 0
  <2>1. W!Moving(m, s.heap, p, r, id, n)
    <3> HIDE DEF id, n
    <3> QED
      BY <1>1, <1>7, <1>8, WordAssumptions, SameArithmetic, W!MoveWords
  <2>2. /\ u.ptr = v.ptr
        /\ u.ptr = NULL => m.brk + asize(n) > MaxHeap
        /\ u.ptr # NULL =>
             /\ W!Serves(u.mm, v.heap, [p EXCEPT ![id] = u.ptr], [r EXCEPT ![id] = n])
             /\ W!Clear(u.mm, p, r, id, u.ptr, n)
             /\ \A x \in Nat \ {id} : p[x] # NULL => W!SameWords(m, u.mm, p[x], r[x])
             /\ p[id] # NULL =>
                  \A j \in 0 .. MinOf(n, r[id]) \div 8 - 1 :
                    GET(u.mm, u.ptr + 8 * j) = GET(m, p[id] + 8 * j)
    BY <1>5, <2>1, SameCalls, SameArithmetic, SameAccesses DEF W!Moving
  <2>3. Fails(s, l) <=> u.ptr = NULL
    BY <1>3, <1>8, <2>2 DEF Fails, MayFail
  <2> HIDE DEF u, v, t
  <2>4. ASSUME u.ptr # NULL
        PROVE  ServedAt(u.mm, t, lines, Ids, k)
    <3>1. u.ptr \in 0 .. MaxHeap /\ n \in 0 .. MaxHeap
      <4>1. u.mm.brk \in WSIZE .. MaxHeap
        BY <2>2, <2>4, ServesShape
      <4>2. W!Clear(u.mm, p, r, id, u.ptr, n) /\ n \in Nat
        BY <1>1, <2>2, <2>4
      <4> HIDE DEF id, n
      <4> QED
        BY <4>1, <4>2, ClearFits
    <3>2. W!Serves(u.mm, t.heap, With(p, id, u.ptr), With(r, id, n))
      BY <1>4, <2>2, <2>4 DEF With
    <3>3. StoredAs(s, t, id, u.ptr, n)
      BY <1>4, <2>2 DEF StoredAs, ServedAt
    <3> QED
      BY <1>6, <2>4, <3>1, <3>2, <3>3, StoredServes DEF p, r
  <2> QED
    BY <1>3, <1>8, <2>2, <2>3, <2>4 DEF Answered, p, r, t
<1>9. CASE n = 0
  <2>1. u = [mm |-> free(m, p[id]), ptr |-> NULL] /\ v = [heap |-> W!B!free(s.heap, p[id]), ptr |-> NULL]
    BY <1>5, <1>9 DEF realloc, W!B!realloc, W!B!NULL
  <2>2. LET q == free(m, p[id])
        IN  /\ W!Serves(q, W!B!free(s.heap, p[id]), [p EXCEPT ![id] = NULL], [r EXCEPT ![id] = 0])
            /\ \A x \in Nat \ {id} : p[x] # NULL => W!SameWords(m, q, p[x], r[x])
    <3> HIDE DEF id
    <3> QED
      BY <1>1, <1>7, WordAssumptions, SameCalls, W!ReleaseWords
  <2>3. ~ Fails(s, l)
    BY <1>9 DEF Fails, MayFail
  <2> HIDE DEF u, v, t
  <2>4. ServedAt(u.mm, t, lines, Ids, k)
    <3>1. u.ptr \in 0 .. MaxHeap /\ n \in 0 .. MaxHeap
      BY <1>9, <2>1, MmWordsAssumption
    <3>2. W!Serves(u.mm, t.heap, With(p, id, u.ptr), With(r, id, n))
      BY <1>4, <1>9, <2>1, <2>2 DEF With
    <3>3. StoredAs(s, t, id, u.ptr, n)
      BY <1>4, <2>1 DEF StoredAs, ServedAt
    <3> QED
      BY <1>6, <1>9, <3>1, <3>2, <3>3, StoredServes DEF p, r
  <2> QED
    BY <1>3, <1>9, <2>1, <2>2, <2>3, <2>4 DEF Answered, p, r, t
<1> QED
  BY <1>8, <1>9

(* free, of a null pointer too *)
LEMMA FreeAnswered ==
  ASSUME NEW lines, LinesFit(lines), NEW k \in 1 .. Len(lines), NEW m, NEW s,
         ServedAt(m, s, lines, Ids, k - 1), lines[k].type = "f"
  PROVE  Answered(m, s, lines, Ids, k)
<1> DEFINE l == lines[k]
           id == l.index
           p == HeldBlocks(s, lines, k - 1)
           r == HeldSizes(s, lines, k - 1)
           a == PointerOf(s, l)
           q == free(m, a)
           t == After(s, l)
<1>1. /\ id \in Ids \cup {-1} /\ -1 \notin Nat /\ Ids \subseteq Nat
      /\ id # -1 => InUseAfter(lines, k - 1, id)
      /\ lines \in Seq(Line)
  BY BeforeLine
<1>2. /\ WordCall(m, a, l) = [mm |-> q, ptr |-> a]
      /\ BlockCall(s.heap, a, l) = [heap |-> W!B!free(s.heap, a), ptr |-> a]
  BY DEF WordCall, BlockCall
<1>3. t.heap = W!B!free(s.heap, a) /\ t.blocks = s.blocks /\ t.sizes = s.sizes
  BY <1>2 DEF After
<1>4. ~ Fails(s, l)
  BY DEF Fails, MayFail
<1>5. W!Serves(m, s.heap, p, r)
  BY DEF ServedAt
<1>6. ASSUME id # -1
      PROVE  a = p[id]
  <2>1. a = s.blocks[id]
    BY <1>6 DEF PointerOf
  <2>2. id \in Nat /\ InUseAfter(lines, k - 1, id)
    BY <1>1, <1>6
  <2> QED
    BY <2>1, <2>2, HeldBefore
<1>7. p = [x \in Nat |-> p[x]] /\ r = [x \in Nat |-> r[x]]
  BY DEF HeldBlocks, HeldSizes
<1> HIDE DEF p, r, t
<1>8. /\ W!Serves(q, t.heap, With(p, id, NULL), With(r, id, 0))
      /\ \A x \in Nat \ {id} : p[x] # NULL => W!SameWords(m, q, p[x], r[x])
  <2>1. CASE id = -1
    <3>1. a = NULL
      BY <2>1 DEF PointerOf
    <3>2. q = m /\ t.heap = s.heap
      BY <1>3, <3>1 DEF free, W!B!free, W!B!NULL
    <3>3. With(p, id, NULL) = p /\ With(r, id, 0) = r
      BY <1>1, <1>7, <2>1 DEF With
    <3>4. \A x : W!SameWords(m, m, p[x], r[x])
      BY DEF W!SameWords
    <3> QED
      BY <1>5, <3>2, <3>3, <3>4
  <2>2. CASE id # -1
    <3>1. id \in Nat /\ a = p[id]
      BY <1>1, <1>6, <2>2
    <3>2. LET f == free(m, p[id])
          IN  /\ W!Serves(f, W!B!free(s.heap, p[id]), [p EXCEPT ![id] = NULL], [r EXCEPT ![id] = 0])
              /\ \A x \in Nat \ {id} : p[x] # NULL => W!SameWords(m, f, p[x], r[x])
      <4> HIDE DEF id
      <4> QED
        BY <1>5, <3>1, WordAssumptions, SameCalls, W!ReleaseWords
    <3> QED
      BY <1>3, <3>1, <3>2 DEF With
  <2> QED
    BY <2>1, <2>2
<1>9. Turns(s, t, lines, k, id, NULL, 0)
  BY <1>3, HeldFreed
<1>10. \A x : InUseAfter(lines, k, x) => InUseAfter(lines, k - 1, x)
  BY <1>1, InUseStep
<1>11. W!Serves(q, t.heap, HeldBlocks(t, lines, k), HeldSizes(t, lines, k))
  BY <1>8, <1>9 DEF Turns, p, r
<1>12. ServedAt(q, t, lines, Ids, k)
  BY <1>3, <1>10, <1>11 DEF ServedAt
<1> QED
  BY <1>2, <1>4, <1>8, <1>12 DEF Answered, p, r, t

(* So every line is answered. *)
LEMMA LineAnswered ==
  ASSUME NEW lines, LinesFit(lines), NEW k \in 1 .. Len(lines), NEW m, NEW s,
         ServedAt(m, s, lines, Ids, k - 1)
  PROVE  Answered(m, s, lines, Ids, k)
BY BeforeLine, AllocAnswered, ReallocAnswered, FreeAnswered

(* Line k leads from m and s to the answer u and to t. *)
Passes(m, s, u, t, lines, k) ==
  /\ LinesFit(lines) /\ k \in 1 .. Len(lines)
  /\ ServedAt(m, s, lines, Ids, k - 1)
  /\ u = WordCall(m, PointerOf(s, lines[k]), lines[k])
  /\ t = After(s, lines[k]) /\ ~ Fails(s, lines[k])

(* What is stored, and what the words hold. *)
LEMMA PassedLine ==
  ASSUME NEW m, NEW s, NEW u, NEW t, NEW lines, NEW k, Passes(m, s, u, t, lines, k)
  PROVE  LET l == lines[k]
             p == HeldBlocks(s, lines, k - 1)
             r == HeldSizes(s, lines, k - 1)
         IN  /\ ServedAt(u.mm, t, lines, Ids, k)
             /\ l.type # "f" => /\ u.ptr = NULL <=> (l.type = "r" /\ l.size = 0)
                                /\ StoredAs(s, t, l.index, u.ptr, l.size)
                                /\ Turns(s, t, lines, k, l.index, u.ptr, l.size)
                                /\ u.ptr # NULL => W!Clear(u.mm, p, r, l.index, u.ptr, l.size)
             /\ l.type = "f" => /\ t.blocks = s.blocks /\ t.sizes = s.sizes
                                /\ Turns(s, t, lines, k, l.index, NULL, 0)
             /\ \A x \in Nat \ {l.index} : p[x] # NULL => W!SameWords(m, u.mm, p[x], r[x])
             /\ l.type = "r" /\ u.ptr # NULL /\ p[l.index] # NULL =>
                  \A j \in 0 .. MinOf(l.size, r[l.index]) \div 8 - 1 :
                    GET(u.mm, u.ptr + 8 * j) = GET(m, p[l.index] + 8 * j)
<1> DEFINE l == lines[k]
           v == BlockCall(s.heap, PointerOf(s, l), l)
<1>1. /\ LinesFit(lines) /\ k \in 1 .. Len(lines)
      /\ ServedAt(m, s, lines, Ids, k - 1)
      /\ u = WordCall(m, PointerOf(s, l), l)
      /\ t = After(s, l) /\ ~ Fails(s, l)
  BY DEF Passes
<1>2. Answered(m, s, lines, Ids, k)
  BY <1>1, LineAnswered
<1>3. l.type \in {"a", "r", "f"}
  BY <1>1, BeforeLine
<1>4. u.ptr = v.ptr
  BY <1>1, <1>2 DEF Answered
<1> HIDE DEF v
<1>5. l.type # "f" => (u.ptr = NULL <=> (l.type = "r" /\ l.size = 0))
  BY <1>1, <1>2, <1>3, <1>4 DEF Fails, MayFail, Answered, v
<1>6. ASSUME l.type # "f"
      PROVE  StoredAs(s, t, l.index, u.ptr, l.size) /\ Turns(s, t, lines, k, l.index, u.ptr, l.size)
  <2> DEFINE id == l.index
             n == l.size
  <2>1. t.blocks = [s.blocks EXCEPT ![id] = u.ptr] /\ t.sizes = [s.sizes EXCEPT ![id] = n]
    BY <1>1, <1>4, <1>6 DEF After, v
  <2>2. s.blocks \in [Ids -> 0 .. MaxHeap] /\ s.sizes \in [Ids -> 0 .. MaxHeap]
    BY <1>1 DEF ServedAt
  <2>3. StoredAs(s, t, id, u.ptr, n)
    BY <2>1, <2>2 DEF StoredAs
  <2>4. id = lines[k].index
    OBVIOUS
  <2> HIDE DEF id, n
  <2>5. Turns(s, t, lines, k, id, u.ptr, n)
    BY <1>1, <1>6, <2>3, <2>4, HeldStored
  <2> QED
    BY <2>3, <2>5 DEF id, n
<1>7. ASSUME l.type = "f"
      PROVE  t.blocks = s.blocks /\ t.sizes = s.sizes /\ Turns(s, t, lines, k, l.index, NULL, 0)
  <2>1. t.blocks = s.blocks /\ t.sizes = s.sizes
    BY <1>1, <1>7 DEF After
  <2> QED
    BY <1>1, <1>7, <2>1, HeldFreed
<1> QED
  BY <1>1, <1>2, <1>5, <1>6, <1>7 DEF Answered

-----------------------------------------------------------------------------
(* What eval_mm_valid looks at *)

(* The payloads in use hold their patterns. *)
Checked(m, s, bases, lines, ids, k) ==
  \A id \in ids :
    InUseAfter(lines, k, id) => check_index(m, s.blocks[id], s.sizes[id], bases[id], FALSE)

(* A line leaves the patterns of the other ids alone. *)
LEMMA OthersChecked ==
  ASSUME NEW m, NEW s, NEW u, NEW t, NEW lines, NEW k, Passes(m, s, u, t, lines, k),
         NEW bases, Checked(m, s, bases, lines, Ids, k - 1),
         NEW x \in Ids, x # lines[k].index, InUseAfter(lines, k, x)
  PROVE  /\ t.blocks[x] = s.blocks[x] /\ t.sizes[x] = s.sizes[x] /\ t.sizes[x] \in Nat
         /\ t.blocks[x] = NULL => t.sizes[x] = 0
         /\ check_index(u.mm, t.blocks[x], t.sizes[x], bases[x], FALSE)
<1> DEFINE p == HeldBlocks(s, lines, k - 1)
           r == HeldSizes(s, lines, k - 1)
<1>1. /\ LinesFit(lines) /\ k \in 1 .. Len(lines)
      /\ ServedAt(m, s, lines, Ids, k - 1)
  BY DEF Passes
<1>2. lines \in Seq(Line) /\ x \in Nat
  BY <1>1, BeforeLine
<1>3. InUseAfter(lines, k - 1, x)
  BY <1>1, <1>2, InUseStep
<1>4. p[x] = s.blocks[x] /\ r[x] = s.sizes[x]
  BY <1>2, <1>3, HeldBefore
<1>5. t.blocks[x] = s.blocks[x] /\ t.sizes[x] = s.sizes[x]
  <2>1. CASE lines[k].type # "f"
    <3>1. StoredAs(s, t, lines[k].index, u.ptr, lines[k].size)
      BY <2>1, PassedLine
    <3> QED
      BY <3>1 DEF StoredAs
  <2>2. CASE lines[k].type = "f"
    BY <2>2, PassedLine
  <2> QED
    BY <2>1, <2>2
<1>6. s.sizes[x] \in Nat /\ (s.blocks[x] = NULL => s.sizes[x] = 0)
  BY <1>1, <1>3, MmWordsAssumption DEF ServedAt
<1>7. check_index(m, s.blocks[x], s.sizes[x], bases[x], FALSE)
  BY <1>3 DEF Checked
<1>8. CASE s.blocks[x] = NULL
  BY <1>5, <1>6, <1>8, CheckNothing
<1>9. CASE s.blocks[x] # NULL
  <2>1. W!SameWords(m, u.mm, s.blocks[x], s.sizes[x])
    BY <1>2, <1>4, <1>9, PassedLine
  <2> QED
    BY <1>5, <1>6, <1>7, <1>9, <2>1, CheckKept
<1> QED
  BY <1>8, <1>9

(* A request of no bytes has nothing to fill. *)
LEMMA RandomizedNothing ==
  ASSUME NEW m, m = [mem |-> m.mem, brk |-> m.brk, lists |-> m.lists], m.mem \in [Words -> Int],
         NEW p, NEW base
  PROVE  randomize_block(m, p, 0, base) = m
<1>1. 0 \div 8 = 0
  OBVIOUS
<1>2. DOMAIN FilledWords(0, TRUE) = {}
  <2>1. 0 \in Nat /\ 0 .. 0 - 1 = {}
    OBVIOUS
  <2> QED
    BY ONLY <2>1, FilledShape, ReplayAssumption
<1>3. [w \in Words |-> m.mem[w]] = m.mem
  OBVIOUS
<1>4. randomize_block(m, p, 0, base) = [m EXCEPT !.mem = [w \in Words |-> m.mem[w]]]
  BY <1>1, <1>2 DEF randomize_block
<1> QED
  BY <1>3, <1>4

(* The new payload is filled, and all payloads in use hold their patterns. *)
LEMMA FilledLine ==
  ASSUME NEW m, NEW s, NEW u, NEW t, NEW lines, NEW k, Passes(m, s, u, t, lines, k),
         NEW bases \in [Ids -> Nat], Checked(m, s, bases, lines, Ids, k - 1), lines[k].type # "f",
         NEW base \in Nat, NEW q, q = randomize_block(u.mm, u.ptr, lines[k].size, base)
  PROVE  /\ ServedAt(q, t, lines, Ids, k)
         /\ Checked(q, t, With(bases, lines[k].index, base), lines, Ids, k)
<1> DEFINE id == lines[k].index
           n == lines[k].size
           P == HeldBlocks(t, lines, k)
           T == HeldSizes(t, lines, k)
           C == With(bases, id, base)
<1>1. /\ LinesFit(lines) /\ k \in 1 .. Len(lines)
  BY DEF Passes
<1>2. /\ lines \in Seq(Line) /\ id \in Ids /\ id \in Nat /\ n \in Nat /\ n % 8 = 0
  BY <1>1, BeforeLine
<1>3. ServedAt(u.mm, t, lines, Ids, k)
  BY PassedLine
<1>4. W!Serves(u.mm, t.heap, P, T)
  BY <1>3 DEF ServedAt
<1>5. t.blocks[id] = u.ptr /\ t.sizes[id] = n
  <2>1. StoredAs(s, t, id, u.ptr, n)
    BY PassedLine
  <2> QED
    BY <1>2, <2>1 DEF StoredAs
<1>6. InUseAfter(lines, k, id)
  BY <1>1, <1>2, InUseStep
<1>7. \A x \in Nat : InUseAfter(lines, k, x) => P[x] = t.blocks[x] /\ T[x] = t.sizes[x]
  BY HeldBefore
<1>8. P[id] = u.ptr /\ T[id] = n
  BY <1>2, <1>5, <1>6, <1>7
<1>9. C[id] = base /\ \A x \in Ids : x # id => C[x] = bases[x]
  BY <1>2 DEF With
<1>10. u.ptr = NULL => n = 0
  BY PassedLine
<1>11. ASSUME NEW x \in Ids, x # id, InUseAfter(lines, k, x)
       PROVE  /\ t.sizes[x] \in Nat /\ (t.blocks[x] = NULL => t.sizes[x] = 0)
              /\ check_index(u.mm, t.blocks[x], t.sizes[x], C[x], FALSE)
              /\ x \in Nat
  <2>1. x # lines[k].index
    BY <1>11
  <2>2. /\ t.sizes[x] \in Nat /\ (t.blocks[x] = NULL => t.sizes[x] = 0)
        /\ check_index(u.mm, t.blocks[x], t.sizes[x], bases[x], FALSE)
    <3>1. t.sizes[x] \in Nat /\ (t.blocks[x] = NULL => t.sizes[x] = 0)
      BY <1>3, <1>11, MmWordsAssumption DEF ServedAt
    <3>2. check_index(u.mm, t.blocks[x], t.sizes[x], bases[x], FALSE)
      BY <1>11, <2>1, OthersChecked
    <3> QED
      BY <3>1, <3>2
  <2>3. C[x] = bases[x] /\ x \in Nat
    BY <1>9, <1>11 DEF Ids
  <2> QED
    BY <2>2, <2>3
<1> HIDE DEF id, n, P, T, C
<1>12. CASE u.ptr = NULL
  <2>1. q = u.mm
    BY <1>4, <1>10, <1>12, ServesShape, RandomizedNothing DEF n
  <2>2. check_index(q, t.blocks[id], t.sizes[id], C[id], FALSE)
    BY <1>5, <1>10, <1>12, CheckNothing
  <2>3. Checked(q, t, C, lines, Ids, k)
    BY <1>11, <2>1, <2>2 DEF Checked
  <2> QED
    BY <1>3, <2>1, <2>3 DEF C, id
<1>13. CASE u.ptr # NULL
  <2>1. q = randomize_block(u.mm, P[id], T[id], base)
    BY <1>8 DEF n
  <2>2. P[id] # NULL /\ T[id] % 8 = 0
    BY <1>2, <1>8, <1>13
  <2>3. /\ W!Serves(q, t.heap, P, T)
        /\ check_index(q, P[id], T[id], base, FALSE)
        /\ \A x \in Nat \ {id} : P[x] # NULL => W!SameWords(u.mm, q, P[x], T[x])
    BY <1>2, <1>4, <2>1, <2>2, Randomized
  <2>4. ServedAt(q, t, lines, Ids, k)
    BY <1>3, <2>3 DEF ServedAt, P, T
  <2>5. ASSUME NEW x \in Ids, x # id, InUseAfter(lines, k, x)
        PROVE  check_index(q, t.blocks[x], t.sizes[x], C[x], FALSE)
    <3>1. CASE t.blocks[x] = NULL
      BY <1>11, <2>5, <3>1, CheckNothing
    <3>2. CASE t.blocks[x] # NULL
      <4>1. W!SameWords(u.mm, q, t.blocks[x], t.sizes[x])
        BY <1>7, <1>11, <2>3, <2>5, <3>2
      <4> QED
        BY <1>11, <2>5, <4>1, CheckKept
    <3> QED
      BY <3>1, <3>2
  <2>6. check_index(q, t.blocks[id], t.sizes[id], C[id], FALSE)
    BY <1>5, <1>8, <1>9, <2>3
  <2>7. Checked(q, t, C, lines, Ids, k)
    BY <2>5, <2>6 DEF Checked
  <2> QED
    BY <2>4, <2>7 DEF C, id
<1> QED
  BY <1>12, <1>13

(* So they do after a free. *)
LEMMA FreedLine ==
  ASSUME NEW m, NEW s, NEW u, NEW t, NEW lines, NEW k, Passes(m, s, u, t, lines, k),
         NEW bases, Checked(m, s, bases, lines, Ids, k - 1), lines[k].type = "f"
  PROVE  Checked(u.mm, t, bases, lines, Ids, k)
<1>1. lines \in Seq(Line) /\ k \in 1 .. Len(lines)
  BY BeforeLine DEF Passes
<1>2. \A x \in Ids : InUseAfter(lines, k, x) => x # lines[k].index
  BY <1>1, InUseStep
<1>3. ASSUME NEW x \in Ids, InUseAfter(lines, k, x)
      PROVE  check_index(u.mm, t.blocks[x], t.sizes[x], bases[x], FALSE)
  BY <1>2, <1>3, OthersChecked
<1> QED
  BY <1>3 DEF Checked

(* What realloc carries over passes the check from the front. *)
LEMMA CarriedOver ==
  ASSUME NEW m, NEW s, NEW u, NEW t, NEW lines, NEW k, Passes(m, s, u, t, lines, k),
         NEW bases, Checked(m, s, bases, lines, Ids, k - 1), lines[k].type = "r"
  PROVE  LET id == lines[k].index
         IN  /\ check_index(m, s.blocks[id], s.sizes[id], bases[id], FALSE)
             /\ check_index(u.mm, u.ptr, MinOf(lines[k].size, s.sizes[id]), bases[id], TRUE)
<1> DEFINE id == lines[k].index
           n == lines[k].size
           p == HeldBlocks(s, lines, k - 1)
           r == HeldSizes(s, lines, k - 1)
<1>1. /\ LinesFit(lines) /\ k \in 1 .. Len(lines)
      /\ ServedAt(m, s, lines, Ids, k - 1)
  BY DEF Passes
<1>2. id \in Ids /\ id \in Nat /\ n \in Nat /\ InUseAfter(lines, k - 1, id)
  BY <1>1, BeforeLine
<1>3. p[id] = s.blocks[id] /\ r[id] = s.sizes[id]
  BY <1>2, HeldBefore
<1>4. r[id] \in Nat /\ (p[id] = NULL => r[id] = 0)
  BY <1>1, <1>2, <1>3, MmWordsAssumption DEF ServedAt
<1>5. check_index(m, p[id], r[id], bases[id], FALSE)
  BY <1>2, <1>3 DEF Checked
<1>6. u.ptr = NULL => n = 0
  BY PassedLine
<1>7. (u.ptr # NULL /\ p[id] # NULL) =>
        \A j \in 0 .. MinOf(n, r[id]) \div 8 - 1 :
          GET(u.mm, u.ptr + 8 * j) = GET(m, p[id] + 8 * j)
  BY PassedLine
<1> HIDE DEF id, n, p, r
<1>8. CASE u.ptr = NULL \/ p[id] = NULL
  <2>1. MinOf(n, r[id]) = 0
    BY <1>2, <1>4, <1>6, <1>8 DEF MinOf
  <2> QED
    BY <1>3, <1>5, <2>1, CheckNothing DEF id, n
<1>9. CASE u.ptr # NULL /\ p[id] # NULL
  <2>1. check_index(u.mm, u.ptr, MinOf(n, r[id]), bases[id], TRUE)
    BY <1>2, <1>4, <1>5, <1>7, <1>9, CheckFront
  <2> QED
    BY <1>3, <1>5, <2>1 DEF id, n
<1> QED
  BY <1>8, <1>9

(* A payload that is clear of the others lies in the heap, and aligned.    *)
LEMMA ClearJudged ==
  ASSUME NEW m, m.brk \in Nat, NEW p, NEW r, NEW id, NEW a, NEW n \in Nat \ {0},
         W!Clear(m, p, r, id, a, n)
  PROVE  R!JudgeExtent(a, a + n - 1, m.brk - 1) = "ok"
BY DEF W!Clear, R!JudgeExtent, R!InHeap

(* What id holds is replaced. *)
LEMMA WithTwice ==
  ASSUME NEW p, NEW r, Holding(p, r), NEW id \in Nat, NEW a, NEW n, NEW v, NEW w
  PROVE  /\ With(With(p, id, v), id, a) = With(p, id, a)
         /\ With(With(r, id, w), id, n) = With(r, id, n)
         /\ With(p, id, v)[id] = v
         /\ Holding(With(p, id, NULL), With(r, id, 0))
         /\ \A x \in Nat : x # id => With(p, id, v)[x] = p[x] /\ With(r, id, w)[x] = r[x]
BY DEF With, Holding

(* The records g are of what is held after k lines. *)
RecordsAt(g, s, lines, k) == OnRecord(g, HeldBlocks(s, lines, k), HeldSizes(s, lines, k))

(* A new payload lies in the heap, and aligned.                            *)
LEMMA NewInHeap ==
  ASSUME NEW m, NEW s, NEW u, NEW t, NEW lines, NEW k, Passes(m, s, u, t, lines, k),
         lines[k].type # "f", u.ptr # NULL,
         NEW hi, hi = u.ptr + lines[k].size - 1, NEW top, top = u.mm.brk - 1
  PROVE  lines[k].size # 0 /\ R!JudgeExtent(u.ptr, hi, top) = "ok"
<1> DEFINE id == lines[k].index
           n == lines[k].size
           p == HeldBlocks(s, lines, k - 1)
           r == HeldSizes(s, lines, k - 1)
<1>1. /\ LinesFit(lines) /\ k \in 1 .. Len(lines)
      /\ ServedAt(m, s, lines, Ids, k - 1)
  BY DEF Passes
<1>2. id \in Nat /\ n \in Nat
  BY <1>1, BeforeLine
<1>3. Holding(p, r)
  BY <1>1, ServesHolding DEF ServedAt
<1>4. /\ W!Clear(u.mm, p, r, id, u.ptr, n)
      /\ Turns(s, t, lines, k, id, u.ptr, n) /\ ServedAt(u.mm, t, lines, Ids, k)
  BY PassedLine
<1>5. u.mm.brk \in Nat
  BY <1>4, ServesShape, MmWordsAssumption DEF ServedAt
<1>6. n # 0
  <2>1. W!Serves(u.mm, t.heap, With(p, id, u.ptr), With(r, id, n))
    BY <1>4 DEF ServedAt, Turns
  <2> HIDE DEF p, r, id, n
  <2>2. Holding(With(p, id, u.ptr), With(r, id, n))
    BY <2>1, ServesHolding
  <2>3. With(p, id, u.ptr)[id] = u.ptr /\ With(r, id, n)[id] = n
    BY <1>2, <1>3 DEF With, Holding
  <2> QED
    BY <1>2, <2>2, <2>3 DEF Holding
<1> HIDE DEF id, n, p, r
<1>7. R!JudgeExtent(u.ptr, u.ptr + n - 1, u.mm.brk - 1) = "ok"
  BY <1>2, <1>4, <1>5, <1>6, ClearJudged
<1> QED
  BY <1>6, <1>7 DEF n

(* The range of a new payload is accepted and recorded. *)
LEMMA AllocRecorded ==
  ASSUME NEW m, NEW s, NEW u, NEW t, NEW lines, NEW k, Passes(m, s, u, t, lines, k),
         lines[k].type = "a", NEW g, RecordsAt(g, s, lines, k - 1),
         NEW hi, hi = u.ptr + lines[k].size - 1, NEW top, top = u.mm.brk - 1
  PROVE  /\ R!Judge(g, u.ptr, hi, top) = "ok"
         /\ RecordsAt(R!add_range(g, u.ptr, hi, top), t, lines, k)
<1> DEFINE id == lines[k].index
           n == lines[k].size
           p == HeldBlocks(s, lines, k - 1)
           r == HeldSizes(s, lines, k - 1)
<1>1. /\ LinesFit(lines) /\ k \in 1 .. Len(lines)
      /\ ServedAt(m, s, lines, Ids, k - 1)
  BY DEF Passes
<1>2. id \in Nat /\ n \in Nat /\ ~ InUseAfter(lines, k - 1, id)
  BY <1>1, BeforeLine
<1>3. p[id] = NULL
  BY <1>2, HeldBefore
<1>4. Holding(p, r) /\ OnRecord(g, p, r)
  BY <1>1, ServesHolding DEF ServedAt, RecordsAt
<1>5. /\ u.ptr # NULL /\ W!Clear(u.mm, p, r, id, u.ptr, n)
      /\ Turns(s, t, lines, k, id, u.ptr, n) /\ ServedAt(u.mm, t, lines, Ids, k)
  BY PassedLine
<1>6. u.mm.brk \in Nat
  BY <1>5, ServesShape, MmWordsAssumption DEF ServedAt
<1>7. n # 0
  BY <1>5, NewInHeap
<1>8. HeldBlocks(t, lines, k) = With(p, id, u.ptr) /\ HeldSizes(t, lines, k) = With(r, id, n)
  BY <1>5 DEF Turns
<1> HIDE DEF id, n, p, r
<1>9. /\ R!Judge(g, u.ptr, u.ptr + n - 1, u.mm.brk - 1) = "ok"
      /\ OnRecord(R!add_range(g, u.ptr, u.ptr + n - 1, u.mm.brk - 1), With(p, id, u.ptr), With(r, id, n))
  BY <1>2, <1>3, <1>4, <1>5, <1>6, <1>7, ClearAccepted
<1> QED
  BY <1>8, <1>9 DEF n, RecordsAt

(* realloc takes the old range off the record, and puts the new one on it, *)
(* unless it was to no bytes.                                              *)
LEMMA ReallocRecorded ==
  ASSUME NEW m, NEW s, NEW u, NEW t, NEW lines, NEW k, Passes(m, s, u, t, lines, k),
         lines[k].type = "r", NEW g, RecordsAt(g, s, lines, k - 1),
         NEW rest, rest = R!remove_range(g, s.blocks[lines[k].index]),
         NEW hi, hi = u.ptr + lines[k].size - 1, NEW top, top = u.mm.brk - 1
  PROVE  IF lines[k].size = 0 THEN RecordsAt(rest, t, lines, k)
         ELSE /\ R!Judge(rest, u.ptr, hi, top) = "ok"
              /\ RecordsAt(R!add_range(rest, u.ptr, hi, top), t, lines, k)
<1> DEFINE id == lines[k].index
           n == lines[k].size
           p == HeldBlocks(s, lines, k - 1)
           r == HeldSizes(s, lines, k - 1)
           p1 == With(p, id, NULL)
           r1 == With(r, id, 0)
<1>1. /\ LinesFit(lines) /\ k \in 1 .. Len(lines)
      /\ ServedAt(m, s, lines, Ids, k - 1)
  BY DEF Passes
<1>2. id \in Nat /\ n \in Nat /\ InUseAfter(lines, k - 1, id)
  BY <1>1, BeforeLine
<1>3. p[id] = s.blocks[id]
  BY <1>2, HeldBefore
<1>4. Holding(p, r) /\ OnRecord(g, p, r)
  BY <1>1, ServesHolding DEF ServedAt, RecordsAt
<1>5. /\ u.ptr = NULL <=> n = 0
      /\ u.ptr # NULL => W!Clear(u.mm, p, r, id, u.ptr, n)
      /\ Turns(s, t, lines, k, id, u.ptr, n) /\ ServedAt(u.mm, t, lines, Ids, k)
  BY PassedLine
<1>6. u.mm.brk \in Nat
  BY <1>5, ServesShape, MmWordsAssumption DEF ServedAt
<1>7. HeldBlocks(t, lines, k) = With(p, id, u.ptr) /\ HeldSizes(t, lines, k) = With(r, id, n)
  BY <1>5 DEF Turns
<1>8. rest = R!remove_range(g, p[id])
  BY <1>3
<1> HIDE DEF id, n, p, r
<1>9. OnRecord(rest, p1, r1)
  BY <1>2, <1>4, <1>8, ReturnedForgotten
<1>10. /\ With(p1, id, u.ptr) = With(p, id, u.ptr) /\ With(r1, id, n) = With(r, id, n)
       /\ p1[id] = NULL /\ Holding(p1, r1)
       /\ \A x \in Nat : x # id => p1[x] = p[x] /\ r1[x] = r[x]
  BY <1>2, <1>4, WithTwice
<1> HIDE DEF p1, r1
<1>11. CASE n = 0
  BY <1>5, <1>7, <1>9, <1>11 DEF n, p1, r1, RecordsAt
<1>12. CASE n # 0
  <2>1. W!Clear(u.mm, p1, r1, id, u.ptr, n)
    BY <1>5, <1>10, <1>12 DEF W!Clear
  <2>2. n \in Nat \ {0}
    BY <1>2, <1>12
  <2>3. /\ R!Judge(rest, u.ptr, u.ptr + n - 1, u.mm.brk - 1) = "ok"
        /\ OnRecord(R!add_range(rest, u.ptr, u.ptr + n - 1, u.mm.brk - 1),
                    With(p1, id, u.ptr), With(r1, id, n))
    BY <1>2, <1>6, <1>9, <1>10, <2>1, <2>2, ClearAccepted
  <2>4. RecordsAt(R!add_range(rest, u.ptr, u.ptr + n - 1, u.mm.brk - 1), t, lines, k)
    BY <1>7, <1>10, <2>3 DEF RecordsAt
  <2> QED
    BY <1>12, <2>3, <2>4 DEF n
<1> QED
  BY <1>11, <1>12

(* free takes its range off the record, free(NULL) none. *)
LEMMA FreeRecorded ==
  ASSUME NEW m, NEW s, NEW u, NEW t, NEW lines, NEW k, Passes(m, s, u, t, lines, k),
         lines[k].type = "f", NEW g, RecordsAt(g, s, lines, k - 1)
  PROVE  RecordsAt(IF lines[k].index = -1 THEN g ELSE R!remove_range(g, s.blocks[lines[k].index]),
                   t, lines, k)
<1> DEFINE id == lines[k].index
           p == HeldBlocks(s, lines, k - 1)
           r == HeldSizes(s, lines, k - 1)
<1>1. /\ LinesFit(lines) /\ k \in 1 .. Len(lines)
      /\ ServedAt(m, s, lines, Ids, k - 1)
  BY DEF Passes
<1>2. /\ -1 \notin Nat
      /\ id # -1 => id \in Nat /\ InUseAfter(lines, k - 1, id)
  BY <1>1, BeforeLine
<1>3. Holding(p, r) /\ OnRecord(g, p, r)
  BY <1>1, ServesHolding DEF ServedAt, RecordsAt
<1>4. HeldBlocks(t, lines, k) = With(p, id, NULL) /\ HeldSizes(t, lines, k) = With(r, id, 0)
  BY PassedLine DEF Turns
<1>5. CASE id = -1
  <2>1. With(p, id, NULL) = p /\ With(r, id, 0) = r
    BY <1>2, <1>3, <1>5 DEF With, Holding
  <2> QED
    BY <1>3, <1>4, <1>5, <2>1 DEF RecordsAt
<1>6. CASE id # -1
  <2>1. p[id] = s.blocks[id] /\ id \in Nat
    BY <1>2, <1>6, HeldBefore
  <2> HIDE DEF p, r, id
  <2>2. OnRecord(R!remove_range(g, p[id]), With(p, id, NULL), With(r, id, 0))
    BY <1>3, <2>1, ReturnedForgotten
  <2> QED
    BY <1>4, <1>6, <2>1, <2>2 DEF RecordsAt, id
<1> QED
  BY <1>5, <1>6
=============================================================================
